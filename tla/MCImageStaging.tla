--------------------------- MODULE MCImageStaging ---------------------------
(***************************************************************************)
(* ImageStaging on the real tables, restricted to three requirement bits   *)
(* (the memory-card boot set and its parts: five modules).                 *)
(***************************************************************************)
EXTENDS ImageStaging

T == INSTANCE Requirements

IdOf(m) == CHOOSE i \in 1 .. Len(T!Manifest) : T!Manifest[i] = m

MCReqs  == {"SIO2MAN", "FILEXIO", "MEMCARD"}
MCMarks == [r \in MCReqs |-> {IdOf(m) : m \in T!BitModules[r]}]
MCIds   == UNION {MCMarks[r] : r \in MCReqs}
MCBases == {T!BootRequirements["MC0"], T!BootRequirements["HOST"]}

MCRequests == {{}, {"SIO2MAN"}, {"MEMCARD"}, {"SIO2MAN", BadReq}}

\* A complete image whose sizes have pairwise different subset sums, one with
\* other sizes, and two in which a module is missing.
Full     == [i \in MCIds |-> 2 ^ (i - 1)]
MCImages == {Full, [i \in MCIds |-> 3 * i],
             [i \in MCIds \ {4} |-> Full[i]], [i \in {1, 2} |-> Full[i]]}
=============================================================================
