--------------------------- MODULE MCImageDrivers ---------------------------
(***************************************************************************)
(* ImageDrivers for TLC: sio2man and the memory-card driver above it.      *)
(***************************************************************************)
EXTENDS ImageDrivers

R == INSTANCE Requirements

MCReqs  == {"SIO2MAN", "MEMCARD"}
MCMarks == [r \in MCReqs |-> R!BitModules[r]]
MCModules == UNION {MCMarks[r] : r \in MCReqs}
MCNames == T!DriverNames
MCKeepsDepError == {d \in MCNames : T!Driver[d].keepsDepError}

OneThread == {"main"}
MCCalls ==
    {T!InitCall("sio2man", FALSE), T!DeinitCall("sio2man", FALSE),
     T!InitCall("memcard", TRUE), T!DeinitCall("memcard", TRUE)}
MCScripts == [t \in OneThread |-> {<<c>> : c \in MCCalls}]

MCFailedRets == {-1, 0}
MCStayRets   == {0, 2}
NoneStaged   == {{}}

\* A driver that answers OK has its modules resident: a load that failed is
\* tried again, with what was staged again
\* (docs/EXTERNAL_IRX_IMAGE_PLAN.md, "Failure handling").
OkMeansResident ==
    [][\A t \in Threads : End(t) => T!OwnModules(Here(t).of) \subseteq iop]_ivars
=============================================================================
