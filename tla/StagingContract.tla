-------------------------- MODULE StagingContract --------------------------
(***************************************************************************)
(* What the external-image provider promises its users, call by call.  A   *)
(* staging call that is refused has changed nothing.  One that succeeds    *)
(* found nothing staged, has staged every module of the requirement word,  *)
(* and is remembered: the image it named, or for a restage the remembered  *)
(* one, and the word it named, or for restage_last() the word of the last  *)
(* success.  A staged module is executed at most once, and only discarding *)
(* takes staged modules away unexecuted, only forgetting the source.       *)
(***************************************************************************)
CONSTANTS Paths,        \* image file names
          Reqs,         \* the known requirement bits
          Closure(_),   \* the modules a set of bits stands for
          NULL

VARIABLES staged,       \* modules that can still be executed
          source,       \* the remembered image, or NULL
          last,         \* the requirement word of the last successful call
          call,         \* the call made last: [op, path, req, id]
          answer        \* its answer, "none" while it runs

kept  == <<staged, source, last>>
cvars == <<kept, call, answer>>

StagingOps == {"stage", "restage", "restage_last"}
Errors     == {"ARGUMENT", "ALREADY_STAGED", "OPEN", "IO", "FORMAT",
               "MISSING_MODULE", "CRC", "MEMORY", "NO_SOURCE", "CWD"}

Running == answer = "none"

\* The image and the word that the running call is about.
Image == IF call.op = "stage" THEN call.path ELSE source
Word  == IF call.op = "restage_last" THEN last ELSE call.req

CInit ==
    /\ staged = {} /\ source = NULL /\ last = {}
    /\ call.op = "none" /\ ~Running

\* A staging call begins.
Start ==
    /\ ~Running
    /\ call'.op \in StagingOps /\ answer' = "none"
    /\ UNCHANGED kept

Succeed ==
    /\ Running /\ staged = {}
    /\ Image \in Paths /\ Word \in SUBSET Reqs /\ Closure(Word) # {}
    /\ staged' = Closure(Word) /\ source' = Image /\ last' = Word
    /\ answer' = "OK" /\ UNCHANGED call

\* A staging call, the running one or a new one, returns an error.
Refuse ==
    /\ Running => call' = call
    /\ call'.op \in StagingOps /\ answer' \in Errors
    /\ answer' = "ALREADY_STAGED" => staged # {}
    /\ answer' = "NO_SOURCE" => call'.op # "stage" /\ source = NULL
    /\ UNCHANGED kept

\* ps2_irx_exec() consumes the module it finds, whatever the IOP answers.
Execute ==
    /\ ~Running /\ call'.op = "exec"
    /\ answer' = IF call'.id \in staged THEN "EXECUTED" ELSE "NOT_STAGED"
    /\ staged' = staged \ {call'.id}
    /\ UNCHANGED <<source, last>>

Discard ==
    /\ ~Running /\ call'.op = "discard" /\ UNCHANGED answer
    /\ staged' = {} /\ UNCHANGED <<source, last>>

Forget ==
    /\ ~Running /\ call'.op = "forget" /\ UNCHANGED answer
    /\ source' = NULL /\ last' = {} /\ UNCHANGED staged

CNext == Start \/ Succeed \/ Refuse \/ Execute \/ Discard \/ Forget

Contract == CInit /\ [][CNext]_cvars
=============================================================================
