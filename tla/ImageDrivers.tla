---------------------------- MODULE ImageDrivers ----------------------------
(***************************************************************************)
(* The drivers linked with the external-image provider: DriverCalls, whose *)
(* loads take their payloads from the staged set, composed with an         *)
(* application that stages, restages and discards between its driver       *)
(* calls.  Of the provider the drivers see the staged set only: what its   *)
(* contract (StagingContract) says a success and a discard do to it.       *)
(***************************************************************************)
EXTENDS DriverCalls

CONSTANTS Reqs,    \* requirement bits
          Marks    \* the modules each bit marks

ASSUME ImageDriversAssumption ==
    /\ ImageFlavor
    /\ StagedSets = {{}}
    /\ Marks \in [Reqs -> SUBSET Modules]

VARIABLE refused   \* history: the modules whose last execution the IOP refused

ivars == <<vars, refused>>

Closure(R) == UNION {Marks[r] : r \in R}

\* A call of the provider: the application makes it, between driver calls.
Provider ==
    /\ \A t \in Threads : ~Active(t)
    /\ \/ staged = {} /\ \E R \in (SUBSET Reqs) \ {{}} : staged' = Closure(R)
       \/ staged' = {}
    /\ UNCHANGED <<irx, status, iop, job, refused>>

\* A step of the drivers; what the IOP answers to an execution is noted.
Driven ==
    \/ \E t \in Threads :
          /\ Step(t)
          /\ refused' = IF ExecFails(t) THEN refused \cup {Here(t).arg}
                        ELSE IF ExecStays(t) THEN refused \ {Here(t).arg}
                        ELSE refused
    \/ \E t \in Threads : \E s \in Scripts[t] : Begin(t, s) /\ UNCHANGED refused

IInit == Init /\ refused = {}

INext == Provider \/ Driven

ISpec == IInit /\ [][INext]_ivars

-----------------------------------------------------------------------------
(* Properties.                                                             *)

\* A module is lost to its driver only when the IOP refused it: a load that
\* failed because nothing was staged for it leaves no trace in __<irx>_id and
\* __<irx>_ret, however often, so that once the module is staged the same init
\* call loads it, and an OK means that the driver's modules are resident, but
\* for those the IOP itself refused.
MissingIsRetried ==
    [][\A t \in Threads : End(t) =>
          T!OwnModules(Here(t).arg) \subseteq iop \cup refused]_ivars

\* A payload staged for a module that is resident already (an application may
\* stage the same set again) is never handed to the IOP a second time.
NeverExecutesResident ==
    [][\A m \in staged \cap iop :
          (\E t \in Threads : Step(t)) => m \in staged']_ivars
=============================================================================
