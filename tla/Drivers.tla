------------------------------ MODULE Drivers ------------------------------
(***************************************************************************)
(* The drivers at work: threads of the EE that run init_*_driver() and     *)
(* deinit_*_driver() calls over the shared __<irx>_id and __<irx>_ret      *)
(* variables, the driver statuses and the modules resident on the IOP.     *)
(*                                                                         *)
(* A thread's job is the sequence of calls it still has to make, a call    *)
(* the sequence of its remaining operations (DriverTable).  A test of the  *)
(* shared variables and the RPC that follows it are separate steps, and so *)
(* are SifUnloadModule() and RESET_IRX_VARS(): the poweroff thread, or a   *)
(* second application thread, may run in between.  The two stores after an *)
(* RPC (id and ret), and the two of RESET_IRX_VARS, are one step.          *)
(***************************************************************************)
EXTENDS Integers, Sequences, FiniteSets

CONSTANTS
    Modules,        \* the IRX modules
    Names,          \* the drivers
    KeepsDepError,  \* the drivers that store a dependency's error
    Threads,
    Scripts,        \* Scripts[t]: the sequences of calls thread t may make
    FailedRets,     \* what __<irx>_ret may hold after a load that failed
    StayRets,       \* what modules that stay answer, within {0, 2}
    StagedSets,     \* what the application may have staged at the start
    MayRefuse,      \* SifUnloadModule() may refuse a MODULE_RESIDENT_END module
    ImageFlavor     \* linked with ps2_irx_module_image.c

Phases == {"next", "exec", "unload", "reset", "off"}
Rets   == {-1, 0, 1, 2}
Ids    == {-200, -1, 1}     \* an IOP error, no module, a module's id

Op == [op : {"load", "unload"}, arg : Modules, of : Names, top : Names]
      \cup [op : {"try", "run", "off", "env"}, arg : STRING, of : Names \cup {"none"},
            top : Names \cup {"none"}]
      \cup [op : {"end"}, arg : Names, of : Names, top : Names]

Calls == Seq(Op) \ {<< >>}

ASSUME DriversAssumption ==
    /\ FailedRets \subseteq Rets /\ StayRets \subseteq {0, 2}
    /\ StagedSets \subseteq SUBSET Modules
    /\ KeepsDepError \subseteq Names
    /\ Scripts \in [Threads -> SUBSET (Seq(Calls) \ {<< >>})]

VARIABLES
    irx,      \* irx[m]: [id |-> __m_id, ret |-> __m_ret]
    status,   \* status[d]: __d_init_status, "unknown", "error" or "ok"
    iop,      \* the modules resident on the IOP
    staged,   \* the modules the image provider holds
    job       \* job[t]: the calls left and where the head operation is

vars == <<irx, status, iop, staged, job>>

Fresh == [id |-> -1, ret |-> -1]
Idle  == [calls |-> << >>, at |-> "next"]

\* Slip: the test is missing.
CHECK_IRX_LOAD_Always(m) == TRUE

\* irx_common_macros.h
CHECK_IRX_LOAD(m)   == irx[m].id = -1 /\ irx[m].ret = -1
CHECK_IRX_ERR(m)    == irx[m].id < 0 \/ irx[m].ret = 1

\* Slip: only a removable module is unloaded and forgotten.
CHECK_IRX_UNLOAD_Removable(m) == irx[m].id >= 0 /\ irx[m].ret = 2

CHECK_IRX_UNLOAD(m) == irx[m].id >= 0 /\ irx[m].ret \in {0, 2}

-----------------------------------------------------------------------------
(* Control.                                                                *)

Active(t) == job[t].calls # << >>
Here(t)   == job[t].calls[1][1]
At(t, phase, op) == Active(t) /\ job[t].at = phase /\ Here(t).op = op

\* Slip: a finished call stays on the list.
Left_KeepsEmpty(calls) == <<Tail(calls[1])>> \o Tail(calls)

\* The head operation is done.
Left(calls) ==
    IF Len(calls[1]) = 1 THEN Tail(calls) ELSE <<Tail(calls[1])>> \o Tail(calls)

Goto(t, phase) == job' = [job EXCEPT ![t].at = phase]

Advance(t) == job' = [job EXCEPT ![t] = [calls |-> Left(@.calls), at |-> "next"]]

\* Slip: an operation that failed is stepped over.
Abandon_StepsOver(t) ==
    /\ Advance(t)
    /\ status' = [status EXCEPT ![Here(t).of] = "error"]

\* Slip: the error is returned without being stored.
Abandon_KeepsStatus(t) ==
    /\ job' = [job EXCEPT ![t] = [calls |-> Tail(@.calls), at |-> "next"]]
    /\ UNCHANGED status

\* The head call returns an error: the driver whose operation failed, and the
\* one on top of it if it keeps the errors of what it needs, store it.
Abandon(t) ==
    /\ job' = [job EXCEPT ![t] = [calls |-> Tail(@.calls), at |-> "next"]]
    /\ status' = [d \in Names |->
                     IF d = Here(t).of \/ (d = Here(t).top /\ d \in KeepsDepError)
                     THEN "error" ELSE status[d]]

Begin(t, s) ==
    /\ ~Active(t)
    /\ job' = [job EXCEPT ![t] = [calls |-> s, at |-> "next"]]
    /\ UNCHANGED <<irx, status, iop, staged>>

-----------------------------------------------------------------------------
(* loadIRXs()                                                              *)

LoadCheck(t) ==
    /\ At(t, "next", "load")
    /\ IF CHECK_IRX_LOAD(Here(t).arg) THEN Goto(t, "exec") ELSE Advance(t)
    /\ UNCHANGED <<irx, status, iop, staged>>

\* Slip: the missing payload is noted in ret, as a module that does not stay.
ExecNotStaged_WritesRet(t) ==
    /\ At(t, "exec", "load")
    /\ ImageFlavor /\ Here(t).arg \notin staged
    /\ irx' = [irx EXCEPT ![Here(t).arg] = [id |-> -1, ret |-> 1]]
    /\ Abandon(t)
    /\ UNCHANGED <<iop, staged>>

\* ps2_irx_exec() of the image flavour has no payload: ret is not written.
ExecNotStaged(t) ==
    /\ At(t, "exec", "load")
    /\ ImageFlavor /\ Here(t).arg \notin staged
    /\ irx' = [irx EXCEPT ![Here(t).arg].id = -1]
    /\ Abandon(t)
    /\ UNCHANGED <<iop, staged>>

\* The payload is gone after the execution, whatever the IOP answered.
Execute(t, v) ==
    /\ At(t, "exec", "load")
    /\ ImageFlavor => Here(t).arg \in staged
    /\ irx' = [irx EXCEPT ![Here(t).arg] = v]
    /\ staged' = staged \ {Here(t).arg}

\* The IOP does not load the module, or its start routine does not stay: among
\* others because the module is resident already.
ExecFails(t) ==
    /\ \E v \in [id : {-200, -1}, ret : FailedRets] \cup {[id |-> 1, ret |-> 1]} :
          Execute(t, v)
    /\ Abandon(t)
    /\ UNCHANGED iop

ExecStays(t) ==
    /\ \E r \in StayRets : Execute(t, [id |-> 1, ret |-> r])
    /\ Here(t).arg \notin iop
    /\ iop' = iop \cup {Here(t).arg}
    /\ Advance(t)
    /\ UNCHANGED status

-----------------------------------------------------------------------------
(* unloadIRXs()                                                            *)

UnloadCheck(t) ==
    /\ At(t, "next", "unload")
    /\ IF CHECK_IRX_UNLOAD(Here(t).arg) THEN Goto(t, "unload") ELSE Advance(t)
    /\ UNCHANGED <<irx, status, iop, staged>>

\* The answer of SifUnloadModule() is not looked at.  Its argument is read now:
\* a negative id names no module.
SifUnloadModule(t) ==
    /\ At(t, "unload", "unload")
    /\ \/ iop' = IF irx[Here(t).arg].id >= 0 THEN iop \ {Here(t).arg} ELSE iop
       \/ MayRefuse /\ irx[Here(t).arg].ret = 0 /\ UNCHANGED iop
    /\ Goto(t, "reset")
    /\ UNCHANGED <<irx, status, staged>>

\* Slip: the variables are not reset.
RESET_IRX_VARS_Missing(t) ==
    /\ At(t, "reset", "unload")
    /\ Advance(t)
    /\ UNCHANGED <<irx, status, iop, staged>>

RESET_IRX_VARS(t) ==
    /\ At(t, "reset", "unload")
    /\ irx' = [irx EXCEPT ![Here(t).arg] = Fresh]
    /\ Advance(t)
    /\ UNCHANGED <<status, iop, staged>>

-----------------------------------------------------------------------------
(* Libraries, checks and the end of an init call.                          *)

TryPasses(t) ==
    /\ At(t, "next", "try")
    /\ Advance(t)
    /\ UNCHANGED <<irx, status, iop, staged>>

TryFails(t) ==
    /\ At(t, "next", "try")
    /\ Abandon(t)
    /\ UNCHANGED <<irx, iop, staged>>

Run(t) ==
    /\ Active(t) /\ Here(t).op \in {"run", "env"}
    /\ Advance(t)
    /\ UNCHANGED <<irx, status, iop, staged>>

End(t) ==
    /\ At(t, "next", "end")
    /\ status' = [status EXCEPT ![Here(t).arg] = "ok"]
    /\ Advance(t)
    /\ UNCHANGED <<irx, iop, staged>>

\* deinit_dev9_driver(): DDIOC_OFF is asked until it is answered, if the driver
\* was ever initialised.
OffCheck(t) ==
    /\ At(t, "next", "off")
    /\ IF status["dev9"] = "ok" THEN Goto(t, "off") ELSE Advance(t)
    /\ UNCHANGED <<irx, status, iop, staged>>

\* What fileXioDevctl("dev9x:") needs on the IOP.
DevctlNeeds == {"iomanX", "fileXio", "ps2dev9"}

OffLoop(t) ==
    /\ At(t, "off", "off")
    /\ IF DevctlNeeds \subseteq iop THEN Advance(t) ELSE UNCHANGED job
    /\ UNCHANGED <<irx, status, iop, staged>>

-----------------------------------------------------------------------------
Init ==
    /\ irx = [m \in Modules |-> Fresh]
    /\ status = [d \in Names |-> "unknown"]
    /\ iop = {} /\ staged \in StagedSets
    /\ job = [t \in Threads |-> Idle]

Step(t) ==
    \/ LoadCheck(t)
    \/ ExecNotStaged(t)
    \/ ExecFails(t)
    \/ ExecStays(t)
    \/ UnloadCheck(t)
    \/ SifUnloadModule(t)
    \/ RESET_IRX_VARS(t)
    \/ TryPasses(t)
    \/ TryFails(t)
    \/ Run(t)
    \/ End(t)
    \/ OffCheck(t)
    \/ OffLoop(t)

Next == \E t \in Threads : Step(t) \/ \E s \in Scripts[t] : Begin(t, s)

Spec == Init /\ [][Next]_vars

-----------------------------------------------------------------------------
(* Properties.                                                             *)

\* Every variable has its type; an operation waits only where the code does.
TypeOK ==
    /\ irx \in [Modules -> [id : Ids, ret : Rets]]
    /\ status \in [Names -> {"unknown", "error", "ok"}]
    /\ iop \in SUBSET Modules /\ staged \in SUBSET Modules
    /\ job \in [Threads -> [calls : Seq(Calls), at : Phases]]

Resetting(m) == \E t \in Threads : At(t, "reset", "unload") /\ Here(t).arg = m

\* Variables that say "loaded, can be unloaded" never outlive the module: in
\* every interleaving of init and deinit calls of any number of threads, they
\* are wrong only between SifUnloadModule() and RESET_IRX_VARS().
LoadedVarsAreResident ==
    \A m \in Modules : CHECK_IRX_UNLOAD(m) => m \in iop \/ Resetting(m)

\* With one thread, and an IOP that unloads what it is asked to: a resident
\* module is one its driver knows how to unload and will not load again, after
\* any sequence of calls, failures and retries.
ResidentIsKnown == \A m \in iop : CHECK_IRX_UNLOAD(m)
=============================================================================
