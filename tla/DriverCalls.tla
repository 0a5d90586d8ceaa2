---------------------------- MODULE DriverCalls ----------------------------
(***************************************************************************)
(* Drivers that run the calls of the real driver table, and what these     *)
(* calls promise about modules: an OK accounts for the driver's own, what  *)
(* is needed comes first, and the DDIOC_OFF loop has somebody to ask.      *)
(***************************************************************************)
EXTENDS Drivers

T == INSTANCE DriverTable

InitCalls(deps) ==
    {T!InitCall(d, deps) : d \in T!DriverNames}
       \cup {T!InitHddCall(deps, b) : b \in BOOLEAN}

DeinitCalls == {T!DeinitCall(d, deps) : d \in T!DriverNames, deps \in BOOLEAN}

TableCalls == InitCalls(TRUE) \cup InitCalls(FALSE) \cup DeinitCalls

\* The modules of the drivers that d needs.
NeedsOf(d) ==
    UNION {T!OwnModules(T!Driver[d].needs[i]) : i \in 1 .. Len(T!Driver[d].needs)}

\* The modules that the call must have loaded before an operation: a driver's
\* own, before its init ends ("end"), and those of the drivers it needs, before
\* it loads one of its own ("load").
Wants(what, o) ==
    IF o.op # what THEN {}
    ELSE IF what = "end" THEN T!OwnModules(o.arg)
    ELSE IF o.of = o.top THEN NeedsOf(o.of) ELSE {}

Loads(o, m) == o.op = "load" /\ o.arg = m

\* A call in which each of these has a load before it, and no unload.
InOrder(what, c) ==
    \A i \in 1 .. Len(c) : \A m \in Wants(what, c[i]) :
       /\ \E j \in 1 .. i - 1 : Loads(c[j], m)
       /\ \A j \in 1 .. i : c[j].op # "unload"

Quiet(c) == \A i \in 1 .. Len(c) : c[i].op # "unload"

\* An init of d alone.
InitOf(d, c) ==
    /\ Quiet(c) /\ c[Len(c)].op = "end" /\ c[Len(c)].arg = d
    /\ \A i \in 1 .. Len(c) : c[i].of = d

\* A script in which d is initialised before any DDIOC_OFF loop, with nothing
\* unloaded in between.
UpBeforeOff(d, s) ==
    \A k \in 1 .. Len(s) : \A i \in 1 .. Len(s[k]) :
       s[k][i].op = "off" =>
          \E j \in 1 .. k - 1 :
             /\ InitOf(d, s[j])
             /\ \A l \in j + 1 .. k - 1 : Quiet(s[l])
             /\ \A n \in 1 .. i - 1 : s[k][n].op # "unload"

\* The drivers are those of the table, and the scripts calls of it.
ASSUME DriverCallsAssumption ==
    /\ Names = T!DriverNames
    /\ \A t \in Threads : \A s \in Scripts[t] :
          \A k \in 1 .. Len(s) : s[k] \in TableCalls

\* What the whole table holds, by evaluation.
ASSUME DriverTableAssumption ==
    /\ \A c \in TableCalls : InOrder("end", c)
    /\ \A c \in InitCalls(TRUE) \cup DeinitCalls : InOrder("load", c)
    /\ {"fileXio", "dev9"} \subseteq T!DriverNames
    /\ DevctlNeeds = T!OwnModules("fileXio") \cup T!OwnModules("dev9")

-----------------------------------------------------------------------------
(* Properties.                                                             *)

\* A module that is not resident although its variables are not fresh: its load
\* failed, and no later call tries again.
GivenUp(m) == irx[m] # Fresh /\ CHECK_IRX_ERR(m)

Accounted(m) == m \in iop \/ GivenUp(m)

\* A driver stores OK only when each of its own modules is resident, or is one
\* that failed to load in an earlier call.
OkAccountsForModules ==
    [][\A t \in Threads : End(t) =>
          \A m \in T!OwnModules(Here(t).arg) : Accounted(m)]_vars

\* A call that initialises a driver's dependencies hands no module of the driver
\* to the IOP before all of theirs are resident, but for those that failed to
\* load in an earlier call (for scripts whose init calls all have
\* init_dependencies).
NeedsFirst ==
    \A t \in Threads :
       At(t, "exec", "load") /\ Here(t).of = Here(t).top =>
          \A m \in NeedsOf(Here(t).of) : Accounted(m)

\* deinit_dev9_driver() asks for DDIOC_OFF with nobody to answer only if fileXio
\* answered an error, or a module that the request needs was given up: the
\* statuses of an earlier round never make it ask for a driver that this round
\* did not bring up (for scripts that bring fileXio and dev9 up before it).
OffAnswered ==
    \A t \in Threads :
       At(t, "off", "off") /\ status["fileXio"] = "ok" =>
          DevctlNeeds \subseteq iop \/ \E m \in DevctlNeeds : GivenUp(m)
=============================================================================
