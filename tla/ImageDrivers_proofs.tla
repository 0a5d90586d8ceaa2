------------------------- MODULE ImageDrivers_proofs -------------------------
(***************************************************************************)
(* Proofs about the drivers linked with the provider, for one thread and   *)
(* any modules, scripts and staged sets: a missing payload loses no        *)
(* module, and a payload of a resident module is never executed.           *)
(***************************************************************************)
EXTENDS ImageDrivers, DriverCalls_proofs

\* The application's call to the provider does not touch the drivers, and what
\* it stages are modules.
LEMMA ProviderStages ==
    ASSUME Provider
    PROVE  UNCHANGED <<irx, status, iop, job, refused>> /\ staged' \in SUBSET Modules
<1>1. ASSUME NEW R \in SUBSET Reqs PROVE Closure(R) \in SUBSET Modules
  BY ImageDriversAssumption DEF Closure
<1> QED
  BY <1>1 DEF Provider

\* Every step of the composed system is one of the provider, or of the drivers.
LEMMA ComposedStep ==
    ASSUME [INext]_ivars
    PROVE  Provider \/ [Next]_vars
BY DEF INext, Driven, Next, ivars

\* The composed system keeps the types.
LEMMA ComposedType == TypeOK /\ [INext]_ivars => TypeOK'
<1> SUFFICES ASSUME TypeOK, [INext]_ivars PROVE TypeOK'
  OBVIOUS
<1>1. CASE Provider
  BY <1>1, ProviderStages DEF TypeOK
<1>2. CASE [Next]_vars
  BY <1>2, NextType
<1> QED
  BY <1>1, <1>2, ComposedStep

\* The composed system keeps what the only thread has tested.
LEMMA ComposedSolo ==
    ASSUME NEW t, Threads = {t}, MayRefuse = FALSE, TypeOK, Solo(t), [INext]_ivars
    PROVE  Solo(t)'
<1>1. CASE Provider
  <2>1. UNCHANGED <<irx, iop, job>>
    BY <1>1, ProviderStages
  <2> QED
    BY <2>1 DEF Solo, ResidentIsKnown, CHECK_IRX_UNLOAD, CHECK_IRX_LOAD, At,
                Active, Here
<1>2. CASE [Next]_vars
  BY <1>2, NextSolo
<1> QED
  BY <1>1, <1>2, ComposedStep

-----------------------------------------------------------------------------
(* A missing payload loses no module.                                      *)

\* What the drivers know by themselves, and need for their OK.
Knows(t) ==
    /\ TypeOK /\ LoadedVarsAreResident /\ Known(t)
    /\ Planned("end", job[t].calls)

\* They know it with the provider too: its calls change nothing of this.
LEMMA ComposedKnows ==
    ASSUME NEW t, Threads = {t}, Knows(t), [INext]_ivars
    PROVE  Knows(t)'
<1> USE DEF Knows
<1>1. TypeOK'
  BY ComposedType
<1>2. CASE Provider
  <2>1. UNCHANGED <<irx, status, iop, job>>
    BY <1>2, ProviderStages
  <2>2. LoadedVarsAreResident'
    BY <2>1 DEF LoadedVarsAreResident, CHECK_IRX_UNLOAD, Resetting, At, Active, Here
  <2>3. Known(t)'
    BY <2>1 DEF Known, CHECK_IRX_ERR, CHECK_IRX_UNLOAD, CHECK_IRX_LOAD, At, Active, Here
  <2>4. Planned("end", job[t].calls)'
    BY <2>1 DEF Planned, Due, Accounted, GivenUp, CHECK_IRX_ERR
  <2> QED
    BY <1>1, <2>2, <2>3, <2>4
<1>3. CASE [Next]_vars
  <2> t \in Threads
    OBVIOUS
  <2>1. Known(t)' /\ LoadedVarsAreResident'
    BY <1>3, KnownStays, NextLoaded
  <2>2. Planned("end", job[t].calls)'
    BY <1>3, PlannedNext, EndsInOrder
  <2> QED
    BY <1>1, <2>1, <2>2
<1> QED
  BY <1>2, <1>3, ComposedStep

\* A module that was given up is one that the IOP refused.
LostIsRefused == \A m \in Modules : GivenUp(m) => m \in refused

\* The module whose load is at hand has fresh variables: a missing payload leaves
\* them fresh, and what the IOP refuses is noted.
LEMMA ExecutingLoses ==
    ASSUME NEW t \in Threads, Knows(t), LostIsRefused, Executing(t),
           refused' = IF ExecFails(t) THEN refused \cup {Here(t).arg}
                      ELSE IF ExecStays(t) THEN refused \ {Here(t).arg}
                      ELSE refused
    PROVE  LostIsRefused'
<1> SUFFICES ASSUME NEW m \in Modules, GivenUp(m)' PROVE m \in refused'
  BY DEF LostIsRefused
<1>0. TypeOK /\ Known(t)
  BY DEF Knows
<1>1. CASE m # Here(t).arg
  <2>1. irx'[m] = irx[m]
    BY <1>0, <1>1, ExecutingStep
  <2>2. m \in refused
    BY <2>1 DEF GivenUp, CHECK_IRX_ERR, LostIsRefused
  <2> QED
    BY <1>1, <2>2
<1>2. CASE m = Here(t).arg
  <2>1. CHECK_IRX_LOAD(m) /\ irx[m] = Fresh
    BY <1>0, <1>2, ExecutingStep, FreshIs DEF Known
  <2>2. CASE ExecFails(t)
    BY <1>2, <2>2
  <2>3. ASSUME ~ExecFails(t), ExecStays(t) PROVE FALSE
    <3>1. PICK r \in StayRets : irx' = [irx EXCEPT ![m] = [id |-> 1, ret |-> r]]
      BY <1>2, <2>3 DEF ExecStays, Execute
    <3>2. irx'[m].id = 1 /\ irx'[m].ret = r /\ r \in {0, 2}
      BY <1>0, <3>1, DriversAssumption DEF TypeOK
    <3> QED
      BY <3>2 DEF GivenUp, CHECK_IRX_ERR
  <2>4. ASSUME ExecNotStaged(t) PROVE FALSE
    <3>1. irx' = [irx EXCEPT ![m].id = -1]
      BY <1>2, <2>4 DEF ExecNotStaged
    <3>2. irx'[m] = Fresh
      BY <1>0, <2>1, <3>1 DEF TypeOK, Fresh
    <3> QED
      BY <3>2 DEF GivenUp
  <2> QED
    BY <2>2, <2>3, <2>4 DEF Executing
<1> QED
  BY <1>1, <1>2

\* Every step keeps it: an unload resets the variables to fresh ones.
LEMMA LostStays ==
    ASSUME NEW u, Threads = {u}, Knows(u), LostIsRefused, [INext]_ivars
    PROVE  LostIsRefused'
<1>1. CASE UNCHANGED <<irx, refused>>
  BY <1>1 DEF LostIsRefused, GivenUp, CHECK_IRX_ERR
<1>2. CASE Provider
  BY <1>1, <1>2, ProviderStages
<1>3. CASE UNCHANGED ivars
  BY <1>1, <1>3 DEF ivars, vars
<1>4. CASE \E s \in Scripts[u] : Begin(u, s) /\ UNCHANGED refused
  BY <1>1, <1>4 DEF Begin
<1>5. ASSUME Step(u),
             refused' = IF ExecFails(u) THEN refused \cup {Here(u).arg}
                        ELSE IF ExecStays(u) THEN refused \ {Here(u).arg}
                        ELSE refused
      PROVE  LostIsRefused'
  <2> u \in Threads
    OBVIOUS
  <2>1. CASE Executing(u)
    BY <1>5, <2>1, ExecutingLoses
  <2>2. CASE ~Executing(u) /\ (Idling(u) \/ SifUnloadModule(u))
    <3>1. UNCHANGED irx
      BY <2>2, IdlingStep DEF SifUnloadModule
    <3>2. UNCHANGED refused
      BY <1>5, <2>2 DEF Executing
    <3> QED
      BY <1>1, <3>1, <3>2
  <2>3. CASE ~Executing(u) /\ RESET_IRX_VARS(u)
    <3>1. UNCHANGED refused
      BY <1>5, <2>3 DEF Executing
    <3>2. TypeOK
      BY DEF Knows
    <3>3. \A m \in Modules : irx'[m] = irx[m] \/ irx'[m] = Fresh
      BY <2>3, <3>2 DEF RESET_IRX_VARS, TypeOK
    <3> QED
      BY <3>1, <3>3 DEF LostIsRefused, GivenUp, CHECK_IRX_ERR
  <2> QED
    BY <1>5, <2>1, <2>2, <2>3, StepKinds
<1> QED
  BY <1>2, <1>3, <1>4, <1>5 DEF INext, Driven

\* A module whose payload was not staged is loaded once it is: an OK answers for
\* every module of the driver but those that the IOP itself refused, for any
\* calls of the table by one thread and whatever is staged in between.
THEOREM MissingRetried ==
    ASSUME NEW main, Threads = {main}
    PROVE  ISpec => MissingIsRetried
<1> main \in Threads
  OBVIOUS
<1>1. ASSUME IInit PROVE Knows(main) /\ LostIsRefused
  <2>1. Init
    BY <1>1 DEF IInit
  <2>2. LoadedVarsAreResident /\ LostIsRefused
    BY <2>1 DEF Init, LoadedVarsAreResident, CHECK_IRX_UNLOAD, Fresh, LostIsRefused, GivenUp
  <2> QED
    BY <2>1, <2>2, InitType, InitKnown, InitPlanned DEF Knows
<1>2. Knows(main) /\ LostIsRefused /\ [INext]_ivars => (Knows(main) /\ LostIsRefused)'
  BY ComposedKnows, LostStays
<1>3. Knows(main) /\ LostIsRefused /\ [INext]_ivars =>
         [\A t \in Threads : End(t) =>
             T!OwnModules(Here(t).arg) \subseteq iop \cup refused]_ivars
  <2> SUFFICES ASSUME Knows(main), LostIsRefused, End(main),
                      NEW m \in T!OwnModules(Here(main).arg)
               PROVE  m \in iop \cup refused
    OBVIOUS
  <2>1. m \in Modules /\ Accounted(m)
    BY EndAccounts DEF Knows, End, At
  <2> QED
    BY <2>1 DEF Accounted, LostIsRefused
<1> QED
  BY <1>1, <1>2, <1>3, PTL DEF ISpec, MissingIsRetried

-----------------------------------------------------------------------------
(* A payload of a resident module is not executed.                         *)

\* A load takes from the staged set the module it executes, and no other.
LEMMA ExecuteConsumes ==
    ASSUME NEW t \in Threads, NEW v, Execute(t, v)
    PROVE  Here(t).arg \in staged /\ staged' = staged \ {Here(t).arg}
BY ImageDriversAssumption DEF Execute

\* What the only thread executes is not resident: resident modules are known,
\* and a known module is not loaded.
LEMMA ExecutesAbsent ==
    ASSUME TypeOK, NEW t \in Threads, Solo(t), NEW v, Execute(t, v)
    PROVE  Here(t).arg \notin iop
BY DEF Solo, Execute, ResidentIsKnown, CHECK_IRX_LOAD, CHECK_IRX_UNLOAD

\* With one thread, and an IOP that unloads what it is asked to: whatever is
\* staged, and however often, no payload of a resident module is handed to the
\* IOP; it stays staged until the application discards it.
THEOREM ResidentStaysStaged ==
    ASSUME NEW u, Threads = {u}, MayRefuse = FALSE
    PROVE  ISpec => NeverExecutesResident
<1>1. IInit => TypeOK /\ Solo(u)
  BY InitType, InitSolo DEF IInit
<1>2. TypeOK /\ Solo(u) /\ [INext]_ivars => TypeOK' /\ Solo(u)'
  BY ComposedType, ComposedSolo
<1>3. TypeOK /\ Solo(u) /\ [INext]_ivars =>
         [\A m \in staged \cap iop :
             (\E t \in Threads : Step(t)) => m \in staged']_ivars
  <2> SUFFICES ASSUME TypeOK, Solo(u), NEW m \in staged \cap iop, Step(u)
               PROVE  m \in staged'
    OBVIOUS
  <2> u \in Threads
    OBVIOUS
  <2>1. ASSUME NEW v, Execute(u, v) PROVE m \in staged'
    BY <2>1, ExecutesAbsent, ExecuteConsumes
  <2>2. CASE ExecFails(u)
    BY <2>1, <2>2 DEF ExecFails
  <2>3. CASE ExecStays(u)
    BY <2>1, <2>3 DEF ExecStays
  <2>4. CASE ~(ExecFails(u) \/ ExecStays(u))
    BY <2>4 DEF Step, LoadCheck, ExecNotStaged, UnloadCheck, SifUnloadModule,
                RESET_IRX_VARS, TryPasses, TryFails, Run, End, OffCheck, OffLoop
  <2> QED
    BY <2>2, <2>3, <2>4
<1> QED
  BY <1>1, <1>2, <1>3, PTL DEF ISpec, NeverExecutesResident
=============================================================================
