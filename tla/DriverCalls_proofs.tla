------------------------- MODULE DriverCalls_proofs -------------------------
(***************************************************************************)
(* Proofs about the calls of the driver table, for one thread and any      *)
(* scripts, staged modules and answers of the IOP.                         *)
(***************************************************************************)
EXTENDS DriverCalls, Drivers_proofs

-----------------------------------------------------------------------------
(* What the modules' variables can be, and when a module is lost.          *)

\* Every variable is understood: a load failed or was not tried, or the module
\* can be unloaded.  And what the thread has tested still holds.
Known(t) ==
    /\ \A m \in Modules : CHECK_IRX_ERR(m) \/ CHECK_IRX_UNLOAD(m)
    /\ At(t, "exec", "load") => CHECK_IRX_LOAD(Here(t).arg)
    /\ At(t, "off", "off") => status["dev9"] = "ok"

\* A module whose variables are not fresh was given up, or can be unloaded.
LEMMA NotFresh ==
    ASSUME NEW t, Known(t), NEW m \in Modules, ~CHECK_IRX_LOAD(m)
    PROVE  GivenUp(m) \/ CHECK_IRX_UNLOAD(m)
<1>1. irx[m] # Fresh
  BY DEF CHECK_IRX_LOAD, Fresh
<1> QED
  BY <1>1 DEF Known, GivenUp

\* The variables of a module that may be loaded are fresh.
LEMMA FreshIs ==
    ASSUME TypeOK, NEW m \in Modules, CHECK_IRX_LOAD(m)
    PROVE  irx[m] = Fresh
<1>1. irx[m] \in [id : Ids, ret : Rets]
  BY DEF TypeOK
<1> QED
  BY <1>1 DEF CHECK_IRX_LOAD, Fresh

\* The steps that leave the modules and their variables alone.
Idling(t) ==
    \/ LoadCheck(t) \/ UnloadCheck(t) \/ TryPasses(t) \/ TryFails(t) \/ Run(t)
    \/ End(t) \/ OffCheck(t) \/ OffLoop(t)

\* They do that.
LEMMA IdlingStep ==
    ASSUME NEW t, Idling(t)
    PROVE  Active(t) /\ UNCHANGED <<irx, iop>>
BY DEF Idling, LoadCheck, UnloadCheck, TryPasses, TryFails, Run, End, OffCheck, OffLoop, At

\* The steps that execute a module.
Executing(t) == ExecNotStaged(t) \/ ExecFails(t) \/ ExecStays(t)

\* They take no module away, and change the variables of the module at hand: to
\* those of a load that failed, or of one that can be unloaded.
LEMMA ExecutingStep ==
    ASSUME TypeOK, NEW t \in Threads, Executing(t)
    PROVE  /\ Active(t) /\ At(t, "exec", "load") /\ Here(t).arg \in Modules
           /\ iop \subseteq iop'
           /\ \A m \in Modules : m # Here(t).arg => irx'[m] = irx[m]
           /\ \A m \in Modules : m = Here(t).arg =>
                 irx'[m].id < 0 \/ irx'[m].ret = 1
                 \/ (irx'[m].id = 1 /\ irx'[m].ret \in {0, 2})
<1>1. At(t, "exec", "load") /\ Active(t) /\ Here(t).op = "load" /\ iop \subseteq iop'
  BY DEF Executing, ExecNotStaged, ExecFails, ExecStays, Execute, At
<1>2. PICK x \in Modules : x = Here(t).arg
  BY <1>1, OperandIsModule
<1>3. PICK v : irx' = [irx EXCEPT ![x] = v] /\ (v.id < 0 \/ v.ret = 1
                                                 \/ (v.id = 1 /\ v.ret \in {0, 2}))
  <2>1. CASE ExecNotStaged(t)
    <3>1. PICK v : v = [irx[x] EXCEPT !.id = -1]
      OBVIOUS
    <3>2. irx' = [irx EXCEPT ![x] = v]
      BY <1>2, <2>1, <3>1 DEF ExecNotStaged, TypeOK
    <3>3. v.id < 0
      BY <3>1 DEF TypeOK
    <3> QED
      BY <3>2, <3>3
  <2>2. ASSUME ExecFails(t)
        PROVE  \E v : irx' = [irx EXCEPT ![x] = v] /\ (v.id < 0 \/ v.ret = 1
                                                 \/ (v.id = 1 /\ v.ret \in {0, 2}))
    <3>1. PICK v \in [id : {-200, -1}, ret : FailedRets] \cup {[id |-> 1, ret |-> 1]} :
             Execute(t, v)
      BY <2>2 DEF ExecFails
    <3>2. v.id < 0 \/ v.ret = 1
      OBVIOUS
    <3> QED
      BY <1>2, <3>1, <3>2 DEF Execute
  <2>3. ASSUME ExecStays(t)
        PROVE  \E v : irx' = [irx EXCEPT ![x] = v] /\ (v.id < 0 \/ v.ret = 1
                                                 \/ (v.id = 1 /\ v.ret \in {0, 2}))
    <3>1. PICK r \in StayRets : Execute(t, [id |-> 1, ret |-> r])
      BY <2>3 DEF ExecStays
    <3>2. PICK v : v = [id |-> 1, ret |-> r]
      OBVIOUS
    <3>3. irx' = [irx EXCEPT ![x] = v]
      BY <1>2, <3>1, <3>2 DEF Execute
    <3>4. v.id = 1 /\ v.ret \in {0, 2}
      BY <3>2, DriversAssumption
    <3> QED
      BY <3>3, <3>4
  <2> QED
    BY <2>1, <2>2, <2>3 DEF Executing
<1> QED
  BY <1>1, <1>2, <1>3 DEF TypeOK

\* Every step is one of these, an unload, or the reset after it.
LEMMA StepKinds ==
    ASSUME NEW t, Step(t)
    PROVE  Idling(t) \/ Executing(t) \/ SifUnloadModule(t) \/ RESET_IRX_VARS(t)
BY DEF Step, Idling, Executing

\* A thread that steps has a call.
LEMMA StepActive ==
    ASSUME TypeOK, NEW t \in Threads, Step(t)
    PROVE  Active(t)
BY StepKinds, IdlingStep, ExecutingStep DEF SifUnloadModule, RESET_IRX_VARS, At

\* The variables stay understood.
LEMMA VariablesKnown ==
    ASSUME TypeOK, NEW t \in Threads, Known(t), Step(t)
    PROVE  \A m \in Modules : (CHECK_IRX_ERR(m) \/ CHECK_IRX_UNLOAD(m))'
<1>1. CASE UNCHANGED irx
  BY <1>1 DEF Known, CHECK_IRX_ERR, CHECK_IRX_UNLOAD
<1>2. CASE Executing(t)
  <2> SUFFICES ASSUME NEW m \in Modules PROVE (CHECK_IRX_ERR(m) \/ CHECK_IRX_UNLOAD(m))'
    OBVIOUS
  <2>1. CASE m = Here(t).arg
    BY <1>2, <2>1, ExecutingStep DEF CHECK_IRX_ERR, CHECK_IRX_UNLOAD
  <2>2. CASE m # Here(t).arg
    BY <1>2, <2>2, ExecutingStep DEF Known, CHECK_IRX_ERR, CHECK_IRX_UNLOAD
  <2> QED
    BY <2>1, <2>2
<1>3. CASE RESET_IRX_VARS(t)
  <2>1. PICK x \in Modules : x = Here(t).arg
    BY <1>3, OperandIsModule DEF RESET_IRX_VARS, At
  <2>2. irx'[x].id = -1 /\ \A m \in Modules : m # x => irx'[m] = irx[m]
    BY <1>3, <2>1 DEF RESET_IRX_VARS, TypeOK, Fresh
  <2> QED
    BY <2>2 DEF Known, CHECK_IRX_ERR, CHECK_IRX_UNLOAD
<1>4. SifUnloadModule(t) => UNCHANGED irx
  BY DEF SifUnloadModule
<1> QED
  BY <1>1, <1>2, <1>3, <1>4, StepKinds, IdlingStep

\* A module that is accounted for stays so, but for an unload: the one that is
\* executed has fresh variables, so that it is resident if it was accounted for.
LEMMA AccountedStays ==
    ASSUME TypeOK, NEW t \in Threads, Known(t), Step(t), Here(t).op # "unload",
           NEW m \in Modules, Accounted(m)
    PROVE  Accounted(m)'
<1>1. CASE Idling(t)
  BY <1>1, IdlingStep DEF Accounted, GivenUp, CHECK_IRX_ERR
<1>2. CASE Executing(t)
  <2>1. CASE m = Here(t).arg
    <3>1. irx[m] = Fresh
      BY <1>2, <2>1, ExecutingStep, FreshIs DEF Known
    <3> QED
      BY <1>2, <3>1, ExecutingStep DEF Accounted, GivenUp
  <2>2. CASE m # Here(t).arg
    <3>1. irx'[m] = irx[m] /\ iop \subseteq iop'
      BY <1>2, <2>2, ExecutingStep
    <3> QED
      BY <3>1 DEF Accounted, GivenUp, CHECK_IRX_ERR
  <2> QED
    BY <2>1, <2>2
<1>3. ~SifUnloadModule(t) /\ ~RESET_IRX_VARS(t)
  BY DEF SifUnloadModule, RESET_IRX_VARS, At
<1> QED
  BY <1>1, <1>2, <1>3, StepKinds

\* How a step leaves the calls: it ends the call with an error, stays at the
\* operation, or is done with it.
LEMMA JobSteps ==
    ASSUME TypeOK, LoadedVarsAreResident, NEW t, Threads = {t}, Known(t), Step(t)
    PROVE  \/ Abandon(t) /\ Here(t).op \in {"load", "try"}
           \/ job'[t].calls = job[t].calls /\ UNCHANGED status
           \/ /\ Advance(t)
              /\ \A m \in Modules : Loads(Here(t), m) => Accounted(m)'
              /\ status' = IF Here(t).op = "end"
                           THEN [status EXCEPT ![Here(t).arg] = "ok"] ELSE status
<1> t \in Threads
  OBVIOUS
<1>0. \A p \in Phases : Goto(t, p) => job'[t].calls = job[t].calls
  BY DEF Goto, TypeOK
<1>1. CASE LoadCheck(t)
  <2>1. CASE CHECK_IRX_LOAD(Here(t).arg)
    BY <1>0, <1>1, <2>1 DEF LoadCheck, Phases
  <2>2. CASE ~CHECK_IRX_LOAD(Here(t).arg)
    <3>1. Advance(t) /\ UNCHANGED <<irx, iop, status>> /\ At(t, "next", "load")
      BY <1>1, <2>2 DEF LoadCheck
    <3>2. ASSUME NEW m \in Modules, Loads(Here(t), m) PROVE Accounted(m)'
      <4>1. GivenUp(m) \/ CHECK_IRX_UNLOAD(m)
        BY <2>2, <3>2, NotFresh DEF Loads
      <4>2. ~Resetting(m)
        BY <3>1 DEF Resetting, At
      <4>3. Accounted(m)
        BY <4>1, <4>2 DEF LoadedVarsAreResident, Accounted
      <4> QED
        BY <3>1, <4>3 DEF Accounted, GivenUp, CHECK_IRX_ERR
    <3>3. Here(t).op # "end"
      BY <3>1 DEF At
    <3> QED
      BY <3>1, <3>2, <3>3
  <2> QED
    BY <2>1, <2>2
<1>2. CASE ExecNotStaged(t) \/ ExecFails(t) \/ TryFails(t)
  BY <1>2 DEF ExecNotStaged, ExecFails, Execute, TryFails, At
<1>3. CASE ExecStays(t)
  BY <1>3 DEF ExecStays, Execute, At, Loads, Accounted
<1>4. CASE UnloadCheck(t) \/ OffCheck(t) \/ SifUnloadModule(t)
  <2>1. Here(t).op \in {"unload", "off"} /\ UNCHANGED status
    BY <1>4 DEF UnloadCheck, OffCheck, SifUnloadModule, At
  <2>2. Advance(t) \/ \E p \in Phases : Goto(t, p)
    BY <1>4 DEF UnloadCheck, OffCheck, SifUnloadModule, Phases
  <2> QED
    BY <1>0, <2>1, <2>2 DEF Loads
<1>5. CASE RESET_IRX_VARS(t) \/ TryPasses(t) \/ Run(t)
  BY <1>5 DEF RESET_IRX_VARS, TryPasses, Run, At, Loads
<1>6. CASE End(t)
  BY <1>6 DEF End, At, Loads
<1>7. CASE OffLoop(t)
  <2>1. Here(t).op = "off" /\ UNCHANGED status /\ (Advance(t) \/ UNCHANGED job)
    BY <1>7 DEF OffLoop, At
  <2> QED
    BY <2>1 DEF Loads
<1> QED
  BY <1>1, <1>2, <1>3, <1>4, <1>5, <1>6, <1>7 DEF Step

\* The knowledge is kept.
LEMMA KnownStays ==
    ASSUME TypeOK, NEW t, Threads = {t}, Known(t), [Next]_vars
    PROVE  Known(t)'
<1> t \in Threads
  OBVIOUS
<1>1. CASE UNCHANGED vars
  BY <1>1 DEF vars, Known, CHECK_IRX_ERR, CHECK_IRX_UNLOAD, CHECK_IRX_LOAD, At,
              Active, Here
<1>2. CASE Step(t)
  <2>1. \A m \in Modules : (CHECK_IRX_ERR(m) \/ CHECK_IRX_UNLOAD(m))'
    BY <1>2, VariablesKnown
  <2>2. CASE job'[t].at = "next"
    BY <2>1, <2>2 DEF Known, At
  <2>3. CASE LoadCheck(t) /\ Goto(t, "exec")
    <3>1. job'[t].calls = job[t].calls /\ job'[t].at = "exec"
      BY <2>3 DEF Goto, TypeOK
    <3>2. CHECK_IRX_LOAD(Here(t).arg) /\ UNCHANGED irx
      <4>1. CASE CHECK_IRX_LOAD(Here(t).arg)
        BY <2>3, <4>1 DEF LoadCheck
      <4>2. CASE ~CHECK_IRX_LOAD(Here(t).arg)
        <5>1. Advance(t)
          BY <2>3, <4>2 DEF LoadCheck
        <5>2. job'[t].at = "next"
          BY <5>1 DEF Advance, TypeOK
        <5> QED
          BY <3>1, <5>2
      <4> QED
        BY <4>1, <4>2
    <3>3. Here(t)' = Here(t)
      BY <3>1 DEF Here
    <3>4. CHECK_IRX_LOAD(Here(t).arg)'
      BY <3>2, <3>3 DEF CHECK_IRX_LOAD
    <3> QED
      BY <2>1, <3>1, <3>4 DEF Known, At
  <2>4. CASE OffCheck(t) /\ Goto(t, "off")
    <3>1. job'[t].at = "off"
      BY <2>4 DEF Goto, TypeOK
    <3>2. status["dev9"] = "ok" /\ UNCHANGED status
      <4>1. CASE status["dev9"] # "ok"
        <5>1. Advance(t)
          BY <2>4, <4>1 DEF OffCheck
        <5>2. job'[t].at = "next"
          BY <5>1 DEF Advance, TypeOK
        <5> QED
          BY <3>1, <5>2
      <4> QED
        BY <2>4, <4>1 DEF OffCheck
    <3> QED
      BY <2>1, <3>1, <3>2 DEF Known, At
  <2>5. CASE OffLoop(t) /\ UNCHANGED job
    BY <2>1, <2>5 DEF OffLoop, Known, At, Active, Here
  <2>6. CASE Goto(t, "unload") \/ Goto(t, "reset")
    <3>1. job'[t].at \in {"unload", "reset"}
      BY <2>6 DEF Goto, TypeOK
    <3> QED
      BY <2>1, <3>1 DEF Known, At
  <2>7. Advance(t) \/ Abandon(t) => job'[t].at = "next"
    BY DEF Advance, Abandon, TypeOK
  <2>8. \/ Advance(t) \/ Abandon(t)
        \/ LoadCheck(t) /\ Goto(t, "exec")
        \/ OffCheck(t) /\ Goto(t, "off")
        \/ OffLoop(t) /\ UNCHANGED job
        \/ Goto(t, "unload") \/ Goto(t, "reset")
    BY <1>2 DEF Step, LoadCheck, ExecNotStaged, ExecFails, ExecStays, UnloadCheck,
                SifUnloadModule, RESET_IRX_VARS, TryPasses, TryFails, Run, End, OffCheck,
                OffLoop
  <2> QED
    BY <2>2, <2>3, <2>4, <2>5, <2>6, <2>7, <2>8
<1>3. CASE \E s \in Scripts[t] : Begin(t, s)
  <2>1. UNCHANGED irx /\ job'[t].at = "next"
    BY <1>3 DEF Begin, TypeOK
  <2> QED
    BY <2>1 DEF Known, CHECK_IRX_ERR, CHECK_IRX_UNLOAD, At
<1> QED
  BY <1>1, <1>2, <1>3 DEF Next

\* At the start nothing was tried.
LEMMA InitKnown == ASSUME NEW t \in Threads, Init PROVE Known(t)
BY DEF Init, Known, CHECK_IRX_ERR, Fresh, At, Active, Idle

-----------------------------------------------------------------------------
(* The modules that the rest of a call speaks of.                          *)

\* The modules that the rest of a call still speaks of are accounted for, or
\* are loaded by an operation in front.
Due(what, r) ==
    \A i \in 1 .. Len(r) : \A m \in Wants(what, r[i]) :
       /\ m \in Modules
       /\ Accounted(m) \/ \E j \in 1 .. i - 1 : Loads(r[j], m)
       /\ \A j \in 1 .. i : r[j].op # "unload"

\* Of the calls left, the first may be under way.
Planned(what, cs) ==
    /\ \A k \in 2 .. Len(cs) : InOrder(what, cs[k])
    /\ cs # << >> => Due(what, cs[1])

\* A call of which nothing was done yet, in whatever state.
LEMMA DueAtStart ==
    ASSUME NEW what, NEW c \in Calls, InOrder(what, c)
    PROVE  Due(what, c) /\ Due(what, c)'
<1> SUFFICES ASSUME NEW i \in 1 .. Len(c), NEW m \in Wants(what, c[i])
             PROVE  /\ m \in Modules
                    /\ \E j \in 1 .. i - 1 : Loads(c[j], m)
                    /\ \A j \in 1 .. i : c[j].op # "unload"
  BY DEF Due
<1>1. PICK j \in 1 .. i - 1 : Loads(c[j], m)
  BY DEF InOrder
<1>2. j \in 1 .. Len(c) /\ c \in Seq(Op)
  BY DEF Calls
<1>3. c[j] \in Op
  BY <1>2
<1>4. m \in Modules
  BY <1>1, <1>3 DEF Loads, Op
<1> QED
  BY <1>1, <1>4 DEF InOrder

\* The rest of a call whose first operation is done: what that one loads is
\* accounted for, and it unloads nothing.
LEMMA DueTail ==
    ASSUME NEW what, NEW r \in Seq(Op), r # << >>, Due(what, r),
           \A m \in Modules : Loads(r[1], m) => Accounted(m)',
           r[1].op # "unload" => \A m \in Modules : Accounted(m) => Accounted(m)'
    PROVE  Due(what, Tail(r))'
<1>0. /\ Tail(r) \in Seq(Op) /\ Len(Tail(r)) = Len(r) - 1 /\ Len(r) \in Nat
      /\ \A i \in 1 .. Len(Tail(r)) : Tail(r)[i] = r[i + 1]
  BY HeadTailProperties
<1> SUFFICES ASSUME NEW i \in 1 .. Len(r) - 1, NEW m \in Wants(what, r[i + 1])
             PROVE  /\ m \in Modules
                    /\ Accounted(m)' \/ \E j \in 1 .. i - 1 : Loads(Tail(r)[j], m)
                    /\ \A j \in 1 .. i : Tail(r)[j].op # "unload"
  BY <1>0 DEF Due
<1>1. /\ i + 1 \in 1 .. Len(r) /\ m \in Modules
      /\ Accounted(m) \/ \E j \in 1 .. i : Loads(r[j], m)
      /\ \A j \in 1 .. i + 1 : r[j].op # "unload"
  BY <1>0 DEF Due
<1>2. r[1].op # "unload"
  BY <1>1
<1>3. ASSUME NEW j \in 1 .. i, Loads(r[j], m), j # 1
      PROVE  \E n \in 1 .. i - 1 : Loads(Tail(r)[n], m)
  <2>1. j - 1 \in 1 .. i - 1 /\ j - 1 \in 1 .. Len(r) - 1 /\ (j - 1) + 1 = j
    BY <1>0, <1>3
  <2>2. Tail(r)[j - 1] = r[j]
    BY <1>0, <2>1
  <2> QED
    BY <1>3, <2>1, <2>2
<1>4. Accounted(m)' \/ \E j \in 1 .. i - 1 : Loads(Tail(r)[j], m)
  BY <1>1, <1>2, <1>3
<1>5. ASSUME NEW j \in 1 .. i PROVE Tail(r)[j].op # "unload"
  <2>1. j \in 1 .. Len(r) - 1 /\ j + 1 \in 1 .. i + 1
    BY <1>0
  <2> QED
    BY <1>0, <1>1, <2>1
<1> QED
  BY <1>1, <1>4, <1>5

\* The same, while the first operation is still under way: if it unloads, the
\* call wants nothing.
LEMMA DueStays ==
    ASSUME NEW what, NEW r \in Seq(Op), Due(what, r),
           r[1].op # "unload" => \A m \in Modules : Accounted(m) => Accounted(m)'
    PROVE  Due(what, r)'
<1> SUFFICES ASSUME NEW i \in 1 .. Len(r), NEW m \in Wants(what, r[i])
             PROVE  /\ m \in Modules
                    /\ Accounted(m)' \/ \E j \in 1 .. i - 1 : Loads(r[j], m)
                    /\ \A j \in 1 .. i : r[j].op # "unload"
  BY DEF Due
<1>1. 1 \in 1 .. i
  OBVIOUS
<1> QED
  BY <1>1 DEF Due

\* Calls that were all still to come, in whatever state.
LEMMA PlannedAtStart ==
    ASSUME NEW what, NEW cs \in Seq(Calls),
           \A k \in 1 .. Len(cs) : InOrder(what, cs[k])
    PROVE  Planned(what, cs) /\ Planned(what, cs)'
<1>1. cs # << >> => cs[1] \in Calls /\ 1 \in 1 .. Len(cs)
  BY EmptySeq
<1> QED
  BY <1>1, DueAtStart DEF Planned

\* The calls behind the first.
LEMMA PlannedTail ==
    ASSUME NEW what, NEW cs \in Seq(Calls), cs # << >>, Planned(what, cs)
    PROVE  Tail(cs) \in Seq(Calls) /\ \A k \in 1 .. Len(Tail(cs)) : InOrder(what, Tail(cs)[k])
<1>1. /\ Tail(cs) \in Seq(Calls) /\ Len(Tail(cs)) = Len(cs) - 1 /\ Len(cs) \in Nat
      /\ \A i \in 1 .. Len(Tail(cs)) : Tail(cs)[i] = cs[i + 1]
  BY HeadTailProperties
<1>2. \A k \in 1 .. Len(Tail(cs)) : k + 1 \in 2 .. Len(cs)
  BY <1>1
<1> QED
  BY <1>1, <1>2 DEF Planned

\* Every step of the thread keeps the plan.
LEMMA PlannedStep ==
    ASSUME TypeOK, LoadedVarsAreResident, NEW t, Threads = {t}, Known(t), Step(t),
           NEW what, Planned(what, job[t].calls)
    PROVE  Planned(what, job[t].calls)'
<1> t \in Threads
  OBVIOUS
<1>1. Active(t)
  BY StepActive
<1>2. PICK cs \in Seq(Calls) : cs = job[t].calls /\ cs # << >>
  BY <1>1, HereType
<1>3. cs[1] \in Calls /\ Here(t) = cs[1][1] /\ Len(cs) \in Nat /\ Len(cs) >= 1
  BY <1>2, EmptySeq DEF Here
<1>4. PICK r \in Seq(Op) : r = cs[1] /\ r # << >>
  BY <1>3 DEF Calls
<1>5. Planned(what, cs)
  BY <1>2
<1>6. r[1].op # "unload" => \A m \in Modules : Accounted(m) => Accounted(m)'
  BY <1>3, <1>4, AccountedStays
<1>7. ASSUME NEW ds \in Seq(Calls), \A k \in 1 .. Len(ds) : InOrder(what, ds[k]),
             job'[t].calls = ds
      PROVE  Planned(what, job[t].calls)'
  <2>1. Planned(what, ds)'
    BY <1>7, PlannedAtStart
  <2> QED
    BY <1>7, <2>1
<1>8. CASE job'[t].calls = Tail(cs)
  BY <1>2, <1>5, <1>7, <1>8, PlannedTail
<1>9. CASE Abandon(t)
  <2>1. job'[t].calls = Tail(cs)
    BY <1>2, <1>9 DEF Abandon, TypeOK
  <2> QED
    BY <1>8, <2>1
<1>10. CASE job'[t].calls = job[t].calls
  <2>1. Due(what, r)'
    BY <1>2, <1>4, <1>5, <1>6, DueStays DEF Planned
  <2> QED
    BY <1>2, <1>4, <1>5, <1>10, <2>1 DEF Planned
<1>11. CASE /\ Advance(t)
            /\ \A m \in Modules : Loads(Here(t), m) => Accounted(m)'
  <2>1. job'[t].calls = Left(cs)
    BY <1>2, <1>11 DEF Advance, TypeOK
  <2>2. CASE Len(cs[1]) = 1
    BY <1>2, <1>8, <2>1, <2>2, LeftIs
  <2>3. CASE Len(cs[1]) # 1
    <3>1. PICK ds \in Seq(Calls) : ds = Left(cs)
      BY <1>2, <2>3, LeftIs
    <3>2. /\ Len(ds) = Len(cs) /\ ds[1] = Tail(r)
          /\ \A k \in 2 .. Len(cs) : ds[k] = cs[k]
      BY <1>2, <1>4, <2>3, <3>1, LeftIs
    <3>3. Due(what, Tail(r))'
      BY <1>2, <1>3, <1>4, <1>5, <1>6, <1>11, DueTail DEF Planned
    <3>4. Planned(what, ds)'
      BY <1>5, <3>2, <3>3 DEF Planned
    <3> QED
      BY <2>1, <3>1, <3>4
  <2> QED
    BY <2>2, <2>3
<1> QED
  BY <1>9, <1>10, <1>11, JobSteps

-----------------------------------------------------------------------------
(* What an OK stands for, until something is unloaded.                     *)

\* An OK of d accounts for its modules now.
Settled(d) ==
    status[d] = "ok" => \A m \in T!OwnModules(d) : m \in Modules /\ Accounted(m)

\* Before each DDIOC_OFF loop that is left, nothing is unloaded since d was
\* settled (j = 0), or will be since a call that will settle it.
OffPlanned(d, cs) ==
    \A k \in 1 .. Len(cs) : \A i \in 1 .. Len(cs[k]) :
       cs[k][i].op = "off" =>
          \E j \in 0 .. k - 1 :
             /\ IF j = 0 THEN Settled(d) ELSE InitOf(d, cs[j])
             /\ \A l \in j + 1 .. k - 1 : Quiet(cs[l])
             /\ \A n \in 1 .. i - 1 : cs[k][n].op # "unload"

\* Where the init of a driver ends, its modules are accounted for.
LEMMA EndAccounts ==
    ASSUME TypeOK, NEW t \in Threads, Active(t), Here(t).op = "end",
           Planned("end", job[t].calls)
    PROVE  \A m \in T!OwnModules(Here(t).arg) : m \in Modules /\ Accounted(m)
<1>1. PICK r \in Seq(Op) : r = job[t].calls[1] /\ r # << >>
  BY HereType
<1>2. Due("end", r) /\ 1 \in 1 .. Len(r) /\ Here(t) = r[1]
  BY <1>1, EmptySeq DEF Planned, Active, Here
<1>3. Wants("end", r[1]) = T!OwnModules(Here(t).arg)
  BY <1>2 DEF Wants
<1>4. \A m \in Wants("end", r[1]) :
         m \in Modules /\ (Accounted(m) \/ \E j \in 1 .. 1 - 1 : Loads(r[j], m))
  BY <1>2 DEF Due
<1> QED
  BY <1>3, <1>4

\* Only an unload unsettles a driver.
LEMMA SettledStays ==
    ASSUME TypeOK, LoadedVarsAreResident, NEW t, Threads = {t}, Known(t), Step(t),
           Active(t), Here(t).op # "unload", NEW d \in Names,
           Settled(d) \/ (Here(t).op = "end" /\ Here(t).arg = d),
           Planned("end", job[t].calls)
    PROVE  Settled(d)'
<1> t \in Threads
  OBVIOUS
<1> SUFFICES ASSUME status'[d] = "ok"
             PROVE  \A m \in T!OwnModules(d) : m \in Modules /\ Accounted(m)'
  BY DEF Settled
<1>1. CASE Here(t).op = "end" /\ Here(t).arg = d
  BY <1>1, EndAccounts, AccountedStays
<1>2. CASE ~(Here(t).op = "end" /\ Here(t).arg = d)
  <2>1. status[d] = "ok"
    <3>1. CASE Abandon(t)
      BY <3>1 DEF Abandon
    <3>2. CASE status' = IF Here(t).op = "end"
                         THEN [status EXCEPT ![Here(t).arg] = "ok"] ELSE status
      BY <1>2, <3>2 DEF TypeOK
    <3> QED
      BY <3>1, <3>2, JobSteps
  <2>2. \A m \in T!OwnModules(d) : m \in Modules /\ Accounted(m)
    BY <1>2, <2>1 DEF Settled
  <2> QED
    BY <2>2, AccountedStays
<1> QED
  BY <1>1, <1>2

\* The call is over: its driver is settled if the call was its init.
LEMMA OffTail ==
    ASSUME NEW d, NEW cs \in Seq(Calls), cs # << >>, OffPlanned(d, cs),
           Settled(d) /\ cs[1][1].op # "unload" => Settled(d)',
           InitOf(d, cs[1]) => Settled(d)'
    PROVE  OffPlanned(d, Tail(cs))'
<1>0. /\ Tail(cs) \in Seq(Calls) /\ Len(Tail(cs)) = Len(cs) - 1 /\ Len(cs) \in Nat
      /\ \A i \in 1 .. Len(Tail(cs)) : Tail(cs)[i] = cs[i + 1]
  BY HeadTailProperties
<1>1. cs[1] \in Calls /\ 1 \in 1 .. Len(cs[1])
  <2>1. cs[1] \in Calls
    BY EmptySeq
  <2> QED
    BY <2>1, EmptySeq DEF Calls
<1> SUFFICES ASSUME NEW k \in 1 .. Len(cs) - 1, NEW i \in 1 .. Len(cs[k + 1]),
                    cs[k + 1][i].op = "off"
             PROVE  \E j \in 0 .. k - 1 :
                       /\ IF j = 0 THEN Settled(d)' ELSE InitOf(d, Tail(cs)[j])
                       /\ \A l \in j + 1 .. k - 1 : Quiet(Tail(cs)[l])
                       /\ \A n \in 1 .. i - 1 : Tail(cs)[k][n].op # "unload"
  BY <1>0 DEF OffPlanned
<1>2. k \in 1 .. Len(Tail(cs)) /\ k + 1 \in 1 .. Len(cs) /\ Tail(cs)[k] = cs[k + 1]
  BY <1>0
<1>3. PICK j \in 0 .. k :
         /\ IF j = 0 THEN Settled(d) ELSE InitOf(d, cs[j])
         /\ \A l \in j + 1 .. k : Quiet(cs[l])
         /\ \A n \in 1 .. i - 1 : cs[k + 1][n].op # "unload"
  <2>1. (k + 1) - 1 = k
    BY <1>0
  <2> QED
    BY <1>2, <2>1 DEF OffPlanned
<1>4. \A l \in 1 .. k - 1 : l \in 1 .. Len(Tail(cs)) /\ Tail(cs)[l] = cs[l + 1]
  BY <1>0
<1>5. CASE j \in {0, 1}
  <2>1. Settled(d)'
    <3>1. CASE j = 0
      <4>1. 1 \in j + 1 .. k
        BY <3>1
      <4>2. Quiet(cs[1])
        BY <1>3, <4>1
      <4>3. cs[1][1].op # "unload"
        BY <1>1, <4>2 DEF Quiet
      <4> QED
        BY <1>3, <3>1, <4>3
    <3>2. CASE j = 1
      BY <1>3, <3>2
    <3> QED
      BY <1>5, <3>1, <3>2
  <2>2. \A l \in 1 .. k - 1 : Quiet(Tail(cs)[l])
    <3>1. \A l \in 1 .. k - 1 : l + 1 \in j + 1 .. k
      BY <1>5
    <3> QED
      BY <1>3, <1>4, <3>1
  <2>3. 0 \in 0 .. k - 1
    OBVIOUS
  <2> QED
    BY <1>2, <1>3, <2>1, <2>2, <2>3
<1>6. CASE j \notin {0, 1}
  <2>1. j - 1 \in 1 .. k - 1 /\ (j - 1) + 1 = j /\ j - 1 # 0 /\ j - 1 \in 0 .. k - 1
    BY <1>6
  <2>2. InitOf(d, Tail(cs)[j - 1])
    BY <1>3, <1>4, <1>6, <2>1
  <2>3. \A l \in j .. k - 1 : Quiet(Tail(cs)[l])
    <3>1. \A l \in j .. k - 1 : l + 1 \in j + 1 .. k /\ l \in 1 .. k - 1
      BY <1>6
    <3> QED
      BY <1>3, <1>4, <3>1
  <2> QED
    BY <1>2, <1>3, <2>1, <2>2, <2>3
<1> QED
  BY <1>5, <1>6

\* The rest of an init of d is one, and the rest of a quiet call is quiet.
LEMMA RestOfInit ==
    ASSUME NEW d, NEW r \in Seq(Op), r # << >>, Len(r) # 1
    PROVE  /\ Quiet(r) => Quiet(Tail(r))
           /\ InitOf(d, r) => InitOf(d, Tail(r))
<1>1. Len(r) \in Nat /\ Len(r) # 0
  BY EmptySeq
<1>2. /\ Tail(r) \in Seq(Op) /\ Len(Tail(r)) = Len(r) - 1
      /\ \A i \in 1 .. Len(Tail(r)) : Tail(r)[i] = r[i + 1]
  BY HeadTailProperties
<1>3. PICK u \in Seq(Op) : u = Tail(r)
  BY <1>2, Zenon
<1>4. Len(u) = Len(r) - 1 /\ \A i \in 1 .. Len(u) : u[i] = r[i + 1]
  BY <1>2, <1>3, Zenon
<1>5. /\ u = Tail(r) /\ Len(u) = Len(r) - 1 /\ Len(r) >= 2
      /\ \A i \in 1 .. Len(u) : u[i] = r[i + 1]
  BY <1>1, <1>3, <1>4
<1>6. \A i \in 1 .. Len(u) : i + 1 \in 1 .. Len(r)
  BY <1>1, <1>5
<1>7. Quiet(r) => Quiet(Tail(r))
  BY <1>5, <1>6 DEF Quiet
<1>8. u[Len(u)] = r[Len(r)]
  BY <1>1, <1>5
<1> QED
  BY <1>5, <1>6, <1>7, <1>8 DEF InitOf

\* The call goes on.
LEMMA OffRest ==
    ASSUME NEW d, NEW cs \in Seq(Calls), cs # << >>, OffPlanned(d, cs),
           Len(cs[1]) # 1, NEW ds \in Seq(Calls), Len(ds) = Len(cs),
           ds[1] = Tail(cs[1]), \A k \in 2 .. Len(cs) : ds[k] = cs[k],
           Settled(d) /\ cs[1][1].op # "unload" => Settled(d)'
    PROVE  OffPlanned(d, ds)'
<1>1. cs[1] \in Seq(Op) /\ cs[1] # << >> /\ Len(cs) \in Nat
  <2>1. cs[1] \in Calls
    BY EmptySeq
  <2> QED
    BY <2>1 DEF Calls
<1>2. /\ Tail(cs[1]) \in Seq(Op) /\ Len(Tail(cs[1])) = Len(cs[1]) - 1
      /\ Len(cs[1]) \in Nat /\ 1 \in 1 .. Len(cs[1])
      /\ \A i \in 1 .. Len(Tail(cs[1])) : Tail(cs[1])[i] = cs[1][i + 1]
  BY <1>1, HeadTailProperties, EmptySeq
<1>3. PICK u \in Seq(Op) : /\ u = ds[1] /\ Len(u) = Len(cs[1]) - 1
                           /\ \A i \in 1 .. Len(u) : u[i] = cs[1][i + 1]
  BY <1>2
<1>4. \A k \in 1 .. Len(cs) : /\ Quiet(cs[k]) => Quiet(ds[k])
                              /\ InitOf(d, cs[k]) => InitOf(d, ds[k])
  <2> SUFFICES ASSUME NEW k \in 1 .. Len(cs)
               PROVE  /\ Quiet(cs[k]) => Quiet(ds[k])
                      /\ InitOf(d, cs[k]) => InitOf(d, ds[k])
    OBVIOUS
  <2>1. CASE k = 1
    BY <1>1, <2>1, RestOfInit
  <2>2. CASE k # 1
    <3>1. k \in 2 .. Len(cs)
      BY <2>2
    <3> QED
      BY <3>1
  <2> QED
    BY <2>1, <2>2
<1> SUFFICES ASSUME NEW k \in 1 .. Len(cs), NEW i \in 1 .. Len(ds[k]),
                    ds[k][i].op = "off"
             PROVE  \E j \in 0 .. k - 1 :
                       /\ IF j = 0 THEN Settled(d)' ELSE InitOf(d, ds[j])
                       /\ \A l \in j + 1 .. k - 1 : Quiet(ds[l])
                       /\ \A n \in 1 .. i - 1 : ds[k][n].op # "unload"
  BY DEF OffPlanned
\* The operation before the step.
<1>5. PICK i0 : /\ i0 \in 1 .. Len(cs[k]) /\ cs[k][i0] = ds[k][i]
                /\ IF k = 1 THEN i0 = i + 1 ELSE i0 = i
  <2>1. CASE k = 1
    <3>1. ds[k] = u
      BY <1>3, <2>1
    <3>2. i + 1 \in 1 .. Len(cs[1])
      BY <1>2, <1>3, <3>1
    <3>3. cs[1][i + 1] = ds[1][i]
      BY <1>2, <1>3, <3>1
    <3> QED
      BY <2>1, <3>2, <3>3
  <2>2. CASE k # 1
    <3>1. k \in 2 .. Len(cs)
      BY <2>2
    <3> QED
      BY <2>2, <3>1
  <2> QED
    BY <2>1, <2>2
<1>6. PICK j \in 0 .. k - 1 :
         /\ IF j = 0 THEN Settled(d) ELSE InitOf(d, cs[j])
         /\ \A l \in j + 1 .. k - 1 : Quiet(cs[l])
         /\ \A n \in 1 .. i0 - 1 : cs[k][n].op # "unload"
  BY <1>5 DEF OffPlanned
<1>7. j = 0 => Settled(d)'
  <2> SUFFICES ASSUME j = 0 PROVE cs[1][1].op # "unload"
    BY <1>6
  <2>1. CASE k = 1
    <3>1. 1 \in 1 .. i0 - 1
      BY <1>5, <2>1
    <3> QED
      BY <1>6, <2>1, <3>1
  <2>2. CASE k # 1
    <3>1. 1 \in j + 1 .. k - 1
      BY <2>2
    <3> QED
      BY <1>2, <1>6, <3>1 DEF Quiet
  <2> QED
    BY <2>1, <2>2
<1>8. /\ j # 0 => InitOf(d, ds[j])
      /\ \A l \in j + 1 .. k - 1 : Quiet(ds[l])
  <2>1. /\ j # 0 => j \in 1 .. Len(cs)
        /\ \A l \in j + 1 .. k - 1 : l \in 1 .. Len(cs)
    BY <1>1
  <2> QED
    BY <1>4, <1>6, <2>1
<1>9. \A n \in 1 .. i - 1 : ds[k][n].op # "unload"
  <2> SUFFICES ASSUME NEW n \in 1 .. i - 1 PROVE ds[k][n].op # "unload"
    OBVIOUS
  <2>1. CASE k = 1
    <3>1. n + 1 \in 1 .. i0 - 1 /\ n \in 1 .. Len(u)
      BY <1>2, <1>3, <1>5, <2>1
    <3>2. ds[k][n] = cs[1][n + 1]
      BY <1>3, <2>1, <3>1
    <3> QED
      BY <1>6, <2>1, <3>1, <3>2
  <2>2. CASE k # 1
    <3>1. k \in 2 .. Len(cs) /\ n \in 1 .. i0 - 1
      BY <1>5, <2>2
    <3> QED
      BY <1>6, <3>1
  <2> QED
    BY <2>1, <2>2
<1> QED
  BY <1>6, <1>7, <1>8, <1>9

\* The operation goes on.
LEMMA OffSame ==
    ASSUME NEW d, NEW cs \in Seq(Calls), cs # << >>, OffPlanned(d, cs),
           Settled(d) /\ cs[1][1].op # "unload" => Settled(d)'
    PROVE  OffPlanned(d, cs)'
<1>1. cs[1] \in Calls /\ 1 \in 1 .. Len(cs[1]) /\ Len(cs) \in Nat
  <2>1. cs[1] \in Calls
    BY EmptySeq
  <2> QED
    BY <2>1, EmptySeq DEF Calls
<1> SUFFICES ASSUME NEW k \in 1 .. Len(cs), NEW i \in 1 .. Len(cs[k]),
                    cs[k][i].op = "off"
             PROVE  \E j \in 0 .. k - 1 :
                       /\ IF j = 0 THEN Settled(d)' ELSE InitOf(d, cs[j])
                       /\ \A l \in j + 1 .. k - 1 : Quiet(cs[l])
                       /\ \A n \in 1 .. i - 1 : cs[k][n].op # "unload"
  BY DEF OffPlanned
<1>2. PICK j \in 0 .. k - 1 :
         /\ IF j = 0 THEN Settled(d) ELSE InitOf(d, cs[j])
         /\ \A l \in j + 1 .. k - 1 : Quiet(cs[l])
         /\ \A n \in 1 .. i - 1 : cs[k][n].op # "unload"
  BY DEF OffPlanned
<1>3. ASSUME j = 0 PROVE Settled(d)'
  <2>1. CASE k = 1 /\ i = 1
    BY <1>2, <1>3, <2>1
  <2>2. CASE k = 1 /\ i # 1
    <3>1. 1 \in 1 .. i - 1
      BY <2>2
    <3> QED
      BY <1>2, <1>3, <2>2, <3>1
  <2>3. CASE k # 1
    <3>1. 1 \in j + 1 .. k - 1
      BY <1>3, <2>3
    <3> QED
      BY <1>1, <1>2, <1>3, <3>1 DEF Quiet
  <2> QED
    BY <2>1, <2>2, <2>3
<1> QED
  BY <1>2, <1>3

\* A script that has not begun, in whatever state.
LEMMA OffAtStart ==
    ASSUME NEW d, NEW s \in Seq(Calls), UpBeforeOff(d, s)
    PROVE  OffPlanned(d, s) /\ OffPlanned(d, s)'
<1> SUFFICES ASSUME NEW k \in 1 .. Len(s), NEW i \in 1 .. Len(s[k]), s[k][i].op = "off"
             PROVE  \E j \in 0 .. k - 1 :
                       /\ j # 0 /\ InitOf(d, s[j])
                       /\ \A l \in j + 1 .. k - 1 : Quiet(s[l])
                       /\ \A n \in 1 .. i - 1 : s[k][n].op # "unload"
  BY DEF OffPlanned
<1>1. PICK j \in 1 .. k - 1 :
         /\ InitOf(d, s[j])
         /\ \A l \in j + 1 .. k - 1 : Quiet(s[l])
         /\ \A n \in 1 .. i - 1 : s[k][n].op # "unload"
  BY DEF UpBeforeOff
<1>2. j \in 0 .. k - 1 /\ j # 0
  OBVIOUS
<1> QED
  BY <1>1, <1>2

\* Every step of the thread keeps the plan.
LEMMA OffStep ==
    ASSUME TypeOK, LoadedVarsAreResident, NEW t, Threads = {t}, Known(t), Step(t),
           Planned("end", job[t].calls), NEW d \in Names, OffPlanned(d, job[t].calls)
    PROVE  OffPlanned(d, job[t].calls)'
<1> t \in Threads
  OBVIOUS
<1>1. Active(t)
  BY StepActive
<1>2. PICK cs \in Seq(Calls) : cs = job[t].calls /\ cs # << >>
  BY <1>1, HereType
<1>3. cs[1] \in Calls /\ Here(t) = cs[1][1] /\ 1 \in 1 .. Len(cs[1])
  <2>1. cs[1] \in Calls
    BY <1>2, EmptySeq
  <2> QED
    BY <1>2, <2>1, EmptySeq DEF Here, Calls
<1>4. OffPlanned(d, cs)
  BY <1>2
<1>5. /\ Settled(d) /\ cs[1][1].op # "unload" => Settled(d)'
      /\ cs[1][1].op = "end" /\ cs[1][1].arg = d => Settled(d)'
  <2>1. CASE Settled(d) /\ cs[1][1].op # "unload"
    BY <1>1, <1>3, <2>1, SettledStays
  <2>2. CASE cs[1][1].op = "end" /\ cs[1][1].arg = d
    BY <1>1, <1>3, <2>2, SettledStays
  <2> QED
    BY <2>1, <2>2
<1>6. CASE Abandon(t)
  <2>1. job'[t].calls = Tail(cs)
    BY <1>2, <1>6 DEF Abandon, TypeOK
  <2>2. InitOf(d, cs[1]) => Settled(d)'
    <3>1. InitOf(d, cs[1]) => Here(t).of = d
      BY <1>3 DEF InitOf
    <3>2. Here(t).of = d => status'[d] = "error"
      BY <1>6 DEF Abandon
    <3> QED
      BY <3>1, <3>2 DEF Settled
  <2>3. OffPlanned(d, Tail(cs))'
    BY <1>2, <1>4, <1>5, <2>2, OffTail
  <2> QED
    BY <2>1, <2>3
<1>7. CASE job'[t].calls = job[t].calls
  <2>1. OffPlanned(d, cs)'
    BY <1>2, <1>4, <1>5, OffSame
  <2> QED
    BY <1>2, <1>7, <2>1
<1>8. CASE Advance(t)
  <2>1. job'[t].calls = Left(cs)
    BY <1>2, <1>8 DEF Advance, TypeOK
  <2>2. CASE Len(cs[1]) = 1
    <3>1. InitOf(d, cs[1]) => Settled(d)'
      BY <1>5, <2>2 DEF InitOf
    <3>2. OffPlanned(d, Tail(cs))'
      BY <1>2, <1>4, <1>5, <3>1, OffTail
    <3> QED
      BY <1>2, <2>1, <2>2, <3>2, LeftIs
  <2>3. CASE Len(cs[1]) # 1
    <3>1. PICK ds \in Seq(Calls) : ds = Left(cs)
      BY <1>2, <2>3, LeftIs
    <3>2. /\ Len(ds) = Len(cs) /\ ds[1] = Tail(cs[1])
          /\ \A k \in 2 .. Len(cs) : ds[k] = cs[k]
      BY <1>2, <2>3, <3>1, LeftIs
    <3>3. OffPlanned(d, ds)'
      BY <1>2, <1>4, <1>5, <2>3, <3>2, OffRest
    <3> QED
      BY <2>1, <3>1, <3>3
  <2> QED
    BY <2>2, <2>3
<1> QED
  BY <1>6, <1>7, <1>8, JobSteps

-----------------------------------------------------------------------------
(* The theorems.                                                           *)

\* A step of the system keeps a plan that every script starts with.
LEMMA PlannedNext ==
    ASSUME TypeOK, LoadedVarsAreResident, NEW t, Threads = {t}, Known(t), [Next]_vars,
           NEW what, Planned(what, job[t].calls),
           \A s \in Scripts[t] : \A k \in 1 .. Len(s) : InOrder(what, s[k])
    PROVE  Planned(what, job[t].calls)'
<1> t \in Threads
  OBVIOUS
<1>1. CASE UNCHANGED vars
  BY <1>1 DEF vars, Planned, Due, Accounted, GivenUp, CHECK_IRX_ERR
<1>2. CASE Step(t)
  BY <1>2, PlannedStep
<1>3. ASSUME NEW s \in Scripts[t], Begin(t, s)
      PROVE  Planned(what, job[t].calls)'
  <2>1. s \in Seq(Calls) /\ job'[t].calls = s
    BY <1>3, DriversAssumption DEF Begin, TypeOK
  <2>2. Planned(what, s) /\ Planned(what, s)'
    BY <2>1, PlannedAtStart
  <2> QED
    BY <2>1, <2>2
<1> QED
  BY <1>1, <1>2, <1>3 DEF Next

\* Every call of the table ends its driver's init behind the loads.
LEMMA EndsInOrder ==
    ASSUME NEW t \in Threads
    PROVE  \A s \in Scripts[t] : \A k \in 1 .. Len(s) : InOrder("end", s[k])
BY DriverCallsAssumption, DriverTableAssumption

\* At the start there is no call.
LEMMA InitPlanned ==
    ASSUME NEW t \in Threads, Init, NEW what PROVE Planned(what, job[t].calls)
BY DEF Init, Idle, Planned

\* An OK accounts for the modules of the driver that stores it: any calls of the
\* table by one thread, whatever is staged and whatever the IOP answers.
THEOREM OkAccounts ==
    ASSUME NEW main, Threads = {main}
    PROVE  Spec => OkAccountsForModules
<1> DEFINE Plan == Known(main) /\ Planned("end", job[main].calls)
<1>1. Init => Plan
  BY InitKnown, InitPlanned
<1>2. TypeOK /\ LoadedVarsAreResident /\ Plan /\ [Next]_vars => Plan'
  BY KnownStays, PlannedNext, EndsInOrder
<1>3. TypeOK /\ Plan =>
         \A t \in Threads : End(t) =>
            \A m \in T!OwnModules(Here(t).arg) : Accounted(m)
  BY EndAccounts DEF End, At
<1>4. TypeOK /\ Plan /\ [Next]_vars =>
         [\A t \in Threads : End(t) =>
            \A m \in T!OwnModules(Here(t).arg) : Accounted(m)]_vars
  BY <1>3
<1> HIDE DEF Plan
<1> QED
  BY <1>1, <1>2, <1>4, TypeCorrect, VariablesTrue, PTL DEF Spec, OkAccountsForModules

\* A driver's modules are handed over only when those of the drivers it needs
\* are accounted for: init calls with init_dependencies, and any deinit calls.
THEOREM DependenciesFirst ==
    ASSUME NEW main, Threads = {main},
           \A s \in Scripts[main] : \A k \in 1 .. Len(s) :
              s[k] \in InitCalls(TRUE) \cup DeinitCalls
    PROVE  Spec => []NeedsFirst
<1> DEFINE Plan == Known(main) /\ Planned("load", job[main].calls)
<1>1. Init => Plan
  BY InitKnown, InitPlanned
<1>2. \A s \in Scripts[main] : \A k \in 1 .. Len(s) : InOrder("load", s[k])
  BY DriverTableAssumption
<1>3. TypeOK /\ LoadedVarsAreResident /\ Plan /\ [Next]_vars => Plan'
  BY <1>2, KnownStays, PlannedNext
<1>4. ASSUME TypeOK, Plan PROVE NeedsFirst
  <2> SUFFICES ASSUME NEW t \in Threads, At(t, "exec", "load"), Here(t).of = Here(t).top,
                      NEW m \in NeedsOf(Here(t).of)
               PROVE  Accounted(m)
    BY DEF NeedsFirst
  <2>1. Active(t) /\ Here(t).op = "load" /\ Planned("load", job[t].calls)
    BY <1>4 DEF At
  <2>2. PICK r \in Seq(Op) : r = job[t].calls[1] /\ r # << >>
    BY <1>4, <2>1, HereType
  <2>3. Due("load", r) /\ 1 \in 1 .. Len(r) /\ Here(t) = r[1]
    BY <2>1, <2>2, EmptySeq DEF Planned, Active, Here
  <2>4. Wants("load", r[1]) = NeedsOf(Here(t).of)
    BY <2>1, <2>3 DEF Wants
  <2>5. \A x \in Wants("load", r[1]) :
           Accounted(x) \/ \E j \in 1 .. 1 - 1 : Loads(r[j], x)
    BY <2>3 DEF Due
  <2> QED
    BY <2>4, <2>5
<1> HIDE DEF Plan
<1> QED
  BY <1>1, <1>3, <1>4, TypeCorrect, VariablesTrue, PTL DEF Spec

\* DDIOC_OFF is asked with nobody to answer only after an error of fileXio or a
\* module that was given up: any script that brings fileXio and dev9 up before
\* the loop, round after round, whatever failed before.
THEOREM OffIsAnswered ==
    ASSUME NEW main, Threads = {main},
           \A s \in Scripts[main] : UpBeforeOff("fileXio", s) /\ UpBeforeOff("dev9", s)
    PROVE  Spec => []OffAnswered
<1> DEFINE Plan == /\ Known(main) /\ Planned("end", job[main].calls)
                   /\ OffPlanned("fileXio", job[main].calls)
                   /\ OffPlanned("dev9", job[main].calls)
<1>0. {"fileXio", "dev9"} \subseteq Names /\ main \in Threads
  BY DriverCallsAssumption, DriverTableAssumption
<1>1. Init => Plan
  BY <1>0, InitKnown, InitPlanned DEF Init, Idle, OffPlanned
<1>2. ASSUME TypeOK, LoadedVarsAreResident, Plan, [Next]_vars PROVE Plan'
  <2>1. Known(main)' /\ Planned("end", job[main].calls)'
    BY <1>0, <1>2, KnownStays, PlannedNext, EndsInOrder
  <2>2. ASSUME NEW d \in {"fileXio", "dev9"} PROVE OffPlanned(d, job[main].calls)'
    <3>0. OffPlanned(d, job[main].calls)
      BY <1>2
    <3>1. CASE UNCHANGED vars
      <4>1. Settled(d) => Settled(d)'
        BY <3>1 DEF vars, Settled, Accounted, GivenUp, CHECK_IRX_ERR
      <4>2. job' = job
        BY <3>1 DEF vars
      <4> QED
        BY <3>0, <4>1, <4>2 DEF OffPlanned
    <3>2. CASE Step(main)
      BY <1>0, <1>2, <3>0, <3>2, OffStep
    <3>3. ASSUME NEW s \in Scripts[main], Begin(main, s)
          PROVE  OffPlanned(d, job[main].calls)'
      <4>1. s \in Seq(Calls) /\ job'[main].calls = s
        BY <1>0, <1>2, <3>3, DriversAssumption DEF Begin, TypeOK
      <4>2. UpBeforeOff(d, s)
        OBVIOUS
      <4>3. OffPlanned(d, s)'
        BY <4>1, <4>2, OffAtStart
      <4> QED
        BY <4>1, <4>3
    <3> QED
      BY <1>2, <3>1, <3>2, <3>3 DEF Next
  <2> QED
    BY <2>1, <2>2
<1>3. ASSUME TypeOK, Plan PROVE OffAnswered
  <2> SUFFICES ASSUME At(main, "off", "off"), status["fileXio"] = "ok"
               PROVE  DevctlNeeds \subseteq iop \/ \E m \in DevctlNeeds : GivenUp(m)
    BY DEF OffAnswered
  <2>1. PICK cs \in Seq(Calls) : /\ cs = job[main].calls /\ cs # << >>
                                 /\ cs[1] \in Calls /\ Here(main) = cs[1][1]
    BY <1>0, <1>3, HereType, EmptySeq DEF At, Here
  <2>2. 1 \in 1 .. Len(cs) /\ 1 \in 1 .. Len(cs[1]) /\ cs[1][1].op = "off"
    BY <2>1, EmptySeq DEF Calls, At
  <2>3. ASSUME NEW d \in {"fileXio", "dev9"} PROVE Settled(d)
    <3>1. OffPlanned(d, cs)
      BY <1>3, <2>1
    <3>2. PICK j \in 0 .. 1 - 1 : IF j = 0 THEN Settled(d) ELSE InitOf(d, cs[j])
      BY <2>2, <3>1 DEF OffPlanned
    <3> QED
      BY <3>2
  <2>4. status["dev9"] = "ok"
    BY <1>3 DEF Known
  <2>5. \A m \in DevctlNeeds : Accounted(m)
    <3>1. DevctlNeeds = T!OwnModules("fileXio") \cup T!OwnModules("dev9")
      BY DriverTableAssumption
    <3> QED
      BY <2>3, <2>4, <3>1 DEF Settled
  <2> QED
    BY <2>5 DEF Accounted
<1> HIDE DEF Plan
<1> QED
  BY <1>1, <1>2, <1>3, TypeCorrect, VariablesTrue, PTL DEF Spec
=============================================================================
