--------------------------- MODULE Drivers_proofs ---------------------------
(***************************************************************************)
(* Proofs about Drivers, for any set of modules, drivers, threads and      *)
(* scripts: type correctness; the variables that say "loaded" are those of *)
(* a resident module; and, with one thread, the converse.                  *)
(***************************************************************************)
EXTENDS Drivers, SequenceTheorems, TLAPS

-----------------------------------------------------------------------------
(* Types.                                                                  *)

\* The operation a thread is at, the rest of its call and of its calls.
LEMMA HereType ==
    ASSUME TypeOK, NEW t \in Threads, Active(t)
    PROVE  /\ job[t].calls \in Seq(Calls) /\ job[t].calls # << >>
           /\ job[t].calls[1] \in Seq(Op) /\ job[t].calls[1] # << >>
           /\ Here(t) \in Op
<1>1. job[t].calls \in Seq(Calls) /\ job[t].calls # << >>
  BY DEF TypeOK, Active
<1>2. job[t].calls[1] \in Calls
  BY <1>1
<1>3. job[t].calls[1] \in Seq(Op) /\ job[t].calls[1] # << >>
  BY <1>2 DEF Calls
<1>4. job[t].calls[1][1] \in Op
  BY <1>3
<1> QED
  BY <1>1, <1>3, <1>4 DEF Here

\* The operand of a load or an unload is a module, and its driver is a driver.
LEMMA OperandIsModule ==
    ASSUME TypeOK, NEW t \in Threads, Active(t), Here(t).op \in {"load", "unload"}
    PROVE  Here(t).arg \in Modules
<1>1. Here(t) \in Op
  BY HereType
<1> QED
  BY <1>1 DEF Op

\* The operand of an end is a driver.
LEMMA OperandIsDriver ==
    ASSUME TypeOK, NEW t \in Threads, Active(t), Here(t).op = "end"
    PROVE  Here(t).arg \in Names
<1>1. Here(t) \in Op
  BY HereType
<1> QED
  BY <1>1 DEF Op

\* A call in front of a sequence of calls.
LEMMA PrependType ==
    ASSUME NEW S, NEW x \in S, NEW s \in Seq(S)
    PROVE  <<x>> \o s \in Seq(S)
<1>1. <<x>> \in Seq(S)
  OBVIOUS
<1> QED
  BY <1>1, ConcatProperties

\* The rest of a call of more than one operation is not empty.
LEMMA RestType ==
    ASSUME NEW S, NEW s \in Seq(S), s # << >>, Len(s) # 1
    PROVE  Tail(s) \in Seq(S) /\ Tail(s) # << >>
<1>1. Tail(s) \in Seq(S) /\ Len(Tail(s)) = Len(s) - 1 /\ Len(s) \in Nat /\ Len(s) # 0
  BY HeadTailProperties, EmptySeq
<1>2. Len(Tail(s)) # 0
  BY <1>1
<1> QED
  BY <1>1, <1>2, EmptySeq

\* What is left after an operation is a job.
LEMMA LeftType ==
    ASSUME TypeOK, NEW t \in Threads, Active(t)
    PROVE  Left(job[t].calls) \in Seq(Calls) /\ Tail(job[t].calls) \in Seq(Calls)
<1>1. /\ job[t].calls \in Seq(Calls) /\ job[t].calls # << >>
      /\ job[t].calls[1] \in Seq(Op) /\ job[t].calls[1] # << >>
  BY HereType
<1>2. Tail(job[t].calls) \in Seq(Calls)
  BY <1>1
<1>3. CASE Len(job[t].calls[1]) = 1
  BY <1>2, <1>3 DEF Left
<1>4. CASE Len(job[t].calls[1]) # 1
  <2>1. Tail(job[t].calls[1]) \in Seq(Op) /\ Tail(job[t].calls[1]) # << >>
    BY <1>1, <1>4, RestType
  <2>2. Tail(job[t].calls[1]) \in Calls
    BY <2>1, Zenon DEF Calls
  <2>3. PICK x \in Calls, s \in Seq(Calls) :
           x = Tail(job[t].calls[1]) /\ s = Tail(job[t].calls)
    BY <1>2, <2>2
  <2>4. <<x>> \o s \in Seq(Calls)
    BY PrependType
  <2>5. Left(job[t].calls) = <<x>> \o s
    BY <1>4, <2>3, Zenon DEF Left
  <2>6. Left(job[t].calls) \in Seq(Calls)
    BY <2>4, <2>5, Zenon
  <2> QED
    BY <1>2, <2>6
<1> QED
  BY <1>3, <1>4

\* What a call leaves: nothing of it, or its rest.
LEMMA LeftIs ==
    ASSUME NEW cs \in Seq(Calls), cs # << >>
    PROVE  /\ Len(cs[1]) = 1 => Left(cs) = Tail(cs)
           /\ Len(cs[1]) # 1 =>
                 /\ Left(cs) \in Seq(Calls) /\ Len(Left(cs)) = Len(cs)
                 /\ Left(cs)[1] = Tail(cs[1])
                 /\ \A k \in 2 .. Len(cs) : Left(cs)[k] = cs[k]
<1>1. Len(cs[1]) = 1 => Left(cs) = Tail(cs)
  BY DEF Left
<1>2. ASSUME Len(cs[1]) # 1
      PROVE  /\ Left(cs) \in Seq(Calls) /\ Len(Left(cs)) = Len(cs)
             /\ Left(cs)[1] = Tail(cs[1])
             /\ \A k \in 2 .. Len(cs) : Left(cs)[k] = cs[k]
  <2>0. cs[1] \in Calls /\ Len(cs) \in Nat /\ Len(cs) >= 1
    BY EmptySeq
  <2>1. Tail(cs[1]) \in Seq(Op) /\ Tail(cs[1]) # << >>
    BY <1>2, <2>0, RestType DEF Calls
  <2>2. PICK x \in Calls : x = Tail(cs[1])
    BY <2>1, Zenon DEF Calls
  <2>3. PICK s \in Seq(Calls) : s = Tail(cs) /\ Len(s) = Len(cs) - 1
           /\ \A i \in 1 .. Len(s) : s[i] = cs[i + 1]
    BY HeadTailProperties
  <2> DEFINE u == <<x>>
  <2>4. u \in Seq(Calls) /\ Len(u) = 1 /\ u[1] = x
    OBVIOUS
  <2>5. u = <<x>>
    OBVIOUS
  <2> HIDE DEF u
  <2>6. /\ u \o s \in Seq(Calls) /\ Len(u \o s) = Len(u) + Len(s)
        /\ \A i \in 1 .. Len(u) + Len(s) :
              (u \o s)[i] = IF i <= Len(u) THEN u[i] ELSE s[i - Len(u)]
    BY <2>4, ConcatProperties
  <2>7. Left(cs) = u \o s
    BY <1>2, <2>2, <2>3, <2>5, Zenon DEF Left
  <2>8. (u \o s)[1] = x
    BY <2>0, <2>3, <2>4, <2>6
  <2>9. ASSUME NEW k \in 2 .. Len(cs) PROVE (u \o s)[k] = cs[k]
    <3>1. k - 1 \in 1 .. Len(s) /\ k \in 1 .. Len(u) + Len(s) /\ (k - 1) + 1 = k
      BY <2>0, <2>3, <2>4
    <3>2. (u \o s)[k] = s[k - 1]
      BY <2>4, <2>6, <3>1
    <3> QED
      BY <2>3, <3>1, <3>2
  <2>10. Len(u \o s) = Len(cs)
    BY <2>0, <2>3, <2>4, <2>6
  <2> QED
    BY <2>2, <2>6, <2>7, <2>8, <2>9, <2>10, Zenon
<1> QED
  BY <1>1, <1>2

\* Every way a job changes keeps its type.
LEMMA JobType ==
    ASSUME TypeOK, NEW t \in Threads,
           \/ UNCHANGED job
           \/ Active(t) /\ (Advance(t) \/ Abandon(t))
           \/ \E p \in Phases : Goto(t, p)
    PROVE  job' \in [Threads -> [calls : Seq(Calls), at : Phases]]
<1>1. CASE UNCHANGED job
  BY <1>1 DEF TypeOK
<1>2. CASE Active(t) /\ (Advance(t) \/ Abandon(t))
  <2>1. Left(job[t].calls) \in Seq(Calls) /\ Tail(job[t].calls) \in Seq(Calls)
    BY <1>2, LeftType
  <2>2. "next" \in Phases
    BY DEF Phases
  <2>3. PICK c \in Seq(Calls) : job' = [job EXCEPT ![t] = [calls |-> c, at |-> "next"]]
    BY <1>2, <2>1 DEF Advance, Abandon
  <2> QED
    BY <2>2, <2>3 DEF TypeOK
<1>3. ASSUME NEW p \in Phases, Goto(t, p)
      PROVE  job' \in [Threads -> [calls : Seq(Calls), at : Phases]]
  BY <1>3 DEF Goto, TypeOK
<1> QED
  BY <1>1, <1>2, <1>3

\* An abandoned call stores its error in the statuses of drivers.
LEMMA StatusType ==
    ASSUME TypeOK, NEW t \in Threads, Abandon(t)
    PROVE  status' \in [Names -> {"unknown", "error", "ok"}]
BY DEF TypeOK, Abandon

\* Each step of a thread keeps the types.
LEMMA StepType ==
    ASSUME TypeOK, NEW t \in Threads, Step(t)
    PROVE  TypeOK'
<1>0. {"next", "exec", "unload", "reset", "off"} \subseteq Phases
  BY DEF Phases
<1>1. CASE LoadCheck(t) \/ UnloadCheck(t) \/ TryPasses(t) \/ Run(t) \/ OffCheck(t)
           \/ OffLoop(t)
  <2>1. /\ UNCHANGED <<irx, status, iop, staged>>
        /\ \/ UNCHANGED job
           \/ Active(t) /\ (Advance(t) \/ Abandon(t))
           \/ \E p \in Phases : Goto(t, p)
    BY <1>0, <1>1 DEF LoadCheck, UnloadCheck, TryPasses, Run, OffCheck, OffLoop, At
  <2>2. job' \in [Threads -> [calls : Seq(Calls), at : Phases]]
    BY <2>1, JobType
  <2> QED
    BY <2>1, <2>2 DEF TypeOK
<1>2. CASE TryFails(t)
  <2>1. Active(t) /\ Abandon(t) /\ UNCHANGED <<irx, iop, staged>>
    BY <1>2 DEF TryFails, At
  <2>2. job' \in [Threads -> [calls : Seq(Calls), at : Phases]]
    BY <2>1, JobType
  <2>3. status' \in [Names -> {"unknown", "error", "ok"}]
    BY <2>1, StatusType
  <2> QED
    BY <2>1, <2>2, <2>3 DEF TypeOK
<1>3. CASE End(t)
  <2>1. /\ Active(t) /\ Here(t).op = "end" /\ Advance(t) /\ UNCHANGED <<irx, iop, staged>>
        /\ status' = [status EXCEPT ![Here(t).arg] = "ok"]
    BY <1>3 DEF End, At
  <2>2. job' \in [Threads -> [calls : Seq(Calls), at : Phases]]
    BY <2>1, JobType
  <2>3. status' \in [Names -> {"unknown", "error", "ok"}]
    BY <2>1, OperandIsDriver DEF TypeOK
  <2> QED
    BY <2>1, <2>2, <2>3 DEF TypeOK
<1>4. CASE ExecNotStaged(t)
  <2>1. Active(t) /\ Here(t).op = "load" /\ Abandon(t) /\ UNCHANGED <<iop, staged>>
    BY <1>4 DEF ExecNotStaged, At
  <2>2. Here(t).arg \in Modules
    BY <2>1, OperandIsModule
  <2> DEFINE m == Here(t).arg
             v == [irx[m] EXCEPT !.id = -1]
  <2>3. irx' \in [Modules -> [id : Ids, ret : Rets]]
    <3>1. irx \in [Modules -> [id : Ids, ret : Rets]]
      BY DEF TypeOK
    <3>2. v \in [id : Ids, ret : Rets]
      <4>1. irx[m] \in [id : Ids, ret : Rets]
        BY <2>2, <3>1, Zenon
      <4>2. -1 \in Ids
        BY DEF Ids
      <4> HIDE DEF m
      <4> QED
        BY <4>1, <4>2
    <3>3. irx' = [irx EXCEPT ![m] = v]
      BY <1>4, Zenon DEF ExecNotStaged
    <3> HIDE DEF m, v
    <3> QED
      BY <2>2, <3>1, <3>2, <3>3 DEF m
  <2>4. job' \in [Threads -> [calls : Seq(Calls), at : Phases]]
    BY <2>1, JobType
  <2>5. status' \in [Names -> {"unknown", "error", "ok"}]
    BY <2>1, StatusType
  <2> QED
    BY <2>1, <2>3, <2>4, <2>5 DEF TypeOK
<1>5. ASSUME ExecFails(t) PROVE TypeOK'
  <2>1. Active(t) /\ Here(t).op = "load" /\ Abandon(t) /\ UNCHANGED iop
    BY <1>5 DEF ExecFails, Execute, At
  <2>2. Here(t).arg \in Modules
    BY <2>1, OperandIsModule
  <2>3. PICK v \in [id : {-200, -1}, ret : FailedRets] \cup {[id |-> 1, ret |-> 1]} :
           Execute(t, v)
    BY <1>5 DEF ExecFails
  <2>4. FailedRets \subseteq Rets
    BY DriversAssumption
  <2>5. v \in [id : Ids, ret : Rets]
    <3>1. CASE v \in [id : {-200, -1}, ret : FailedRets]
      BY <2>4, <3>1 DEF Ids
    <3>2. CASE v = [id |-> 1, ret |-> 1]
      BY <3>2 DEF Ids, Rets
    <3> QED
      BY <3>1, <3>2
  <2>6. irx' \in [Modules -> [id : Ids, ret : Rets]] /\ staged' \subseteq Modules
    BY <2>2, <2>3, <2>5 DEF Execute, TypeOK
  <2>7. job' \in [Threads -> [calls : Seq(Calls), at : Phases]]
    BY <2>1, JobType
  <2>8. status' \in [Names -> {"unknown", "error", "ok"}]
    BY <2>1, StatusType
  <2> QED
    BY <2>1, <2>6, <2>7, <2>8 DEF TypeOK
<1>6. ASSUME ExecStays(t) PROVE TypeOK'
  <2>1. Active(t) /\ Here(t).op = "load" /\ Advance(t) /\ UNCHANGED status
    BY <1>6 DEF ExecStays, Execute, At
  <2>2. Here(t).arg \in Modules
    BY <2>1, OperandIsModule
  <2>3. PICK r \in StayRets : Execute(t, [id |-> 1, ret |-> r])
    BY <1>6 DEF ExecStays
  <2>4. StayRets \subseteq {0, 2}
    BY DriversAssumption
  <2>5. [id |-> 1, ret |-> r] \in [id : Ids, ret : Rets]
    BY <2>4 DEF Ids, Rets
  <2>6. irx' \in [Modules -> [id : Ids, ret : Rets]] /\ staged' \subseteq Modules
    BY <2>2, <2>3, <2>5 DEF Execute, TypeOK
  <2>7. iop' \subseteq Modules
    BY <1>6, <2>2 DEF ExecStays, TypeOK
  <2>8. job' \in [Threads -> [calls : Seq(Calls), at : Phases]]
    BY <2>1, JobType
  <2> QED
    BY <2>1, <2>6, <2>7, <2>8 DEF TypeOK
<1>7. CASE SifUnloadModule(t)
  <2>1. Goto(t, "reset") /\ UNCHANGED <<irx, status, staged>> /\ iop' \subseteq iop
    BY <1>7 DEF SifUnloadModule
  <2>2. job' \in [Threads -> [calls : Seq(Calls), at : Phases]]
    BY <1>0, <2>1, JobType
  <2> QED
    BY <2>1, <2>2 DEF TypeOK
<1>8. CASE RESET_IRX_VARS(t)
  <2>1. Active(t) /\ Here(t).op = "unload" /\ Advance(t) /\ UNCHANGED <<status, iop, staged>>
    BY <1>8 DEF RESET_IRX_VARS, At
  <2>2. Here(t).arg \in Modules
    BY <2>1, OperandIsModule
  <2>3. irx' \in [Modules -> [id : Ids, ret : Rets]]
    BY <1>8, <2>2 DEF RESET_IRX_VARS, TypeOK, Fresh, Ids, Rets
  <2>4. job' \in [Threads -> [calls : Seq(Calls), at : Phases]]
    BY <2>1, JobType
  <2> QED
    BY <2>1, <2>3, <2>4 DEF TypeOK
<1> QED
  BY <1>1, <1>2, <1>3, <1>4, <1>5, <1>6, <1>7, <1>8 DEF Step

\* Every step of the system keeps the types.
LEMMA NextType ==
    ASSUME TypeOK, [Next]_vars
    PROVE  TypeOK'
<1>1. CASE UNCHANGED vars
  BY <1>1 DEF vars, TypeOK
<1>2. ASSUME NEW t \in Threads, Step(t) PROVE TypeOK'
  BY <1>2, StepType
<1>3. ASSUME NEW t \in Threads, NEW s \in Scripts[t], Begin(t, s) PROVE TypeOK'
  <2>1. s \in Seq(Calls)
    BY DriversAssumption
  <2> QED
    BY <1>3, <2>1 DEF Begin, TypeOK, Phases
<1> QED
  BY <1>1, <1>2, <1>3 DEF Next

\* The initial state has the types.
LEMMA InitType == Init => TypeOK
<1> SUFFICES ASSUME Init PROVE TypeOK
  OBVIOUS
<1>1. irx \in [Modules -> [id : Ids, ret : Rets]]
  BY DEF Init, Fresh, Ids, Rets
<1>2. staged \subseteq Modules
  BY DriversAssumption DEF Init
<1>3. Idle \in [calls : Seq(Calls), at : Phases]
  BY DEF Idle, Phases
<1> QED
  BY <1>1, <1>2, <1>3 DEF Init, TypeOK

\* Whatever the threads call, in whatever interleaving and with whatever
\* answers of the IOP, every variable keeps its type: in particular no thread
\* ever works on an empty call.
THEOREM TypeCorrect == Spec => []TypeOK
<1>1. Init => TypeOK
  BY InitType
<1>2. TypeOK /\ [Next]_vars => TypeOK'
  BY NextType
<1> QED
  BY <1>1, <1>2, PTL DEF Spec

-----------------------------------------------------------------------------
(* Variables that say "loaded".                                            *)

\* The step of one thread does not touch the job of another.
LEMMA OthersStay ==
    ASSUME TypeOK, NEW t \in Threads, NEW u \in Threads \ {t},
           Advance(t) \/ Abandon(t) \/ UNCHANGED job
             \/ (\E p \in Phases : Goto(t, p))
             \/ (\E s \in Scripts[t] : Begin(t, s))
    PROVE  job'[u] = job[u]
BY DEF TypeOK, Advance, Abandon, Goto, Begin

\* A thread that was resetting a module still is, unless it is the one that
\* moved.
LEMMA ResettingStays ==
    ASSUME TypeOK, NEW t \in Threads, NEW m \in Modules, Resetting(m),
           ~(At(t, "reset", "unload") /\ Here(t).arg = m),
           Advance(t) \/ Abandon(t) \/ UNCHANGED job
             \/ (\E p \in Phases : Goto(t, p))
             \/ (\E s \in Scripts[t] : Begin(t, s))
    PROVE  Resetting(m)'
<1>1. PICK u \in Threads : At(u, "reset", "unload") /\ Here(u).arg = m
  BY DEF Resetting
<1>2. u \in Threads \ {t}
  BY <1>1
<1>3. job'[u] = job[u]
  BY <1>2, OthersStay
<1>4. (At(u, "reset", "unload") /\ Here(u).arg = m)'
  BY <1>1, <1>3 DEF At, Active, Here
<1> QED
  BY <1>4 DEF Resetting

\* A step that leaves irx and iop alone and is not a reset keeps the property.
LEMMA QuietStep ==
    ASSUME TypeOK, LoadedVarsAreResident, NEW t \in Threads,
           ~At(t, "reset", "unload"), UNCHANGED <<irx, iop>>,
           Advance(t) \/ Abandon(t) \/ UNCHANGED job
             \/ (\E p \in Phases : Goto(t, p))
             \/ (\E s \in Scripts[t] : Begin(t, s))
    PROVE  LoadedVarsAreResident'
<1> SUFFICES ASSUME NEW m \in Modules, CHECK_IRX_UNLOAD(m)'
             PROVE  m \in iop' \/ Resetting(m)'
  BY DEF LoadedVarsAreResident
<1>1. CHECK_IRX_UNLOAD(m)
  BY DEF CHECK_IRX_UNLOAD
<1>2. m \in iop \/ Resetting(m)
  BY <1>1 DEF LoadedVarsAreResident
<1> QED
  BY <1>2, ResettingStays

\* A module's new variables, or its removal, disturb only that module.
LEMMA OneModuleStep ==
    ASSUME TypeOK, LoadedVarsAreResident, NEW t \in Threads,
           NEW x \in Modules, Active(t), Here(t).arg = x,
           \A m \in Modules \ {x} : irx'[m] = irx[m] /\ (m \in iop => m \in iop'),
           CHECK_IRX_UNLOAD(x)' => x \in iop' \/ Resetting(x)',
           Advance(t) \/ Abandon(t) \/ (\E p \in Phases : Goto(t, p))
    PROVE  LoadedVarsAreResident'
<1> SUFFICES ASSUME NEW m \in Modules, CHECK_IRX_UNLOAD(m)', m # x
             PROVE  m \in iop' \/ Resetting(m)'
  BY DEF LoadedVarsAreResident
<1>1. irx'[m] = irx[m] /\ (m \in iop => m \in iop')
  OBVIOUS
<1>2. CHECK_IRX_UNLOAD(m)
  BY <1>1 DEF CHECK_IRX_UNLOAD
<1>3. m \in iop \/ Resetting(m)
  BY <1>2 DEF LoadedVarsAreResident
<1> QED
  BY <1>1, <1>3, ResettingStays

\* Each step of a thread keeps the property.
LEMMA StepLoaded ==
    ASSUME TypeOK, LoadedVarsAreResident, NEW t \in Threads, Step(t)
    PROVE  LoadedVarsAreResident'
<1>0. {"next", "exec", "unload", "reset", "off"} \subseteq Phases
  BY DEF Phases
<1>1. CASE LoadCheck(t) \/ UnloadCheck(t) \/ TryPasses(t) \/ TryFails(t) \/ Run(t)
           \/ End(t) \/ OffCheck(t) \/ OffLoop(t)
  <2>1. /\ UNCHANGED <<irx, iop>>
        /\ Advance(t) \/ Abandon(t) \/ UNCHANGED job \/ (\E p \in Phases : Goto(t, p))
        /\ ~At(t, "reset", "unload")
    BY <1>0, <1>1 DEF LoadCheck, UnloadCheck, TryPasses, TryFails, Run, End,
                      OffCheck, OffLoop, At
  <2> QED
    BY <2>1, QuietStep
<1>2. CASE ExecNotStaged(t)
  <2>1. Active(t) /\ Here(t).op = "load" /\ UNCHANGED iop /\ Abandon(t)
    BY <1>2 DEF ExecNotStaged, At
  <2>2. PICK x \in Modules : x = Here(t).arg
    BY <2>1, OperandIsModule
  <2>3. irx'[x].id = -1 /\ \A m \in Modules \ {x} : irx'[m] = irx[m]
    BY <1>2, <2>2 DEF ExecNotStaged, TypeOK
  <2>4. ~CHECK_IRX_UNLOAD(x)'
    BY <2>3 DEF CHECK_IRX_UNLOAD
  <2> QED
    BY <2>1, <2>2, <2>3, <2>4, OneModuleStep
<1>3. ASSUME ExecFails(t) PROVE LoadedVarsAreResident'
  <2>1. Active(t) /\ Here(t).op = "load" /\ UNCHANGED iop /\ Abandon(t)
    BY <1>3 DEF ExecFails, Execute, At
  <2>2. PICK x \in Modules : x = Here(t).arg
    BY <2>1, OperandIsModule
  <2>3. PICK v \in [id : {-200, -1}, ret : FailedRets] \cup {[id |-> 1, ret |-> 1]} :
           Execute(t, v)
    BY <1>3 DEF ExecFails
  <2>4. irx'[x] = v /\ \A m \in Modules \ {x} : irx'[m] = irx[m]
    BY <2>2, <2>3 DEF Execute, TypeOK
  <2>5. v.id \in {-200, -1} \/ v.ret = 1
    OBVIOUS
  <2>6. ~CHECK_IRX_UNLOAD(x)'
    BY <2>4, <2>5 DEF CHECK_IRX_UNLOAD
  <2> QED
    BY <2>1, <2>2, <2>4, <2>6, OneModuleStep
<1>4. ASSUME ExecStays(t) PROVE LoadedVarsAreResident'
  <2>1. /\ Active(t) /\ Here(t).op = "load" /\ Advance(t)
        /\ iop' = iop \cup {Here(t).arg}
    BY <1>4 DEF ExecStays, Execute, At
  <2>2. PICK x \in Modules : x = Here(t).arg
    BY <2>1, OperandIsModule
  <2>3. \A m \in Modules \ {x} : irx'[m] = irx[m]
    BY <1>4, <2>2 DEF ExecStays, Execute, TypeOK
  <2> QED
    BY <2>1, <2>2, <2>3, OneModuleStep
<1>5. CASE SifUnloadModule(t)
  <2>1. /\ Active(t) /\ Here(t).op = "unload" /\ Goto(t, "reset") /\ UNCHANGED irx
        /\ \A m \in Modules \ {Here(t).arg} : m \in iop => m \in iop'
    BY <1>5 DEF SifUnloadModule, At
  <2>2. PICK x \in Modules : x = Here(t).arg
    BY <2>1, OperandIsModule
  <2>3. job'[t] = [job[t] EXCEPT !.at = "reset"]
    BY <2>1 DEF Goto, TypeOK
  <2>4. job'[t].at = "reset" /\ job'[t].calls = job[t].calls
    BY <2>3 DEF TypeOK
  <2>5. (At(t, "reset", "unload") /\ Here(t).arg = x)'
    BY <2>1, <2>2, <2>4 DEF At, Active, Here
  <2>6. Resetting(x)'
    BY <2>5 DEF Resetting
  <2> QED
    BY <1>0, <2>1, <2>2, <2>6, OneModuleStep
<1>6. CASE RESET_IRX_VARS(t)
  <2>1. Active(t) /\ Here(t).op = "unload" /\ Advance(t) /\ UNCHANGED iop
    BY <1>6 DEF RESET_IRX_VARS, At
  <2>2. PICK x \in Modules : x = Here(t).arg
    BY <2>1, OperandIsModule
  <2>3. irx'[x] = Fresh /\ \A m \in Modules \ {x} : irx'[m] = irx[m]
    BY <1>6, <2>2 DEF RESET_IRX_VARS, TypeOK
  <2>4. ~CHECK_IRX_UNLOAD(x)'
    BY <2>3 DEF CHECK_IRX_UNLOAD, Fresh
  <2> QED
    BY <2>1, <2>2, <2>3, <2>4, OneModuleStep
<1> QED
  BY <1>1, <1>2, <1>3, <1>4, <1>5, <1>6 DEF Step

\* Every step of the system keeps the property.
LEMMA NextLoaded ==
    ASSUME TypeOK, LoadedVarsAreResident, [Next]_vars
    PROVE  LoadedVarsAreResident'
<1>1. CASE UNCHANGED vars
  BY <1>1 DEF vars, LoadedVarsAreResident, CHECK_IRX_UNLOAD, Resetting, At, Active, Here
<1>2. ASSUME NEW t \in Threads, Step(t) PROVE LoadedVarsAreResident'
  BY <1>2, StepLoaded
<1>3. ASSUME NEW t \in Threads, NEW s \in Scripts[t], Begin(t, s)
      PROVE  LoadedVarsAreResident'
  <2>1. ~At(t, "reset", "unload") /\ UNCHANGED <<irx, iop>>
    BY <1>3 DEF Begin, At
  <2> QED
    BY <1>3, <2>1, QuietStep
<1> QED
  BY <1>1, <1>2, <1>3 DEF Next

\* In every interleaving of any number of threads, with an IOP that may refuse
\* to unload, variables that say "loaded" are those of a resident module, but
\* for the moment between SifUnloadModule() and RESET_IRX_VARS().
THEOREM VariablesTrue == Spec => []LoadedVarsAreResident
<1>1. Init => LoadedVarsAreResident
  BY DEF Init, LoadedVarsAreResident, CHECK_IRX_UNLOAD, Fresh
<1>2. TypeOK /\ LoadedVarsAreResident /\ [Next]_vars => LoadedVarsAreResident'
  BY NextLoaded
<1> QED
  BY <1>1, <1>2, TypeCorrect, PTL DEF Spec

-----------------------------------------------------------------------------
(* One thread, and an IOP that unloads what it is asked to.                *)

\* What the thread has tested still holds when it acts on it.
Solo(t) ==
    /\ ResidentIsKnown
    /\ At(t, "exec", "load") => CHECK_IRX_LOAD(Here(t).arg)
    /\ At(t, "unload", "unload") => CHECK_IRX_UNLOAD(Here(t).arg)
    /\ At(t, "reset", "unload") => Here(t).arg \notin iop

\* When an operation ends, in whatever way, only what is resident matters.
LEMMA OperationEnds ==
    ASSUME TypeOK, NEW t \in Threads, ResidentIsKnown',
           Advance(t) \/ Abandon(t) \/ \E s \in Scripts[t] : Begin(t, s)
    PROVE  Solo(t)'
<1>1. job'[t].at = "next"
  BY DEF TypeOK, Advance, Abandon, Begin
<1> QED
  BY <1>1 DEF Solo, At

\* A test moves the thread on to the operation, knowing its outcome.
LEMMA TestPasses ==
    ASSUME TypeOK, NEW t \in Threads, Solo(t), UNCHANGED <<irx, iop>>, Active(t),
           \/ Here(t).op = "load" /\ CHECK_IRX_LOAD(Here(t).arg) /\ Goto(t, "exec")
           \/ Here(t).op = "unload" /\ CHECK_IRX_UNLOAD(Here(t).arg) /\ Goto(t, "unload")
           \/ Here(t).op = "off" /\ Goto(t, "off")
    PROVE  Solo(t)'
<1>1. PICK p \in {"exec", "unload", "off"} : Goto(t, p)
  OBVIOUS
<1>2. job'[t].calls = job[t].calls /\ job'[t].at = p
  BY <1>1 DEF Goto, TypeOK
<1>3. Here(t)' = Here(t)
  BY <1>2 DEF Here
<1>4. ResidentIsKnown'
  BY DEF Solo, ResidentIsKnown, CHECK_IRX_UNLOAD
<1>5. At(t, "exec", "load")' => CHECK_IRX_LOAD(Here(t).arg)'
  BY <1>2, <1>3 DEF At, Goto, CHECK_IRX_LOAD, TypeOK
<1>6. At(t, "unload", "unload")' => CHECK_IRX_UNLOAD(Here(t).arg)'
  BY <1>2, <1>3 DEF At, Goto, CHECK_IRX_UNLOAD, TypeOK
<1>7. ~At(t, "reset", "unload")'
  BY <1>2 DEF At
<1> QED
  BY <1>4, <1>5, <1>6, <1>7 DEF Solo

\* New variables for a module that is not resident disturb no resident module.
LEMMA AbsentModule ==
    ASSUME TypeOK, ResidentIsKnown, NEW x \in Modules, x \notin iop, UNCHANGED iop,
           \A m \in Modules \ {x} : irx'[m] = irx[m]
    PROVE  ResidentIsKnown'
BY DEF ResidentIsKnown, CHECK_IRX_UNLOAD, TypeOK

\* The only thread keeps Solo, when the IOP unloads what it asks for.
LEMMA StepSolo ==
    ASSUME TypeOK, NEW t \in Threads, Solo(t), Step(t),
           MayRefuse = FALSE \/ (SifUnloadModule(t) => Here(t).arg \notin iop')
    PROVE  Solo(t)'
<1>1. CASE TryPasses(t) \/ TryFails(t) \/ Run(t) \/ End(t)
  <2>1. UNCHANGED <<irx, iop>> /\ (Advance(t) \/ Abandon(t))
    BY <1>1 DEF TryPasses, TryFails, Run, End
  <2>2. ResidentIsKnown'
    BY <2>1 DEF Solo, ResidentIsKnown, CHECK_IRX_UNLOAD
  <2> QED
    BY <2>1, <2>2, OperationEnds
<1>2. CASE LoadCheck(t) \/ UnloadCheck(t) \/ OffCheck(t)
  <2>1. Active(t) /\ UNCHANGED <<irx, iop>>
    BY <1>2 DEF LoadCheck, UnloadCheck, OffCheck, At
  <2>2. ResidentIsKnown'
    BY <2>1 DEF Solo, ResidentIsKnown, CHECK_IRX_UNLOAD
  <2>3. CASE Advance(t)
    BY <2>2, <2>3, OperationEnds
  <2>4. CASE \/ Here(t).op = "load" /\ CHECK_IRX_LOAD(Here(t).arg) /\ Goto(t, "exec")
             \/ Here(t).op = "unload" /\ CHECK_IRX_UNLOAD(Here(t).arg) /\ Goto(t, "unload")
             \/ Here(t).op = "off" /\ Goto(t, "off")
    BY <2>1, <2>4, TestPasses
  <2> QED
    BY <1>2, <2>3, <2>4 DEF LoadCheck, UnloadCheck, OffCheck, At
<1>3. CASE OffLoop(t)
  <2>1. UNCHANGED <<irx, iop>> /\ (Advance(t) \/ UNCHANGED job)
    BY <1>3 DEF OffLoop
  <2>2. ResidentIsKnown'
    BY <2>1 DEF Solo, ResidentIsKnown, CHECK_IRX_UNLOAD
  <2>3. CASE UNCHANGED job
    BY <2>1, <2>3 DEF Solo, ResidentIsKnown, CHECK_IRX_UNLOAD, CHECK_IRX_LOAD,
                      At, Active, Here
  <2> QED
    BY <2>1, <2>2, <2>3, OperationEnds
<1>4. ASSUME ExecNotStaged(t) \/ ExecFails(t)
      PROVE  Solo(t)'
  <2>1. Active(t) /\ Here(t).op = "load" /\ UNCHANGED iop /\ Abandon(t)
        /\ CHECK_IRX_LOAD(Here(t).arg)
    BY <1>4 DEF ExecNotStaged, ExecFails, Execute, At, Solo
  <2>2. PICK x \in Modules : x = Here(t).arg
    BY <2>1, OperandIsModule
  <2>3. x \notin iop
    BY <2>1, <2>2 DEF Solo, ResidentIsKnown, CHECK_IRX_LOAD, CHECK_IRX_UNLOAD
  <2>4. \A m \in Modules \ {x} : irx'[m] = irx[m]
    BY <1>4, <2>2 DEF ExecNotStaged, ExecFails, Execute, TypeOK
  <2>5. ResidentIsKnown'
    BY <2>1, <2>3, <2>4, AbsentModule DEF Solo
  <2> QED
    BY <2>1, <2>5, OperationEnds
<1>5. ASSUME ExecStays(t) PROVE Solo(t)'
  <2>1. Active(t) /\ Here(t).op = "load" /\ Advance(t)
    BY <1>5 DEF ExecStays, Execute, At
  <2>2. PICK x \in Modules : x = Here(t).arg
    BY <2>1, OperandIsModule
  <2>3. PICK r \in StayRets : irx' = [irx EXCEPT ![x] = [id |-> 1, ret |-> r]]
    BY <1>5, <2>2 DEF ExecStays, Execute
  <2>4. r \in {0, 2} /\ iop' = iop \cup {x}
    BY <1>5, <2>2, DriversAssumption DEF ExecStays
  <2>5. ResidentIsKnown'
    BY <2>3, <2>4 DEF Solo, ResidentIsKnown, CHECK_IRX_UNLOAD, TypeOK
  <2> QED
    BY <2>1, <2>5, OperationEnds
<1>6. CASE SifUnloadModule(t)
  <2>1. /\ Active(t) /\ Here(t).op = "unload" /\ Goto(t, "reset") /\ UNCHANGED irx
        /\ CHECK_IRX_UNLOAD(Here(t).arg)
    BY <1>6 DEF SifUnloadModule, At, Solo
  <2>2. iop' = iop \ {Here(t).arg}
    BY <1>6, <2>1 DEF SifUnloadModule, CHECK_IRX_UNLOAD
  <2>3. ResidentIsKnown'
    BY <2>1, <2>2 DEF Solo, ResidentIsKnown, CHECK_IRX_UNLOAD
  <2>4. job'[t].calls = job[t].calls /\ job'[t].at = "reset"
    BY <2>1 DEF Goto, TypeOK
  <2>5. Here(t)' = Here(t)
    BY <2>4 DEF Here
  <2> QED
    BY <2>2, <2>3, <2>4, <2>5 DEF Solo, At
<1>7. CASE RESET_IRX_VARS(t)
  <2>1. Active(t) /\ Here(t).op = "unload" /\ Advance(t) /\ UNCHANGED iop
        /\ Here(t).arg \notin iop
    BY <1>7 DEF RESET_IRX_VARS, At, Solo
  <2>2. PICK x \in Modules : x = Here(t).arg
    BY <2>1, OperandIsModule
  <2>3. \A m \in Modules \ {x} : irx'[m] = irx[m]
    BY <1>7, <2>2 DEF RESET_IRX_VARS, TypeOK
  <2>4. ResidentIsKnown'
    BY <2>1, <2>2, <2>3, AbsentModule DEF Solo
  <2> QED
    BY <2>1, <2>4, OperationEnds
<1> QED
  BY <1>1, <1>2, <1>3, <1>4, <1>5, <1>6, <1>7 DEF Step

\* Every step of the system keeps Solo, when the thread is the only one.
LEMMA NextSolo ==
    ASSUME NEW t, Threads = {t}, MayRefuse = FALSE, TypeOK, Solo(t), [Next]_vars
    PROVE  Solo(t)'
<1> t \in Threads
  OBVIOUS
<1>1. CASE UNCHANGED vars
  BY <1>1 DEF vars, Solo, ResidentIsKnown, CHECK_IRX_UNLOAD, CHECK_IRX_LOAD,
              At, Active, Here
<1>2. CASE Step(t)
  BY <1>2, StepSolo
<1>3. CASE \E s \in Scripts[t] : Begin(t, s)
  <2>1. ResidentIsKnown'
    BY <1>3 DEF Begin, Solo, ResidentIsKnown, CHECK_IRX_UNLOAD
  <2> QED
    BY <1>3, <2>1, OperationEnds
<1> QED
  BY <1>1, <1>2, <1>3 DEF Next

\* At the start nothing is resident and nothing is being done.
LEMMA InitSolo == ASSUME NEW t \in Threads, Init PROVE Solo(t)
BY DEF Init, Solo, ResidentIsKnown, At, Active, Idle

\* One thread, an IOP that unloads what it is asked to: after any sequence of
\* init and deinit calls, failures and retries, every resident module is one
\* that unloadIRXs() would unload and loadIRXs() would not load again.
THEOREM SingleThreadKnows ==
    ASSUME NEW t, Threads = {t}, MayRefuse = FALSE
    PROVE  Spec => []ResidentIsKnown
<1>1. Init => Solo(t)
  BY InitSolo
<1>2. TypeOK /\ Solo(t) /\ [Next]_vars => Solo(t)'
  BY NextSolo
<1>3. Solo(t) => ResidentIsKnown
  BY DEF Solo
<1> QED
  BY <1>1, <1>2, <1>3, TypeCorrect, PTL DEF Spec
=============================================================================
