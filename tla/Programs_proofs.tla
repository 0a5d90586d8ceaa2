-------------------------- MODULE Programs_proofs --------------------------
(***************************************************************************)
(* Proofs about the programs that use the filesystem layer, until the      *)
(* power button is pressed: the modules that serve a mounted partition are *)
(* resident, and the variables of ps2_hdd_driver.c name it; no module is   *)
(* loaded a second time while it is resident; what a program stages is     *)
(* there when its calls ask for it, and gone when they are done.           *)
(***************************************************************************)
EXTENDS Filesystem_proofs, Programs

-----------------------------------------------------------------------------
(* The application's thread is alone until the button is pressed.          *)

Alone == power = "on" \/ ~session.button

AloneInv ==
    /\ power = "pressed" => session.button
    /\ Alone => \A t \in Threads \ {"main"} : ~Active(t)

\* A thread that steps has a call, and at most turns the machine off.
LEMMA FStepIsActive ==
    ASSUME NEW t \in Threads, FStep(t)
    PROVE  Active(t) /\ UNCHANGED session /\ (power' = power \/ power' = "off")
<1>1. Active(t) /\ UNCHANGED session
  BY DEF FStep, EnvStep, DriverStep, LoadCheck, ExecNotStaged, UnloadCheck,
         SifUnloadModule, RESET_IRX_VARS, End, OffCheck, OffLoop, At
<1>2. power' = power \/ power' = "off"
  BY DEF FStep, EnvStep, DriverStep, Environment, mount_hdd_partition,
         umount_hdd_partition, mount_current_hdd_partition,
         umount_current_hdd_partition, poweroffSetCallback, poweroffShutdown
<1> QED
  BY <1>1, <1>2

\* How a thread that steps writes its own job.
LEMMA FStepJob ==
    ASSUME NEW t \in Threads, FStep(t)
    PROVE  Advance(t) \/ Abandon(t) \/ UNCHANGED job \/ (\E p \in Phases : Goto(t, p))
BY DEF FStep, EnvStep, DriverStep, LoadCheck, ExecNotStaged, ExecFails,
       ExecStays, UnloadCheck, SifUnloadModule, RESET_IRX_VARS, TryPasses, TryFails,
       Run, End, OffCheck, OffLoop, Phases

\* The staging that works, and all that makes the program end.
Restages ==
    /\ power # "off" /\ todo # << >> /\ Head(todo) = "restage" /\ ~Active("main")
    /\ staged' = session.staged /\ todo' = Tail(todo)
    /\ UNCHANGED <<irx, status, iop, job, session, mvars, power>>

Ends ==
    /\ power # "off" /\ todo # << >> /\ ~Active("main")
    /\ Head(todo) = "restage" \/ ~NoError
    /\ staged' \in {staged, {}} /\ todo' = << >>
    /\ UNCHANGED <<irx, status, iop, job, session, mvars, power>>

LEMMA RestageOrReturn == Restage \/ Return => Restages \/ Ends
BY DEF Restage, Return, Restages, Ends, GoesOn, vars

\* While it is alone, the steps are those of the application.
LEMMA AloneNext ==
    ASSUME AloneInv, [FNext]_fvars, Alone'
    PROVE  /\ Alone /\ UNCHANGED session /\ "main" \in Threads
           /\ FStep("main") \/ NextScript \/ Restages \/ Ends \/ UNCHANGED fvars
<1>0. "main" \in Threads
  BY FilesystemAssumption
<1>1. ASSUME NEW t \in Threads, FStep(t)
      PROVE  Alone /\ UNCHANGED session /\ FStep("main")
  <2>1. Active(t) /\ UNCHANGED session /\ (power' = power \/ power' = "off")
    BY <1>1, FStepIsActive
  <2>2. Alone
    BY <2>1 DEF Alone
  <2> QED
    BY <1>1, <2>1, <2>2 DEF AloneInv
<1>2. CASE NextScript \/ Restages \/ Ends \/ UNCHANGED fvars
  <2>1. UNCHANGED <<power, session>>
    BY <1>2 DEF NextScript, Restages, Ends, fvars
  <2> QED
    BY <1>0, <1>2, <2>1 DEF Alone
<1>3. CASE Press
  BY <1>3 DEF Press, Alone
<1> QED
  BY <1>0, <1>1, <1>2, <1>3, RestageOrReturn DEF FNext, Stop

\* It stays alone.
LEMMA AloneKeeps ==
    ASSUME FTypeOK, AloneInv, [FNext]_fvars
    PROVE  AloneInv'
<1>0. TypeOK
  BY DEF FTypeOK
<1>1. power' = "pressed" => session'.button
  <2>1. ASSUME NEW t \in Threads, FStep(t) PROVE power' = "pressed" => session'.button
    BY <2>1, FStepIsActive DEF AloneInv
  <2>2. CASE NextScript \/ Restages \/ Ends \/ UNCHANGED fvars
    BY <2>2 DEF NextScript, Restages, Ends, fvars, AloneInv
  <2>3. CASE Press
    BY <2>3 DEF Press
  <2> QED
    BY <2>1, <2>2, <2>3, RestageOrReturn DEF FNext, Stop
<1>2. ASSUME Alone', NEW u \in Threads \ {"main"} PROVE ~Active(u)'
  <2>1. /\ Alone /\ "main" \in Threads
        /\ FStep("main") \/ NextScript \/ Restages \/ Ends \/ UNCHANGED fvars
    BY <1>2, AloneNext
  <2>2. job'[u] = job[u]
    <3>1. CASE FStep("main")
      BY <1>0, <2>1, <3>1, FStepJob, OthersStay
    <3>2. CASE NextScript
      BY <1>0, <3>2 DEF NextScript, StartCalls, TypeOK
    <3>3. CASE Restages \/ Ends \/ UNCHANGED fvars
      BY <3>3 DEF Restages, Ends, fvars, vars
    <3> QED
      BY <2>1, <3>1, <3>2, <3>3
  <2> QED
    BY <2>1, <2>2 DEF AloneInv, Active
<1> QED
  BY <1>1, <1>2 DEF AloneInv

LEMMA AloneStarts == FInit => AloneInv
<1> SUFFICES ASSUME FInit PROVE AloneInv
  OBVIOUS
<1>1. power = "on" /\ \A t \in Threads : job[t].calls = << >>
  BY DEF FInit, Init, Idle
<1> QED
  BY <1>1 DEF AloneInv, Active

-----------------------------------------------------------------------------
(* Calls whose operations are all of one kind.                             *)

CallsOf(D) == Seq(D) \ {<< >>}

Mounts(o) ==
    o.op = "env" /\ o.arg \in {"mount_hdd_partition", "mount_current_hdd_partition"}

\* The two calls that name a mount point themselves.
ByHand(o) == o.op = "env" /\ o.arg \in {"mount_hdd_partition", "umount_hdd_partition"}

InitOps      == {o \in Op : o.op \notin {"unload", "env"}}
DeinitOps    == {o \in Op : o.op # "env"}
KeepingOps   == {o \in Op : ~TakesStack(o) /\ ~ByHand(o)}
ClosingOps   == {o \in Op : ~Mounts(o) /\ ~ByHand(o)}
MountlessOps == {o \in Op : ~Mounts(o)}

\* Calls of a kind are calls of a wider one.
LEMMA WiderCalls ==
    ASSUME NEW D, NEW E, D \subseteq E
    PROVE  CallsOf(D) \subseteq CallsOf(E) /\ Seq(CallsOf(D)) \subseteq Seq(CallsOf(E))
<1>1. ASSUME NEW c \in CallsOf(D) PROVE c \in CallsOf(E)
  <2>1. c \in Seq(D) /\ c # << >>
    BY DEF CallsOf
  <2>2. c \in Seq(E)
    BY <2>1, SeqMonotonic
  <2> QED
    BY <2>1, <2>2 DEF CallsOf
<1>2. CallsOf(D) \subseteq CallsOf(E)
  BY <1>1
<1>3. ASSUME NEW s \in Seq(CallsOf(D)) PROVE s \in Seq(CallsOf(E))
  BY <1>2, SeqMonotonic
<1> QED
  BY <1>2, <1>3

\* How the kinds include each other.
LEMMA Kinds ==
    /\ InitOps \subseteq KeepingOps /\ InitOps \subseteq ClosingOps
    /\ DeinitOps \subseteq ClosingOps /\ ClosingOps \subseteq MountlessOps
BY DEF InitOps, DeinitOps, KeepingOps, ClosingOps, MountlessOps, TakesStack, Mounts, ByHand

\* A call is of a kind when each of its operations is.
LEMMA CallIsOf ==
    ASSUME NEW D, NEW c \in Calls, \A o \in OpsIn(c) : o \in D
    PROVE  c \in CallsOf(D)
<1>1. c \in Seq(Op) /\ c # << >>
  BY DEF Calls
<1>2. \A i \in 1 .. Len(c) : c[i] \in D
  BY DEF OpsIn
<1>3. c \in Seq(D)
  BY <1>1, <1>2, IsASeq, LenProperties
<1> QED
  BY <1>1, <1>3 DEF CallsOf

\* Two scripts of one kind in a row.
LEMMA Join ==
    ASSUME NEW D, NEW s \in Seq(D), NEW u \in Seq(D)
    PROVE  s \o u \in Seq(D)
BY ConcatProperties

\* What is left of calls of a kind is of that kind, and so is the operation at
\* hand.
LEMMA LeftIsOf ==
    ASSUME NEW D, NEW s \in Seq(CallsOf(D)), s # << >>
    PROVE  /\ s[1][1] \in D
           /\ Tail(s) \in Seq(CallsOf(D)) /\ Left(s) \in Seq(CallsOf(D))
<1>1. s[1] \in CallsOf(D) /\ Tail(s) \in Seq(CallsOf(D))
  <2>1. Len(s) \in Nat /\ Len(s) # 0
    BY EmptySeq
  <2> QED
    BY <2>1, ElementOfSeq, HeadTailProperties
<1>2. PICK c \in Seq(D) : c = s[1] /\ c # << >>
  BY <1>1 DEF CallsOf
<1>3. c[1] \in D
  <2>1. Len(c) \in Nat /\ Len(c) # 0
    BY <1>2, EmptySeq
  <2> QED
    BY <2>1, ElementOfSeq
<1>4. CASE Len(c) = 1
  BY <1>1, <1>2, <1>3, <1>4 DEF Left
<1>5. CASE Len(c) # 1
  <2>1. PICK r \in CallsOf(D) : r = Tail(c)
    BY <1>2, <1>5, RestType DEF CallsOf
  <2>2. <<r>> \o Tail(s) \in Seq(CallsOf(D))
    BY <1>1, <2>1, PrependType
  <2>3. Left(s) = <<r>> \o Tail(s)
    BY <1>2, <1>5, <2>1, Zenon DEF Left
  <2> QED
    BY <1>1, <1>2, <1>3, <2>2, <2>3, Zenon
<1> QED
  BY <1>4, <1>5

\* A step keeps the kind of the calls of the thread.
LEMMA StepIsOf ==
    ASSUME TypeOK, NEW t \in Threads, NEW D, job[t].calls \in Seq(CallsOf(D)), Step(t)
    PROVE  Active(t) /\ Here(t) \in D /\ job'[t].calls \in Seq(CallsOf(D))
<1>1. Active(t)
  BY DEF Step, LoadCheck, ExecNotStaged, ExecFails, ExecStays, Execute, UnloadCheck,
         SifUnloadModule, RESET_IRX_VARS, TryPasses, TryFails, Run, End, OffCheck,
         OffLoop, At
<1>2. job'[t].calls \in {job[t].calls, Left(job[t].calls), Tail(job[t].calls)}
  <2>1. \/ UNCHANGED job \/ Advance(t) \/ Abandon(t)
        \/ \E p \in {"next", "exec", "unload", "reset", "off"} : Goto(t, p)
    BY DEF Step, LoadCheck, ExecNotStaged, ExecFails, ExecStays, Execute, UnloadCheck,
           SifUnloadModule, RESET_IRX_VARS, TryPasses, TryFails, Run, End, OffCheck,
           OffLoop
  <2> QED
    BY <2>1 DEF Goto, Advance, Abandon, TypeOK
<1>3. job[t].calls # << >>
  BY <1>1 DEF Active
<1>4. job[t].calls[1][1] \in D /\ Tail(job[t].calls) \in Seq(CallsOf(D))
      /\ Left(job[t].calls) \in Seq(CallsOf(D))
  BY <1>3, LeftIsOf
<1> QED
  BY <1>1, <1>2, <1>4 DEF Here

-----------------------------------------------------------------------------
(* The kinds of the scripts.                                               *)

\* The calls of a driver.
LEMMA DriverKinds ==
    ASSUME NEW d \in DriverNames, NEW deps \in BOOLEAN
    PROVE  /\ InitCall(d, deps) \in CallsOf(InitOps)
           /\ d # "eeip" \/ deps => DeinitCall(d, deps) \in CallsOf(DeinitOps)
           /\ d \in {"joystick", "poweroff"} => DeinitCall(d, deps) \in CallsOf(KeepingOps)
           /\ d = "eeip" /\ deps => DeinitCall(d, deps) \in CallsOf(KeepingOps)
<1>1. ASSUME NEW c \in Calls, NEW o \in OpsIn(c) PROVE o \in Op
  BY <1>1, ElementOfSeq, LenProperties DEF Calls, OpsIn
<1>2. InitCall(d, deps) \in Calls /\ (d # "eeip" \/ deps => DeinitCall(d, deps) \in Calls)
  BY FilesystemAssumption
<1>3. InitCall(d, deps) \in CallsOf(InitOps)
  <2>1. \A o \in OpsIn(InitCall(d, deps)) : o \in InitOps
    BY <1>1, <1>2, StackTableAssumption DEF InitOps
  <2> QED
    BY <1>2, <2>1, CallIsOf
<1>4. ASSUME d # "eeip" \/ deps PROVE DeinitCall(d, deps) \in CallsOf(DeinitOps)
  <2>1. \A o \in OpsIn(DeinitCall(d, deps)) : o \in DeinitOps
    BY <1>1, <1>2, <1>4, StackTableAssumption DEF DeinitOps
  <2> QED
    BY <1>2, <1>4, <2>1, CallIsOf
<1>5. ASSUME d \in {"joystick", "poweroff"} \/ (d = "eeip" /\ deps)
      PROVE  DeinitCall(d, deps) \in CallsOf(KeepingOps)
  <2>1. \A o \in OpsIn(DeinitCall(d, deps)) : o \in KeepingOps
    BY <1>1, <1>2, <1>5, StackTableAssumption DEF KeepingOps, ByHand
  <2> QED
    BY <1>2, <1>5, <2>1, CallIsOf
<1> QED
  BY <1>3, <1>4, <1>5

\* The check of the working directory in front of the HDD driver's init.
LEMMA InitHddKind ==
    ASSUME NEW deps \in BOOLEAN, NEW onlyIfBooted \in BOOLEAN
    PROVE  InitHddCall(deps, onlyIfBooted) \in CallsOf(InitOps)
<1> DEFINE check == [op |-> "try", arg |-> "cwd_is_hdd", of |-> "hdd", top |-> "hdd"]
<1>0. "hdd" \in DriverNames
  BY DEF DriverNames, Driver
<1>1. PICK c \in CallsOf(InitOps) : c = InitCall("hdd", deps)
  BY <1>0, DriverKinds
<1>2. c \in Seq(InitOps) /\ c # << >>
  BY DEF CallsOf
<1>3. check \in InitOps
  <2>1. "hdd" \in Names /\ "cwd_is_hdd" \in STRING
    BY <1>0, FilesystemAssumption DEF LayerNames
  <2>2. check \in [op : {"try", "run", "off", "env"}, arg : STRING,
                   of : Names \cup {"none"}, top : Names \cup {"none"}]
    BY <2>1
  <2>3. check \in Op
    BY <2>2, Zenon DEF Op
  <2> QED
    BY <2>3 DEF InitOps
<1>4. CASE onlyIfBooted
  <2>1. InitHddCall(deps, onlyIfBooted) = <<check>> \o c
    BY <1>1, <1>4 DEF InitHddCall, Tag
  <2>2. <<check>> \o c \in Seq(InitOps) /\ Len(<<check>> \o c) = 1 + Len(c)
    BY <1>2, <1>3, ConcatProperties
  <2>3. <<check>> \o c # << >>
    BY <2>2, <1>2
  <2> QED
    BY <2>1, <2>2, <2>3 DEF CallsOf
<1>5. CASE ~onlyIfBooted
  <2>1. InitHddCall(deps, onlyIfBooted) = << >> \o c
    BY <1>1, <1>5 DEF InitHddCall
  <2>2. << >> \o c = c
    BY <1>2, ConcatEmptySeq
  <2> QED
    BY <1>1, <2>1, <2>2
<1> QED
  BY <1>4, <1>5

\* A step of the layer, by its name.
LEMMA EnvKinds ==
    ASSUME NEW x \in LayerNames
    PROVE  /\ x \notin {"mount_hdd_partition", "umount_hdd_partition"}
                 => EnvCall(x) \in CallsOf(KeepingOps)
           /\ x \notin {"mount_hdd_partition", "mount_current_hdd_partition"}
                 => EnvCall(x) \in CallsOf(MountlessOps)
           /\ x \notin {"mount_hdd_partition", "umount_hdd_partition",
                        "mount_current_hdd_partition"}
                 => EnvCall(x) \in CallsOf(ClosingOps)
<1> DEFINE o == [op |-> "env", arg |-> x, of |-> "none", top |-> "none"]
<1>1. EnvCall(x) \in Calls
  BY EnvCallType
<1>2. EnvCall(x) = <<o>>
  BY DEF EnvCall, Tag
<1>3. OpsIn(EnvCall(x)) = {o}
  BY <1>2 DEF OpsIn
<1>4. o \in Op
  BY <1>1, <1>2, ElementOfSeq DEF Calls
<1>5. /\ x \notin {"mount_hdd_partition", "umount_hdd_partition"} => o \in KeepingOps
      /\ x \notin {"mount_hdd_partition", "mount_current_hdd_partition"}
            => o \in MountlessOps
      /\ x \notin {"mount_hdd_partition", "umount_hdd_partition",
                   "mount_current_hdd_partition"} => o \in ClosingOps
  BY <1>4 DEF KeepingOps, MountlessOps, ClosingOps, TakesStack, Mounts, ByHand
<1> QED
  BY <1>1, <1>3, <1>5, CallIsOf

\* The calls of the scripts, each of its kinds.
LEMMA CallKinds ==
    /\ \A d \in Called, deps \in BOOLEAN :
          /\ InitCall(d, deps) \in CallsOf(KeepingOps)
          /\ InitCall(d, deps) \in CallsOf(ClosingOps)
          /\ InitCall(d, deps) \in CallsOf(MountlessOps)
          /\ DeinitCall(d, deps) \in CallsOf(ClosingOps)
          /\ DeinitCall(d, deps) \in CallsOf(MountlessOps)
    /\ \A deps, b \in BOOLEAN :
          /\ InitHddCall(deps, b) \in CallsOf(KeepingOps)
          /\ InitHddCall(deps, b) \in CallsOf(MountlessOps)
<1>1. /\ CallsOf(InitOps) \subseteq CallsOf(KeepingOps)
      /\ CallsOf(InitOps) \subseteq CallsOf(ClosingOps)
      /\ CallsOf(DeinitOps) \subseteq CallsOf(ClosingOps)
      /\ CallsOf(ClosingOps) \subseteq CallsOf(MountlessOps)
  BY Kinds, WiderCalls
<1>2. Called \subseteq DriverNames /\ "eeip" \notin Called
  BY DEF Called, DriverNames, Driver
<1>3. \A d \in Called, deps \in BOOLEAN :
         InitCall(d, deps) \in CallsOf(InitOps) /\ DeinitCall(d, deps) \in CallsOf(DeinitOps)
  BY <1>2, DriverKinds
<1>4. \A deps, b \in BOOLEAN : InitHddCall(deps, b) \in CallsOf(InitOps)
  BY InitHddKind
<1> QED
  BY <1>1, <1>3, <1>4

\* The scripts that mount the launch directory unload none of its modules.
LEMMA MountScriptKinds ==
    \A name \in MountScripts : ScriptOf(name) \in Seq(CallsOf(KeepingOps))
<1> DEFINE K == CallsOf(KeepingOps)
<1>1. /\ InitCall("poweroff", FALSE) \in K /\ InitCall("fileXio", FALSE) \in K
      /\ InitCall("memcard", TRUE) \in K /\ InitCall("usb", TRUE) \in K
      /\ InitCall("mx4sio", FALSE) \in K /\ InitCall("mx4sio", TRUE) \in K
      /\ InitCall("cdfs", FALSE) \in K /\ InitCall("dev9", FALSE) \in K
      /\ InitHddCall(FALSE, TRUE) \in K /\ InitHddCall(FALSE, FALSE) \in K
      /\ InitHddCall(TRUE, TRUE) \in K /\ InitHddCall(TRUE, FALSE) \in K
  BY CallKinds DEF Called
<1>2. /\ EnvCall("poweroffSetCallback") \in K
      /\ EnvCall("poweroffSetCallback_boot") \in K
      /\ EnvCall("poweroffSetCallback_listdir") \in K
      /\ EnvCall("mount_current_hdd_partition") \in K
      /\ EnvCall("waitUntilDeviceIsReady") \in K
  BY EnvKinds DEF LayerNames
<1> HIDE DEF K
<1>3. init_ps2_filesystem_driver \in Seq(K)
  BY <1>1, <1>2, ElevenTuple, Zenon DEF init_ps2_filesystem_driver
<1>4. ASSUME NEW device
      PROVE  init_only_boot_ps2_filesystem_driver(device) \in Seq(K)
  <2> DEFINE middle ==
               CASE device \in McCases   -> <<InitCall("memcard", TRUE)>>
                 [] device \in CdfsCases -> <<InitCall("cdfs", FALSE)>>
                 [] device \in MassCases -> <<InitCall("usb", TRUE), InitCall("mx4sio", TRUE)>>
                 [] device \in HddCases  ->
                       << InitCall("poweroff", FALSE), InitCall("dev9", FALSE),
                          InitHddCall(FALSE, FALSE),
                          EnvCall("poweroffSetCallback_boot"),
                          EnvCall("mount_current_hdd_partition") >>
                 [] OTHER -> << >>
  <2>1. /\ <<InitCall("memcard", TRUE)>> \in Seq(K) /\ <<InitCall("cdfs", FALSE)>> \in Seq(K)
        /\ <<InitCall("usb", TRUE), InitCall("mx4sio", TRUE)>> \in Seq(K)
        /\ << InitCall("poweroff", FALSE), InitCall("dev9", FALSE),
              InitHddCall(FALSE, FALSE), EnvCall("poweroffSetCallback_boot"),
              EnvCall("mount_current_hdd_partition") >> \in Seq(K)
        /\ <<InitCall("fileXio", FALSE)>> \in Seq(K)
        /\ <<EnvCall("waitUntilDeviceIsReady")>> \in Seq(K)
    BY <1>1, <1>2, Tuples, Zenon
  <2>2. << >> \in Seq(K)
    OBVIOUS
  <2>3. middle \in Seq(K)
    BY <2>1, <2>2
  <2>4. init_only_boot_ps2_filesystem_driver(device)
        = <<InitCall("fileXio", FALSE)>> \o middle \o <<EnvCall("waitUntilDeviceIsReady")>>
    BY DEF init_only_boot_ps2_filesystem_driver
  <2> HIDE DEF middle
  <2>5. PICK x, y, z \in Seq(K) :
           /\ x = <<InitCall("fileXio", FALSE)>> /\ y = middle
           /\ z = <<EnvCall("waitUntilDeviceIsReady")>>
    BY <2>1, <2>3, Zenon
  <2>6. x \o y \o z \in Seq(K)
    BY Join
  <2> QED
    BY <2>4, <2>5, <2>6, Zenon
<1>5. ASSUME NEW b \in BOOLEAN PROVE hdd_init_drivers(b) \in Seq(K)
  <2>1. InitHddCall(TRUE, b) \in K
    BY <1>1, b = TRUE \/ b = FALSE, Zenon
  <2> QED
    BY <1>2, <2>1, Tuples, Zenon DEF hdd_init_drivers
<1>6. listdir_init_drivers("mount_current_hdd_partition", "poweroffSetCallback_listdir")
      \in Seq(K)
  BY <1>1, <1>2, Tuples, Zenon DEF listdir_init_drivers
<1>7. ASSUME NEW name \in MountScripts
      PROVE  ScriptOf(name) \in Seq(K)
  BY <1>3, <1>4, <1>5, <1>6 DEF ScriptOf, ScriptFrom, MountScripts
<1> QED
  BY <1>7 DEF K

\* The scripts that unmount do it first, and mount nothing.
ClosingScripts == {"deinit_all", "deinit_hdd", "exit_listdir"}

LEMMA ClosingScriptKinds ==
    \A name \in ClosingScripts :
       ScriptOf(name) \in Seq(CallsOf(ClosingOps))
       /\ ScriptOf(name) # << >>
       /\ ScriptOf(name)[1] = EnvCall("umount_current_hdd_partition")
<1> DEFINE C == CallsOf(ClosingOps)
           umount == EnvCall("umount_current_hdd_partition")
<1>1. /\ \A d \in Called, deps \in BOOLEAN : InitCall(d, deps) \in C /\ DeinitCall(d, deps) \in C
      /\ umount \in C
  BY CallKinds, EnvKinds DEF LayerNames
<1> HIDE DEF C, umount
<1>2. /\ DeinitCall("hdd", FALSE) \in C /\ DeinitCall("hdd", TRUE) \in C
      /\ DeinitCall("cdfs", FALSE) \in C /\ InitCall("mx4sio", FALSE) \in C
      /\ DeinitCall("usb", TRUE) \in C /\ DeinitCall("memcard", TRUE) \in C
      /\ DeinitCall("fileXio", FALSE) \in C /\ DeinitCall("dev9", FALSE) \in C
      /\ DeinitCall("poweroff", FALSE) \in C
  BY <1>1 DEF Called
<1>3. ASSUME NEW s \in Seq(C)
      PROVE  <<umount>> \o s \in Seq(C) /\ <<umount>> \o s # << >> /\ (<<umount>> \o s)[1] = umount
  BY <1>1, PrependType, ConcatProperties
<1>4. <<DeinitCall("poweroff", FALSE)>> \in Seq(C)
      /\ <<DeinitCall("hdd", TRUE)>> \in Seq(C)
      /\ << DeinitCall("hdd", FALSE), DeinitCall("usb", TRUE),
            DeinitCall("memcard", TRUE), DeinitCall("fileXio", FALSE) >> \in Seq(C)
      /\ << DeinitCall("hdd", FALSE), DeinitCall("cdfs", FALSE),
            InitCall("mx4sio", FALSE), DeinitCall("usb", TRUE),
            DeinitCall("memcard", TRUE), DeinitCall("fileXio", FALSE),
            DeinitCall("dev9", FALSE) >> \in Seq(C)
  BY <1>2, Tuples, Zenon
<1>5. PICK s \in Seq(C) : deinit_ps2_filesystem_driver = <<umount>> \o s
  <2>1. internal_deinit_ps2_filesystem_driver(TRUE)
        = << DeinitCall("hdd", FALSE), DeinitCall("cdfs", FALSE),
             InitCall("mx4sio", FALSE), DeinitCall("usb", TRUE),
             DeinitCall("memcard", TRUE), DeinitCall("fileXio", FALSE),
             DeinitCall("dev9", FALSE) >> \o <<DeinitCall("poweroff", FALSE)>>
    BY DEF internal_deinit_ps2_filesystem_driver
  <2>2. internal_deinit_ps2_filesystem_driver(TRUE) \in Seq(C)
    BY <1>4, <2>1, Join
  <2> QED
    BY <2>2 DEF deinit_ps2_filesystem_driver, umount
<1>6. PICK u \in Seq(C) :
         listdir_prepare_for_exit("umount_current_hdd_partition", TRUE) = <<umount>> \o u
  <2>1. listdir_deinit_drivers(TRUE)
        = << DeinitCall("hdd", FALSE), DeinitCall("usb", TRUE),
             DeinitCall("memcard", TRUE), DeinitCall("fileXio", FALSE) >>
          \o <<DeinitCall("poweroff", FALSE)>>
    BY DEF listdir_deinit_drivers
  <2>2. listdir_deinit_drivers(TRUE) \in Seq(C)
    BY <1>4, <2>1, Join
  <2> QED
    BY <2>2 DEF listdir_prepare_for_exit, umount
<1>7. hdd_deinit_drivers \in Seq(C) /\ hdd_deinit_drivers # << >>
      /\ hdd_deinit_drivers[1] = umount
  <2>1. hdd_deinit_drivers = <<umount, DeinitCall("hdd", TRUE)>>
    BY Zenon DEF hdd_deinit_drivers, umount
  <2>2. <<umount, DeinitCall("hdd", TRUE)>> \in Seq(C)
    BY <1>1, <1>2, Tuples, Zenon
  <2> QED
    BY <2>1, <2>2
<1>8. ASSUME NEW name \in ClosingScripts
      PROVE  ScriptOf(name) \in Seq(C) /\ ScriptOf(name) # << >>
             /\ ScriptOf(name)[1] = umount
  <2>1. CASE name = "deinit_all"
    BY <1>3, <1>5, <2>1 DEF ScriptOf, ScriptFrom
  <2>2. CASE name = "exit_listdir"
    BY <1>3, <1>6, <2>2 DEF ScriptOf, ScriptFrom
  <2>3. CASE name = "deinit_hdd"
    BY <1>7, <2>3 DEF ScriptOf, ScriptFrom
  <2> QED
    BY <2>1, <2>2, <2>3 DEF ClosingScripts
<1> QED
  BY <1>8 DEF C, umount

\* The scripts of the programs that mount nothing.
BareOrOther == ScriptNames \ (MountScripts \cup ClosingScripts
                              \cup {"restage", "deinit_boot", "init_default"})

LEMMA OtherScriptKinds ==
    \A name \in BareOrOther :
       /\ ScriptOf(name) \in Seq(CallsOf(MountlessOps))
       /\ name \notin BareScripts => ScriptOf(name) \in Seq(CallsOf(KeepingOps))
<1> DEFINE M == CallsOf(MountlessOps)
           K == CallsOf(KeepingOps)
<1>1. /\ \A d \in Called, deps \in BOOLEAN :
            /\ InitCall(d, deps) \in M /\ DeinitCall(d, deps) \in M
            /\ InitCall(d, deps) \in K
      /\ InitHddCall(TRUE, TRUE) \in M /\ InitHddCall(TRUE, TRUE) \in K
  BY CallKinds
<1>2. /\ EnvCall("umount_hdd_partition") \in M
      /\ EnvCall("poweroffShutdown") \in M /\ EnvCall("poweroffShutdown") \in K
  BY EnvKinds DEF LayerNames
<1>3. /\ DeinitCall("joystick", TRUE) \in K /\ DeinitCall("poweroff", FALSE) \in K
      /\ \A d \in DriverNames : InitCall(d, TRUE) \in K /\ InitCall(d, TRUE) \in M
      /\ DeinitCall("eeip", TRUE) \in K /\ DeinitCall("eeip", TRUE) \in M
  <2>1. /\ CallsOf(InitOps) \subseteq K /\ CallsOf(InitOps) \subseteq M
        /\ CallsOf(DeinitOps) \subseteq M
    BY Kinds, WiderCalls
  <2>2. {"joystick", "poweroff", "eeip"} \subseteq DriverNames
    BY DEF DriverNames, Driver
  <2> QED
    BY <2>1, <2>2, DriverKinds
<1> HIDE DEF M, K
<1>4. alldrivers_init_drivers \in Seq(M) /\ alldrivers_init_drivers \in Seq(K)
  <2>1. ASSUME NEW D, \A d \in Called, deps \in BOOLEAN : InitCall(d, deps) \in D,
               InitHddCall(TRUE, TRUE) \in D
        PROVE  alldrivers_init_drivers \in Seq(D)
    <3>1. /\ InitCall("fileXio", FALSE) \in D /\ InitCall("memcard", TRUE) \in D
          /\ InitCall("usb", TRUE) \in D /\ InitCall("cdfs", FALSE) \in D
          /\ InitCall("joystick", TRUE) \in D /\ InitCall("audio", FALSE) \in D
          /\ InitCall("poweroff", FALSE) \in D
      BY <2>1 DEF Called
    <3> QED
      BY <2>1, <3>1, EightTuple, Zenon DEF alldrivers_init_drivers
  <2> QED
    BY <1>1, <2>1
<1>5. alldrivers_deinit_drivers \in Seq(M)
  <2>1. /\ DeinitCall("poweroff", FALSE) \in M /\ DeinitCall("audio", FALSE) \in M
        /\ DeinitCall("joystick", FALSE) \in M /\ DeinitCall("usb", FALSE) \in M
        /\ DeinitCall("cdfs", FALSE) \in M /\ DeinitCall("memcard", TRUE) \in M
        /\ DeinitCall("hdd", FALSE) \in M /\ DeinitCall("fileXio", FALSE) \in M
    BY <1>1 DEF Called
  <2> QED
    BY <2>1, EightTuple, Zenon DEF alldrivers_deinit_drivers
<1>6. poweroff_main \in Seq(M) /\ poweroff_main \in Seq(K)
  <2>1. /\ InitCall("poweroff", FALSE) \in M /\ InitCall("poweroff", FALSE) \in K
        /\ DeinitCall("poweroff", FALSE) \in M
    BY <1>1 DEF Called
  <2> QED
    BY <1>2, <1>3, <2>1, Tuples, Zenon DEF poweroff_main
<1>7. /\ <<DeinitCall("joystick", TRUE)>> \in Seq(M)
      /\ <<DeinitCall("joystick", TRUE)>> \in Seq(K)
  <2>1. DeinitCall("joystick", TRUE) \in M
    BY <1>1 DEF Called
  <2> QED
    BY <1>3, <2>1, Tuples, Zenon
<1>11. <<DeinitCall("eeip", TRUE)>> \in Seq(M) /\ <<DeinitCall("eeip", TRUE)>> \in Seq(K)
  BY <1>3, Tuples, Zenon
<1>8. listdir_prepare_for_exit("umount_hdd_partition", TRUE) \in Seq(M)
  <2>1. /\ DeinitCall("hdd", FALSE) \in M /\ DeinitCall("usb", TRUE) \in M
        /\ DeinitCall("memcard", TRUE) \in M /\ DeinitCall("fileXio", FALSE) \in M
        /\ DeinitCall("poweroff", FALSE) \in M
    BY <1>1 DEF Called
  <2>2. PICK x, y, z \in Seq(M) :
           /\ x = <<EnvCall("umount_hdd_partition")>>
           /\ y = << DeinitCall("hdd", FALSE), DeinitCall("usb", TRUE),
                     DeinitCall("memcard", TRUE), DeinitCall("fileXio", FALSE) >>
           /\ z = <<DeinitCall("poweroff", FALSE)>>
    BY <1>2, <2>1, Tuples, Zenon
  <2>3. x \o (y \o z) \in Seq(M)
    BY Join
  <2>4. listdir_prepare_for_exit("umount_hdd_partition", TRUE) = x \o (y \o z)
    BY <2>2 DEF listdir_prepare_for_exit, listdir_deinit_drivers
  <2> QED
    BY <2>3, <2>4
<1>9. \A d \in DriverNames : <<InitCall(d, TRUE)>> \in Seq(M) /\ <<InitCall(d, TRUE)>> \in Seq(K)
  BY <1>3, Tuples, Zenon
<1>10. ASSUME NEW name \in BareOrOther
       PROVE  /\ ScriptOf(name) \in Seq(M)
              /\ name \notin BareScripts => ScriptOf(name) \in Seq(K)
  <2>1. CASE name = "init_alldrivers"
    BY <1>4, <2>1 DEF ScriptOf, ScriptFrom
  <2>2. CASE name = "deinit_alldrivers"
    BY <1>5, <2>2 DEF ScriptOf, ScriptFrom, BareScripts
  <2>3. CASE name = "exit_default"
    BY <1>8, <2>3 DEF ScriptOf, ScriptFrom, BareScripts
  <2>4. CASE name = "poweroff_main"
    BY <1>6, <2>4 DEF ScriptOf, ScriptFrom
  <2>5. CASE name = "deinit_joystick"
    BY <1>7, <2>5 DEF ScriptOf, ScriptFrom
  <2>7. CASE name = "deinit_network"
    BY <1>11, <2>7 DEF ScriptOf, ScriptFrom
  <2>6. CASE name \notin {"init_alldrivers", "deinit_alldrivers", "exit_default",
                         "poweroff_main", "deinit_joystick", "deinit_network"}
    <3>1. name \in DriverNames
      BY <2>6 DEF BareOrOther, ScriptNames, MountScripts, ClosingScripts
    <3>2. ScriptOf(name) = <<InitCall(name, TRUE)>>
      BY <2>6 DEF ScriptOf, ScriptFrom, BareOrOther, MountScripts, ClosingScripts
    <3> QED
      BY <1>9, <3>1, <3>2
  <2> QED
    BY <2>1, <2>2, <2>3, <2>4, <2>5, <2>6, <2>7
<1> QED
  BY <1>10 DEF M, K

-----------------------------------------------------------------------------
(* The invariant.                                                          *)

\* The mount point of the launch directory.
Home == MountString(session.path)

Mounting == \E name \in MountScripts : Runs(name)

\* The programs that the properties speak of.
Covered == UnmountsItself(session)

UmountFirst(calls) == calls # << >> /\ calls[1] = EnvCall("umount_current_hdd_partition")

\* What the calls that are left may do: in a program that mounts, they leave the
\* modules alone, or they mount nothing and begin with the unmount, unless that
\* is behind them.
Plan(calls) ==
    IF ~Mounting
    THEN calls \in Seq(CallsOf(MountlessOps))
    ELSE \/ calls \in Seq(CallsOf(KeepingOps))
         \/ /\ calls \in Seq(CallsOf(ClosingOps))
            /\ mounted = {} \/ UmountFirst(calls)

\* Where the program is, and what is recorded of the mount.
Recorded ==
    /\ cwd = session.path
         \/ (HasMountInfo(session.path) /\ cwd = NewCwd(session.path))
    /\ mounted # {} =>
         mounted = {Home} /\ mount_status /\ mountString = Home /\ HddStack \subseteq iop
    /\ ~Mounting => mounted = {}

MountInv ==
    /\ Recorded
    /\ \A i \in 1 .. Len(todo) : Runs(todo[i])
    /\ Plan(job["main"].calls)

\* In a program of that kind, as long as the thread is alone.
OnInv == power = "on" /\ Covered => MountInv

\* A directory that still names a partition is the launch directory.
LEMMA MountsAtHome ==
    ASSUME session \in Sessions, Recorded, HasMountInfo(cwd)
    PROVE  cwd = session.path /\ MountString(cwd) = Home
BY FilesystemAssumption DEF Recorded, Home

\* A step of a driver call leaves the mounts alone, and takes no module that
\* serves them unless it is at the unload of one.
LEMMA DriverStepMounts ==
    ASSUME TypeOK, NEW t \in Threads, DriverStep(t)
    PROVE  /\ UNCHANGED <<cwd, mount_status, mountString, mounted, callback, power>>
           /\ ~TakesStack(Here(t)) /\ HddStack \subseteq iop => HddStack \subseteq iop'
<1>1. UNCHANGED <<cwd, mount_status, mountString, mounted, callback, power>>
  BY DEF DriverStep, mvars, hddvars
<1>2. \/ iop \subseteq iop'
      \/ At(t, "unload", "unload") /\ iop \ {Here(t).arg} \subseteq iop'
  BY DEF DriverStep, LoadCheck, ExecNotStaged, ExecFails, ExecStays, UnloadCheck,
         SifUnloadModule, RESET_IRX_VARS, TryPasses, TryFails, Run, End, OffCheck, OffLoop
<1>3. ASSUME At(t, "unload", "unload"), iop \ {Here(t).arg} \subseteq iop',
             ~TakesStack(Here(t)), HddStack \subseteq iop
      PROVE  HddStack \subseteq iop'
  <2>1. Here(t).arg \notin HddStack
    BY <1>3 DEF At, TakesStack
  <2> QED
    BY <1>3, <2>1
<1> QED
  BY <1>1, <1>2, <1>3

\* A step of a driver call does not stand at a step of the layer.
LEMMA DriverStepNotEnv ==
    ASSUME NEW t \in Threads, DriverStep(t)
    PROVE  Active(t) /\ Here(t).op # "env"
BY DEF DriverStep, LoadCheck, ExecNotStaged, ExecFails, ExecStays, Execute, UnloadCheck,
       SifUnloadModule, RESET_IRX_VARS, TryPasses, TryFails, End, OffCheck, OffLoop, At, Run

\* At the head of calls that unmount first stands the unmount.
LEMMA UmountIsHere ==
    ASSUME NEW t \in Threads, UmountFirst(job[t].calls)
    PROVE  /\ Here(t).op = "env" /\ Here(t).arg = "umount_current_hdd_partition"
           /\ Left(job[t].calls) = Tail(job[t].calls)
BY DEF UmountFirst, Here, EnvCall, Tag, Left

\* What does not depend on the step: the program is the same.
LEMMA SameProgram ==
    ASSUME UNCHANGED session
    PROVE  Mounting' = Mounting /\ Covered' = Covered /\ Home' = Home
           /\ \A name : Runs(name)' = Runs(name)
BY DEF Mounting, Covered, UnmountsItself, Home, Runs, RunsIn

\* The mount of the launch directory records what it mounts.
LEMMA MountRecords ==
    ASSUME session \in Sessions, UNCHANGED <<iop, session>>, Recorded, Mounting,
           mount_current_hdd_partition
    PROVE  Recorded'
<1>1. Mounting' /\ Home' = Home
  BY SameProgram
<1>2. CASE UNCHANGED hddvars
  BY <1>1, <1>2 DEF hddvars, Recorded
<1>3. CASE HasMountInfo(cwd) /\ mountString' = MountString(cwd)
           /\ UNCHANGED <<cwd, mounted, mount_status>>
  <2>1. mountString' = Home
    BY <1>3, MountsAtHome
  <2> QED
    BY <1>1, <1>3, <2>1 DEF Recorded
<1>4. CASE HasMountInfo(cwd) /\ mountString' = MountString(cwd) /\ Mounted
  <2>1. cwd = session.path /\ MountString(cwd) = Home
    BY <1>4, MountsAtHome
  <2>2. HddStack \subseteq iop' /\ Home \notin mounted /\ mounted' = mounted \cup {Home}
    BY <1>4, <2>1 DEF Mounted, FioMount
  <2>3. mounted = {}
    BY <2>2 DEF Recorded
  <2>4. mount_status' /\ mountString' = Home
        /\ (cwd' = session.path \/ (HasMountInfo(session.path) /\ cwd' = NewCwd(session.path)))
    BY <1>4, <2>1 DEF Mounted
  <2> QED
    BY <1>1, <2>2, <2>3, <2>4 DEF Recorded
<1> QED
  BY <1>2, <1>3, <1>4 DEF mount_current_hdd_partition

\* The unmount of the launch directory leaves nothing mounted.
LEMMA UmountClears ==
    ASSUME UNCHANGED <<iop, session>>, Recorded, umount_current_hdd_partition
    PROVE  Recorded' /\ mounted' = {}
<1>1. mounted' = {}
  <2>1. CASE mount_status
    BY <2>1 DEF umount_current_hdd_partition, umount_hdd_partition, Recorded
  <2>2. CASE ~mount_status
    BY <2>2 DEF umount_current_hdd_partition, umount_hdd_partition, Recorded
  <2> QED
    BY <2>1, <2>2
<1>2. UNCHANGED cwd
  BY DEF umount_current_hdd_partition, umount_hdd_partition
<1> QED
  BY <1>1, <1>2 DEF Recorded

\* A step of the layer that the plan allows.
LEMMA LayerStepRecorded ==
    ASSUME session \in Sessions, UNCHANGED <<iop, session>>, Recorded,
           NEW x, Environment(x), x # "mount_hdd_partition",
           IF Mounting THEN x # "umount_hdd_partition" ELSE x # "mount_current_hdd_partition"
    PROVE  /\ Recorded'
           /\ mounted = {} /\ x # "mount_current_hdd_partition" => mounted' = {}
           /\ x = "umount_current_hdd_partition" => mounted' = {}
<1>0. Mounting' = Mounting /\ Home' = Home
  BY SameProgram
<1>1. CASE x = "mount_current_hdd_partition"
  <2>1. mount_current_hdd_partition /\ Mounting
    BY <1>1 DEF Environment
  <2> QED
    BY <1>1, <2>1, MountRecords
<1>2. CASE x = "umount_current_hdd_partition"
  <2>1. umount_current_hdd_partition
    BY <1>2 DEF Environment
  <2> QED
    BY <1>2, <2>1, UmountClears
<1>3. CASE x = "umount_hdd_partition"
  <2>1. mounted = {} /\ mounted' = {} /\ UNCHANGED cwd
    BY <1>3 DEF Environment, umount_hdd_partition, Recorded
  <2> QED
    BY <1>3, <2>1 DEF Recorded
<1>4. CASE x \notin {"mount_current_hdd_partition", "umount_current_hdd_partition",
                    "umount_hdd_partition"}
  <2>1. UNCHANGED hddvars
    BY <1>4 DEF Environment, poweroffSetCallback, poweroffShutdown, mvars
  <2> QED
    BY <1>0, <1>4, <2>1 DEF hddvars, Recorded
<1> QED
  BY <1>1, <1>2, <1>3, <1>4

\* A step of the application's thread keeps the invariant.
LEMMA MainStep ==
    ASSUME TypeOK, "main" \in Threads, session \in Sessions, MountInv,
           FStep("main")
    PROVE  MountInv'
<1> DEFINE calls == job["main"].calls
<1>0. /\ Step("main") /\ UNCHANGED <<session, todo>>
      /\ Mounting' = Mounting /\ Home' = Home /\ \A name : Runs(name)' = Runs(name)
  BY FStepIsStep, SameProgram DEF FStep
<1>1. (\A i \in 1 .. Len(todo) : Runs(todo[i]))'
  BY <1>0 DEF MountInv, Runs, RunsIn
<1>2. \A D \in {MountlessOps, KeepingOps, ClosingOps} :
         calls \in Seq(CallsOf(D)) =>
            Active("main") /\ Here("main") \in D /\ calls' \in Seq(CallsOf(D))
  BY <1>0, StepIsOf
<1>3. CASE DriverStep("main")
  <2>1. Active("main") /\ Here("main").op # "env" /\ ~UmountFirst(calls)
    BY <1>3, DriverStepNotEnv, UmountIsHere
  <2>2. UNCHANGED <<cwd, mount_status, mountString, mounted>>
    BY <1>3, DriverStepMounts
  <2>3. mounted = {} \/ ~TakesStack(Here("main"))
    BY <1>2, <2>1 DEF MountInv, Plan, Recorded, KeepingOps
  <2>4. Recorded'
    BY <1>0, <1>3, <2>2, <2>3, DriverStepMounts DEF MountInv, Recorded
  <2>5. Plan(job["main"].calls)'
    BY <1>0, <1>2, <2>1, <2>2 DEF MountInv, Plan
  <2> QED
    BY <1>1, <2>4, <2>5 DEF MountInv
<1>4. CASE EnvStep("main")
  <2> DEFINE x == Here("main").arg
  <2>1. Here("main").op = "env" /\ Environment(x) /\ UNCHANGED iop /\ Advance("main")
    BY <1>4 DEF EnvStep, Run
  <2>2. /\ Here("main") \in MountlessOps => x \notin {"mount_hdd_partition", "mount_current_hdd_partition"}
        /\ Here("main") \in KeepingOps => x \notin {"mount_hdd_partition", "umount_hdd_partition"}
        /\ Here("main") \in ClosingOps =>
              x \notin {"mount_hdd_partition", "umount_hdd_partition",
                       "mount_current_hdd_partition"}
    BY <2>1 DEF MountlessOps, KeepingOps, ClosingOps, Mounts, ByHand
  <2>3. /\ x # "mount_hdd_partition"
        /\ IF Mounting THEN x # "umount_hdd_partition" ELSE x # "mount_current_hdd_partition"
    BY <1>2, <2>2 DEF MountInv, Plan
  <2>4. /\ Recorded'
        /\ mounted = {} /\ x # "mount_current_hdd_partition" => mounted' = {}
        /\ x = "umount_current_hdd_partition" => mounted' = {}
    BY <1>0, <2>1, <2>3, LayerStepRecorded DEF MountInv
  <2>5. Plan(job["main"].calls)'
    <3>1. CASE ~Mounting
      BY <1>0, <1>2, <3>1 DEF MountInv, Plan
    <3>2. CASE Mounting /\ calls \in Seq(CallsOf(KeepingOps))
      BY <1>0, <1>2, <3>2 DEF Plan
    <3>3. CASE Mounting /\ calls \in Seq(CallsOf(ClosingOps))
               /\ (mounted = {} \/ UmountFirst(calls))
      <4>1. mounted' = {}
        BY <1>2, <2>2, <2>4, <3>3, UmountIsHere
      <4> QED
        BY <1>0, <1>2, <3>3, <4>1 DEF Plan
    <3> QED
      BY <3>1, <3>2, <3>3 DEF MountInv, Plan
  <2> QED
    BY <1>1, <2>4, <2>5 DEF MountInv
<1> QED
  BY <1>3, <1>4 DEF FStep

\* The plan of a script that begins.
LEMMA ScriptPlan ==
    ASSUME Covered, NEW name \in ScriptNames \ {"restage"},
           Runs(name)
    PROVE  Plan(ScriptOf(name))
<1>1. CASE name \in MountScripts
  <2>1. Mounting
    BY <1>1 DEF Mounting
  <2> QED
    BY <1>1, <2>1, MountScriptKinds DEF Plan
<1>2. CASE name \in ClosingScripts
  <2>1. /\ ScriptOf(name) \in Seq(CallsOf(ClosingOps))
        /\ ScriptOf(name) \in Seq(CallsOf(MountlessOps))
        /\ UmountFirst(ScriptOf(name))
    BY <1>2, ClosingScriptKinds, Kinds, WiderCalls DEF UmountFirst
  <2> QED
    BY <2>1 DEF Plan
<1>3. CASE name \notin MountScripts \cup ClosingScripts
  <2>1. name \in BareOrOther
    BY <1>3 DEF Covered, UnmountsItself, Runs, BareOrOther
  <2>2. Mounting => name \notin BareScripts
    BY DEF Covered, UnmountsItself, Mounting, Runs
  <2> QED
    BY <2>1, <2>2, OtherScriptKinds DEF Plan
<1> QED
  BY <1>1, <1>2, <1>3

\* No calls are any plan.
LEMMA IdlePlan == Plan(<< >>)
BY DEF Plan

\* The scripts that are left after the first one.
LEMMA TailRuns ==
    ASSUME UNCHANGED session, todo \in Seq(ScriptNames), todo # << >>, todo' = Tail(todo),
           \A i \in 1 .. Len(todo) : Runs(todo[i])
    PROVE  Runs(Head(todo)) /\ (\A i \in 1 .. Len(todo) : Runs(todo[i]))'
<1>1. Len(todo) \in Nat /\ Len(todo) # 0 /\ Head(todo) = todo[1]
  BY EmptySeq
<1>2. Len(todo') = Len(todo) - 1 /\ \A i \in 1 .. Len(todo') : todo'[i] = todo[i + 1]
  BY HeadTailProperties
<1>3. \A i \in 1 .. Len(todo') : i + 1 \in 1 .. Len(todo)
  BY <1>1, <1>2
<1> QED
  BY <1>1, <1>2, <1>3 DEF Runs, RunsIn

\* The application starts its next script.
LEMMA NextScriptKeeps ==
    ASSUME FTypeOK, "main" \in Threads, Covered, MountInv, NextScript
    PROVE  MountInv'
<1>1. /\ UNCHANGED <<session, cwd, mount_status, mountString, mounted, iop>>
      /\ Mounting' = Mounting /\ Home' = Home
  <2>1. UNCHANGED session
    BY DEF NextScript
  <2> QED
    BY <2>1, SameProgram DEF NextScript, StartCalls, mvars, hddvars
<1>2. Runs(Head(todo)) /\ (\A i \in 1 .. Len(todo) : Runs(todo[i]))'
  BY <1>1, TailRuns DEF NextScript, GoesOn, FTypeOK, MountInv
<1>3. Head(todo) \in ScriptNames \ {"restage"}
  BY HeadTailProperties DEF NextScript, GoesOn, FTypeOK
<1>4. Plan(ScriptOf(Head(todo)))
  BY <1>2, <1>3, ScriptPlan
<1>5. job'["main"].calls = ScriptOf(Head(todo))
  BY DEF NextScript, StartCalls, FTypeOK, TypeOK
<1>6. Plan(job["main"].calls)'
  BY <1>1, <1>4, <1>5 DEF Plan, UmountFirst
<1> QED
  BY <1>1, <1>2, <1>6 DEF MountInv, Recorded

\* Staging again, or not, touches neither the modules nor the mounts.
LEMMA RestageKeeps ==
    ASSUME FTypeOK, MountInv, Restages \/ Ends
    PROVE  MountInv'
<1>1. /\ UNCHANGED <<session, cwd, mount_status, mountString, mounted, iop, job>>
      /\ Mounting' = Mounting /\ Home' = Home
  <2>1. UNCHANGED session
    BY DEF Restages, Ends
  <2> QED
    BY <2>1, SameProgram DEF Restages, Ends, mvars, hddvars
<1>2. (\A i \in 1 .. Len(todo) : Runs(todo[i]))'
  <2>1. CASE Restages
    BY <1>1, <2>1, TailRuns DEF Restages, FTypeOK, MountInv
  <2>2. CASE Ends
    BY <2>2 DEF Ends
  <2> QED
    BY <2>1, <2>2
<1>3. Plan(job["main"].calls)'
  BY <1>1 DEF MountInv, Plan, UmountFirst
<1> QED
  BY <1>1, <1>2, <1>3 DEF MountInv, Recorded

\* The application starts with nothing mounted and no call to make.
LEMMA OnInvStarts == FInit => OnInv
<1> SUFFICES ASSUME FInit PROVE MountInv
  BY DEF OnInv
<1>1. job["main"].calls = << >>
  BY FilesystemAssumption DEF FInit, Init, Idle
<1>2. Plan(job["main"].calls)
  BY <1>1, IdlePlan
<1>3. \A i \in 1 .. Len(todo) : Runs(todo[i])
  BY DEF FInit, Runs, RunsIn
<1>4. Recorded
  BY DEF FInit, Recorded
<1> QED
  BY <1>2, <1>3, <1>4 DEF MountInv

\* Every step keeps the invariant.
LEMMA OnInvKeeps ==
    ASSUME FTypeOK, AloneInv, OnInv, [FNext]_fvars
    PROVE  OnInv'
<1> SUFFICES ASSUME power' = "on", Covered' PROVE MountInv'
  BY DEF OnInv
<1>0. /\ Alone /\ UNCHANGED session /\ "main" \in Threads
      /\ FStep("main") \/ NextScript \/ Restages \/ Ends \/ UNCHANGED fvars
  BY AloneNext DEF Alone
<1>1. TypeOK /\ session \in Sessions /\ Covered
  BY <1>0, SameProgram DEF FTypeOK
<1>2. CASE FStep("main")
  <2>1. power = "on"
    BY <1>0, <1>2, FStepIsActive
  <2> QED
    BY <1>0, <1>1, <1>2, <2>1, MainStep DEF OnInv
<1>3. CASE NextScript
  <2>1. power = "on"
    BY <1>3 DEF NextScript
  <2> QED
    BY <1>0, <1>1, <1>3, <2>1, NextScriptKeeps DEF OnInv
<1>4. CASE Restages \/ Ends
  <2>1. power = "on"
    BY <1>4 DEF Restages, Ends
  <2> QED
    BY <1>1, <1>4, <2>1, RestageKeeps DEF OnInv
<1>5. CASE UNCHANGED fvars
  <2>1. /\ UNCHANGED <<todo, cwd, mount_status, mountString, mounted, iop, job, power>>
        /\ Mounting' = Mounting /\ Home' = Home
    BY <1>0, <1>5, SameProgram DEF fvars, vars, mvars, hddvars
  <2>2. MountInv
    BY <1>1, <2>1 DEF OnInv
  <2> QED
    BY <1>0, <2>1, <2>2 DEF MountInv, Recorded, Plan, UmountFirst, Runs, RunsIn
<1> QED
  BY <1>0, <1>2, <1>3, <1>4, <1>5

\* The invariant holds, whatever the sessions are.
LEMMA AlwaysOnInv == FSpec => [](FTypeOK /\ AloneInv /\ OnInv)
<1>1. FInit => FTypeOK /\ AloneInv /\ OnInv
  BY FInitType, AloneStarts, OnInvStarts
<1>2. FTypeOK /\ AloneInv /\ OnInv /\ [FNext]_fvars => (FTypeOK /\ AloneInv /\ OnInv)'
  BY FNextKeeps, AloneKeeps, OnInvKeeps
<1> QED
  BY <1>1, <1>2, PTL DEF FSpec

\* Programs of any length, that mount the partition of the launch directory any
\* number of times and in any flavour, on a machine where any load, mount,
\* chdir() or unload fails: until the button is pressed, no module that serves
\* the mounted partition is taken away.
THEOREM MountedStaysServed == FSpec => []OthersMountedHasStack
<1>1. OnInv => OthersMountedHasStack
  BY DEF OnInv, MountInv, Recorded, Covered, OthersMountedHasStack, MountedBySelf
<1> QED
  BY <1>1, AlwaysOnInv, PTL

\* In the same programs the variables of ps2_hdd_driver.c name the one partition
\* that is mounted: a mount that fails, also a second one of what is mounted
\* already, loses neither the string nor the status that the unmount needs.
THEOREM MountRecordTrue == FSpec => []MountIsRecorded
<1>1. OnInv => MountIsRecorded
  BY DEF OnInv, MountInv, Recorded, Covered, MountIsRecorded, MountedBySelf
<1> QED
  BY <1>1, AlwaysOnInv, PTL

-----------------------------------------------------------------------------
(* Modules that are resident.                                              *)

\* An IOP that keeps nothing unloads what it is asked to.
SoloInv == Alone /\ session.keeps = {} => Solo("main")

\* A step of the thread.
LEMMA LayerStepSolo ==
    ASSUME FTypeOK, NEW t \in Threads, session.keeps = {}, Solo(t), FStep(t)
    PROVE  Solo(t)'
<1>1. TypeOK /\ Step(t)
  BY FStepIsStep DEF FTypeOK
<1>2. ASSUME SifUnloadModule(t), At(t, "unload", "unload") => CHECK_IRX_UNLOAD(Here(t).arg)
      PROVE  Here(t).arg \notin iop'
  <2>1. Here(t).op = "unload" /\ CHECK_IRX_UNLOAD(Here(t).arg)
    BY <1>2 DEF SifUnloadModule, At
  <2>2. SifUnloadModule(t) /\ (Refused(t) => Here(t).arg \in session.keeps)
    BY <1>2, <2>1 DEF FStep, EnvStep, DriverStep, LoadCheck, ExecNotStaged, ExecFails,
           ExecStays, Execute, UnloadCheck, SifUnloadModule, RESET_IRX_VARS, TryPasses,
           TryFails, Run, End, OffCheck, OffLoop, At
  <2> QED
    BY <2>1, <2>2 DEF Refused, CHECK_IRX_UNLOAD
<1> QED
  BY <1>1, <1>2, StepSolo DEF Solo

\* Every step of the machine.
LEMMA SoloInvKeeps ==
    ASSUME FTypeOK, AloneInv, SoloInv, [FNext]_fvars
    PROVE  SoloInv'
<1> SUFFICES ASSUME Alone', session'.keeps = {}
             PROVE  Solo("main")'
  BY DEF SoloInv
<1>0. /\ Alone /\ UNCHANGED session /\ "main" \in Threads
      /\ FStep("main") \/ NextScript \/ Restages \/ Ends \/ UNCHANGED fvars
  BY AloneNext
<1>1. Solo("main") /\ session.keeps = {}
  BY <1>0 DEF SoloInv
<1>2. CASE FStep("main")
  BY <1>0, <1>1, <1>2, LayerStepSolo
<1>3. CASE NextScript
  <2>1. UNCHANGED <<irx, iop>> /\ job'["main"].at = "next"
    BY <1>0, <1>3 DEF NextScript, StartCalls, FTypeOK, TypeOK
  <2>2. ResidentIsKnown'
    BY <1>1, <2>1 DEF Solo, ResidentIsKnown, CHECK_IRX_UNLOAD
  <2> QED
    BY <2>1, <2>2 DEF Solo, At
<1>4. CASE Restages \/ Ends \/ UNCHANGED fvars
  <2>1. UNCHANGED <<irx, iop, job>>
    BY <1>4 DEF Restages, Ends, fvars, vars
  <2> QED
    BY <1>1, <2>1 DEF Solo, ResidentIsKnown, CHECK_IRX_UNLOAD, CHECK_IRX_LOAD, At, Active, Here
<1> QED
  BY <1>0, <1>2, <1>3, <1>4

LEMMA AlwaysSolo == FSpec => [](FTypeOK /\ AloneInv /\ SoloInv)
<1>1. FInit => FTypeOK /\ AloneInv /\ SoloInv
  BY FInitType, AloneStarts, FilesystemAssumption, InitSolo DEF FInit, SoloInv
<1>2. FTypeOK /\ AloneInv /\ SoloInv /\ [FNext]_fvars => (FTypeOK /\ AloneInv /\ SoloInv)'
  BY FNextKeeps, AloneKeeps, SoloInvKeeps
<1> QED
  BY <1>1, <1>2, PTL DEF FSpec

\* Whatever a program asks for, in any order, and whatever fails: the IOP is not
\* handed a module that it has, until the button is pressed.
THEOREM LoadedOnce == FSpec => []NoneLoadedTwice
<1>1. AloneInv /\ SoloInv => NoneLoadedTwice
  <2> SUFFICES ASSUME AloneInv, SoloInv, power = "on", session.keeps = {},
                      NEW t \in Threads, At(t, "exec", "load")
               PROVE  Here(t).arg \notin iop
    BY DEF NoneLoadedTwice
  <2>1. t = "main" /\ Alone
    BY DEF AloneInv, Alone, At
  <2>2. CHECK_IRX_LOAD(Here(t).arg) /\ ResidentIsKnown
    BY <2>1 DEF SoloInv, Solo
  <2> QED
    BY <2>2 DEF ResidentIsKnown, CHECK_IRX_LOAD, CHECK_IRX_UNLOAD
<1> QED
  BY <1>1, AlwaysSolo, PTL

-----------------------------------------------------------------------------
(* What is left of a script, by its operations.                            *)

\* The operations whose operand is a module or a driver.
ArgOps == {"load", "unload", "end"}

\* Each call of u is, or ends, a call of v, as far from the end.
Within(u, v) ==
    /\ Len(u) <= Len(v)
    /\ \A l \in 1 .. Len(u) : OpsIn(u[l]) \subseteq OpsIn(v[l + (Len(v) - Len(u))])

\* An operation of a part is one of the whole.
LEMMA WithinArgs ==
    ASSUME NEW u \in Seq(Calls), NEW v \in Seq(Calls), Within(u, v)
    PROVE  /\ \A op \in ArgOps : ArgsBy(u, op) \subseteq ArgsBy(v, op)
           /\ TriesBy(u) \subseteq TriesBy(v)
           /\ NoReload(v) => NoReload(u)
           /\ NoSecondEnd(v) => NoSecondEnd(u)
<1> DEFINE d == Len(v) - Len(u)
<1>0. Len(u) \in Nat /\ Len(v) \in Nat /\ d \in Nat
  BY DEF Within
<1>1. ASSUME NEW l \in 1 .. Len(u)
      PROVE  /\ l + d \in 1 .. Len(v)
             /\ \A op \in ArgOps : Args(u[l], op) \subseteq Args(v[l + d], op)
             /\ Tries(u[l]) \subseteq Tries(v[l + d])
  <2>1. l + d \in 1 .. Len(v)
    BY <1>0
  <2>2. OpsIn(u[l]) \subseteq OpsIn(v[l + d])
    BY DEF Within
  <2> QED
    BY <2>1, <2>2 DEF Args, Tries
<1> HIDE DEF d
<1>2. \A op \in ArgOps : ArgsBy(u, op) \subseteq ArgsBy(v, op)
  BY <1>1 DEF ArgsBy
<1>3. TriesBy(u) \subseteq TriesBy(v)
  BY <1>1 DEF TriesBy
<1>4. ASSUME NoReload(v), NEW l \in 1 .. Len(u), NEW k \in 1 .. l
      PROVE  Args(u[k], "unload") \cap Args(u[l], "load") = {}
  <2>1. k \in 1 .. Len(u) /\ k + d \in 1 .. l + d
    BY <1>0
  <2>2. Args(v[k + d], "unload") \cap Args(v[l + d], "load") = {}
    BY <1>1, <1>4, <2>1 DEF NoReload
  <2>3. Args(u[k], "unload") \subseteq Args(v[k + d], "unload")
    BY <1>1, <2>1 DEF ArgOps
  <2>4. Args(u[l], "load") \subseteq Args(v[l + d], "load")
    BY <1>1 DEF ArgOps
  <2> QED
    BY <2>2, <2>3, <2>4
<1>5. ASSUME NoSecondEnd(v), NEW l \in 1 .. Len(u), NEW k \in 1 .. l - 1
      PROVE  Tries(u[k]) \cap Args(u[l], "end") = {}
  <2>1. k \in 1 .. Len(u) /\ k + d \in 1 .. (l + d) - 1
    BY <1>0
  <2>2. Tries(v[k + d]) \cap Args(v[l + d], "end") = {}
    BY <1>1, <1>5, <2>1 DEF NoSecondEnd
  <2>3. Tries(u[k]) \subseteq Tries(v[k + d])
    BY <1>1, <2>1
  <2>4. Args(u[l], "end") \subseteq Args(v[l + d], "end")
    BY <1>1 DEF ArgOps
  <2> QED
    BY <2>2, <2>3, <2>4
<1> QED
  BY <1>2, <1>3, <1>4, <1>5 DEF NoReload, NoSecondEnd

\* The rest of a call has its operations but the first.
LEMMA TailOps ==
    ASSUME NEW c \in Calls
    PROVE  /\ c[1] \in OpsIn(c) /\ OpsIn(c) = {c[1]} \cup OpsIn(Tail(c))
           /\ Len(c) = 1 => OpsIn(c) = {c[1]}
<1>1. c \in Seq(Op) /\ Len(c) \in Nat /\ Len(c) # 0
  BY EmptySeq DEF Calls
<1>2. Len(Tail(c)) = Len(c) - 1 /\ \A i \in 1 .. Len(Tail(c)) : Tail(c)[i] = c[i + 1]
  BY <1>1
<1>3. \A i \in 1 .. Len(c) : i = 1 \/ i - 1 \in 1 .. Len(Tail(c))
  BY <1>1, <1>2
<1>4. \A i \in 1 .. Len(Tail(c)) : i + 1 \in 1 .. Len(c)
  BY <1>1, <1>2
<1>5. OpsIn(c) = {c[1]} \cup OpsIn(Tail(c))
  <2>1. ASSUME NEW i \in 1 .. Len(c) PROVE c[i] \in {c[1]} \cup OpsIn(Tail(c))
    <3>1. CASE i = 1
      BY <3>1
    <3>2. CASE i - 1 \in 1 .. Len(Tail(c))
      <4>1. Tail(c)[i - 1] = c[i]
        BY <1>2, <3>2
      <4> QED
        BY <3>2, <4>1 DEF OpsIn
    <3> QED
      BY <1>3, <3>1, <3>2
  <2>2. ASSUME NEW i \in 1 .. Len(Tail(c)) PROVE Tail(c)[i] \in OpsIn(c)
    BY <1>2, <1>4 DEF OpsIn
  <2>3. c[1] \in OpsIn(c)
    BY <1>1 DEF OpsIn
  <2> QED
    BY <2>1, <2>2, <2>3 DEF OpsIn
<1> QED
  BY <1>1, <1>5 DEF OpsIn

\* What is left when the head operation is done, and when the head call is given
\* up.
LEMMA LeftOver ==
    ASSUME NEW v \in Seq(Calls), v # << >>
    PROVE  /\ Tail(v) \in Seq(Calls) /\ Left(v) \in Seq(Calls)
           /\ Len(Tail(v)) = Len(v) - 1 /\ \A l \in 1 .. Len(Tail(v)) : Tail(v)[l] = v[l + 1]
           /\ Len(v[1]) = 1 => Left(v) = Tail(v)
           /\ Len(v[1]) # 1 => /\ Len(Left(v)) = Len(v) /\ Left(v)[1] = Tail(v[1])
                               /\ \A l \in 2 .. Len(v) : Left(v)[l] = v[l]
           /\ v[1] \in Calls /\ Len(v) \in Nat \ {0}
<1>1. Len(v) \in Nat \ {0} /\ v[1] \in Calls
  BY EmptySeq, ElementOfSeq
<1>2. Tail(v) \in Seq(Calls) /\ Len(Tail(v)) = Len(v) - 1
      /\ \A l \in 1 .. Len(Tail(v)) : Tail(v)[l] = v[l + 1]
  BY <1>1
<1>3. Left(v) \in Seq(Calls)
  BY <1>1, <1>2, LeftIs, Len(v[1]) = 1 \/ Len(v[1]) # 1
<1> QED
  BY <1>1, <1>2, <1>3, LeftIs

\* The head operation, in what a call or a script has.
LEMMA HeadArgs ==
    ASSUME NEW v \in Seq(Calls), v # << >>
    PROVE  /\ v[1][1] \in OpsIn(v[1])
           /\ \A op \in ArgOps : v[1][1].op = op => v[1][1].arg \in ArgsBy(v, op)
           /\ v[1][1].op = "try" => v[1][1].of \in Tries(v[1]) /\ v[1][1].of \in TriesBy(v)
           /\ NoReload(v) /\ v[1][1].op = "unload" => v[1][1].arg \notin ArgsBy(v, "load")
<1>1. v[1] \in Calls /\ Len(v) \in Nat \ {0} /\ 1 \in 1 .. Len(v)
  BY LeftOver
<1>2. v[1][1] \in OpsIn(v[1])
  BY <1>1, TailOps
<1>3. \A op \in ArgOps : v[1][1].op = op =>
         v[1][1].arg \in Args(v[1], op) /\ v[1][1].arg \in ArgsBy(v, op)
  BY <1>1, <1>2 DEF Args, ArgsBy
<1>4. v[1][1].op = "try" => v[1][1].of \in Tries(v[1]) /\ v[1][1].of \in TriesBy(v)
  BY <1>1, <1>2 DEF Tries, TriesBy
<1>5. ASSUME NoReload(v), v[1][1].op = "unload", NEW l \in 1 .. Len(v)
      PROVE  v[1][1].arg \notin Args(v[l], "load")
  <2>1. 1 \in 1 .. l
    BY <1>1
  <2>2. Args(v[1], "unload") \cap Args(v[l], "load") = {}
    BY <1>5, <2>1 DEF NoReload
  <2> QED
    BY <1>3, <1>5, <2>2 DEF ArgOps
<1> QED
  BY <1>2, <1>3, <1>4, <1>5 DEF ArgsBy

\* The rest of a script is within it, and the head operation is all that it
\* lacks.
LEMMA LeftWithin ==
    ASSUME NEW v \in Seq(Calls), v # << >>
    PROVE  /\ Within(Left(v), v) /\ Within(Tail(v), v)
           /\ \A op \in ArgOps : \A m \in ArgsBy(v, op) :
                 m \in ArgsBy(Left(v), op) \/ (v[1][1].op = op /\ v[1][1].arg = m)
<1>1. /\ v[1] \in Calls /\ Len(v) \in Nat \ {0}
      /\ Len(Tail(v)) = Len(v) - 1 /\ \A l \in 1 .. Len(Tail(v)) : Tail(v)[l] = v[l + 1]
      /\ Len(v[1]) = 1 => Left(v) = Tail(v)
      /\ Len(v[1]) # 1 => /\ Len(Left(v)) = Len(v) /\ Left(v)[1] = Tail(v[1])
                          /\ \A l \in 2 .. Len(v) : Left(v)[l] = v[l]
  BY LeftOver
<1>2. /\ OpsIn(v[1]) = {v[1][1]} \cup OpsIn(Tail(v[1]))
      /\ Len(v[1]) = 1 => OpsIn(v[1]) = {v[1][1]}
  BY <1>1, TailOps
<1>3. Within(Tail(v), v)
  BY <1>1 DEF Within
<1>4. Within(Left(v), v)
  <2>1. CASE Len(v[1]) = 1
    BY <1>1, <1>3, <2>1
  <2>2. CASE Len(v[1]) # 1
    <3>1. \A l \in 1 .. Len(v) : OpsIn(Left(v)[l]) \subseteq OpsIn(v[l])
      BY <1>1, <1>2, <2>2
    <3> QED
      BY <1>1, <2>2, <3>1 DEF Within
  <2> QED
    BY <2>1, <2>2
<1>5. ASSUME NEW op \in ArgOps, NEW l \in 1 .. Len(v), NEW m \in Args(v[l], op)
      PROVE  m \in ArgsBy(Left(v), op) \/ (v[1][1].op = op /\ v[1][1].arg = m)
  <2>1. PICK o \in OpsIn(v[l]) : o.op = op /\ o.arg = m
    BY DEF Args
  <2>2. CASE o = v[1][1]
    BY <2>1, <2>2
  <2>3. ASSUME o # v[1][1]
        PROVE  \E k \in 1 .. Len(Left(v)) : o \in OpsIn(Left(v)[k])
    <3>1. CASE l = 1
      BY <1>1, <1>2, <2>1, <2>3, <3>1
    <3>2. CASE l # 1 /\ Len(v[1]) = 1
      <4>1. l - 1 \in 1 .. Len(Left(v)) /\ Left(v)[l - 1] = v[l]
        BY <1>1, <3>2
      <4> QED
        BY <2>1, <4>1
    <3>3. CASE l # 1 /\ Len(v[1]) # 1
      <4>1. l \in 1 .. Len(Left(v)) /\ Left(v)[l] = v[l]
        BY <1>1, <3>3
      <4> QED
        BY <2>1, <4>1
    <3> QED
      BY <3>1, <3>2, <3>3
  <2>4. (\E k \in 1 .. Len(Left(v)) : o \in OpsIn(Left(v)[k])) => m \in ArgsBy(Left(v), op)
    BY <2>1 DEF Args, ArgsBy
  <2> QED
    BY <2>2, <2>3, <2>4
<1> QED
  BY <1>3, <1>4, <1>5 DEF ArgsBy

\* What is unloaded for sure still is, when the head operation is done; also when
\* a call is given up that has a check.
LEMMA LeftSure ==
    ASSUME NEW v \in Seq(Calls), v # << >>
    PROVE  /\ \A m \in SureUnloads(v) :
                 m \in SureUnloads(Left(v)) \/ (v[1][1].op = "unload" /\ v[1][1].arg = m)
           /\ Tries(v[1]) # {} => SureUnloads(v) \subseteq SureUnloads(Tail(v))
<1>1. /\ v[1] \in Calls /\ Len(v) \in Nat \ {0}
      /\ Len(Tail(v)) = Len(v) - 1 /\ \A l \in 1 .. Len(Tail(v)) : Tail(v)[l] = v[l + 1]
      /\ Len(v[1]) = 1 => Left(v) = Tail(v)
      /\ Len(v[1]) # 1 => /\ Len(Left(v)) = Len(v) /\ Left(v)[1] = Tail(v[1])
                          /\ \A l \in 2 .. Len(v) : Left(v)[l] = v[l]
  BY LeftOver
<1>2. /\ OpsIn(v[1]) = {v[1][1]} \cup OpsIn(Tail(v[1]))
      /\ Len(v[1]) = 1 => OpsIn(v[1]) = {v[1][1]}
  BY <1>1, TailOps
<1>3. Tries(Tail(v[1])) \subseteq Tries(v[1])
  BY <1>2 DEF Tries
<1>4. ASSUME NEW l \in 2 .. Len(v), Tries(v[l]) = {}
      PROVE  /\ Args(v[l], "unload") \subseteq SureUnloads(Tail(v))
             /\ Args(v[l], "unload") \subseteq SureUnloads(Left(v))
  <2>1. l - 1 \in 1 .. Len(Tail(v)) /\ Tail(v)[l - 1] = v[l]
    BY <1>1
  <2>2. Args(v[l], "unload") \subseteq SureUnloads(Tail(v))
    BY <1>4, <2>1 DEF SureUnloads
  <2>3. CASE Len(v[1]) = 1
    BY <1>1, <2>2, <2>3
  <2>4. CASE Len(v[1]) # 1
    <3>1. l \in 1 .. Len(Left(v)) /\ Left(v)[l] = v[l]
      BY <1>1, <2>4
    <3>2. Args(v[l], "unload") \subseteq SureUnloads(Left(v))
      BY <1>4, <3>1 DEF SureUnloads
    <3> QED
      BY <2>2, <3>2
  <2> QED
    BY <2>3, <2>4
<1>5. ASSUME Tries(v[1]) = {}, NEW m \in Args(v[1], "unload"),
             ~(v[1][1].op = "unload" /\ v[1][1].arg = m)
      PROVE  m \in SureUnloads(Left(v))
  <2>1. PICK o \in OpsIn(Tail(v[1])) : o.op = "unload" /\ o.arg = m /\ Len(v[1]) # 1
    BY <1>2, <1>5 DEF Args
  <2>2. 1 \in 1 .. Len(Left(v)) /\ Left(v)[1] = Tail(v[1]) /\ Tries(Left(v)[1]) = {}
    BY <1>1, <1>3, <1>5, <2>1
  <2>3. m \in Args(Left(v)[1], "unload")
    BY <2>1, <2>2 DEF Args
  <2> QED
    BY <2>2, <2>3 DEF SureUnloads
<1>6. \A m \in SureUnloads(v) :
         m \in SureUnloads(Left(v)) \/ (v[1][1].op = "unload" /\ v[1][1].arg = m)
  <2> SUFFICES ASSUME NEW l \in 1 .. Len(v), Tries(v[l]) = {},
                      NEW m \in Args(v[l], "unload"),
                      ~(v[1][1].op = "unload" /\ v[1][1].arg = m)
               PROVE  m \in SureUnloads(Left(v))
    BY DEF SureUnloads
  <2>1. CASE l = 1
    BY <1>5, <2>1
  <2>2. CASE l # 1
    <3>1. l \in 2 .. Len(v)
      BY <1>1, <2>2
    <3> QED
      BY <1>4, <3>1
  <2> QED
    BY <2>1, <2>2
<1>7. ASSUME Tries(v[1]) # {}, NEW l \in 1 .. Len(v), Tries(v[l]) = {}
      PROVE  Args(v[l], "unload") \subseteq SureUnloads(Tail(v))
  <2>1. l \in 2 .. Len(v)
    BY <1>1, <1>7
  <2> QED
    BY <1>4, <1>7, <2>1
<1> QED
  BY <1>6, <1>7 DEF SureUnloads
-----------------------------------------------------------------------------
(* How far the program is.                                                 *)

Begun == Len(session.scripts) - Len(todo)
Rest  == job["main"].calls

PlaceInv ==
    /\ cwd \in Dirs(session)
    /\ Len(todo) <= Len(session.scripts)
    /\ \A i \in 1 .. Len(todo) : todo[i] = session.scripts[Begun + i]

\* The scripts of the session are scripts.
LEMMA SessionType ==
    ASSUME FTypeOK
    PROVE  /\ session.scripts \in Seq(ScriptNames) /\ session.staged \subseteq Modules
           /\ Len(session.scripts) \in Nat /\ Len(todo) \in Nat
<1>1. session.scripts \in Seq(ScriptNames) /\ session.staged \in StagedSets
  BY FilesystemAssumption DEF FTypeOK
<1> QED
  BY <1>1, DriversAssumption DEF FTypeOK

\* The next script is the one that the session names.
LEMMA NextPlace ==
    ASSUME FTypeOK, PlaceInv, UNCHANGED session, todo # << >>, todo' = Tail(todo)
    PROVE  /\ Begun \in Nat /\ Begun' = Begun + 1 /\ Begun + 1 \in 1 .. Len(session.scripts)
           /\ Head(todo) \in ScriptNames /\ session.scripts[Begun + 1] = Head(todo)
           /\ Len(todo') <= Len(session'.scripts)
           /\ \A i \in 1 .. Len(todo') : todo'[i] = session'.scripts[Begun' + i]
<1>1. /\ Len(session.scripts) \in Nat /\ Len(todo) \in Nat \ {0}
      /\ Head(todo) = todo[1] /\ Head(todo) \in ScriptNames
  BY SessionType, EmptySeq, HeadTailProperties DEF FTypeOK
<1>2. Len(todo') = Len(todo) - 1 /\ \A i \in 1 .. Len(todo') : todo'[i] = todo[i + 1]
  BY <1>1, HeadTailProperties DEF FTypeOK
<1>3. Begun \in Nat /\ Begun' = Begun + 1 /\ Begun + 1 \in 1 .. Len(session.scripts)
  BY <1>1, <1>2 DEF PlaceInv, Begun
<1>4. session.scripts[Begun + 1] = Head(todo)
  BY <1>1 DEF PlaceInv
<1>5. ASSUME NEW i \in 1 .. Len(todo')
      PROVE  todo'[i] = session'.scripts[Begun' + i]
  <2>1. i + 1 \in 1 .. Len(todo) /\ todo'[i] = todo[i + 1]
    BY <1>1, <1>2
  <2>2. todo[i + 1] = session.scripts[Begun + (i + 1)]
    BY <2>1 DEF PlaceInv
  <2>3. Begun + (i + 1) = Begun' + i
    BY <1>2, <1>3
  <2> QED
    BY <2>1, <2>2, <2>3
<1> QED
  BY <1>1, <1>2, <1>3, <1>4, <1>5 DEF PlaceInv

\* What a script is when it begins.
LEMMA NextMayCall ==
    ASSUME FTypeOK, PlaceInv, NextScript
    PROVE  /\ session.scripts[Begun + 1] # "restage"
           /\ ScriptOf(Head(todo)) \in MayCall(session, Begun + 1)
           /\ ScriptOf(Head(todo)) \in Seq(Calls)
<1>1. session.scripts[Begun + 1] = Head(todo) /\ Head(todo) \in ScriptNames \ {"restage"}
  BY NextPlace DEF NextScript, GoesOn
<1>2. ScriptFrom(Head(todo), cwd) \in MayCall(session, Begun + 1)
  BY <1>1 DEF MayCall, PlaceInv
<1> QED
  BY <1>1, <1>2, ScriptType DEF ScriptOf

\* Only a mount changes the working directory.
LEMMA FStepCwd ==
    ASSUME NEW t \in Threads, FStep(t)
    PROVE  cwd' = cwd \/ (HasMountInfo(cwd) /\ cwd' = NewCwd(cwd))
<1>1. CASE EnvStep(t)
  BY <1>1 DEF EnvStep, Environment, mount_hdd_partition, umount_hdd_partition,
         mount_current_hdd_partition, Mounted, umount_current_hdd_partition,
         poweroffSetCallback, poweroffShutdown, mvars, hddvars
<1>2. CASE DriverStep(t)
  BY <1>2 DEF DriverStep, mvars, hddvars
<1> QED
  BY <1>1, <1>2 DEF FStep

\* The program is where its session says, and in one of its directories.
LEMMA PlaceKeeps ==
    ASSUME FTypeOK, PlaceInv, [FNext]_fvars
    PROVE  PlaceInv'
<1>1. ASSUME NEW t \in Threads, FStep(t) PROVE PlaceInv'
  <2>1. UNCHANGED <<session, todo>>
    BY <1>1 DEF FStep
  <2>2. cwd' \in Dirs(session)
    <3>1. cwd' = cwd \/ (HasMountInfo(cwd) /\ cwd' = NewCwd(cwd))
      BY <1>1, FStepCwd
    <3>2. HasMountInfo(session.path) => ~HasMountInfo(NewCwd(session.path))
      BY FilesystemAssumption DEF FTypeOK
    <3> QED
      BY <3>1, <3>2 DEF PlaceInv, Dirs
  <2> QED
    BY <2>1, <2>2 DEF PlaceInv, Begun, Dirs
<1>2. CASE NextScript \/ Restages
  <2>1. UNCHANGED <<session, cwd>> /\ todo # << >> /\ todo' = Tail(todo)
    BY <1>2 DEF NextScript, GoesOn, Restages, mvars, hddvars
  <2> QED
    BY <2>1, NextPlace DEF PlaceInv, Dirs
<1>3. CASE Press \/ UNCHANGED fvars
  <2>1. UNCHANGED <<session, cwd, todo>>
    BY <1>3 DEF Press, fvars, mvars, hddvars
  <2> QED
    BY <2>1 DEF PlaceInv, Begun, Dirs
<1>4. CASE Ends
  <2>1. UNCHANGED <<session, cwd>> /\ Len(todo') = 0
    BY <1>4 DEF Ends, mvars, hddvars
  <2> QED
    BY <2>1, SessionType DEF PlaceInv, Dirs
<1> QED
  BY <1>1, <1>2, <1>3, <1>4, RestageOrReturn DEF FNext, Stop

\* A program that has ended has no script ahead.
LEMMA EndPlace ==
    ASSUME FTypeOK, Ends
    PROVE  Begun' = Len(session.scripts) /\ Len(session.scripts) \in Nat
BY SessionType DEF Ends, Begun

LEMMA PlaceStarts == FInit => PlaceInv
<1> SUFFICES ASSUME FInit PROVE PlaceInv
  OBVIOUS
<1>1. FTypeOK
  BY FInitType
<1>2. Len(session.scripts) \in Nat /\ todo = session.scripts /\ cwd = session.path
  BY <1>1, SessionType DEF FInit
<1>3. Begun = 0
  BY <1>2 DEF Begun
<1> QED
  BY <1>2, <1>3 DEF PlaceInv, Dirs

\* What the application's thread has left to do, after a step of it.
LEMMA RestMoves ==
    ASSUME FTypeOK, FStep("main")
    PROVE  /\ Rest \in Seq(Calls) /\ Rest # << >> /\ Rest' \in Seq(Calls)
           /\ Rest' \in {Rest, Left(Rest), Tail(Rest)} /\ Within(Rest', Rest)
           /\ UNCHANGED <<session, Begun>> /\ Here("main") = Rest[1][1]
<1>0. "main" \in Threads /\ TypeOK
  BY FilesystemAssumption DEF FTypeOK
<1>1. Rest \in Seq(Calls) /\ Rest # << >> /\ Here("main") = Rest[1][1]
  BY <1>0, FStepIsActive DEF TypeOK, Rest, Active, Here
<1>2. Rest' \in {Rest, Left(Rest), Tail(Rest)}
  BY <1>0, FStepJob DEF Advance, Abandon, Goto, TypeOK, Rest
<1>3. Left(Rest) \in Seq(Calls) /\ Tail(Rest) \in Seq(Calls)
  BY <1>1, LeftOver
<1>4. Within(Rest, Rest) /\ Within(Left(Rest), Rest) /\ Within(Tail(Rest), Rest)
  <2>1. Within(Rest, Rest)
    BY <1>1 DEF Within
  <2> QED
    BY <1>1, <2>1, LeftWithin
<1>5. UNCHANGED <<session, Begun>>
  BY DEF FStep, Begun
<1> QED
  BY <1>1, <1>2, <1>3, <1>4, <1>5

-----------------------------------------------------------------------------
(* What is staged covers what is asked.                                    *)

\* The scripts that begin before the next staging.
Ahead(s, b, i) == i > b /\ OneStaging(s, b + 1, i)

\* What the calls and the scripts ahead load is at hand, and no call takes it
\* away before.
Supplied(s, b, calls, have) ==
    /\ NoReload(calls)
    /\ ArgsBy(calls, "load") \subseteq have
    /\ \A i \in 1 .. Len(s.scripts) : Ahead(s, b, i) =>
          \A c \in MayCall(s, i) :
             /\ ArgsBy(c, "load") \subseteq have
             /\ ArgsBy(calls, "unload") \cap ArgsBy(c, "load") = {}

AtHand == staged \cup session.bad \cup iop

StagedInv ==
    Alone /\ StagesWhatItLoads(session) => Supplied(session, Begun, Rest, AtHand)

\* No calls have no operation.
LEMMA NoArgs ==
    /\ \A op : ArgsBy(<< >>, op) = {}
    /\ TriesBy(<< >>) = {} /\ SureUnloads(<< >>) = {}
    /\ NoReload(<< >>)
BY DEF ArgsBy, TriesBy, SureUnloads, NoReload

\* When an operation is done that takes away no more than it unloads.
LEMMA SuppliedLeft ==
    ASSUME NEW s, NEW b, NEW v \in Seq(Calls), NEW u \in Seq(Calls), Within(u, v),
           NEW have, NEW left, Supplied(s, b, v, have),
           have \ left \subseteq ArgsBy(v, "unload") \ ArgsBy(v, "load")
    PROVE  Supplied(s, b, u, left)
<1>1. /\ ArgsBy(u, "load") \subseteq ArgsBy(v, "load")
      /\ ArgsBy(u, "unload") \subseteq ArgsBy(v, "unload") /\ NoReload(u)
  BY WithinArgs DEF Supplied, ArgOps
<1>2. ArgsBy(u, "load") \subseteq left
  BY <1>1 DEF Supplied
<1>3. ASSUME NEW i \in 1 .. Len(s.scripts), Ahead(s, b, i), NEW c \in MayCall(s, i)
      PROVE  /\ ArgsBy(c, "load") \subseteq left
             /\ ArgsBy(u, "unload") \cap ArgsBy(c, "load") = {}
  <2>1. /\ ArgsBy(c, "load") \subseteq have
        /\ ArgsBy(v, "unload") \cap ArgsBy(c, "load") = {}
    BY <1>3 DEF Supplied
  <2> QED
    BY <1>1, <2>1
<1> QED
  BY <1>1, <1>2, <1>3 DEF Supplied

\* When the next script begins.
LEMMA SuppliedBegin ==
    ASSUME NEW s, NEW b \in Nat, NEW have, s.scripts \in Seq(ScriptNames),
           StagesWhatItLoads(s), Supplied(s, b, << >>, have),
           b + 1 \in 1 .. Len(s.scripts), s.scripts[b + 1] # "restage",
           NEW c \in MayCall(s, b + 1)
    PROVE  Supplied(s, b + 1, c, have)
<1>0. Len(s.scripts) \in Nat
  BY LenProperties
<1>1. NoReload(c)
  BY DEF StagesWhatItLoads
<1>2. Ahead(s, b, b + 1)
  BY DEF Ahead, OneStaging
<1>3. ArgsBy(c, "load") \subseteq have
  BY <1>2 DEF Supplied
<1>4. ASSUME NEW i \in 1 .. Len(s.scripts), Ahead(s, b + 1, i), NEW e \in MayCall(s, i)
      PROVE  /\ ArgsBy(e, "load") \subseteq have
             /\ ArgsBy(c, "unload") \cap ArgsBy(e, "load") = {}
  <2>1. OneStaging(s, b + 1, i) /\ i \in (b + 1) + 1 .. Len(s.scripts)
    BY <1>0, <1>4 DEF Ahead, OneStaging
  <2>2. Ahead(s, b, i)
    BY <2>1 DEF Ahead
  <2> QED
    BY <1>4, <2>1, <2>2 DEF Supplied, StagesWhatItLoads
<1> QED
  BY <1>1, <1>3, <1>4 DEF Supplied

\* When all is staged.
LEMMA SuppliedStage ==
    ASSUME NEW s, NEW b, NEW have, StagesWhatItLoads(s), s.staged \subseteq have
    PROVE  Supplied(s, b, << >>, have)
<1>1. ASSUME NEW i \in 1 .. Len(s.scripts), NEW c \in MayCall(s, i)
      PROVE  ArgsBy(c, "load") \subseteq have
  BY DEF StagesWhatItLoads
<1> QED
  BY <1>1, NoArgs DEF Supplied

\* The application loses a module that is at hand only by an unload.
LEMMA AtHandStays ==
    ASSUME FTypeOK, FStep("main"), NEW m \in AtHand \ AtHand'
    PROVE  Here("main").op = "unload" /\ m = Here("main").arg
<1>0. UNCHANGED session /\ iop \subseteq Modules /\ staged \subseteq Modules
  BY DEF FStep, FTypeOK, TypeOK
<1>1. CASE UNCHANGED <<staged, iop>>
  BY <1>0, <1>1 DEF AtHand
<1>2. CASE /\ Active("main") /\ Here("main").arg \in session.bad \cup iop
           /\ ExecFails("main")
  BY <1>0, <1>2 DEF AtHand, ExecFails, Execute
<1>3. CASE ExecStays("main")
  BY <1>0, <1>3 DEF AtHand, ExecStays, Execute
<1>4. CASE SifUnloadModule("main")
  BY <1>0, <1>4 DEF AtHand, SifUnloadModule, At
<1> QED
  BY <1>1, <1>2, <1>3, <1>4 DEF FStep, EnvStep, DriverStep, LoadCheck, ExecNotStaged,
         UnloadCheck, RESET_IRX_VARS, TryPasses, TryFails, Run, End, OffCheck, OffLoop

\* Every step keeps the invariant.
LEMMA StagedInvKeeps ==
    ASSUME FTypeOK, AloneInv, PlaceInv, StagedInv, [FNext]_fvars
    PROVE  StagedInv'
<1> SUFFICES ASSUME Alone', StagesWhatItLoads(session')
             PROVE  Supplied(session', Begun', Rest', AtHand')
  BY DEF StagedInv
<1>0. /\ Alone /\ UNCHANGED session /\ "main" \in Threads
      /\ FStep("main") \/ NextScript \/ Restages \/ Ends \/ UNCHANGED fvars
  BY AloneNext
<1>1. StagesWhatItLoads(session) /\ Supplied(session, Begun, Rest, AtHand)
  BY <1>0 DEF StagedInv
<1>2. CASE FStep("main")
  <2>1. /\ Rest \in Seq(Calls) /\ Rest # << >> /\ Rest' \in Seq(Calls)
        /\ Within(Rest', Rest) /\ UNCHANGED Begun /\ Here("main") = Rest[1][1]
    BY <1>2, RestMoves
  <2>2. ASSUME NEW m \in AtHand \ AtHand'
        PROVE  m \in ArgsBy(Rest, "unload") \ ArgsBy(Rest, "load")
    <3>1. Rest[1][1].op = "unload" /\ m = Rest[1][1].arg
      BY <1>2, <2>1, AtHandStays
    <3>2. NoReload(Rest)
      BY <1>1 DEF Supplied
    <3> QED
      BY <2>1, <3>1, <3>2, HeadArgs DEF ArgOps
  <2>3. Supplied(session, Begun, Rest', AtHand')
    BY <1>1, <2>1, <2>2, SuppliedLeft
  <2> QED
    BY <1>0, <2>1, <2>3
<1>3. CASE NextScript
  <2>1. /\ Rest = << >> /\ Rest' = ScriptOf(Head(todo)) /\ AtHand' = AtHand
    BY <1>0, <1>3 DEF NextScript, StartCalls, Active, FTypeOK, TypeOK, Rest, AtHand
  <2>2. /\ Begun \in Nat /\ Begun' = Begun + 1 /\ Begun + 1 \in 1 .. Len(session.scripts)
        /\ session.scripts \in Seq(ScriptNames)
    BY <1>3, NextPlace, SessionType DEF NextScript, GoesOn
  <2>3. /\ session.scripts[Begun + 1] # "restage"
        /\ ScriptOf(Head(todo)) \in MayCall(session, Begun + 1)
    BY <1>3, NextMayCall
  <2>4. Supplied(session, Begun + 1, ScriptOf(Head(todo)), AtHand)
    BY <1>1, <2>1, <2>2, <2>3, SuppliedBegin
  <2> QED
    BY <1>0, <2>1, <2>2, <2>4
<1>4. CASE Restages
  <2>1. Rest' = << >> /\ session.staged \subseteq AtHand'
    BY <1>0, <1>4 DEF Restages, Active, Rest, AtHand
  <2> QED
    BY <1>0, <1>1, <2>1, SuppliedStage
<1>6. CASE Ends
  <2>1. Rest' = << >>
    BY <1>6 DEF Ends, Active, Rest
  <2>2. \A i \in 1 .. Len(session.scripts) : ~Ahead(session, Begun', i)
    BY <1>6, EndPlace DEF Ahead
  <2> QED
    BY <1>0, <2>1, <2>2, NoArgs DEF Supplied
<1>5. CASE UNCHANGED fvars
  BY <1>0, <1>1, <1>5 DEF fvars, vars, Rest, Begun, AtHand
<1> QED
  BY <1>0, <1>2, <1>3, <1>4, <1>5, <1>6

LEMMA StagedStarts == FInit => StagedInv
<1> SUFFICES ASSUME FInit, StagesWhatItLoads(session)
             PROVE  Supplied(session, Begun, Rest, AtHand)
  BY DEF StagedInv
<1>1. Rest = << >> /\ session.staged \subseteq AtHand
  BY FilesystemAssumption DEF FInit, Init, Idle, Rest, AtHand
<1> QED
  BY <1>1, SuppliedStage

LEMMA AlwaysStaged == FSpec => [](FTypeOK /\ AloneInv /\ PlaceInv /\ StagedInv)
<1>1. FInit => FTypeOK /\ AloneInv /\ PlaceInv /\ StagedInv
  BY FInitType, AloneStarts, PlaceStarts, StagedStarts
<1>2. FTypeOK /\ AloneInv /\ PlaceInv /\ StagedInv /\ [FNext]_fvars
         => (FTypeOK /\ AloneInv /\ PlaceInv /\ StagedInv)'
  BY FNextKeeps, AloneKeeps, PlaceKeeps, StagedInvKeeps
<1> QED
  BY <1>1, <1>2, PTL DEF FSpec

\* What a call misses is in the way already.
LEMMA MissedIsTried ==
    ASSUME FTypeOK, AloneInv, StagedInv, Alone, StagesWhatItLoads(session),
           NEW t \in Threads, ExecNotStaged(t)
    PROVE  Here(t).arg \in session.bad \cup iop
<1>1. Active(t) /\ Here(t).op = "load" /\ Here(t).arg \notin staged
  BY DEF ExecNotStaged, At
<1>2. t = "main" /\ Rest \in Seq(Calls) /\ Rest # << >> /\ Here(t) = Rest[1][1]
  BY <1>1 DEF AloneInv, Active, Here, Rest, FTypeOK, TypeOK
<1>3. Here(t).arg \in ArgsBy(Rest, "load")
  BY <1>1, <1>2, HeadArgs DEF ArgOps
<1>4. ArgsBy(Rest, "load") \subseteq AtHand
  BY DEF StagedInv, Supplied
<1> QED
  BY <1>1, <1>3, <1>4 DEF AtHand

\* Programs of any length, that stage what their scripts load as the tables of
\* the provider and the calls of the drivers have it, as often as they like,
\* whatever fails: until the button is pressed, a module that a call finds
\* missing is one that the program has already handed to the IOP.
THEOREM StagedUntilPressed ==
    FSpec => [][Alone /\ StagesWhatItLoads(session) =>
                   \A t \in Threads :
                      ExecNotStaged(t) => Here(t).arg \in session.bad \cup iop]_fvars
<1>1. FTypeOK /\ AloneInv /\ StagedInv =>
         (Alone /\ StagesWhatItLoads(session) =>
             \A t \in Threads :
                ExecNotStaged(t) => Here(t).arg \in session.bad \cup iop)
  BY MissedIsTried
<1> QED
  BY <1>1, AlwaysStaged, PTL

\* On machines without the button it is so at every step.
THEOREM StagedCovers ==
    ASSUME \A s \in Sessions : ~s.button /\ StagesWhatItLoads(s)
    PROVE  FSpec => StagedCoversInit
<1>1. FTypeOK => Alone /\ StagesWhatItLoads(session)
  BY DEF FTypeOK, Alone
<1>2. FTypeOK /\ AloneInv /\ StagedInv =>
         \A t \in Threads : ExecNotStaged(t) => Here(t).arg \in session.bad \cup iop
  BY <1>1, MissedIsTried
<1> QED
  BY <1>2, AlwaysStaged, PTL DEF StagedCoversInit

-----------------------------------------------------------------------------
(* What an exact program leaves, on a machine without faults.              *)

\* A payload that is still there is of a module that was not loaded since, and
\* the variables of a module that is not resident are as at the start.
FreshInv ==
    /\ \A m \in Modules :
          \/ irx[m] = Fresh \/ m \in iop
          \/ At("main", "reset", "unload") /\ Here("main").arg = m
    /\ \A m \in staged : m \notin iop /\ irx[m] = Fresh

\* Before the next staging the calls, or a script ahead, unload all of ms and
\* what is loaded until then.
WillUnload(s, b, calls, ms) ==
    \A r \in 1 .. Len(s.scripts) :
       s.scripts[r] = "restage" /\ r > b /\ OneStaging(s, b + 1, r - 1) =>
          \A m \in ms \cup ArgsBy(calls, "load") :
             \/ m \in SureUnloads(calls)
             \/ \E j \in b + 1 .. r - 1 : \A e \in MayCall(s, j) : m \in SureUnloads(e)

\* The calls, or a script ahead, load all of ms.
WillLoad(s, b, calls, ms) ==
    \A m \in ms :
       \/ m \in ArgsBy(calls, "load")
       \/ \E i \in 1 .. Len(s.scripts) :
             Ahead(s, b, i) /\ \A c \in MayCall(s, i) : m \in ArgsBy(c, "load")

\* Neither the calls nor a script ahead says that a driver is OK.
NoOk(s, b, calls, d) ==
    /\ d \notin ArgsBy(calls, "end")
    /\ \A i \in 1 .. Len(s.scripts) : Ahead(s, b, i) =>
          \A c \in MayCall(s, i) : d \notin ArgsBy(c, "end")

\* Not when its init stops at a check.
EndsOnce(s, b, calls) ==
    /\ NoSecondEnd(calls)
    /\ \A d \in TriesBy(calls) : NoOk(s, b, << >>, d)

ErrorStays == \E d \in Names : status[d] = "error" /\ NoOk(session, Begun, Rest, d)

ExactInv ==
    Exact(session) =>
       /\ FreshInv
       /\ WillUnload(session, Begun, Rest, iop)
       /\ EndsOnce(session, Begun, Rest)
       /\ ErrorStays \/ WillLoad(session, Begun, Rest, staged)

\* What a step of such a program may do with its calls: nothing, as it waits;
\* the operation at hand; or it gives the call up, at a check.
Waits == Rest' = Rest /\ iop' \subseteq iop /\ UNCHANGED <<staged, status>>

Does(o) ==
    /\ Rest' = Left(Rest) /\ staged' \subseteq staged
    /\ \A m \in iop' : m \in iop \/ (o.op = "load" /\ o.arg = m)
    /\ o.op = "load" => o.arg \notin staged'
    /\ o.op = "unload" => o.arg \notin iop'
    /\ \A d \in Names : status'[d] = status[d] \/ (o.op = "end" /\ o.arg = d)

GivesUp(o) ==
    /\ Rest' = Tail(Rest) /\ o.op = "try" /\ UNCHANGED <<staged, iop>>
    /\ o.of \in Names => status'[o.of] = "error"
    /\ \A d \in Names : status[d] = "error" => status'[d] = "error"

\* What is handed to the IOP is staged, and not resident.
LEMMA ExactLoads ==
    ASSUME FTypeOK, Exact(session), Solo("main"), Supplied(session, Begun, Rest, AtHand),
           At("main", "exec", "load")
    PROVE  /\ Here("main").arg \in staged /\ Here("main").arg \notin iop
           /\ Here("main").arg \notin session.bad
<1>0. "main" \in Threads /\ TypeOK /\ session.bad = {}
  BY FilesystemAssumption DEF FTypeOK, Exact
<1>1. Rest \in Seq(Calls) /\ Rest # << >> /\ Here("main") = Rest[1][1]
  BY <1>0 DEF TypeOK, Rest, At, Active, Here
<1>2. Here("main").arg \notin iop
  BY DEF Solo, ResidentIsKnown, CHECK_IRX_LOAD, CHECK_IRX_UNLOAD
<1>3. Here("main").arg \in ArgsBy(Rest, "load")
  BY <1>1, HeadArgs DEF At, ArgOps
<1>4. Here("main").arg \in AtHand
  BY <1>3 DEF Supplied
<1> QED
  BY <1>0, <1>2, <1>4 DEF AtHand

\* A step of the program is one of the three.
LEMMA ExactMoves ==
    ASSUME FTypeOK, Exact(session), Solo("main"), Supplied(session, Begun, Rest, AtHand),
           FreshInv, FStep("main")
    PROVE  Waits \/ Does(Here("main")) \/ GivesUp(Here("main"))
<1> DEFINE t == "main"
           o == Here(t)
<1>0. t \in Threads /\ TypeOK /\ Active(t) /\ iop \subseteq Modules /\ staged \subseteq Modules
  BY FilesystemAssumption, FStepIsActive DEF FTypeOK, TypeOK
<1>1. Advance(t) => Rest' = Left(Rest)
  BY <1>0 DEF Advance, TypeOK, Rest
<1>2. Abandon(t) => Rest' = Tail(Rest)
  BY <1>0 DEF Abandon, TypeOK, Rest
<1>3. UNCHANGED job \/ (\E p \in Phases : Goto(t, p)) => Rest' = Rest
  BY <1>0 DEF Goto, TypeOK, Rest
<1>4. CASE LoadCheck(t)
  <2>1. At(t, "next", "load") /\ UNCHANGED <<irx, status, iop, staged>>
    BY <1>4 DEF LoadCheck
  <2>2. CASE CHECK_IRX_LOAD(o.arg)
    <3>1. Goto(t, "exec") /\ "exec" \in Phases
      BY <1>4, <2>2 DEF LoadCheck, Phases
    <3> QED
      BY <1>3, <2>1, <3>1 DEF Waits
  <2>3. CASE ~CHECK_IRX_LOAD(o.arg)
    <3>1. Advance(t)
      BY <1>4, <2>3 DEF LoadCheck
    <3>2. o.arg \notin staged
      BY <2>3 DEF FreshInv, CHECK_IRX_LOAD, Fresh
    <3>3. o.op = "load"
      BY <2>1 DEF At
    <3> QED
      BY <1>1, <2>1, <3>1, <3>2, <3>3 DEF Does
  <2> QED
    BY <2>2, <2>3
<1>5. ~ExecNotStaged(t) /\ ~(o.arg \in session.bad \cup iop /\ ExecFails(t))
  BY ExactLoads DEF ExecNotStaged, ExecFails, Execute
<1>6. CASE ExecStays(t)
  <2>1. o.op = "load" /\ Advance(t) /\ UNCHANGED status
        /\ staged' = staged \ {o.arg} /\ iop' = iop \cup {o.arg}
    BY <1>6 DEF ExecStays, Execute, At
  <2> QED
    BY <1>1, <2>1 DEF Does
<1>7. CASE UnloadCheck(t)
  <2>1. At(t, "next", "unload") /\ UNCHANGED <<irx, status, iop, staged>>
    BY <1>7 DEF UnloadCheck
  <2>2. CASE CHECK_IRX_UNLOAD(o.arg)
    <3>1. Goto(t, "unload") /\ "unload" \in Phases
      BY <1>7, <2>2 DEF UnloadCheck, Phases
    <3> QED
      BY <1>3, <2>1, <3>1 DEF Waits
  <2>3. CASE ~CHECK_IRX_UNLOAD(o.arg)
    <3>1. Advance(t)
      BY <1>7, <2>3 DEF UnloadCheck
    <3>2. o.arg \notin iop /\ o.op = "unload"
      BY <2>1, <2>3 DEF Solo, ResidentIsKnown, At
    <3> QED
      BY <1>1, <2>1, <3>1, <3>2 DEF Does
  <2> QED
    BY <2>2, <2>3
<1>8. CASE SifUnloadModule(t)
  <2>1. iop' \subseteq iop /\ Goto(t, "reset") /\ "reset" \in Phases
        /\ UNCHANGED <<status, staged>>
    BY <1>8 DEF SifUnloadModule, Phases
  <2> QED
    BY <1>3, <2>1 DEF Waits
<1>9. CASE RESET_IRX_VARS(t)
  <2>1. o.op = "unload" /\ o.arg \notin iop /\ Advance(t) /\ UNCHANGED <<status, iop, staged>>
    BY <1>9 DEF RESET_IRX_VARS, Solo, At
  <2> QED
    BY <1>1, <2>1 DEF Does
<1>10. CASE TryPasses(t) \/ Run(t)
  <2>1. o.op \notin {"load", "unload"} /\ Advance(t) /\ UNCHANGED <<status, iop, staged>>
    BY <1>10 DEF TryPasses, Run, At
  <2> QED
    BY <1>1, <2>1 DEF Does
<1>11. CASE TryFails(t)
  <2>1. o.op = "try" /\ Abandon(t) /\ UNCHANGED <<iop, staged>>
    BY <1>11 DEF TryFails, At
  <2>2. /\ o.of \in Names => status'[o.of] = "error"
        /\ \A d \in Names : status[d] = "error" => status'[d] = "error"
    BY <2>1 DEF Abandon
  <2> QED
    BY <1>2, <2>1, <2>2 DEF GivesUp
<1>12. CASE End(t)
  <2>1. o.op = "end" /\ Advance(t) /\ UNCHANGED <<iop, staged>>
    BY <1>12 DEF End, At
  <2>2. \A d \in Names : status'[d] = status[d] \/ o.arg = d
    BY <1>0, <1>12 DEF End, TypeOK
  <2> QED
    BY <1>1, <2>1, <2>2 DEF Does
<1>13. CASE OffCheck(t) \/ OffLoop(t)
  <2>1. o.op = "off" /\ UNCHANGED <<status, iop, staged>>
        /\ (Advance(t) \/ Goto(t, "off") \/ UNCHANGED job) /\ "off" \in Phases
    BY <1>13 DEF OffCheck, OffLoop, At, Phases
  <2> QED
    BY <1>1, <1>3, <2>1 DEF Does, Waits
<1> QED
  BY <1>4, <1>5, <1>6, <1>7, <1>8, <1>9, <1>10, <1>11, <1>12, <1>13
     DEF FStep, EnvStep, DriverStep

\* A step of the program keeps the payloads apart from what is resident.
LEMMA FreshStep ==
    ASSUME FTypeOK, Exact(session), Solo("main"), Supplied(session, Begun, Rest, AtHand),
           FreshInv, FStep("main")
    PROVE  FreshInv'
<1> DEFINE t == "main"
           o == Here(t)
<1>0. t \in Threads /\ TypeOK /\ iop \subseteq Modules /\ staged \subseteq Modules
  BY FilesystemAssumption DEF FTypeOK, TypeOK
<1>1. ~ExecNotStaged(t) /\ ~(o.arg \in session.bad \cup iop /\ ExecFails(t))
  BY ExactLoads DEF ExecNotStaged, ExecFails, Execute
<1>2. CASE ExecStays(t)
  <2>1. At(t, "exec", "load") /\ staged' = staged \ {o.arg} /\ iop' = iop \cup {o.arg}
        /\ ~At(t, "reset", "unload")
    BY <1>2 DEF ExecStays, Execute, At
  <2>2. \A m \in Modules : m = o.arg \/ irx'[m] = irx[m]
    BY <1>0, <1>2 DEF ExecStays, Execute, TypeOK
  <2> QED
    BY <1>0, <2>1, <2>2 DEF FreshInv
<1>3. CASE SifUnloadModule(t)
  <2>1. /\ \A m \in iop : m \in iop' \/ m = o.arg
        /\ iop' \subseteq iop /\ UNCHANGED <<irx, staged>>
        /\ At(t, "unload", "unload") /\ ~At(t, "reset", "unload")
    BY <1>3 DEF SifUnloadModule, At
  <2>2. At(t, "reset", "unload")' /\ Here(t)' = o
    BY <1>0, <1>3, <2>1 DEF SifUnloadModule, Goto, At, Active, Here, TypeOK
  <2>3. ASSUME NEW m \in Modules
        PROVE  irx'[m] = Fresh \/ m \in iop' \/ (At(t, "reset", "unload")' /\ Here(t)'.arg = m)
    BY <2>1, <2>2 DEF FreshInv
  <2> QED
    BY <2>1, <2>3 DEF FreshInv
<1>4. CASE RESET_IRX_VARS(t)
  <2>1. UNCHANGED <<iop, staged>> /\ At(t, "reset", "unload")
    BY <1>4 DEF RESET_IRX_VARS
  <2>2. \A m \in Modules : irx'[m] = IF m = o.arg THEN Fresh ELSE irx[m]
    BY <1>0, <1>4 DEF RESET_IRX_VARS, TypeOK
  <2> QED
    BY <1>0, <2>1, <2>2 DEF FreshInv
<1>5. CASE UNCHANGED <<irx, iop, staged>> /\ ~At(t, "reset", "unload")
  BY <1>0, <1>5 DEF FreshInv
<1>6. ASSUME \/ LoadCheck(t) \/ UnloadCheck(t) \/ TryPasses(t) \/ TryFails(t) \/ Run(t)
             \/ End(t) \/ OffCheck(t) \/ OffLoop(t)
      PROVE  UNCHANGED <<irx, iop, staged>> /\ ~At(t, "reset", "unload")
  BY <1>6 DEF LoadCheck, UnloadCheck, TryPasses, TryFails, Run, End, OffCheck, OffLoop, At
<1> QED
  BY <1>1, <1>2, <1>3, <1>4, <1>5, <1>6 DEF FStep, EnvStep, DriverStep

\* What is left of the calls still unloads all, when there is no more to unload
\* than before, or the module at hand is gone.
LEMMA WillUnloadLeft ==
    ASSUME NEW s, NEW b, NEW v \in Seq(Calls), NEW u \in Seq(Calls), Within(u, v),
           NEW ms, NEW ns, WillUnload(s, b, v, ms),
           ns \subseteq ms \cup ArgsBy(v, "load"),
           \A m \in SureUnloads(v) :
              m \in SureUnloads(u) \/ (m \notin ns /\ m \notin ArgsBy(u, "load"))
    PROVE  WillUnload(s, b, u, ns)
<1>1. ArgsBy(u, "load") \subseteq ArgsBy(v, "load")
  BY WithinArgs DEF ArgOps
<1> SUFFICES ASSUME NEW r \in 1 .. Len(s.scripts),
                    s.scripts[r] = "restage", r > b, OneStaging(s, b + 1, r - 1),
                    NEW m \in ns \cup ArgsBy(u, "load")
             PROVE  \/ m \in SureUnloads(u)
                    \/ \E j \in b + 1 .. r - 1 : \A e \in MayCall(s, j) : m \in SureUnloads(e)
  BY DEF WillUnload
<1>2. m \in ms \cup ArgsBy(v, "load")
  BY <1>1
<1>3. \/ m \in SureUnloads(v)
      \/ \E j \in b + 1 .. r - 1 : \A e \in MayCall(s, j) : m \in SureUnloads(e)
  BY <1>2 DEF WillUnload
<1> QED
  BY <1>3

\* When the next script begins.
LEMMA WillUnloadBegin ==
    ASSUME NEW s, NEW b \in Nat, NEW ms, s.scripts \in Seq(ScriptNames),
           UnloadsBeforeStaging(s), WillUnload(s, b, << >>, ms),
           b + 1 \in 1 .. Len(s.scripts), s.scripts[b + 1] # "restage",
           NEW c \in MayCall(s, b + 1)
    PROVE  WillUnload(s, b + 1, c, ms)
<1> SUFFICES ASSUME NEW r \in 1 .. Len(s.scripts),
                    s.scripts[r] = "restage", r > b + 1, OneStaging(s, (b + 1) + 1, r - 1),
                    NEW m \in ms \cup ArgsBy(c, "load")
             PROVE  \/ m \in SureUnloads(c)
                    \/ \E j \in (b + 1) + 1 .. r - 1 :
                          \A e \in MayCall(s, j) : m \in SureUnloads(e)
  BY DEF WillUnload
<1>0. Len(s.scripts) \in Nat
  BY LenProperties
<1>1. OneStaging(s, b + 1, r - 1) /\ r > b
  BY <1>0 DEF OneStaging
<1>2. CASE m \in ms
  <2>1. PICK j \in b + 1 .. r - 1 : \A e \in MayCall(s, j) : m \in SureUnloads(e)
    BY <1>1, <1>2, NoArgs DEF WillUnload
  <2>2. CASE j = b + 1
    BY <2>1, <2>2
  <2>3. CASE j # b + 1
    BY <1>0, <2>1, <2>3
  <2> QED
    BY <2>2, <2>3
<1>3. CASE m \in ArgsBy(c, "load")
  <2>1. b + 1 \in 1 .. r - 1
    BY <1>0
  <2>2. \E j \in (b + 1) + 1 .. r - 1 : \A e \in MayCall(s, j) : m \in SureUnloads(e)
    BY <1>1, <1>3, <2>1 DEF UnloadsBeforeStaging
  <2> QED
    BY <2>2
<1> QED
  BY <1>2, <1>3

\* A step of the program.
LEMMA WillUnloadStep ==
    ASSUME FTypeOK, Solo("main"), FStep("main"), NoReload(Rest),
           Waits \/ Does(Here("main")) \/ GivesUp(Here("main")),
           WillUnload(session, Begun, Rest, iop)
    PROVE  WillUnload(session', Begun', Rest', iop')
<1> DEFINE o == Here("main")
<1>0. /\ Rest \in Seq(Calls) /\ Rest # << >> /\ Rest' \in Seq(Calls)
      /\ Within(Rest', Rest) /\ UNCHANGED <<session, Begun>> /\ o = Rest[1][1]
  BY RestMoves
<1>1. iop' \subseteq iop \cup ArgsBy(Rest, "load")
  <2>1. o.op = "load" => o.arg \in ArgsBy(Rest, "load")
    BY <1>0, HeadArgs DEF ArgOps
  <2> QED
    BY <2>1 DEF Waits, Does, GivesUp
<1>2. ASSUME NEW m \in SureUnloads(Rest)
      PROVE  m \in SureUnloads(Rest') \/ (m \notin iop' /\ m \notin ArgsBy(Rest', "load"))
  <2>1. CASE Waits
    BY <2>1 DEF Waits
  <2>2. CASE Does(o)
    <3>1. m \in SureUnloads(Rest') \/ (o.op = "unload" /\ o.arg = m)
      BY <1>0, <2>2, LeftSure DEF Does
    <3>2. o.op = "unload" => o.arg \notin iop' /\ o.arg \notin ArgsBy(Rest', "load")
      <4>1. o.op = "unload" => o.arg \notin ArgsBy(Rest, "load")
        BY <1>0, HeadArgs
      <4>2. ArgsBy(Rest', "load") \subseteq ArgsBy(Rest, "load")
        BY <1>0, WithinArgs DEF ArgOps
      <4> QED
        BY <2>2, <4>1, <4>2 DEF Does
    <3> QED
      BY <3>1, <3>2
  <2>3. CASE GivesUp(o)
    <3>1. Tries(Rest[1]) # {}
      BY <1>0, <2>3, HeadArgs DEF GivesUp
    <3> QED
      BY <1>0, <2>3, <3>1, LeftSure DEF GivesUp
  <2> QED
    BY <2>1, <2>2, <2>3
<1>3. WillUnload(session, Begun, Rest', iop')
  BY <1>0, <1>1, <1>2, WillUnloadLeft
<1> QED
  BY <1>0, <1>3

\* Calls that end fewer drivers say OK of no more.
LEMMA NoOkLeft ==
    ASSUME NEW s, NEW b, NEW v \in Seq(Calls), NEW u \in Seq(Calls), Within(u, v),
           NEW d, NoOk(s, b, v, d)
    PROVE  NoOk(s, b, u, d)
BY WithinArgs DEF NoOk, ArgOps

\* Nor do the calls of the next script, which was ahead.
LEMMA NoOkBegin ==
    ASSUME NEW s, NEW b \in Nat, NEW d, s.scripts \in Seq(ScriptNames),
           NoOk(s, b, << >>, d),
           b + 1 \in 1 .. Len(s.scripts), s.scripts[b + 1] # "restage",
           NEW c \in MayCall(s, b + 1)
    PROVE  NoOk(s, b + 1, c, d)
<1>0. Len(s.scripts) \in Nat
  BY LenProperties
<1>1. Ahead(s, b, b + 1)
  BY DEF Ahead, OneStaging
<1>2. \A i \in 1 .. Len(s.scripts) : Ahead(s, b + 1, i) => Ahead(s, b, i)
  BY <1>0 DEF Ahead, OneStaging
<1> QED
  BY <1>1, <1>2 DEF NoOk

LEMMA EndsOnceLeft ==
    ASSUME NEW s, NEW b, NEW v \in Seq(Calls), NEW u \in Seq(Calls), Within(u, v),
           EndsOnce(s, b, v)
    PROVE  EndsOnce(s, b, u)
BY WithinArgs DEF EndsOnce

LEMMA EndsOnceBegin ==
    ASSUME NEW s, NEW b \in Nat, s.scripts \in Seq(ScriptNames), ChecksOnce(s),
           b + 1 \in 1 .. Len(s.scripts), NEW c \in MayCall(s, b + 1)
    PROVE  EndsOnce(s, b + 1, c)
<1>0. Len(s.scripts) \in Nat
  BY LenProperties
<1>1. ASSUME NEW d \in TriesBy(c), NEW i \in 1 .. Len(s.scripts), Ahead(s, b + 1, i),
             NEW e \in MayCall(s, i)
      PROVE  d \notin ArgsBy(e, "end")
  <2>1. s.scripts[b + 1] # "restage"
    BY DEF MayCall
  <2>2. OneStaging(s, b + 1, i) /\ i \in (b + 1) + 1 .. Len(s.scripts)
    BY <1>0, <1>1, <2>1 DEF Ahead, OneStaging
  <2> QED
    BY <2>2 DEF ChecksOnce
<1> QED
  BY <1>1, NoArgs DEF ChecksOnce, EndsOnce, NoOk

\* What is left of the calls still loads what is left to load.
LEMMA WillLoadLeft ==
    ASSUME NEW s, NEW b, NEW v, NEW u, NEW ms, NEW ns \in SUBSET ms,
           WillLoad(s, b, v, ms),
           \A m \in ns : m \in ArgsBy(v, "load") => m \in ArgsBy(u, "load")
    PROVE  WillLoad(s, b, u, ns)
BY DEF WillLoad

LEMMA WillLoadBegin ==
    ASSUME NEW s, NEW b \in Nat, NEW ms, s.scripts \in Seq(ScriptNames),
           WillLoad(s, b, << >>, ms),
           b + 1 \in 1 .. Len(s.scripts), s.scripts[b + 1] # "restage",
           NEW c \in MayCall(s, b + 1)
    PROVE  WillLoad(s, b + 1, c, ms)
<1> SUFFICES ASSUME NEW m \in ms
             PROVE  \/ m \in ArgsBy(c, "load")
                    \/ \E i \in 1 .. Len(s.scripts) :
                          Ahead(s, b + 1, i) /\ \A e \in MayCall(s, i) : m \in ArgsBy(e, "load")
  BY DEF WillLoad
<1>0. Len(s.scripts) \in Nat
  BY LenProperties
<1>1. PICK i \in 1 .. Len(s.scripts) :
         Ahead(s, b, i) /\ \A e \in MayCall(s, i) : m \in ArgsBy(e, "load")
  BY NoArgs DEF WillLoad
<1>2. CASE i = b + 1
  BY <1>1, <1>2
<1>3. CASE i # b + 1
  <2>1. Ahead(s, b + 1, i)
    BY <1>0, <1>1, <1>3 DEF Ahead, OneStaging
  <2> QED
    BY <1>1, <2>1
<1> QED
  BY <1>2, <1>3

\* When all is staged.
LEMMA WillLoadStage ==
    ASSUME NEW s, NEW b \in 0 .. Len(s.scripts), s.scripts \in Seq(ScriptNames),
           LoadsWhatItStages(s), b = 0 \/ s.scripts[b] = "restage"
    PROVE  WillLoad(s, b, << >>, s.staged)
<1> SUFFICES ASSUME NEW m \in s.staged
             PROVE  \E i \in 1 .. Len(s.scripts) :
                       Ahead(s, b, i) /\ \A c \in MayCall(s, i) : m \in ArgsBy(c, "load")
  BY DEF WillLoad
<1>0. Len(s.scripts) \in Nat /\ b \in Nat
  BY LenProperties
<1>1. PICK i \in b + 1 .. Len(s.scripts) :
         OneStaging(s, b + 1, i) /\ \A c \in MayCall(s, i) : m \in ArgsBy(c, "load")
  BY DEF LoadsWhatItStages
<1>2. i \in 1 .. Len(s.scripts) /\ Ahead(s, b, i)
  BY <1>0, <1>1 DEF Ahead
<1> QED
  BY <1>1, <1>2

\* A step of the program: a check that fails leaves its mark, and an operation
\* that is done has taken its payload.
LEMMA EndStep ==
    ASSUME FTypeOK, FStep("main"),
           Waits \/ Does(Here("main")) \/ GivesUp(Here("main")),
           EndsOnce(session, Begun, Rest),
           ErrorStays \/ WillLoad(session, Begun, Rest, staged)
    PROVE  /\ EndsOnce(session', Begun', Rest')
           /\ ErrorStays' \/ WillLoad(session', Begun', Rest', staged')
<1> DEFINE o == Here("main")
<1>0. /\ Rest \in Seq(Calls) /\ Rest # << >> /\ Rest' \in Seq(Calls)
      /\ Within(Rest', Rest) /\ UNCHANGED <<session, Begun>> /\ o = Rest[1][1]
  BY RestMoves
<1>1. EndsOnce(session', Begun', Rest')
  BY <1>0, EndsOnceLeft
<1>2. ASSUME NEW d \in Names, status'[d] = "error", NoOk(session, Begun, Rest', d)
      PROVE  ErrorStays'
  BY <1>0, <1>2 DEF ErrorStays
<1>3. CASE ErrorStays
  <2>1. PICK d \in Names : status[d] = "error" /\ NoOk(session, Begun, Rest, d)
    BY <1>3 DEF ErrorStays
  <2>2. NoOk(session, Begun, Rest', d)
    BY <1>0, <2>1, NoOkLeft
  <2>3. ~(o.op = "end" /\ o.arg = d)
    BY <1>0, <2>1, HeadArgs DEF NoOk, ArgOps
  <2>4. status'[d] = "error"
    BY <2>1, <2>3 DEF Waits, Does, GivesUp
  <2> QED
    BY <1>1, <1>2, <2>2, <2>4
<1>4. CASE WillLoad(session, Begun, Rest, staged) /\ Waits
  <2>1. Rest' = Rest /\ staged' = staged
    BY <1>4 DEF Waits
  <2> QED
    BY <1>0, <1>1, <1>4, <2>1
<1>5. CASE WillLoad(session, Begun, Rest, staged) /\ Does(o)
  <2>1. \A m \in staged' : m \in ArgsBy(Rest, "load") => m \in ArgsBy(Rest', "load")
    <3>1. Rest' = Left(Rest) /\ (o.op = "load" => o.arg \notin staged')
      BY <1>5 DEF Does
    <3>2. \A m \in ArgsBy(Rest, "load") :
             m \in ArgsBy(Left(Rest), "load") \/ (o.op = "load" /\ o.arg = m)
      BY <1>0, LeftWithin DEF ArgOps
    <3> QED
      BY <3>1, <3>2
  <2>2. staged' \in SUBSET staged
    BY <1>5 DEF Does
  <2>3. WillLoad(session, Begun, Rest', staged')
    BY <1>5, <2>1, <2>2, WillLoadLeft
  <2> QED
    BY <1>0, <1>1, <2>3
<1>6. CASE GivesUp(o)
  <2>1. Rest' = Tail(Rest) /\ o.of \in Tries(Rest[1]) /\ o.of \in TriesBy(Rest)
    BY <1>0, <1>6, HeadArgs DEF GivesUp
  <2>2. o.of \in Names /\ status'[o.of] = "error"
    BY <1>6, <2>1 DEF EndsOnce, NoSecondEnd, GivesUp
  <2>3. NoOk(session, Begun, << >>, o.of)
    BY <2>1 DEF EndsOnce
  <2>4. o.of \notin ArgsBy(Tail(Rest), "end")
    <3> SUFFICES ASSUME NEW l \in 1 .. Len(Tail(Rest))
                 PROVE  o.of \notin Args(Tail(Rest)[l], "end")
      BY DEF ArgsBy
    <3>1. /\ Len(Rest) \in Nat \ {0} /\ Len(Tail(Rest)) = Len(Rest) - 1
          /\ Tail(Rest)[l] = Rest[l + 1]
      BY <1>0, LeftOver
    <3>2. l + 1 \in 1 .. Len(Rest) /\ 1 \in 1 .. (l + 1) - 1
      BY <3>1
    <3>3. Tries(Rest[1]) \cap Args(Rest[l + 1], "end") = {}
      BY <3>2 DEF EndsOnce, NoSecondEnd
    <3> QED
      BY <2>1, <3>1, <3>3
  <2>5. NoOk(session, Begun, Rest', o.of)
    BY <2>1, <2>3, <2>4 DEF NoOk
  <2> QED
    BY <1>1, <1>2, <2>2, <2>5
<1> QED
  BY <1>3, <1>4, <1>5, <1>6

\* What the other invariants say of an exact program.
LEMMA ExactIs ==
    ASSUME SoloInv, StagedInv, Exact(session)
    PROVE  /\ Solo("main") /\ Supplied(session, Begun, Rest, AtHand) /\ NoReload(Rest)
           /\ LoadsWhatItStages(session) /\ UnloadsBeforeStaging(session)
           /\ ChecksOnce(session)
<1>1. Alone /\ session.keeps = {}
  BY DEF Exact, Alone
<1>2. StagesWhatItLoads(session)
  BY DEF Exact
<1>3. Solo("main") /\ Supplied(session, Begun, Rest, AtHand)
  BY <1>1, <1>2 DEF SoloInv, StagedInv
<1> QED
  BY <1>3 DEF Exact, Supplied

\* All is as at the start when the application stages again: the same payloads
\* find the same room.
LEMMA RestageExact ==
    ASSUME FTypeOK, PlaceInv, Restages, FreshInv, WillUnload(session, Begun, Rest, iop),
           LoadsWhatItStages(session)
    PROVE  /\ FreshInv' /\ WillUnload(session', Begun', Rest', iop')
           /\ EndsOnce(session', Begun', Rest')
           /\ WillLoad(session', Begun', Rest', staged')
<1>0. /\ UNCHANGED <<session, iop, irx, job>> /\ Rest = << >> /\ Rest' = << >>
      /\ staged' = session.staged /\ ~At("main", "reset", "unload")
  BY DEF Restages, Active, Rest, At
<1>1. /\ Begun \in Nat /\ Begun' = Begun + 1 /\ Begun + 1 \in 1 .. Len(session.scripts)
      /\ session.scripts[Begun + 1] = "restage"
  BY NextPlace DEF Restages
<1>2. session.scripts \in Seq(ScriptNames) /\ session.staged \subseteq Modules
      /\ Len(session.scripts) \in Nat
  BY SessionType
<1>3. iop = {}
  <2>1. OneStaging(session, Begun + 1, (Begun + 1) - 1) /\ Begun + 1 > Begun
    BY <1>1 DEF OneStaging
  <2>2. ASSUME NEW m \in iop PROVE FALSE
    <3>1. \/ m \in SureUnloads(Rest)
          \/ \E j \in Begun + 1 .. (Begun + 1) - 1 :
                \A e \in MayCall(session, j) : m \in SureUnloads(e)
      BY <1>1, <2>1 DEF WillUnload
    <3>2. Begun + 1 .. (Begun + 1) - 1 = {}
      BY <1>1
    <3> QED
      BY <1>0, <3>1, <3>2, NoArgs
  <2> QED
    BY <2>2
<1>4. FreshInv'
  <2>1. \A m \in Modules : irx[m] = Fresh
    BY <1>0, <1>3 DEF FreshInv
  <2> QED
    BY <1>0, <1>2, <1>3, <2>1 DEF FreshInv
<1>5. WillUnload(session, Begun + 1, << >>, {})
  BY NoArgs DEF WillUnload
<1>6. EndsOnce(session, Begun + 1, << >>)
  BY NoArgs DEF EndsOnce, NoSecondEnd
<1>7. WillLoad(session, Begun + 1, << >>, session.staged)
  BY <1>1, <1>2, WillLoadStage
<1> QED
  BY <1>0, <1>1, <1>3, <1>4, <1>5, <1>6, <1>7

\* Nothing is left to do when the program ends: it has loaded all that it staged,
\* or a driver is in error.
LEMMA EndsExact ==
    ASSUME FTypeOK, PlaceInv, Ends, FreshInv,
           ErrorStays \/ WillLoad(session, Begun, Rest, staged)
    PROVE  /\ FreshInv' /\ WillUnload(session', Begun', Rest', iop')
           /\ EndsOnce(session', Begun', Rest')
           /\ ErrorStays' \/ WillLoad(session', Begun', Rest', staged')
<1>0. /\ UNCHANGED <<session, iop, irx, job, status>> /\ Rest = << >> /\ Rest' = << >>
      /\ staged' \in {staged, {}} /\ ~At("main", "reset", "unload")
  BY DEF Ends, Active, Rest, At
<1>1. Begun' = Len(session.scripts) /\ Len(session.scripts) \in Nat
  BY EndPlace
<1>2. \A i \in 1 .. Len(session.scripts) : ~Ahead(session, Begun', i)
  BY <1>1 DEF Ahead
<1>3. FreshInv'
  BY <1>0 DEF FreshInv, At, Active, Here
<1>4. WillUnload(session', Begun', Rest', iop')
  BY <1>0, <1>1 DEF WillUnload
<1>5. EndsOnce(session', Begun', Rest')
  BY <1>0, NoArgs DEF EndsOnce, NoSecondEnd
<1>6. \A d \in Names : NoOk(session', Begun', Rest', d)
  BY <1>0, <1>2, NoArgs DEF NoOk
<1>7. CASE NoError
  <2>1. WillLoad(session, Begun, << >>, staged)
    BY <1>0, <1>7 DEF NoError, ErrorStays
  <2>2. Head(todo) = "restage" /\ todo # << >>
    BY <1>7 DEF Ends
  <2>3. /\ Begun \in Nat /\ Begun + 1 \in 1 .. Len(session.scripts)
        /\ session.scripts[Begun + 1] = "restage"
    <3>1. Len(todo) \in Nat \ {0} /\ Head(todo) = todo[1]
      BY <2>2, SessionType, EmptySeq, HeadTailProperties DEF FTypeOK
    <3> QED
      BY <1>1, <2>2, <3>1 DEF PlaceInv, Begun
  <2>4. \A i \in 1 .. Len(session.scripts) : ~Ahead(session, Begun, i)
    BY <2>3 DEF Ahead, OneStaging
  <2>5. staged = {}
    BY <2>1, <2>4, NoArgs DEF WillLoad
  <2>6. WillLoad(session', Begun', Rest', staged')
    BY <1>0, <2>5 DEF WillLoad
  <2> QED
    BY <1>3, <1>4, <1>5, <2>6
<1>8. CASE ~NoError
  <2>1. ErrorStays'
    BY <1>0, <1>6, <1>8 DEF NoError, ErrorStays
  <2> QED
    BY <1>3, <1>4, <1>5, <2>1
<1> QED
  BY <1>7, <1>8

\* The next script begins.
LEMMA NextScriptExact ==
    ASSUME FTypeOK, PlaceInv, NextScript, FreshInv,
           WillUnload(session, Begun, Rest, iop),
           ErrorStays \/ WillLoad(session, Begun, Rest, staged),
           UnloadsBeforeStaging(session), ChecksOnce(session)
    PROVE  /\ FreshInv' /\ WillUnload(session', Begun', Rest', iop')
           /\ EndsOnce(session', Begun', Rest')
           /\ ErrorStays' \/ WillLoad(session', Begun', Rest', staged')
<1> DEFINE c == ScriptOf(Head(todo))
<1>0. /\ UNCHANGED <<session, iop, irx, staged, status>> /\ Rest = << >> /\ Rest' = c
      /\ ~At("main", "reset", "unload")
  BY FilesystemAssumption
     DEF NextScript, StartCalls, Active, FTypeOK, TypeOK, Rest, At
<1>1. /\ Begun \in Nat /\ Begun' = Begun + 1 /\ Begun + 1 \in 1 .. Len(session.scripts)
      /\ session.scripts \in Seq(ScriptNames)
  BY NextPlace, SessionType DEF NextScript, GoesOn
<1>2. session.scripts[Begun + 1] # "restage" /\ c \in MayCall(session, Begun + 1)
  BY NextMayCall
<1> HIDE DEF c
<1>3. FreshInv'
  BY <1>0 DEF FreshInv
<1>4. WillUnload(session, Begun + 1, c, iop)
  BY <1>0, <1>1, <1>2, WillUnloadBegin
<1>5. EndsOnce(session, Begun + 1, c)
  BY <1>1, <1>2, EndsOnceBegin
<1>6. CASE ErrorStays
  <2>1. PICK d \in Names : status[d] = "error" /\ NoOk(session, Begun, << >>, d)
    BY <1>0, <1>6 DEF ErrorStays
  <2>2. NoOk(session, Begun + 1, c, d)
    BY <1>1, <1>2, <2>1, NoOkBegin
  <2>3. ErrorStays'
    BY <1>0, <1>1, <2>1, <2>2 DEF ErrorStays
  <2> QED
    BY <1>0, <1>1, <1>3, <1>4, <1>5, <2>3
<1>7. CASE WillLoad(session, Begun, Rest, staged)
  <2>1. WillLoad(session, Begun + 1, c, staged)
    BY <1>0, <1>1, <1>2, <1>7, WillLoadBegin
  <2> QED
    BY <1>0, <1>1, <1>3, <1>4, <1>5, <2>1
<1> QED
  BY <1>6, <1>7

\* Every step keeps the invariant.
LEMMA ExactInvKeeps ==
    ASSUME FTypeOK, AloneInv, PlaceInv, SoloInv, StagedInv, ExactInv, [FNext]_fvars
    PROVE  ExactInv'
<1> SUFFICES ASSUME Exact(session')
             PROVE  /\ FreshInv' /\ WillUnload(session', Begun', Rest', iop')
                    /\ EndsOnce(session', Begun', Rest')
                    /\ ErrorStays' \/ WillLoad(session', Begun', Rest', staged')
  BY DEF ExactInv
<1>0. /\ UNCHANGED session
      /\ FStep("main") \/ NextScript \/ Restages \/ Ends \/ UNCHANGED fvars
  <2>1. Alone'
    BY DEF Exact, Alone
  <2> QED
    BY <2>1, AloneNext
<1>1. /\ Exact(session) /\ FreshInv /\ WillUnload(session, Begun, Rest, iop)
      /\ EndsOnce(session, Begun, Rest)
      /\ ErrorStays \/ WillLoad(session, Begun, Rest, staged)
  BY <1>0 DEF ExactInv
<1>2. /\ Solo("main") /\ Supplied(session, Begun, Rest, AtHand) /\ NoReload(Rest)
      /\ LoadsWhatItStages(session) /\ UnloadsBeforeStaging(session) /\ ChecksOnce(session)
  BY <1>1, ExactIs
<1>3. CASE FStep("main")
  <2>1. Waits \/ Does(Here("main")) \/ GivesUp(Here("main"))
    BY <1>1, <1>2, <1>3, ExactMoves
  <2> QED
    BY <1>1, <1>2, <1>3, <2>1, FreshStep, WillUnloadStep, EndStep
<1>4. CASE NextScript
  BY <1>1, <1>2, <1>4, NextScriptExact
<1>5. CASE Restages
  BY <1>1, <1>2, <1>5, RestageExact
<1>7. CASE Ends
  BY <1>1, <1>7, EndsExact
<1>6. CASE UNCHANGED fvars
  BY <1>1, <1>6 DEF fvars, vars, FreshInv, ErrorStays, Rest, Begun, At, Active, Here
<1> QED
  BY <1>0, <1>3, <1>4, <1>5, <1>6, <1>7

LEMMA ExactStarts == FInit => ExactInv
<1> SUFFICES ASSUME FInit, Exact(session) PROVE ExactInv
  BY DEF ExactInv
<1>1. FTypeOK /\ session.scripts \in Seq(ScriptNames) /\ Len(session.scripts) \in Nat
  BY FInitType, SessionType
<1>2. Rest = << >> /\ iop = {} /\ staged = session.staged /\ Begun = 0
  <2>1. Rest = << >> /\ iop = {} /\ staged = session.staged /\ todo = session.scripts
    BY FilesystemAssumption DEF FInit, Init, Idle, Rest
  <2> QED
    BY <1>1, <2>1 DEF Begun
<1>3. FreshInv
  BY <1>1, <1>2 DEF FInit, Init, FreshInv, FTypeOK, TypeOK
<1>4. WillUnload(session, Begun, Rest, iop) /\ EndsOnce(session, Begun, Rest)
  BY <1>2, NoArgs DEF WillUnload, EndsOnce, NoSecondEnd
<1>5. WillLoad(session, Begun, Rest, staged)
  BY <1>1, <1>2, WillLoadStage DEF Exact
<1> QED
  BY <1>3, <1>4, <1>5 DEF ExactInv

\* A program of any length that uses exactly what it stages, as the tables of the
\* provider and the calls of the drivers have it, on a machine without faults:
\* when all its drivers are up, or down again, no payload is left in memory.
THEOREM ReturnsToZero ==
    ASSUME \A s \in Sessions : s.exact => Exact(s)
    PROVE  FSpec => []OthersReturnToZero
<1>1. FInit => ExactInv
  BY ExactStarts
<1>2. FTypeOK /\ AloneInv /\ PlaceInv /\ SoloInv /\ StagedInv /\ ExactInv /\ [FNext]_fvars
         => ExactInv'
  BY ExactInvKeeps
<1>3. FTypeOK /\ ExactInv => OthersReturnToZero
  <2> SUFFICES ASSUME FTypeOK, ExactInv, Finished, NoError, session.exact
               PROVE  staged = {}
    BY DEF OthersReturnToZero
  <2>1. ErrorStays \/ WillLoad(session, Begun, Rest, staged)
    BY DEF FTypeOK, ExactInv
  <2>2. Rest = << >> /\ Begun = Len(session.scripts) /\ Len(session.scripts) \in Nat
    BY SessionType DEF Finished, Active, Rest, Begun
  <2>3. ~ErrorStays
    BY DEF NoError, ErrorStays
  <2>4. \A i \in 1 .. Len(session.scripts) : ~Ahead(session, Begun, i)
    BY <2>2 DEF Ahead
  <2> QED
    BY <2>1, <2>2, <2>3, <2>4, NoArgs DEF WillLoad
<1> QED
  BY <1>1, <1>2, <1>3, AlwaysStaged, AlwaysSolo, PTL DEF FSpec
=============================================================================
