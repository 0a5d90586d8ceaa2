-------------------------- MODULE Filesystem_proofs --------------------------
(***************************************************************************)
(* Proofs about the filesystem layer over the drivers, for any sessions:   *)
(* the application's scripts and the power callback are calls of the       *)
(* drivers' own kind, so that type correctness and the truth of the        *)
(* module variables carry over to two threads that run them in any order.  *)
(***************************************************************************)
EXTENDS Filesystem, Drivers_proofs

-----------------------------------------------------------------------------
(* The scripts are sequences of calls.                                     *)

\* A step of the layer is a call of one operation.
LEMMA EnvCallType == \A x \in LayerNames : EnvCall(x) \in Calls
<1> SUFFICES ASSUME NEW x \in LayerNames PROVE EnvCall(x) \in Calls
  OBVIOUS
<1>0. x \in STRING
  BY FilesystemAssumption
<1>1. EnvCall(x) = <<[op |-> "env", arg |-> x, of |-> "none", top |-> "none"]>>
  BY DEF EnvCall, Tag
<1>2. [op |-> "env", arg |-> x, of |-> "none", top |-> "none"] \in Op
  BY <1>0 DEF Op
<1> QED
  BY <1>1, <1>2 DEF Calls

\* The drivers that the layer and the samples call by name.
Called ==
    {"poweroff", "fileXio", "memcard", "usb", "mx4sio", "cdfs", "dev9", "hdd",
     "joystick", "audio"}

\* Their calls, with or without the drivers they need.
LEMMA DriverCallType ==
    /\ Called \subseteq Names
    /\ \A d \in Called, deps \in BOOLEAN :
          InitCall(d, deps) \in Calls /\ DeinitCall(d, deps) \in Calls
<1>1. Called \subseteq DriverNames /\ "eeip" \notin Called
  BY DEF DriverNames, Driver, Called
<1> QED
  BY <1>1, FilesystemAssumption

\* The check of the working directory in front of the HDD driver's init.
LEMMA InitHddCallType ==
    ASSUME NEW deps \in BOOLEAN, NEW onlyIfBooted \in BOOLEAN
    PROVE  InitHddCall(deps, onlyIfBooted) \in Calls
<1> DEFINE check == [op |-> "try", arg |-> "cwd_is_hdd", of |-> "hdd", top |-> "hdd"]
<1>1. "hdd" \in Called /\ "hdd" \in Names
  BY DriverCallType DEF Called
<1>0. "cwd_is_hdd" \in STRING
  BY FilesystemAssumption DEF LayerNames
<1>2. PICK c \in Seq(Op) : c = InitCall("hdd", deps) /\ c # << >>
  BY <1>1, DriverCallType DEF Calls
<1>3. check \in Op
  <2>1. check \in [op : {"try", "run", "off", "env"}, arg : STRING,
                   of : Names \cup {"none"}, top : Names \cup {"none"}]
    BY <1>0, <1>1
  <2> QED
    BY <2>1, Zenon DEF Op
<1>4. Tag("hdd", "hdd", << <<"try", "cwd_is_hdd">> >>) = <<check>>
  BY DEF Tag
<1>5. CASE onlyIfBooted
  <2>1. InitHddCall(deps, onlyIfBooted) = <<check>> \o c
    BY <1>2, <1>4, <1>5 DEF InitHddCall
  <2>2. <<check>> \o c \in Seq(Op) /\ Len(<<check>> \o c) = 1 + Len(c)
    BY <1>3, ConcatProperties
  <2>3. <<check>> \o c # << >>
    BY <2>2, <1>2
  <2> QED
    BY <2>1, <2>2, <2>3 DEF Calls
<1>6. CASE ~onlyIfBooted
  <2>1. InitHddCall(deps, onlyIfBooted) = << >> \o c
    BY <1>2, <1>6 DEF InitHddCall
  <2>2. << >> \o c = c
    BY ConcatEmptySeq
  <2> QED
    BY <1>2, <2>1, <2>2 DEF Calls
<1> QED
  BY <1>5, <1>6

\* Two scripts in a row.
LEMMA JoinType ==
    ASSUME NEW s \in Seq(Calls), NEW u \in Seq(Calls)
    PROVE  s \o u \in Seq(Calls)
BY ConcatProperties

\* Tuples of one kind are sequences.
LEMMA Tuples ==
    ASSUME NEW D
    PROVE  /\ \A a \in D : <<a>> \in Seq(D)
           /\ \A a, b \in D : <<a, b>> \in Seq(D)
           /\ \A a, b, c \in D : <<a, b, c>> \in Seq(D)
           /\ \A a, b, c, d \in D : <<a, b, c, d>> \in Seq(D)
           /\ \A a, b, c, d, e \in D : <<a, b, c, d, e>> \in Seq(D)
           /\ \A a, b, c, d, e, f \in D : <<a, b, c, d, e, f>> \in Seq(D)
           /\ \A a, b, c, d, e, f, g \in D : <<a, b, c, d, e, f, g>> \in Seq(D)
OBVIOUS

LEMMA EightTuple ==
    ASSUME NEW D
    PROVE  \A a, b, c, d \in D : \A e, f, g, h \in D : <<a, b, c, d, e, f, g, h>> \in Seq(D)
OBVIOUS

LEMMA ElevenTuple ==
    ASSUME NEW D
    PROVE  \A a, b, c, d, e \in D : \A f, g, h, i, j, k \in D :
              <<a, b, c, d, e, f, g, h, i, j, k>> \in Seq(D)
OBVIOUS

\* The full layer, up and down.
LEMMA FullLayerType ==
    /\ init_ps2_filesystem_driver \in Seq(Calls)
    /\ \A powerOff \in BOOLEAN :
          internal_deinit_ps2_filesystem_driver(powerOff) \in Seq(Calls)
    /\ deinit_ps2_filesystem_driver \in Seq(Calls)
<1>1. init_ps2_filesystem_driver \in Seq(Calls)
  <2>1. /\ InitCall("poweroff", FALSE) \in Calls /\ InitCall("fileXio", FALSE) \in Calls
        /\ InitCall("memcard", TRUE) \in Calls /\ InitCall("usb", TRUE) \in Calls
        /\ InitCall("mx4sio", FALSE) \in Calls /\ InitCall("cdfs", FALSE) \in Calls
        /\ InitCall("dev9", FALSE) \in Calls
    BY DriverCallType DEF Called
  <2>2. /\ EnvCall("poweroffSetCallback") \in Calls
        /\ EnvCall("mount_current_hdd_partition") \in Calls
        /\ EnvCall("waitUntilDeviceIsReady") \in Calls
    BY EnvCallType DEF LayerNames
  <2>3. InitHddCall(FALSE, TRUE) \in Calls
    BY InitHddCallType
  <2> QED
    BY <2>1, <2>2, <2>3, ElevenTuple, Zenon DEF init_ps2_filesystem_driver
<1>2. ASSUME NEW powerOff \in BOOLEAN
      PROVE  internal_deinit_ps2_filesystem_driver(powerOff) \in Seq(Calls)
  <2> DEFINE first == << DeinitCall("hdd", FALSE), DeinitCall("cdfs", FALSE),
                         InitCall("mx4sio", FALSE), DeinitCall("usb", TRUE),
                         DeinitCall("memcard", TRUE), DeinitCall("fileXio", FALSE),
                         DeinitCall("dev9", FALSE) >>
             last  == IF powerOff THEN <<DeinitCall("poweroff", FALSE)>> ELSE << >>
  <2>1. /\ DeinitCall("hdd", FALSE) \in Calls /\ DeinitCall("cdfs", FALSE) \in Calls
        /\ InitCall("mx4sio", FALSE) \in Calls /\ DeinitCall("usb", TRUE) \in Calls
        /\ DeinitCall("memcard", TRUE) \in Calls
        /\ DeinitCall("fileXio", FALSE) \in Calls
        /\ DeinitCall("dev9", FALSE) \in Calls
        /\ DeinitCall("poweroff", FALSE) \in Calls
    BY DriverCallType DEF Called
  <2>2. first \in Seq(Calls)
    BY <2>1, Tuples, Zenon
  <2>3. last \in Seq(Calls)
    <3>1. <<DeinitCall("poweroff", FALSE)>> \in Seq(Calls)
      BY <2>1, Tuples, Zenon
    <3>2. << >> \in Seq(Calls)
      OBVIOUS
    <3> QED
      BY <3>1, <3>2, Zenon
  <2> QED
    BY <2>2, <2>3, JoinType DEF internal_deinit_ps2_filesystem_driver
<1>3. deinit_ps2_filesystem_driver \in Seq(Calls)
  <2>1. <<EnvCall("umount_current_hdd_partition")>> \in Seq(Calls)
    BY EnvCallType DEF LayerNames
  <2> QED
    BY <1>2, <2>1, JoinType DEF deinit_ps2_filesystem_driver
<1> QED
  BY <1>1, <1>2, <1>3

\* The layer for the boot device, for any device.
LEMMA BootLayerType ==
    /\ \A device : init_only_boot_ps2_filesystem_driver(device) \in Seq(Calls)
    /\ \A powerOff \in BOOLEAN :
          internal_deinit_only_boot_ps2_filesystem_driver(powerOff) \in Seq(Calls)
    /\ deinit_only_boot_ps2_filesystem_driver \in Seq(Calls)
<1>1. /\ InitCall("fileXio", FALSE) \in Calls /\ InitCall("memcard", TRUE) \in Calls
      /\ InitCall("cdfs", FALSE) \in Calls /\ InitCall("usb", TRUE) \in Calls
      /\ InitCall("mx4sio", TRUE) \in Calls /\ InitCall("poweroff", FALSE) \in Calls
      /\ InitCall("dev9", FALSE) \in Calls
  BY DriverCallType DEF Called
<1>2. /\ EnvCall("poweroffSetCallback_boot") \in Calls
      /\ EnvCall("mount_current_hdd_partition") \in Calls
      /\ EnvCall("umount_current_hdd_partition") \in Calls
      /\ EnvCall("waitUntilDeviceIsReady") \in Calls
  BY EnvCallType DEF LayerNames
<1>3. InitHddCall(FALSE, FALSE) \in Calls
  BY InitHddCallType
<1>4. << >> \in Seq(Calls)
  OBVIOUS
<1>5. /\ <<InitCall("fileXio", FALSE)>> \in Seq(Calls)
      /\ <<InitCall("memcard", TRUE)>> \in Seq(Calls)
      /\ <<InitCall("cdfs", FALSE)>> \in Seq(Calls)
      /\ <<InitCall("usb", TRUE), InitCall("mx4sio", TRUE)>> \in Seq(Calls)
      /\ <<EnvCall("waitUntilDeviceIsReady")>> \in Seq(Calls)
      /\ <<EnvCall("umount_current_hdd_partition")>> \in Seq(Calls)
  BY <1>1, <1>2, Tuples, Zenon
<1>6. << InitCall("poweroff", FALSE), InitCall("dev9", FALSE), InitHddCall(FALSE, FALSE),
         EnvCall("poweroffSetCallback_boot"), EnvCall("mount_current_hdd_partition") >>
      \in Seq(Calls)
  BY <1>1, <1>2, <1>3, Tuples, Zenon
<1>7. ASSUME NEW device
      PROVE  init_only_boot_ps2_filesystem_driver(device) \in Seq(Calls)
  <2> DEFINE middle ==
               CASE device \in McCases   -> <<InitCall("memcard", TRUE)>>
                 [] device \in CdfsCases -> <<InitCall("cdfs", FALSE)>>
                 [] device \in MassCases -> <<InitCall("usb", TRUE), InitCall("mx4sio", TRUE)>>
                 [] device \in HddCases  ->
                       << InitCall("poweroff", FALSE), InitCall("dev9", FALSE),
                          InitHddCall(FALSE, FALSE),
                          EnvCall("poweroffSetCallback_boot"),
                          EnvCall("mount_current_hdd_partition") >>
                 [] OTHER -> << >>
  <2>1. middle \in Seq(Calls)
    BY <1>4, <1>5, <1>6
  <2>2. init_only_boot_ps2_filesystem_driver(device)
        = <<InitCall("fileXio", FALSE)>> \o middle \o <<EnvCall("waitUntilDeviceIsReady")>>
    BY DEF init_only_boot_ps2_filesystem_driver
  <2> HIDE DEF middle
  <2>3. PICK x, y, z \in Seq(Calls) :
           /\ x = <<InitCall("fileXio", FALSE)>> /\ y = middle
           /\ z = <<EnvCall("waitUntilDeviceIsReady")>>
    BY <1>5, <2>1, Zenon
  <2>4. x \o y \o z \in Seq(Calls)
    BY JoinType
  <2> QED
    BY <2>2, <2>3, <2>4, Zenon
<1>8. /\ boot_device_id \notin McCases /\ boot_device_id \notin CdfsCases
      /\ boot_device_id \notin MassCases /\ boot_device_id \notin HddCases
  BY DEF boot_device_id, McCases, CdfsCases, MassCases, HddCases
<1>9. <<DeinitCall("fileXio", FALSE)>> \in Seq(Calls)
  BY DriverCallType, Tuples, Zenon DEF Called
<1>10. ASSUME NEW powerOff \in BOOLEAN
       PROVE  internal_deinit_only_boot_ps2_filesystem_driver(powerOff) \in Seq(Calls)
  <2>1. internal_deinit_only_boot_ps2_filesystem_driver(powerOff)
        = << >> \o <<DeinitCall("fileXio", FALSE)>>
    BY <1>8 DEF internal_deinit_only_boot_ps2_filesystem_driver
  <2> QED
    BY <1>4, <1>9, <2>1, JoinType
<1>11. deinit_only_boot_ps2_filesystem_driver
       = << >> \o internal_deinit_only_boot_ps2_filesystem_driver(TRUE)
  BY <1>8 DEF deinit_only_boot_ps2_filesystem_driver
<1> QED
  BY <1>4, <1>7, <1>10, <1>11, JoinType

\* What the samples ask, up and down.
LEMMA SamplesType ==
    /\ alldrivers_init_drivers \in Seq(Calls)
    /\ alldrivers_deinit_drivers \in Seq(Calls)
    /\ hdd_deinit_drivers \in Seq(Calls)
    /\ poweroff_main \in Seq(Calls)
    /\ \A onlyIfBooted \in BOOLEAN : hdd_init_drivers(onlyIfBooted) \in Seq(Calls)
    /\ \A m, c \in LayerNames : listdir_init_drivers(m, c) \in Seq(Calls)
<1>1. \A d \in Called, deps \in BOOLEAN :
          InitCall(d, deps) \in Calls /\ DeinitCall(d, deps) \in Calls
  BY DriverCallType
<1>2. /\ EnvCall("mount_current_hdd_partition") \in Calls
      /\ EnvCall("umount_current_hdd_partition") \in Calls
      /\ EnvCall("poweroffShutdown") \in Calls
  BY EnvCallType DEF LayerNames
<1>3. InitCall("fileXio", FALSE) \in Calls /\ InitCall("memcard", TRUE) \in Calls
      /\ InitCall("usb", TRUE) \in Calls /\ InitCall("cdfs", FALSE) \in Calls
      /\ InitCall("joystick", TRUE) \in Calls /\ InitCall("audio", FALSE) \in Calls
      /\ InitCall("poweroff", FALSE) \in Calls
  BY <1>1 DEF Called
<1>4. DeinitCall("poweroff", FALSE) \in Calls /\ DeinitCall("audio", FALSE) \in Calls
      /\ DeinitCall("joystick", FALSE) \in Calls /\ DeinitCall("usb", FALSE) \in Calls
      /\ DeinitCall("cdfs", FALSE) \in Calls /\ DeinitCall("memcard", TRUE) \in Calls
      /\ DeinitCall("hdd", FALSE) \in Calls /\ DeinitCall("fileXio", FALSE) \in Calls
      /\ DeinitCall("hdd", TRUE) \in Calls
  BY <1>1 DEF Called
<1>5. InitHddCall(TRUE, TRUE) \in Calls /\ InitHddCall(FALSE, FALSE) \in Calls
  BY InitHddCallType
<1>6. alldrivers_init_drivers \in Seq(Calls)
  BY <1>3, <1>5, EightTuple, Zenon DEF alldrivers_init_drivers
<1>7. alldrivers_deinit_drivers \in Seq(Calls)
  BY <1>4, EightTuple, Zenon DEF alldrivers_deinit_drivers
<1>8. hdd_deinit_drivers \in Seq(Calls)
  BY <1>2, <1>4, Tuples, Zenon DEF hdd_deinit_drivers
<1>9. poweroff_main \in Seq(Calls)
  BY <1>2, <1>3, <1>4, Tuples, Zenon DEF poweroff_main
<1>10. ASSUME NEW onlyIfBooted \in BOOLEAN
       PROVE  hdd_init_drivers(onlyIfBooted) \in Seq(Calls)
  <2>1. TRUE \in BOOLEAN
    OBVIOUS
  <2>2. InitHddCall(TRUE, onlyIfBooted) \in Calls
    BY <2>1, InitHddCallType
  <2> QED
    BY <1>2, <2>2, Tuples, Zenon DEF hdd_init_drivers
<1>11. ASSUME NEW m \in LayerNames, NEW c \in LayerNames
       PROVE  listdir_init_drivers(m, c) \in Seq(Calls)
  <2>1. EnvCall(m) \in Calls /\ EnvCall(c) \in Calls
    BY EnvCallType
  <2> QED
    BY <1>3, <1>5, <2>1, Tuples, Zenon DEF listdir_init_drivers
<1> QED
  BY <1>6, <1>7, <1>8, <1>9, <1>10, <1>11

\* The way out of listdir_sample.
LEMMA ListdirExitType ==
    \A u \in LayerNames, powerOff \in BOOLEAN :
        listdir_prepare_for_exit(u, powerOff) \in Seq(Calls)
<1> SUFFICES ASSUME NEW u \in LayerNames, NEW powerOff \in BOOLEAN
             PROVE  listdir_prepare_for_exit(u, powerOff) \in Seq(Calls)
  OBVIOUS
<1> DEFINE drivers == << DeinitCall("hdd", FALSE), DeinitCall("usb", TRUE),
                         DeinitCall("memcard", TRUE), DeinitCall("fileXio", FALSE) >>
           last    == IF powerOff THEN <<DeinitCall("poweroff", FALSE)>> ELSE << >>
<1>1. /\ DeinitCall("hdd", FALSE) \in Calls /\ DeinitCall("usb", TRUE) \in Calls
      /\ DeinitCall("memcard", TRUE) \in Calls /\ DeinitCall("fileXio", FALSE) \in Calls
      /\ DeinitCall("poweroff", FALSE) \in Calls
  BY DriverCallType DEF Called
<1>2. EnvCall(u) \in Calls
  BY EnvCallType
<1>3. drivers \in Seq(Calls) /\ <<DeinitCall("poweroff", FALSE)>> \in Seq(Calls)
      /\ <<EnvCall(u)>> \in Seq(Calls)
  BY <1>1, <1>2, Tuples, Zenon
<1>4. << >> \in Seq(Calls)
  OBVIOUS
<1>5. last \in Seq(Calls)
  BY <1>3, <1>4, Zenon
<1>6. PICK x, y, z \in Seq(Calls) : x = <<EnvCall(u)>> /\ y = drivers /\ z = last
  BY <1>3, <1>5, Zenon
<1>7. x \o (y \o z) \in Seq(Calls)
  BY JoinType
<1>8. listdir_prepare_for_exit(u, powerOff) = <<EnvCall(u)>> \o (drivers \o last)
  BY DEF listdir_prepare_for_exit, listdir_deinit_drivers
<1> QED
  BY <1>6, <1>7, <1>8, Zenon

\* Whatever the application runs is a sequence of calls.
LEMMA ScriptType ==
    \A name \in ScriptNames \ {"restage"} : ScriptOf(name) \in Seq(Calls)
<1> SUFFICES ASSUME NEW name \in ScriptNames \ {"restage"}
             PROVE  ScriptOf(name) \in Seq(Calls)
  OBVIOUS
<1>1. /\ init_ps2_filesystem_driver \in Seq(Calls)
      /\ deinit_ps2_filesystem_driver \in Seq(Calls)
      /\ init_only_boot_ps2_filesystem_driver(getBootDeviceID(cwd)) \in Seq(Calls)
      /\ deinit_only_boot_ps2_filesystem_driver \in Seq(Calls)
  BY FullLayerType, BootLayerType
<1>2. /\ hdd_init_drivers(TRUE) \in Seq(Calls) /\ hdd_init_drivers(FALSE) \in Seq(Calls)
      /\ hdd_deinit_drivers \in Seq(Calls) /\ alldrivers_init_drivers \in Seq(Calls)
      /\ alldrivers_deinit_drivers \in Seq(Calls) /\ poweroff_main \in Seq(Calls)
  BY SamplesType
<1>3. /\ listdir_init_drivers("mount_current_hdd_partition", "poweroffSetCallback_listdir")
            \in Seq(Calls)
      /\ listdir_init_drivers("mount_hdd_partition", "poweroffSetCallback_default")
            \in Seq(Calls)
  BY SamplesType DEF LayerNames
<1>4. /\ listdir_prepare_for_exit("umount_current_hdd_partition", TRUE) \in Seq(Calls)
      /\ listdir_prepare_for_exit("umount_hdd_partition", TRUE) \in Seq(Calls)
  BY ListdirExitType DEF LayerNames
<1>5. <<DeinitCall("joystick", TRUE)>> \in Seq(Calls)
  BY DriverCallType, Tuples, Zenon DEF Called
<1>8. <<DeinitCall("eeip", TRUE)>> \in Seq(Calls)
  <2>1. "eeip" \in DriverNames
    BY DEF DriverNames, Driver
  <2>2. DeinitCall("eeip", TRUE) \in Calls
    BY <2>1, FilesystemAssumption
  <2> QED
    BY <2>2, Tuples, Zenon
<1>6. CASE name \in DriverNames
  <2>1. InitCall(name, TRUE) \in Calls
    BY <1>6, FilesystemAssumption
  <2>2. <<InitCall(name, TRUE)>> \in Seq(Calls)
    BY <2>1, Tuples, Zenon
  <2> QED
    BY <1>1, <1>2, <1>3, <1>4, <1>5, <1>8, <2>2 DEF ScriptOf, ScriptFrom
<1>7. CASE name \notin DriverNames
  BY <1>1, <1>2, <1>3, <1>4, <1>5, <1>7, <1>8 DEF ScriptOf, ScriptFrom, ScriptNames
<1> QED
  BY <1>6, <1>7

\* And so is the callback of the power button, whichever is registered.
Callbacks == {"boot", "all", "listdir", "listdir_default"}

LEMMA HandlerType == \A kind \in Callbacks : poweroffHandler(kind) \in Seq(Calls)
<1> SUFFICES ASSUME NEW kind \in Callbacks
             PROVE  poweroffHandler(kind) \in Seq(Calls)
  OBVIOUS
<1>1. /\ internal_deinit_only_boot_ps2_filesystem_driver(FALSE) \in Seq(Calls)
      /\ internal_deinit_ps2_filesystem_driver(FALSE) \in Seq(Calls)
  BY FullLayerType, BootLayerType
<1>2. /\ listdir_prepare_for_exit("umount_current_hdd_partition", FALSE) \in Seq(Calls)
      /\ listdir_prepare_for_exit("umount_hdd_partition", FALSE) \in Seq(Calls)
  BY ListdirExitType DEF LayerNames
<1>3. EnvCall("poweroffShutdown") \in Calls
  BY EnvCallType DEF LayerNames
<1>4. <<EnvCall("poweroffShutdown")>> \in Seq(Calls)
  BY <1>3, Tuples, Zenon
<1>5. ASSUME NEW s \in Seq(Calls)
      PROVE  s \o <<EnvCall("poweroffShutdown")>> \in Seq(Calls)
  <2>1. PICK u \in Seq(Calls) : u = <<EnvCall("poweroffShutdown")>>
    BY <1>4
  <2>2. s \o u \in Seq(Calls)
    BY JoinType
  <2> QED
    BY <2>1, <2>2, Zenon
<1>6. \E s \in Seq(Calls) : poweroffHandler(kind) = s \o <<EnvCall("poweroffShutdown")>>
  <2>1. CASE kind = "boot"
    BY <1>1, <2>1 DEF poweroffHandler
  <2>2. CASE kind = "all"
    BY <1>1, <2>2 DEF poweroffHandler
  <2>3. CASE kind = "listdir"
    BY <1>2, <2>3 DEF poweroffHandler
  <2>4. CASE kind = "listdir_default"
    BY <1>2, <2>4 DEF poweroffHandler
  <2> QED
    BY <2>1, <2>2, <2>3, <2>4 DEF Callbacks
<1> QED
  BY <1>5, <1>6

-----------------------------------------------------------------------------
(* The threads of the layer keep what the drivers' own steps keep.         *)

\* The drivers' types, and what the application and the power button hand to
\* the threads.
FTypeOK ==
    /\ TypeOK
    /\ session \in Sessions /\ todo \in Seq(ScriptNames)
    /\ callback \in Callbacks \cup {"none"}

\* A step of the layer is a step of a driver call, or one that starts calls.
LEMMA FStepIsStep ==
    ASSUME NEW t \in Threads, FStep(t)
    PROVE  Step(t)
BY DEF FStep, EnvStep, DriverStep, Step

\* Calls that begin are typed, and change nothing that another thread tests.
LEMMA StartKeeps ==
    ASSUME TypeOK, NEW t \in Threads, NEW calls \in Seq(Calls), StartCalls(t, calls)
    PROVE  TypeOK' /\ (LoadedVarsAreResident => LoadedVarsAreResident')
<1>1. TypeOK'
  BY DEF StartCalls, TypeOK, Phases
<1>2. ASSUME LoadedVarsAreResident, NEW m \in Modules, CHECK_IRX_UNLOAD(m)'
      PROVE  m \in iop' \/ Resetting(m)'
  <2>1. CHECK_IRX_UNLOAD(m) /\ UNCHANGED iop
    BY <1>2 DEF StartCalls, CHECK_IRX_UNLOAD
  <2>2. CASE m \in iop
    BY <2>1, <2>2
  <2>3. CASE Resetting(m)
    <3>1. PICK u \in Threads : At(u, "reset", "unload") /\ Here(u).arg = m
      BY <2>3 DEF Resetting
    <3>2. u # t
      BY <3>1 DEF At, StartCalls
    <3>3. job'[u] = job[u]
      BY <3>2 DEF StartCalls, TypeOK
    <3>4. (At(u, "reset", "unload") /\ Here(u).arg = m)'
      BY <3>1, <3>3 DEF At, Active, Here
    <3> QED
      BY <3>4 DEF Resetting
  <2> QED
    BY <1>2, <2>1, <2>2, <2>3 DEF LoadedVarsAreResident
<1> QED
  BY <1>1, <1>2 DEF LoadedVarsAreResident

\* Only the registrations write the callback.
LEMMA CallbackType ==
    ASSUME FTypeOK, NEW t \in Threads, FStep(t)
    PROVE  callback' \in Callbacks \cup {"none"}
BY DEF FTypeOK, FStep, EnvStep, DriverStep, Environment, mvars, hddvars, Callbacks,
       mount_hdd_partition, umount_hdd_partition, mount_current_hdd_partition,
       umount_current_hdd_partition, poweroffSetCallback, poweroffShutdown

\* Every step of the machine is typed and keeps the variables true.
LEMMA FNextKeeps ==
    ASSUME FTypeOK, [FNext]_fvars
    PROVE  FTypeOK' /\ (LoadedVarsAreResident => LoadedVarsAreResident')
<1>0. TypeOK /\ session \in Sessions /\ todo \in Seq(ScriptNames)
  BY DEF FTypeOK
<1>1. ASSUME NEW t \in Threads, FStep(t)
      PROVE  FTypeOK' /\ (LoadedVarsAreResident => LoadedVarsAreResident')
  <2>1. Step(t) /\ UNCHANGED <<session, todo>>
    BY <1>1, FStepIsStep DEF FStep
  <2>2. TypeOK' /\ (LoadedVarsAreResident => LoadedVarsAreResident')
    BY <1>0, <2>1, StepType, StepLoaded
  <2>3. callback' \in Callbacks \cup {"none"}
    BY <1>1, CallbackType
  <2> QED
    BY <1>0, <2>1, <2>2, <2>3 DEF FTypeOK
<1>2. CASE NextScript
  <2>1. "main" \in Threads
    BY FilesystemAssumption
  <2>2. Head(todo) \in ScriptNames /\ Tail(todo) \in Seq(ScriptNames)
    BY <1>0, <1>2 DEF NextScript, GoesOn
  <2>3. ScriptOf(Head(todo)) \in Seq(Calls)
    BY <1>2, <2>2, ScriptType DEF NextScript, GoesOn
  <2>4. TypeOK' /\ (LoadedVarsAreResident => LoadedVarsAreResident')
    BY <1>0, <1>2, <2>1, <2>3, StartKeeps DEF NextScript
  <2> QED
    BY <1>2, <2>2, <2>4 DEF FTypeOK, NextScript, mvars
<1>3. CASE Restage
  <2>1. session.staged \in SUBSET Modules
    BY <1>0, FilesystemAssumption, DriversAssumption
  <2>2. TypeOK'
    BY <1>0, <1>3, <2>1 DEF Restage, TypeOK
  <2>3. LoadedVarsAreResident => LoadedVarsAreResident'
    BY <1>3 DEF Restage, LoadedVarsAreResident, CHECK_IRX_UNLOAD, Resetting, At,
                Active, Here
  <2>4. todo' \in Seq(ScriptNames)
    <3>1. todo # << >> /\ todo' \in {Tail(todo), << >>}
      BY <1>3 DEF Restage, GoesOn
    <3>2. Tail(todo) \in Seq(ScriptNames)
      BY <1>0, <3>1
    <3>3. << >> \in Seq(ScriptNames)
      OBVIOUS
    <3> QED
      BY <3>1, <3>2, <3>3
  <2> QED
    BY <1>3, <2>2, <2>3, <2>4 DEF FTypeOK, Restage, mvars
<1>4. CASE Press
  <2>1. "poweroff" \in Threads /\ callback \in Callbacks
    BY <1>4 DEF FTypeOK, Press
  <2>2. poweroffHandler(callback) \in Seq(Calls)
    BY <2>1, HandlerType
  <2>3. TypeOK' /\ (LoadedVarsAreResident => LoadedVarsAreResident')
    BY <1>0, <1>4, <2>1, <2>2, StartKeeps DEF Press
  <2> QED
    BY <1>4, <2>3 DEF FTypeOK, Press, mvars
<1>5. CASE Return \/ UNCHANGED fvars
  <2>1. UNCHANGED <<vars, session, callback>> /\ todo' \in {todo, << >>}
    BY <1>5 DEF Return, fvars, mvars
  <2>2. TypeOK' /\ (LoadedVarsAreResident => LoadedVarsAreResident')
    BY <1>0, <2>1 DEF vars, TypeOK, LoadedVarsAreResident, CHECK_IRX_UNLOAD, Resetting,
                      At, Active, Here
  <2>3. << >> \in Seq(ScriptNames)
    OBVIOUS
  <2> QED
    BY <1>0, <2>1, <2>2, <2>3 DEF FTypeOK
<1> QED
  BY <1>1, <1>2, <1>3, <1>4, <1>5 DEF FNext, Stop

\* The machine starts with the drivers' initial state.
LEMMA FInitType == FInit => FTypeOK
<1> SUFFICES ASSUME FInit PROVE FTypeOK
  OBVIOUS
<1>1. TypeOK
  BY InitType DEF FInit
<1>2. session \in Sessions /\ todo = session.scripts /\ callback = "none"
  BY DEF FInit
<1>3. session.scripts \in Seq(ScriptNames)
  BY <1>2, FilesystemAssumption
<1> QED
  BY <1>1, <1>2, <1>3 DEF FTypeOK

\* Whatever the sessions are, and whenever the button is pressed: both threads
\* only ever work on the calls of the drivers, the layer and the samples, and no
\* variable leaves its type.
THEOREM LayerTypeCorrect == FSpec => []TypeOK
<1>1. FInit => FTypeOK
  BY FInitType
<1>2. FTypeOK /\ [FNext]_fvars => FTypeOK'
  BY FNextKeeps
<1>3. FTypeOK => TypeOK
  BY DEF FTypeOK
<1> QED
  BY <1>1, <1>2, <1>3, PTL DEF FSpec

\* Also with the callback of the power button between any two steps of the
\* application, and modules that are staged again: variables that say "loaded"
\* are those of a resident module, but for the moment between SifUnloadModule()
\* and RESET_IRX_VARS().
THEOREM LayerVariablesTrue == FSpec => []LoadedVarsAreResident
<1>1. FInit => FTypeOK /\ LoadedVarsAreResident
  <2>1. Init => LoadedVarsAreResident
    BY DEF Init, LoadedVarsAreResident, CHECK_IRX_UNLOAD, Fresh
  <2>2. FInit => Init
    BY DEF FInit
  <2> QED
    BY <2>1, <2>2, FInitType
<1>2. FTypeOK /\ LoadedVarsAreResident /\ [FNext]_fvars
      => FTypeOK' /\ LoadedVarsAreResident'
  BY FNextKeeps
<1> QED
  BY <1>1, <1>2, PTL DEF FSpec
=============================================================================
