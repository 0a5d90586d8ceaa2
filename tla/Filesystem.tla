----------------------------- MODULE Filesystem -----------------------------
(***************************************************************************)
(* The filesystem layer, ps2_filesystem_driver.c, with the mounting of the *)
(* boot partition of ps2_hdd_driver.c, over the drivers.                   *)
(*                                                                         *)
(* The application's thread runs the scripts of its session in order.  The *)
(* power button makes the poweroff thread run the registered callback in   *)
(* between.  A script is computed when it begins, which is when the code   *)
(* calls getcwd(); its steps are those of Drivers, and "env" operations    *)
(* for what the layer does itself.                                         *)
(***************************************************************************)
EXTENDS Drivers, LaunchPath, Samples

CONSTANTS
    Sessions     \* what the application runs, and on which machine

\* What ScriptOf() knows, and the drivers by their name.
ScriptNames ==
    {"init_all", "deinit_all", "init_boot", "deinit_boot", "init_hdd",
     "init_hdd_always", "deinit_hdd", "init_alldrivers", "deinit_alldrivers",
     "init_listdir", "exit_listdir", "init_default", "exit_default",
     "poweroff_main", "deinit_joystick", "deinit_network", "restage"} \cup DriverNames

\* The layer's own operations, and its check, in what it asks of the drivers.
LayerNames ==
    {"mount_hdd_partition", "umount_hdd_partition",
     "mount_current_hdd_partition", "umount_current_hdd_partition",
     "poweroffSetCallback", "poweroffSetCallback_boot",
     "poweroffSetCallback_listdir", "poweroffSetCallback_default",
     "poweroffShutdown", "waitUntilDeviceIsReady", "cwd_is_hdd"}

\* The operands of the driver table are modules (deinit_eeip_driver(false), which
\* does nothing, is not called here); the launch directories are such
\* that the assertion of str_split() holds; and a directory of two parts has no
\* three tokens, which is so for any path.
ASSUME FilesystemAssumption ==
    /\ "main" \in Threads /\ Threads \subseteq {"main", "poweroff"}
    /\ Names = DriverNames /\ LayerNames \subseteq STRING
    /\ \A d \in DriverNames, deps \in BOOLEAN :
          /\ InitCall(d, deps) \in Calls
          /\ d # "eeip" \/ deps => DeinitCall(d, deps) \in Calls
    /\ \A s \in Sessions :
          /\ s.staged \in StagedSets /\ s.scripts \in Seq(ScriptNames)
          /\ getBootDeviceID(s.path) \in {"HDD", "HDD0"} => AsCounted(s.path)
          /\ HasMountInfo(s.path) => ~HasMountInfo(NewCwd(s.path))

VARIABLES
    session,       \* path, staged, scripts, bad, keeps, checks, button, exact (constant)
    todo,          \* the scripts the application has still to run
    cwd,           \* the working directory: session.path, until it is changed
    mount_status,  \* __mount_status = HDD_MOUNT_STATUS_OK
    mountString,   \* __mountString, without its colon; "" when cleared
    mounted,       \* the mount points that the IOP has
    callback,      \* the callback poweroffSetCallback() has registered
    power          \* "on", "pressed", "off"

hddvars == <<cwd, mount_status, mountString, mounted>>
mvars == <<hddvars, callback>>
fvars == <<vars, session, todo, mvars, power>>

-----------------------------------------------------------------------------
(* What the layer asks of the drivers.                                     *)

\* Slip (a repair of one half only): the boot device is remembered.
boot_device_id_Assigned == getBootDeviceID(session.path)

\* __boot_device_id is never assigned: init_only_boot_ps2_filesystem_driver()
\* has a local variable of nearly the same name.
boot_device_id == "UNKNOWN"

cwd_is_hdd == has_device_prefix(cwd, "HDD") \/ has_device_prefix(cwd, "HDD0")

\* The cases of the two switches.
McCases   == {"MC0", "MC1"}
CdfsCases == {"CDROM", "CDFS"}
MassCases == {"MASS", "MASS0", "MASS1", "MX4SIO", "MX4SIO0", "MX4SIO1"}
HddCases  == {"HDD", "HDD0"}

\* The call in the third line is init_mx4sio_driver(): no driver is taken down.
internal_deinit_ps2_filesystem_driver(powerOff) ==
    << DeinitCall("hdd", FALSE), DeinitCall("cdfs", FALSE),
       InitCall("mx4sio", FALSE), DeinitCall("usb", TRUE),
       DeinitCall("memcard", TRUE), DeinitCall("fileXio", FALSE),
       DeinitCall("dev9", FALSE) >>
    \o (IF powerOff THEN <<DeinitCall("poweroff", FALSE)>> ELSE << >>)

deinit_ps2_filesystem_driver ==
    <<EnvCall("umount_current_hdd_partition")>>
       \o internal_deinit_ps2_filesystem_driver(TRUE)

init_ps2_filesystem_driver ==
    << InitCall("poweroff", FALSE), InitCall("fileXio", FALSE),
       InitCall("memcard", TRUE), InitCall("usb", TRUE),
       InitCall("mx4sio", FALSE), InitCall("cdfs", FALSE),
       InitCall("dev9", FALSE), InitHddCall(FALSE, TRUE),
       EnvCall("poweroffSetCallback"), EnvCall("mount_current_hdd_partition"),
       EnvCall("waitUntilDeviceIsReady") >>

internal_deinit_only_boot_ps2_filesystem_driver(powerOff) ==
    (CASE boot_device_id \in McCases   -> <<DeinitCall("memcard", TRUE)>>
       [] boot_device_id \in CdfsCases -> <<DeinitCall("cdfs", FALSE)>>
       [] boot_device_id \in MassCases ->
             <<DeinitCall("usb", TRUE), DeinitCall("mx4sio", TRUE)>>
       [] boot_device_id \in HddCases ->
             <<DeinitCall("hdd", FALSE), DeinitCall("dev9", FALSE)>>
                \o (IF powerOff THEN <<DeinitCall("poweroff", FALSE)>> ELSE << >>)
       [] OTHER -> << >>)
    \o <<DeinitCall("fileXio", FALSE)>>

deinit_only_boot_ps2_filesystem_driver ==
    (IF boot_device_id \in HddCases THEN <<EnvCall("umount_current_hdd_partition")>>
                                    ELSE << >>)
       \o internal_deinit_only_boot_ps2_filesystem_driver(TRUE)

init_only_boot_ps2_filesystem_driver(device) ==
    <<InitCall("fileXio", FALSE)>>
    \o (CASE device \in McCases   -> <<InitCall("memcard", TRUE)>>
          [] device \in CdfsCases -> <<InitCall("cdfs", FALSE)>>
          [] device \in MassCases -> <<InitCall("usb", TRUE), InitCall("mx4sio", TRUE)>>
          [] device \in HddCases  ->
                << InitCall("poweroff", FALSE), InitCall("dev9", FALSE),
                   InitHddCall(FALSE, FALSE),
                   EnvCall("poweroffSetCallback_boot"),
                   EnvCall("mount_current_hdd_partition") >>
          [] OTHER -> << >>)
    \o <<EnvCall("waitUntilDeviceIsReady")>>

poweroffHandler(kind) ==
    (CASE kind = "boot" -> internal_deinit_only_boot_ps2_filesystem_driver(FALSE)
       [] kind = "all"  -> internal_deinit_ps2_filesystem_driver(FALSE)
       [] kind = "listdir" ->
             listdir_prepare_for_exit("umount_current_hdd_partition", FALSE)
       [] kind = "listdir_default" ->
             listdir_prepare_for_exit("umount_hdd_partition", FALSE))
       \o <<EnvCall("poweroffShutdown")>>

\* What the application may call: the two pairs of the layer, what the samples
\* do, and the init of one driver with those it needs.
ScriptFrom(name, dir) ==
    CASE name = "init_all"    -> init_ps2_filesystem_driver
      [] name = "deinit_all"  -> deinit_ps2_filesystem_driver
      [] name = "init_boot"   -> init_only_boot_ps2_filesystem_driver(getBootDeviceID(dir))
      [] name = "deinit_boot" -> deinit_only_boot_ps2_filesystem_driver
      [] name = "init_hdd"    -> hdd_init_drivers(TRUE)
      [] name = "init_hdd_always" -> hdd_init_drivers(FALSE)
      [] name = "deinit_hdd"  -> hdd_deinit_drivers
      [] name = "init_alldrivers"   -> alldrivers_init_drivers
      [] name = "deinit_alldrivers" -> alldrivers_deinit_drivers
      [] name = "init_listdir" ->
            listdir_init_drivers("mount_current_hdd_partition", "poweroffSetCallback_listdir")
      [] name = "exit_listdir" ->
            listdir_prepare_for_exit("umount_current_hdd_partition", TRUE)
      [] name = "init_default" ->
            listdir_init_drivers("mount_hdd_partition", "poweroffSetCallback_default")
      [] name = "exit_default" -> listdir_prepare_for_exit("umount_hdd_partition", TRUE)
      [] name = "poweroff_main" -> poweroff_main
      [] name = "deinit_joystick" -> <<DeinitCall("joystick", TRUE)>>
      [] name = "deinit_network"  -> <<DeinitCall("eeip", TRUE)>>
      [] OTHER                -> <<InitCall(name, TRUE)>>

ScriptOf(name) == ScriptFrom(name, cwd)

-----------------------------------------------------------------------------
(* The layer's own operations.                                             *)

\* What fileXioMount() and fileXioUmount() of a pfs partition need on the IOP.
HddStack == {"iomanX", "fileXio", "ps2atad", "ps2hdd", "ps2fs"}

OpsIn(call) == {call[i] : i \in 1 .. Len(call)}

TakesStack(o) == o.op = "unload" /\ o.arg \in HddStack

\* What the driver table holds, by evaluation: an init unloads nothing, no driver
\* makes a step of the layer, and who shares no module with the HDD takes none.
ASSUME StackTableAssumption ==
    \A d \in DriverNames, deps \in BOOLEAN :
       /\ \A o \in OpsIn(InitCall(d, deps)) : o.op \notin {"unload", "env"}
       /\ \A o \in OpsIn(DeinitCall(d, deps)) :
             o.op # "env" /\ (d \in {"joystick", "poweroff", "eeip"} => ~TakesStack(o))

\* fileXioMount() of a partition that is not mounted, which may fail.
FioMount(point) ==
    /\ HddStack \subseteq iop /\ point \notin mounted
    /\ mounted' = mounted \cup {point}

\* "pfs:", the default mount point of listdir_sample.
Default == "pfs"

mount_hdd_partition ==
    /\ \/ UNCHANGED mounted
       \/ status["hdd"] = "ok" /\ FioMount(Default)
    /\ UNCHANGED <<cwd, mount_status, mountString, callback, power>>

\* Slip: the mount is not recorded, as mount_hdd_partition() does not.
Mounted_NoStatus ==
    /\ FioMount(MountString(cwd))
    /\ cwd' \in {cwd, NewCwd(cwd)}
    /\ UNCHANGED mount_status

\* The answer of chdir() is not looked at.
Mounted ==
    /\ FioMount(MountString(cwd))
    /\ cwd' \in {cwd, NewCwd(cwd)}
    /\ mount_status' = TRUE

\* Slip: a mount that fails takes back the string.
mount_current_hdd_partition_Clears ==
    /\ IF status["hdd"] = "ok" /\ cwd_is_hdd /\ HasMountInfo(cwd)
       THEN \/ mountString' = "" /\ UNCHANGED <<cwd, mounted, mount_status>>
            \/ mountString' = MountString(cwd) /\ Mounted
       ELSE UNCHANGED hddvars
    /\ UNCHANGED <<callback, power>>

\* getMountInfo() writes __mountString before the mount is tried.
mount_current_hdd_partition ==
    /\ IF status["hdd"] = "ok" /\ cwd_is_hdd /\ HasMountInfo(cwd)
       THEN /\ mountString' = MountString(cwd)
            /\ UNCHANGED <<cwd, mounted, mount_status>> \/ Mounted
       ELSE UNCHANGED hddvars
    /\ UNCHANGED <<callback, power>>

umount_hdd_partition(point) ==
    /\ IF mount_status
       THEN /\ mounted' = IF HddStack \subseteq iop THEN mounted \ {point} ELSE mounted
            /\ mount_status' = FALSE /\ mountString' = ""
       ELSE UNCHANGED <<mounted, mount_status, mountString>>
    /\ UNCHANGED <<cwd, callback, power>>

umount_current_hdd_partition == umount_hdd_partition(mountString)

poweroffSetCallback(kind) == callback' = kind /\ UNCHANGED <<hddvars, power>>

poweroffShutdown == power' = "off" /\ UNCHANGED mvars

\* waitUntilDeviceIsReady() tries a bounded number of times and changes nothing.
Environment(x) ==
    \/ x = "mount_hdd_partition" /\ mount_hdd_partition
    \/ x = "umount_hdd_partition" /\ umount_hdd_partition(Default)
    \/ x = "mount_current_hdd_partition" /\ mount_current_hdd_partition
    \/ x = "umount_current_hdd_partition" /\ umount_current_hdd_partition
    \/ x = "poweroffSetCallback" /\ poweroffSetCallback("all")
    \/ x = "poweroffSetCallback_boot" /\ poweroffSetCallback("boot")
    \/ x = "poweroffSetCallback_listdir" /\ poweroffSetCallback("listdir")
    \/ x = "poweroffSetCallback_default" /\ poweroffSetCallback("listdir_default")
    \/ x = "poweroffShutdown" /\ poweroffShutdown
    \/ x = "waitUntilDeviceIsReady" /\ UNCHANGED <<mvars, power>>

EnvStep(t) ==
    /\ Active(t) /\ Here(t).op = "env"
    /\ Run(t)
    /\ Environment(Here(t).arg)

\* The checks whose answer the state determines: an HDD that answers is asked
\* through fileXio and ps2hdd.
Passes(x) ==
    /\ x = "cwd_is_hdd" => cwd_is_hdd
    /\ x = "hddCheck" => {"iomanX", "fileXio", "ps2hdd"} \subseteq iop

MayFail(x) == x = "cwd_is_hdd" => ~cwd_is_hdd

\* The IOP has refused to unload.
Refused(t) == irx[Here(t).arg].id >= 0 /\ Here(t).arg \in iop'

\* A load fails when the machine's device is bad, or the module is resident.
DriverStep(t) ==
    /\ \/ LoadCheck(t) \/ ExecNotStaged(t)
       \/ Active(t) /\ Here(t).arg \in session.bad \cup iop /\ ExecFails(t)
       \/ Active(t) /\ Here(t).arg \notin session.bad /\ ExecStays(t)
       \/ UnloadCheck(t)
       \/ SifUnloadModule(t) /\ (Refused(t) => Here(t).arg \in session.keeps)
       \/ RESET_IRX_VARS(t)
       \/ Active(t) /\ Passes(Here(t).arg) /\ TryPasses(t)
       \/ Active(t) /\ MayFail(Here(t).arg) /\ TryFails(t)
       \/ Active(t) /\ Here(t).op = "run" /\ Run(t)
       \/ End(t) \/ OffCheck(t) \/ OffLoop(t)
    /\ UNCHANGED <<mvars, power>>

FStep(t) ==
    /\ power # "off"
    /\ EnvStep(t) \/ DriverStep(t)
    /\ UNCHANGED <<session, todo>>

-----------------------------------------------------------------------------
(* The application and the power button.                                   *)

StartCalls(t, calls) ==
    /\ ~Active(t)
    /\ job' = [job EXCEPT ![t] = [calls |-> calls, at |-> "next"]]
    /\ UNCHANGED <<irx, status, iop, staged>>

NoError == \A d \in Names : status[d] # "error"

\* A program that looks at what an init answers goes on only when all is well.
GoesOn == power # "off" /\ todo # << >> /\ (session.checks => NoError)

NextScript ==
    /\ GoesOn /\ Head(todo) # "restage"
    /\ StartCalls("main", ScriptOf(Head(todo)))
    /\ todo' = Tail(todo)
    /\ UNCHANGED <<session, mvars, power>>

\* ps2_drivers_img_restage_last(), which is refused while a payload is left, and
\* may fail; the program then ends.  irximg_sample calls it as it is, the
\* programs that do not look at the answers of their inits after
\* ps2_drivers_img_discard_staged().
Restage ==
    /\ GoesOn /\ Head(todo) = "restage" /\ ~Active("main")
    /\ LET left == IF session.checks THEN staged ELSE {}
       IN  \/ left = {} /\ staged' = session.staged /\ todo' = Tail(todo)
           \/ staged' = left /\ todo' = << >>
    /\ UNCHANGED <<irx, status, iop, job, session, mvars, power>>

\* irximg_sample returns when an init has failed.
Return ==
    /\ power # "off" /\ todo # << >> /\ ~Active("main")
    /\ session.checks /\ ~NoError
    /\ todo' = << >>
    /\ UNCHANGED <<vars, session, mvars, power>>

\* POWEROFF.IRX wakes the thread that poweroffInit() has made.
Press ==
    /\ session.button /\ "poweroff" \in Threads /\ power = "on"
    /\ callback # "none" /\ "poweroff" \in iop
    /\ StartCalls("poweroff", poweroffHandler(callback))
    /\ power' = "pressed"
    /\ UNCHANGED <<session, todo, mvars>>

Finished == todo = << >> /\ ~Active("main")

\* The machine is off, or the application has nothing more to ask.
Stop == (power = "off" \/ Finished) /\ UNCHANGED fvars

FInit ==
    /\ Init
    /\ session \in Sessions
    /\ staged = session.staged /\ todo = session.scripts
    /\ cwd = session.path /\ mount_status = FALSE /\ mountString = "" /\ mounted = {}
    /\ callback = "none" /\ power = "on"

FNext == (\E t \in Threads : FStep(t)) \/ NextScript \/ Restage \/ Return \/ Press \/ Stop

\* Each thread is scheduled again and again: a driver call waits for the IOP,
\* which lets the other threads run.
Fairness == \A t \in Threads : WF_fvars(FStep(t))

FSpec == FInit /\ [][FNext]_fvars /\ Fairness

-----------------------------------------------------------------------------
(* Properties.                                                             *)

\* While the boot partition is mounted and the machine is on, the modules that
\* serve it are resident: no deinit of the layer, of the HDD driver or of a
\* driver it shares modules with takes them away under an open filesystem.
MountedHasStack == mounted # {} /\ power = "on" => HddStack \subseteq iop

\* Every init and deinit call the application makes returns: the DDIOC_OFF loop
\* of deinit_dev9_driver() is always answered.
Returns == Active("main") ~> (~Active("main") \/ power = "off")

\* A press of the power button turns the machine off, whatever the application
\* is doing: the callback's own driver calls all return.  Not so the callback of
\* the full layer, which takes fileXio down before the DDIOC_OFF loop.
PowersOff == (power = "pressed" /\ callback # "all") ~> (power = "off")
=============================================================================
