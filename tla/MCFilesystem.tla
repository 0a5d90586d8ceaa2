---------------------------- MODULE MCFilesystem ----------------------------
(***************************************************************************)
(* Sessions of the filesystem layer for TLC.                               *)
(***************************************************************************)
EXTENDS Programs

R == INSTANCE Requirements

MCModules == R!IrxModules
MCNames == DriverNames
MCKeepsDepError == {d \in MCNames : Driver[d].keepsDepError}
OneThread  == {"main"}
TwoThreads == {"main", "poweroff"}
MCScripts     == [t \in OneThread |-> {}]
MCTwoScripts  == [t \in TwoThreads |-> {}]
MCFailedRets == {-1, 0}
MCOneRet     == {0}
NoneStaged   == {{}}

\* A program started from path, that stages the modules of the requirements and
\* then runs the scripts; the modules that the machine does not load, and those
\* that the IOP may refuse to unload.
Session(path, requirements, scripts, bad) ==
    [path |-> path, staged |-> R!expand_requirements(requirements),
     scripts |-> scripts, bad |-> bad, keeps |-> {}, checks |-> FALSE,
     button |-> FALSE, exact |-> FALSE]

\* With the power button, and an IOP that may refuse to unload the modules that
\* every other call goes through.
WithButton(sessions) ==
    {[s EXCEPT !.button = TRUE, !.keeps = {"iomanX", "fileXio"}] : s \in sessions}

\* On an IOP that may refuse to unload one of the modules.
Keeping(sessions, modules) == {[s EXCEPT !.keeps = {m}] : s \in sessions, m \in modules}

\* Looking at what the calls answer.
Checking(s) == [s EXCEPT !.checks = TRUE]

\* Meant to use exactly what they stage.
Exactly(sessions) == {[s EXCEPT !.exact = TRUE] : s \in sessions}

\* At most one module of the machine does not load.
AtMostOne(modules) == {{}} \cup {{m} : m \in modules}

Shared == {"bdm", "sio2man", "fileXio"}

Twice(init, deinit) == <<init, deinit, "restage", init, deinit>>

HddModules == R!BitModules["HDD"]

\* Launch directories: a partition, spelled both ways, with and without a
\* directory, and a path of the HDD that names no partition; the root of each
\* other device; and the directory of no device.
Partition == <<"hdd0", "__common", "pfs", "/app/">>
HddPaths  == {Partition, <<"hdd", "__common", "pfs", "">>, <<"hdd0", "/app/">>}
RootPaths == {rootDevicePath(d) : d \in BootDevices \ HddCases}
Host      == rootDevicePath("HOST")

FsAll == R!FilesystemAll

-----------------------------------------------------------------------------
(* The sessions.                                                           *)

\* The layer for the boot device, after ps2_drivers_img_stage_for_boot_device().
BootSession(p) == Session(p, R!requirements_for_path(p, {}), <<"init_boot">>, {})

BootSessions ==
    {BootSession(p) : p \in HddPaths} \cup Exactly({BootSession(p) : p \in RootPaths})

HddTwice(init, b) == Session(Partition, FsAll, Twice(init, "deinit_hdd"), b)

\* Up and down twice, staged again in between.
TwiceSessions ==
    {Session(p, R!requirements_for_path(p, {}), Twice("init_boot", "deinit_boot"), b) :
        p \in RootPaths, b \in AtMostOne(Shared \cup {"iomanX"})}
    \cup {HddTwice("init_hdd_always", b) : b \in AtMostOne(HddModules)}
    \cup Keeping({HddTwice("init_hdd_always", {})}, HddModules)
    \cup {HddTwice("init_hdd", b) : b \in AtMostOne({"fileXio", "ps2dev9", "ps2fs"})}

\* The sessions that the power button may end.  The boot partition, up and down;
\* the program that unmounts in its callback, with its partition and by hand; the
\* full layer.
ButtonSessions ==
    {Session(Partition, FsAll, Twice("init_boot", "deinit_boot"), b) :
        b \in AtMostOne(HddModules)}
    \cup
    {Session(Partition, FsAll, <<"init_listdir", "exit_listdir">>, b) :
        b \in AtMostOne({"ps2atad", "ps2fs", "sio2man"})}
    \cup {Session(Host, FsAll, <<"init_default", "exit_default">>, {})}
    \cup {Session(Partition, FsAll, <<"init_all", "deinit_all">>, {})}

\* A program that asks for its drivers and its partition a second time.
AgainSession ==
    Session(Partition, FsAll, <<"init_listdir", "init_listdir", "exit_listdir">>, {})

\* irximg_sample
JoystickSession(b) ==
    Checking(Session(Host, {"JOYSTICK"},
                     <<"joystick", "deinit_joystick", "restage", "joystick">>, b))

\* network_ee_sample, when the configuration has failed
NetworkSession(b) == Session(Host, {"EEIP"}, <<"eeip", "deinit_network">>, b)

\* The other programs of samples/, and everything up and down after
\* _stage_for_all_filesystems().
ProgramSessions ==
    {Session(p, FsAll, <<"init_hdd", "deinit_hdd">>, b) :
        p \in HddPaths, b \in AtMostOne(HddModules)}
    \cup
    {Session(p, FsAll \cup {"JOYSTICK", "AUDIO"},
             <<"init_alldrivers", "deinit_alldrivers">>, b) :
        p \in {Partition, Host}, b \in AtMostOne({"sio2man", "fileXio"})}
    \cup
    {AgainSession} \cup Exactly({JoystickSession({})})
    \cup {JoystickSession({m}) : m \in {"sio2man", "padman"}}
    \cup {NetworkSession(b) : b \in AtMostOne({"ps2dev9", "smap"})}
    \cup {Session(Host, {"POWEROFF"}, <<"poweroff_main">>, {})}
    \cup {Session(p, FsAll, <<"init_all", "deinit_all">>, b) :
             p \in HddPaths \cup {Host}, b \in AtMostOne(Shared)}

\* The requirement bit of a driver (ps2_drivers_img.h).
Bit ==
    [ sio2man |-> "SIO2MAN", fileXio |-> "FILEXIO", memcard |-> "MEMCARD",
      bdm |-> "BDM", usbd |-> "USBD", usb |-> "USB", mx4sio |-> "MX4SIO",
      cdfs |-> "CDFS", dev9 |-> "DEV9", hdd |-> "HDD",
      joystick |-> "JOYSTICK", audio |-> "AUDIO", poweroff |-> "POWEROFF",
      mouse |-> "MOUSE", keyboard |-> "KEYBOARD", camera |-> "CAMERA",
      netman |-> "NETMAN", smap |-> "SMAP", eeip |-> "EEIP",
      iopip |-> "IOPIP" ]

\* Each driver after staging its own bit.
DriverSessions == Exactly({Session(Host, {Bit[d]}, <<d>>, {}) : d \in DriverNames})

MCSessions ==
    BootSessions \cup TwiceSessions \cup WithButton(ButtonSessions)
    \cup ProgramSessions \cup DriverSessions

\* The sample: the boot partition up and down once, without faults, with the
\* modules embedded.
MCBootHddSessions == {Session(Partition, {}, <<"init_boot", "deinit_boot">>, {})}

\* Everything, up and down once, on a machine without faults, embedded.
MCHangSessions ==
    {Session(p, {}, <<"init_all", "deinit_all">>, {}) :
        p \in {Partition, rootDevicePath("MC0")}}

MCStagedSets == {s.staged : s \in MCSessions}
=============================================================================
