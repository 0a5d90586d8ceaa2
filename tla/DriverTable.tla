---------------------------- MODULE DriverTable ----------------------------
(***************************************************************************)
(* What each driver of src/ does, in order.  Every driver is the same      *)
(* pattern: initialise the drivers it needs, load its IRX modules, start   *)
(* its EE library; and backwards to take it down.  A driver is therefore   *)
(* data: two sequences of <<operation, operand>> and two of drivers.       *)
(*                                                                         *)
(*   load m    if CHECK_IRX_LOAD(m), ps2_irx_exec(m); if then              *)
(*             CHECK_IRX_ERR(m), the call returns an error                 *)
(*   unload m  if CHECK_IRX_UNLOAD(m), SifUnloadModule() and RESET         *)
(*   try x     an EE call or a check that may fail, which ends the call    *)
(*   run x     an EE call whose answer is not looked at                    *)
(*   off x     the DDIOC_OFF loop of deinit_dev9_driver()                  *)
(*   env x     a step on state that is not a driver's                      *)
(*   end d     the driver d stores its status OK                           *)
(*                                                                         *)
(* keepsDepError: an error of a dependency is also stored in the driver's  *)
(* own status; the other drivers return it and leave their status alone.   *)
(***************************************************************************)
EXTENDS Naturals, Sequences, SequencesExt

OneModule(m) ==
    [init |-> << <<"load", m>> >>, deinit |-> << <<"unload", m>> >>,
     needs |-> << >>, releases |-> << >>, keepsDepError |-> FALSE]

sio2man_driver == OneModule("sio2man")
usbd_driver    == OneModule("usbd")
cdfs_driver    == OneModule("cdfs")
smap_driver    == OneModule("smap")

dev9_driver ==
    [OneModule("ps2dev9") EXCEPT
        !.deinit = << <<"off", "dev9x">>, <<"unload", "ps2dev9">> >>]

poweroff_driver ==
    [OneModule("poweroff") EXCEPT
        !.init = << <<"load", "poweroff">>, <<"try", "poweroffInit">> >>]

netman_driver ==
    [OneModule("netman") EXCEPT
        !.init   = << <<"load", "netman">>, <<"try", "NetManInit">> >>,
        !.deinit = << <<"run", "NetManDeinit">>, <<"unload", "netman">> >>]

bdm_driver ==
    [OneModule("bdm") EXCEPT
        !.init   = << <<"load", "bdm">>, <<"load", "bdmfs_fatfs">> >>,
        !.deinit = << <<"unload", "bdmfs_fatfs">>, <<"unload", "bdm">> >>]

fileXio_driver ==
    [OneModule("fileXio") EXCEPT
        !.init   = << <<"load", "iomanX">>, <<"load", "fileXio">>,
                      <<"run", "fileXioInit">> >>,
        !.deinit = << <<"run", "fileXioExit">>, <<"unload", "fileXio">>,
                      <<"unload", "iomanX">> >>]

audio_driver ==
    [OneModule("audsrv") EXCEPT
        !.init   = << <<"load", "libsd">>, <<"load", "audsrv">>,
                      <<"try", "audsrv_init">> >>,
        !.deinit = << <<"run", "audsrv_quit">>, <<"unload", "audsrv">>,
                      <<"unload", "libsd">> >>]

memcard_driver ==
    [init |-> << <<"load", "mcman">>, <<"load", "mcserv">> >>,
     deinit |-> << <<"unload", "mcman">>, <<"unload", "mcserv">> >>,
     needs |-> <<"sio2man">>, releases |-> <<"sio2man">>,
     keepsDepError |-> FALSE]

joystick_driver ==
    [init |-> << <<"load", "mtapman">>, <<"load", "padman">>,
                 <<"try", "mtapInit">>, <<"try", "padInit">> >>,
     deinit |-> << <<"run", "padEnd">>, <<"unload", "mtapman">>,
                   <<"unload", "padman">> >>,
     needs |-> <<"sio2man">>, releases |-> <<"sio2man">>,
     keepsDepError |-> FALSE]

usb_driver ==
    [OneModule("usbmass_bd") EXCEPT
        !.needs = <<"bdm", "usbd">>, !.releases = <<"usbd", "bdm">>]

mx4sio_driver ==
    [OneModule("mx4sio_bd") EXCEPT
        !.init  = << <<"try", "isCOP2Pipelined">>, <<"load", "mx4sio_bd">> >>,
        !.needs = <<"sio2man", "bdm">>, !.releases = <<"bdm", "sio2man">>]

mouse_driver ==
    [init |-> << <<"load", "ps2mouse">>, <<"try", "PS2MouseInit">>,
                 <<"run", "PS2MouseReset">> >>,
     deinit |-> << <<"unload", "ps2mouse">> >>,
     needs |-> <<"usbd">>, releases |-> <<"usbd">>, keepsDepError |-> TRUE]

camera_driver ==
    [init |-> << <<"load", "ps2cam">>, <<"try", "PS2CamInit">> >>,
     deinit |-> << <<"unload", "ps2cam">> >>,
     needs |-> <<"usbd">>, releases |-> <<"usbd">>, keepsDepError |-> TRUE]

keyboard_driver ==
    [init |-> << <<"load", "ps2kbd">>, <<"try", "PS2KbdInit">> >>,
     deinit |-> << <<"run", "PS2KbdClose">>, <<"unload", "ps2kbd">> >>,
     needs |-> <<"usbd">>, releases |-> <<"usbd">>, keepsDepError |-> TRUE]

eeip_driver ==
    [init |-> << >>, deinit |-> << >>,
     needs |-> <<"dev9", "netman", "smap">>,
     releases |-> <<"smap", "netman", "dev9">>, keepsDepError |-> FALSE]

iopip_driver ==
    [init |-> << <<"load", "ps2ip_nm">>, <<"load", "ps2ips">>,
                 <<"try", "ps2ip_init">> >>,
     deinit |-> << <<"run", "ps2ip_deinit">>, <<"unload", "ps2ips">>,
                   <<"unload", "ps2ip_nm">> >>,
     needs |-> <<"dev9", "netman", "smap">>,
     releases |-> <<"smap", "netman", "dev9">>, keepsDepError |-> FALSE]

\* Slip: fileXio is released before dev9.
hdd_driver_FileXioFirst ==
    [init |-> << <<"load", "ps2atad">>, <<"load", "ps2hdd">>,
                 <<"try", "hddCheck">>, <<"load", "ps2fs">> >>,
     deinit |-> << <<"unload", "ps2fs">>, <<"unload", "ps2hdd">>,
                   <<"unload", "ps2atad">> >>,
     needs |-> <<"fileXio", "dev9", "bdm">>,
     releases |-> <<"bdm", "fileXio", "dev9">>, keepsDepError |-> TRUE]

hdd_driver ==
    [init |-> << <<"load", "ps2atad">>, <<"load", "ps2hdd">>,
                 <<"try", "hddCheck">>, <<"load", "ps2fs">> >>,
     deinit |-> << <<"unload", "ps2fs">>, <<"unload", "ps2hdd">>,
                   <<"unload", "ps2atad">> >>,
     needs |-> <<"fileXio", "dev9", "bdm">>,
     releases |-> <<"bdm", "dev9", "fileXio">>, keepsDepError |-> TRUE]

Driver ==
    [ sio2man |-> sio2man_driver, usbd |-> usbd_driver, cdfs |-> cdfs_driver,
      smap |-> smap_driver, dev9 |-> dev9_driver, poweroff |-> poweroff_driver,
      netman |-> netman_driver, bdm |-> bdm_driver, fileXio |-> fileXio_driver,
      audio |-> audio_driver, memcard |-> memcard_driver,
      joystick |-> joystick_driver, usb |-> usb_driver,
      mx4sio |-> mx4sio_driver, mouse |-> mouse_driver,
      camera |-> camera_driver, keyboard |-> keyboard_driver,
      eeip |-> eeip_driver, iopip |-> iopip_driver, hdd |-> hdd_driver ]

DriverNames == DOMAIN Driver

-----------------------------------------------------------------------------
(* Calls.  An operation carries the driver whose function it is in (of)    *)
(* and the driver the application called (top).                            *)

Tag(d, top, s) ==
    [i \in 1 .. Len(s) |->
        [op |-> s[i][1], arg |-> s[i][2], of |-> d, top |-> top]]

OwnInit(d, top) == Tag(d, top, Append(Driver[d].init, <<"end", d>>))

\* Every needed driver is a leaf: it needs none itself.
Needed(d, deps) ==
    IF deps
    THEN FlattenSeq([i \in 1 .. Len(Driver[d].needs) |-> OwnInit(Driver[d].needs[i], d)])
    ELSE << >>

\* init_<d>_driver(init_dependencies)
InitCall(d, deps) == Needed(d, deps) \o OwnInit(d, d)

\* init_hdd_driver(init_dependencies, only_if_booted_from_hdd): the second
\* parameter adds the check of the working directory.
InitHddCall(deps, onlyIfBooted) ==
    (IF onlyIfBooted THEN Tag("hdd", "hdd", << <<"try", "cwd_is_hdd">> >>) ELSE << >>)
       \o InitCall("hdd", deps)

\* deinit_<d>_driver(deinit_dependencies)
DeinitCall(d, deps) ==
    Tag(d, d, Driver[d].deinit) \o
    (IF deps
     THEN FlattenSeq([i \in 1 .. Len(Driver[d].releases) |->
             Tag(Driver[d].releases[i], d, Driver[Driver[d].releases[i]].deinit)])
     ELSE << >>)

\* A step of the filesystem layer.
EnvCall(x) == Tag("none", "none", << <<"env", x>> >>)

\* The modules a call may load.
LoadsOf(call) == {call[i].arg : i \in {j \in 1 .. Len(call) : call[j].op = "load"}}

OwnModules(d) == LoadsOf(OwnInit(d, d))
=============================================================================
