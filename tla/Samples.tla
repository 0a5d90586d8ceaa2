------------------------------ MODULE Samples ------------------------------
(***************************************************************************)
(* What the programs of samples/ ask of the drivers, in their order.  The  *)
(* programs start with an IOP reset, which is the initial state here.      *)
(***************************************************************************)
EXTENDS DriverTable

\* alldrivers_sample and alldrivers_verbose_sample
alldrivers_init_drivers ==
    << InitCall("fileXio", FALSE), InitCall("memcard", TRUE),
       InitCall("usb", TRUE), InitCall("cdfs", FALSE),
       InitCall("joystick", TRUE), InitCall("audio", FALSE),
       InitCall("poweroff", FALSE), InitHddCall(TRUE, TRUE) >>

alldrivers_deinit_drivers ==
    << DeinitCall("poweroff", FALSE), DeinitCall("audio", FALSE),
       DeinitCall("joystick", FALSE), DeinitCall("usb", FALSE),
       DeinitCall("cdfs", FALSE), DeinitCall("memcard", TRUE),
       DeinitCall("hdd", FALSE), DeinitCall("fileXio", FALSE) >>

\* listdir_sample: as it is built, and with mount_default_partition().
listdir_init_drivers(mount, setCallback) ==
    << InitCall("poweroff", FALSE), InitCall("fileXio", FALSE),
       InitCall("memcard", TRUE), InitCall("usb", TRUE),
       InitHddCall(FALSE, FALSE), EnvCall(setCallback), EnvCall(mount) >>

listdir_deinit_drivers(powerOff) ==
    << DeinitCall("hdd", FALSE), DeinitCall("usb", TRUE),
       DeinitCall("memcard", TRUE), DeinitCall("fileXio", FALSE) >>
    \o (IF powerOff THEN <<DeinitCall("poweroff", FALSE)>> ELSE << >>)

listdir_prepare_for_exit(umount, powerOff) ==
    <<EnvCall(umount)>> \o listdir_deinit_drivers(powerOff)

\* hdd_sample, which passes TRUE
hdd_init_drivers(onlyIfBooted) ==
    <<InitHddCall(TRUE, onlyIfBooted), EnvCall("mount_current_hdd_partition")>>

hdd_deinit_drivers ==
    <<EnvCall("umount_current_hdd_partition"), DeinitCall("hdd", TRUE)>>

\* poweroff_sample
poweroff_main ==
    << InitCall("poweroff", FALSE), DeinitCall("poweroff", FALSE),
       EnvCall("poweroffShutdown") >>
=============================================================================
