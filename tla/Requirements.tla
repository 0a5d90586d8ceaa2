---------------------------- MODULE Requirements ----------------------------
(***************************************************************************)
(* The static tables of the image provider (ps2_drivers_img.c,             *)
(* ps2_drivers_img.h): which IRX modules a requirement bit stands for, and *)
(* which bits a boot device needs.  A requirement word is the set of its   *)
(* bits; a module is its name in irx/manifest.txt.                         *)
(***************************************************************************)
EXTENDS LaunchPath

\* irx/manifest.txt: a module's identifier is its position.
Manifest ==
    << "sio2man", "iomanX", "fileXio", "mcman", "mcserv", "bdm",
       "bdmfs_fatfs", "usbd", "usbmass_bd", "mx4sio_bd", "cdfs", "ps2dev9",
       "ps2atad", "ps2hdd", "ps2fs", "mtapman", "padman", "libsd", "audsrv",
       "poweroff", "ps2mouse", "ps2kbd", "ps2cam", "netman", "smap",
       "ps2ip_nm", "ps2ips" >>

IrxModules == {Manifest[i] : i \in 1 .. Len(Manifest)}

\* What each bit marks in expand_requirements().
BitModules ==
    [ SIO2MAN  |-> {"sio2man"},
      FILEXIO  |-> {"iomanX", "fileXio"},
      MEMCARD  |-> {"sio2man", "mcman", "mcserv"},
      BDM      |-> {"bdm", "bdmfs_fatfs"},
      USBD     |-> {"usbd"},
      USB      |-> {"bdm", "bdmfs_fatfs", "usbd", "usbmass_bd"},
      MX4SIO   |-> {"sio2man", "bdm", "bdmfs_fatfs", "mx4sio_bd"},
      CDFS     |-> {"cdfs"},
      DEV9     |-> {"ps2dev9"},
      HDD      |-> {"iomanX", "fileXio", "ps2dev9", "bdm", "bdmfs_fatfs",
                    "ps2atad", "ps2hdd", "ps2fs"},
      JOYSTICK |-> {"sio2man", "mtapman", "padman"},
      AUDIO    |-> {"libsd", "audsrv"},
      POWEROFF |-> {"poweroff"},
      MOUSE    |-> {"usbd", "ps2mouse"},
      KEYBOARD |-> {"usbd", "ps2kbd"},
      CAMERA   |-> {"usbd", "ps2cam"},
      NETMAN   |-> {"netman"},
      SMAP     |-> {"smap"},
      EEIP     |-> {"ps2dev9", "netman", "smap"},
      IOPIP    |-> {"ps2dev9", "netman", "smap", "ps2ip_nm", "ps2ips"} ]

KnownReqs == DOMAIN BitModules

\* expand_requirements(): every module some bit of R marks.
expand_requirements(R) == UNION {BitModules[r] : r \in R}

\* PS2_DRIVER_REQ_FILESYSTEM_ALL
FilesystemAll ==
    {"POWEROFF", "FILEXIO", "MEMCARD", "USB", "MX4SIO", "CDFS", "DEV9", "HDD"}

\* Slip: a mass device may be the MX4SIO card as well.
BootRequirements_UsbOnly ==
    [d \in BootDevices |->
        {"FILEXIO"} \cup
        CASE d \in {"MC0", "MC1"}    -> {"MEMCARD"}
          [] d \in {"CDROM", "CDFS"} -> {"CDFS"}
          [] d \in {"MASS", "MASS0", "MASS1", "MX4SIO", "MX4SIO0", "MX4SIO1"} ->
                {"USB"}
          [] d \in {"HDD", "HDD0"}   -> {"POWEROFF", "HDD"}
          [] OTHER -> {}]

\* Slip: a missing break, MC0 and MC1 fall through to the next case.
BootRequirements_NoBreak ==
    [d \in BootDevices |->
        {"FILEXIO"} \cup
        CASE d \in {"MC0", "MC1"}    -> {"MEMCARD", "CDFS"}
          [] d \in {"CDROM", "CDFS"} -> {"CDFS"}
          [] d \in {"MASS", "MASS0", "MASS1", "MX4SIO", "MX4SIO0", "MX4SIO1"} ->
                {"USB", "MX4SIO"}
          [] d \in {"HDD", "HDD0"}   -> {"POWEROFF", "HDD"}
          [] OTHER -> {}]

\* ps2_drivers_img_requirements_for_boot_device()
BootRequirements ==
    [d \in BootDevices |->
        {"FILEXIO"} \cup
        CASE d \in {"MC0", "MC1"}    -> {"MEMCARD"}
          [] d \in {"CDROM", "CDFS"} -> {"CDFS"}
          [] d \in {"MASS", "MASS0", "MASS1", "MX4SIO", "MX4SIO0", "MX4SIO1"} ->
                {"USB", "MX4SIO"}
          [] d \in {"HDD", "HDD0"}   -> {"POWEROFF", "HDD"}
          [] OTHER -> {}]

\* ps2_drivers_img_requirements_for_path(), for a path that is there and known
\* bits; for_current_boot() passes it the working directory.
requirements_for_path(path, additional) ==
    BootRequirements[getBootDeviceID(path)] \cup additional
=============================================================================
