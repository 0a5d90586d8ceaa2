----------------------------- MODULE LaunchPath -----------------------------
(***************************************************************************)
(* What the code reads out of the launch directory: which device the       *)
(* program was started from (ps2_boot_device.c), and what to mount when    *)
(* that is a partition of the HDD (getMountInfo() of ps2_hdd_driver.c).    *)
(*                                                                         *)
(* A path is the sequence of its parts between colons, empty ones kept:    *)
(* "hdd0:__common:pfs:/app/" is <<"hdd0", "__common", "pfs", "/app/">>,    *)
(* "mc0:" is <<"mc0", "">>, and a path of n parts has n - 1 colons.        *)
(***************************************************************************)
EXTENDS Naturals, Sequences

\* enum BootDeviceIDs and the DEVICE_ strings, which end in the only colon they
\* have.
Prefix ==
    [ MC0 |-> "mc0", MC1 |-> "mc1", CDROM |-> "cdrom0", CDFS |-> "cdfs",
      MASS |-> "mass", MASS0 |-> "mass0", MASS1 |-> "mass1",
      MX4SIO |-> "mx4sio", MX4SIO0 |-> "mx4sio0", MX4SIO1 |-> "mx4sio1",
      HDD |-> "hdd", HDD0 |-> "hdd0",
      HOST |-> "host", HOST0 |-> "host0", HOST1 |-> "host1" ]

Named       == DOMAIN Prefix
BootDevices == Named \cup {"UNKNOWN"}

has_device_prefix(path, d) == Len(path) > 1 /\ path[1] = Prefix[d]

rootDevicePath(d) == IF d \in Named THEN <<Prefix[d], "/">> ELSE <<"">>

\* The strings all differ: at most one is a prefix, whatever the order of tests.
getBootDeviceID(path) ==
    IF \E d \in Named : has_device_prefix(path, d)
    THEN CHOOSE d \in Named : has_device_prefix(path, d)
    ELSE "UNKNOWN"

-----------------------------------------------------------------------------
\* The tokens of strtok(): the parts that are not empty.
str_split(path) == SelectSeq(path, LAMBDA part : part # "")

\* The assertion at the end of str_split(): as many tokens as were counted, one
\* for each colon and one for what follows the last.
AsCounted(path) ==
    LET trailing == path[Len(path)] = "" /\ Len(path) > 1
    IN  Len(str_split(path)) = (IF trailing THEN Len(path) - 1 ELSE Len(path))

\* "<1>:<2>" is mounted as "<3>:", and the directory is "<3>:<4>".
HasMountInfo(path) == Len(str_split(path)) >= 3
MountString(path)  == str_split(path)[3]
NewCwd(path) ==
    LET items == str_split(path)
    IN  <<items[3], IF Len(items) > 3 THEN items[4] ELSE "">>
=============================================================================
