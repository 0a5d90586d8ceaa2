------------------------------ MODULE Programs ------------------------------
(***************************************************************************)
(* Programs over the filesystem layer: what can be read off a program's    *)
(* scripts and what it stages, and what the layer promises such a program. *)
(***************************************************************************)
EXTENDS Filesystem

RunsIn(s, name) == \E i \in 1 .. Len(s.scripts) : s.scripts[i] = name
Runs(name) == RunsIn(session, name)

\* The scripts that mount the launch directory, and those of the programs that do
\* not, which take the HDD modules down without unmounting it.
MountScripts == {"init_all", "init_boot", "init_hdd", "init_hdd_always", "init_listdir"}
BareScripts  == {"deinit_alldrivers", "exit_default"}

\* A program that uses none of the latter after the former, nor the two that
\* lose what is mounted: the layer for the boot device taken down by itself, and
\* the default mount point of listdir_sample.
UnmountsItself(s) ==
    /\ ~RunsIn(s, "deinit_boot") /\ ~RunsIn(s, "init_default")
    /\ (\E name \in MountScripts : RunsIn(s, name)) =>
          \A name \in BareScripts : ~RunsIn(s, name)

-----------------------------------------------------------------------------
(* What a program stages and what it asks.                                 *)

\* The directories it may be in, and what a script may be when it begins.
Dirs(s) == {s.path} \cup IF HasMountInfo(s.path) THEN {NewCwd(s.path)} ELSE {}

MayCall(s, i) ==
    IF s.scripts[i] = "restage" THEN {} ELSE {ScriptFrom(s.scripts[i], d) : d \in Dirs(s)}

Args(call, op) == {o.arg : o \in {p \in OpsIn(call) : p.op = op}}
Tries(call)    == {o.of : o \in {p \in OpsIn(call) : p.op = "try"}}

\* By a script: the same, and the modules that are unloaded whatever fails.
ArgsBy(calls, op)  == UNION {Args(calls[k], op) : k \in 1 .. Len(calls)}
TriesBy(calls)     == UNION {Tries(calls[k]) : k \in 1 .. Len(calls)}
SureUnloads(calls) ==
    UNION {Args(calls[k], "unload") : k \in {l \in 1 .. Len(calls) : Tries(calls[l]) = {}}}

\* The scripts i to j of one staging.
OneStaging(s, i, j) == \A k \in i .. j : s.scripts[k] # "restage"

\* No module is loaded after it was unloaded.
NoReload(calls) ==
    \A l \in 1 .. Len(calls) : \A k \in 1 .. l :
       Args(calls[k], "unload") \cap Args(calls[l], "load") = {}

\* A driver whose init stopped at a check is not said to be OK by a later call.
NoSecondEnd(calls) ==
    /\ TriesBy(calls) \subseteq Names
    /\ \A l \in 1 .. Len(calls) : \A k \in 1 .. l - 1 :
          Tries(calls[k]) \cap Args(calls[l], "end") = {}

\* All that is loaded is staged, and no module is loaded again before the next
\* staging once it was unloaded.
StagesWhatItLoads(s) ==
    \A i \in 1 .. Len(s.scripts) : \A c \in MayCall(s, i) :
       /\ ArgsBy(c, "load") \subseteq s.staged /\ NoReload(c)
       /\ \A j \in i + 1 .. Len(s.scripts) : OneStaging(s, i, j) =>
             \A e \in MayCall(s, j) : ArgsBy(c, "unload") \cap ArgsBy(e, "load") = {}

\* Each staging is loaded to the last module.
LoadsWhatItStages(s) ==
    \A r \in 0 .. Len(s.scripts) : r = 0 \/ s.scripts[r] = "restage" =>
       \A m \in s.staged : \E i \in r + 1 .. Len(s.scripts) :
          OneStaging(s, r + 1, i) /\ \A c \in MayCall(s, i) : m \in ArgsBy(c, "load")

\* What is loaded is unloaded before the next staging.
UnloadsBeforeStaging(s) ==
    \A r \in 1 .. Len(s.scripts) : s.scripts[r] = "restage" =>
       \A i \in 1 .. r - 1 : OneStaging(s, i, r - 1) =>
          \A c \in MayCall(s, i) : \A m \in ArgsBy(c, "load") :
             \E j \in i + 1 .. r - 1 : \A e \in MayCall(s, j) : m \in SureUnloads(e)

ChecksOnce(s) ==
    \A i \in 1 .. Len(s.scripts) : \A c \in MayCall(s, i) :
       /\ NoSecondEnd(c)
       /\ \A j \in i + 1 .. Len(s.scripts) : OneStaging(s, i, j) =>
             \A e \in MayCall(s, j) : TriesBy(c) \cap ArgsBy(e, "end") = {}

\* A program that uses exactly what it stages, on a machine without faults.
Exact(s) ==
    /\ s.bad = {} /\ s.keeps = {} /\ ~s.button
    /\ StagesWhatItLoads(s) /\ LoadsWhatItStages(s)
    /\ UnloadsBeforeStaging(s) /\ ChecksOnce(s)

-----------------------------------------------------------------------------
(* Properties.                                                             *)

\* Until the button is pressed.
MountedBySelf == mounted # {} /\ power = "on" /\ UnmountsItself(session)

\* A program that mounts its launch directory, but not through the layer for the
\* boot device, unmounts it before the modules that serve it go: also the full
\* layer, and also when the mount or a load failed on the way.
OthersMountedHasStack == MountedBySelf => HddStack \subseteq iop

\* What is mounted is what the next umount_current_hdd_partition() names, also
\* when a second mount was tried meanwhile: getMountInfo() writes __mountString
\* before the mount, which fails, and __mount_status stays.
MountIsRecorded == MountedBySelf => mount_status /\ mounted = {mountString}

\* On an IOP that unloads what it is asked to, no program hands it a module that
\* it has, whatever failed before: a start routine would run a second time.
NoneLoadedTwice ==
    power = "on" /\ session.keeps = {} =>
       \A t \in Threads : At(t, "exec", "load") => Here(t).arg \notin iop

\* The requirement tables of the provider and the calls of the drivers agree, as
\* both are written: every program stages what its scripts load, and the programs
\* said to be exact load all of it.
TablesAgree ==
    todo = session.scripts =>
       StagesWhatItLoads(session) /\ (session.exact => Exact(session))

\* And as they run, for every driver, boot device and program: a module that a
\* call misses is one it has already handed to the IOP, which refused it.
StagedCoversInit ==
    [][\A t \in Threads :
          ExecNotStaged(t) => Here(t).arg \in session.bad \cup iop]_fvars

\* Nothing that was staged for a boot device stays in memory once its drivers
\* are all up (docs/EXTERNAL_IRX_IMAGE_RUNTIME.md).
StagedReturnsToZero == Finished /\ NoError => staged = {}

\* So it is for every launch directory but those of the HDD, for every driver
\* after its own bit, and for the sample that takes its driver down and stages a
\* second time.
OthersReturnToZero == Finished /\ NoError /\ session.exact => staged = {}

\* The script that the application is at, and whether it has run before.
Script == session.scripts[Len(session.scripts) - Len(todo)]
RanBefore(name) ==
    \E i \in 1 .. Len(session.scripts) - Len(todo) - 1 : session.scripts[i] = name

\* The calls that may enter the DDIOC_OFF loop with nobody to answer it: the
\* deinit of the full layer, which takes fileXio down first; that of the network
\* drivers, which never load it; and deinit_hdd_driver(true) a second time, when
\* the status of dev9 is that of the first round, because the second init was
\* refused for the working directory, or stopped at fileXio or ps2dev9.
MayNotReturn ==
    \/ Script \in {"deinit_all", "deinit_network"}
    \/ /\ Script = "deinit_hdd" /\ RanBefore("deinit_hdd")
       /\ Runs("init_hdd") \/ (session.bad \cup session.keeps) \cap DevctlNeeds # {}

\* Every other call of a program returns, whatever failed before in that program,
\* with and without the power button.
OthersReturn ==
    (Active("main") /\ ~MayNotReturn) ~> (~Active("main") \/ power = "off")
=============================================================================
