# A TLA+ model of ps2_drivers

`ps2_drivers` is a C library for the PlayStation 2. An application on the main
processor (EE) calls it to bring drivers up and down. Each driver is one or more
IRX modules that the EE hands to the I/O processor (IOP), and sometimes an EE
library that talks to them. This directory holds TLA+ modules of the library,
the TLC configurations that check them, and theorems checked by TLAPS.

Line references are to the files under the repository root. The `map` of
`PROJECT.json` gives the lines of every definition.

## 1. Inventory

| Component | State | Operations | Modelled in |
|---|---|---|---|
| IRX bookkeeping macros, `include/irx_common_macros.h` | `__<irx>_id`, `__<irx>_ret` of each module | `CHECK_IRX_LOAD`, `_ERR`, `_UNLOAD`, `RESET_IRX_VARS` | `Drivers` |
| Module executors, `src/ps2_irx_module_*.c` | none (embedded); the staged set (image) | `ps2_irx_exec` | `Drivers`, `ImageStaging` |
| 17 peripheral, storage and transport drivers, `src/ps2_*_driver.c` | `__<d>_init_status` | `init_*_driver`, `deinit_*_driver` | `DriverTable`, `Drivers` |
| Network drivers, `ps2_eeip_driver.c`, `ps2_iopip_driver.c` | the same, and the interface: address, DHCP, link | the same, `configure_*_network`, `*_get_current_config` | `DriverTable`, `NetConfig` |
| HDD driver, `ps2_hdd_driver.c` | the same, `__mount_status`, `__mountString`, the working directory | the same, `mount_current_hdd_partition`, `umount_current_hdd_partition`, `mount_hdd_partition`, `umount_hdd_partition` | `DriverTable`, `LaunchPath`, `Filesystem` |
| Filesystem layer, `ps2_filesystem_driver.c` | `__boot_device_id`, the registered power callback | two init/deinit pairs, two power callbacks, `waitUntilDeviceIsReady` | `Filesystem` |
| Boot device, `ps2_boot_device.c` | none | `getBootDeviceID`, `rootDevicePath`, ... | `LaunchPath`, `Requirements` |
| External IRX image provider, `ps2_drivers_img.c` | `g_staged_modules`, `_capacity`, `_count`, `_bytes`, `g_image_path`, `g_last_requirements`, the heap | seven staging and two restaging calls, `discard`, `forget_source`, get/release; the checks of a file | `ImageStaging`, `StagingContract`, `Requirements`, `ImageFormat` |
| Image packer and validator, `tools/ps2_irximg.c` | the image file on the host | pack, validate | `ImageFormat` |
| Samples, `samples/` | none | the driver calls of six programs | `Samples`, `MCFilesystem` |
| Stage test, network test scripts, build files | | | not modelled |

**How they interact.** An init call runs the init of the drivers it needs, loads
its modules one by one through `ps2_irx_exec()`, and starts its EE library. The
executor is chosen at link time: embedded payloads, or payloads that the
application staged from an image file before the call. The image executor
releases a payload once it is handed over, whatever the IOP answers. The
drivers and the provider share nothing but the staged payloads. The filesystem
layer makes a fixed list of driver calls, mounts the boot partition, and
registers a callback that the power-off thread runs when the button is pressed;
that callback makes driver calls of its own.

**What is hard here.**

* *Partial failure.* An init can stop after its first module stayed, or with
  every module up and the library down. A staging can fail at a dozen points,
  each with different things to free.
* *Sharing without counting.* `sio2man`, `usbd`, `bdm`, `fileXio` and `dev9`
  serve several drivers, and any of those may take them down.
* *Stale state.* `id`, `ret`, the statuses, `__mount_status` and
  `__boot_device_id` outlive what they describe, or are never set.
* *Order.* `deinit_dev9_driver()` asks through fileXio in a loop without an
  end; unloading fileXio first makes it the last call the program makes.
* *Two threads.* Every RPC to the IOP blocks and lets another thread run; the
  power callback may start inside any driver call.
* *Waiting.* The network calls poll once a second for a link and a lease that come
  and go as they like, and give up at a time that the caller chose.
* *Files.* An image is written once and read by two programs with checks of their own,
  in arithmetic that wraps; it may be torn, stale or damaged.
* *Tables that agree by hand.* What the provider stages for a driver, and what
  the driver loads, are written in two files.

**What makes each component correct.** *Macros and drivers:* variables that say "loaded" are
those of a resident module; a resident module is one its driver can unload and will not load
again; needs come first; OK accounts for the driver's modules. *Filesystem layer:* every call
returns, but for three kinds that are named; the button turns the machine off, unless the
callback is that of the full layer; the partition is never mounted without the modules that
serve it. *Provider:* nothing leaks or is freed twice; the counters are those of the slots; a
failed call changes nothing; a payload is executed at most once per staging; `restage_last()`
repeats the request of the last success, and no other. *Tables:* the staged set covers what the
init calls load, and nothing stays behind. *Network configuration:* OK means that the link was
up and, when a lease was asked for, that one was bound or that the DHCP client was never seen at
work, which the code takes for a lease too; a timeout misses at most the last second and comes
when it was asked for; the events end at the step the answer names; a static address stays.
*Image file:* what the packer answers for, both readers accept, or the provider refuses it whole
when it is too large for a long of the console; a torn file is refused; a validated image is the
one its manifest describes, byte for byte.

The `hazards` of `PROJECT.json` list these at their lines, with the property
that covers each, or the reason why none does yet.

## 2. Modules

```
LaunchPath        boot device of a path, and the mount it describes
Requirements      static tables of the provider            (over LaunchPath)
StagingContract   what the provider promises         <--- implemented by
ImageStaging      the provider, step by step, with the heap ---/
ImageFormat       the image file: packer, damage, validator, the provider's checks
DriverTable       each driver as data: operations, needs, releases
Samples           the driver calls of the sample programs  (over DriverTable)
Drivers           threads that interpret calls over id, ret, statuses, IOP
DriverCalls       Drivers whose scripts are calls of DriverTable, and what these promise
ImageDrivers      DriverCalls + an application that stages and discards
Filesystem        Drivers + Samples + LaunchPath + the layer, mounts, power button
Programs          what a program stages and asks, and what Filesystem promises it
NetConfig         configuring either network stack over a changing network
MC*               constants for TLC          *_proofs   theorems
```

### ImageStaging, StagingContract

One step per point where `stage_from_path()` can fail, so that what it has
allocated so far is visible; `pc` is the point. `heap` is the set of live blocks.
`ptr` gives, by name, the pointers the code holds: the globals `path`
(`g_image_path`) and `modules` (`g_staged_modules`), the locals `copy` (the
caller's path copy), `file`, `table` (raw entry table), `entries` and `staged`.
`gSlots`, `gCapacity`, `gCount`, `gBytes`, `gLast` are the other globals. The
entry table of an image is a function from identifiers to sizes chosen among
`Images` when the table is read; short reads, malformed headers, bad checksums and
failed allocations are nondeterministic outcomes at their steps. Requirement
words are sets of bits, and `BadReq` stands for any bit outside the known mask.

`StagingContract` says what each call promises: it has the staged set, the remembered
source and the last request, and, of the call made last, what it asked for and what it
answered. A staging call that runs has changed nothing yet; `Refuse` is an error, which changes
nothing at all; `Succeed` stages the whole set of what the call was about (`Image`, `Word`:
of `restage_last()` the remembered path and the word of the last success) and remembers
that. The refinement mapping takes the staged set to be the identifiers of
the slots that hold a payload, the call from the history variable `asked`, which each entry
point sets to what the application passed, and the answer from `result`, which the code
returns.

### DriverTable, Drivers

All the drivers have one shape, so a driver is a record: its own operations up
and down, the drivers it needs, the order it releases them in, and whether it
stores a dependency's error. The comment of `DriverTable` lists the operations.
`Drivers` interprets them:

| Variable | Code |
|---|---|
| `irx[m].id`, `.ret` | `__m_id`, `__m_ret`; an id is an IOP error, none (-1), or a module's id; `ret` is 1 for `MODULE_NO_RESIDENT_END` |
| `status[d]` | `__d_init_status`, as "unknown", "error" or "ok" |
| `iop` | the modules resident on the IOP (external) |
| `staged` | the payloads of the image provider |
| `job[t]` | what thread t has still to do, and where its head operation is |

`LoadCheck`, then one of `ExecNotStaged`, `ExecFails`, `ExecStays`, are
`loadIRXs()`; `UnloadCheck`, `SifUnloadModule`, `RESET_IRX_VARS` are
`unloadIRXs()`; `TryPasses`, `TryFails`, `Run` are EE library calls; `OffCheck`
and `OffLoop` are the loop of `deinit_dev9_driver()`. The test of the variables,
the RPC and the reset are separate steps, so that other threads run in between.

### DriverCalls

`Drivers` knows nothing of the table. `DriverCalls` says that the scripts are calls of it,
and states what depends on that: what an OK accounts for, that needs come first, and
who answers the DDIOC_OFF loop. Its second assumption is about the table alone:
in every init call each of a driver's modules is loaded before its `end`, with
`init_dependencies` those of the drivers it needs come before its own, and no init
unloads. TLC evaluates it for all the calls of the twenty drivers.

### ImageDrivers

`DriverCalls` with `ImageFlavor`, and an application that stages, restages and discards between
its driver calls. Of the provider the drivers see the staged set only, and what a success and a
discard do to it is what `StagingContract` says; that the provider does so is the refinement of
`ImageStaging`. `refused` is a history variable: the modules whose last execution the IOP
refused. `MissingIsRetried` and `NeverExecutesResident` are about the two ways in which staged
set and variables can disagree: a payload that was not there when its module was
asked for, and one that is there again although its module is resident.

### LaunchPath, Samples, Filesystem

A launch path is the sequence of its parts between colons, which is all that
`getBootDeviceID()`, `str_split()` and `getMountInfo()` tell apart. The assertion at the end of
`str_split()` compares the number of colons with the number of tokens; the paths for
which it holds are `AsCounted`, and that launch directories on the HDD are such is an
assumption of `Filesystem`.

A session says where the program was started (`path`), what it stages, the scripts it runs
(`scripts`), which modules the machine does not load (`bad`), which the IOP may refuse to unload
(`keeps`), whether the program looks at what its init calls answer (`checks`), whether there is
a power button, and whether it uses exactly what it stages (`exact`). A script is one call of
the layer, one driver init, or the init or exit function of a sample program; it is a list of
driver calls and `env` operations, computed when it begins, which is when the code calls
`getcwd()`. `"restage"` is `ps2_drivers_img_restage_last()`: it is refused while a payload is
left, and may fail, and the program then ends. `irximg_sample` calls it as it is, and returns
when an init has failed (`Return`); the sessions that do not look at answers discard what is
left first. `Press` starts the registered callback in the power-off thread.

| Variable | Code |
|---|---|
| `cwd` | the working directory, changed by `mount_current_hdd_partition()` |
| `mount_status`, `mountString` | `__mount_status` is OK, `__mountString` |
| `mounted` | the mount points the IOP has (external) |
| `callback`, `power` | what `poweroffSetCallback()` was given; the machine |

Where the model's state determines the answer of a check (`cwd_is_hdd`, `hddCheck()` when its
modules are absent), `Passes` and `MayFail` say so; other checks may pass or fail.
`mount_current_hdd_partition()` and `mount_hdd_partition()` differ as in the code: only
the first records its mount, and only a recorded mount is ever unmounted.

### Programs

A program is a session; `Programs` says what can be read off its scripts without running them.
`Args`, `Tries` and `SureUnloads` collect the operands of the calls of a script, in each
directory in which it may begin (`Dirs`). From these, `StagesWhatItLoads` compares what the
tables of the provider stage with what the driver calls load, and `Exact` adds that all of it is
loaded, that it is unloaded before the next staging, and that no driver whose check failed is
reported as up later. `TablesAgree` evaluates these for each session, and is therefore what a
change of either table violates first. `StagedCoversInit` and `OthersReturnToZero` say what
follows when the program runs; the theorems of section 4 show that it does follow, for every
program. `UnmountsItself` names the programs that `OthersMountedHasStack` and `MountIsRecorded`
are about.

### NetConfig

One step per call that the code makes; `pc` says where the call is, and a wait is a check and,
if that fails, a sleep. `stack` chooses between `configure_eeip_network()` and its twin, which
has no `ps2ipInit()` and no lease. Link, lease and readability of the interface change between
any two steps. Four history variables say what an observer knows: for how long link and lease
have held, how long the present wait has lasted, and what was the case since the call applied
its configuration (`had`): the link up, a lease bound and readable, the client asking for one.
`Leased` is not the guard of the code: `dhcp_is_bound()` accepts a client that has not started
as well. They count seconds, in `usleep` and while the application does something else, up to
`Long`.

### ImageFormat

The packer's steps are those of `pack_image()`: manifest, one payload at a time with the cursor
that wraps, open, header with table and padding, one payload with its zeros at a time, close.
Writes go through a buffer, so one that fails may leave any first part of what was written.
`written` counts the payloads written. A file is a header, a table and a body of cells, and a
length: the actions `*Changes` cut it or change one place of it after a packing that succeeded.
`validate_image` and `stage_module` are the two readers, as operators over a file. `Word` is the
size of a word; `HostLongMax` and `EELongMax` are the largest longs where the tool and the
provider run, since both take a file's size from `ftell()`. The sizes of the run are chosen at a
word and at a long of the console.

### What the models abstract

* The stores of `id` and `ret` after an RPC are one step, and so are the two of
  `RESET_IRX_VARS`: there is no RPC between them.
* The many error statuses of a driver are one, "error". The intermediate
  `..._IRX_OK` status is not visible: it is overwritten before the call returns,
  and no other function reads it.
* An EE library is a call that passes or fails.
* The IOP (external) refuses a module that is already resident, an IOP that may
  refuse to unload is `MayRefuse`, and a `fileXioDevctl("dev9x:")` is answered when
  iomanX, fileXio and ps2dev9 are resident.
* `waitUntilDeviceIsReady()` tries a bounded number of times and changes nothing.
* The provider's calls are made by one thread, as its header asks for; its byte
  layout and checksum are outcomes, not computations.
* Of an address by hand, only one of the three words is kept; a link mode is "auto" or
  another. The lease of the external DHCP client needs the link, may be lost with it or
  without it, and a client that was just enabled may not have started (`"off"`).
* `ftell()` answers -1 for a file whose size is no long (external).
* A checksum never collides. The six header fields that are compared with constants are
  one, `fixed`. A manifest line that does not parse is one whose number is 0. A file
  whose packing failed is not shipped.
* `chdir()` after a mount may fail, `fileXioUmount()` succeeds when its modules are
  resident: no file is open then.
* A message the library prints is not modelled.

## 3. Runs

| Run | Question | Bounds | Distinct states |
|---|---|---|---|
| `image_staging` | heap, counters, remembered source, and the contract call by call, for every sequence of provider calls | 3 bits, 5 modules, 4 images (2 incomplete), 2 paths, 10 heap blocks | 187,444 |
| `driver_calls` | one thread, any sequence of calls over a shared sio2man | the 5 modules of sio2man, memcard, joystick; every outcome of a load | 1,720,441 |
| `driver_threads` | two threads over a shared usbd, an IOP that may refuse to unload | 2 modules, 4 calls per thread, repeated | 196,479 |
| `driver_off` | who answers the loop of `deinit_dev9_driver()`, round after round | 3 modules, any part of them staged once; fileXio up first and down last | 9,726 |
| `image_drivers` | drivers over staged payloads, staging again between calls: is a missing module retried, a resident one left alone | 2 bits, 3 modules, 1 image | 87,565 |
| `filesystem` | do the calls return; does the button work; is a mounted partition served, and named by the variables; is a module ever loaded over itself; is what is staged what is loaded; do the variables tell the truth | 200 sessions: 14 launch directories and 3 on the HDD, 20 drivers, the programs; at most one bad module; button and callback at any moment of 15 sessions | 757,482 |
| `net_config` | what OK, a timeout, the events and the reported address mean | 7 configurations, 2 stacks, waits of 1 and 2 seconds | 28,561 |
| `image_format` | packed, torn, damaged and stale images, at the boundaries of a word and of a long | 9 manifests, 9 sizes, words of 7 bits, longs of the console of 6 bits and a sign, one change | 275,923 |
| `image_retry`, `image_leftover`, `filesystem_hang`, `boot_unmount` | the four findings of section 5 | | violations |

**Why the bounds are enough.** *Heap:* 10 blocks are what a staging of five modules that
replaces a remembered path holds at its peak, so success and exhaustion both happen; the image
sizes have pairwise different subset sums, so a wrong byte count shows. *Drivers:* a call
touches only the modules of its driver and of those it needs, and every need in the table is of
depth one, so two drivers above a shared one show every kind of sharing. `ret` values are -1 and
0 after a failed load and 0 and 2 after one that stays, the values the macros tell apart. No
counter needs a bound. *Sessions:* where all the payloads are there, the layer, the HDD driver
and the boot devices go up and down twice, because stale state shows in the second round. At
most one module is bad per session, so that a violation has one cause. In the filesystem runs a
module that stays answers 0. *Network:* a wait of one second shows the last check, one of two a
check before it; three seconds are "long". Calls may be repeated for ever. *Image:* sizes of the
format divided by four keep its alignment; 7 bits make a payload reach the end of a word, and 6
the end of a long, as on the console, where a long is half as wide as the format allows; two
modules and a third that the provider has no number for show order and lookup; the sizes put the
end of the image at the last unit that a long can say (44) and behind it (46), the end of a
payload on the last before the sum wraps (108 alone, 44 and 54 together) and behind it (110
alone; 102 before another, 46 and 54 together); the host's long is wider than a word; one change
at each place, with each value.

**What the properties of `filesystem` leave out.** Each exclusion is in the formula, and the
sessions contain the case that it excludes: without it TLC finds a violation.

* `OthersReturn` leaves out the calls of `MayNotReturn`, which enter the DDIOC_OFF loop of
  `deinit_dev9_driver()` with nobody to answer: `deinit_ps2_filesystem_driver()`, which is the
  run `filesystem_hang`; `deinit_network_driver(true)` of the network samples, which take dev9
  down and never load fileXio; and a second `deinit_hdd_driver(true)` in one program, in two
  cases. With `hdd_sample`'s own init the mount of the first round has changed the directory, so
  that the second init finds it wrong and loads nothing, and with any init iomanX, fileXio or
  ps2dev9 may have failed to load, or the IOP may have refused to unload one of them, which the
  second init then skips or is refused. In both cases the status of dev9 is still the OK of the
  first round.
* `PowersOff` leaves out the power callback of the full layer
  (`callback = "all"`): like the deinit it takes fileXio down before the loop
  (`src/ps2_filesystem_driver.c:33-34`), so that the machine stays on. One session with a button
  runs the full layer. The callbacks for the boot device and of `listdir_sample` are covered.
* `OthersMountedHasStack` and `MountIsRecorded` leave out the deinit for the boot device, which is
  `boot_unmount`; `listdir_sample` with its partition by hand, whose mount is not recorded
  (`src/ps2_hdd_driver.c:180`); and programs that mount the launch directory but end as
  `alldrivers_sample` does, which has nothing to unmount.
* They and `NoneLoadedTwice` speak of the time before the button is pressed: the callback
  for the boot device is the finding's, and two threads that load the same module are a race
  that the library leaves to the application. `NoneLoadedTwice` is about an IOP that unloads what it
  is asked to.
* `OthersReturnToZero` leaves out the HDD as boot device, which is `image_leftover`; it is about
  the `exact` sessions: every other launch directory, every driver after its own bit, and the
  sample that stages a second time.

**Fairness.** `Filesystem` assumes weak fairness of `FStep(t)` for each thread: a thread
that can take a step is scheduled in the end. The code justifies it, since every
operation is a blocking RPC or a short computation between two, and a blocked thread
lets the other run. Nothing is assumed of `NextScript`, `Press`, or of which outcome a load
or a library call has: the application may stop asking, and the button may never be
pressed. `Stop` lets a finished session stutter, so that TLC still reports real
deadlocks. `OffLoop` repeats a failed devctl without progress, which is the code's loop.
`NetConfig` assumes weak fairness of the caller, which computes or sleeps for a second;
nothing is assumed of the network. `ImageFormat` has no liveness and no fairness: a packer
ends, and its run has no deadlock check for that reason.

The callback for the boot device unloads fileXio only, because `__boot_device_id` is
never assigned. Assigning it without changing the order of the calls would make
the callback wait for dev9; the mutant of `PowersOff` is that half repair.

## 4. Proofs

| Module | Theorem | Statement |
|---|---|---|
| `ImageStaging_proofs` | `TypeCorrect`, `HeapSafe`, `CountersExact`, `SourceKept`, `BytesCounted` | the five invariants of `ImageStaging`, for any images, requests and heap |
| | `Implements` | `Spec => Contract`: what each call asked, answered, changed and remembered |
| `Drivers_proofs` | `TypeCorrect` | types, for any scripts, threads and answers of the IOP |
| | `VariablesTrue` | `Spec => []LoadedVarsAreResident`: any number of threads, an IOP that may refuse |
| | `SingleThreadKnows` | one thread, an IOP that unloads: `Spec => []ResidentIsKnown` |
| `DriverCalls_proofs` | `OkAccounts` | one thread, any calls of the table: `Spec => OkAccountsForModules` |
| | `DependenciesFirst` | one thread, inits with `init_dependencies`: `Spec => []NeedsFirst` |
| | `OffIsAnswered` | one thread, fileXio and dev9 brought up before each loop: `Spec => []OffAnswered` |
| `ImageDrivers_proofs` | `MissingRetried` | one thread: `ISpec => MissingIsRetried` |
| | `ResidentStaysStaged` | one thread, an IOP that unloads: `ISpec => NeverExecutesResident` |
| `Filesystem_proofs` | `LayerTypeCorrect`, `LayerVariablesTrue` | `FSpec => []TypeOK` and `FSpec => []LoadedVarsAreResident`, for any sessions, with the power callback and with modules staged again |
| `Programs_proofs` | `MountedStaysServed`, `MountRecordTrue` | `FSpec => []OthersMountedHasStack` and `FSpec => []MountIsRecorded`, for any sessions |
| | `LoadedOnce` | `FSpec => []NoneLoadedTwice`, for any sessions |
| | `StagedUntilPressed`, `StagedCovers` | `FSpec => StagedCoversInit`, for sessions that stage what their scripts load (`StagesWhatItLoads`): before the button is pressed, and without the button |
| | `ReturnsToZero` | `FSpec => []OthersReturnToZero`, for sessions whose `exact` is true of them (`Exact`) |
| `NetConfig_proofs` | `TypeCorrect`, `OkIsEarned`, `StaticStays`, `ToldIsPrefix` | four invariants of `NetConfig`, for any configurations and timeouts |
| | `TimeoutMissesLastSecond`, `WaitsExactly` | its two action properties |
| `ImageFormat_proofs` | `TypeCorrect`, `AcceptedIsExact`, `StagedIsExact`, `PackedGood`, `TornIsRefused` | the five invariants of `ImageFormat`, for any width of a word and of both longs, alignment, manifests, sizes and number of changes |

The assumptions are the named `ASSUME`s of the modules: they type the constants, make
the set of identifiers finite, keep `NULL` apart, and state what the whole driver table holds,
which has no parameter and is evaluated by TLC. The theorems for one thread, for an IOP that
unloads and for scripts of a kind have these premises in their statement;
`MCScriptsAssumption` checks that the scripts of the runs are of that kind.

*ImageStaging.* None of the invariants is inductive: that a failing step frees
exactly what is live needs to know which pointers are set at each `pc`. `CallInv`
says that, and that the globals hold no staging while a call is past its checks.
`LoopInv` ties the loop's `index`, `todo` and `slots`: the slots below `index`
are filled, one for each identifier taken from `todo`, so that `index` stays inside
the array and the number of payloads at the end is the number of identifiers
requested. Each error path is an instance of one lemma, `FailKeeps`. `BytesCounted` counts the bytes
of an array as a set of pairs of a slot and a byte, so that the sum needs no recursion:
a slot that is filled adds as many pairs as its size, one that is released takes them
away, and the invariant `BytesInv` says so of the local array as well. `Implements`
follows from the invariant, entry point by entry point: a call either is refused at once, or
starts and then goes through steps that leave the mapped variables alone until it fails, which
leaves them too, or commits. That what it commits is what was asked for needs the invariant
to say which path and word the call carries (`arg`) for each operation (`asked`), for
`restage_last()` those that are remembered.

*Drivers.* Most steps change no `irx` variable and no resident module; what remains
changes one module's. For `LoadedVarsAreResident` that is enough together with
types, whatever the other threads do, since a thread between `SifUnloadModule`
and `RESET_IRX_VARS` is what `Resetting` speaks of. `ResidentIsKnown` is not
inductive: a second strengthening says that the only thread, when it is about to
execute, does so with fresh variables, hence with the module not resident, and
when it is about to reset, that the module is gone.

`ResidentStaysStaged` uses the same strengthening: a module that is about to be executed
has fresh variables, so it is not resident, and no other step takes a payload. `MissingRetried` adds
that a module which is given up was refused by the IOP: `ExecNotStaged` leaves its variables
fresh, and a fresh module is one that the next init tries.

*Driver calls.* What a call promises depends on what it has done and what is left of it. `Due`
is about the rest of the call: each module it still speaks of is accounted for, or an operation
in front loads it, and no unload comes before. A load that is passed makes its module accounted
for, and `AccountedStays` shows that only an unload takes that away: a module that is executed
has fresh variables, so it had not been given up. For the loop of dev9 the plan goes over the
calls that are left (`OffPlanned`): before each loop the driver is settled now and nothing will
unload it, or an init of it is still to come. An init that ends settles its driver, since OK
accounts for its modules, and so does one that fails, since it stores the error. That is why
statuses of an earlier round cannot mislead the loop.

*Filesystem.* Every step of the two threads is a step of `Drivers`, so what a step keeps there it
keeps here. What is new is that calls begin: that the scripts of `ScriptOf` and the
callbacks of `poweroffHandler` are sequences of calls is shown function by function, and the
callback is one of four because only the four registrations write it. The assumption
says that the driver table's operands are modules, which TLC evaluates for the whole table.

*Programs.* Until the button is pressed the application's thread is alone (`AloneInv`), so what it
has tested still holds when it acts.

For the mounts, what matters of a call is its kind: whether it takes a module of `HddStack`
away, and whether it mounts. The inductive invariant `OnInv` says that while something is
mounted the stack is resident and the variables name the mount (`Recorded`), and what the calls
that are left are (`Plan`): they take nothing of the stack, or they mount nothing and the
unmount of the directory comes first. That each script is of its kind is shown script by script,
from `StackTableAssumption`, which says of the driver table that an init unloads nothing and
that no driver makes a step of the layer; TLC evaluates it for all the calls. A mount that fails
writes `__mountString` all the same, and `Recorded` survives since the program has only one
directory to mount: the assumption on launch directories says that the directory that a mount
leads to names no partition.

`LoadedOnce` carries the invariant of `Drivers` for one thread over to the layer: an IOP that keeps
nothing unloads what it is asked to, and calls that begin, or a staging, change no module.

For the staging theorems the calls that are left are compared with the scripts ahead, up to the
next staging. `PlaceInv` says which script of the session comes next and that the working
directory is one of `Dirs`, so that a script that begins is one of those that `MayCall` has
looked at. `Supplied` is the invariant behind `StagedCovers`: what is left to load is staged,
resident, or refused by the machine, and nothing that is unloaded is loaded later. `ExactInv` is
the one behind `ReturnsToZero`. It says that a staged module is neither resident nor known to
the variables (`FreshInv`), so that its load is not skipped; that all that is resident or still
to be loaded will be unloaded before the next staging (`WillUnload`), so that the next staging
finds an empty IOP; and that each staged payload is still to be loaded (`WillLoad`), unless a
check failed, in which case a driver's status is an error that no call ahead overwrites
(`ErrorStays`). `LeftWithin`, `WithinArgs` and `LeftSure` are the lemmas about what is left of a
script after one operation; they hold for any calls.

The two premises are about the sessions alone and have no state in them. `TablesAgree` is an
invariant of the run `filesystem`, which evaluates both for all its 200 sessions, those with a
button included.

*NetConfig.* The counter of a wait is not enough to know how long the caller slept, nor for how
long the link has held. The inductive invariant `Inv` ties them: within a wait, `waited` is
`retry` up to `Long`, and at any check but the first the link or the lease has held for less
than two seconds, because it was seen down at the check before. `had` has what the present call
has seen since it applied its configuration: the link once that wait is over, and a client that
is off in a wait was never seen at work (`TryInv`), since no lease goes back to that state. For
`StaticStays` it says that past the write of a static address the interface has that address and
no DHCP client. For `ToldIsPrefix` it gives, for each `pc` and each answer, how many events have
been told.

*ImageFormat.* The inductive invariant has four layers. `TypeInv` has the type of the file and
what is not there yet at each `pc`. `SealInv` says what the seals say whatever happened to the
file: a checksum is that of the manifest or the payload, or was changed into one that covers
nothing; an identifier is the manifest's unless one was changed. `AcceptedIsExact` and
`StagedIsExact` follow, since a reader accepts only bytes with that checksum. `PlaceInv` has the
offsets: each place is the aligned end of the payload before it, and as long as no sum has
wrapped (`Straight`) the places ascend. `LayoutInv` is about a file that was only cut: its
header and table are those that were written, and the body ends at the next place with each
payload laid at its own, or behind what a word can say (`Follows`). From it, a file that is
whole and fits passes both readers where their longs can measure it, and one that is cut or does
not fit has a header that tells another length. `AlignUp` is the lemma about words that these
rest on: `align_up_u32` is the least aligned word not below its argument, or 0 if there is none.
The payloads are laid end to end by `WritePayload`, one at a time, so that the proof about the
whole body is an induction over steps, and needs none over data. `Least` finds the first bad
entry, by the well-founded order of the naturals.

*Only model-checked.* Liveness (`Returns`, `OthersReturn`, `PowersOff`), which is out of TLAPS's
reach here. `TablesAgree` compares the concrete tables of the provider with those of the
drivers: there is no parameter that a proof would free, and TLC evaluates it for every launch
directory, driver and program.

## 5. Findings

* **`filesystem_hang`**. `deinit_ps2_filesystem_driver()` unloads fileXio before it
  calls `deinit_dev9_driver()` (`src/ps2_filesystem_driver.c:33`), which repeats
  `fileXioDevctl("dev9x:", DDIOC_OFF, ...)` until it is answered. The HDD driver
  releases them in the order that works.
* **`boot_unmount`**. `__boot_device_id` is never assigned. After an HDD boot,
  `deinit_only_boot_ps2_filesystem_driver()` unloads fileXio under the mounted
  partition and takes nothing else down.
* **`image_retry`**. A load that failed with a `ret` other than -1, or with an id other
  than -1, leaves variables that `CHECK_IRX_LOAD` does not accept: the next init skips
  the module and answers OK, where the documentation expects a retry.
* **`image_leftover`**. For an HDD boot the provider stages `bdm` and `bdmfs_fatfs`;
  the init for that device loads neither. They stay in memory, and the next staging is
  refused.

## 6. What is not modelled

* The text of a manifest line, the usage message and the inspection table of the host tool.
* The network, input and audio samples: their driver calls are those of the modelled
  ones, the rest is traffic or drawing of their own.
* The stage test of the host tool: it drives the provider; its scenarios are among
  those of `image_staging`.
* Test scripts for the network, build files: no state of the library.

## 7. Plan

Done: the provider with its contract and proofs; the drivers with proofs; their composition;
the launch path, the layer, the mounts, the samples and the power button, with the
drivers' invariants lifted to them; the network configuration with proofs; the image file with
proofs; what the calls of the driver table promise, with proofs.

What a program over the layer may rely on, with proofs: mounts, loads and stagings.

Next:

1. `ImageStaging` reading the files of `ImageFormat` instead of its own nondeterministic
   outcomes, so that the two are one refinement.
2. The network drivers' deinit in `driver_off`, once the library says who loads fileXio
   for `deinit_dev9_driver()`.
3. `StagedCoversInit` with the power-off thread running as well: the callback of the full layer
   loads MX4SIO, which the application may be loading too.
