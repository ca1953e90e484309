# Verification of omnect-os-init

omnect-os-init is the init of an initramfs. On every boot it mounts the
partitions, answers what the boot environment asks for (an update to validate, a
factory reset, a flash mode), tells omnect-device-service (ODS) what happened, and
switches to the root filesystem. It is one sequential process; what makes it hard
is that every step can fail, that the power can go between any two steps, and that
its state lives on in the boot environment, which the bootloader, ODS and the
update agent read and write too. A wrong order of two writes shows only some boots
later.

The modules here therefore model *one device over any number of boots*: each
action is a step of the init, a step of one of the other parties, or the loss of
power.

Line numbers refer to the sources under `src/src/`; `PROJECT.json` maps every
definition to its lines.

## Inventory

| Component | State it keeps | Operations | Hard behaviour | What makes it correct |
| --- | --- | --- | --- | --- |
| `main`, `recovery.rs`, `error.rs` | `UPDATE_PENDING` (process global) | classify an error; reboot, halt or shell | a reboot that returns; errors before the flag is read | a fatal error on a validation boot ends in a rollback; reboots end |
| `lib.rs` `run_init`, `mode/normal.rs` | `OdsStatus`, `BootEnvState` | the steps of a boot, in order | errors captured and propagated later; first-boot steps that fail | first-boot steps run until they succeed and never after an update |
| `bootloader/` | boot environment (grubenv or the U-Boot region), record files on boot | `open_boot_env`, `get_env`, `set_env`, fsck records | writes not yet on the disk; a missing environment (degraded boot) | what is read back is what was written, or an older whole content |
| `init_setup/` | `omnect_extra_bootargs`, the partition table of data | extra bootargs, resize of data | a reboot in the middle of the boot | at most one reboot per change |
| `runtime/omnect_device_service.rs` | trigger files, status file, `update_validation_conf.json` | `create_ods_runtime_files`, `handle_update_validation` | marker, trigger file and flag are three writes | no report is lost, no boot is mistaken for a first one |
| `filesystem/fsck.rs`, `boot_sequence.rs` | `OdsStatus.fsck`, records in the environment or in files | check, persist, drain | boots that end between the steps; torn files | a result is kept until ODS has it, and it is the current one |
| `mode/mod.rs` | none | `BootMode::detect` | two triggers, read errors | a read error never starts a destructive mode |
| `mode/factory_reset/`, `filesystem/reformat.rs` | the trigger, a backup in RAM, `FactoryResetStatus`, `omnect_factory_reset_last_error` | backup, wipe, mkfs, restore | a sequence of destructive steps that goes on past failures | the status is true; nothing is destroyed before its backup; one request, one reset |
| `mode/flash/` | the triggers, the target disk, EFI entries, the files of an upload | clone, upload (scp), download (url), exchange of the boot entries | a half-written disk; retries while a client sends; wrong inputs | only the target changes; a finished run has a complete disk; a partly written disk is never mounted |
| `filesystem/mount.rs`, `overlayfs.rs`, `runtime/fs_link.rs` | the mount table, the upper layer of `/etc`, a one-time link list | mounts, overlays, links | boots that end in the middle of a copy or of the list | `/etc` has its defaults; the list goes only when its links are there |
| `runtime/switch_root.rs` | the mount table | move the mounts, chroot, exec | a move that fails after others | the debug shell keeps its mounts |
| `early_modules/` | loaded kernel modules, the outcome of each | load by dependency order | modules listed twice, in the wrong order, or loaded by the kernel meanwhile | the report names exactly what is missing |
| `partition/` | device paths, the layout, `/dev/omnect` | detection, symlinks | disk names that end in a digit or in `p` | the links name the disk the bootloader started from |
| `config/`, `build.rs` | command line, features, machine constants | parsing | constants that are missing or overflow | refused before anything is written |
| `logging/` | the log | output | none | outside these models |

How they interact: `main` calls `run_init`, which calls the others in a fixed order
and passes `OdsStatus` and the boot environment along; errors travel back by `?` to
`handle_fatal_error`. There are no threads or callbacks that share this state. The
concurrency is between the init, over many boots, and the other users of its state:

- the bootloader starts an update's slot once, and rolls it back when
  `omnect_validate_update` is still set the next time;
- ODS reads `/run/omnect-device-service/`, validates the update and clears the flag;
- the update agent installs an update and sets the flags;
- an operator or the cloud sets `factory-reset` or the flash variables, edits the
  bootargs files and cycles the power; in flash mode 2 the operator's scp clients write
  files while the init waits, reads and cleans up.

`PROJECT.json` lists the hazards, each at its line, with the properties that cover
it.

## Modules

| Module | What it models | Extends |
| --- | --- | --- |
| `RecoveryPolicy` | `recovery_class`, `decide`, the end of `handle_fatal_error` | |
| `BootSequence` | a boot in Normal mode: `main`, `run_init`, `init_setup`, `normal::run`, `handle_update_validation`; bootloader, ODS, update agent | `RecoveryPolicy` |
| `BootSequenceProofs` | theorems about `BootSequence` | `BootSequence` |
| `FsckCheck` | what a run of fsck means: exit codes, the full check, the lenient check | |
| `FsckRecords` | the way of a check result from fsck to the status file | `FsckCheck` |
| `FsckRecordsProofs` | theorems about `FsckCheck` and `FsckRecords` | `FsckRecords` |
| `MCFsckRecords` | the builds and partition lists of its runs | `FsckRecords` |
| `FactoryReset` | a factory reset, the boot it falls through to, the caller | `RecoveryPolicy` |
| `FactoryResetProofs` | theorems about `FactoryReset` | `FactoryReset` |
| `BootMode` | `BootMode::detect_with` and the reading of the flash variables, pure | |
| `FlashRun` | the frame of every flash mode: state, `run_and_persist`, terminal action, EFI entries | `RecoveryPolicy`, `BootMode` |
| `CloneMode`, `ScpMode`, `UrlMode` | flash modes 1, 2 and 3 | `FlashRun`; `UrlMode` through `ScpMode`, whose network and table steps it shares |
| `Flash` | a device with the three modes over any number of boots | `CloneMode`, `UrlMode` |
| `DiskFlash` | abstract specification: what a flash promises | |
| `InductionFacts` | induction over the naturals and the values of a recursion, in the form the proofs use | |
| `BmapProofs` | theorems about the bmap operators of `ScpMode` | `ScpMode`, `InductionFacts` |
| `FlashProofs` | theorems about `Flash` and `BootMode` | `Flash`, `BmapProofs` |
| `FlashRefinement` | `Flash` implements `DiskFlash` | `FlashProofs` |
| `MCFlash` | builds, bmaps, images, partition tables of its runs | `Flash` |
| `Partition` | device names, layouts, `/dev/omnect`, pure | |
| `EarlyModules` | the session of the early modules, pure | |
| `RootHandover` | a normal boot from the empty initramfs to the init of the rootfs | `Partition`, `EarlyModules` |
| `RootHandoverProofs` | theorems about `Partition`, `EarlyModules` and `RootHandover` | `RootHandover`, `InductionFacts` |
| `MCRootHandover` | the images of its run | `RootHandover` |

All share a style. `stage` is the place in the code; an action of the init moves it
on. A call that can fail is a choice over `Fault`, which is only `{FALSE}` once
`calm` is set (`Settle`), so safety is checked with every fault possible at any
time and liveness from the moment faults stop. `stage = "failed"` with the error
stands for a `Result::Err` that has reached `main`; `"off"` is the machine between
two boots (`RootHandover` starts the next boot at once and has no liveness property, so
it has neither `off` nor `calm`); `"halted"` and `"shell"` are the two ways to stop. Variables named
`hist`, `due`, `excuse`, `taken` and `fresh` observe; no step of the init reads
them.

Definitions called "Mutated form of ..." are not part of the model: each is a
plausible mistake in the definition that follows it, kept to show that a property
notices it.

### BootSequence

| Model | Code |
| --- | --- |
| `env.flags`, `env.marker`, `env.args` | `omnect_validate_update`, `omnect_validate_update_failed`, `omnect_bootloader_updated`; `omnect_first_boot_done`; the extra bootargs variable |
| `unsynced` | older contents of the environment the disk may still hold |
| `boot.envState` | `BootEnvState` |
| `boot.seen`, `at`, `markerSet`, `triggers` | locals of `handle_update_validation` and the files it writes |
| `conf` | `update_validation_conf.json`: of the current update, left over from a rolled-back one, or absent |
| `slotTried` | the bootloader's own note that the validation boot has started (external) |
| `Bootloader` .. `HandleFatalError` | one action per step of the boot, in the order of the code |
| `OdsValidates`, `InstallUpdate`, `EditBootargs`, `Reboot`, `PowerLoss`, `PowerCycle` | external parties |

`SetEnv` is durable with GRUB (`grub-editenv` is followed by `sync`). With U-Boot the
code does not flush, and this module is pessimistic: until `Sync` a reset may find
any older content. (The design document
`docs/superpowers/specs/2026-07-29-legacy-env-alignment-design.md` argues that
`fw_setenv` writes the region itself; `FsckRecords` and `FactoryReset` take it at its
word.)

### FsckRecords

`store` is what `save_fsck_status` left (grubenv variable, file on boot, or U-Boot
variable), `mem` is `OdsStatus.fsck`, `json` the status file. A record is `new` (this
boot), `old` or `bad` (does not unpack). The exit code and the text travel together
and are not told apart. Which results a check can have is not assumed: it is computed by
`FsckCheck` from every way an fsck can end (exit with any bits, killed by a signal, not
started, journal replayed), for ext4 and for vfat, whose fsck does not use these bits. `due` holds the results no running ODS has been given.

### FactoryReset

`disk` is what `etc` and `data` hold (`used`, `new`, or `broken`: no filesystem that can
be mounted), `files` the paths of the preserve list that exist, `backup` the copy in
RAM, `mounts` what is mounted, including what `unmount_tracked` failed to unmount.
`notes` are the failures that go into the status, `status` is
`OdsStatus.factory_reset`, `json` the status file. `hist.before` are the files at the
start of the boot, `hist.touched` the partitions this boot has changed.

The actions follow `answer_trigger` and `run_reset`: `ClearTrigger`, `MountForBackup`,
`BuildPreserveList`, `BackupPath`, `UnmountBeforeWipe`, `WipePart`, `Mkfs` (with its
retry), `Remount`, `RestorePath`, `UnmountRestored`, `Record`; then `NormalMounts`,
`WriteStatus` and `Finish` are the normal boot. A file "exists" as `Path::exists` sees
it: a dangling link does not. A wipe that reports success is taken to have destroyed
what was there.

### The flash modes

`FlashRun` holds the state. The running disk is a function from a few byte positions to
`old`, `new`, `zero` or `junk`; the second disk is a record of the parts a clone writes
(`old`, `torn`, `src`, or `own` for what the clone is to have of its own) and its
partition table. `table` says whether the kernel knows the table of the running disk,
`mounts` what is mounted of it.

| Model | Code |
| --- | --- |
| `Detect`, `Refuse` | `BootMode::detect`, `clear_flash_and_reset_triggers` with `ConflictingTriggers` |
| `ClearTriggers`, `PersistLog`, `TerminalAction` in `FlashRun` | `run_and_persist`, `keeps_log`, `persist_log`, the reboot or power off |
| `Efi*` | `efi::handle`, one action per `efibootmgr` call, then the dump onto the boot partition |
| `CloneMode`: `SelectClone`, `ResolveDestination`, `ValidateDestination`, `UnmountRootfs`, `DumpTable`, `CloneStep` | `clone_with`; `CloneSteps` is its order of writes, `rewrite_dump` the arithmetic of `sfdisk.rs` |
| `ScpMode`: `UnmountTarget`, `BringUp`, `CreateFifo`, `StartDropbear`, `ReadBmap`, `VerifyUpload`, `CopyToDisk`, `ZeroHead`, `RemoveFiles`, `RemoveFifo`, `RereadTable` | `scp_with` and `flash_once`; `parse`, `unmapped` and `copy_ok` are `bmap/` |
| `PushBmap`, `PushImage`, `GiveUp` | the operator's scp clients (external) |
| `UrlMode` | `url_with`: digest file, RAM check, download, digest, size, write |
| `StartBoot`, `Repair`, `Request`, `PowerLoss`, `Restart` | firmware, operator, power (external) |

An upload is its length and the position of one wrong byte, if any; a bmap is the
numbers of its file, right or wrong; a downloaded image is whether its digest matches,
its packed size, and the size its index states against the one it decodes to. Arithmetic
that the code checks is checked against `MaxU`. A write that fails, or in which power is
lost, leaves any subset of its bytes.

`DiskFlash` is the promise without the steps: three variables (the running disk, the
second disk, the phase), a run works on one disk and leaves the other alone, finishes
only with a complete disk, may fail at any time, and leaves its log only on a disk that
is not partly written. `Flash` refines it (`DF`, `ImplementsDiskFlash`): `own` is the
content of the running disk, `second` is `complete` when the clone starts like a newly
flashed device (`CloneFresh`: right table, own UUIDs, volume ID and environment, copied
partitions), `phase` follows `mode`, `result` and `stage`.

### RootHandover

An *image* is what is installed, its disk and its command line; it is chosen at the
start. `upper` is what the upper layer of `/etc` holds, `list` the one-time link list,
`links` what is at the paths of the links, `unsynced` the links the data partition has
not written back. `at` says where `/dev`, `/proc`, `/sys` and `/run` are mounted: nowhere,
in the initramfs, in the new root. The actions follow `mount_essential_filesystems`,
`detect_root_device`, `early_modules::load` (one action per listed module),
`normal::run` with its mounts and the seeding of `/etc`, `create_fs_links` (one action
per removal and per link) and `switch_root` (one action per move; `SwitchFails` is the
rollback, in which any mount may be stuck). Disk names are sequences of characters,
because `partition_sep_for_name` and `split_partition_suffix` decide by characters.
What the same boot does to the boot environment is one step here.

## Runs

| Run | Question | Result |
| --- | --- | --- |
| `boot` | U-Boot debug image: do first-boot phase, update flags, conf and reboots survive every fault, loss of power and lost write? | holds, about 690 000 states |
| `boot_live` | GRUB release image with degraded boots: once nothing fails, does a boot reach the root filesystem, and is a rollback reported? | holds, about 320 000 states |
| `boot_fatal` | "any fatal error while `omnect_validate_update` is set" reboots (README) | violated: see below |
| `fsck` | GRUB release and U-Boot debug image: is a check result kept, and is the status the current one? | holds, 1.9 million states |
| `fsck_live` | does a record of an aborted boot reach ODS, and does an undecodable one go? | holds |
| `fsck_drain` | "its result is kept until the status file is written" (usage.md) | violated |
| `fsck_stale` | "a persist that failed ... still reaches the ODS JSON" (lib.rs) | violated |
| `reset` | is the status true, is nothing destroyed before its backup or while mounted, is a reset run once, is a failure signalled, is every request answered, an unusable one too? | holds, 1.1 million states |
| `reset_record` | "always completes with a FactoryResetStatus recorded in the ODS status JSON" (README) | violated |
| `flash` | GRUB and U-Boot release image, three modes, wrong inputs, retries: does a run implement `DiskFlash`; do mounts, bmaps, boot entries, uploads and triggers behave? | holds, about 350 000 states |
| `flash_retry` | "a failed attempt ... can be repaired by a new upload as long as the device stays powered" (scp.rs) | violated |
| `handover` | fourteen images: do failed boots leave a usable shell, `/etc` its defaults, the one-time list its links, and does the module report tell the truth? | holds, about 540 000 states |

Deadlock is checked in all of them: there is always a next boot.

### Where the code and its documents differ

1. **`boot_fatal`.** The error of `mount_core_partitions` is returned before
   `omnect_validate_update` is read (`lib.rs:127`, `set_update_pending` later). With
   U-Boot, where the environment is open by then, a release image halts on the
   validation boot instead of rolling back. `docs/usage.md` describes this exception,
   the README's table and the comment in `recovery.rs` do not.
   `PendingUpdateNotStranded` is what does hold, and is proved: a device that stops
   with a pending update has not read the flag on that boot, or could not reboot.
2. **`fsck_drain`.** `drain_fsck_env` clears each record before the status file is
   written; a boot that ends in between loses it. `RecordKept` is what holds: nothing
   is lost before the drain.
3. **`fsck_stale`.** When the save of this boot's record fails and an older record is
   in the environment, the drain replaces the new one by the old one.
   `StatusIsCurrent` holds when the save succeeded.
4. **`reset_record`.** `answer_trigger` deletes the trigger first (so that a reset
   is not repeated, `ResetNotRepeated`) and keeps the status in memory. When the
   normal boot that follows fails before the status file is written, the next boot has
   neither.
5. **`flash_retry`.** After a failed attempt of mode 2 the init removes the FIFO and
   creates it again (`scp.rs:351`). An image that arrives in between becomes a regular
   file, `mkfifo` fails, and the run ends: a disk that is partly written then stays so,
   because the loop that would take a new upload has ended. `MountsSafe` shows that
   the run at least remembers what it wrote and keeps its log off that disk.

### Bounds

- Boots, requests, faults and losses of power are not bounded: the state spaces are
  finite without it. `hist.argsReboots` counts to 2, which is where its property
  fails already.
- `Args` has the empty value and one other: the code compares values for equality
  and tests for emptiness only, and two values suffice for a change and a change back.
- Two ext4 partitions are enough for a mount sequence that stops before its last
  partition, and for one record being saved or drained while another waits; the code
  treats all partitions of the list alike. `fsck_live` uses one: the records do not
  wait for each other.
- One path to preserve on each partition in `reset`: the code has no interaction
  between two paths of one partition but the abort of the backup, which two paths
  in any order already show.
- For `BootSequence` and `FactoryReset` the image type and backend are one combination
  per run; their theorems cover all of them. The other runs choose
  the build in `Init`: `fsck` a GRUB release image and a U-Boot debug image (where a
  missing environment aborts the boot), `flash` a GRUB/GPT image with the verify pass
  and a U-Boot/DOS one that flashes directly, `handover` both in fourteen variants.
- `DiskLen = 4`, `HeadLen = 3`: room for two ranges, a gap before, between and behind
  them, a partial last block, and a byte behind the head. `MaxU = 15` stands for the
  largest `u64`; a range of blocks that overflows it and a machine constant that does
  are among the inputs. `RamSizes = {1, 2, 3}` with `RamReserve = 1` has a download that
  fits, one that fits exactly and one that does not.
- The bmaps, uploads, images and tables of `MCFlash` are right or wrong in one respect
  each, one for every check of the code; the disk sees them in any order over any number
  of attempts.
- `MaxOdd = 3`: at most three of the modules and lists of a boot are unusual (unreadable,
  already loaded, broken); five modules with a chain of three, one listed twice and
  before its dependency, one built in, one with a dependency that has no name.
- Two factory files are enough for a copy that is cut off; a link in `/etc` and one on
  data for the one that can be lost.

### Fairness

`FairSpec` assumes weak fairness of the init (and of the bootloader in
`BootSequence`): the init is the only process of the initramfs, its calls return, and
a machine that is on boots. Nothing is assumed of ODS, the update agent, operators or
the power. The liveness properties start from `calm`: no call fails, no check asks for
a reboot, no power is lost and nobody asks for something new. That is the claim the
code can make - it does not promise progress while storage keeps failing.

`Flash` adds what mode 2 waits for: an operator who, when asked, sends the bmap and the
image in the end (`PushBmap("done")`, `PushImage`) and stops a client that hangs
(`GiveUp`), and faults that end (`Calm`). Without the first the wait for the bmap has no
limit, as the code says; `FlashNotRepeated` is the only property that needs any of it.

## Proofs

Every theorem holds for all values of the constants, under the assumptions each module
states by name. All safety properties of the passing runs are proved: their invariants,
their action properties and the refinement of `DiskFlash`.

### BootSequenceProofs

For both image types, both backends, with and without `resize-data`, and any set of
bootargs values:

| Theorem | Statement |
| --- | --- |
| `TypeCorrect` | `Spec => []TypeOK` |
| `FirstBootOver` | `Spec => []FirstBootNeverAfterUpdate` |
| `UpdateNotStranded` | `Spec => []PendingUpdateNotStranded` |
| `MarkerBehindSteps` | `Spec => []MarkerMeansStepsDone` |
| `RebootsOnce` | `Spec => []BootargsRebootOnce` |
| `ConfCurrent` | `Spec => []ConfNotStale` |
| `FlagOrder` | `Spec => FlagsClearedInOrder` |
| `Invariance` | `Spec => []IInv`, from which the others follow |

Assumptions: `FeatureAssumption` (the features are Boolean) and `ArgsAssumption` (the
empty value is a value of the bootargs).

None of the properties is inductive. `IInv` adds what the steps rely on:

- *about every disk a reset may leave* (`Disks`, not only `env`): after an update each
  of them ends the first-boot phase (`PhaseEnds`), they agree on
  `omnect_validate_update` (`ValidateStable`), and after an extra-bootargs reboot all
  of them hold the files' value (`ArgsApplied`; this is where the flush before
  `reboot(2)` is needed);
- *about what the init has in memory*: nothing before `Detect` (`FreshUntilDetect`);
  its copy of the flag is right when the read succeeded (`PendingKnown`); the marker is
  set before a flag is cleared (`MarkerEnsured`, `ClearingFlag`); first-boot steps
  without a noted failure are done (`StepsDone`);
- *about the history*: the flags an init sees were there when it was started
  (`FlagsNoted`); a left-over conf was not removable (`ConfKnown`); errors that must be
  absorbed never reach `handle_fatal_error` (`NotAbsorbed`).

The step is split by concern: `TypeStep`, `MarkerStep`, `PendingStep`, `StepsStep`,
`ArgsStep` and `ConfStep` each prove one group of conjuncts, with one case per action.

### FactoryResetProofs

For both image types and any two disjoint sets of paths to preserve
(`ReleaseAssumption`, `PathAssumption`):

| Theorem | Statement |
| --- | --- |
| `TypeCorrect` | `Spec => []TypeOK` |
| `StatusTrue` | `Spec => []StatusTruthful` |
| `NothingLost` | `Spec => []PreservedSomewhere` |
| `ResetOnce` | `Spec => []ResetNotRepeated` |
| `FailureInEnv` | `Spec => []FailureSignalled` |
| `DestroyedOnlyUnmounted` | `Spec => DestroyedUnmounted` |
| `InvariantHolds` | `Spec => []IInv` |

The reset goes on past failures, so `StatusTruthful` needs to know that each failure was
noted when it happened: `WipeNoted`, `MkfsNoted` and `RestoreNoted` say, for each stage
behind a step, that the step did its work or is in `notes`. `UntouchedYet` and
`BackupComplete` are why nothing is lost: up to the unmount nothing is changed, and from
then on the backup has all that was there. `UnmountedThen` is the fact the code gets
from `unmount_tracked(...)?` before the wipe. `TriggerSpent` ties the trigger to what has
been destroyed: one that is still set has destroyed nothing, or could not be deleted.

### FsckRecordsProofs

For every set of builds and every list of distinct partitions (`BuildsAssumption`,
`PartitionAssumption`):

| Theorem | Statement |
| --- | --- |
| `VfatNeverReboots` | the lenient check of a vfat partition never asks for a reboot |
| `CleanIsClean` | a clean check is one whose deciding fsck exited with 0 |
| `TypeCorrect` | `Spec => []TypeOK` |
| `RecordsKept` | `Spec => []RecordKept` |
| `StatusCurrent` | `Spec => []StatusIsCurrent` |
| `InvariantHolds` | `Spec => []IInv` |

`RecordKept` speaks of what the init holds now; a power loss is why `RecordSafe` speaks
of every content the disk may have afterwards (`Saved`), and of the results that a
persist is about to save (`Exposed`). `DiskFlushed` bounds what may be lost until the
second persist. `FreshInMemory`, `FreshSaved` and `JsonCurrent` follow one result of this
boot from memory over the store and the drain to the status file.

### RootHandoverProofs

For every set of images, links and factory files, and any number of boots:

| Theorem | Statement |
| --- | --- |
| `TypeCorrect` | `Spec => []TypeOK` |
| `SplitInvertsPath` | `split_partition_suffix` undoes `partition_path` |
| `DevicesRight` | `Spec => []RightDevices`: `/dev/omnect` names the disk the bootloader started from |
| `ShellHasItsMounts` | `Spec => []ShellKeepsMounts` |
| `EtcHasItsDefaults` | `Spec => []EtcSeeded` |
| `ListedLinksMade` | `Spec => []ListConsumedMeansLinked` |
| `ModulesTold` | `Spec => []ModulesReported` |
| `InvariantHolds` | `Spec => []IInv` |

Two facts came out of the proofs. `split_partition_suffix` cannot undo `partition_path`
for a disk whose name ends in a digit and a `p` (`sd1p` with partition 2 is `sd1p2`,
which is read as partition 2 of `sd1`); no driver names a disk so, and
`ImagesAssumption` says it (`DiskNamed`). And a link that the list and the config both
name is removed and made again on every boot, also after the list is gone, so
`ListConsumedMeansLinked` excludes it; an image of `MCRootHandover` has such a link.

`ModulesTold` rests on what the session knows. `Noted`: a module noted as there is there,
and one noted as failed is one that cannot be loaded, for it was tried behind everything
it needs. `Explained`: a reported module is not there and will not come up as a dependency
of a later one, because it, or something on its line, has failed for good. `Answered`:
every listed module is to come, reported, or there. `load_listed` works through the order
of a module one by one; `AttemptSound` says what holds behind the first k of them,
`AttemptStep` takes one more and `AttemptEnds` the last. That every module is tried behind
what it needs (`OrderFacts`) is the contract with depmod the comments of `moddep.rs` rely
on, "all transitive dependencies, as depmod writes them; the last one loads first", and
`DepmodAssumption` states it: on a line the modules a module needs stand behind it, and
what its own line names too, and none depends on itself. `DepmodAssumption` does not say
that the files exist or load.

### BmapProofs

About the pure part of mode 2, for every largest `u64`, disk, block size and number of
ranges (`DiskAssumption`, `BmapsAssumption`: the numbers of a bmap are unsigned):

| Theorem | Statement |
| --- | --- |
| `ParseSound` | a bmap that `parse` accepts and that fits the disk has ranges in order, without overlap, not empty, inside its image |
| `UnmappedIsRest` | the cursor loop of `Bmap::unmapped` yields exactly the bytes of the area that no range writes |

The cursor is a recursive function. What it computes is shown by its least
counterexample: `LeastNatural` (every set of naturals that is not empty has a least
element, in `InductionFacts`) replaces induction, `RangesOrdered` and `VisitedFirst` are
proved with it, and `CursorIsLastEnd` shows that the recursion is solved by the end of the
last range it came to. The recursions of `EarlyModules` have no such closed form; there
`RecursionExists` gives the solution: a recursion whose steps stay in a set has one.

### FlashProofs and FlashRefinement

For every disk size and head, every set of builds, bmaps, uploads, images and partition
tables (`ReleaseAssumption`, `DiskAssumption`, `CloneAssumption`, `BmapsAssumption`,
`ServedAssumption`: numbers are numbers, a disk is not empty and its length is a `u64`):

| Theorem | Statement |
| --- | --- |
| `TypeCorrect` | `Spec => []TypeOK` |
| `MountsAreSafe` | `Spec => []MountsSafe` |
| `BmapInUseSound` | `Spec => []BmapSound`, with `ParseSound` |
| `NobodyStranded` | `Spec => []UploadNotStranded` |
| `DiskWrittenVerified` | `Spec => []VerifiedBeforeDisk` |
| `RefusedForGood` | `Spec => []RefusedStaysRefused` |
| `EntryRemains` | `Spec => BootEntryRemains` |
| `InvariantHolds` | `Spec => []IInv` |
| `FlashImplementsDiskFlash` | `Spec => ImplementsDiskFlash` |
| `ModeOnlyIfAsked` | `detect_with` chooses a mode exactly on the value that names it; no read error, missing environment or unknown value starts one, but for the enforce flag, which starts mode 2 |

`IInv` has three parts. The types, one conjunct per group of variables. What the init
knows: which mode a stage belongs to (`ModeOfStage`), what it still has in memory
(`MemoryOfRun`), which plan, upload and destination have been checked by then
(`PlanChecked`, `CopyVerified`, `DestinationChecked`). And what the disks and the firmware
hold: `DiskOfStage` says what the running disk is at every stage, in mode 2 depending on
`up.written`, the init's own note of a write that an earlier attempt made;
`OneDiskIntact` that a clone leaves the running disk alone and the other modes the second
one; `CloneSoFar` that each step of the clone that is done stays done, whatever order of
steps the build has; `EntriesOfStage` that the new boot entry is not among those to be
deleted. Each conjunct (the types too) has its step lemma, with one case per action.

The refinement maps a state by `OwnContent`, `SecondContent` and `Phase`. Most steps
stutter (`QuietStep`, `StopsQuietly`); the others are covered by a lemma for each step of
`DiskFlash`: a mode that writes or fails (`WritesOrFails`), that finishes (`Finishes`, the
only one that needs a complete disk, hence `UnmappedIsRest`: the mapped bytes and the
zeroed ones are together the whole head), and the loss of power. `StepRefines` puts them
together, one case per action.

### Only model-checked

- The liveness properties (`BootSettles`, `RollbackReported`, `RecordReachesOds`,
  `BadRecordGoes`, `ResetAnswered`, `FlashNotRepeated`): fairness is out of the prover's
  reach.
- The five runs that show a disagreement.

## Not modelled

- the inner steps of the resize of data (`sgdisk`, `parted`, `fsck`, `resize2fs`): one
  step of `BootSequence` with its outcomes;
- parsing of the command line, of JSON, XML and `modules.dep`, the gzip/base64 codec and
  the xz decoder: they appear as outcomes (works, fails, does not decode);
- parameters of kernel modules, mount flags, file modes and ownership, the texts in the
  status and on the console: no property is about them;
- the network setup, dropbear and curl beyond whether they work;
- logging: output only;
- a layout without an `etc` or `data` partition;
- anything inside external programs (`fsck`, `mkfs`, `fw_setenv`, `grub-editenv`,
  `sfdisk`, `e2image`, `efibootmgr`) beyond their outcomes.

## Plan

`ABUpdate`, an abstract specification of an update (installed, tried, validated or rolled
back, reported), and `BootSequence` shown to implement it.
