---------------------------- MODULE BootSequence ----------------------------
(***************************************************************************)
(* One device over many boots: run_init (lib.rs), the init-setup steps,    *)
(* normal::run, the update validation of the runtime files and the fatal   *)
(* handler of main.rs, together with the parties that share the boot       *)
(* environment with the init: the bootloader (which rolls an unvalidated   *)
(* update back), omnect-device-service (ODS, which validates it) and the   *)
(* update agent.  Power may be lost between any two steps.                 *)
(*                                                                         *)
(* The boot mode is Normal here.  The fsck records, the factory reset and  *)
(* the flash modes have modules of their own.                              *)
(***************************************************************************)
EXTENDS RecoveryPolicy, Naturals

CONSTANTS
  Release,      \* the image is built with the release-image feature
  Grub,         \* the grub backend; otherwise uboot
  ResizeData,   \* the resize-data feature is built in
  Args,         \* values the combined extra-bootargs files can have
  NoArgs        \* the empty value: the variable is unset

ASSUME FeatureAssumption ==
  Release \in BOOLEAN /\ Grub \in BOOLEAN /\ ResizeData \in BOOLEAN
ASSUME ArgsAssumption == NoArgs \in Args

(***************************************************************************)
(* UPDATE_FLAGS of bootloader/mod.rs, in the order in which                *)
(* handle_update_validation turns them into trigger files.                 *)
(***************************************************************************)
VU  == "ValidateUpdate"
VUF == "ValidateUpdateFailed"
BU  == "BootloaderUpdated"
UpdateFlags == {VU, VUF, BU}

\* Mutated form of FlagAt: the second lookup repeats the first key.
FlagAtRepeated(i) == CASE i \in {1, 2} -> VU [] i = 3 -> BU

FlagAt(i) == CASE i = 1 -> VU [] i = 2 -> VUF [] i = 3 -> BU
LastFlag == 3

VARIABLES
  (*************************** durable state *****************************)
  env,        \* the boot environment as a read returns it
  unsynced,   \* earlier contents the disk may still hold
  argFiles,   \* the extra-bootargs files on the boot partition
  conf,       \* update_validation_conf.json: for this update, left over, none
  slotTried,  \* bootloader: the validation boot of the update has started
  (****************************** this boot ******************************)
  stage,      \* where the boot is
  error,      \* the error handed to handle_fatal_error
  boot,       \* what the init holds in memory and in /run
  (************************ observation and faults ************************)
  hist,       \* what happened so far
  calm        \* no further fault, power loss, update or edit

durable == <<env, unsynced, argFiles, conf, slotTried>>
vars == <<durable, stage, error, boot, hist, calm>>

Env == [flags: SUBSET UpdateFlags, marker: BOOLEAN, args: Args]

Stages ==
  {"off", "early", "core", "detect", "bootargs", "verify", "resize", "mount",
   "status", "validate", "ensure", "trigger", "clear", "marker", "switch",
   "failed", "running", "halted", "shell"}
Stopped == {"halted", "shell"}

(***************************************************************************)
(* boot: envState is BootEnvState ("unopened" before open_boot_env and     *)
(* after an Abort); updatePending is UPDATE_PENDING; firstBoot,            *)
(* argsFailed and resizeFailed are the OdsStatus fields; seen, at and      *)
(* markerSet are locals of handle_update_validation; triggers are the      *)
(* files in /run.  vuRead notes that omnect_validate_update was read       *)
(* without an error, rebootFailed that reboot(2) returned.                 *)
(***************************************************************************)
Boots ==
  [envState: {"unopened", "available", "degraded"},
   updatePending: BOOLEAN, vuRead: BOOLEAN, firstBoot: BOOLEAN,
   argsFailed: BOOLEAN, resizeFailed: BOOLEAN,
   seen: SUBSET UpdateFlags, at: 1 .. LastFlag + 1, markerSet: BOOLEAN,
   triggers: SUBSET UpdateFlags, rebootFailed: BOOLEAN]

FreshBoot ==
  [envState |-> "unopened", updatePending |-> FALSE, vuRead |-> FALSE,
   firstBoot |-> FALSE, argsFailed |-> FALSE, resizeFailed |-> FALSE,
   seen |-> {}, at |-> 1, markerSet |-> FALSE, triggers |-> {},
   rebootFailed |-> FALSE]

(***************************************************************************)
(* hist: updated - a boot started with an update flag set; markerMissed -  *)
(* the marker write failed on a boot that validates an update; confMissed  *)
(* - the last running system was booted without removing a leftover conf   *)
(* it should have removed; argsReboots - extra-bootargs reboots since the  *)
(* files last changed; argsSynced and resized - the first-boot steps have  *)
(* succeeded.                                                              *)
(***************************************************************************)
Hists ==
  [updated: BOOLEAN, markerMissed: BOOLEAN, confMissed: BOOLEAN,
   argsReboots: 0 .. 2, argsSynced: BOOLEAN, resized: BOOLEAN]

TypeOK ==
  /\ env \in Env
  /\ unsynced \subseteq Env
  /\ argFiles \in Args
  /\ conf \in {"none", "current", "stale"}
  /\ slotTried \in BOOLEAN
  /\ stage \in Stages
  /\ error \in Errors \cup {"none"}
  /\ boot \in Boots
  /\ hist \in Hists
  /\ calm \in BOOLEAN

\* A device right after flashing: nothing is set in the boot environment.
Init ==
  /\ env = [flags |-> {}, marker |-> FALSE, args |-> NoArgs]
  /\ unsynced = {}
  /\ argFiles \in Args
  /\ conf = "none"
  /\ slotTried = FALSE
  /\ stage = "off"
  /\ error = "none"
  /\ boot = FreshBoot
  /\ hist = [updated |-> FALSE, markerMissed |-> FALSE, confMissed |-> FALSE,
             argsReboots |-> 0, argsSynced |-> FALSE, resized |-> FALSE]
  /\ calm = FALSE

(***************************************************************************)
(* Helpers.  A call that can fail is a choice over Fault; no call fails    *)
(* once the system is calm.                                                *)
(***************************************************************************)
Fault == IF calm THEN {FALSE} ELSE BOOLEAN

Available == boot.envState = "available"

\* What a reset may find on the disk: the writes are made in order, each of
\* the whole environment, and any number of the last ones may be missing.
Disks == unsynced \cup {env}

\* BootEnv::set_env.  grub-editenv is followed by sync(2); fw_setenv is not.
SetEnv(e) ==
  /\ env' = e
  /\ unsynced' = IF Grub THEN {} ELSE unsynced \cup {env}

\* Mutated form of Sync: the flush is forgotten.
SyncForgotten == UNCHANGED unsynced

\* sync_filesystems
Sync == unsynced' = {}

Goto(from, to) ==
  /\ stage = from
  /\ stage' = to
  /\ UNCHANGED error

Fail(from, e) ==
  /\ stage = from
  /\ stage' = "failed"
  /\ error' = e

\* A reset: the memory is gone, and the disk may lack the last writes.
Reset ==
  /\ stage' = "off"
  /\ error' = "none"
  /\ env' \in Disks
  /\ unsynced' = {}
  /\ boot' = FreshBoot

\* A step of the init that changes nothing outside its own memory.
Reads == UNCHANGED <<durable, calm>>

(***************************************************************************)
(* Start of a boot.  The bootloader rolls an update back when the          *)
(* validation boot it already started has not cleared the flag: it clears  *)
(* omnect_validate_update and sets omnect_validate_update_failed.          *)
(***************************************************************************)
Bootloader ==
  /\ Goto("off", "early")
  /\ LET rollback == VU \in env.flags /\ slotTried
     IN  /\ env' = IF rollback
                   THEN [env EXCEPT !.flags = (@ \ {VU}) \cup {VUF}]
                   ELSE env
         /\ slotTried' = (VU \in env.flags /\ ~slotTried)
         /\ conf' = IF rollback /\ conf = "current" THEN "stale" ELSE conf
         /\ hist' = [hist EXCEPT !.updated = @ \/ env.flags # {}]
  /\ unsynced' = {}
  /\ UNCHANGED <<argFiles, boot, calm>>

\* main up to run_init: /dev, /proc, /sys and /run, then the kmsg logger.
EarlyInit ==
  /\ \/ Goto("early", "core")
     \/ /\ TRUE \in Fault
        /\ Goto("early", StopStage(Release))   \* mount_essential_filesystems
     \/ /\ TRUE \in Fault
        /\ Fail("early", "Io")                 \* KmsgLogger
  /\ Reads /\ UNCHANGED <<boot, hist>>

(***************************************************************************)
(* run_init up to apply_boot_env_decision.  An error of Config::load,      *)
(* detect_root_device, PartitionLayout::new or create_omnect_symlinks      *)
(* comes before the environment is opened.  The result of                  *)
(* mount_core_partitions is captured, the environment is opened and        *)
(* classified, and the core error wins.  GRUB's environment is a file on   *)
(* the boot partition; U-Boot's opens always.  fsck.fat does not ask for a *)
(* reboot, so every core error is fatal.                                   *)
(***************************************************************************)
DetectPartitions(e) ==
  /\ TRUE \in Fault
  /\ e \in {"Config", "Partition"}
  /\ Fail("core", e)
  /\ Reads /\ UNCHANGED <<boot, hist>>

classify_boot_env(openOk) ==
  IF openOk THEN "available" ELSE IF Release THEN "degraded" ELSE "abort"

ApplyBootEnvDecision(coreErr, openOk) ==
  LET decision == classify_boot_env(openOk)
      state == IF decision = "abort" THEN "unopened" ELSE decision
      err == IF coreErr # "none" THEN coreErr
             ELSE IF decision = "abort" THEN "DegradedBoot" ELSE "none"
  IN  /\ coreErr # "none" \/ ~openOk => TRUE \in Fault
      /\ coreErr \in {"none", "Partition", "Io", "Filesystem"}
      /\ IF Grub THEN openOk => coreErr = "none" ELSE openOk
      /\ IF err = "none" THEN Goto("core", "detect") ELSE Fail("core", err)
      /\ boot' = [boot EXCEPT !.envState = state]
      /\ Reads /\ UNCHANGED hist

(***************************************************************************)
(* set_update_pending(update_pending_from_env), detect_first_boot and      *)
(* BootMode::detect, whose only error is the refusal of two triggers.      *)
(***************************************************************************)

\* Mutated form of update_pending_from_env: the other validate flag is read.
PendingFromFailedFlag(readErr) == Available /\ ~readErr /\ VUF \in env.flags

update_pending_from_env(readErr) == Available /\ ~readErr /\ VU \in env.flags

\* Mutated form of detect_first_boot: only the marker is consulted.
FirstBootFromMarker(readErr) == Available /\ ~readErr /\ ~env.marker

detect_first_boot(readErr) ==
  Available /\ ~readErr /\ ~env.marker /\ env.flags = {}

Detect(pendingErr, firstErr, conflict) ==
  /\ {pendingErr, firstErr, conflict} \subseteq Fault
  /\ boot' = [boot EXCEPT !.updatePending = update_pending_from_env(pendingErr),
                          !.vuRead = Available /\ ~pendingErr,
                          !.firstBoot = detect_first_boot(firstErr)]
  /\ IF conflict /\ Available
     THEN Fail("detect", "Flash") ELSE Goto("detect", "bootargs")
  /\ Reads /\ UNCHANGED hist

(***************************************************************************)
(* init_setup::run: extra_bootargs::run, then resize_data::run.  An        *)
(* extra-bootargs failure is only noted; a value written, read back and    *)
(* flushed ends the boot with the reboot that applies it.                  *)
(***************************************************************************)
SkipBootargs ==
  /\ ~boot.firstBoot
  /\ Goto("bootargs", "resize")
  /\ Reads /\ UNCHANGED <<boot, hist>>

\* reading the files, reading the current value or set_env fails
BootargsFail ==
  /\ boot.firstBoot /\ TRUE \in Fault
  /\ Goto("bootargs", "resize")
  /\ boot' = [boot EXCEPT !.argsFailed = TRUE]
  /\ Reads /\ UNCHANGED hist

BootargsUpToDate ==
  /\ boot.firstBoot /\ env.args = argFiles
  /\ Goto("bootargs", "resize")
  /\ hist' = [hist EXCEPT !.argsSynced = TRUE]
  /\ Reads /\ UNCHANGED boot

\* A write fault may store something else, which the read-back then sees.
WriteBootargs(stored) ==
  /\ boot.firstBoot /\ env.args # argFiles
  /\ stored \in Args
  /\ stored # argFiles => TRUE \in Fault
  /\ Goto("bootargs", "verify")
  /\ SetEnv([env EXCEPT !.args = stored])
  /\ UNCHANGED <<argFiles, conf, slotTried, boot, hist, calm>>

VerifyBootargs(readErr) ==
  /\ readErr \in Fault
  /\ IF readErr \/ env.args # argFiles
     THEN /\ Goto("verify", "resize")
          /\ boot' = [boot EXCEPT !.argsFailed = TRUE]
          /\ UNCHANGED <<unsynced, hist>>
     ELSE /\ Sync
          /\ Fail("verify", "ExtraBootArgsUpdated")
          /\ hist' = [hist EXCEPT !.argsReboots = IF @ < 2 THEN @ + 1 ELSE @]
          /\ UNCHANGED boot
  /\ UNCHANGED <<env, argFiles, conf, slotTried, calm>>

\* attempt: resize runs on the first boot, and on every degraded boot.
Resizes == ResizeData /\ (Available => boot.firstBoot)

ResizeStep(result) ==
  /\ result # "ok" => Resizes /\ TRUE \in Fault
  /\ \/ /\ result = "ok"
        /\ Goto("resize", "mount")
        /\ hist' = [hist EXCEPT !.resized = @ \/ Resizes]
        /\ UNCHANGED boot
     \/ /\ result = "absorbed"
        /\ Goto("resize", "mount")
        /\ boot' = [boot EXCEPT !.resizeFailed = TRUE]
        /\ UNCHANGED hist
     \/ /\ result = "fsckReboot"
        /\ Fail("resize", "ResizeFsck")
        /\ UNCHANGED <<boot, hist>>
  /\ Reads

(***************************************************************************)
(* normal::run: the partitions, the overlays and the links, then the       *)
(* status JSON and, with a boot environment, handle_update_validation.     *)
(***************************************************************************)
MountRemaining(e) ==
  /\ e # "none" => TRUE \in Fault
  /\ e \in {"none", "Filesystem", "FsckRequiresReboot", "Io"}
  /\ IF e = "none" THEN Goto("mount", "status") ELSE Fail("mount", e)
  /\ Reads /\ UNCHANGED <<boot, hist>>

\* create_ods_runtime_files up to the status file
WriteStatus(fails) ==
  /\ fails \in Fault
  /\ IF fails THEN Fail("status", "Io")
     ELSE Goto("status", IF Available THEN "validate" ELSE "marker")
  /\ hist' = [hist EXCEPT !.confMissed =
                IF ~fails /\ ~Available THEN TRUE ELSE @]
  /\ Reads /\ UNCHANGED boot

Conflict == {VU, VUF} \subseteq env.flags

\* Mutated form of RemovesConf: only without any update flag.
RemovesConfWithoutFlags(readErr) == ~readErr /\ env.flags = {}

RemovesConf(readErr) == ~readErr /\ ~Conflict /\ VU \notin env.flags

(***************************************************************************)
(* The reads of handle_update_validation.  The leftover conf is removed    *)
(* after the first two reads and before the third, best-effort.            *)
(***************************************************************************)
ValidateUpdate(readErr, removeErr, thirdErr) ==
  LET removes == RemovesConf(readErr)
  IN  /\ {readErr, removeErr, thirdErr} \subseteq Fault
      /\ conf' = IF removes /\ ~removeErr THEN "none" ELSE conf
      /\ hist' = [hist EXCEPT !.confMissed = IF removes THEN removeErr ELSE @]
      /\ boot' = [boot EXCEPT !.seen = env.flags, !.at = 1]
      /\ IF readErr THEN Fail("validate", "Bootloader")
         ELSE IF Conflict THEN Fail("validate", "ConflictingUpdateFlags")
         ELSE IF thirdErr THEN Fail("validate", "Bootloader")
         ELSE Goto("validate", "ensure")
      /\ UNCHANGED <<env, unsynced, argFiles, slotTried, calm>>

(***************************************************************************)
(* ensure_first_boot_marker, on a boot after an update: a marker that is   *)
(* read as set is left alone, otherwise it is written; the result gates    *)
(* the clearing of the flags.                                              *)
(***************************************************************************)
EnsureMarker(readErr, writeErr) ==
  /\ {readErr, writeErr} \subseteq Fault
  /\ Goto("ensure", "trigger")
  /\ IF boot.seen = {} \/ (env.marker /\ ~readErr) \/ writeErr
     THEN UNCHANGED <<env, unsynced>>
     ELSE SetEnv([env EXCEPT !.marker = TRUE])
  /\ boot' = [boot EXCEPT !.markerSet =
       boot.seen # {} /\ ((env.marker /\ ~readErr) \/ ~writeErr)]
  /\ hist' = [hist EXCEPT !.markerMissed =
       @ \/ (VU \in boot.seen /\ ~(env.marker /\ ~readErr) /\ writeErr)]
  /\ UNCHANGED <<argFiles, conf, slotTried, calm>>

\* Mutated form of NextFlag: the index steps over a flag.
NextFlagSkipsOne == boot' = [boot EXCEPT !.at = @ + 2]

NextFlag == boot' = [boot EXCEPT !.at = @ + 1]

\* One flag that is not set: no trigger file.
SkipTrigger ==
  /\ boot.at <= LastFlag
  /\ FlagAt(boot.at) \notin boot.seen
  /\ Goto("trigger", "trigger")
  /\ NextFlag
  /\ Reads /\ UNCHANGED hist

\* write_trigger_file.  ODS resets omnect_validate_update itself.
WriteTrigger(fails) ==
  /\ fails \in Fault
  /\ boot.at <= LastFlag
  /\ FlagAt(boot.at) \in boot.seen
  /\ IF fails
     THEN Fail("trigger", "Io") /\ UNCHANGED boot
     ELSE IF FlagAt(boot.at) = VU
     THEN /\ Goto("trigger", "trigger")
          /\ boot' = [boot EXCEPT !.triggers = @ \cup {VU}, !.at = @ + 1]
     ELSE /\ Goto("trigger", "clear")
          /\ boot' = [boot EXCEPT !.triggers = @ \cup {FlagAt(boot.at)}]
  /\ Reads /\ UNCHANGED hist

\* Mutated form of MayClear: the flag is cleared without the marker.
MayClearAlways == TRUE

\* clear_update_flag clears only with the marker set, and best-effort.
MayClear == boot.markerSet

ClearFlag(fails) ==
  /\ fails \in Fault
  /\ Goto("clear", "trigger")
  /\ IF MayClear /\ ~fails
     THEN SetEnv([env EXCEPT !.flags = @ \ {FlagAt(boot.at)}])
     ELSE UNCHANGED <<env, unsynced>>
  /\ NextFlag
  /\ UNCHANGED <<argFiles, conf, slotTried, hist, calm>>

TriggersDone ==
  /\ boot.at = LastFlag + 1
  /\ Goto("trigger", "marker")
  /\ Reads /\ UNCHANGED <<boot, hist>>

\* Mutated form of MarkerDue: the extra-bootargs result is not looked at.
MarkerDueIgnoresArgs == boot.firstBoot /\ ~boot.resizeFailed /\ Available

\* write_first_boot_marker is best-effort, and waits for both steps.
MarkerDue ==
  boot.firstBoot /\ ~boot.resizeFailed /\ ~boot.argsFailed /\ Available

WriteMarker(fails) ==
  /\ fails \in Fault
  /\ Goto("marker", "switch")
  /\ IF MarkerDue /\ ~fails
     THEN SetEnv([env EXCEPT !.marker = TRUE])
     ELSE UNCHANGED <<env, unsynced>>
  /\ UNCHANGED <<argFiles, conf, slotTried, boot, hist, calm>>

SwitchRoot(fails) ==
  /\ fails \in Fault
  /\ IF fails THEN Fail("switch", "Io") ELSE Goto("switch", "running")
  /\ Reads /\ UNCHANGED <<boot, hist>>

\* main: handle_fatal_error.  reboot(2) does not sync.
HandleFatalError(rebootErr) ==
  LET outcome == handle_fatal_error(error, Release, boot.updatePending, rebootErr)
  IN  /\ rebootErr \in Fault
      /\ stage = "failed"
      /\ \/ outcome = "off" /\ Reset
         \/ /\ outcome # "off"
            /\ Goto("failed", outcome)
            /\ boot' = [boot EXCEPT !.rebootFailed = rebootErr]
            /\ UNCHANGED <<env, unsynced>>
      /\ UNCHANGED <<argFiles, conf, slotTried, hist, calm>>

(***************************************************************************)
(* The running system, and the power.                                      *)
(***************************************************************************)

\* ODS found its trigger file, validated the update and resets the flag.
OdsValidates ==
  /\ stage = "running"
  /\ VU \in boot.triggers /\ VU \in env.flags
  /\ env' = [env EXCEPT !.flags = @ \ {VU}]
  /\ unsynced' = {}
  /\ slotTried' = FALSE
  /\ conf' = "none"
  /\ UNCHANGED <<argFiles, stage, error, boot, hist, calm>>

\* An update is installed; ODS writes the conf for an update of its own, ADU
\* does not, so a conf that is there is not for this update.
InstallUpdate(byOds, withBootloader) ==
  /\ stage = "running" /\ ~calm
  /\ VU \notin env.flags
  /\ env' = [env EXCEPT !.flags =
               @ \cup {VU} \cup (IF withBootloader THEN {BU} ELSE {})]
  /\ unsynced' = {}
  /\ slotTried' = FALSE
  /\ conf' = IF byOds THEN "current" ELSE IF conf = "none" THEN "none" ELSE "stale"
  /\ UNCHANGED <<argFiles, stage, error, boot, hist, calm>>

\* Somebody edits the extra-bootargs files on the boot partition.
EditBootargs(a) ==
  /\ stage = "running" /\ ~calm
  /\ a \in Args /\ a # argFiles
  /\ argFiles' = a
  /\ hist' = [hist EXCEPT !.argsReboots = 0]
  /\ UNCHANGED <<env, unsynced, conf, slotTried, stage, error, boot, calm>>

\* A regular reboot, for an update, by the validation timeout, by an operator:
\* the shutdown flushes the file systems.
Reboot ==
  /\ Goto("running", "off")
  /\ boot' = FreshBoot
  /\ unsynced' = {}
  /\ UNCHANGED <<env, argFiles, conf, slotTried, hist, calm>>

PowerLoss ==
  /\ ~calm /\ stage # "off"
  /\ Reset
  /\ UNCHANGED <<argFiles, conf, slotTried, hist, calm>>

\* The operator power-cycles a device that halted or sits in the shell.
PowerCycle ==
  /\ stage \in Stopped
  /\ Reset
  /\ UNCHANGED <<argFiles, conf, slotTried, hist, calm>>

Settle ==
  /\ ~calm
  /\ calm' = TRUE
  /\ UNCHANGED <<durable, stage, error, boot, hist>>

(***************************************************************************)
(* The specification.                                                      *)
(***************************************************************************)
InitStep ==
  \/ EarlyInit
  \/ \E e \in {"Config", "Partition"} : DetectPartitions(e)
  \/ \E e \in {"none", "Partition", "Io", "Filesystem"}, o \in BOOLEAN :
        ApplyBootEnvDecision(e, o)
  \/ \E p, f, c \in BOOLEAN : Detect(p, f, c)
  \/ SkipBootargs \/ BootargsFail \/ BootargsUpToDate
  \/ \E a \in Args : WriteBootargs(a)
  \/ \E r \in BOOLEAN : VerifyBootargs(r)
  \/ \E r \in {"ok", "absorbed", "fsckReboot"} : ResizeStep(r)
  \/ \E e \in {"none", "Filesystem", "FsckRequiresReboot", "Io"} : MountRemaining(e)
  \/ \E f \in BOOLEAN : WriteStatus(f)
  \/ \E r, c, t \in BOOLEAN : ValidateUpdate(r, c, t)
  \/ \E r, w \in BOOLEAN : EnsureMarker(r, w)
  \/ SkipTrigger
  \/ \E f \in BOOLEAN : WriteTrigger(f)
  \/ \E f \in BOOLEAN : ClearFlag(f)
  \/ TriggersDone
  \/ \E f \in BOOLEAN : WriteMarker(f)
  \/ \E f \in BOOLEAN : SwitchRoot(f)
  \/ \E r \in BOOLEAN : HandleFatalError(r)

Surroundings ==
  \/ OdsValidates
  \/ \E o, b \in BOOLEAN : InstallUpdate(o, b)
  \/ \E a \in Args : EditBootargs(a)
  \/ Reboot \/ PowerLoss \/ PowerCycle \/ Settle

Next == Bootloader \/ InitStep \/ Surroundings

Spec == Init /\ [][Next]_vars

(***************************************************************************)
(* The bootloader starts the init and the init is the only process, so     *)
(* both take their next step.  Nothing is assumed of the surroundings.     *)
(***************************************************************************)
Fairness == WF_vars(Bootloader) /\ WF_vars(InitStep)

FairSpec == Spec /\ Fairness

-----------------------------------------------------------------------------
(***************************************************************************)
(* Properties.                                                             *)
(***************************************************************************)

(***************************************************************************)
(* A boot after an update ends the first-boot phase: no later boot runs    *)
(* the first-boot steps (a reboot for extra boot arguments, a resize of    *)
(* the data partition), whatever is lost or fails in between - except      *)
(* after a validation boot that could not write the marker, the case       *)
(* handle_update_validation documents.                                     *)
(***************************************************************************)
FirstBootNeverAfterUpdate ==
  boot.firstBoot /\ hist.updated => hist.markerMissed

(***************************************************************************)
(* The marker keeps the first-boot steps from running again, so a device   *)
(* that was never updated carries it - on any disk a power loss may leave  *)
(* - only after extra-bootargs and resize-data have succeeded.             *)
(***************************************************************************)
MarkerMeansStepsDone ==
  \A e \in Disks :
    e.marker /\ ~hist.updated =>
      hist.argsSynced /\ (ResizeData => hist.resized)

(***************************************************************************)
(* The init itself takes omnect_validate_update_failed and                 *)
(* omnect_bootloader_updated out of the environment only when the trigger  *)
(* file of this boot exists and the marker is set, and it never touches    *)
(* omnect_validate_update.                                                 *)
(***************************************************************************)
FlagsClearedInOrder ==
  [][stage \notin {"off", "running"} /\ stage' # "off" =>
       \A f \in env.flags \ env'.flags :
         f # VU /\ f \in boot.triggers /\ env.marker]_vars

(***************************************************************************)
(* A device that stops in the initramfs while an update waits for its      *)
(* validation has not read omnect_validate_update on this boot, or could   *)
(* not reboot: every other fatal error reboots, and the bootloader rolls   *)
(* the update back.                                                        *)
(***************************************************************************)
PendingUpdateNotStranded ==
  stage \in Stopped /\ VU \in env.flags => ~boot.vuRead \/ boot.rebootFailed

(***************************************************************************)
(* "any fatal error while omnect_validate_update is set" reboots, as the   *)
(* README's outcome table says, once the environment has been opened.      *)
(***************************************************************************)
FatalWithUpdateReboots ==
  stage \in Stopped /\ boot.envState = "available" /\ VU \in env.flags =>
    boot.rebootFailed

(***************************************************************************)
(* "If the value changed, the system reboots once": while the files stay   *)
(* as they are, there is at most one extra-bootargs reboot, so it cannot   *)
(* become a loop.                                                          *)
(***************************************************************************)
BootargsRebootOnce == hist.argsReboots <= 1

(***************************************************************************)
(* A leftover update_validation_conf.json is never there when ODS finds    *)
(* the trigger file of another update, unless the boot before it could     *)
(* not remove the file (a failed unlink, or no boot environment).          *)
(***************************************************************************)
ConfNotStale ==
  VU \in boot.triggers /\ conf = "stale" => hist.confMissed

(***************************************************************************)
(* Once nothing fails any more, a device that starts to boot reaches its   *)
(* root filesystem with the first-boot phase over: the reboots the init    *)
(* asks for (extra bootargs, a rollback, the conflicting flags) end.       *)
(***************************************************************************)
BootSettles ==
  calm /\ stage = "off" ~> stage = "running" /\ env.marker

(***************************************************************************)
(* Once nothing fails any more, a rollback the bootloader recorded is      *)
(* shown to ODS by the boot that follows.                                  *)
(***************************************************************************)
RollbackReported ==
  calm /\ stage = "off" /\ VUF \in env.flags ~>
    stage = "running" /\ VUF \in boot.triggers
=============================================================================
