---------------------------- MODULE FactoryReset ----------------------------
(***************************************************************************)
(* A factory reset over any number of boots: mode::factory_reset::run, the *)
(* normal boot it falls through to, and the caller who sets the trigger    *)
(* and waits for the result in the status file of ODS.  Power may be lost  *)
(* between any two steps; the backup is in RAM.                            *)
(*                                                                         *)
(* A file to preserve is a path on one of the two partitions that are      *)
(* re-created.  Writes of the boot environment are durable when set_env    *)
(* returns (grub-editenv is followed by sync, fw_setenv writes the         *)
(* environment region).  Flash modes are not triggered here.               *)
(***************************************************************************)
EXTENDS RecoveryPolicy, FiniteSets, Naturals

CONSTANTS
  Release,     \* the image is built with the release-image feature
  EtcPaths,    \* the paths of the preserve list on etc
  DataPaths    \* and on data

ASSUME ReleaseAssumption == Release \in BOOLEAN
ASSUME PathAssumption == EtcPaths \cap DataPaths = {}

Paths == EtcPaths \cup DataPaths
Parts == {"etc", "data"}
On(p) == IF p = "etc" THEN EtcPaths ELSE DataPaths

\* The trigger: mode 1, a mode that wipes (2, 3), a value parse rejects.
Triggers == {"none", "mode1", "wipe", "bad"}

(***************************************************************************)
(* What a partition holds: a filesystem in use, a new and empty one, or    *)
(* something that cannot be mounted.                                       *)
(***************************************************************************)
Contents == {"used", "new", "broken"}

NoStatus == [code |-> "none", wiped |-> FALSE]
Codes == {"Success", "Invalid", "Error", "ConfigError", "Warning"}
Statuses == [code: Codes, wiped: BOOLEAN] \cup {NoStatus}

VARIABLES
  (*************************** durable state *****************************)
  trigger,     \* the factory-reset variable of the boot environment
  lastError,   \* omnect_factory_reset_last_error is set
  disk,        \* what etc and data hold
  files,       \* the paths of the preserve list that exist
  (****************************** this boot ******************************)
  stage,       \* where the boot is
  error,       \* the error handed to handle_fatal_error
  mode,        \* the trigger this boot answers
  mounts,      \* what is mounted, tracked or leaked
  backup,      \* the paths copied to RAM
  todo,        \* paths still to back up or to restore
  retry,       \* this mkfs is the second attempt
  notes,       \* wipe, retried and mkfs notes, restore errors
  signal,      \* the ResetFailureSignal: none, due, or not written
  status,      \* OdsStatus.factory_reset
  json,        \* the same in the status file
  (************************ observation and faults ************************)
  hist,        \* what happened so far
  calm         \* no further fault, power loss or request

durable == <<trigger, lastError, disk, files>>
memory == <<error, mode, mounts, backup, todo, retry, notes, signal, status, json>>
vars == <<durable, stage, memory, hist, calm>>

Stages ==
  {"off", "detect", "clear", "mount", "preserve", "backup", "unmount",
   "wipeEtc", "wipeData", "mkfsData", "mkfsEtc", "remount", "restore",
   "leave", "record", "normal", "status", "finish", "failed", "running",
   "halted", "shell"}

(***************************************************************************)
(* notes: the partitions whose wipe failed, whose mkfs was retried, whose  *)
(* mkfs failed twice, and the paths whose restore failed.                  *)
(***************************************************************************)
NoNotes == [wipe |-> {}, retried |-> {}, mkfs |-> {}, restore |-> {}]

(***************************************************************************)
(* hist: before - the files at the start of this boot; touched - the       *)
(* partitions this boot has changed; overwritten - those it has wiped      *)
(* completely; passes - how often a boot changed a partition for the last  *)
(* request, no longer counted once its deletion failed; owed - the caller  *)
(* waits for an answer and the power did not fail meanwhile.               *)
(***************************************************************************)
Hists ==
  [before: SUBSET Paths, touched: SUBSET Parts, overwritten: SUBSET Parts,
   passes: {"none", "one", "more", "excused"}, owed: BOOLEAN]

OneMore(passes) ==
  CASE passes = "none" -> "one"
    [] passes \in {"one", "more"} -> "more"
    [] passes = "excused" -> "excused"

TypeOK ==
  /\ trigger \in Triggers /\ mode \in Triggers
  /\ lastError \in BOOLEAN
  /\ disk \in [Parts -> Contents]
  /\ files \subseteq Paths /\ backup \subseteq Paths /\ todo \subseteq Paths
  /\ stage \in Stages
  /\ error \in Errors \cup {"none"}
  /\ mounts \subseteq Parts \cup {"factory"}
  /\ retry \in BOOLEAN
  /\ notes \in [wipe: SUBSET Parts, retried: SUBSET Parts, mkfs: SUBSET Parts,
                restore: SUBSET Paths]
  /\ signal \in {"none", "due", "unwritten"}
  /\ status \in Statuses /\ json \in Statuses
  /\ hist \in Hists
  /\ calm \in BOOLEAN

FreshBoot ==
  /\ error' = "none" /\ mode' = "none" /\ mounts' = {} /\ backup' = {} /\ todo' = {}
  /\ retry' = FALSE /\ notes' = NoNotes /\ signal' = "none"
  /\ status' = NoStatus /\ json' = NoStatus

\* A device in the field, before anybody asks for a reset.
Init ==
  /\ trigger = "none" /\ lastError = FALSE
  /\ disk = [p \in Parts |-> "used"]
  /\ files \in SUBSET Paths
  /\ stage = "off"
  /\ error = "none" /\ mode = "none" /\ mounts = {} /\ backup = {} /\ todo = {}
  /\ retry = FALSE /\ notes = NoNotes /\ signal = "none"
  /\ status = NoStatus /\ json = NoStatus
  /\ hist = [before |-> files, touched |-> {}, overwritten |-> {},
             passes |-> "none", owed |-> FALSE]
  /\ calm = FALSE

Fault == IF calm THEN {FALSE} ELSE BOOLEAN

To(next) == stage' = next
Goto(from, next) == stage = from /\ To(next)

(***************************************************************************)
(* The start of a boot, and the detection of the mode.  A degraded boot    *)
(* and a read error boot normally and leave the trigger alone.             *)
(***************************************************************************)
StartBoot ==
  /\ Goto("off", "detect")
  /\ hist' = [hist EXCEPT !.before = files, !.touched = {}, !.overwritten = {}]
  /\ UNCHANGED <<durable, memory, calm>>

\* The boot ends with an error that reaches main.
Stop(e) ==
  /\ To("failed")
  /\ error' = e

\* run_init without the mode: the core mounts and the init setup may end the
\* boot before the mode is dispatched.
SetupFails(e) ==
  /\ stage = "detect" /\ TRUE \in Fault
  /\ e \in {"Filesystem", "ExtraBootArgsUpdated"}
  /\ Stop(e)
  /\ UNCHANGED <<durable, mode, mounts, backup, todo, retry, notes, signal, status,
                 json, hist, calm>>

\* Mutated form of Dispatches: an unusable trigger boots normally.
DispatchesUsable(readErr) == ~readErr /\ trigger \in {"mode1", "wipe"}

Dispatches(readErr) == ~readErr /\ trigger # "none"

Detect(readErr) ==
  /\ stage = "detect"
  /\ readErr \in Fault
  /\ To(IF Dispatches(readErr) THEN "clear" ELSE "normal")
  /\ mode' = IF Dispatches(readErr) THEN trigger ELSE "none"
  /\ UNCHANGED <<durable, error, mounts, backup, todo, retry, notes, signal, status,
                 json, hist, calm>>

(***************************************************************************)
(* answer_trigger: the trigger is cleared first, best-effort; a rejected   *)
(* one is only reported, as Invalid (the mode) or ConfigError (preserve).  *)
(***************************************************************************)

\* Mutated form of TriggerAfterClear: the variable is not deleted.
TriggerAfterClear_Kept(fails) == trigger

TriggerAfterClear(fails) == IF fails THEN trigger ELSE "none"

\* aborted_status
Aborted(code) == [code |-> code, wiped |-> FALSE]

ClearTrigger(fails, code) ==
  /\ stage = "clear"
  /\ fails \in Fault
  /\ code \in {"Invalid", "ConfigError"}
  /\ trigger' = TriggerAfterClear(fails)
  /\ hist' = [hist EXCEPT !.passes = IF fails THEN "excused" ELSE @]
  /\ IF mode = "bad"
     THEN To("record") /\ status' = Aborted(code)
     ELSE To("mount") /\ UNCHANGED status
  /\ UNCHANGED <<lastError, disk, files, error, mode, mounts, backup, todo, retry,
                 notes, signal, json, calm>>

(***************************************************************************)
(* factory_reset_mount: factory, etc, data and the overlays, in this       *)
(* order, each checked and mounted, and a step of it that fails.  Then     *)
(* unmount_tracked goes on past its own failures, so any of the mounts may *)
(* be left; an overlay that is left keeps its partition mounted.           *)
(***************************************************************************)
MountOrder == <<"factory", "etc", "data", "overlays">>

\* Mutated form of Mounted: the overlays are listed as mounts of their own.
MountedWithOverlays(n) == {MountOrder[i] : i \in 1 .. n}

Mounted(n) == {MountOrder[i] : i \in 1 .. n} \ {"overlays"}

Mountable(x) == x \in Parts => disk[x] # "broken"

\* n mounts succeed; with n < 4 the next one fails.
MountResult(n) ==
  /\ n \in 0 .. 4
  /\ \A x \in Mounted(n) : Mountable(x)
  /\ n < 4 => TRUE \in Fault \/ ~Mountable(MountOrder[n + 1])

\* What unmount_tracked leaves mounted.
Unmount(tracked, left) ==
  /\ left \subseteq tracked
  /\ left # {} => TRUE \in Fault
  /\ mounts' = left

\* run_reset up to the backup.  Every error before the wipe is an abort.
Abort(code) ==
  /\ To("record")
  /\ status' = Aborted(code)

MountForBackup(n, left) ==
  /\ stage = "mount"
  /\ MountResult(n)
  /\ IF n = 4
     THEN To("preserve") /\ mounts' = Mounted(n) /\ UNCHANGED status
     ELSE Abort("Error") /\ Unmount(Mounted(n), left)
  /\ UNCHANGED <<durable, error, mode, backup, todo, retry, notes, signal, json, hist, calm>>

\* build_preserve_list: an unusable list, or a file that cannot be read.
BuildPreserveList(code, left) ==
  /\ stage = "preserve"
  /\ code # "none" => TRUE \in Fault
  /\ code \in {"none", "ConfigError", "Error"}
  /\ IF code = "none"
     THEN To("backup") /\ todo' = Paths /\ UNCHANGED <<mounts, status>>
     ELSE Abort(code) /\ Unmount(mounts, left) /\ UNCHANGED todo
  /\ UNCHANGED <<durable, error, mode, backup, retry, notes, signal, json, hist, calm>>

(***************************************************************************)
(* backup_all: a path that src.exists() denies is skipped, the first one   *)
(* that cannot be copied aborts the reset.                                 *)
(***************************************************************************)

\* Mutated form of BackupAborts: a path that cannot be copied is skipped.
BackupAbortsNever(fails) == FALSE

BackupAborts(fails) == fails

BackupPath(path, fails, left) ==
  /\ stage = "backup" /\ path \in todo
  /\ fails \in Fault /\ (fails => path \in files)
  /\ IF BackupAborts(fails)
     THEN /\ Abort("Error") /\ Unmount(mounts, left)
          /\ UNCHANGED <<backup, todo>>
     ELSE /\ todo' = todo \ {path}
          /\ backup' = IF fails THEN backup ELSE backup \cup ({path} \cap files)
          /\ UNCHANGED <<stage, mounts, status>>
  /\ UNCHANGED <<durable, error, mode, retry, notes, signal, json, hist, calm>>

BackupDone ==
  /\ todo = {}
  /\ Goto("backup", "unmount")
  /\ UNCHANGED <<durable, memory, hist, calm>>

\* Mutated form of UnmountAborts: the failure is only logged.
UnmountAbortsNever(left) == FALSE

UnmountAborts(left) == left # {}

UnmountBeforeWipe(left) ==
  /\ stage = "unmount"
  /\ Unmount(mounts, left)
  /\ IF UnmountAborts(left)
     THEN Abort("Error")
     ELSE /\ To(IF mode = "wipe" THEN "wipeEtc" ELSE "mkfsData")
          /\ UNCHANGED status
  /\ UNCHANGED <<durable, error, mode, backup, todo, retry, notes, signal, json, hist, calm>>

(***************************************************************************)
(* The destructive phase.  Touch(p, c): partition p is changed and then    *)
(* holds c; what it held is gone.                                          *)
(***************************************************************************)
Touch(p, c, overwritten) ==
  /\ disk' = [disk EXCEPT ![p] = c]
  /\ files' = files \ On(p)
  /\ hist' = [hist EXCEPT
       !.touched = @ \cup {p},
       !.overwritten = IF overwritten THEN @ \cup {p} ELSE @,
       !.passes = IF hist.touched = {} THEN OneMore(@) ELSE @]

(***************************************************************************)
(* wipe_partitions: etc, then data.  A device that is still mounted cannot *)
(* be opened (O_EXCL).  A failure is noted and leaves the partition as it  *)
(* was or partly overwritten.                                              *)
(***************************************************************************)
WipeResults == {"ok", "refused", "partly"}

WipePart(p, result) ==
  /\ stage = (IF p = "etc" THEN "wipeEtc" ELSE "wipeData")
  /\ result \in WipeResults
  /\ result # "ok" => TRUE \in Fault
  /\ p \in mounts => result = "refused"
  /\ To(IF p = "etc" THEN "wipeData" ELSE "mkfsData")
  /\ notes' = [notes EXCEPT !.wipe = IF result = "ok" THEN @ ELSE @ \cup {p}]
  /\ IF result = "refused" THEN UNCHANGED <<disk, files, hist>>
     ELSE Touch(p, "broken", result = "ok")
  /\ UNCHANGED <<trigger, lastError, error, mode, mounts, backup, todo, retry, signal,
                 status, json, calm>>

(***************************************************************************)
(* reformat_and_mount_with_retry: mkfs of data, then of etc, each with one *)
(* retry.  A failed mkfs did nothing, or left something unusable; or the   *)
(* filesystem is there and tune2fs failed.                                 *)
(***************************************************************************)
MkfsResults == {"ok", "nothing", "broken", "tune"}

Mkfs(p, result) ==
  /\ stage = (IF p = "data" THEN "mkfsData" ELSE "mkfsEtc")
  /\ result \in MkfsResults
  /\ result # "ok" => TRUE \in Fault
  /\ IF result = "nothing" THEN UNCHANGED <<disk, files, hist>>
     ELSE Touch(p, IF result = "broken" THEN "broken" ELSE "new", FALSE)
  /\ IF result # "ok" /\ ~retry
     THEN /\ retry' = TRUE
          /\ notes' = [notes EXCEPT !.retried = @ \cup {p}]
          /\ UNCHANGED stage
     ELSE /\ To(IF p = "data" THEN "mkfsEtc" ELSE "remount")
          /\ retry' = FALSE
          /\ notes' = [notes EXCEPT !.mkfs = IF result = "ok" THEN @ ELSE @ \cup {p}]
  /\ UNCHANGED <<trigger, lastError, error, mode, mounts, backup, todo, signal, status,
                 json, calm>>

\* apply_wipe_note: a failed wipe is an Error, whatever the rest reports.
WithWipeNote(code) ==
  [code |-> IF notes.wipe # {} THEN "Error" ELSE code, wiped |-> TRUE]

(***************************************************************************)
(* The mount decides.  A failure of etc, data or their overlays is         *)
(* exhausted_outcome, with the signal; any other one is                    *)
(* destructive_phase_failure_status.                                       *)
(***************************************************************************)

DestructiveFailure == WithWipeNote("Error")

Remount(n, onPart, left) ==
  /\ stage = "remount"
  /\ MountResult(n)
  /\ n = 0 => ~onPart
  /\ n \in {1, 2} => onPart \/ TRUE \in Fault   \* or fsck asks for a reboot
  /\ IF n = 4
     THEN /\ To("restore")
          /\ mounts' = mounts \cup Mounted(n)
          /\ todo' = backup
          /\ UNCHANGED <<signal, status>>
     ELSE /\ To("record")
          /\ Unmount(Mounted(n), left)
          /\ signal' = IF onPart THEN "due" ELSE "none"
          /\ status' = IF onPart THEN WithWipeNote("Error") ELSE DestructiveFailure
          /\ UNCHANGED todo
  /\ UNCHANGED <<durable, error, mode, backup, retry, notes, json, hist, calm>>

\* restore_all goes on past a path that fails; a failed sync counts as one.
RestorePath(path, fails, copied) ==
  /\ stage = "restore" /\ path \in todo
  /\ fails \in Fault /\ (fails \/ copied)
  /\ todo' = todo \ {path}
  /\ files' = IF copied THEN files \cup {path} ELSE files
  /\ notes' = [notes EXCEPT !.restore = IF fails THEN @ \cup {path} ELSE @]
  /\ UNCHANGED <<trigger, lastError, disk, stage, error, mode, mounts, backup, retry,
                 signal, status, json, hist, calm>>

RestoreDone ==
  /\ todo = {}
  /\ Goto("restore", "leave")
  /\ UNCHANGED <<durable, memory, hist, calm>>

\* Mutated form of RestoredCode: a mkfs that failed twice is a warning.
RestoredCodeMkfsWarns ==
  IF notes.restore # {} THEN "Error"
  ELSE IF notes.retried # {} THEN "Warning" ELSE "Success"

\* restored_status
RestoredCode ==
  IF notes.restore # {} \/ notes.mkfs # {} THEN "Error"
  ELSE IF notes.retried # {} THEN "Warning" ELSE "Success"

UnmountRestored(left) ==
  /\ stage = "leave"
  /\ To("record")
  /\ Unmount(mounts, left)
  /\ status' = IF left # {} THEN DestructiveFailure ELSE WithWipeNote(RestoredCode)
  /\ UNCHANGED <<durable, error, mode, backup, todo, retry, notes, signal, json, hist, calm>>

(***************************************************************************)
(* persist_exhausted_signal and set_factory_reset; then normal::run.       *)
(***************************************************************************)

\* Mutated form of SignalSaved: nothing is written.
SignalSavedNever(fails) == lastError

SignalSaved(fails) == lastError \/ (signal = "due" /\ ~fails)

Record(fails) ==
  /\ stage = "record"
  /\ fails \in Fault /\ (fails => signal = "due")
  /\ To("normal")
  /\ lastError' = SignalSaved(fails)
  /\ signal' = IF fails THEN "unwritten" ELSE signal
  /\ todo' = {} /\ notes' = NoNotes     \* locals of run_reset
  /\ UNCHANGED <<trigger, disk, files, error, mode, mounts, backup, retry,
                 status, json, hist, calm>>

\* normal::run up to the drain: partitions (a leaked mount is skipped),
\* overlays and links.
NormalMounts(e) ==
  /\ stage = "normal"
  /\ e \in {"none", "Filesystem", "FsckRequiresReboot"}
  /\ IF e = "none"
     THEN /\ \A p \in Parts : Mountable(p)
          /\ To("status") /\ UNCHANGED error
          /\ mounts' = Mounted(3)
     ELSE /\ TRUE \in Fault \/ (e = "Filesystem" /\ \E p \in Parts : ~Mountable(p))
          /\ Stop(e) /\ UNCHANGED mounts
  /\ UNCHANGED <<durable, mode, backup, todo, retry, notes, signal,
                 status, json, hist, calm>>

WriteStatus(ok) ==
  /\ stage = "status"
  /\ IF ok
     THEN To("finish") /\ json' = status /\ UNCHANGED error
     ELSE TRUE \in Fault /\ Stop("Io") /\ UNCHANGED json
  /\ UNCHANGED <<durable, mode, mounts, backup, todo, retry, notes, signal,
                 status, hist, calm>>

\* Update validation, the marker and switch_root; ODS then has the status.
Finish(ok) ==
  /\ stage = "finish"
  /\ IF ok
     THEN /\ To("running") /\ UNCHANGED error
          /\ hist' = [hist EXCEPT !.owed = @ /\ json = NoStatus]
     ELSE TRUE \in Fault /\ Stop("Io") /\ UNCHANGED hist
  /\ UNCHANGED <<durable, mode, mounts, backup, todo, retry, notes, signal,
                 status, json, calm>>

\* main: an update that waits for its validation may be pending as well.
HandleFatalError(update_pending, rebootErr) ==
  /\ stage = "failed"
  /\ {update_pending, rebootErr} \subseteq Fault
  /\ LET outcome == handle_fatal_error(error, Release, update_pending, rebootErr)
     IN  /\ To(outcome)
         /\ IF outcome = "off" THEN FreshBoot ELSE UNCHANGED memory
  /\ UNCHANGED <<durable, hist, calm>>

(***************************************************************************)
(* The running system and the power.                                       *)
(***************************************************************************)

\* A caller asks for a reset and waits for its result.
RequestReset(t) ==
  /\ stage = "running" /\ ~calm
  /\ trigger = "none" /\ t \in Triggers \ {"none"}
  /\ trigger' = t
  /\ hist' = [hist EXCEPT !.passes = "none", !.owed = TRUE]
  /\ UNCHANGED <<lastError, disk, files, stage, memory, calm>>

\* The running system writes files.
UseDisk(f) ==
  /\ stage = "running" /\ ~calm
  /\ f \subseteq Paths
  /\ files' = f
  /\ disk' = [p \in Parts |-> "used"]
  /\ UNCHANGED <<trigger, lastError, stage, memory, hist, calm>>

Reboot ==
  /\ Goto("running", "off")
  /\ FreshBoot
  /\ UNCHANGED <<durable, hist, calm>>

\* A wipe or mkfs that is cut off has had one of its failing outcomes.
PowerLoss ==
  /\ ~calm /\ stage \notin {"off", "running", "halted", "shell"}
  /\ stage' = "off"
  /\ FreshBoot
  /\ hist' = [hist EXCEPT !.owed = FALSE]
  /\ UNCHANGED <<durable, calm>>

PowerCycle ==
  /\ stage \in {"halted", "shell"}
  /\ stage' = "off"
  /\ FreshBoot
  /\ UNCHANGED <<durable, hist, calm>>

Settle ==
  /\ ~calm
  /\ calm' = TRUE
  /\ UNCHANGED <<durable, stage, memory, hist>>

(***************************************************************************)
(* The specification.                                                      *)
(***************************************************************************)
Lefts == SUBSET (Parts \cup {"factory"})

InitStep ==
  \/ StartBoot
  \/ \E e \in {"Filesystem", "ExtraBootArgsUpdated"} : SetupFails(e)
  \/ \E r \in BOOLEAN : Detect(r)
  \/ \E f \in BOOLEAN, c \in {"Invalid", "ConfigError"} : ClearTrigger(f, c)
  \/ \E n \in 0 .. 4, l \in Lefts : MountForBackup(n, l)
  \/ \E c \in {"none", "ConfigError", "Error"}, l \in Lefts : BuildPreserveList(c, l)
  \/ \E p \in Paths, f \in BOOLEAN, l \in Lefts : BackupPath(p, f, l)
  \/ BackupDone
  \/ \E l \in Lefts : UnmountBeforeWipe(l)
  \/ \E p \in Parts, r \in WipeResults : WipePart(p, r)
  \/ \E p \in Parts, r \in MkfsResults : Mkfs(p, r)
  \/ \E n \in 0 .. 4, o \in BOOLEAN, l \in Lefts : Remount(n, o, l)
  \/ \E p \in Paths, f, c \in BOOLEAN : RestorePath(p, f, c)
  \/ RestoreDone
  \/ \E l \in Lefts : UnmountRestored(l)
  \/ \E f \in BOOLEAN : Record(f)
  \/ \E e \in {"none", "Filesystem", "FsckRequiresReboot"} : NormalMounts(e)
  \/ \E k \in BOOLEAN : WriteStatus(k)
  \/ \E k \in BOOLEAN : Finish(k)
  \/ \E u, r \in BOOLEAN : HandleFatalError(u, r)

Surroundings ==
  \/ \E t \in Triggers : RequestReset(t)
  \/ \E f \in SUBSET Paths : UseDisk(f)
  \/ Reboot \/ PowerLoss \/ PowerCycle \/ Settle

Next == InitStep \/ Surroundings

Spec == Init /\ [][Next]_vars

\* The init is the only process of a boot and takes its next step.
FairSpec == Spec /\ WF_vars(InitStep)

-----------------------------------------------------------------------------
(***************************************************************************)
(* Properties.                                                             *)
(***************************************************************************)

(***************************************************************************)
(* The status says what happened.  data_wiped = false: neither partition   *)
(* was changed.  Success or Warning: both filesystems are new, every file  *)
(* to preserve that existed is back, and with a mode that wipes both       *)
(* partitions were overwritten completely.                                 *)
(***************************************************************************)
StatusTruthful ==
  status # NoStatus /\ stage # "running" =>
    /\ ~status.wiped => hist.touched = {}
    /\ status.code \in {"Success", "Warning"} =>
         /\ \A p \in Parts : disk[p] = "new"
         /\ hist.before \subseteq files
         /\ mode = "wipe" => hist.overwritten = Parts

(***************************************************************************)
(* While a boot lasts, a file to preserve that existed at its start is on  *)
(* its partition or in the backup: run_reset destroys nothing before       *)
(* backup_all has copied everything.                                       *)
(***************************************************************************)
PreservedSomewhere ==
  stage \notin {"off", "running"} => hist.before \subseteq files \cup backup

(***************************************************************************)
(* A partition is wiped or formatted only while it is not mounted; mkfs -F *)
(* does not ask.                                                           *)
(***************************************************************************)
DestroyedUnmounted ==
  [][\A p \in Parts : disk'[p] # disk[p] /\ stage # "running" => p \notin mounts]_vars

(***************************************************************************)
(* One request destroys the data at most once, also over a power loss:     *)
(* answer_trigger deletes the variable first.  Excused is a deletion that  *)
(* failed, which the code accepts.                                         *)
(***************************************************************************)
ResetNotRepeated == hist.passes # "more"

(***************************************************************************)
(* When a boot stops because etc or data could not be prepared, the cause  *)
(* is in the boot environment, unless that write failed.                   *)
(***************************************************************************)
FailureSignalled ==
  stage \in {"halted", "shell"} /\ signal = "due" => lastError

(***************************************************************************)
(* "always completes with a FactoryResetStatus recorded in the ODS status  *)
(* JSON": a running system without the request has the answer, at least    *)
(* when the power did not fail.                                            *)
(***************************************************************************)
ResetAlwaysRecorded ==
  stage = "running" /\ hist.owed => trigger # "none"

(***************************************************************************)
(* Once nothing fails any more, a request is answered by the boot that     *)
(* finds it - an unusable one too - provided both partitions can be        *)
(* mounted, and it is then gone.                                           *)
(***************************************************************************)
ResetAnswered ==
  calm /\ stage = "off" /\ trigger # "none" /\ (\A p \in Parts : Mountable(p)) ~>
    /\ stage = "running" /\ trigger = "none"
    /\ json.code \in (IF mode = "bad" THEN {"Invalid", "ConfigError"} ELSE {"Success"})
=============================================================================
