------------------------- MODULE FactoryResetProofs -------------------------
(***************************************************************************)
(* Theorems about FactoryReset, for both image types and every list of     *)
(* paths to preserve.  IInv is the inductive invariant: what run_reset may *)
(* rely on at each of its steps about the disk, the backup and the notes.  *)
(***************************************************************************)
EXTENDS FactoryReset, TLAPS

-----------------------------------------------------------------------------
(***************************************************************************)
(* The stages of a boot in groups: before the first change of a partition, *)
(* while partitions are changed, the way back, and the end of the boot     *)
(* behind the reset.                                                       *)
(***************************************************************************)
Careful == {"detect", "clear", "mount", "preserve", "backup", "unmount"}
Destroying == {"wipeEtc", "wipeData", "mkfsData", "mkfsEtc"}
Returning == {"remount", "restore", "leave"}
Behind == {"record", "normal", "status", "finish", "failed", "halted", "shell"}

\* Nothing is changed before the destructive phase.
UntouchedYet ==
  stage \in Careful =>
    hist.touched = {} /\ hist.overwritten = {} /\ hist.before = files

\* The backup has, or will have, everything that was there.
BackupComplete ==
  /\ stage = "backup" => hist.before \subseteq backup \cup todo
  /\ stage \in {"unmount"} \cup Destroying \cup Returning => hist.before \subseteq backup

\* A path that was not restored is noted.
RestoreNoted ==
  /\ stage \in {"restore", "leave"} => backup \subseteq files \cup todo \cup notes.restore
  /\ stage = "leave" => todo = {}

\* A partition without a new filesystem is noted.
MkfsNoted ==
  /\ stage \in {"mkfsEtc"} \cup Returning => "data" \in notes.mkfs \/ disk["data"] = "new"
  /\ stage \in Returning => "etc" \in notes.mkfs \/ disk["etc"] = "new"

\* A partition that was to be overwritten and was not is noted.
WipeNoted ==
  mode = "wipe" =>
    /\ stage \in {"wipeData", "mkfsData", "mkfsEtc"} \cup Returning =>
         "etc" \in notes.wipe \cup hist.overwritten
    /\ stage \in {"mkfsData", "mkfsEtc"} \cup Returning =>
         "data" \in notes.wipe \cup hist.overwritten

\* A boot has no result before run_reset returns one.
NoResultYet ==
  stage \in {"off"} \cup Careful \cup Destroying \cup Returning =>
    status = NoStatus /\ signal = "none"

\* Nothing is mounted in the destructive phase.
UnmountedThen == stage \in Destroying => mounts = {}

\* A trigger that is still set has not destroyed anything, or could not be deleted.
TriggerSpent ==
  /\ hist.passes # "more"
  /\ trigger # "none" => hist.passes \in {"none", "excused"}
  /\ stage = "clear" => trigger # "none"
  /\ stage \in (Careful \cup Destroying) \ {"detect", "clear"} =>
       /\ trigger # "none" => hist.passes = "excused"
       /\ hist.touched = {} => hist.passes \in {"none", "excused"}

\* What is due in the boot environment is there once Record is done.
SignalKept == stage \in Behind \ {"record"} /\ signal = "due" => lastError

IInv ==
  /\ TypeOK
  /\ UntouchedYet
  /\ BackupComplete
  /\ PreservedSomewhere
  /\ RestoreNoted
  /\ MkfsNoted
  /\ WipeNoted
  /\ NoResultYet
  /\ StatusTruthful
  /\ UnmountedThen
  /\ TriggerSpent
  /\ SignalKept

-----------------------------------------------------------------------------
(***************************************************************************)
(* Types.                                                                  *)
(***************************************************************************)

(***************************************************************************)
(* The outcome of main.rs's handle_fatal_error is a stage of the boot.     *)
(***************************************************************************)
LEMMA OutcomeType ==
  ASSUME NEW e, NEW pending \in BOOLEAN, NEW reboot_fails \in BOOLEAN
  PROVE  handle_fatal_error(e, Release, pending, reboot_fails)
           \in {"off", "halted", "shell"}
BY DEF handle_fatal_error, StopStage, decide, recovery_class

(***************************************************************************)
(* factory_reset_mount mounts no more than factory, etc and data.          *)
(***************************************************************************)
LEMMA MountedType ==
  ASSUME NEW n \in 0 .. 4
  PROVE  Mounted(n) \subseteq Parts \cup {"factory"}
<1>1. \A i \in 1 .. n : i = 1 \/ i = 2 \/ i = 3 \/ i = 4
  OBVIOUS
<1> QED
  BY <1>1 DEF Mounted, MountOrder, Parts

(***************************************************************************)
(* Every result run_reset can return is a status.                          *)
(***************************************************************************)
LEMMA StatusType ==
  /\ NoStatus \in Statuses
  /\ \A c \in Codes : Aborted(c) \in Statuses /\ WithWipeNote(c) \in Statuses
BY DEF Statuses, NoStatus, Codes, Aborted, WithWipeNote

(***************************************************************************)
(* A boot starts with empty notes.                                         *)
(***************************************************************************)
LEMMA NoNotesType ==
  NoNotes \in [wipe: SUBSET Parts, retried: SUBSET Parts, mkfs: SUBSET Parts,
               restore: SUBSET Paths]
BY DEF NoNotes

(***************************************************************************)
(* What changing a partition does: it holds something else and its files   *)
(* are gone; the other partition, and what the boot knows of its start,    *)
(* are as before.                                                          *)
(***************************************************************************)
LEMMA TouchEffect ==
  ASSUME TypeOK, NEW p \in Parts, NEW c \in Contents, NEW o \in BOOLEAN, Touch(p, c, o)
  PROVE  /\ hist' \in Hists /\ disk' \in [Parts -> Contents] /\ files' \subseteq Paths
         /\ hist'.before = hist.before /\ hist'.owed = hist.owed
         /\ hist'.touched = hist.touched \cup {p}
         /\ hist'.overwritten = IF o THEN hist.overwritten \cup {p} ELSE hist.overwritten
         /\ hist'.passes = IF hist.touched = {} THEN OneMore(hist.passes) ELSE hist.passes
         /\ disk'[p] = c /\ \A q \in Parts \ {p} : disk'[q] = disk[q]
<1>1. OneMore(hist.passes) \in {"none", "one", "more", "excused"}
  BY DEF TypeOK, Hists, OneMore
<1>2. hist.touched \cup {p} \subseteq Parts /\ hist.overwritten \cup {p} \subseteq Parts
  BY DEF TypeOK, Hists
<1>3. CASE o
  BY <1>1, <1>2, <1>3 DEF TypeOK, Touch, Hists
<1>4. CASE ~o
  BY <1>1, <1>2, <1>4 DEF TypeOK, Touch, Hists
<1> QED
  BY <1>3, <1>4

(***************************************************************************)
(* Every step keeps the types.                                             *)
(***************************************************************************)
LEMMA TypeStep ==
  ASSUME TypeOK, [Next]_vars
  PROVE  TypeOK'
<1> USE DEF TypeOK, Stages, Lefts
<1>1. CASE StartBoot
  <2>1. hist' \in Hists
    BY <1>1 DEF StartBoot, Hists
  <2> QED
    BY <1>1, <2>1 DEF StartBoot, Goto, To, durable, memory
<1>2. ASSUME NEW e \in {"Filesystem", "ExtraBootArgsUpdated"}, SetupFails(e)
      PROVE  TypeOK'
  BY <1>2 DEF SetupFails, Stop, To, durable, memory, Errors, RebootErrors, FatalErrors
<1>3. ASSUME NEW r \in BOOLEAN, Detect(r) PROVE TypeOK'
  BY <1>3 DEF Detect, Dispatches, To, durable, memory, Triggers
<1>4. ASSUME NEW f \in BOOLEAN, NEW c \in {"Invalid", "ConfigError"}, ClearTrigger(f, c)
      PROVE  TypeOK'
  <2>1. hist' \in Hists
    BY <1>4 DEF ClearTrigger, Hists
  <2>2. status' \in Statuses
    BY <1>4, StatusType DEF ClearTrigger, Codes
  <2> QED
    BY <1>4, <2>1, <2>2 DEF ClearTrigger, TriggerAfterClear, To, Triggers
<1>5. ASSUME NEW n \in 0 .. 4, NEW l \in Lefts, MountForBackup(n, l) PROVE TypeOK'
  <2>1. mounts' \subseteq Parts \cup {"factory"}
    BY <1>5, MountedType DEF MountForBackup, Unmount
  <2>2. status' \in Statuses
    BY <1>5, StatusType DEF MountForBackup, Abort, Codes
  <2> QED
    BY <1>5, <2>1, <2>2 DEF MountForBackup, Abort, To, durable
<1>6. ASSUME NEW c \in {"none", "ConfigError", "Error"}, NEW l \in Lefts,
             BuildPreserveList(c, l)
      PROVE  TypeOK'
  <2>1. status' \in Statuses
    BY <1>6, StatusType DEF BuildPreserveList, Abort, Codes
  <2> QED
    BY <1>6, <2>1 DEF BuildPreserveList, Unmount, Abort, To, durable
<1>7. ASSUME NEW p \in Paths, NEW f \in BOOLEAN, NEW l \in Lefts, BackupPath(p, f, l)
      PROVE  TypeOK'
  <2>1. status' \in Statuses
    BY <1>7, StatusType DEF BackupPath, Abort, Codes
  <2> QED
    BY <1>7, <2>1 DEF BackupPath, Unmount, Abort, To, durable
<1>8. CASE BackupDone
  BY <1>8 DEF BackupDone, Goto, To, durable, memory
<1>9. ASSUME NEW l \in Lefts, UnmountBeforeWipe(l) PROVE TypeOK'
  <2>1. status' \in Statuses
    BY <1>9, StatusType DEF UnmountBeforeWipe, Abort, Codes
  <2> QED
    BY <1>9, <2>1 DEF UnmountBeforeWipe, Unmount, Abort, To, durable
<1>10. ASSUME NEW p \in Parts, NEW r \in WipeResults, WipePart(p, r) PROVE TypeOK'
  <2>1. /\ hist' \in Hists
        /\ disk' \in [Parts -> Contents] /\ files' \subseteq Paths
    <3>1. CASE r = "refused"
      BY <1>10, <3>1 DEF WipePart
    <3>2. CASE r # "refused"
      <4>1. Touch(p, "broken", r = "ok") /\ "broken" \in Contents /\ (r = "ok") \in BOOLEAN
        BY <1>10, <3>2 DEF WipePart, Contents
      <4> QED
        BY <4>1, TouchEffect
    <3> QED
      BY <3>1, <3>2
  <2>2. notes' \in [wipe: SUBSET Parts, retried: SUBSET Parts, mkfs: SUBSET Parts,
                    restore: SUBSET Paths]
    BY <1>10 DEF WipePart
  <2> QED
    BY <1>10, <2>1, <2>2 DEF WipePart, To
<1>11. ASSUME NEW p \in Parts, NEW r \in MkfsResults, Mkfs(p, r) PROVE TypeOK'
  <2>1. /\ hist' \in Hists
        /\ disk' \in [Parts -> Contents] /\ files' \subseteq Paths
    <3>1. CASE r = "nothing"
      BY <1>11, <3>1 DEF Mkfs
    <3>2. CASE r # "nothing"
      <4>1. PICK c \in Contents : Touch(p, c, FALSE)
        BY <1>11, <3>2 DEF Mkfs, Contents
      <4> QED
        BY <4>1, TouchEffect
    <3> QED
      BY <3>1, <3>2
  <2>2. stage' \in Stages /\ retry' \in BOOLEAN
    BY <1>11 DEF Mkfs, To
  <2>3. notes' \in [wipe: SUBSET Parts, retried: SUBSET Parts, mkfs: SUBSET Parts,
                    restore: SUBSET Paths]
    BY <1>11 DEF Mkfs
  <2> QED
    BY <1>11, <2>1, <2>2, <2>3 DEF Mkfs
<1>12. ASSUME NEW n \in 0 .. 4, NEW o \in BOOLEAN, NEW l \in Lefts, Remount(n, o, l)
       PROVE  TypeOK'
  <2>1. Mounted(n) \subseteq Parts \cup {"factory"}
    BY MountedType
  <2>2. mounts' \subseteq Parts \cup {"factory"}
    BY <1>12, <2>1 DEF Remount, Unmount
  <2>3. status' \in Statuses
    BY <1>12, StatusType DEF Remount, DestructiveFailure, Codes
  <2> QED
    BY <1>12, <2>2, <2>3 DEF Remount, To, durable
<1>13. ASSUME NEW p \in Paths, NEW f \in BOOLEAN, NEW c \in BOOLEAN,
              RestorePath(p, f, c)
       PROVE  TypeOK'
  BY <1>13 DEF RestorePath, durable, memory
<1>14. CASE RestoreDone
  BY <1>14 DEF RestoreDone, Goto, To, durable, memory
<1>15. ASSUME NEW l \in Lefts, UnmountRestored(l) PROVE TypeOK'
  <2>1. RestoredCode \in Codes /\ "Error" \in Codes
    BY DEF RestoredCode, Codes
  <2>2. status' \in Statuses
    BY <1>15, <2>1, StatusType DEF UnmountRestored, DestructiveFailure
  <2> QED
    BY <1>15, <2>2 DEF UnmountRestored, Unmount, To, durable
<1>16. ASSUME NEW f \in BOOLEAN, Record(f) PROVE TypeOK'
  BY <1>16, NoNotesType DEF Record, SignalSaved, To
<1>17. ASSUME NEW e \in {"none", "Filesystem", "FsckRequiresReboot"}, NormalMounts(e)
       PROVE  TypeOK'
  <2>1. mounts' \subseteq Parts \cup {"factory"}
    <3>1. 3 \in 0 .. 4
      OBVIOUS
    <3>2. Mounted(3) \subseteq Parts \cup {"factory"}
      BY <3>1, MountedType
    <3> QED
      BY <1>17, <3>2 DEF NormalMounts
  <2> QED
    BY <1>17, <2>1 DEF NormalMounts, Stop, To, durable, Errors, RebootErrors, FatalErrors
<1>18. ASSUME NEW k \in BOOLEAN, WriteStatus(k) PROVE TypeOK'
  BY <1>18 DEF WriteStatus, Stop, To, durable, memory, Errors, FatalErrors
<1>19. ASSUME NEW k \in BOOLEAN, Finish(k) PROVE TypeOK'
  <2>1. hist' \in Hists
    BY <1>19 DEF Finish, Hists
  <2> QED
    BY <1>19, <2>1 DEF Finish, Stop, To, durable, Errors, FatalErrors
<1>20. ASSUME NEW u \in BOOLEAN, NEW r \in BOOLEAN, HandleFatalError(u, r) PROVE TypeOK'
  <2>1. handle_fatal_error(error, Release, u, r) \in {"off", "halted", "shell"}
    BY OutcomeType
  <2> QED
    BY <1>20, <2>1, StatusType, NoNotesType DEF HandleFatalError, FreshBoot, To, durable,
         memory, Triggers
<1>21. ASSUME NEW t \in Triggers, RequestReset(t) PROVE TypeOK'
  <2>1. hist' \in Hists
    BY <1>21 DEF RequestReset, Hists
  <2> QED
    BY <1>21, <2>1 DEF RequestReset, memory
<1>22. ASSUME NEW f \in SUBSET Paths, UseDisk(f) PROVE TypeOK'
  BY <1>22 DEF UseDisk, durable, memory, Contents
<1>23. CASE Reboot
  BY <1>23, StatusType, NoNotesType DEF Reboot, FreshBoot, Goto, To, durable, Triggers
<1>24. CASE PowerLoss
  <2>1. hist' \in Hists
    BY <1>24 DEF PowerLoss, Hists
  <2> QED
    BY <1>24, <2>1, StatusType, NoNotesType DEF PowerLoss, FreshBoot, durable, Triggers
<1>25. CASE PowerCycle
  BY <1>25, StatusType, NoNotesType DEF PowerCycle, FreshBoot, durable, Triggers
<1>26. CASE Settle
  BY <1>26 DEF Settle, durable, memory
<1>27. CASE UNCHANGED vars
  BY <1>27 DEF vars, durable, memory
<1> QED
  BY <1>1, <1>2, <1>3, <1>4, <1>5, <1>6, <1>7, <1>8, <1>9, <1>10, <1>11, <1>12, <1>13,
       <1>14, <1>15, <1>16, <1>17, <1>18, <1>19, <1>20, <1>21, <1>22, <1>23, <1>24,
       <1>25, <1>26, <1>27 DEF Next, InitStep, Surroundings

(***************************************************************************)
(* What wiping a partition or formatting it leaves alone, and what it      *)
(* counts: the first change of a boot is one more pass over the data.      *)
(***************************************************************************)
LEMMA DestroyEffect ==
  ASSUME TypeOK, NEW p \in Parts,
         \/ \E r \in WipeResults : WipePart(p, r)
         \/ \E r \in MkfsResults : Mkfs(p, r)
  PROVE  /\ hist'.before = hist.before
         /\ hist.touched \subseteq hist'.touched
         /\ hist.overwritten \subseteq hist'.overwritten
         /\ \/ hist'.passes = hist.passes /\ (hist'.touched # {} => hist.touched # {})
            \/ /\ hist.touched = {} /\ hist'.touched # {}
               /\ hist'.passes = OneMore(hist.passes)
<1>1. CASE hist' = hist
  BY <1>1
<1>2. ASSUME NEW c \in Contents, NEW o \in BOOLEAN, Touch(p, c, o)
      PROVE  /\ hist'.before = hist.before
             /\ hist.touched \subseteq hist'.touched
             /\ hist.overwritten \subseteq hist'.overwritten
             /\ \/ hist'.passes = hist.passes /\ (hist'.touched # {} => hist.touched # {})
                \/ /\ hist.touched = {} /\ hist'.touched # {}
                   /\ hist'.passes = OneMore(hist.passes)
  BY <1>2, TouchEffect
<1>3. ASSUME NEW r \in WipeResults, WipePart(p, r)
      PROVE  hist' = hist \/ \E c \in Contents, o \in BOOLEAN : Touch(p, c, o)
  <2>1. r # "refused" =>
          Touch(p, "broken", r = "ok") /\ "broken" \in Contents /\ (r = "ok") \in BOOLEAN
    BY <1>3 DEF WipePart, Contents
  <2> QED
    BY <1>3, <2>1 DEF WipePart
<1>4. ASSUME NEW r \in MkfsResults, Mkfs(p, r)
      PROVE  hist' = hist \/ \E c \in Contents, o \in BOOLEAN : Touch(p, c, o)
  <2>1. r # "nothing" => \E c \in Contents : Touch(p, c, FALSE)
    BY <1>4 DEF Mkfs, Contents
  <2> QED
    BY <1>4, <2>1 DEF Mkfs
<1> QED
  BY <1>1, <1>2, <1>3, <1>4

-----------------------------------------------------------------------------
(***************************************************************************)
(* The parts of the invariant, by concern.                                 *)
(***************************************************************************)

(***************************************************************************)
(* Nothing that has to be preserved is destroyed before it is in the       *)
(* backup: up to the unmount the disk is as the boot found it, and then    *)
(* the backup is complete.                                                 *)
(***************************************************************************)
LEMMA BackupStep ==
  ASSUME TypeOK, TypeOK',
         UntouchedYet, BackupComplete, PreservedSomewhere, [Next]_vars
  PROVE  (UntouchedYet /\ BackupComplete /\ PreservedSomewhere)'
<1> USE DEF UntouchedYet, BackupComplete, PreservedSomewhere, Careful, Destroying, Returning
<1>1. CASE StartBoot
  BY <1>1 DEF StartBoot, Goto, To, durable, memory, TypeOK, Hists
<1>2. ASSUME NEW e \in {"Filesystem", "ExtraBootArgsUpdated"}, SetupFails(e)
      PROVE  (UntouchedYet /\ BackupComplete /\ PreservedSomewhere)'
  BY <1>2 DEF SetupFails, Stop, To, durable, memory
<1>3. ASSUME NEW r \in BOOLEAN, Detect(r)
      PROVE  (UntouchedYet /\ BackupComplete /\ PreservedSomewhere)'
  BY <1>3 DEF Detect, Dispatches, To, durable, memory
<1>4. ASSUME NEW f \in BOOLEAN, NEW c \in {"Invalid", "ConfigError"}, ClearTrigger(f, c)
      PROVE  (UntouchedYet /\ BackupComplete /\ PreservedSomewhere)'
  BY <1>4 DEF ClearTrigger, TriggerAfterClear, Aborted, To, durable, memory, TypeOK,
       Hists
<1>5. ASSUME NEW n \in 0 .. 4, NEW l \in Lefts, MountForBackup(n, l)
      PROVE  (UntouchedYet /\ BackupComplete /\ PreservedSomewhere)'
  BY <1>5 DEF MountForBackup, Unmount, Abort, Aborted, To, durable, memory
<1>6. ASSUME NEW c \in {"none", "ConfigError", "Error"}, NEW l \in Lefts,
             BuildPreserveList(c, l)
      PROVE  (UntouchedYet /\ BackupComplete /\ PreservedSomewhere)'
  BY <1>6 DEF BuildPreserveList, Unmount, Abort, Aborted, To, durable, memory, TypeOK,
       Hists
<1>7. ASSUME NEW p \in Paths, NEW f \in BOOLEAN, NEW l \in Lefts, BackupPath(p, f, l)
      PROVE  (UntouchedYet /\ BackupComplete /\ PreservedSomewhere)'
  BY <1>7 DEF BackupPath, BackupAborts, Unmount, Abort, Aborted, To, durable, memory
<1>8. CASE BackupDone
  BY <1>8 DEF BackupDone, Goto, To, durable, memory
<1>9. ASSUME NEW l \in Lefts, UnmountBeforeWipe(l)
      PROVE  (UntouchedYet /\ BackupComplete /\ PreservedSomewhere)'
  BY <1>9 DEF UnmountBeforeWipe, UnmountAborts, Unmount, Abort, Aborted, To, durable,
       memory
<1>10. ASSUME NEW p \in Parts, NEW r \in WipeResults, WipePart(p, r)
       PROVE  (UntouchedYet /\ BackupComplete /\ PreservedSomewhere)'
  <2>1. hist'.before = hist.before
    BY <1>10, DestroyEffect
  <2> QED
    BY <1>10, <2>1 DEF WipePart, To, Parts
<1>11. ASSUME NEW p \in Parts, NEW r \in MkfsResults, Mkfs(p, r)
       PROVE  (UntouchedYet /\ BackupComplete /\ PreservedSomewhere)'
  <2>1. hist'.before = hist.before
    BY <1>11, DestroyEffect
  <2> QED
    BY <1>11, <2>1 DEF Mkfs, To, Parts
<1>12. ASSUME NEW n \in 0 .. 4, NEW o \in BOOLEAN, NEW l \in Lefts, Remount(n, o, l)
       PROVE  (UntouchedYet /\ BackupComplete /\ PreservedSomewhere)'
  BY <1>12 DEF Remount, Unmount, WithWipeNote, DestructiveFailure, To, durable, memory
<1>13. ASSUME NEW p \in Paths, NEW f \in BOOLEAN, NEW c \in BOOLEAN,
              RestorePath(p, f, c)
       PROVE  (UntouchedYet /\ BackupComplete /\ PreservedSomewhere)'
  BY <1>13 DEF RestorePath, durable, memory
<1>14. CASE RestoreDone
  BY <1>14 DEF RestoreDone, Goto, To, durable, memory
<1>15. ASSUME NEW l \in Lefts, UnmountRestored(l)
       PROVE  (UntouchedYet /\ BackupComplete /\ PreservedSomewhere)'
  BY <1>15 DEF UnmountRestored, Unmount, WithWipeNote, DestructiveFailure, RestoredCode,
       To, durable, memory
<1>16. ASSUME NEW f \in BOOLEAN, Record(f)
       PROVE  (UntouchedYet /\ BackupComplete /\ PreservedSomewhere)'
  BY <1>16 DEF Record, SignalSaved, To, durable, memory
<1>17. ASSUME NEW e \in {"none", "Filesystem", "FsckRequiresReboot"}, NormalMounts(e)
       PROVE  (UntouchedYet /\ BackupComplete /\ PreservedSomewhere)'
  BY <1>17 DEF NormalMounts, Stop, To, durable, memory
<1>18. ASSUME NEW k \in BOOLEAN, WriteStatus(k)
       PROVE  (UntouchedYet /\ BackupComplete /\ PreservedSomewhere)'
  BY <1>18 DEF WriteStatus, Stop, To, durable, memory
<1>19. ASSUME NEW k \in BOOLEAN, Finish(k)
       PROVE  (UntouchedYet /\ BackupComplete /\ PreservedSomewhere)'
  BY <1>19 DEF Finish, Stop, To, durable, memory, TypeOK, Hists
<1>20. ASSUME NEW u \in BOOLEAN, NEW r \in BOOLEAN, HandleFatalError(u, r)
       PROVE  (UntouchedYet /\ BackupComplete /\ PreservedSomewhere)'
  <2>1. handle_fatal_error(error, Release, u, r) \in {"off", "halted", "shell"}
    BY OutcomeType
  <2> QED
    BY <1>20, <2>1 DEF HandleFatalError, FreshBoot, To, durable, memory
<1>21. ASSUME NEW t \in Triggers, RequestReset(t)
       PROVE  (UntouchedYet /\ BackupComplete /\ PreservedSomewhere)'
  BY <1>21 DEF RequestReset, durable, memory, TypeOK, Hists
<1>22. ASSUME NEW f \in SUBSET Paths, UseDisk(f)
       PROVE  (UntouchedYet /\ BackupComplete /\ PreservedSomewhere)'
  BY <1>22 DEF UseDisk, durable, memory
<1>23. CASE Reboot
  BY <1>23 DEF Reboot, FreshBoot, Goto, To, durable, memory
<1>24. CASE PowerLoss
  BY <1>24 DEF PowerLoss, FreshBoot, durable, memory, TypeOK, Hists
<1>25. CASE PowerCycle
  BY <1>25 DEF PowerCycle, FreshBoot, durable, memory
<1>26. CASE Settle
  BY <1>26 DEF Settle, durable, memory
<1>27. CASE UNCHANGED vars
  BY <1>27 DEF vars, durable, memory
<1> QED
  BY <1>1, <1>2, <1>3, <1>4, <1>5, <1>6, <1>7, <1>8, <1>9, <1>10, <1>11, <1>12, <1>13,
       <1>14, <1>15, <1>16, <1>17, <1>18, <1>19, <1>20, <1>21, <1>22, <1>23, <1>24,
       <1>25, <1>26, <1>27 DEF Next, InitStep, Surroundings

(***************************************************************************)
(* A path that is not back, a partition without a new filesystem and one   *)
(* that was not overwritten are in the notes of run_reset.                 *)
(***************************************************************************)
LEMMA NotesStep ==
  ASSUME TypeOK, TypeOK',
         RestoreNoted, MkfsNoted, WipeNoted, [Next]_vars
  PROVE  (RestoreNoted /\ MkfsNoted /\ WipeNoted)'
<1> USE DEF RestoreNoted, MkfsNoted, WipeNoted, Returning
<1>1. CASE StartBoot
  BY <1>1 DEF StartBoot, Goto, To, durable, memory, TypeOK, Hists
<1>2. ASSUME NEW e \in {"Filesystem", "ExtraBootArgsUpdated"}, SetupFails(e)
      PROVE  (RestoreNoted /\ MkfsNoted /\ WipeNoted)'
  BY <1>2 DEF SetupFails, Stop, To, durable, memory
<1>3. ASSUME NEW r \in BOOLEAN, Detect(r)
      PROVE  (RestoreNoted /\ MkfsNoted /\ WipeNoted)'
  BY <1>3 DEF Detect, Dispatches, To, durable, memory
<1>4. ASSUME NEW f \in BOOLEAN, NEW c \in {"Invalid", "ConfigError"}, ClearTrigger(f, c)
      PROVE  (RestoreNoted /\ MkfsNoted /\ WipeNoted)'
  BY <1>4 DEF ClearTrigger, TriggerAfterClear, Aborted, To, durable, memory, TypeOK,
       Hists
<1>5. ASSUME NEW n \in 0 .. 4, NEW l \in Lefts, MountForBackup(n, l)
      PROVE  (RestoreNoted /\ MkfsNoted /\ WipeNoted)'
  BY <1>5 DEF MountForBackup, Unmount, Abort, Aborted, To, durable, memory
<1>6. ASSUME NEW c \in {"none", "ConfigError", "Error"}, NEW l \in Lefts,
             BuildPreserveList(c, l)
      PROVE  (RestoreNoted /\ MkfsNoted /\ WipeNoted)'
  BY <1>6 DEF BuildPreserveList, Unmount, Abort, Aborted, To, durable, memory
<1>7. ASSUME NEW p \in Paths, NEW f \in BOOLEAN, NEW l \in Lefts, BackupPath(p, f, l)
      PROVE  (RestoreNoted /\ MkfsNoted /\ WipeNoted)'
  BY <1>7 DEF BackupPath, BackupAborts, Unmount, Abort, Aborted, To, durable, memory
<1>8. CASE BackupDone
  BY <1>8 DEF BackupDone, Goto, To, durable, memory
<1>9. ASSUME NEW l \in Lefts, UnmountBeforeWipe(l)
      PROVE  (RestoreNoted /\ MkfsNoted /\ WipeNoted)'
  BY <1>9 DEF UnmountBeforeWipe, UnmountAborts, Unmount, Abort, Aborted, To, durable,
       memory
<1>10. ASSUME NEW p \in Parts, NEW r \in WipeResults, WipePart(p, r)
       PROVE  (RestoreNoted /\ MkfsNoted /\ WipeNoted)'
  <2>1. hist.overwritten \subseteq hist'.overwritten
    BY <1>10, DestroyEffect
  <2>2. p \in notes'.wipe \cup hist'.overwritten /\ notes.wipe \subseteq notes'.wipe
    <3>1. CASE r # "ok"
      BY <1>10, <3>1 DEF WipePart, TypeOK
    <3>2. CASE r = "ok"
      <4>1. Touch(p, "broken", TRUE) /\ "broken" \in Contents
        BY <1>10, <3>2 DEF WipePart, Contents
      <4>2. p \in hist'.overwritten
        BY <4>1, TouchEffect
      <4> QED
        BY <1>10, <3>2, <4>2 DEF WipePart, TypeOK
    <3> QED
      BY <3>1, <3>2
  <2> QED
    BY <1>10, <2>1, <2>2 DEF WipePart, To, Parts
<1>11. ASSUME NEW p \in Parts, NEW r \in MkfsResults, Mkfs(p, r)
       PROVE  (RestoreNoted /\ MkfsNoted /\ WipeNoted)'
  <2>1. hist.overwritten \subseteq hist'.overwritten
    BY <1>11, DestroyEffect
  <2>2. /\ notes'.wipe = notes.wipe
        /\ notes.mkfs \subseteq notes'.mkfs
    BY <1>11 DEF Mkfs, TypeOK
  <2>3. /\ stage' # stage => p \in notes'.mkfs \/ disk'[p] = "new"
        /\ \A q \in Parts \ {p} : disk'[q] = disk[q]
    <3>1. CASE r = "nothing"
      BY <1>11, <3>1 DEF Mkfs, TypeOK
    <3>2. CASE r # "nothing"
      <4> DEFINE c == IF r = "broken" THEN "broken" ELSE "new"
      <4>1. Touch(p, c, FALSE) /\ c \in Contents
        BY <1>11, <3>2 DEF Mkfs, Contents
      <4>2. disk'[p] = c /\ \A q \in Parts \ {p} : disk'[q] = disk[q]
        BY <4>1, TouchEffect
      <4> QED
        BY <1>11, <3>2, <4>2 DEF Mkfs, To, TypeOK
    <3> QED
      BY <3>1, <3>2
  <2> QED
    BY <1>11, <2>1, <2>2, <2>3 DEF Mkfs, To, Parts
<1>12. ASSUME NEW n \in 0 .. 4, NEW o \in BOOLEAN, NEW l \in Lefts, Remount(n, o, l)
       PROVE  (RestoreNoted /\ MkfsNoted /\ WipeNoted)'
  BY <1>12 DEF Remount, Unmount, WithWipeNote, DestructiveFailure, To, durable, memory
<1>13. ASSUME NEW p \in Paths, NEW f \in BOOLEAN, NEW c \in BOOLEAN,
              RestorePath(p, f, c)
       PROVE  (RestoreNoted /\ MkfsNoted /\ WipeNoted)'
  BY <1>13 DEF RestorePath, durable, memory, TypeOK, Hists
<1>14. CASE RestoreDone
  BY <1>14 DEF RestoreDone, Goto, To, durable, memory
<1>15. ASSUME NEW l \in Lefts, UnmountRestored(l)
       PROVE  (RestoreNoted /\ MkfsNoted /\ WipeNoted)'
  BY <1>15 DEF UnmountRestored, Unmount, WithWipeNote, DestructiveFailure, RestoredCode,
       To, durable, memory
<1>16. ASSUME NEW f \in BOOLEAN, Record(f)
       PROVE  (RestoreNoted /\ MkfsNoted /\ WipeNoted)'
  BY <1>16 DEF Record, SignalSaved, To, durable, memory
<1>17. ASSUME NEW e \in {"none", "Filesystem", "FsckRequiresReboot"}, NormalMounts(e)
       PROVE  (RestoreNoted /\ MkfsNoted /\ WipeNoted)'
  BY <1>17 DEF NormalMounts, Stop, To, durable, memory
<1>18. ASSUME NEW k \in BOOLEAN, WriteStatus(k)
       PROVE  (RestoreNoted /\ MkfsNoted /\ WipeNoted)'
  BY <1>18 DEF WriteStatus, Stop, To, durable, memory
<1>19. ASSUME NEW k \in BOOLEAN, Finish(k)
       PROVE  (RestoreNoted /\ MkfsNoted /\ WipeNoted)'
  BY <1>19 DEF Finish, Stop, To, durable, memory, TypeOK, Hists
<1>20. ASSUME NEW u \in BOOLEAN, NEW r \in BOOLEAN, HandleFatalError(u, r)
       PROVE  (RestoreNoted /\ MkfsNoted /\ WipeNoted)'
  <2>1. handle_fatal_error(error, Release, u, r) \in {"off", "halted", "shell"}
    BY OutcomeType
  <2> QED
    BY <1>20, <2>1 DEF HandleFatalError, FreshBoot, To, durable, memory
<1>21. ASSUME NEW t \in Triggers, RequestReset(t)
       PROVE  (RestoreNoted /\ MkfsNoted /\ WipeNoted)'
  BY <1>21 DEF RequestReset, durable, memory, TypeOK, Hists
<1>22. ASSUME NEW f \in SUBSET Paths, UseDisk(f)
       PROVE  (RestoreNoted /\ MkfsNoted /\ WipeNoted)'
  BY <1>22 DEF UseDisk, durable, memory
<1>23. CASE Reboot
  BY <1>23 DEF Reboot, FreshBoot, Goto, To, durable, memory
<1>24. CASE PowerLoss
  BY <1>24 DEF PowerLoss, FreshBoot, durable, memory, TypeOK, Hists
<1>25. CASE PowerCycle
  BY <1>25 DEF PowerCycle, FreshBoot, durable, memory
<1>26. CASE Settle
  BY <1>26 DEF Settle, durable, memory
<1>27. CASE UNCHANGED vars
  BY <1>27 DEF vars, durable, memory
<1> QED
  BY <1>1, <1>2, <1>3, <1>4, <1>5, <1>6, <1>7, <1>8, <1>9, <1>10, <1>11, <1>12, <1>13,
       <1>14, <1>15, <1>16, <1>17, <1>18, <1>19, <1>20, <1>21, <1>22, <1>23, <1>24,
       <1>25, <1>26, <1>27 DEF Next, InitStep, Surroundings

(***************************************************************************)
(* The status that run_reset returns is true when it is returned, and      *)
(* stays true up to the end of the boot: nothing behind Record changes a   *)
(* partition.                                                              *)
(***************************************************************************)
LEMMA ResultStep ==
  ASSUME TypeOK, TypeOK', UntouchedYet, BackupComplete,
         RestoreNoted, MkfsNoted, WipeNoted, NoResultYet, StatusTruthful, [Next]_vars
  PROVE  (NoResultYet /\ StatusTruthful)'
<1> USE DEF NoResultYet, StatusTruthful, Careful, Destroying, Returning
<1>1. CASE StartBoot
  BY <1>1 DEF StartBoot, Goto, To, durable, memory, TypeOK, Hists
<1>2. ASSUME NEW e \in {"Filesystem", "ExtraBootArgsUpdated"}, SetupFails(e)
      PROVE  (NoResultYet /\ StatusTruthful)'
  BY <1>2 DEF SetupFails, Stop, To, durable, memory
<1>3. ASSUME NEW r \in BOOLEAN, Detect(r) PROVE (NoResultYet /\ StatusTruthful)'
  BY <1>3 DEF Detect, Dispatches, To, durable, memory
<1>4. ASSUME NEW f \in BOOLEAN, NEW c \in {"Invalid", "ConfigError"}, ClearTrigger(f, c)
      PROVE  (NoResultYet /\ StatusTruthful)'
  BY <1>4 DEF ClearTrigger, TriggerAfterClear, Aborted, To, durable, memory,
       UntouchedYet, TypeOK, Hists
<1>5. ASSUME NEW n \in 0 .. 4, NEW l \in Lefts, MountForBackup(n, l)
      PROVE  (NoResultYet /\ StatusTruthful)'
  <2>1. hist.touched = {} /\ hist' = hist /\ signal' = signal /\ stage = "mount"
    BY <1>5 DEF MountForBackup, UntouchedYet, Careful
  <2>2. CASE status' = status /\ stage' \in Careful
    BY <2>1, <2>2 DEF Careful
  <2>3. CASE status' = Aborted("Error") /\ stage' = "record"
    BY <2>1, <2>3 DEF Aborted
  <2> QED
    BY <1>5, <2>2, <2>3 DEF MountForBackup, Abort, To, Careful
<1>6. ASSUME NEW c \in {"none", "ConfigError", "Error"}, NEW l \in Lefts,
             BuildPreserveList(c, l)
      PROVE  (NoResultYet /\ StatusTruthful)'
  <2>1. hist.touched = {} /\ hist' = hist /\ signal' = signal /\ stage = "preserve"
    BY <1>6 DEF BuildPreserveList, UntouchedYet, Careful
  <2>2. CASE status' = status /\ stage' \in Careful
    BY <2>1, <2>2 DEF Careful
  <2>3. CASE status' = Aborted(c) /\ stage' = "record"
    BY <2>1, <2>3 DEF Aborted
  <2> QED
    BY <1>6, <2>2, <2>3 DEF BuildPreserveList, Abort, To, Careful
<1>7. ASSUME NEW p \in Paths, NEW f \in BOOLEAN, NEW l \in Lefts, BackupPath(p, f, l)
      PROVE  (NoResultYet /\ StatusTruthful)'
  <2>1. hist.touched = {} /\ hist' = hist /\ signal' = signal /\ stage = "backup"
    BY <1>7 DEF BackupPath, UntouchedYet, Careful
  <2>2. CASE status' = status /\ stage' \in Careful
    BY <2>1, <2>2 DEF Careful
  <2>3. CASE status' = Aborted("Error") /\ stage' = "record"
    BY <2>1, <2>3 DEF Aborted
  <2> QED
    BY <1>7, <2>2, <2>3 DEF BackupPath, Abort, To, Careful, BackupAborts
<1>8. CASE BackupDone
  BY <1>8 DEF BackupDone, Goto, To, durable, memory
<1>9. ASSUME NEW l \in Lefts, UnmountBeforeWipe(l)
      PROVE  (NoResultYet /\ StatusTruthful)'
  BY <1>9 DEF UnmountBeforeWipe, UnmountAborts, Unmount, Abort, Aborted, To, durable,
       memory, UntouchedYet
<1>10. ASSUME NEW p \in Parts, NEW r \in WipeResults, WipePart(p, r)
       PROVE  (NoResultYet /\ StatusTruthful)'
  BY <1>10 DEF WipePart, To, Parts
<1>11. ASSUME NEW p \in Parts, NEW r \in MkfsResults, Mkfs(p, r)
       PROVE  (NoResultYet /\ StatusTruthful)'
  BY <1>11 DEF Mkfs, To, Parts
<1>12. ASSUME NEW n \in 0 .. 4, NEW o \in BOOLEAN, NEW l \in Lefts, Remount(n, o, l)
       PROVE  (NoResultYet /\ StatusTruthful)'
  <2>1. CASE n = 4
    BY <1>12, <2>1 DEF Remount, To
  <2>2. CASE n # 4
    <3>1. status'.wiped /\ status'.code = "Error" /\ stage' = "record"
      BY <1>12, <2>2 DEF Remount, WithWipeNote, DestructiveFailure, To
    <3> QED
      BY <3>1
  <2> QED
    BY <2>1, <2>2
<1>13. ASSUME NEW p \in Paths, NEW f \in BOOLEAN, NEW c \in BOOLEAN,
              RestorePath(p, f, c)
       PROVE  (NoResultYet /\ StatusTruthful)'
  BY <1>13 DEF RestorePath, durable, memory
<1>14. CASE RestoreDone
  BY <1>14 DEF RestoreDone, Goto, To, durable, memory
<1>15. ASSUME NEW l \in Lefts, UnmountRestored(l) PROVE (NoResultYet /\ StatusTruthful)'
  <2>1. status'.wiped
    BY <1>15 DEF UnmountRestored, DestructiveFailure, WithWipeNote
  <2>2. ASSUME status'.code \in {"Success", "Warning"}
        PROVE  notes.wipe = {} /\ notes.mkfs = {} /\ notes.restore = {}
    BY <1>15, <2>2 DEF UnmountRestored, DestructiveFailure, WithWipeNote, RestoredCode
  <2>3. ASSUME status'.code \in {"Success", "Warning"}
        PROVE  /\ \A p \in Parts : disk[p] = "new"
               /\ hist.before \subseteq files
               /\ mode = "wipe" => hist.overwritten = Parts
    <3>1. stage = "leave"
      BY <1>15 DEF UnmountRestored
    <3>2. \A p \in Parts : disk[p] = "new"
      BY <2>2, <2>3, <3>1 DEF MkfsNoted, Parts
    <3>3. hist.before \subseteq files
      BY <2>2, <2>3, <3>1 DEF BackupComplete, RestoreNoted
    <3>4. mode = "wipe" => hist.overwritten = Parts
      BY <2>2, <2>3, <3>1 DEF WipeNoted, Parts, TypeOK, Hists
    <3> QED
      BY <3>2, <3>3, <3>4
  <2> QED
    BY <1>15, <2>1, <2>3 DEF UnmountRestored, To, durable
<1>16. ASSUME NEW f \in BOOLEAN, Record(f) PROVE (NoResultYet /\ StatusTruthful)'
  BY <1>16 DEF Record, SignalSaved, To, durable, memory
<1>17. ASSUME NEW e \in {"none", "Filesystem", "FsckRequiresReboot"}, NormalMounts(e)
       PROVE  (NoResultYet /\ StatusTruthful)'
  BY <1>17 DEF NormalMounts, Stop, To, durable, memory
<1>18. ASSUME NEW k \in BOOLEAN, WriteStatus(k) PROVE (NoResultYet /\ StatusTruthful)'
  BY <1>18 DEF WriteStatus, Stop, To, durable, memory
<1>19. ASSUME NEW k \in BOOLEAN, Finish(k) PROVE (NoResultYet /\ StatusTruthful)'
  BY <1>19 DEF Finish, Stop, To, durable, memory, TypeOK, Hists
<1>20. ASSUME NEW u \in BOOLEAN, NEW r \in BOOLEAN, HandleFatalError(u, r)
       PROVE  (NoResultYet /\ StatusTruthful)'
  <2>1. handle_fatal_error(error, Release, u, r) \in {"off", "halted", "shell"}
    BY OutcomeType
  <2> QED
    BY <1>20, <2>1 DEF HandleFatalError, FreshBoot, To, durable, memory
<1>21. ASSUME NEW t \in Triggers, RequestReset(t) PROVE (NoResultYet /\ StatusTruthful)'
  BY <1>21 DEF RequestReset, durable, memory, TypeOK, Hists
<1>22. ASSUME NEW f \in SUBSET Paths, UseDisk(f) PROVE (NoResultYet /\ StatusTruthful)'
  BY <1>22 DEF UseDisk, durable, memory
<1>23. CASE Reboot
  BY <1>23 DEF Reboot, FreshBoot, Goto, To, durable, memory
<1>24. CASE PowerLoss
  BY <1>24 DEF PowerLoss, FreshBoot, durable, memory, TypeOK, Hists
<1>25. CASE PowerCycle
  BY <1>25 DEF PowerCycle, FreshBoot, durable, memory
<1>26. CASE Settle
  BY <1>26 DEF Settle, durable, memory
<1>27. CASE UNCHANGED vars
  BY <1>27 DEF vars, durable, memory
<1> QED
  BY <1>1, <1>2, <1>3, <1>4, <1>5, <1>6, <1>7, <1>8, <1>9, <1>10, <1>11, <1>12, <1>13,
       <1>14, <1>15, <1>16, <1>17, <1>18, <1>19, <1>20, <1>21, <1>22, <1>23, <1>24,
       <1>25, <1>26, <1>27 DEF Next, InitStep, Surroundings

(***************************************************************************)
(* unmount_before_wipe leaves nothing mounted, or the reset aborts.        *)
(***************************************************************************)
LEMMA MountsStep ==
  ASSUME UnmountedThen, [Next]_vars
  PROVE  UnmountedThen'
<1> USE DEF UnmountedThen, Destroying
<1>1. CASE StartBoot
  BY <1>1 DEF StartBoot, Goto, To, durable, memory
<1>2. ASSUME NEW e \in {"Filesystem", "ExtraBootArgsUpdated"}, SetupFails(e)
      PROVE  UnmountedThen'
  BY <1>2 DEF SetupFails, Stop, To, durable, memory
<1>3. ASSUME NEW r \in BOOLEAN, Detect(r) PROVE UnmountedThen'
  BY <1>3 DEF Detect, Dispatches, To, durable, memory
<1>4. ASSUME NEW f \in BOOLEAN, NEW c \in {"Invalid", "ConfigError"}, ClearTrigger(f, c)
      PROVE  UnmountedThen'
  BY <1>4 DEF ClearTrigger, TriggerAfterClear, Aborted, To, durable, memory
<1>5. ASSUME NEW n \in 0 .. 4, NEW l \in Lefts, MountForBackup(n, l)
      PROVE  UnmountedThen'
  BY <1>5 DEF MountForBackup, Unmount, Abort, Aborted, To, durable, memory
<1>6. ASSUME NEW c \in {"none", "ConfigError", "Error"}, NEW l \in Lefts,
             BuildPreserveList(c, l)
      PROVE  UnmountedThen'
  BY <1>6 DEF BuildPreserveList, Unmount, Abort, Aborted, To, durable, memory
<1>7. ASSUME NEW p \in Paths, NEW f \in BOOLEAN, NEW l \in Lefts, BackupPath(p, f, l)
      PROVE  UnmountedThen'
  BY <1>7 DEF BackupPath, BackupAborts, Unmount, Abort, Aborted, To, durable, memory
<1>8. CASE BackupDone
  BY <1>8 DEF BackupDone, Goto, To, durable, memory
<1>9. ASSUME NEW l \in Lefts, UnmountBeforeWipe(l) PROVE UnmountedThen'
  BY <1>9 DEF UnmountBeforeWipe, UnmountAborts, Unmount, Abort, Aborted, To, durable,
       memory
<1>10. ASSUME NEW p \in Parts, NEW r \in WipeResults, WipePart(p, r)
       PROVE  UnmountedThen'
  BY <1>10 DEF WipePart, Touch, To, durable, memory
<1>11. ASSUME NEW p \in Parts, NEW r \in MkfsResults, Mkfs(p, r) PROVE UnmountedThen'
  BY <1>11 DEF Mkfs, Touch, To, durable, memory
<1>12. ASSUME NEW n \in 0 .. 4, NEW o \in BOOLEAN, NEW l \in Lefts, Remount(n, o, l)
       PROVE  UnmountedThen'
  BY <1>12 DEF Remount, Unmount, WithWipeNote, DestructiveFailure, To, durable, memory
<1>13. ASSUME NEW p \in Paths, NEW f \in BOOLEAN, NEW c \in BOOLEAN,
              RestorePath(p, f, c)
       PROVE  UnmountedThen'
  BY <1>13 DEF RestorePath, durable, memory
<1>14. CASE RestoreDone
  BY <1>14 DEF RestoreDone, Goto, To, durable, memory
<1>15. ASSUME NEW l \in Lefts, UnmountRestored(l) PROVE UnmountedThen'
  BY <1>15 DEF UnmountRestored, Unmount, WithWipeNote, DestructiveFailure, RestoredCode,
       To, durable, memory
<1>16. ASSUME NEW f \in BOOLEAN, Record(f) PROVE UnmountedThen'
  BY <1>16 DEF Record, SignalSaved, To, durable, memory
<1>17. ASSUME NEW e \in {"none", "Filesystem", "FsckRequiresReboot"}, NormalMounts(e)
       PROVE  UnmountedThen'
  BY <1>17 DEF NormalMounts, Stop, To, durable, memory
<1>18. ASSUME NEW k \in BOOLEAN, WriteStatus(k) PROVE UnmountedThen'
  BY <1>18 DEF WriteStatus, Stop, To, durable, memory
<1>19. ASSUME NEW k \in BOOLEAN, Finish(k) PROVE UnmountedThen'
  BY <1>19 DEF Finish, Stop, To, durable, memory
<1>20. ASSUME NEW u \in BOOLEAN, NEW r \in BOOLEAN, HandleFatalError(u, r)
       PROVE  UnmountedThen'
  <2>1. handle_fatal_error(error, Release, u, r) \in {"off", "halted", "shell"}
    BY OutcomeType
  <2> QED
    BY <1>20, <2>1 DEF HandleFatalError, FreshBoot, To, durable, memory
<1>21. ASSUME NEW t \in Triggers, RequestReset(t) PROVE UnmountedThen'
  BY <1>21 DEF RequestReset, durable, memory
<1>22. ASSUME NEW f \in SUBSET Paths, UseDisk(f) PROVE UnmountedThen'
  BY <1>22 DEF UseDisk, durable, memory
<1>23. CASE Reboot
  BY <1>23 DEF Reboot, FreshBoot, Goto, To, durable, memory
<1>24. CASE PowerLoss
  BY <1>24 DEF PowerLoss, FreshBoot, durable, memory
<1>25. CASE PowerCycle
  BY <1>25 DEF PowerCycle, FreshBoot, durable, memory
<1>26. CASE Settle
  BY <1>26 DEF Settle, durable, memory
<1>27. CASE UNCHANGED vars
  BY <1>27 DEF vars, durable, memory
<1> QED
  BY <1>1, <1>2, <1>3, <1>4, <1>5, <1>6, <1>7, <1>8, <1>9, <1>10, <1>11, <1>12, <1>13,
       <1>14, <1>15, <1>16, <1>17, <1>18, <1>19, <1>20, <1>21, <1>22, <1>23, <1>24,
       <1>25, <1>26, <1>27 DEF Next, InitStep, Surroundings

(***************************************************************************)
(* The trigger is gone, or excused, before the first change of a           *)
(* partition, and a boot changes the partitions in one pass.               *)
(***************************************************************************)
LEMMA TriggerStep ==
  ASSUME TypeOK, TypeOK', UntouchedYet, TriggerSpent, [Next]_vars
  PROVE  TriggerSpent'
<1> USE DEF TriggerSpent, Careful, Destroying
<1>1. CASE StartBoot
  BY <1>1 DEF StartBoot, Goto, To, durable, memory, TypeOK, Hists
<1>2. ASSUME NEW e \in {"Filesystem", "ExtraBootArgsUpdated"}, SetupFails(e)
      PROVE  TriggerSpent'
  BY <1>2 DEF SetupFails, Stop, To, durable, memory
<1>3. ASSUME NEW r \in BOOLEAN, Detect(r) PROVE TriggerSpent'
  BY <1>3 DEF Detect, Dispatches, To, durable, memory, UntouchedYet, TypeOK, Hists
<1>4. ASSUME NEW f \in BOOLEAN, NEW c \in {"Invalid", "ConfigError"}, ClearTrigger(f, c)
      PROVE  TriggerSpent'
  BY <1>4 DEF ClearTrigger, TriggerAfterClear, Aborted, To, durable, memory,
       UntouchedYet, TypeOK, Hists
<1>5. ASSUME NEW n \in 0 .. 4, NEW l \in Lefts, MountForBackup(n, l) PROVE TriggerSpent'
  BY <1>5 DEF MountForBackup, Unmount, Abort, Aborted, To, durable, memory
<1>6. ASSUME NEW c \in {"none", "ConfigError", "Error"}, NEW l \in Lefts,
             BuildPreserveList(c, l)
      PROVE  TriggerSpent'
  BY <1>6 DEF BuildPreserveList, Unmount, Abort, Aborted, To, durable, memory
<1>7. ASSUME NEW p \in Paths, NEW f \in BOOLEAN, NEW l \in Lefts, BackupPath(p, f, l)
      PROVE  TriggerSpent'
  BY <1>7 DEF BackupPath, BackupAborts, Unmount, Abort, Aborted, To, durable, memory
<1>8. CASE BackupDone
  BY <1>8 DEF BackupDone, Goto, To, durable, memory
<1>9. ASSUME NEW l \in Lefts, UnmountBeforeWipe(l) PROVE TriggerSpent'
  BY <1>9 DEF UnmountBeforeWipe, UnmountAborts, Unmount, Abort, Aborted, To, durable,
       memory
<1>10. ASSUME NEW p \in Parts, NEW r \in WipeResults, WipePart(p, r) PROVE TriggerSpent'
  <2>1. hist.touched \subseteq hist'.touched
    BY <1>10, DestroyEffect
  <2>2. \/ hist'.passes = hist.passes /\ (hist'.touched # {} => hist.touched # {})
        \/ /\ hist.touched = {} /\ hist'.touched # {}
           /\ hist'.passes = OneMore(hist.passes)
    BY <1>10, DestroyEffect
  <2>3. /\ stage \in {"wipeEtc", "wipeData"}
        /\ stage' \in {"wipeData", "mkfsData"}
        /\ trigger' = trigger
    BY <1>10 DEF WipePart, To, Parts
  <2> QED
    BY <1>10, <2>1, <2>2, <2>3 DEF OneMore
<1>11. ASSUME NEW p \in Parts, NEW r \in MkfsResults, Mkfs(p, r) PROVE TriggerSpent'
  <2>1. hist.touched \subseteq hist'.touched
    BY <1>11, DestroyEffect
  <2>2. \/ hist'.passes = hist.passes /\ (hist'.touched # {} => hist.touched # {})
        \/ /\ hist.touched = {} /\ hist'.touched # {}
           /\ hist'.passes = OneMore(hist.passes)
    BY <1>11, DestroyEffect
  <2>3. /\ stage \in {"mkfsData", "mkfsEtc"}
        /\ stage' \in {"mkfsData", "mkfsEtc", "remount"}
        /\ trigger' = trigger
    BY <1>11 DEF Mkfs, To, Parts
  <2> QED
    BY <1>11, <2>1, <2>2, <2>3 DEF OneMore
<1>12. ASSUME NEW n \in 0 .. 4, NEW o \in BOOLEAN, NEW l \in Lefts, Remount(n, o, l)
       PROVE  TriggerSpent'
  BY <1>12 DEF Remount, Unmount, WithWipeNote, DestructiveFailure, To, durable, memory
<1>13. ASSUME NEW p \in Paths, NEW f \in BOOLEAN, NEW c \in BOOLEAN,
              RestorePath(p, f, c)
       PROVE  TriggerSpent'
  BY <1>13 DEF RestorePath, durable, memory
<1>14. CASE RestoreDone
  BY <1>14 DEF RestoreDone, Goto, To, durable, memory
<1>15. ASSUME NEW l \in Lefts, UnmountRestored(l) PROVE TriggerSpent'
  BY <1>15 DEF UnmountRestored, Unmount, WithWipeNote, DestructiveFailure, RestoredCode,
       To, durable, memory
<1>16. ASSUME NEW f \in BOOLEAN, Record(f) PROVE TriggerSpent'
  BY <1>16 DEF Record, SignalSaved, To, durable, memory
<1>17. ASSUME NEW e \in {"none", "Filesystem", "FsckRequiresReboot"}, NormalMounts(e)
       PROVE  TriggerSpent'
  BY <1>17 DEF NormalMounts, Stop, To, durable, memory
<1>18. ASSUME NEW k \in BOOLEAN, WriteStatus(k) PROVE TriggerSpent'
  BY <1>18 DEF WriteStatus, Stop, To, durable, memory
<1>19. ASSUME NEW k \in BOOLEAN, Finish(k) PROVE TriggerSpent'
  BY <1>19 DEF Finish, Stop, To, durable, memory, TypeOK, Hists
<1>20. ASSUME NEW u \in BOOLEAN, NEW r \in BOOLEAN, HandleFatalError(u, r)
       PROVE  TriggerSpent'
  <2>1. handle_fatal_error(error, Release, u, r) \in {"off", "halted", "shell"}
    BY OutcomeType
  <2> QED
    BY <1>20, <2>1 DEF HandleFatalError, FreshBoot, To, durable, memory
<1>21. ASSUME NEW t \in Triggers, RequestReset(t) PROVE TriggerSpent'
  BY <1>21 DEF RequestReset, durable, memory, TypeOK, Hists
<1>22. ASSUME NEW f \in SUBSET Paths, UseDisk(f) PROVE TriggerSpent'
  BY <1>22 DEF UseDisk, durable, memory, UntouchedYet, TypeOK, Hists
<1>23. CASE Reboot
  BY <1>23 DEF Reboot, FreshBoot, Goto, To, durable, memory
<1>24. CASE PowerLoss
  BY <1>24 DEF PowerLoss, FreshBoot, durable, memory, TypeOK, Hists
<1>25. CASE PowerCycle
  BY <1>25 DEF PowerCycle, FreshBoot, durable, memory
<1>26. CASE Settle
  BY <1>26 DEF Settle, durable, memory
<1>27. CASE UNCHANGED vars
  BY <1>27 DEF vars, durable, memory
<1> QED
  BY <1>1, <1>2, <1>3, <1>4, <1>5, <1>6, <1>7, <1>8, <1>9, <1>10, <1>11, <1>12, <1>13,
       <1>14, <1>15, <1>16, <1>17, <1>18, <1>19, <1>20, <1>21, <1>22, <1>23, <1>24,
       <1>25, <1>26, <1>27 DEF Next, InitStep, Surroundings

(***************************************************************************)
(* The signal that is due is written before the boot goes on.              *)
(***************************************************************************)
LEMMA SignalStep ==
  ASSUME TypeOK, NoResultYet, SignalKept, [Next]_vars
  PROVE  SignalKept'
<1> USE DEF SignalKept, NoResultYet, Behind, Careful, Returning
<1>1. CASE StartBoot
  BY <1>1 DEF StartBoot, Goto, To, durable, memory
<1>2. ASSUME NEW e \in {"Filesystem", "ExtraBootArgsUpdated"}, SetupFails(e)
      PROVE  SignalKept'
  BY <1>2 DEF SetupFails, Stop, To, durable, memory
<1>3. ASSUME NEW r \in BOOLEAN, Detect(r) PROVE SignalKept'
  BY <1>3 DEF Detect, Dispatches, To, durable, memory
<1>4. ASSUME NEW f \in BOOLEAN, NEW c \in {"Invalid", "ConfigError"}, ClearTrigger(f, c)
      PROVE  SignalKept'
  BY <1>4 DEF ClearTrigger, TriggerAfterClear, Aborted, To, durable, memory
<1>5. ASSUME NEW n \in 0 .. 4, NEW l \in Lefts, MountForBackup(n, l) PROVE SignalKept'
  BY <1>5 DEF MountForBackup, Unmount, Abort, Aborted, To, durable, memory
<1>6. ASSUME NEW c \in {"none", "ConfigError", "Error"}, NEW l \in Lefts,
             BuildPreserveList(c, l)
      PROVE  SignalKept'
  BY <1>6 DEF BuildPreserveList, Unmount, Abort, Aborted, To, durable, memory
<1>7. ASSUME NEW p \in Paths, NEW f \in BOOLEAN, NEW l \in Lefts, BackupPath(p, f, l)
      PROVE  SignalKept'
  BY <1>7 DEF BackupPath, BackupAborts, Unmount, Abort, Aborted, To, durable, memory
<1>8. CASE BackupDone
  BY <1>8 DEF BackupDone, Goto, To, durable, memory
<1>9. ASSUME NEW l \in Lefts, UnmountBeforeWipe(l) PROVE SignalKept'
  BY <1>9 DEF UnmountBeforeWipe, UnmountAborts, Unmount, Abort, Aborted, To, durable,
       memory
<1>10. ASSUME NEW p \in Parts, NEW r \in WipeResults, WipePart(p, r) PROVE SignalKept'
  BY <1>10 DEF WipePart, Touch, To, durable, memory
<1>11. ASSUME NEW p \in Parts, NEW r \in MkfsResults, Mkfs(p, r) PROVE SignalKept'
  BY <1>11 DEF Mkfs, Touch, To, durable, memory
<1>12. ASSUME NEW n \in 0 .. 4, NEW o \in BOOLEAN, NEW l \in Lefts, Remount(n, o, l)
       PROVE  SignalKept'
  BY <1>12 DEF Remount, Unmount, WithWipeNote, DestructiveFailure, To, durable, memory
<1>13. ASSUME NEW p \in Paths, NEW f \in BOOLEAN, NEW c \in BOOLEAN,
              RestorePath(p, f, c)
       PROVE  SignalKept'
  BY <1>13 DEF RestorePath, durable, memory
<1>14. CASE RestoreDone
  BY <1>14 DEF RestoreDone, Goto, To, durable, memory
<1>15. ASSUME NEW l \in Lefts, UnmountRestored(l) PROVE SignalKept'
  BY <1>15 DEF UnmountRestored, Unmount, WithWipeNote, DestructiveFailure, RestoredCode,
       To, durable, memory
<1>16. ASSUME NEW f \in BOOLEAN, Record(f) PROVE SignalKept'
  BY <1>16 DEF Record, SignalSaved, To, durable, memory, TypeOK
<1>17. ASSUME NEW e \in {"none", "Filesystem", "FsckRequiresReboot"}, NormalMounts(e)
       PROVE  SignalKept'
  BY <1>17 DEF NormalMounts, Stop, To, durable, memory
<1>18. ASSUME NEW k \in BOOLEAN, WriteStatus(k) PROVE SignalKept'
  BY <1>18 DEF WriteStatus, Stop, To, durable, memory
<1>19. ASSUME NEW k \in BOOLEAN, Finish(k) PROVE SignalKept'
  BY <1>19 DEF Finish, Stop, To, durable, memory
<1>20. ASSUME NEW u \in BOOLEAN, NEW r \in BOOLEAN, HandleFatalError(u, r)
       PROVE  SignalKept'
  <2>1. handle_fatal_error(error, Release, u, r) \in {"off", "halted", "shell"}
    BY OutcomeType
  <2> QED
    BY <1>20, <2>1 DEF HandleFatalError, FreshBoot, To, durable, memory
<1>21. ASSUME NEW t \in Triggers, RequestReset(t) PROVE SignalKept'
  BY <1>21 DEF RequestReset, durable, memory
<1>22. ASSUME NEW f \in SUBSET Paths, UseDisk(f) PROVE SignalKept'
  BY <1>22 DEF UseDisk, durable, memory
<1>23. CASE Reboot
  BY <1>23 DEF Reboot, FreshBoot, Goto, To, durable, memory
<1>24. CASE PowerLoss
  BY <1>24 DEF PowerLoss, FreshBoot, durable, memory
<1>25. CASE PowerCycle
  BY <1>25 DEF PowerCycle, FreshBoot, durable, memory
<1>26. CASE Settle
  BY <1>26 DEF Settle, durable, memory
<1>27. CASE UNCHANGED vars
  BY <1>27 DEF vars, durable, memory
<1> QED
  BY <1>1, <1>2, <1>3, <1>4, <1>5, <1>6, <1>7, <1>8, <1>9, <1>10, <1>11, <1>12, <1>13,
       <1>14, <1>15, <1>16, <1>17, <1>18, <1>19, <1>20, <1>21, <1>22, <1>23, <1>24,
       <1>25, <1>26, <1>27 DEF Next, InitStep, Surroundings

-----------------------------------------------------------------------------
(***************************************************************************)
(* The theorems.                                                           *)
(***************************************************************************)

(***************************************************************************)
(* A device in the field, on which nobody has asked for a reset, satisfies *)
(* the invariant.                                                          *)
(***************************************************************************)
LEMMA InvariantStarts == Init => IInv
<1> SUFFICES ASSUME Init PROVE IInv
  OBVIOUS
<1>1. TypeOK
  BY StatusType, NoNotesType DEF Init, TypeOK, Triggers, Contents, Stages, Hists
<1> QED
  BY <1>1 DEF Init, IInv, UntouchedYet, BackupComplete, PreservedSomewhere, RestoreNoted,
       MkfsNoted, WipeNoted, NoResultYet, StatusTruthful, UnmountedThen, TriggerSpent,
       SignalKept, Careful, Destroying, Returning, Behind

(***************************************************************************)
(* Every step of the init, of the running system and of the power keeps    *)
(* it.                                                                     *)
(***************************************************************************)
LEMMA InvariantKept == IInv /\ [Next]_vars => IInv'
<1> SUFFICES ASSUME IInv, [Next]_vars PROVE IInv'
  OBVIOUS
<1> USE DEF IInv
<1>1. TypeOK'
  BY TypeStep
<1>2. (UntouchedYet /\ BackupComplete /\ PreservedSomewhere)'
  BY <1>1, BackupStep
<1>3. (RestoreNoted /\ MkfsNoted /\ WipeNoted)'
  BY <1>1, NotesStep
<1>4. (NoResultYet /\ StatusTruthful)'
  BY <1>1, ResultStep
<1>5. UnmountedThen'
  BY MountsStep
<1>6. TriggerSpent'
  BY <1>1, TriggerStep
<1>7. SignalKept'
  BY SignalStep
<1> QED
  BY <1>1, <1>2, <1>3, <1>4, <1>5, <1>6, <1>7

(***************************************************************************)
(* The inductive invariant holds in every behaviour of the reset, whatever *)
(* fails and wherever the power is lost.                                   *)
(***************************************************************************)
THEOREM InvariantHolds == Spec => []IInv
BY InvariantStarts, InvariantKept, PTL DEF Spec

(***************************************************************************)
(* Every state of the reset and of the boots around it has its type.       *)
(***************************************************************************)
THEOREM TypeCorrect == Spec => []TypeOK
<1>1. IInv => TypeOK
  BY DEF IInv
<1> QED
  BY <1>1, InvariantHolds, PTL

(***************************************************************************)
(* The FactoryResetStatus that run_reset builds is true for every list of  *)
(* paths: data_wiped = false means nothing was changed, Success and        *)
(* Warning that both filesystems are new, every preserved file is back     *)
(* and, in a mode that wipes, both partitions were overwritten.            *)
(***************************************************************************)
THEOREM StatusTrue == Spec => []StatusTruthful
<1>1. IInv => StatusTruthful
  BY DEF IInv
<1> QED
  BY <1>1, InvariantHolds, PTL

(***************************************************************************)
(* No file to preserve is ever only on a partition that is being           *)
(* destroyed: up to the end of the boot it is on its partition or in the   *)
(* backup of backup_all.                                                   *)
(***************************************************************************)
THEOREM NothingLost == Spec => []PreservedSomewhere
<1>1. IInv => PreservedSomewhere
  BY DEF IInv
<1> QED
  BY <1>1, InvariantHolds, PTL

(***************************************************************************)
(* One request destroys the data at most once, over every number of boots  *)
(* and power losses, unless the deletion of the variable in answer_trigger *)
(* failed.                                                                 *)
(***************************************************************************)
THEOREM ResetOnce == Spec => []ResetNotRepeated
<1>1. IInv => ResetNotRepeated
  BY DEF IInv, TriggerSpent, ResetNotRepeated
<1> QED
  BY <1>1, InvariantHolds, PTL

(***************************************************************************)
(* A boot that stops because a partition could not be prepared has left    *)
(* the cause in the boot environment, unless persist_exhausted_signal      *)
(* could not write it.                                                     *)
(***************************************************************************)
THEOREM FailureInEnv == Spec => []FailureSignalled
<1>1. IInv => FailureSignalled
  BY DEF IInv, SignalKept, FailureSignalled, Behind
<1> QED
  BY <1>1, InvariantHolds, PTL

(***************************************************************************)
(* No partition is wiped or formatted while the init has it mounted.       *)
(***************************************************************************)
THEOREM DestroyedOnlyUnmounted == Spec => DestroyedUnmounted
<1> DEFINE Safe == \A p \in Parts : disk'[p] # disk[p] /\ stage # "running" => p \notin mounts
<1>1. ASSUME IInv, [Next]_vars PROVE [Safe]_vars
  <2>1. CASE disk' = disk \/ stage = "running" \/ mounts = {}
    BY <2>1
  <2>2. CASE UNCHANGED vars
    BY <2>2 DEF vars
  <2>3. ASSUME disk' # disk, stage # "running", Next PROVE mounts = {}
    <3>1. PICK p \in Parts : \/ \E r \in WipeResults : WipePart(p, r)
                             \/ \E r \in MkfsResults : Mkfs(p, r)
      BY <2>3 DEF Next, InitStep, Surroundings, StartBoot, SetupFails, Detect, ClearTrigger,
           MountForBackup, BuildPreserveList, BackupPath, BackupDone, UnmountBeforeWipe,
           Remount, RestorePath, RestoreDone, UnmountRestored, Record, NormalMounts,
           WriteStatus, Finish, HandleFatalError, RequestReset, UseDisk, Reboot, PowerLoss,
           PowerCycle, Settle, durable
    <3>2. stage \in Destroying
      BY <3>1 DEF WipePart, Mkfs, Parts, Destroying
    <3> QED
      BY <1>1, <3>2 DEF IInv, UnmountedThen
  <2> QED
    BY <1>1, <2>1, <2>2, <2>3
<1> QED
  BY <1>1, InvariantHolds, PTL DEF Spec, DestroyedUnmounted

=============================================================================
