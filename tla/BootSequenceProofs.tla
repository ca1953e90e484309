------------------------- MODULE BootSequenceProofs -------------------------
(***************************************************************************)
(* Theorems about BootSequence, for every image type, backend and set of   *)
(* boot arguments.  IInv is the inductive invariant they rest on; it says  *)
(* what a boot may rely on at the stages where it acts on it.              *)
(***************************************************************************)
EXTENDS BootSequence, TLAPS

-----------------------------------------------------------------------------
(***************************************************************************)
(* The inductive invariant.                                                *)
(***************************************************************************)

\* The loop over the flags is at one whose trigger file was just written.
ClearingFlag ==
  stage = "clear" =>
    boot.at \in 1 .. LastFlag /\ FlagAt(boot.at) # VU
      /\ FlagAt(boot.at) \in boot.triggers

TypeInv == TypeOK /\ ClearingFlag

\* A boot that has not come to Detect knows nothing of the environment.
FreshUntilDetect ==
  stage \in {"off", "early", "core", "detect"} =>
    /\ ~boot.updatePending /\ ~boot.vuRead /\ ~boot.firstBoot
    /\ ~boot.argsFailed /\ ~boot.resizeFailed
    /\ ~boot.markerSet /\ boot.triggers = {} /\ boot.seen = {}

\* After an update every disk a reset may leave ends the first-boot phase.
PhaseOver(e) == e.marker \/ e.flags # {} \/ hist.markerMissed
PhaseEnds == hist.updated => \A e \in Disks : PhaseOver(e)

\* What EnsureMarker establishes for the flags it saw.
MarkerEnsured ==
  /\ boot.markerSet => env.marker
  /\ VU \in boot.triggers => env.marker \/ hist.markerMissed
  /\ stage \in {"trigger", "clear"} /\ VU \in boot.seen =>
       env.marker \/ hist.markerMissed

\* The init's copy of omnect_validate_update is that of the environment.
PendingKnown ==
  stage \notin {"off", "running"} /\ boot.vuRead =>
    (boot.updatePending <=> VU \in env.flags)

\* The errors that have to be absorbed never reach handle_fatal_error.
NotAbsorbed == error \notin AbsorbedErrors

\* The first-boot steps this boot has behind it without a failure are done.
StepsDone ==
  /\ stage \in {"resize", "mount", "status", "validate", "ensure", "trigger",
                "clear", "marker"} /\ boot.firstBoot /\ ~boot.argsFailed =>
       hist.argsSynced
  /\ stage \in {"mount", "status", "validate", "ensure", "trigger", "clear",
                "marker"} /\ boot.firstBoot /\ ~boot.resizeFailed /\ ResizeData =>
       hist.resized

\* Flags an init sees were there when the bootloader started it.
FlagsNoted ==
  /\ stage \notin {"off", "running"} /\ env.flags # {} => hist.updated
  /\ boot.seen # {} => hist.updated

\* After an extra-bootargs reboot every disk holds the files' value.
ArgsApplied ==
  hist.argsReboots = 0
    \/ (hist.argsReboots = 1 /\ stage # "verify"
          /\ \A e \in Disks : e.args = argFiles)

\* No write of the init touches omnect_validate_update.
ValidateStable == \A e \in Disks : VU \in e.flags <=> VU \in env.flags

\* A conf that is not for the update in the environment was not removable.
ConfKnown ==
  /\ VU \in env.flags /\ conf = "stale" => hist.confMissed
  /\ stage \in {"ensure", "trigger", "clear", "marker", "switch", "running"}
       /\ VU \notin env.flags /\ conf # "none" => hist.confMissed
  /\ stage \in {"ensure", "trigger", "clear"} /\ VU \in boot.seen =>
       VU \in env.flags

IInv ==
  /\ TypeInv
  /\ FreshUntilDetect
  /\ PhaseEnds
  /\ MarkerEnsured
  /\ FirstBootNeverAfterUpdate
  /\ PendingKnown
  /\ NotAbsorbed
  /\ PendingUpdateNotStranded
  /\ StepsDone
  /\ FlagsNoted
  /\ MarkerMeansStepsDone
  /\ ArgsApplied
  /\ ValidateStable
  /\ ConfKnown
  /\ ConfNotStale

-----------------------------------------------------------------------------
(***************************************************************************)
(* Types.                                                                  *)
(***************************************************************************)

(***************************************************************************)
(* The outcome of main.rs's handle_fatal_error is a stage of the boot.     *)
(***************************************************************************)
LEMMA OutcomeType ==
  ASSUME NEW e, NEW pending \in BOOLEAN, NEW reboot_fails \in BOOLEAN
  PROVE  handle_fatal_error(e, Release, pending, reboot_fails)
           \in {"off", "halted", "shell"}
BY DEF handle_fatal_error, StopStage, decide, recovery_class

(***************************************************************************)
(* The memory a reset leaves to the next boot has the type of boot.        *)
(***************************************************************************)
LEMMA FreshBootType == FreshBoot \in Boots
BY DEF FreshBoot, Boots, LastFlag, UpdateFlags

(***************************************************************************)
(* What handle_update_validation does to its locals keeps their types.     *)
(***************************************************************************)
LEMMA LoopType ==
  ASSUME NEW b \in Boots, NEW S \in SUBSET UpdateFlags, NEW i \in 1 .. LastFlag + 1
  PROVE  /\ [b EXCEPT !.seen = S, !.at = i] \in Boots
         /\ [b EXCEPT !.triggers = S, !.at = i] \in Boots
BY DEF Boots

(***************************************************************************)
(* Every step keeps the types and the place of the flag loop.              *)
(***************************************************************************)
LEMMA TypeStep == TypeInv /\ [Next]_vars => TypeInv'
<1> SUFFICES ASSUME TypeInv, [Next]_vars PROVE TypeInv'
  OBVIOUS
<1> USE DEF TypeInv, TypeOK, ClearingFlag, Stages
<1>1. CASE Bootloader
  BY <1>1 DEF Bootloader, Goto, Env, Hists, UpdateFlags, VU, VUF
<1>2. CASE EarlyInit
  BY <1>2, FeatureAssumption DEF EarlyInit, Goto, Fail, Reads, durable,
       StopStage, Errors, FatalErrors
<1>3. ASSUME NEW e \in {"Config", "Partition"},
             DetectPartitions(e)
      PROVE  TypeInv'
  BY <1>3 DEF DetectPartitions, Fail, Reads, durable, Errors, FatalErrors
<1>4. ASSUME NEW e \in {"none", "Partition", "Io", "Filesystem"}, NEW o \in BOOLEAN,
             ApplyBootEnvDecision(e, o)
      PROVE  TypeInv'
  BY <1>4 DEF ApplyBootEnvDecision, classify_boot_env, Goto, Fail, Reads,
       durable, Boots, Errors, FatalErrors
<1>5. ASSUME NEW p \in BOOLEAN, NEW f \in BOOLEAN, NEW c \in BOOLEAN,
             Detect(p, f, c)
      PROVE  TypeInv'
  BY <1>5 DEF Detect, update_pending_from_env, detect_first_boot, Available,
       Goto, Fail, Reads, durable, Boots, Errors, FatalErrors
<1>6. CASE SkipBootargs
  BY <1>6 DEF SkipBootargs, Goto, Reads, durable
<1>7. CASE BootargsFail
  BY <1>7 DEF BootargsFail, Goto, Reads, durable, Boots
<1>8. CASE BootargsUpToDate
  BY <1>8 DEF BootargsUpToDate, Goto, Reads, durable, Hists
<1>9. ASSUME NEW a \in Args, WriteBootargs(a) PROVE TypeInv'
  BY <1>9 DEF WriteBootargs, SetEnv, Goto, Env
<1>10. ASSUME NEW r \in BOOLEAN, VerifyBootargs(r) PROVE TypeInv'
  <2>1. CASE r \/ env.args # argFiles
    BY <1>10, <2>1 DEF VerifyBootargs, Goto, Boots
  <2>2. CASE ~(r \/ env.args # argFiles)
    <3>1. hist' \in Hists
      BY <1>10, <2>2 DEF VerifyBootargs, Hists
    <3> QED
      BY <1>10, <2>2, <3>1 DEF VerifyBootargs, Sync, Fail, Errors, RebootErrors
  <2> QED
    BY <2>1, <2>2
<1>11. ASSUME NEW r \in {"ok", "absorbed", "fsckReboot"},
              ResizeStep(r)
       PROVE  TypeInv'
  BY <1>11 DEF ResizeStep, Resizes, Available, Goto, Fail, Reads, durable,
       Boots, Hists, Errors, RebootErrors
<1>12. ASSUME NEW e \in {"none", "Filesystem", "FsckRequiresReboot", "Io"},
              MountRemaining(e)
       PROVE  TypeInv'
  BY <1>12 DEF MountRemaining, Goto, Fail, Reads, durable, Errors,
       RebootErrors, FatalErrors
<1>13. ASSUME NEW f \in BOOLEAN, WriteStatus(f) PROVE TypeInv'
  BY <1>13 DEF WriteStatus, Available, Goto, Fail, Reads, durable, Hists,
       Errors, FatalErrors
<1>14. ASSUME NEW r \in BOOLEAN, NEW c \in BOOLEAN, NEW t \in BOOLEAN,
              ValidateUpdate(r, c, t)
       PROVE  TypeInv'
  <2>1. hist' \in Hists
    BY <1>14 DEF ValidateUpdate, Hists
  <2>2. boot' \in Boots
    <3>1. env.flags \in SUBSET UpdateFlags /\ 1 \in 1 .. LastFlag + 1
      BY DEF Env, LastFlag
    <3> QED
      BY <1>14, <3>1, LoopType DEF ValidateUpdate
  <2>3. stage' \in {"failed", "ensure"} /\ error' \in Errors \cup {"none"}
    BY <1>14 DEF ValidateUpdate, Goto, Fail, Errors, FatalErrors
  <2> QED
    BY <1>14, <2>1, <2>2, <2>3 DEF ValidateUpdate
<1>15. ASSUME NEW r \in BOOLEAN, NEW w \in BOOLEAN,
              EnsureMarker(r, w)
       PROVE  TypeInv'
  BY <1>15 DEF EnsureMarker, SetEnv, Goto, Env, Boots, Hists
<1>16. CASE SkipTrigger
  BY <1>16 DEF SkipTrigger, NextFlag, Goto, Reads, durable, Boots, LastFlag
<1>17. ASSUME NEW f \in BOOLEAN, WriteTrigger(f) PROVE TypeInv'
  <2>1. CASE f
    BY <1>17, <2>1 DEF WriteTrigger, Fail, Reads, durable, Errors, FatalErrors
  <2>2. CASE ~f /\ FlagAt(boot.at) = VU
    <3>1. boot' \in Boots
      <4>1. boot.triggers \cup {VU} \in SUBSET UpdateFlags
        BY DEF Boots, UpdateFlags
      <4>2. boot.at + 1 \in 1 .. LastFlag + 1
        BY <1>17 DEF WriteTrigger, Boots, LastFlag
      <4>3. boot' = [boot EXCEPT !.triggers = boot.triggers \cup {VU},
                                 !.at = boot.at + 1]
        BY <1>17, <2>2 DEF WriteTrigger
      <4> QED
        BY <4>1, <4>2, <4>3, LoopType
    <3> QED
      BY <1>17, <2>2, <3>1 DEF WriteTrigger, Goto, Reads, durable
  <2>3. CASE ~f /\ FlagAt(boot.at) # VU
    <3>1. /\ boot' = [boot EXCEPT !.triggers = @ \cup {FlagAt(boot.at)}]
          /\ FlagAt(boot.at) \in boot.seen /\ boot.at \in 1 .. LastFlag
          /\ stage' = "clear" /\ error' = error
      BY <1>17, <2>3 DEF WriteTrigger, Goto, Boots, LastFlag
    <3>2. boot' \in Boots /\ boot'.at = boot.at
            /\ FlagAt(boot.at) \in boot'.triggers
      BY <3>1 DEF Boots
    <3> QED
      BY <1>17, <2>3, <3>1, <3>2 DEF WriteTrigger, Reads, durable
  <2> QED
    BY <2>1, <2>2, <2>3
<1>18. ASSUME NEW f \in BOOLEAN, ClearFlag(f) PROVE TypeInv'
  BY <1>18 DEF ClearFlag, MayClear, NextFlag, SetEnv, Goto, Env, Boots, LastFlag
<1>19. CASE TriggersDone
  BY <1>19 DEF TriggersDone, Goto, Reads, durable
<1>20. ASSUME NEW f \in BOOLEAN, WriteMarker(f) PROVE TypeInv'
  <2>1. CASE MarkerDue /\ ~f
    BY <1>20, <2>1 DEF WriteMarker, SetEnv, Goto, Env
  <2>2. CASE ~(MarkerDue /\ ~f)
    BY <1>20, <2>2 DEF WriteMarker, Goto
  <2> QED
    BY <2>1, <2>2
<1>21. ASSUME NEW f \in BOOLEAN, SwitchRoot(f) PROVE TypeInv'
  BY <1>21 DEF SwitchRoot, Goto, Fail, Reads, durable, Errors, FatalErrors
<1>22. ASSUME NEW r \in BOOLEAN, HandleFatalError(r) PROVE TypeInv'
  BY <1>22, FreshBootType, OutcomeType, FeatureAssumption DEF
       HandleFatalError, Reset, Disks, Goto, Boots
<1>23. CASE OdsValidates
  BY <1>23 DEF OdsValidates, Env
<1>24. ASSUME NEW o \in BOOLEAN, NEW b \in BOOLEAN,
              InstallUpdate(o, b)
       PROVE  TypeInv'
  BY <1>24 DEF InstallUpdate, Env, UpdateFlags, VU, BU
<1>25. ASSUME NEW a \in Args, EditBootargs(a) PROVE TypeInv'
  BY <1>25 DEF EditBootargs, Hists
<1>26. CASE Reboot
  BY <1>26, FreshBootType DEF Reboot, Goto
<1>27. CASE PowerLoss
  BY <1>27, FreshBootType DEF PowerLoss, Reset, Disks
<1>28. CASE PowerCycle
  BY <1>28, FreshBootType DEF PowerCycle, Reset, Disks
<1>29. CASE Settle
  BY <1>29 DEF Settle, durable
<1>30. CASE UNCHANGED vars
  BY <1>30 DEF vars, durable
<1> QED
  BY <1>1, <1>2, <1>3, <1>4, <1>5, <1>6, <1>7, <1>8, <1>9, <1>10, <1>11,
     <1>12, <1>13, <1>14, <1>15, <1>16, <1>17, <1>18, <1>19, <1>20, <1>21,
     <1>22, <1>23, <1>24, <1>25, <1>26, <1>27, <1>28, <1>29, <1>30 DEF Next,
       InitStep, Surroundings

-----------------------------------------------------------------------------
(***************************************************************************)
(* The first-boot phase.                                                   *)
(***************************************************************************)
MarkerInv ==
  FreshUntilDetect /\ PhaseEnds /\ MarkerEnsured /\ FirstBootNeverAfterUpdate

(***************************************************************************)
(* Every step keeps what MarkerInv says of the marker.  The steps that     *)
(* matter: Bootloader, which may start the first boot after an update with *)
(* flags set; EnsureMarker and ClearFlag, whose order it is about; and     *)
(* OdsValidates, which takes the last flag away.                           *)
(***************************************************************************)
LEMMA MarkerStep == TypeInv /\ MarkerInv /\ [Next]_vars => MarkerInv'
<1> SUFFICES ASSUME TypeInv, MarkerInv, [Next]_vars PROVE MarkerInv'
  OBVIOUS
<1> USE DEF TypeInv, TypeOK, Boots, Hists, Env, Disks, MarkerInv,
            FreshUntilDetect, PhaseEnds, PhaseOver, MarkerEnsured,
            FirstBootNeverAfterUpdate
<1>1. CASE Bootloader
  BY <1>1 DEF Bootloader, Goto
<1>2. CASE EarlyInit
  BY <1>2, FeatureAssumption DEF EarlyInit, Goto, Fail, Reads, durable,
       StopStage
<1>3. ASSUME NEW e \in {"Config", "Partition"},
       DetectPartitions(e)
      PROVE  MarkerInv'
  BY <1>3 DEF DetectPartitions, Fail, Reads, durable
<1>4. ASSUME NEW e \in {"none", "Partition", "Io", "Filesystem"}, NEW o \in BOOLEAN,
       ApplyBootEnvDecision(e, o)
      PROVE  MarkerInv'
  BY <1>4 DEF ApplyBootEnvDecision, classify_boot_env, Goto, Fail, Reads,
       durable
<1>5. ASSUME NEW p \in BOOLEAN, NEW f \in BOOLEAN, NEW c \in BOOLEAN,
       Detect(p, f, c)
      PROVE  MarkerInv'
  BY <1>5 DEF Detect, update_pending_from_env, detect_first_boot, Available,
       Goto, Fail, Reads, durable
<1>6. CASE SkipBootargs
  BY <1>6 DEF SkipBootargs, Goto, Reads, durable
<1>7. CASE BootargsFail
  BY <1>7 DEF BootargsFail, Goto, Reads, durable
<1>8. CASE BootargsUpToDate
  BY <1>8 DEF BootargsUpToDate, Goto, Reads, durable
<1>9. ASSUME NEW a \in Args, WriteBootargs(a) PROVE MarkerInv'
  BY <1>9 DEF WriteBootargs, SetEnv, Goto
<1>10. ASSUME NEW r \in BOOLEAN, VerifyBootargs(r) PROVE MarkerInv'
  BY <1>10 DEF VerifyBootargs, Sync, Goto, Fail
<1>11. ASSUME NEW r \in {"ok", "absorbed", "fsckReboot"},
        ResizeStep(r)
       PROVE  MarkerInv'
  BY <1>11 DEF ResizeStep, Goto, Fail, Reads, durable
<1>12. ASSUME NEW e \in {"none", "Filesystem", "FsckRequiresReboot", "Io"},
        MountRemaining(e)
       PROVE  MarkerInv'
  BY <1>12 DEF MountRemaining, Goto, Fail, Reads, durable
<1>13. ASSUME NEW f \in BOOLEAN, WriteStatus(f) PROVE MarkerInv'
  BY <1>13 DEF WriteStatus, Goto, Fail, Reads, durable
<1>14. ASSUME NEW r \in BOOLEAN, NEW c \in BOOLEAN, NEW t \in BOOLEAN,
        ValidateUpdate(r, c, t)
       PROVE  MarkerInv'
  BY <1>14 DEF ValidateUpdate, Goto, Fail
<1>15. ASSUME NEW r \in BOOLEAN, NEW w \in BOOLEAN,
        EnsureMarker(r, w)
       PROVE  MarkerInv'
  BY <1>15 DEF EnsureMarker, SetEnv, Goto
<1>16. CASE SkipTrigger
  BY <1>16 DEF SkipTrigger, NextFlag, Goto, Reads, durable
<1>17. ASSUME NEW f \in BOOLEAN, WriteTrigger(f) PROVE MarkerInv'
  <2>1. CASE f
    BY <1>17, <2>1 DEF WriteTrigger, Fail, Reads, durable
  <2>2. CASE ~f /\ FlagAt(boot.at) = VU
    BY <1>17, <2>2 DEF WriteTrigger, Goto, Reads, durable
  <2>3. CASE ~f /\ FlagAt(boot.at) # VU
    BY <1>17, <2>3 DEF WriteTrigger, Goto, Reads, durable
  <2> QED
    BY <2>1, <2>2, <2>3
<1>18. ASSUME NEW f \in BOOLEAN, ClearFlag(f) PROVE MarkerInv'
  BY <1>18 DEF ClearFlag, MayClear, NextFlag, SetEnv, Goto, ClearingFlag
<1>19. CASE TriggersDone
  BY <1>19 DEF TriggersDone, Goto, Reads, durable
<1>20. ASSUME NEW f \in BOOLEAN, WriteMarker(f) PROVE MarkerInv'
  BY <1>20 DEF WriteMarker, SetEnv, Goto
<1>21. ASSUME NEW f \in BOOLEAN, SwitchRoot(f) PROVE MarkerInv'
  BY <1>21 DEF SwitchRoot, Goto, Fail, Reads, durable
<1>22. ASSUME NEW r \in BOOLEAN, HandleFatalError(r) PROVE MarkerInv'
  <2>1. CASE handle_fatal_error(error, Release, boot.updatePending, r) = "off"
    BY <1>22, <2>1 DEF HandleFatalError, Reset, FreshBoot
  <2>2. CASE handle_fatal_error(error, Release, boot.updatePending, r) # "off"
    <3>1. stage' \in {"halted", "shell"} /\ stage = "failed"
      BY <1>22, <2>2, OutcomeType DEF HandleFatalError, Goto
    <3> QED
      BY <1>22, <2>2, <3>1 DEF HandleFatalError, Goto
  <2> QED
    BY <2>1, <2>2
<1>23. CASE OdsValidates
  BY <1>23 DEF OdsValidates
<1>24. ASSUME NEW o \in BOOLEAN, NEW b \in BOOLEAN,
        InstallUpdate(o, b)
       PROVE  MarkerInv'
  BY <1>24 DEF InstallUpdate
<1>25. ASSUME NEW a \in Args, EditBootargs(a) PROVE MarkerInv'
  BY <1>25 DEF EditBootargs
<1>26. CASE Reboot
  BY <1>26 DEF Reboot, Goto, FreshBoot
<1>27. CASE PowerLoss
  BY <1>27 DEF PowerLoss, Reset, FreshBoot
<1>28. CASE PowerCycle
  BY <1>28 DEF PowerCycle, Reset, FreshBoot
<1>29. CASE Settle
  BY <1>29 DEF Settle, durable
<1>30. CASE UNCHANGED vars
  BY <1>30 DEF vars, durable
<1> QED
  BY <1>1, <1>2, <1>3, <1>4, <1>5, <1>6, <1>7, <1>8, <1>9, <1>10,
     <1>11, <1>12, <1>13, <1>14, <1>15, <1>16, <1>17, <1>18, <1>19, <1>20,
     <1>21, <1>22, <1>23, <1>24, <1>25, <1>26, <1>27, <1>28, <1>29, <1>30
     DEF Next, InitStep, Surroundings

-----------------------------------------------------------------------------
(***************************************************************************)
(* The pending update.                                                     *)
(***************************************************************************)
PendingInv == PendingKnown /\ NotAbsorbed /\ PendingUpdateNotStranded

(***************************************************************************)
(* Every step keeps UPDATE_PENDING equal to the flag it was read from: the *)
(* only flag clear_update_flag never clears is omnect_validate_update.     *)
(***************************************************************************)
LEMMA PendingStep ==
  TypeInv /\ FreshUntilDetect /\ PendingInv /\ [Next]_vars => PendingInv'
<1> SUFFICES ASSUME TypeInv, FreshUntilDetect, PendingInv, [Next]_vars
             PROVE  PendingInv'
  OBVIOUS
<1> USE DEF TypeInv, TypeOK, Boots, Env, PendingInv, FreshUntilDetect,
            PendingKnown, NotAbsorbed, PendingUpdateNotStranded, Stopped,
            AbsorbedErrors
<1>1. CASE Bootloader
  BY <1>1 DEF Bootloader, Goto
<1>2. CASE EarlyInit
  BY <1>2, FeatureAssumption DEF EarlyInit, Goto, Fail, Reads, durable,
       StopStage
<1>3. ASSUME NEW e \in {"Config", "Partition"},
       DetectPartitions(e)
      PROVE  PendingInv'
  BY <1>3 DEF DetectPartitions, Fail, Reads, durable
<1>4. ASSUME NEW e \in {"none", "Partition", "Io", "Filesystem"}, NEW o \in BOOLEAN,
       ApplyBootEnvDecision(e, o)
      PROVE  PendingInv'
  BY <1>4 DEF ApplyBootEnvDecision, classify_boot_env, Goto, Fail, Reads,
       durable
<1>5. ASSUME NEW p \in BOOLEAN, NEW f \in BOOLEAN, NEW c \in BOOLEAN,
       Detect(p, f, c)
      PROVE  PendingInv'
  BY <1>5 DEF Detect, update_pending_from_env, detect_first_boot, Available,
       Goto, Fail, Reads, durable
<1>6. CASE SkipBootargs
  BY <1>6 DEF SkipBootargs, Goto, Reads, durable
<1>7. CASE BootargsFail
  BY <1>7 DEF BootargsFail, Goto, Reads, durable
<1>8. CASE BootargsUpToDate
  BY <1>8 DEF BootargsUpToDate, Goto, Reads, durable
<1>9. ASSUME NEW a \in Args, WriteBootargs(a) PROVE PendingInv'
  BY <1>9 DEF WriteBootargs, SetEnv, Goto
<1>10. ASSUME NEW r \in BOOLEAN, VerifyBootargs(r) PROVE PendingInv'
  BY <1>10 DEF VerifyBootargs, Sync, Goto, Fail
<1>11. ASSUME NEW r \in {"ok", "absorbed", "fsckReboot"},
        ResizeStep(r)
       PROVE  PendingInv'
  BY <1>11 DEF ResizeStep, Goto, Fail, Reads, durable
<1>12. ASSUME NEW e \in {"none", "Filesystem", "FsckRequiresReboot", "Io"},
        MountRemaining(e)
       PROVE  PendingInv'
  BY <1>12 DEF MountRemaining, Goto, Fail, Reads, durable
<1>13. ASSUME NEW f \in BOOLEAN, WriteStatus(f) PROVE PendingInv'
  BY <1>13 DEF WriteStatus, Goto, Fail, Reads, durable
<1>14. ASSUME NEW r \in BOOLEAN, NEW c \in BOOLEAN, NEW t \in BOOLEAN,
        ValidateUpdate(r, c, t)
       PROVE  PendingInv'
  BY <1>14 DEF ValidateUpdate, Goto, Fail
<1>15. ASSUME NEW r \in BOOLEAN, NEW w \in BOOLEAN,
        EnsureMarker(r, w)
       PROVE  PendingInv'
  BY <1>15 DEF EnsureMarker, SetEnv, Goto
<1>16. CASE SkipTrigger
  BY <1>16 DEF SkipTrigger, NextFlag, Goto, Reads, durable
<1>17. ASSUME NEW f \in BOOLEAN, WriteTrigger(f) PROVE PendingInv'
  BY <1>17 DEF WriteTrigger, Goto, Fail, Reads, durable
<1>18. ASSUME NEW f \in BOOLEAN, ClearFlag(f) PROVE PendingInv'
  BY <1>18 DEF ClearFlag, MayClear, NextFlag, SetEnv, Goto, ClearingFlag
<1>19. CASE TriggersDone
  BY <1>19 DEF TriggersDone, Goto, Reads, durable
<1>20. ASSUME NEW f \in BOOLEAN, WriteMarker(f) PROVE PendingInv'
  BY <1>20 DEF WriteMarker, SetEnv, Goto
<1>21. ASSUME NEW f \in BOOLEAN, SwitchRoot(f) PROVE PendingInv'
  BY <1>21 DEF SwitchRoot, Goto, Fail, Reads, durable
<1>22. ASSUME NEW r \in BOOLEAN, HandleFatalError(r) PROVE PendingInv'
  <2>1. CASE handle_fatal_error(error, Release, boot.updatePending, r) = "off"
    BY <1>22, <2>1 DEF HandleFatalError, Reset, FreshBoot
  <2>2. CASE handle_fatal_error(error, Release, boot.updatePending, r) # "off"
    <3>1. recovery_class(error) # "ContinueDegraded"
      BY DEF recovery_class
    <3>2. boot.updatePending => r
      BY <1>22, <2>2, <3>1 DEF handle_fatal_error, decide, recovery_class
    <3>3. /\ stage = "failed" /\ stage' \in {"halted", "shell"}
          /\ error' = error /\ env' = env
          /\ boot' = [boot EXCEPT !.rebootFailed = r]
      BY <1>22, <2>2, OutcomeType DEF HandleFatalError, Goto
    <3> QED
      BY <3>2, <3>3
  <2> QED
    BY <2>1, <2>2
<1>23. CASE OdsValidates
  BY <1>23 DEF OdsValidates
<1>24. ASSUME NEW o \in BOOLEAN, NEW b \in BOOLEAN,
        InstallUpdate(o, b)
       PROVE  PendingInv'
  BY <1>24 DEF InstallUpdate
<1>25. ASSUME NEW a \in Args, EditBootargs(a) PROVE PendingInv'
  BY <1>25 DEF EditBootargs
<1>26. CASE Reboot
  BY <1>26 DEF Reboot, Goto, FreshBoot
<1>27. CASE PowerLoss
  BY <1>27 DEF PowerLoss, Reset, FreshBoot
<1>28. CASE PowerCycle
  BY <1>28 DEF PowerCycle, Reset, FreshBoot
<1>29. CASE Settle
  BY <1>29 DEF Settle, durable
<1>30. CASE UNCHANGED vars
  BY <1>30 DEF vars, durable
<1> QED
  BY <1>1, <1>2, <1>3, <1>4, <1>5, <1>6, <1>7, <1>8, <1>9, <1>10,
     <1>11, <1>12, <1>13, <1>14, <1>15, <1>16, <1>17, <1>18, <1>19, <1>20,
     <1>21, <1>22, <1>23, <1>24, <1>25, <1>26, <1>27, <1>28, <1>29, <1>30
     DEF Next, InitStep, Surroundings

-----------------------------------------------------------------------------
(***************************************************************************)
(* The first-boot steps.                                                   *)
(***************************************************************************)
StepsInv == StepsDone /\ FlagsNoted /\ MarkerMeansStepsDone

(***************************************************************************)
(* Every step keeps the marker behind the first-boot steps: WriteMarker    *)
(* has them from StepsDone, EnsureMarker writes it only after an update.   *)
(***************************************************************************)
LEMMA StepsStep ==
  TypeInv /\ FreshUntilDetect /\ StepsInv /\ [Next]_vars => StepsInv'
<1> SUFFICES ASSUME TypeInv, FreshUntilDetect, StepsInv, [Next]_vars
             PROVE  StepsInv'
  OBVIOUS
<1> USE DEF TypeInv, TypeOK, Boots, Hists, Env, Disks, StepsInv,
            FreshUntilDetect, StepsDone, FlagsNoted, MarkerMeansStepsDone
<1>1. CASE Bootloader
  BY <1>1 DEF Bootloader, Goto
<1>2. CASE EarlyInit
  BY <1>2, FeatureAssumption DEF EarlyInit, Goto, Fail, Reads, durable,
       StopStage
<1>3. ASSUME NEW e \in {"Config", "Partition"},
       DetectPartitions(e)
      PROVE  StepsInv'
  BY <1>3 DEF DetectPartitions, Fail, Reads, durable
<1>4. ASSUME NEW e \in {"none", "Partition", "Io", "Filesystem"}, NEW o \in BOOLEAN,
       ApplyBootEnvDecision(e, o)
      PROVE  StepsInv'
  BY <1>4 DEF ApplyBootEnvDecision, classify_boot_env, Goto, Fail, Reads,
       durable
<1>5. ASSUME NEW p \in BOOLEAN, NEW f \in BOOLEAN, NEW c \in BOOLEAN,
       Detect(p, f, c)
      PROVE  StepsInv'
  BY <1>5 DEF Detect, update_pending_from_env, detect_first_boot, Available,
       Goto, Fail, Reads, durable
<1>6. CASE SkipBootargs
  BY <1>6 DEF SkipBootargs, Goto, Reads, durable, Goto
<1>7. CASE BootargsFail
  BY <1>7 DEF BootargsFail, Goto, Reads, durable
<1>8. CASE BootargsUpToDate
  BY <1>8 DEF BootargsUpToDate, Goto, Reads, durable
<1>9. ASSUME NEW a \in Args, WriteBootargs(a) PROVE StepsInv'
  BY <1>9 DEF WriteBootargs, SetEnv, Goto
<1>10. ASSUME NEW r \in BOOLEAN, VerifyBootargs(r) PROVE StepsInv'
  BY <1>10 DEF VerifyBootargs, Sync, Goto, Fail
<1>11. ASSUME NEW r \in {"ok", "absorbed", "fsckReboot"},
        ResizeStep(r)
       PROVE  StepsInv'
  BY <1>11 DEF ResizeStep, Goto, Fail, Reads, durable, Resizes, Available
<1>12. ASSUME NEW e \in {"none", "Filesystem", "FsckRequiresReboot", "Io"},
        MountRemaining(e)
       PROVE  StepsInv'
  BY <1>12 DEF MountRemaining, Goto, Fail, Reads, durable
<1>13. ASSUME NEW f \in BOOLEAN, WriteStatus(f) PROVE StepsInv'
  BY <1>13 DEF WriteStatus, Goto, Fail, Reads, durable
<1>14. ASSUME NEW r \in BOOLEAN, NEW c \in BOOLEAN, NEW t \in BOOLEAN,
        ValidateUpdate(r, c, t)
       PROVE  StepsInv'
  BY <1>14 DEF ValidateUpdate, Goto, Fail
<1>15. ASSUME NEW r \in BOOLEAN, NEW w \in BOOLEAN,
        EnsureMarker(r, w)
       PROVE  StepsInv'
  BY <1>15 DEF EnsureMarker, SetEnv, Goto
<1>16. CASE SkipTrigger
  BY <1>16 DEF SkipTrigger, NextFlag, Goto, Reads, durable
<1>17. ASSUME NEW f \in BOOLEAN, WriteTrigger(f) PROVE StepsInv'
  BY <1>17 DEF WriteTrigger, Goto, Fail, Reads, durable
<1>18. ASSUME NEW f \in BOOLEAN, ClearFlag(f) PROVE StepsInv'
  BY <1>18 DEF ClearFlag, MayClear, NextFlag, SetEnv, Goto, ClearingFlag
<1>19. CASE TriggersDone
  BY <1>19 DEF TriggersDone, Goto, Reads, durable
<1>20. ASSUME NEW f \in BOOLEAN, WriteMarker(f) PROVE StepsInv'
  BY <1>20 DEF WriteMarker, SetEnv, Goto, MarkerDue
<1>21. ASSUME NEW f \in BOOLEAN, SwitchRoot(f) PROVE StepsInv'
  BY <1>21 DEF SwitchRoot, Goto, Fail, Reads, durable
<1>22. ASSUME NEW r \in BOOLEAN, HandleFatalError(r) PROVE StepsInv'
  <2>1. CASE handle_fatal_error(error, Release, boot.updatePending, r) = "off"
    BY <1>22, <2>1 DEF HandleFatalError, Reset, FreshBoot
  <2>2. CASE handle_fatal_error(error, Release, boot.updatePending, r) # "off"
    <3>1. stage' \in {"halted", "shell"} /\ stage = "failed"
      BY <1>22, <2>2, OutcomeType DEF HandleFatalError, Goto
    <3> QED
      BY <1>22, <2>2, <3>1 DEF HandleFatalError, Goto
  <2> QED
    BY <2>1, <2>2
<1>23. CASE OdsValidates
  BY <1>23 DEF OdsValidates
<1>24. ASSUME NEW o \in BOOLEAN, NEW b \in BOOLEAN,
        InstallUpdate(o, b)
       PROVE  StepsInv'
  BY <1>24 DEF InstallUpdate
<1>25. ASSUME NEW a \in Args, EditBootargs(a) PROVE StepsInv'
  BY <1>25 DEF EditBootargs
<1>26. CASE Reboot
  BY <1>26 DEF Reboot, Goto, FreshBoot
<1>27. CASE PowerLoss
  BY <1>27 DEF PowerLoss, Reset, FreshBoot
<1>28. CASE PowerCycle
  BY <1>28 DEF PowerCycle, Reset, FreshBoot
<1>29. CASE Settle
  BY <1>29 DEF Settle, durable
<1>30. CASE UNCHANGED vars
  BY <1>30 DEF vars, durable
<1> QED
  BY <1>1, <1>2, <1>3, <1>4, <1>5, <1>6, <1>7, <1>8, <1>9, <1>10,
     <1>11, <1>12, <1>13, <1>14, <1>15, <1>16, <1>17, <1>18, <1>19, <1>20,
     <1>21, <1>22, <1>23, <1>24, <1>25, <1>26, <1>27, <1>28, <1>29, <1>30
     DEF Next, InitStep, Surroundings

-----------------------------------------------------------------------------
(***************************************************************************)
(* The extra boot arguments.                                               *)
(***************************************************************************)

(***************************************************************************)
(* Every step keeps ArgsApplied: the flush of VerifyBootargs leaves one    *)
(* disk, and its value is that of the files until somebody edits them.     *)
(***************************************************************************)
LEMMA ArgsStep == TypeInv /\ ArgsApplied /\ [Next]_vars => ArgsApplied'
<1> SUFFICES ASSUME TypeInv, ArgsApplied, [Next]_vars PROVE ArgsApplied'
  OBVIOUS
<1> USE DEF TypeInv, TypeOK, Boots, Hists, Env, Disks, ArgsApplied
<1>1. CASE Bootloader
  BY <1>1 DEF Bootloader, Goto
<1>2. CASE EarlyInit
  BY <1>2, FeatureAssumption DEF EarlyInit, Goto, Fail, Reads, durable,
       StopStage
<1>3. ASSUME NEW e \in {"Config", "Partition"},
       DetectPartitions(e)
      PROVE  ArgsApplied'
  BY <1>3 DEF DetectPartitions, Fail, Reads, durable
<1>4. ASSUME NEW e \in {"none", "Partition", "Io", "Filesystem"}, NEW o \in BOOLEAN,
       ApplyBootEnvDecision(e, o)
      PROVE  ArgsApplied'
  BY <1>4 DEF ApplyBootEnvDecision, classify_boot_env, Goto, Fail, Reads,
       durable
<1>5. ASSUME NEW p \in BOOLEAN, NEW f \in BOOLEAN, NEW c \in BOOLEAN,
       Detect(p, f, c)
      PROVE  ArgsApplied'
  BY <1>5 DEF Detect, update_pending_from_env, detect_first_boot, Available,
       Goto, Fail, Reads, durable
<1>6. CASE SkipBootargs
  BY <1>6 DEF SkipBootargs, Goto, Reads, durable
<1>7. CASE BootargsFail
  BY <1>7 DEF BootargsFail, Goto, Reads, durable
<1>8. CASE BootargsUpToDate
  BY <1>8 DEF BootargsUpToDate, Goto, Reads, durable
<1>9. ASSUME NEW a \in Args, WriteBootargs(a) PROVE ArgsApplied'
  BY <1>9 DEF WriteBootargs, SetEnv, Goto
<1>10. ASSUME NEW r \in BOOLEAN, VerifyBootargs(r) PROVE ArgsApplied'
  BY <1>10 DEF VerifyBootargs, Sync, Goto, Fail
<1>11. ASSUME NEW r \in {"ok", "absorbed", "fsckReboot"},
        ResizeStep(r)
       PROVE  ArgsApplied'
  BY <1>11 DEF ResizeStep, Goto, Fail, Reads, durable
<1>12. ASSUME NEW e \in {"none", "Filesystem", "FsckRequiresReboot", "Io"},
        MountRemaining(e)
       PROVE  ArgsApplied'
  BY <1>12 DEF MountRemaining, Goto, Fail, Reads, durable
<1>13. ASSUME NEW f \in BOOLEAN, WriteStatus(f) PROVE ArgsApplied'
  BY <1>13 DEF WriteStatus, Goto, Fail, Reads, durable
<1>14. ASSUME NEW r \in BOOLEAN, NEW c \in BOOLEAN, NEW t \in BOOLEAN,
        ValidateUpdate(r, c, t)
       PROVE  ArgsApplied'
  BY <1>14 DEF ValidateUpdate, Goto, Fail
<1>15. ASSUME NEW r \in BOOLEAN, NEW w \in BOOLEAN,
        EnsureMarker(r, w)
       PROVE  ArgsApplied'
  BY <1>15 DEF EnsureMarker, SetEnv, Goto
<1>16. CASE SkipTrigger
  BY <1>16 DEF SkipTrigger, NextFlag, Goto, Reads, durable
<1>17. ASSUME NEW f \in BOOLEAN, WriteTrigger(f) PROVE ArgsApplied'
  BY <1>17 DEF WriteTrigger, Goto, Fail, Reads, durable
<1>18. ASSUME NEW f \in BOOLEAN, ClearFlag(f) PROVE ArgsApplied'
  BY <1>18 DEF ClearFlag, MayClear, NextFlag, SetEnv, Goto
<1>19. CASE TriggersDone
  BY <1>19 DEF TriggersDone, Goto, Reads, durable
<1>20. ASSUME NEW f \in BOOLEAN, WriteMarker(f) PROVE ArgsApplied'
  BY <1>20 DEF WriteMarker, SetEnv, Goto
<1>21. ASSUME NEW f \in BOOLEAN, SwitchRoot(f) PROVE ArgsApplied'
  BY <1>21 DEF SwitchRoot, Goto, Fail, Reads, durable
<1>22. ASSUME NEW r \in BOOLEAN, HandleFatalError(r) PROVE ArgsApplied'
  <2>1. CASE handle_fatal_error(error, Release, boot.updatePending, r) = "off"
    BY <1>22, <2>1 DEF HandleFatalError, Reset
  <2>2. CASE handle_fatal_error(error, Release, boot.updatePending, r) # "off"
    <3>1. stage' \in {"halted", "shell"} /\ stage = "failed"
      BY <1>22, <2>2, OutcomeType DEF HandleFatalError, Goto
    <3> QED
      BY <1>22, <2>2, <3>1 DEF HandleFatalError, Goto
  <2> QED
    BY <2>1, <2>2
<1>23. CASE OdsValidates
  BY <1>23 DEF OdsValidates
<1>24. ASSUME NEW o \in BOOLEAN, NEW b \in BOOLEAN,
        InstallUpdate(o, b)
       PROVE  ArgsApplied'
  BY <1>24 DEF InstallUpdate
<1>25. ASSUME NEW a \in Args, EditBootargs(a) PROVE ArgsApplied'
  BY <1>25 DEF EditBootargs
<1>26. CASE Reboot
  BY <1>26 DEF Reboot, Goto
<1>27. CASE PowerLoss
  BY <1>27 DEF PowerLoss, Reset
<1>28. CASE PowerCycle
  BY <1>28 DEF PowerCycle, Reset
<1>29. CASE Settle
  BY <1>29 DEF Settle, durable
<1>30. CASE UNCHANGED vars
  BY <1>30 DEF vars, durable
<1> QED
  BY <1>1, <1>2, <1>3, <1>4, <1>5, <1>6, <1>7, <1>8, <1>9, <1>10,
     <1>11, <1>12, <1>13, <1>14, <1>15, <1>16, <1>17, <1>18, <1>19, <1>20,
     <1>21, <1>22, <1>23, <1>24, <1>25, <1>26, <1>27, <1>28, <1>29, <1>30
     DEF Next, InitStep, Surroundings

-----------------------------------------------------------------------------
(***************************************************************************)
(* The leftover update_validation_conf.json.                               *)
(***************************************************************************)
ConfInv == ValidateStable /\ ConfKnown /\ ConfNotStale

(***************************************************************************)
(* Every step keeps ConfInv: what InstallUpdate finds in a running system  *)
(* was left there by a boot that could not remove it.                      *)
(***************************************************************************)
LEMMA ConfStep ==
  TypeInv /\ FreshUntilDetect /\ ConfInv /\ [Next]_vars => ConfInv'
<1> SUFFICES ASSUME TypeInv, FreshUntilDetect, ConfInv, [Next]_vars
             PROVE  ConfInv'
  OBVIOUS
<1> USE DEF TypeInv, TypeOK, Boots, Hists, Env, Disks, ConfInv,
            FreshUntilDetect, ValidateStable, ConfKnown, ConfNotStale
<1>1. CASE Bootloader
  BY <1>1 DEF Bootloader, Goto, VU, VUF
<1>2. CASE EarlyInit
  BY <1>2, FeatureAssumption DEF EarlyInit, Goto, Fail, Reads, durable,
       StopStage
<1>3. ASSUME NEW e \in {"Config", "Partition"},
       DetectPartitions(e)
      PROVE  ConfInv'
  BY <1>3 DEF DetectPartitions, Fail, Reads, durable
<1>4. ASSUME NEW e \in {"none", "Partition", "Io", "Filesystem"}, NEW o \in BOOLEAN,
       ApplyBootEnvDecision(e, o)
      PROVE  ConfInv'
  BY <1>4 DEF ApplyBootEnvDecision, classify_boot_env, Goto, Fail, Reads,
       durable
<1>5. ASSUME NEW p \in BOOLEAN, NEW f \in BOOLEAN, NEW c \in BOOLEAN,
       Detect(p, f, c)
      PROVE  ConfInv'
  BY <1>5 DEF Detect, update_pending_from_env, detect_first_boot, Available,
       Goto, Fail, Reads, durable
<1>6. CASE SkipBootargs
  BY <1>6 DEF SkipBootargs, Goto, Reads, durable
<1>7. CASE BootargsFail
  BY <1>7 DEF BootargsFail, Goto, Reads, durable
<1>8. CASE BootargsUpToDate
  BY <1>8 DEF BootargsUpToDate, Goto, Reads, durable
<1>9. ASSUME NEW a \in Args, WriteBootargs(a) PROVE ConfInv'
  BY <1>9 DEF WriteBootargs, SetEnv, Goto
<1>10. ASSUME NEW r \in BOOLEAN, VerifyBootargs(r) PROVE ConfInv'
  BY <1>10 DEF VerifyBootargs, Sync, Goto, Fail
<1>11. ASSUME NEW r \in {"ok", "absorbed", "fsckReboot"},
        ResizeStep(r)
       PROVE  ConfInv'
  BY <1>11 DEF ResizeStep, Goto, Fail, Reads, durable
<1>12. ASSUME NEW e \in {"none", "Filesystem", "FsckRequiresReboot", "Io"},
        MountRemaining(e)
       PROVE  ConfInv'
  BY <1>12 DEF MountRemaining, Goto, Fail, Reads, durable
<1>13. ASSUME NEW f \in BOOLEAN, WriteStatus(f) PROVE ConfInv'
  BY <1>13 DEF WriteStatus, Goto, Fail, Reads, durable, Available
<1>14. ASSUME NEW r \in BOOLEAN, NEW c \in BOOLEAN, NEW t \in BOOLEAN,
        ValidateUpdate(r, c, t)
       PROVE  ConfInv'
  BY <1>14 DEF ValidateUpdate, Goto, Fail, RemovesConf, Conflict
<1>15. ASSUME NEW r \in BOOLEAN, NEW w \in BOOLEAN,
        EnsureMarker(r, w)
       PROVE  ConfInv'
  BY <1>15 DEF EnsureMarker, SetEnv, Goto
<1>16. CASE SkipTrigger
  BY <1>16 DEF SkipTrigger, NextFlag, Goto, Reads, durable
<1>17. ASSUME NEW f \in BOOLEAN, WriteTrigger(f) PROVE ConfInv'
  <2>1. CASE f
    BY <1>17, <2>1 DEF WriteTrigger, Fail, Reads, durable
  <2>2. CASE ~f /\ FlagAt(boot.at) = VU
    BY <1>17, <2>2 DEF WriteTrigger, Goto, Reads, durable
  <2>3. CASE ~f /\ FlagAt(boot.at) # VU
    BY <1>17, <2>3 DEF WriteTrigger, Goto, Reads, durable
  <2> QED
    BY <2>1, <2>2, <2>3
<1>18. ASSUME NEW f \in BOOLEAN, ClearFlag(f) PROVE ConfInv'
  BY <1>18 DEF ClearFlag, MayClear, NextFlag, SetEnv, Goto, ClearingFlag
<1>19. CASE TriggersDone
  BY <1>19 DEF TriggersDone, Goto, Reads, durable
<1>20. ASSUME NEW f \in BOOLEAN, WriteMarker(f) PROVE ConfInv'
  BY <1>20 DEF WriteMarker, SetEnv, Goto
<1>21. ASSUME NEW f \in BOOLEAN, SwitchRoot(f) PROVE ConfInv'
  BY <1>21 DEF SwitchRoot, Goto, Fail, Reads, durable
<1>22. ASSUME NEW r \in BOOLEAN, HandleFatalError(r) PROVE ConfInv'
  <2>1. CASE handle_fatal_error(error, Release, boot.updatePending, r) = "off"
    BY <1>22, <2>1 DEF HandleFatalError, Reset, FreshBoot
  <2>2. CASE handle_fatal_error(error, Release, boot.updatePending, r) # "off"
    <3>1. stage' \in {"halted", "shell"} /\ stage = "failed"
      BY <1>22, <2>2, OutcomeType DEF HandleFatalError, Goto
    <3> QED
      BY <1>22, <2>2, <3>1 DEF HandleFatalError, Goto
  <2> QED
    BY <2>1, <2>2
<1>23. CASE OdsValidates
  BY <1>23 DEF OdsValidates
<1>24. ASSUME NEW o \in BOOLEAN, NEW b \in BOOLEAN,
        InstallUpdate(o, b)
       PROVE  ConfInv'
  BY <1>24 DEF InstallUpdate
<1>25. ASSUME NEW a \in Args, EditBootargs(a) PROVE ConfInv'
  BY <1>25 DEF EditBootargs
<1>26. CASE Reboot
  BY <1>26 DEF Reboot, Goto, FreshBoot
<1>27. CASE PowerLoss
  BY <1>27 DEF PowerLoss, Reset, FreshBoot
<1>28. CASE PowerCycle
  BY <1>28 DEF PowerCycle, Reset, FreshBoot
<1>29. CASE Settle
  BY <1>29 DEF Settle, durable
<1>30. CASE UNCHANGED vars
  BY <1>30 DEF vars, durable
<1> QED
  BY <1>1, <1>2, <1>3, <1>4, <1>5, <1>6, <1>7, <1>8, <1>9, <1>10,
     <1>11, <1>12, <1>13, <1>14, <1>15, <1>16, <1>17, <1>18, <1>19, <1>20,
     <1>21, <1>22, <1>23, <1>24, <1>25, <1>26, <1>27, <1>28, <1>29, <1>30
     DEF Next, InitStep, Surroundings

-----------------------------------------------------------------------------
(***************************************************************************)
(* The theorems.                                                           *)
(***************************************************************************)

(***************************************************************************)
(* A device right after flashing satisfies the invariant.                  *)
(***************************************************************************)
LEMMA InitIInv == Init => IInv
<1> SUFFICES ASSUME Init PROVE IInv
  OBVIOUS
<1>1. env \in Env /\ hist \in Hists
  BY ArgsAssumption DEF Init, Env, Hists
<1>2. TypeInv
  BY <1>1, FreshBootType DEF Init, TypeInv, TypeOK, Stages, ClearingFlag
<1>3. MarkerInv
  BY DEF Init, FreshBoot, MarkerInv, FreshUntilDetect, PhaseEnds, MarkerEnsured,
         FirstBootNeverAfterUpdate
<1>4. PendingInv
  BY DEF Init, PendingInv, PendingKnown, NotAbsorbed, AbsorbedErrors,
         PendingUpdateNotStranded, Stopped
<1>5. StepsInv
  BY DEF Init, FreshBoot, StepsInv, StepsDone, FlagsNoted,
         MarkerMeansStepsDone, Disks
<1>6. ArgsApplied
  BY DEF Init, ArgsApplied
<1>7. ConfInv
  BY DEF Init, ConfInv, ValidateStable, ConfKnown, ConfNotStale, Disks
<1> QED
  BY <1>2, <1>3, <1>4, <1>5, <1>6, <1>7
     DEF IInv, MarkerInv, PendingInv, StepsInv, ConfInv

(***************************************************************************)
(* IInv is an invariant of every behaviour of the device.                  *)
(***************************************************************************)
THEOREM Invariance == Spec => []IInv
<1>1. IInv /\ [Next]_vars => IInv'
  <2> SUFFICES ASSUME IInv, [Next]_vars PROVE IInv'
    OBVIOUS
  <2>1. /\ TypeInv /\ MarkerInv /\ PendingInv /\ StepsInv /\ ArgsApplied
        /\ ConfInv
    BY DEF IInv, MarkerInv, PendingInv, StepsInv, ConfInv
  <2>2. FreshUntilDetect
    BY DEF IInv
  <2>3. TypeInv'
    BY <2>1, TypeStep
  <2>4. MarkerInv'
    BY <2>1, MarkerStep
  <2>5. PendingInv'
    BY <2>1, <2>2, PendingStep
  <2>6. StepsInv'
    BY <2>1, <2>2, StepsStep
  <2>7. ArgsApplied'
    BY <2>1, ArgsStep
  <2>8. ConfInv'
    BY <2>1, <2>2, ConfStep
  <2> QED
    BY <2>3, <2>4, <2>5, <2>6, <2>7, <2>8
       DEF IInv, MarkerInv, PendingInv, StepsInv, ConfInv
<1> QED
  BY InitIInv, <1>1, PTL DEF Spec

(***************************************************************************)
(* Every variable keeps its type: the flag loop of                         *)
(* handle_update_validation never runs past the last flag.                 *)
(***************************************************************************)
THEOREM TypeCorrect == Spec => []TypeOK
<1>1. IInv => TypeOK
  BY DEF IInv, TypeInv
<1> QED
  BY Invariance, <1>1, PTL

(***************************************************************************)
(* No boot after an update runs the first-boot steps of init_setup, unless *)
(* a validation boot could not write the marker.                           *)
(***************************************************************************)
THEOREM FirstBootOver == Spec => []FirstBootNeverAfterUpdate
<1>1. IInv => FirstBootNeverAfterUpdate
  BY DEF IInv
<1> QED
  BY Invariance, <1>1, PTL

(***************************************************************************)
(* handle_fatal_error does not stop a device whose pending update this     *)
(* boot has read, unless reboot(2) fails.                                  *)
(***************************************************************************)
THEOREM UpdateNotStranded == Spec => []PendingUpdateNotStranded
<1>1. IInv => PendingUpdateNotStranded
  BY DEF IInv
<1> QED
  BY Invariance, <1>1, PTL

(***************************************************************************)
(* omnect_first_boot_done is on no disk of a device that was never updated *)
(* before extra_bootargs::run and resize_data::run have succeeded.         *)
(***************************************************************************)
THEOREM MarkerBehindSteps == Spec => []MarkerMeansStepsDone
<1>1. IInv => MarkerMeansStepsDone
  BY DEF IInv
<1> QED
  BY Invariance, <1>1, PTL

(***************************************************************************)
(* extra_bootargs::run reboots at most once for the same files, whatever   *)
(* a power loss takes back.                                                *)
(***************************************************************************)
THEOREM RebootsOnce == Spec => []BootargsRebootOnce
<1>1. IInv => BootargsRebootOnce
  BY DEF IInv, ArgsApplied, BootargsRebootOnce
<1> QED
  BY Invariance, <1>1, PTL

(***************************************************************************)
(* ODS never finds the trigger file of an update beside the conf of        *)
(* another one, unless remove_update_validation_conf failed or was not     *)
(* reached on the boot before.                                             *)
(***************************************************************************)
THEOREM ConfCurrent == Spec => []ConfNotStale
<1>1. IInv => ConfNotStale
  BY DEF IInv
<1> QED
  BY Invariance, <1>1, PTL

(***************************************************************************)
(* handle_update_validation takes a flag out of the environment only after *)
(* its trigger file and with the marker set, and no other step of the init *)
(* takes one.                                                              *)
(***************************************************************************)
THEOREM FlagOrder == Spec => FlagsClearedInOrder
<1> DEFINE InOrder ==
      stage \notin {"off", "running"} /\ stage' # "off" =>
        \A f \in env.flags \ env'.flags :
          f # VU /\ f \in boot.triggers /\ env.marker
<1>1. IInv /\ [Next]_vars => InOrder
  <2> SUFFICES ASSUME IInv, [Next]_vars,
                      stage \notin {"off", "running"}, stage' # "off"
               PROVE  \A f \in env.flags \ env'.flags :
                        f # VU /\ f \in boot.triggers /\ env.marker
    OBVIOUS
  <2>1. env \in Env
    BY DEF IInv, TypeInv, TypeOK
  <2>2. ASSUME NEW x \in BOOLEAN, ClearFlag(x)
        PROVE  \A f \in env.flags \ env'.flags :
                 f # VU /\ f \in boot.triggers /\ env.marker
    BY <2>1, <2>2 DEF IInv, TypeInv, ClearingFlag, MarkerEnsured, ClearFlag,
                      MayClear, SetEnv, Goto, Env
  <2>3. ASSUME NEW x \in BOOLEAN, NEW y \in BOOLEAN, EnsureMarker(x, y)
        PROVE  env'.flags = env.flags
    BY <2>1, <2>3 DEF EnsureMarker, SetEnv, Env
  <2>4. ASSUME NEW x \in BOOLEAN, WriteMarker(x)
        PROVE  env'.flags = env.flags
    BY <2>1, <2>4 DEF WriteMarker, SetEnv, Env
  <2>5. ASSUME NEW a \in Args, WriteBootargs(a)
        PROVE  env'.flags = env.flags
    BY <2>1, <2>5 DEF WriteBootargs, SetEnv, Env
  <2>6. ~Bootloader /\ ~Reboot /\ ~PowerLoss /\ ~PowerCycle
          /\ ~OdsValidates /\ ~(\E o, b \in BOOLEAN : InstallUpdate(o, b))
    BY DEF Bootloader, Reboot, PowerLoss, PowerCycle, OdsValidates,
           InstallUpdate, Reset, Goto
  <2>7. ASSUME NEW r \in BOOLEAN, HandleFatalError(r) PROVE env' = env
    BY <2>7 DEF HandleFatalError, Reset
  <2>8. CASE Settle \/ (\E a \in Args : EditBootargs(a)) \/ UNCHANGED vars
    BY <2>8 DEF Settle, EditBootargs, vars, durable
  <2>9. CASE \/ EarlyInit \/ SkipBootargs \/ BootargsFail \/ BootargsUpToDate
             \/ SkipTrigger \/ TriggersDone
             \/ \E e \in {"Config", "Partition"} : DetectPartitions(e)
             \/ \E e \in {"none", "Partition", "Io", "Filesystem"}, o \in BOOLEAN :
                  ApplyBootEnvDecision(e, o)
             \/ \E p, f, c \in BOOLEAN : Detect(p, f, c)
             \/ \E r \in {"ok", "absorbed", "fsckReboot"} : ResizeStep(r)
             \/ \E e \in {"none", "Filesystem", "FsckRequiresReboot", "Io"} :
                  MountRemaining(e)
             \/ \E f \in BOOLEAN : WriteStatus(f) \/ WriteTrigger(f) \/ SwitchRoot(f)
    <3>1. Reads
      BY <2>9 DEF EarlyInit, SkipBootargs, BootargsFail, BootargsUpToDate,
           SkipTrigger, TriggersDone, DetectPartitions, ApplyBootEnvDecision,
           Detect, ResizeStep, MountRemaining, WriteStatus, WriteTrigger,
           SwitchRoot
    <3> QED
      BY <3>1 DEF Reads, durable
  <2>10. CASE \/ \E r \in BOOLEAN : VerifyBootargs(r)
              \/ \E r, c, t \in BOOLEAN : ValidateUpdate(r, c, t)
    BY <2>10 DEF VerifyBootargs, ValidateUpdate
  <2> QED
    BY <2>2, <2>3, <2>4, <2>5, <2>6, <2>7, <2>8, <2>9, <2>10
       DEF Next, InitStep, Surroundings
<1> QED
  BY Invariance, <1>1, PTL DEF Spec, FlagsClearedInOrder
=============================================================================
