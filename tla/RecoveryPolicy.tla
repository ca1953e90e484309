--------------------------- MODULE RecoveryPolicy ---------------------------
(***************************************************************************)
(* The boot failure and recovery policy: how an error that reaches `main`  *)
(* is classified (error.rs, InitramfsError::recovery_class) and what is    *)
(* done about it (recovery.rs, decide).  Both are pure; the state machines *)
(* of this project EXTEND this module and end a failed boot with it.       *)
(***************************************************************************)

(***************************************************************************)
(* The error variants, reduced to what recovery_class tells apart.         *)
(* "Filesystem" stands for MountFailed, UnmountFailed, FsckFailed,         *)
(* OverlayFailed, FormatFailed and Io of FilesystemError; "ResizeFsck" for *)
(* the FsckRequiresReboot wrapped in a ResizeDataError.                    *)
(***************************************************************************)
RebootErrors == {"FsckRequiresReboot", "ResizeFsck", "ExtraBootArgsUpdated"}
AbsorbedErrors == {"ResizeData", "FactoryReset"}
FatalErrors ==
  {"Bootloader", "DegradedBoot", "EarlyInit", "Partition", "Filesystem",
   "Logging", "Config", "Flash", "ConflictingUpdateFlags", "Io"}
Errors == RebootErrors \cup AbsorbedErrors \cup FatalErrors

recovery_class(e) ==
  IF e \in RebootErrors THEN "RebootToApply"
  ELSE IF e \in AbsorbedErrors THEN "ContinueDegraded"
  ELSE "Fatal"

\* Mutated form of decide: a pending update makes no difference.
DecideIgnoresUpdate(class, is_release, update_pending) ==
  CASE class = "ContinueDegraded" -> "Continue"
    [] class = "RebootToApply"    -> "Reboot"
    [] class = "Fatal"            -> IF is_release THEN "Halt" ELSE "Shell"

decide(class, is_release, update_pending) ==
  CASE class = "ContinueDegraded" -> "Continue"
    [] class = "RebootToApply"    -> "Reboot"
    [] class = "Fatal"            -> IF update_pending THEN "Reboot"
                                     ELSE IF is_release THEN "Halt"
                                     ELSE "Shell"

(***************************************************************************)
(* What handle_fatal_error ends in: "off" is the reset that starts the     *)
(* next boot, "halted" the kmsg loop, "shell" the respawning debug shell.  *)
(* reboot(2) that returns falls through to the halt loop, and a Continue   *)
(* that reaches the handler is treated as Fatal without a pending update.  *)
(***************************************************************************)
StopStage(is_release) == IF is_release THEN "halted" ELSE "shell"

handle_fatal_error(e, is_release, update_pending, reboot_fails) ==
  LET action == decide(recovery_class(e), is_release, update_pending)
  IN  IF action = "Reboot"
      THEN IF reboot_fails THEN "halted" ELSE "off"
      ELSE StopStage(is_release)
=============================================================================
