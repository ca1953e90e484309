----------------------------- MODULE FsckCheck -----------------------------
(***************************************************************************)
(* What a run of fsck means (filesystem/fsck.rs).  Everything here is      *)
(* pure; FsckRecords records the results.                                  *)
(*                                                                         *)
(* An exit code is the set of its bits.  A run of fsck exits with a code,  *)
(* is killed ("signal") or could not be started ("spawn"); replay: its     *)
(* output says that the journal was replayed.                              *)
(***************************************************************************)
EXTENDS Naturals

CORRECTED == 1
REBOOT_REQUIRED == 2
ERRORS_UNCORRECTED == 4
OPERATIONAL_ERROR == 8
FsckBits == {CORRECTED, REBOOT_REQUIRED, ERRORS_UNCORRECTED, OPERATIONAL_ERROR}

OK == {}

\* The sentinel -1 has every bit set, that of the reboot too.
UNKNOWN == FsckBits

FsckRuns == [end: {"exit", "signal", "spawn"}, bits: SUBSET FsckBits, replay: BOOLEAN]

\* From<Option<i32>>: a run that was killed has no code of its own.
ExitCode(run) == IF run.end = "signal" THEN {OPERATIONAL_ERROR} ELSE run.bits

is_mount_safe(code) == code \in {OK, {CORRECTED}}

\* fsck.fat does not use the bits of fsck(8).
uses_fsck_bitmask(fstype) == fstype = "ext4"

evaluate(fstype, code) ==
  [code |-> code,
   kind |-> IF uses_fsck_bitmask(fstype) /\ REBOOT_REQUIRED \in code
            THEN "FsckRequiresReboot"
            ELSE IF is_mount_safe(code) THEN "Ok" ELSE "FsckFailed"]

\* Mutated form of run_fsck: the code of a run that did not start is looked at.
RunFsckUnknown(fstype, run) ==
  evaluate(fstype, IF run.end = "spawn" THEN UNKNOWN ELSE ExitCode(run))

\* A run that cannot be started fails whatever its sentinel says.
run_fsck(fstype, run) ==
  IF run.end = "spawn" THEN [code |-> UNKNOWN, kind |-> "FsckFailed"]
  ELSE evaluate(fstype, ExitCode(run))

\* e2fsck calls a filesystem clean right after it replayed the journal.
needs_full_check(fstype, run) ==
  /\ uses_fsck_bitmask(fstype)
  /\ run.end # "spawn" /\ ExitCode(run) = OK /\ run.replay

check_filesystem_with(fstype, first, forced) ==
  run_fsck(fstype, IF needs_full_check(fstype, first) THEN forced ELSE first)

\* Every failure but a required reboot is tolerated; its code stays.
tolerate_failure(result) ==
  IF result.kind = "FsckFailed" THEN [result EXCEPT !.kind = "Ok"] ELSE result

check_filesystem_lenient(fstype, first, forced) ==
  LET r == tolerate_failure(check_filesystem_with(fstype, first, forced))
  IN  IF r.kind = "FsckRequiresReboot" THEN "reboot"
      ELSE IF r.code = OK THEN "clean" ELSE "dirty"

(***************************************************************************)
(* The results a check can have, among all runs and among those that do    *)
(* not ask for a reboot.                                                   *)
(***************************************************************************)
NoRebootRuns == {r \in FsckRuns : REBOOT_REQUIRED \notin r.bits}

CheckResults ==
  [fstype \in {"ext4", "vfat"}, all \in BOOLEAN |->
     LET runs == IF all THEN FsckRuns ELSE NoRebootRuns
     IN  {check_filesystem_lenient(fstype, a, b) : a, b \in runs}]
=============================================================================
