------------------------------ MODULE FlashRun ------------------------------
(***************************************************************************)
(* The frame of every flash mode (mode/flash/mod.rs): the state of a       *)
(* device that boots into a flash mode, run_and_persist around the mode,   *)
(* the terminal action, and the EFI boot entries (mode/flash/efi.rs).      *)
(* CloneMode, ScpMode and UrlMode extend this module with the steps of the *)
(* three modes, and Flash composes them.                                   *)
(*                                                                         *)
(* A disk is a few bytes.  A byte of the running disk is of the image that *)
(* runs ("old"), of the image being flashed ("new"), zeroed, or wrong.     *)
(***************************************************************************)
EXTENDS RecoveryPolicy, BootMode, FiniteSets, Integers, Sequences

CONSTANTS
  Release,     \* the image is built with the release-image feature
  Builds,      \* the builds: [grub, gpt, direct, raw], raw the build constants of mode 1
  DiskLen,     \* the length of the running disk
  HeadLen,     \* the disk head: everything up to the end of the boot partition
  MaxU         \* the largest value of an unsigned integer

ASSUME ReleaseAssumption == Release \in BOOLEAN
ASSUME DiskAssumption == MaxU \in Nat /\ DiskLen \in 1 .. MaxU /\ HeadLen \in 1 .. DiskLen

Bytes == 0 .. DiskLen - 1
HeadBytes == 0 .. HeadLen - 1
Cells == {"old", "new", "zero", "junk"}

VARIABLES
  (*************************** durable state *****************************)
  build,       \* the build of the image; never changes
  env,         \* the boot environment: flash, reset, dev, image, sha
  flag,        \* /etc/enforce_flash_mode is in the running initramfs
  nvram,       \* the EFI boot entries
  disk,        \* the running disk
  clone,       \* the second disk
  (****************************** this boot ******************************)
  stage,       \* where the boot is
  error,       \* the error handed to handle_fatal_error
  mode,        \* the flash mode that runs
  cfg,         \* FlashConfig
  result,      \* the outcome of the mode
  table,       \* the kernel knows the partition table of the running disk
  mounts,      \* what is mounted of the running disk
  step,        \* the next step of the clone
  old,         \* the EFI entries still to delete
  plan,        \* what the mode is to write: the table of the clone, the checked bmap
  up,          \* mode 2: the files in the home of the scp user
  got,         \* mode 3: what was downloaded
  (************************ observation and faults ************************)
  hist,        \* what happened so far
  calm         \* no further fault, power loss or request

durable == <<build, env, flag, nvram, disk, clone>>
memory == <<error, mode, cfg, result, table, mounts, step, old, plan, up, got>>
vars == <<durable, stage, memory, hist, calm>>

EnvKeys == {"flash", "reset", "dev", "image", "sha"}
FlashKeys == EnvKeys \ {"reset"}
NoEnv == [k \in EnvKeys |-> "none"]

(***************************************************************************)
(* The destinations an operator can name: the second disk, the running     *)
(* one, a partition of either, a device without an entry in sysfs, a node  *)
(* that is no block device, and a device that never appears.               *)
(***************************************************************************)
Destinations == {"other", "otherPart", "own", "ownPart", "unknown", "file", "never"}

None == -1
NoPlan == [size |-> 0, ranges |-> <<>>]
NoUpload == [len |-> 0, flip |-> None]
NoUp == [fifo |-> "none", bmap |-> "none", writer |-> "idle", decoded |-> NoUpload,
         written |-> FALSE]
NoGot == [digest |-> "none", image |-> "none"]
NoCfg == [avail |-> FALSE, dev |-> NotSet, image |-> NotSet, sha |-> NotSet]

\* A boot entry: the disk it starts, and whether this boot created it.
BootEntry(d, fresh) == [disk |-> d, fresh |-> fresh]

(***************************************************************************)
(* hist: want - the bytes the image being flashed maps, clean - those that *)
(* are to be zeroed; unsafe - a partition of a partly written disk, or one *)
(* through an old table, was mounted; refused - the last request was       *)
(* refused as conflicting and its triggers could be deleted, and "ran"     *)
(* when one of the two modes ran for it all the same; and of this run:     *)
(* reader - remove_fifo could open the FIFO a client hangs in, io - a      *)
(* write of the running disk failed.                                       *)
(***************************************************************************)
FreshRun(h) == [h EXCEPT !.want = {}, !.clean = {}, !.reader = TRUE, !.io = FALSE]

NoHist == [want |-> {}, clean |-> {}, unsafe |-> FALSE, refused |-> "no", reader |-> TRUE,
           io |-> FALSE]

Fault == IF calm THEN {FALSE} ELSE BOOLEAN
Faulty == TRUE \in Fault

To(next) == stage' = next
Goto(from, next) == stage = from /\ To(next)

\* The mode returns r to run_and_persist.
EndRun(r) == To("persist") /\ result' = r

(***************************************************************************)
(* The content of the running disk.  It starts up when it is as it was or  *)
(* when every byte the image maps is there; after mode 2 it is complete    *)
(* when moreover nothing of the old image is left in the head.             *)
(***************************************************************************)
Intact == \A b \in Bytes : disk[b] = "old"
Written == hist.want # {} /\ \A b \in hist.want : disk[b] = "new"
Complete == Written /\ \A b \in hist.clean : disk[b] = "zero"

(***************************************************************************)
(* with_mount: a mount, some work on it, and the unmount; the error of the *)
(* work wins, an unmount that fails leaves the mount behind.  res is how   *)
(* it ends: "ok", "mount", "work" or "umount" (the step that failed).      *)
(***************************************************************************)
WithMountResults == {"ok", "mount", "work", "umount"}

with_mount(part, onOwn, res) ==
  /\ res \in WithMountResults
  /\ res # "ok" => Faulty
  /\ mounts' = IF res = "umount" /\ onOwn THEN mounts \cup {part} ELSE mounts
  /\ hist' = [hist EXCEPT !.unsafe =
       @ \/ (onOwn /\ res # "mount" /\ (~(Intact \/ Written) \/ ~table))]

(***************************************************************************)
(* run_and_persist: the triggers are deleted first, best-effort and one by *)
(* one; kept are the variables whose deletion failed.                      *)
(***************************************************************************)

\* Mutated form of Deleted: the trigger stays.
DeletedNothing(keys, kept) == env

Deleted(keys, kept) == [k \in EnvKeys |-> IF k \in keys \ kept THEN "none" ELSE env[k]]

\* One of the two triggers, or nothing at all can be deleted.
FailedDeletes == {{}, {"flash"}, {"reset"}, EnvKeys}

ClearTriggers(kept) ==
  /\ Goto("clear", "select")
  /\ kept # {} => Faulty
  /\ env' = IF cfg.avail THEN Deleted(FlashKeys, kept) ELSE env
  /\ UNCHANGED <<build, flag, nvram, disk, clone, memory, hist, calm>>

(***************************************************************************)
(* The outcome: the run log goes onto the data partition of the running    *)
(* disk unless the disk was partly written or its table could not be read  *)
(* again.  A log that cannot be written changes nothing.  What the mode    *)
(* knew is gone.                                                           *)
(***************************************************************************)

\* Mutated form of keeps_log: only the stale table is considered.
KeepsLogPartly(r) == r # "stale"

keeps_log(r) == r \notin {"partly", "stale"}

PersistLog(res) ==
  /\ stage = "persist"
  /\ IF keeps_log(result)
     THEN with_mount("log", TRUE, res)
     ELSE res = "ok" /\ UNCHANGED <<mounts, hist>>
  /\ IF result = "ok"
     THEN To("terminal") /\ UNCHANGED error
     ELSE To("failed") /\ error' = "Flash"
  /\ step' = 0 /\ old' = {} /\ plan' = NoPlan /\ up' = NoUp /\ got' = NoGot /\ cfg' = NoCfg
  /\ UNCHANGED <<durable, mode, result, table, calm>>

\* run: power off after a clone, reboot into the new image otherwise.  Either
\* ends this boot; a reboot(2) that returns is an error.
TerminalAction(fails) ==
  /\ stage = "terminal"
  /\ fails \in Fault
  /\ IF fails THEN To("failed") /\ error' = "Flash"
     ELSE To("off") /\ UNCHANGED error
  /\ UNCHANGED <<durable, mode, cfg, result, table, mounts, step, old, plan, up, got, hist, calm>>

(***************************************************************************)
(* efi::handle for the disk the mode wrote.  Any step that fails ends the  *)
(* mode with an error.  efibootmgr -c takes an unused number, so the new   *)
(* entry is never one of the listed ones.                                  *)
(***************************************************************************)
Target == IF mode = "1" THEN "other" ELSE "own"

EfiFails(from) ==
  /\ stage = from /\ Faulty
  /\ EndRun("failed")
  /\ UNCHANGED <<durable, error, mode, cfg, table, mounts, step, old, plan, up, got, hist, calm>>

EfiMount ==
  /\ Goto("efi", "efiList")
  /\ UNCHANGED <<durable, memory, hist, calm>>

\* Mutated form of EfiList: the old entries go before the new one exists.
EfiListDeletes ==
  /\ Goto("efiList", "efiCreate")
  /\ old' = {} /\ nvram' = {}
  /\ UNCHANGED <<build, env, flag, disk, clone, error, mode, cfg, result, table, mounts,
                 step, plan, up, got, hist, calm>>

EfiList ==
  /\ Goto("efiList", "efiCreate")
  /\ old' = nvram
  /\ UNCHANGED <<durable, error, mode, cfg, result, table, mounts, step, plan, up, got, hist, calm>>

EfiCreate ==
  /\ Goto("efiCreate", "efiDelete")
  /\ nvram' = nvram \cup {BootEntry(Target, TRUE)}
  /\ UNCHANGED <<build, env, flag, disk, clone, memory, hist, calm>>

\* Mutated form of EfiDelete: the entry stays in the list.
EfiDeleteAgain(e) ==
  /\ stage = "efiDelete" /\ e \in old
  /\ nvram' = nvram \ {e}
  /\ UNCHANGED <<build, env, flag, disk, clone, stage, error, mode, cfg, result, table,
                 mounts, step, old, plan, up, got, hist, calm>>

EfiDelete(e) ==
  /\ stage = "efiDelete" /\ e \in old
  /\ old' = old \ {e}
  /\ nvram' = nvram \ {e}
  /\ UNCHANGED <<build, env, flag, disk, clone, stage, error, mode, cfg, result, table,
                 mounts, step, plan, up, got, hist, calm>>

EfiDump ==
  /\ old = {}
  /\ Goto("efiDelete", "efiWrite")
  /\ UNCHANGED <<durable, memory, hist, calm>>

\* write_entry_dump onto the boot partition of the written disk; the sync of
\* the mode follows, and the mode is finished.
EfiWrite(res) ==
  /\ stage = "efiWrite"
  /\ with_mount("boot", Target = "own", res)
  /\ EndRun(IF res = "ok" THEN "ok" ELSE "failed")
  /\ UNCHANGED <<durable, error, mode, cfg, table, step, old, plan, up, got, calm>>

EfiStages == {"efi", "efiList", "efiCreate", "efiDelete", "efiWrite"}

EfiNext ==
  \/ EfiMount \/ EfiList \/ EfiCreate \/ EfiDump
  \/ \E e \in old : EfiDelete(e)
  \/ \E res \in WithMountResults : EfiWrite(res)
  \/ \E from \in EfiStages \ {"efiWrite"} : EfiFails(from)

FrameNext ==
  \/ \E kept \in FailedDeletes : ClearTriggers(kept)
  \/ \E res \in WithMountResults : PersistLog(res)
  \/ \E fails \in BOOLEAN : TerminalAction(fails)
=============================================================================
