----------------------------- MODULE FsckRecords -----------------------------
(***************************************************************************)
(* The way of a filesystem check result from fsck to the status JSON of    *)
(* ODS, over any number of boots: fsck_and_record puts it into OdsStatus,  *)
(* persist_fsck_results saves it outside the memory, drain_fsck_env takes  *)
(* it back, create_ods_runtime_files writes the JSON.  The boot around it  *)
(* is reduced to the points where it can fail or lose power.               *)
(*                                                                         *)
(* A record is reduced to its age: "new" from this boot, "old" from an     *)
(* earlier one, "bad" when it does not unpack.  Exit code and output       *)
(* travel together, so the exit-code-only retry for grubenv stores the     *)
(* same record.  U-Boot's fw_setenv writes the environment region itself,  *)
(* so its writes are durable; GRUB's are followed by sync(2), except the   *)
(* removal of a record file on reading.                                    *)
(***************************************************************************)
EXTENDS FsckCheck, Sequences, FiniteSets

CONSTANTS
  Builds,      \* the builds: [release, grub], the release-image feature and the backend
  Boot,        \* the boot partition: vfat, checked by mount_core_partitions
  Ext4         \* the partitions mount_remaining_partitions checks, in order

ASSUME BuildsAssumption == Builds \subseteq [release: BOOLEAN, grub: BOOLEAN]
ASSUME PartitionAssumption ==
  /\ Boot \in STRING /\ Ext4 \in Seq(STRING) /\ Ext4 # << >>
  /\ \A i, j \in 1 .. Len(Ext4) : Ext4[i] = Ext4[j] => i = j
  /\ \A i \in 1 .. Len(Ext4) : Ext4[i] # Boot

Parts == {Boot} \cup {Ext4[i] : i \in 1 .. Len(Ext4)}

\* Mutated form of FsckPartitions: a checked partition is not listed.
FsckPartitionsIncomplete == <<Boot>> \o Tail(Ext4)

\* FSCK_PARTITIONS, the order of the drain.
FsckPartitions == <<Boot>> \o Ext4

VARIABLES
  build,       \* the build of the image; never changes
  store,       \* the saved records: boot environment, or files on boot
  unsynced,    \* earlier contents the disk may still hold
  mem,         \* OdsStatus.fsck
  json,        \* the fsck object of the status file in /run
  stage,       \* where the boot is
  at,          \* index of the partition to check or to drain
  todo,        \* partitions persist_fsck_results has still to save
  envUp,       \* the boot environment is available
  err,         \* the captured result of the mounts
  due,         \* partitions with a result no running ODS has been given
  excuse,      \* of these: never saved, or destroyed, by a fault
  taken,       \* drained out of the store since they were last saved
  fresh,       \* partitions whose check was not clean on this boot
  unsaved,     \* the save of this boot's record failed
  calm         \* no further fault, power loss or reboot request

memory == <<mem, json, at, todo, envUp, err, fresh, unsaved>>
vars == <<build, store, unsynced, memory, stage, due, excuse, taken, calm>>

Stages ==
  {"off", "core", "persistCore", "setup", "mount", "persist", "links",
   "drain", "status", "finish", "failed", "running"}

NoRecords == [p \in Parts |-> "none"]

TypeOK ==
  /\ build \in Builds
  /\ store \in [Parts -> {"none", "new", "old", "bad"}]
  /\ unsynced \subseteq [Parts -> {"none", "new", "old", "bad"}]
  /\ mem \in [Parts -> {"none", "new", "old"}]
  /\ json \in [Parts -> {"none", "new", "old"}]
  /\ stage \in Stages
  /\ at \in 1 .. Len(FsckPartitions) + 1
  /\ todo \subseteq Parts
  /\ envUp \in BOOLEAN
  /\ err \in {"none", "Filesystem", "FsckRequiresReboot", "DegradedBoot"}
  /\ due \subseteq Parts /\ excuse \subseteq Parts /\ taken \subseteq Parts
  /\ fresh \subseteq Parts /\ unsaved \subseteq Parts
  /\ calm \in BOOLEAN

Init ==
  /\ build \in Builds
  /\ store = NoRecords /\ unsynced = {}
  /\ mem = NoRecords /\ json = NoRecords
  /\ stage = "off" /\ at = 1 /\ todo = {}
  /\ envUp = FALSE /\ err = "none"
  /\ due = {} /\ excuse = {} /\ taken = {} /\ fresh = {} /\ unsaved = {}
  /\ calm = FALSE

Fault == IF calm THEN {FALSE} ELSE BOOLEAN

Disks == unsynced \cup {store}

Recorded == {p \in Parts : mem[p] # "none"}

\* A write that is flushed takes everything before it along.
PutSynced(p, r) ==
  /\ store' = [store EXCEPT ![p] = r]
  /\ unsynced' = {}

PutUnsynced(p, r) ==
  /\ store' = [store EXCEPT ![p] = r]
  /\ unsynced' = unsynced \cup {store}

\* FsckChannel::for_partition
IsFile(p) == build.grub /\ p # Boot

(***************************************************************************)
(* The results of a check: boot is vfat.  Once the system is calm no check *)
(* asks for a reboot.  record_fsck_result leaves a clean result out.       *)
(***************************************************************************)
FsckResults(p) == CheckResults[IF p = Boot THEN "vfat" ELSE "ext4", ~calm]

record_fsck_result(p, result) ==
  IF result = "clean"
  THEN UNCHANGED <<mem, fresh, due, taken>>
  ELSE /\ mem' = [mem EXCEPT ![p] = "new"]
       /\ fresh' = fresh \cup {p}
       /\ due' = due \cup {p}
       /\ taken' = taken \ {p}

\* A required reboot is recorded, too, before it ends the mounts.
fsck_and_record(p, result) == record_fsck_result(p, result)

(***************************************************************************)
(* run_init up to the first persist: mount_core_partitions checks boot     *)
(* unless the rootfs could not be mounted, and its result is captured.     *)
(* GRUB needs the boot partition mounted to open its environment; a debug  *)
(* image aborts without one, and then nothing is saved.                    *)
(***************************************************************************)
StartBoot ==
  /\ stage = "off"
  /\ stage' = "core"
  /\ UNCHANGED <<store, unsynced, memory, due, excuse, taken, build, calm>>

MountCore(checked, result, mounted, opened) ==
  /\ stage = "core"
  /\ ~(checked /\ mounted /\ opened) => TRUE \in Fault
  /\ mounted => checked
  /\ IF build.grub THEN opened => mounted ELSE opened
  /\ result \in FsckResults(Boot)
  /\ result = "reboot" => ~mounted
  /\ fsck_and_record(Boot, IF checked THEN result ELSE "clean")
  /\ envUp' = opened
  /\ LET aborts == ~opened /\ ~build.release
     IN  /\ err' = IF ~mounted THEN "Filesystem"
                   ELSE IF aborts THEN "DegradedBoot" ELSE "none"
         /\ stage' = IF aborts THEN "failed" ELSE "persistCore"
         /\ todo' = {p \in Parts : mem'[p] # "none"}
         /\ excuse' = IF aborts THEN excuse \cup todo' ELSE excuse
  /\ UNCHANGED <<store, unsynced, json, at, unsaved, build, calm>>

(***************************************************************************)
(* persist_fsck_results: one save_fsck_status per recorded partition, in   *)
(* the order of a HashMap.  The outcomes: saved; the encoder failed and    *)
(* the empty value was written, which erases a U-Boot variable and leaves  *)
(* an undecodable record with GRUB; the write failed, which leaves the     *)
(* previous record or, for a file, a truncated one.                        *)
(***************************************************************************)
Persisting == stage \in {"persistCore", "persist"}

SaveOutcomes(p) ==
  {"saved"} \cup
  (IF calm THEN {} ELSE {"empty", "failed"} \cup (IF IsFile(p) THEN {"torn"} ELSE {}))

SaveFsckStatus(p, outcome) ==
  /\ Persisting /\ envUp /\ p \in todo
  /\ outcome \in SaveOutcomes(p)
  /\ CASE outcome = "saved"  -> PutSynced(p, mem[p])
       [] outcome = "empty"  -> PutSynced(p, IF build.grub THEN "bad" ELSE "none")
       [] outcome = "torn"   -> PutUnsynced(p, "bad")
       [] outcome = "failed" -> UNCHANGED <<store, unsynced>>
  /\ IF outcome = "saved"
     THEN /\ excuse' = excuse \ {p}
          /\ taken' = taken \ {p}
          /\ unsaved' = unsaved \ {p}
     ELSE /\ excuse' = excuse \cup {p}
          /\ unsaved' = unsaved \cup {p}
          /\ UNCHANGED taken
  /\ todo' = todo \ {p}
  /\ UNCHANGED <<mem, json, stage, at, envUp, err, fresh, due, build, calm>>

\* Without an environment nothing is saved.
SaveSkipped ==
  /\ Persisting /\ ~envUp /\ todo # {}
  /\ excuse' = excuse \cup todo
  /\ todo' = {}
  /\ UNCHANGED <<store, unsynced, mem, json, stage, at, envUp, err, fresh, unsaved,
                 due, taken, build, calm>>

\* The captured result is propagated once everything is saved.
AfterPersist ==
  IF err # "none" THEN "failed"
  ELSE IF stage = "persistCore" THEN "setup" ELSE "links"

PersistDone ==
  /\ Persisting /\ todo = {}
  /\ stage' = AfterPersist
  /\ at' = 1
  /\ UNCHANGED <<store, unsynced, mem, json, todo, envUp, err, fresh, unsaved,
                 due, excuse, taken, build, calm>>

(***************************************************************************)
(* Between the two persists: mode detection, extra bootargs and the resize *)
(* may end the boot.  The check of the data partition before its resize is *)
(* check_filesystem, not fsck_and_record: its result is not recorded.      *)
(***************************************************************************)
Setup(outcome) ==
  /\ stage = "setup"
  /\ outcome \in {"ok", "Filesystem", "FsckRequiresReboot"}
  /\ outcome # "ok" => TRUE \in Fault
  /\ IF outcome = "ok"
     THEN stage' = "mount" /\ UNCHANGED err
     ELSE stage' = "failed" /\ err' = outcome
  /\ UNCHANGED <<store, unsynced, mem, json, at, todo, envUp, fresh, unsaved,
                 due, excuse, taken, build, calm>>

(***************************************************************************)
(* normal::run: mount_remaining_partitions checks and mounts one partition *)
(* after the other and stops at the first error; the result is captured.   *)
(***************************************************************************)

\* Mutated form of AfterMount: the error is propagated before the persist.
AfterMountPropagates(e) == IF e = "none" THEN "persist" ELSE "failed"

\* Mutated form of AfterMount: only a failed boot saves its records.
AfterMountOnlyOnError(e) == IF e = "none" THEN "links" ELSE "persist"

AfterMount(e) == "persist"

MountPart(result, mounted) ==
  LET p == Ext4[at]
      e == IF result = "reboot" THEN "FsckRequiresReboot"
           ELSE IF ~mounted THEN "Filesystem" ELSE "none"
  IN  /\ stage = "mount" /\ at <= Len(Ext4)
      /\ ~mounted => TRUE \in Fault
      /\ result \in FsckResults(p)
      /\ fsck_and_record(p, result)
      /\ err' = e
      /\ at' = IF e = "none" THEN at + 1 ELSE 1
      /\ stage' = IF e = "none" THEN "mount" ELSE AfterMount(e)
      /\ todo' = IF e = "none" THEN {} ELSE {q \in Parts : mem'[q] # "none"}
      /\ UNCHANGED <<store, unsynced, json, envUp, unsaved, excuse, build, calm>>

\* All partitions are mounted; the tmpfs on /var/volatile is the last one.
MountVolatile(mounted) ==
  /\ stage = "mount" /\ at = Len(Ext4) + 1
  /\ ~mounted => TRUE \in Fault
  /\ err' = IF mounted THEN "none" ELSE "Filesystem"
  /\ stage' = AfterMount(err')
  /\ todo' = Recorded
  /\ UNCHANGED <<store, unsynced, mem, json, at, envUp, fresh, unsaved,
                 due, excuse, taken, build, calm>>

\* The overlays and the links, any of which may fail.
Links(ok) ==
  /\ stage = "links"
  /\ ~ok => TRUE \in Fault
  /\ stage' = IF ~ok THEN "failed" ELSE IF envUp THEN "drain" ELSE "status"
  /\ UNCHANGED <<store, unsynced, memory, due, excuse, taken, build, calm>>

(***************************************************************************)
(* drain_fsck_env, one partition per step.  A record that cannot be read   *)
(* is kept.  A record in the environment that does not unpack is cleared,  *)
(* one whose applet cannot run is kept.  A record file is removed by       *)
(* get_fsck_from_file once it is read, unpacked or not.  A record that was *)
(* read replaces the one in OdsStatus, then it is cleared.                 *)
(***************************************************************************)

\* Mutated form of Drains: an undecodable record in the environment is kept.
DrainsDecodable(p, readErr, appletErr) ==
  store[p] # "none" /\ ~readErr /\ (IsFile(p) \/ (~appletErr /\ store[p] # "bad"))

Drains(p, readErr, appletErr) ==
  store[p] # "none" /\ ~readErr /\ (IsFile(p) \/ ~appletErr)

\* Mutated form of Decoded: the value is not checked.
DecodedUnchecked(p, readErr, appletErr) ==
  IF readErr \/ appletErr THEN "none" ELSE store[p]

\* The record get_fsck_status returns.
Decoded(p, readErr, appletErr) ==
  IF readErr \/ appletErr \/ store[p] = "bad" THEN "none" ELSE store[p]

DrainPart(readErr, appletErr, clearErr) ==
  LET p == FsckPartitions[at]
      record == Decoded(p, readErr, appletErr)
  IN  /\ stage = "drain" /\ at <= Len(FsckPartitions)
      /\ {readErr, appletErr, clearErr} \subseteq Fault
      /\ mem' = IF record = "none" THEN mem ELSE [mem EXCEPT ![p] = record]
      /\ IF ~Drains(p, readErr, appletErr) \/ clearErr
         THEN UNCHANGED <<store, unsynced>>
         ELSE IF IsFile(p) THEN PutUnsynced(p, "none") ELSE PutSynced(p, "none")
      /\ taken' = IF record = "none" THEN taken ELSE taken \cup {p}
      /\ excuse' = IF record = "none" /\ Drains(p, readErr, appletErr)
                   THEN excuse \cup {p} ELSE excuse
      /\ at' = at + 1
      /\ UNCHANGED <<json, stage, todo, envUp, err, fresh, unsaved,
                     due, build, calm>>

DrainDone ==
  /\ stage = "drain" /\ at = Len(FsckPartitions) + 1
  /\ stage' = "status"
  /\ UNCHANGED <<store, unsynced, memory, due, excuse, taken, build, calm>>

WriteStatus(ok) ==
  /\ stage = "status"
  /\ ~ok => TRUE \in Fault
  /\ stage' = IF ok THEN "finish" ELSE "failed"
  /\ json' = IF ok THEN mem ELSE json
  /\ UNCHANGED <<store, unsynced, mem, at, todo, envUp, err, fresh, unsaved,
                 due, excuse, taken, build, calm>>

\* The rest of the boot: update validation, the marker and switch_root.
Finish(ok) ==
  /\ stage = "finish"
  /\ ~ok => TRUE \in Fault
  /\ stage' = IF ok THEN "running" ELSE "failed"
  /\ LET reported == IF ok THEN {p \in Parts : json[p] # "none"} ELSE {}
     IN  /\ due' = due \ reported
         /\ excuse' = excuse \ reported
         /\ taken' = taken \ reported
  /\ UNCHANGED <<store, unsynced, memory, build, calm>>

(***************************************************************************)
(* The end of a boot.  A record of this boot is an old one on the next.    *)
(***************************************************************************)
Aged(s) == [p \in Parts |-> IF s[p] = "new" THEN "old" ELSE s[p]]

NextBoot(s) ==
  /\ stage' = "off"
  /\ store' = Aged(s) /\ unsynced' = {}
  /\ mem' = NoRecords /\ json' = NoRecords
  /\ at' = 1 /\ todo' = {} /\ envUp' = FALSE /\ err' = "none"
  /\ fresh' = {} /\ unsaved' = {}

\* handle_fatal_error: reboot(2), or a power cycle after the halt or shell.
FailedBootEnds ==
  /\ stage = "failed"
  /\ \E s \in Disks : NextBoot(s)
  /\ UNCHANGED <<due, excuse, taken, build, calm>>

Reboot ==
  /\ stage = "running"
  /\ NextBoot(store)
  /\ UNCHANGED <<due, excuse, taken, build, calm>>

\* Records that power loss may destroy: not saved yet, or being saved.
Exposed ==
  CASE stage = "mount" -> {p \in Recorded : store[p] # "new"}
    [] Persisting      -> todo
    [] OTHER           -> {}

\* A record file is overwritten in place, so it may be cut short.
PowerLoss ==
  /\ ~calm /\ stage \notin {"off", "running"}
  /\ \E s \in Disks :
       \/ NextBoot(s)
       \/ \E p \in todo :
            Persisting /\ envUp /\ IsFile(p) /\ NextBoot([s EXCEPT ![p] = "bad"])
  /\ excuse' = excuse \cup Exposed
  /\ UNCHANGED <<due, taken, build, calm>>

Settle ==
  /\ ~calm
  /\ calm' = TRUE
  /\ UNCHANGED <<build, store, unsynced, memory, stage, due, excuse, taken>>

(***************************************************************************)
(* The specification.                                                      *)
(***************************************************************************)
InitStep ==
  \/ StartBoot
  \/ \E c, m, o \in BOOLEAN, r \in {"clean", "dirty", "reboot"} : MountCore(c, r, m, o)
  \/ \E p \in Parts, o \in {"saved", "empty", "torn", "failed"} : SaveFsckStatus(p, o)
  \/ SaveSkipped
  \/ PersistDone
  \/ \E o \in {"ok", "Filesystem", "FsckRequiresReboot"} : Setup(o)
  \/ \E r \in {"clean", "dirty", "reboot"}, m \in BOOLEAN : MountPart(r, m)
  \/ \E m \in BOOLEAN : MountVolatile(m)
  \/ \E k \in BOOLEAN : Links(k)
  \/ \E r, a, c \in BOOLEAN : DrainPart(r, a, c)
  \/ DrainDone
  \/ \E k \in BOOLEAN : WriteStatus(k)
  \/ \E k \in BOOLEAN : Finish(k)
  \/ FailedBootEnds

Next == InitStep \/ Reboot \/ PowerLoss \/ Settle

Spec == Init /\ [][Next]_vars

\* The init is the only process of a boot and takes its next step.
FairSpec == Spec /\ WF_vars(InitStep)

-----------------------------------------------------------------------------
(***************************************************************************)
(* Properties.                                                             *)
(***************************************************************************)
Held(p) ==
  mem[p] # "none" \/ \A s \in Disks : s[p] \in {"new", "old"}

(***************************************************************************)
(* A check result that was not clean is in memory or on the disk until a   *)
(* running ODS has it: an error that aborts the boot after the check never *)
(* loses it.  Excused are a failed save, a power loss before the save, and *)
(* a boot that ends after it drained the record (KeptUntilStatus).         *)
(***************************************************************************)
RecordKept ==
  \A p \in due : Held(p) \/ p \in excuse \/ p \in taken

(***************************************************************************)
(* "its result is kept until the status file is written, also over a       *)
(* reboot": what the documentation promises, with no excuse for a boot     *)
(* that ends between drain_fsck_env and the status file.                   *)
(***************************************************************************)
KeptUntilStatus ==
  \A p \in due : Held(p) \/ p \in excuse

(***************************************************************************)
(* A check that was not clean on this boot is in the status JSON with its  *)
(* own result, not with the one of an earlier boot, unless its save failed *)
(* (PersistFailureReported): the drain reads back what was saved.          *)
(***************************************************************************)
StatusIsCurrent ==
  stage = "running" =>
    \A p \in fresh : json[p] = "new" \/ p \in unsaved

(***************************************************************************)
(* "a persist that failed [...] still reaches the ODS JSON": the comment   *)
(* of apply_boot_env_decision on the records kept in OdsStatus.            *)
(***************************************************************************)
PersistFailureReported ==
  stage = "running" => \A p \in fresh : json[p] = "new"

(***************************************************************************)
(* Once nothing fails any more, a record left by an aborted boot is given  *)
(* to ODS and then gone from the boot environment.                         *)
(***************************************************************************)
RecordReachesOds ==
  \A p \in Parts :
    calm /\ stage = "off" /\ store[p] = "old" ~>
      stage = "running" /\ json[p] # "none" /\ store[p] = "none"

(***************************************************************************)
(* A record that does not unpack does not stay "in the env on every later  *)
(* boot" (drain_fsck_env).                                                 *)
(***************************************************************************)
BadRecordGoes ==
  \A p \in Parts :
    calm /\ stage = "off" /\ store[p] = "bad" ~>
      stage = "running" /\ store[p] = "none"
=============================================================================
