-------------------------- MODULE FsckRecordsProofs --------------------------
(***************************************************************************)
(* Theorems about FsckCheck and FsckRecords, for every build, every list   *)
(* of partitions and every exit code of fsck.  IInv is the inductive       *)
(* invariant: where the result of a check is at each stage of a boot.      *)
(***************************************************************************)
EXTENDS FsckRecords, SequenceTheorems, TLAPS

-----------------------------------------------------------------------------
(***************************************************************************)
(* The inductive invariant.                                                *)
(***************************************************************************)
Records == {"none", "new", "old", "bad"}

\* The stages before the drain, and those before the first write that is not flushed.
Collecting ==
  {"off", "core", "persistCore", "setup", "mount", "persist", "links"}
Flushed == {"off", "core", "persistCore", "setup", "mount"}

\* Every content the disk may have after a reset holds a record for p.
Saved(p) == \A s \in Disks : s[p] \in {"new", "old"}

\* A boot starts without records, and the first persist has that of boot only.
BootFirst ==
  /\ stage \in {"off", "core"} => mem = NoRecords
  /\ stage \in {"persistCore", "setup"} => Recorded \subseteq {Boot}

\* What is on the disk is flushed until the second persist.
DiskFlushed == stage \in Flushed => unsynced = {}

\* persist_fsck_results saves records it has.
TodoRecorded == Persisting => todo \subseteq Recorded

\* A result nobody has been given is on the disk, about to be saved, or excused.
RecordSafe ==
  \A p \in due : Saved(p) \/ p \in excuse \cup taken \cup Exposed

\* A result of this boot is in memory; the drain replaces one only if its save failed.
FreshInMemory ==
  /\ stage \in Collecting => \A p \in fresh : mem[p] = "new"
  /\ stage \in {"drain", "status"} => \A p \in fresh \ unsaved : mem[p] = "new"

\* Behind the persist the store has no older record of it, unless its save failed.
FreshSaved ==
  /\ stage = "persist" /\ envUp => \A p \in fresh \ (todo \cup unsaved) : store[p] = "new"
  /\ stage = "links" /\ envUp => \A p \in fresh \ unsaved : store[p] = "new"
  /\ stage = "drain" => \A p \in fresh \ unsaved : store[p] \in {"new", "none"}

\* From there it is in the status file.
JsonCurrent ==
  stage \in {"finish", "running"} => \A p \in fresh \ unsaved : json[p] = "new"

IInv ==
  /\ TypeOK
  /\ BootFirst
  /\ DiskFlushed
  /\ TodoRecorded
  /\ RecordSafe
  /\ FreshInMemory
  /\ FreshSaved
  /\ JsonCurrent

-----------------------------------------------------------------------------
(***************************************************************************)
(* What a check means.                                                     *)
(***************************************************************************)

(***************************************************************************)
(* fsck.fat's exit code is no bit mask: whatever the two runs of a check   *)
(* did, a vfat partition never asks for the reboot that ends a boot.       *)
(***************************************************************************)
THEOREM VfatNeverReboots ==
  ASSUME NEW first \in FsckRuns, NEW forced \in FsckRuns
  PROVE  check_filesystem_lenient("vfat", first, forced) \in {"clean", "dirty"}
BY DEF check_filesystem_lenient, tolerate_failure, check_filesystem_with, run_fsck,
     evaluate, uses_fsck_bitmask, needs_full_check

(***************************************************************************)
(* A check that reports clean, so that nothing is recorded, ended with a   *)
(* run that was started, was not killed and exited with 0; and when e2fsck *)
(* replayed the journal, that run is the forced one.                       *)
(***************************************************************************)
THEOREM CleanIsClean ==
  ASSUME NEW fstype \in {"ext4", "vfat"}, NEW first \in FsckRuns, NEW forced \in FsckRuns,
         check_filesystem_lenient(fstype, first, forced) = "clean"
  PROVE  /\ first.end = "exit" /\ first.bits = OK
         /\ fstype = "ext4" /\ first.replay => forced.end = "exit" /\ forced.bits = OK
<1> DEFINE run == IF needs_full_check(fstype, first) THEN forced ELSE first
<1>1. run_fsck(fstype, run).code = OK
  BY DEF check_filesystem_lenient, tolerate_failure, check_filesystem_with, run_fsck,
       evaluate
<1>2. run.end = "exit" /\ run.bits = OK
  BY <1>1 DEF run_fsck, evaluate, ExitCode, UNKNOWN, FsckBits, OK, FsckRuns
<1>3. CASE needs_full_check(fstype, first)
  BY <1>2, <1>3 DEF needs_full_check, ExitCode, OK, FsckRuns
<1>4. CASE ~needs_full_check(fstype, first)
  <2>1. first.end = "exit" /\ first.bits = OK
    BY <1>2, <1>4
  <2> QED
    BY <1>4, <2>1 DEF needs_full_check, ExitCode, uses_fsck_bitmask
<1> QED
  BY <1>3, <1>4

-----------------------------------------------------------------------------
(***************************************************************************)
(* Types.                                                                  *)
(***************************************************************************)

(***************************************************************************)
(* Every partition that is checked is one the drain visits, and the drain  *)
(* visits no other: FSCK_PARTITIONS has boot and the partitions of         *)
(* mount_remaining_partitions.                                             *)
(***************************************************************************)
LEMMA PartitionFacts ==
  /\ Boot \in Parts /\ Len(Ext4) \in Nat
  /\ Len(FsckPartitions) = Len(Ext4) + 1
  /\ \A i \in 1 .. Len(Ext4) : Ext4[i] \in Parts
  /\ \A i \in 1 .. Len(FsckPartitions) : FsckPartitions[i] \in Parts
<1>1. Ext4 \in Seq(STRING) /\ Boot \in STRING
  BY PartitionAssumption
<1>2. Len(Ext4) \in Nat /\ Len(FsckPartitions) = Len(Ext4) + 1
  BY <1>1 DEF FsckPartitions
<1>3. \A i \in 1 .. Len(Ext4) : Ext4[i] \in Parts
  BY DEF Parts
<1>4. ASSUME NEW i \in 1 .. Len(FsckPartitions) PROVE FsckPartitions[i] \in Parts
  <2>1. CASE i = 1
    BY <1>1, <2>1 DEF FsckPartitions, Parts
  <2>2. CASE i # 1
    <3>1. i - 1 \in 1 .. Len(Ext4) /\ FsckPartitions[i] = Ext4[i - 1]
      BY <1>1, <1>2, <2>2 DEF FsckPartitions
    <3> QED
      BY <1>3, <3>1
  <2> QED
    BY <2>1, <2>2
<1> QED
  BY <1>2, <1>3, <1>4 DEF Parts

(***************************************************************************)
(* A new boot starts with a store whose records are of their type.         *)
(***************************************************************************)
LEMMA NextBootType ==
  ASSUME NEW s \in [Parts -> Records]
  PROVE  Aged(s) \in [Parts -> Records] /\ NoRecords \in [Parts -> {"none", "new", "old"}]
BY DEF Aged, NoRecords, Records

(***************************************************************************)
(* Every step keeps the types.                                             *)
(***************************************************************************)
LEMMA TypeStep ==
  ASSUME TypeOK, [Next]_vars
  PROVE  TypeOK'
<1> USE DEF TypeOK, Stages
<1>1. CASE StartBoot
  BY <1>1, PartitionFacts DEF StartBoot, memory
<1>2. ASSUME NEW c \in BOOLEAN, NEW r \in {"clean", "dirty", "reboot"},
             NEW m \in BOOLEAN, NEW o \in BOOLEAN, MountCore(c, r, m, o)
      PROVE  TypeOK'
  <2>1. mem' \in [Parts -> {"none", "new", "old"}]
    BY <1>2, PartitionFacts DEF MountCore, fsck_and_record, record_fsck_result
  <2>2. fresh' \subseteq Parts /\ due' \subseteq Parts /\ taken' \subseteq Parts
    BY <1>2, PartitionFacts DEF MountCore, fsck_and_record, record_fsck_result
  <2>3. todo' \subseteq Parts /\ excuse' \subseteq Parts
    BY <1>2 DEF MountCore
  <2> QED
    BY <1>2, <2>1, <2>2, <2>3 DEF MountCore
<1>3. ASSUME NEW p \in Parts, NEW o \in {"saved", "empty", "torn", "failed"},
             SaveFsckStatus(p, o)
      PROVE  TypeOK'
  <2>1. /\ store' \in [Parts -> {"none", "new", "old", "bad"}]
        /\ unsynced' \subseteq [Parts -> {"none", "new", "old", "bad"}]
    <3>1. mem[p] \in {"none", "new", "old"}
      OBVIOUS
    <3>2. CASE o = "saved"
      BY <1>3, <3>1, <3>2 DEF SaveFsckStatus, PutSynced
    <3>3. CASE o = "empty"
      BY <1>3, <3>3 DEF SaveFsckStatus, PutSynced
    <3>4. CASE o = "torn"
      BY <1>3, <3>4 DEF SaveFsckStatus, PutUnsynced
    <3>5. CASE o = "failed"
      BY <1>3, <3>5 DEF SaveFsckStatus
    <3> QED
      BY <3>2, <3>3, <3>4, <3>5
  <2>2. excuse' \subseteq Parts /\ taken' \subseteq Parts /\ unsaved' \subseteq Parts
    BY <1>3 DEF SaveFsckStatus
  <2> QED
    BY <1>3, <2>1, <2>2 DEF SaveFsckStatus
<1>4. CASE SaveSkipped
  BY <1>4, PartitionFacts DEF SaveSkipped, memory
<1>5. CASE PersistDone
  BY <1>5, PartitionFacts DEF PersistDone, AfterPersist, memory
<1>6. ASSUME NEW o \in {"ok", "Filesystem", "FsckRequiresReboot"}, Setup(o)
      PROVE  TypeOK'
  BY <1>6, PartitionFacts DEF Setup, memory
<1>7. ASSUME NEW r \in {"clean", "dirty", "reboot"}, NEW m \in BOOLEAN, MountPart(r, m)
      PROVE  TypeOK'
  <2>1. Ext4[at] \in Parts /\ at + 1 \in 1 .. Len(FsckPartitions) + 1
    BY <1>7, PartitionFacts DEF MountPart
  <2>2. mem' \in [Parts -> {"none", "new", "old"}]
    BY <1>7, <2>1 DEF MountPart, fsck_and_record, record_fsck_result
  <2>3. fresh' \subseteq Parts /\ due' \subseteq Parts /\ taken' \subseteq Parts
    BY <1>7, <2>1 DEF MountPart, fsck_and_record, record_fsck_result
  <2>4. todo' \subseteq Parts /\ at' \in 1 .. Len(FsckPartitions) + 1
    BY <1>7, <2>1, PartitionFacts DEF MountPart
  <2> QED
    BY <1>7, <2>2, <2>3, <2>4 DEF MountPart, AfterMount
<1>8. ASSUME NEW m \in BOOLEAN, MountVolatile(m) PROVE TypeOK'
  <2>1. err' \in {"none", "Filesystem"} /\ stage' = "persist"
    BY <1>8 DEF MountVolatile, AfterMount
  <2>2. todo' \subseteq Parts
    BY <1>8 DEF MountVolatile, Recorded
  <2> QED
    BY <1>8, <2>1, <2>2 DEF MountVolatile
<1>9. ASSUME NEW k \in BOOLEAN, Links(k) PROVE TypeOK'
  BY <1>9, PartitionFacts DEF Links, memory
<1>10. ASSUME NEW r \in BOOLEAN, NEW a \in BOOLEAN, NEW c \in BOOLEAN,
              DrainPart(r, a, c)
       PROVE  TypeOK'
  BY <1>10, PartitionFacts DEF DrainPart, Decoded, Drains, PutSynced, PutUnsynced,
       memory
<1>11. CASE DrainDone
  BY <1>11, PartitionFacts DEF DrainDone, memory
<1>12. ASSUME NEW k \in BOOLEAN, WriteStatus(k) PROVE TypeOK'
  BY <1>12, PartitionFacts DEF WriteStatus, memory
<1>13. ASSUME NEW k \in BOOLEAN, Finish(k) PROVE TypeOK'
  BY <1>13, PartitionFacts DEF Finish, memory
<1>14. CASE FailedBootEnds
  <2>1. PICK s \in Disks : NextBoot(s)
    BY <1>14 DEF FailedBootEnds
  <2>2. s \in [Parts -> Records]
    BY DEF Disks, Records
  <2>3. 1 \in 1 .. Len(FsckPartitions) + 1
    BY PartitionFacts
  <2> QED
    BY <1>14, <2>1, <2>2, <2>3, NextBootType DEF FailedBootEnds, NextBoot, Records
<1>15. CASE Reboot
  <2>1. store \in [Parts -> Records]
    BY DEF Records
  <2>2. 1 \in 1 .. Len(FsckPartitions) + 1
    BY PartitionFacts
  <2> QED
    BY <1>15, <2>1, <2>2, NextBootType DEF Reboot, NextBoot, Records
<1>16. CASE PowerLoss
  <2>1. PICK s \in [Parts -> Records] : NextBoot(s)
    <3>1. PICK s \in Disks :
            \/ NextBoot(s)
            \/ \E p \in todo : NextBoot([s EXCEPT ![p] = "bad"])
      BY <1>16 DEF PowerLoss
    <3>2. s \in [Parts -> Records]
      BY DEF Disks, Records
    <3>3. \A p \in todo : [s EXCEPT ![p] = "bad"] \in [Parts -> Records]
      BY <3>2 DEF Records
    <3> QED
      BY <3>1, <3>2, <3>3
  <2>2. Exposed \subseteq Parts
    BY DEF Exposed, Recorded
  <2>3. 1 \in 1 .. Len(FsckPartitions) + 1
    BY PartitionFacts
  <2> QED
    BY <1>16, <2>1, <2>2, <2>3, NextBootType DEF PowerLoss, NextBoot, Records
<1>17. CASE Settle
  BY <1>17, PartitionFacts DEF Settle, memory
<1>18. CASE UNCHANGED vars
  BY <1>18, PartitionFacts DEF vars, memory
<1> QED
  BY <1>1, <1>2, <1>3, <1>4, <1>5, <1>6, <1>7, <1>8, <1>9, <1>10, <1>11, <1>12, <1>13,
       <1>14, <1>15, <1>16, <1>17, <1>18 DEF Next, InitStep

-----------------------------------------------------------------------------
(***************************************************************************)
(* The parts of the invariant, by concern.                                 *)
(***************************************************************************)

(***************************************************************************)
(* What a boot has in memory and on the disk before its second persist:    *)
(* the record of boot, and nothing that is not flushed.                    *)
(***************************************************************************)
LEMMA StoreStep ==
  ASSUME TypeOK, BootFirst, DiskFlushed, TodoRecorded, [Next]_vars
  PROVE  (BootFirst /\ DiskFlushed /\ TodoRecorded)'
<1> USE DEF BootFirst, DiskFlushed, TodoRecorded, Persisting, Recorded, Flushed
<1>1. CASE StartBoot
  BY <1>1 DEF StartBoot, memory
<1>2. ASSUME NEW c \in BOOLEAN, NEW r \in {"clean", "dirty", "reboot"},
             NEW m \in BOOLEAN, NEW o \in BOOLEAN, MountCore(c, r, m, o)
      PROVE  (BootFirst /\ DiskFlushed /\ TodoRecorded)'
  BY <1>2 DEF MountCore, fsck_and_record, record_fsck_result, memory, NoRecords, TypeOK
<1>3. ASSUME NEW p \in Parts, NEW o \in {"saved", "empty", "torn", "failed"},
             SaveFsckStatus(p, o)
      PROVE  (BootFirst /\ DiskFlushed /\ TodoRecorded)'
  BY <1>3 DEF SaveFsckStatus, PutSynced, PutUnsynced, memory, IsFile, SaveOutcomes
<1>4. CASE SaveSkipped
  BY <1>4 DEF SaveSkipped, memory
<1>5. CASE PersistDone
  BY <1>5 DEF PersistDone, AfterPersist, memory
<1>6. ASSUME NEW o \in {"ok", "Filesystem", "FsckRequiresReboot"}, Setup(o)
      PROVE  (BootFirst /\ DiskFlushed /\ TodoRecorded)'
  BY <1>6 DEF Setup, memory
<1>7. ASSUME NEW r \in {"clean", "dirty", "reboot"}, NEW m \in BOOLEAN, MountPart(r, m)
      PROVE  (BootFirst /\ DiskFlushed /\ TodoRecorded)'
  BY <1>7 DEF MountPart, AfterMount, fsck_and_record, record_fsck_result, memory
<1>8. ASSUME NEW m \in BOOLEAN, MountVolatile(m)
      PROVE  (BootFirst /\ DiskFlushed /\ TodoRecorded)'
  BY <1>8 DEF MountVolatile, AfterMount, memory
<1>9. ASSUME NEW k \in BOOLEAN, Links(k)
      PROVE  (BootFirst /\ DiskFlushed /\ TodoRecorded)'
  BY <1>9 DEF Links, memory
<1>10. ASSUME NEW r \in BOOLEAN, NEW a \in BOOLEAN, NEW c \in BOOLEAN,
              DrainPart(r, a, c)
       PROVE  (BootFirst /\ DiskFlushed /\ TodoRecorded)'
  BY <1>10 DEF DrainPart, Decoded, Drains, PutSynced, PutUnsynced, memory
<1>11. CASE DrainDone
  BY <1>11 DEF DrainDone, memory
<1>12. ASSUME NEW k \in BOOLEAN, WriteStatus(k)
       PROVE  (BootFirst /\ DiskFlushed /\ TodoRecorded)'
  BY <1>12 DEF WriteStatus, memory
<1>13. ASSUME NEW k \in BOOLEAN, Finish(k)
       PROVE  (BootFirst /\ DiskFlushed /\ TodoRecorded)'
  BY <1>13 DEF Finish, memory
<1>14. CASE FailedBootEnds
  BY <1>14 DEF FailedBootEnds, NextBoot, memory
<1>15. CASE Reboot
  BY <1>15 DEF Reboot, NextBoot, memory
<1>16. CASE PowerLoss
  BY <1>16 DEF PowerLoss, NextBoot, memory
<1>17. CASE Settle
  BY <1>17 DEF Settle, memory
<1>18. CASE UNCHANGED vars
  BY <1>18 DEF vars, memory
<1> QED
  BY <1>1, <1>2, <1>3, <1>4, <1>5, <1>6, <1>7, <1>8, <1>9, <1>10, <1>11, <1>12, <1>13,
       <1>14, <1>15, <1>16, <1>17, <1>18 DEF Next, InitStep

(***************************************************************************)
(* Writing the record of one partition leaves what is saved of the others. *)
(***************************************************************************)
LEMMA OthersSaved ==
  ASSUME TypeOK, NEW p \in Parts, NEW r, NEW q \in Parts \ {p}, Saved(q),
         PutSynced(p, r) \/ PutUnsynced(p, r) \/ UNCHANGED <<store, unsynced>>
  PROVE  Saved(q)'
<1>1. store'[q] \in {"new", "old"}
  BY DEF TypeOK, Saved, Disks, PutSynced, PutUnsynced
<1>2. unsynced' \subseteq Disks
  BY DEF PutSynced, PutUnsynced, Disks
<1> QED
  BY <1>1, <1>2 DEF Saved, Disks

(***************************************************************************)
(* A record that the disk holds when a boot ends is there, aged, for the   *)
(* next one.                                                               *)
(***************************************************************************)
LEMMA SavedOverReset ==
  ASSUME NEW s \in [Parts -> Records], NextBoot(s), NEW q \in Parts, s[q] \in {"new", "old"}
  PROVE  Saved(q)'
BY DEF NextBoot, Aged, Saved, Disks

(***************************************************************************)
(* A result nobody has been given stays on the disk or is about to be      *)
(* saved. A save that did not succeed, a power loss and a boot that        *)
(* drained it are the only ways out.                                       *)
(***************************************************************************)
LEMMA RecordStep ==
  ASSUME TypeOK, TypeOK', BootFirst, DiskFlushed, TodoRecorded, RecordSafe, [Next]_vars
  PROVE  RecordSafe'
<1> USE DEF RecordSafe, Exposed, Persisting, Recorded
<1>1. CASE StartBoot
  BY <1>1 DEF StartBoot, memory, Saved, Disks
<1>2. ASSUME NEW c \in BOOLEAN, NEW r \in {"clean", "dirty", "reboot"},
             NEW m \in BOOLEAN, NEW o \in BOOLEAN, MountCore(c, r, m, o)
      PROVE  RecordSafe'
  <2> SUFFICES ASSUME NEW q \in due'
               PROVE  Saved(q)' \/ q \in (excuse \cup taken \cup Exposed)'
    OBVIOUS
  <2>1. Saved(q) => Saved(q)'
    BY <1>2 DEF MountCore, Saved, Disks
  <2>2. CASE q \in due /\ (q \in taken => q \in taken')
    BY <1>2, <2>1, <2>2 DEF MountCore
  <2>3. CASE ~(q \in due /\ (q \in taken => q \in taken'))
    <3>1. q = Boot /\ mem'[q] = "new"
      BY <1>2, <2>3, PartitionFacts DEF MountCore, fsck_and_record, record_fsck_result, TypeOK
    <3>2. q \in todo'
      BY <1>2, <3>1, PartitionFacts DEF MountCore
    <3> QED
      BY <1>2, <3>2 DEF MountCore
  <2> QED
    BY <2>2, <2>3
<1>3. ASSUME NEW p \in Parts, NEW o \in {"saved", "empty", "torn", "failed"},
             SaveFsckStatus(p, o)
      PROVE  RecordSafe'
  <2> SUFFICES ASSUME NEW q \in due'
               PROVE  Saved(q)' \/ q \in (excuse \cup taken \cup Exposed)'
    OBVIOUS
  <2>1. q \in Parts /\ q \in due
    BY <1>3 DEF SaveFsckStatus, TypeOK
  <2>2. CASE q # p
    <3>1. Saved(q) => Saved(q)'
      <4>1. \E x : PutSynced(p, x) \/ PutUnsynced(p, x) \/ UNCHANGED <<store, unsynced>>
        BY <1>3 DEF SaveFsckStatus
      <4> QED
        BY <2>1, <2>2, <4>1, OthersSaved
    <3> QED
      BY <1>3, <2>1, <2>2, <3>1 DEF SaveFsckStatus
  <2>3. CASE q = p /\ o = "saved"
    <3>1. mem[p] \in {"new", "old"}
      BY <1>3 DEF SaveFsckStatus, TodoRecorded, TypeOK
    <3>2. store'[p] = mem[p] /\ unsynced' = {}
      BY <1>3, <2>3 DEF SaveFsckStatus, PutSynced, TypeOK
    <3> QED
      BY <2>3, <3>1, <3>2 DEF Saved, Disks
  <2>4. CASE q = p /\ o # "saved"
    BY <1>3, <2>4 DEF SaveFsckStatus
  <2> QED
    BY <2>2, <2>3, <2>4
<1>4. CASE SaveSkipped
  BY <1>4 DEF SaveSkipped, memory, Saved, Disks
<1>5. CASE PersistDone
  BY <1>5 DEF PersistDone, AfterPersist, memory, Saved, Disks
<1>6. ASSUME NEW o \in {"ok", "Filesystem", "FsckRequiresReboot"}, Setup(o)
      PROVE  RecordSafe'
  BY <1>6 DEF Setup, memory, Saved, Disks
<1>7. ASSUME NEW r \in {"clean", "dirty", "reboot"}, NEW m \in BOOLEAN, MountPart(r, m)
      PROVE  RecordSafe'
  <2> SUFFICES ASSUME NEW q \in due'
               PROVE  Saved(q)' \/ q \in (excuse \cup taken \cup Exposed)'
    OBVIOUS
  <2>1. /\ Ext4[at] \in Parts
        /\ stage = "mount" /\ stage' \in {"mount", "persist"}
        /\ store' = store /\ unsynced' = unsynced /\ excuse' = excuse
        /\ stage' = "persist" => todo' = {x \in Parts : mem'[x] # "none"}
    BY <1>7, PartitionFacts DEF MountPart, AfterMount, TypeOK
  <2>2. \A x \in Parts : mem[x] # "none" => mem'[x] # "none"
    BY <1>7 DEF MountPart, fsck_and_record, record_fsck_result, TypeOK
  <2>3. Saved(q) => Saved(q)'
    BY <2>1 DEF Saved, Disks
  <2>4. CASE q \in due /\ (q \in taken => q \in taken')
    BY <2>1, <2>2, <2>3, <2>4
  <2>5. CASE ~(q \in due /\ (q \in taken => q \in taken'))
    <3>1. q = Ext4[at] /\ mem'[q] = "new"
      BY <1>7, <2>1, <2>5 DEF MountPart, fsck_and_record, record_fsck_result, TypeOK
    <3>2. CASE store[q] = "new"
      BY <2>1, <3>2 DEF DiskFlushed, Flushed, Saved, Disks
    <3>3. CASE store[q] # "new"
      BY <2>1, <3>1, <3>3
    <3> QED
      BY <3>2, <3>3
  <2> QED
    BY <2>4, <2>5
<1>8. ASSUME NEW m \in BOOLEAN, MountVolatile(m) PROVE RecordSafe'
  BY <1>8 DEF MountVolatile, AfterMount, memory, Saved, Disks
<1>9. ASSUME NEW k \in BOOLEAN, Links(k) PROVE RecordSafe'
  BY <1>9 DEF Links, memory, Saved, Disks
<1>10. ASSUME NEW r \in BOOLEAN, NEW a \in BOOLEAN, NEW c \in BOOLEAN,
              DrainPart(r, a, c)
       PROVE  RecordSafe'
  <2> SUFFICES ASSUME NEW q \in due'
               PROVE  Saved(q)' \/ q \in (excuse \cup taken \cup Exposed)'
    OBVIOUS
  <2> DEFINE p == FsckPartitions[at]
  <2>1. p \in Parts /\ q \in Parts /\ q \in due
    BY <1>10, PartitionFacts DEF DrainPart, TypeOK
  <2>2. excuse \subseteq excuse' /\ taken \subseteq taken' /\ stage = "drain"
    BY <1>10 DEF DrainPart
  <2>3. CASE q # p
    <3>1. \E x : PutSynced(p, x) \/ PutUnsynced(p, x) \/ UNCHANGED <<store, unsynced>>
      BY <1>10 DEF DrainPart
    <3>2. Saved(q) => Saved(q)'
      BY <2>1, <2>3, <3>1, OthersSaved
    <3> QED
      BY <2>1, <2>2, <3>2
  <2>4. CASE q = p /\ Drains(p, r, a)
    BY <1>10, <2>4 DEF DrainPart
  <2>5. CASE q = p /\ ~Drains(p, r, a)
    <3>1. UNCHANGED <<store, unsynced>>
      BY <1>10, <2>5 DEF DrainPart
    <3>2. Saved(q) => Saved(q)'
      BY <3>1 DEF Saved, Disks
    <3> QED
      BY <2>1, <2>2, <3>2
  <2> QED
    BY <2>3, <2>4, <2>5
<1>11. CASE DrainDone
  BY <1>11 DEF DrainDone, memory, Saved, Disks
<1>12. ASSUME NEW k \in BOOLEAN, WriteStatus(k) PROVE RecordSafe'
  BY <1>12 DEF WriteStatus, memory, Saved, Disks
<1>13. ASSUME NEW k \in BOOLEAN, Finish(k) PROVE RecordSafe'
  BY <1>13 DEF Finish, memory, Saved, Disks
<1>14. CASE FailedBootEnds
  <2>1. PICK s \in Disks : NextBoot(s)
    BY <1>14 DEF FailedBootEnds
  <2>2. s \in [Parts -> Records]
    BY DEF Disks, Records, TypeOK
  <2>3. \A q \in Parts : Saved(q) => Saved(q)'
    <3>1. \A q \in Parts : Saved(q) => s[q] \in {"new", "old"}
      BY DEF Saved
    <3> QED
      BY <2>1, <2>2, <3>1, SavedOverReset
  <2> QED
    BY <1>14, <2>3 DEF FailedBootEnds, TypeOK
<1>15. CASE Reboot
  <2>1. store \in [Parts -> Records] /\ NextBoot(store)
    BY <1>15 DEF Reboot, Records, TypeOK
  <2>2. \A q \in Parts : Saved(q) => Saved(q)'
    <3>1. \A q \in Parts : Saved(q) => store[q] \in {"new", "old"}
      BY DEF Saved, Disks
    <3> QED
      BY <2>1, <3>1, SavedOverReset
  <2> QED
    BY <1>15, <2>2 DEF Reboot, TypeOK
<1>16. CASE PowerLoss
  <2> SUFFICES ASSUME NEW q \in due'
               PROVE  Saved(q)' \/ q \in (excuse \cup taken \cup Exposed)'
    OBVIOUS
  <2>1. q \in Parts /\ q \in due /\ excuse' = excuse \cup Exposed /\ taken' = taken
    BY <1>16 DEF PowerLoss, TypeOK
  <2>2. CASE q \in excuse \cup taken \cup Exposed
    BY <2>1, <2>2
  <2>3. CASE Saved(q) /\ q \notin Exposed
    <3>1. PICK s \in [Parts -> Records] : NextBoot(s) /\ s[q] \in {"new", "old"}
      <4>1. PICK s \in Disks :
              \/ NextBoot(s)
              \/ \E p \in todo : Persisting /\ NextBoot([s EXCEPT ![p] = "bad"])
        BY <1>16 DEF PowerLoss
      <4>2. s \in [Parts -> Records] /\ s[q] \in {"new", "old"}
        BY <2>3 DEF Disks, Records, TypeOK, Saved
      <4>3. CASE NextBoot(s)
        BY <4>2, <4>3
      <4>4. ASSUME NEW p \in todo, Persisting, NextBoot([s EXCEPT ![p] = "bad"])
            PROVE  \E t \in [Parts -> Records] : NextBoot(t) /\ t[q] \in {"new", "old"}
        <5>1. p # q
          BY <2>3, <4>4
        <5> DEFINE t == [s EXCEPT ![p] = "bad"]
        <5>2. t \in [Parts -> Records] /\ t[q] \in {"new", "old"}
          BY <2>1, <4>2, <5>1 DEF Records
        <5> QED
          BY <4>4, <5>2
      <4> QED
        BY <4>1, <4>3, <4>4
    <3> QED
      BY <2>1, <3>1, SavedOverReset
  <2> QED
    BY <2>1, <2>2, <2>3
<1>17. CASE Settle
  BY <1>17 DEF Settle, memory, Saved, Disks
<1>18. CASE UNCHANGED vars
  BY <1>18 DEF vars, memory, Saved, Disks
<1> QED
  BY <1>1, <1>2, <1>3, <1>4, <1>5, <1>6, <1>7, <1>8, <1>9, <1>10, <1>11, <1>12, <1>13,
       <1>14, <1>15, <1>16, <1>17, <1>18 DEF Next, InitStep

(***************************************************************************)
(* What this boot found is what its status file says: the drain reads back *)
(* a record that is not older than the one in memory.                      *)
(***************************************************************************)
LEMMA FreshStep ==
  ASSUME TypeOK, TypeOK', FreshInMemory, FreshSaved, JsonCurrent, [Next]_vars
  PROVE  (FreshInMemory /\ FreshSaved /\ JsonCurrent)'
<1> USE DEF FreshInMemory, FreshSaved, JsonCurrent, Collecting, Persisting, Recorded
<1>1. CASE StartBoot
  BY <1>1 DEF StartBoot, memory
<1>2. ASSUME NEW c \in BOOLEAN, NEW r \in {"clean", "dirty", "reboot"},
             NEW m \in BOOLEAN, NEW o \in BOOLEAN, MountCore(c, r, m, o)
      PROVE  (FreshInMemory /\ FreshSaved /\ JsonCurrent)'
  <2>1. \A p \in fresh' : mem'[p] = "new"
    BY <1>2, PartitionFacts DEF MountCore, fsck_and_record, record_fsck_result, TypeOK
  <2> QED
    BY <1>2, <2>1 DEF MountCore
<1>3. ASSUME NEW p \in Parts, NEW o \in {"saved", "empty", "torn", "failed"},
             SaveFsckStatus(p, o)
      PROVE  (FreshInMemory /\ FreshSaved /\ JsonCurrent)'
  <2>1. stage \in {"persistCore", "persist"} /\ stage' = stage /\ mem' = mem /\ fresh' = fresh
    BY <1>3 DEF SaveFsckStatus
  <2>2. ASSUME stage = "persist", envUp, NEW q \in fresh \ (todo' \cup unsaved')
        PROVE  store'[q] = "new"
    <3>1. CASE q = p
      <4>1. o = "saved"
        BY <1>3, <2>2, <3>1 DEF SaveFsckStatus
      <4>2. PutSynced(p, mem[p])
        BY <1>3, <4>1 DEF SaveFsckStatus
      <4>3. store'[p] = mem[p]
        BY <4>2 DEF PutSynced, TypeOK
      <4> QED
        BY <2>2, <3>1, <4>3
    <3>2. CASE q # p
      <4>1. q \in fresh \ (todo \cup unsaved) /\ q \in Parts
        BY <1>3, <2>2, <3>2 DEF SaveFsckStatus, TypeOK
      <4>2. \E x : PutSynced(p, x) \/ PutUnsynced(p, x) \/ UNCHANGED <<store, unsynced>>
        BY <1>3 DEF SaveFsckStatus
      <4>3. store'[q] = store[q]
        BY <3>2, <4>1, <4>2 DEF PutSynced, PutUnsynced, TypeOK
      <4> QED
        BY <2>2, <4>1, <4>3
    <3> QED
      BY <3>1, <3>2
  <2>3. envUp' = envUp
    BY <1>3 DEF SaveFsckStatus
  <2> QED
    BY <2>1, <2>2, <2>3
<1>4. CASE SaveSkipped
  BY <1>4 DEF SaveSkipped, memory
<1>5. CASE PersistDone
  BY <1>5 DEF PersistDone, AfterPersist, memory
<1>6. ASSUME NEW o \in {"ok", "Filesystem", "FsckRequiresReboot"}, Setup(o)
      PROVE  (FreshInMemory /\ FreshSaved /\ JsonCurrent)'
  BY <1>6 DEF Setup, memory
<1>7. ASSUME NEW r \in {"clean", "dirty", "reboot"}, NEW m \in BOOLEAN, MountPart(r, m)
      PROVE  (FreshInMemory /\ FreshSaved /\ JsonCurrent)'
  <2>1. /\ Ext4[at] \in Parts
        /\ stage = "mount" /\ stage' \in {"mount", "persist"}
        /\ stage' = "persist" => todo' = {x \in Parts : mem'[x] # "none"}
    BY <1>7, PartitionFacts DEF MountPart, AfterMount, TypeOK
  <2>2. \A q \in fresh' : mem'[q] = "new"
    BY <1>7, <2>1 DEF MountPart, fsck_and_record, record_fsck_result, TypeOK
  <2>3. fresh' \subseteq Parts
    BY DEF TypeOK
  <2> QED
    BY <2>1, <2>2, <2>3
<1>8. ASSUME NEW m \in BOOLEAN, MountVolatile(m)
      PROVE  (FreshInMemory /\ FreshSaved /\ JsonCurrent)'
  BY <1>8 DEF MountVolatile, AfterMount, memory, TypeOK
<1>9. ASSUME NEW k \in BOOLEAN, Links(k)
      PROVE  (FreshInMemory /\ FreshSaved /\ JsonCurrent)'
  BY <1>9 DEF Links, memory
<1>10. ASSUME NEW r \in BOOLEAN, NEW a \in BOOLEAN, NEW c \in BOOLEAN,
              DrainPart(r, a, c)
       PROVE  (FreshInMemory /\ FreshSaved /\ JsonCurrent)'
  <2> DEFINE p == FsckPartitions[at]
  <2>1. p \in Parts /\ stage = "drain" /\ stage' = "drain"
    BY <1>10, PartitionFacts DEF DrainPart, TypeOK
  <2>2. fresh' = fresh /\ unsaved' = unsaved /\ fresh \subseteq Parts
    BY <1>10 DEF DrainPart, TypeOK
  <2>3. ASSUME NEW q \in fresh \ unsaved PROVE mem'[q] = "new"
    <3>1. mem[q] = "new" /\ store[q] \in {"new", "none"} /\ q \in Parts
      BY <2>1, <2>2
    <3>2. CASE q # p
      BY <1>10, <2>1, <3>1, <3>2 DEF DrainPart, TypeOK
    <3>3. CASE q = p
      BY <1>10, <2>1, <3>1, <3>3 DEF DrainPart, Decoded, TypeOK
    <3> QED
      BY <3>2, <3>3
  <2>4. ASSUME NEW q \in fresh \ unsaved PROVE store'[q] \in {"new", "none"}
    <3>1. store[q] \in {"new", "none"} /\ q \in Parts
      BY <2>1, <2>2
    <3>2. store'[q] \in {store[q], "none"}
      BY <1>10, <2>1, <3>1 DEF DrainPart, PutSynced, PutUnsynced, TypeOK
    <3> QED
      BY <3>1, <3>2
  <2> QED
    BY <2>1, <2>2, <2>3, <2>4
<1>11. CASE DrainDone
  BY <1>11 DEF DrainDone, memory
<1>12. ASSUME NEW k \in BOOLEAN, WriteStatus(k)
       PROVE  (FreshInMemory /\ FreshSaved /\ JsonCurrent)'
  BY <1>12 DEF WriteStatus, memory
<1>13. ASSUME NEW k \in BOOLEAN, Finish(k)
       PROVE  (FreshInMemory /\ FreshSaved /\ JsonCurrent)'
  BY <1>13 DEF Finish, memory
<1>14. CASE FailedBootEnds
  BY <1>14 DEF FailedBootEnds, NextBoot, memory
<1>15. CASE Reboot
  BY <1>15 DEF Reboot, NextBoot, memory
<1>16. CASE PowerLoss
  BY <1>16 DEF PowerLoss, NextBoot, memory
<1>17. CASE Settle
  BY <1>17 DEF Settle, memory
<1>18. CASE UNCHANGED vars
  BY <1>18 DEF vars, memory
<1> QED
  BY <1>1, <1>2, <1>3, <1>4, <1>5, <1>6, <1>7, <1>8, <1>9, <1>10, <1>11, <1>12, <1>13,
       <1>14, <1>15, <1>16, <1>17, <1>18 DEF Next, InitStep

-----------------------------------------------------------------------------
(***************************************************************************)
(* The theorems.                                                           *)
(***************************************************************************)

(***************************************************************************)
(* A device whose partitions have not been checked yet satisfies the       *)
(* invariant.                                                              *)
(***************************************************************************)
LEMMA InvariantStarts == Init => IInv
<1> SUFFICES ASSUME Init PROVE IInv
  OBVIOUS
<1>1. NoRecords \in [Parts -> {"none", "new", "old"}]
  BY DEF NoRecords
<1>2. 1 \in 1 .. Len(FsckPartitions) + 1
  BY PartitionFacts
<1>3. TypeOK
  BY <1>1, <1>2 DEF Init, TypeOK, Stages
<1> QED
  BY <1>3 DEF Init, IInv, BootFirst, DiskFlushed, TodoRecorded, RecordSafe, FreshInMemory,
       FreshSaved, JsonCurrent, Persisting, Collecting

(***************************************************************************)
(* Every step of a boot, and its end, keeps it.                            *)
(***************************************************************************)
LEMMA InvariantKept == IInv /\ [Next]_vars => IInv'
<1> SUFFICES ASSUME IInv, [Next]_vars PROVE IInv'
  OBVIOUS
<1> USE DEF IInv
<1>1. TypeOK'
  BY TypeStep
<1>2. (BootFirst /\ DiskFlushed /\ TodoRecorded)'
  BY StoreStep
<1>3. RecordSafe'
  BY <1>1, RecordStep
<1>4. (FreshInMemory /\ FreshSaved /\ JsonCurrent)'
  BY <1>1, FreshStep
<1> QED
  BY <1>1, <1>2, <1>3, <1>4

(***************************************************************************)
(* The inductive invariant holds over every number of boots, whatever      *)
(* fails and wherever the power is lost.                                   *)
(***************************************************************************)
THEOREM InvariantHolds == Spec => []IInv
BY InvariantStarts, InvariantKept, PTL DEF Spec

(***************************************************************************)
(* Every state of the records and of the boots around them has its type;   *)
(* the loops over the partitions stay within their lists.                  *)
(***************************************************************************)
THEOREM TypeCorrect == Spec => []TypeOK
<1>1. IInv => TypeOK
  BY DEF IInv
<1> QED
  BY <1>1, InvariantHolds, PTL

(***************************************************************************)
(* A check result that was not clean is in memory or on the disk until a   *)
(* running ODS has it, for every list of partitions: persist_fsck_results  *)
(* comes before every error of the mounts is propagated.                   *)
(***************************************************************************)
THEOREM RecordsKept == Spec => []RecordKept
<1>1. IInv => RecordKept
  <2> SUFFICES ASSUME IInv, NEW p \in due PROVE Held(p) \/ p \in excuse \/ p \in taken
    BY DEF RecordKept
  <2>1. CASE Saved(p)
    BY <2>1 DEF Saved, Held
  <2>2. CASE p \in Exposed
    <3>1. p \in Recorded
      BY <2>2 DEF IInv, TodoRecorded, Exposed
    <3> QED
      BY <3>1 DEF Recorded, Held
  <2> QED
    BY <2>1, <2>2 DEF IInv, RecordSafe
<1> QED
  BY <1>1, InvariantHolds, PTL

(***************************************************************************)
(* The status file of a running system has the result of this boot for     *)
(* every partition whose check was not clean on it, not one of an earlier  *)
(* boot, unless the save of that result failed.                            *)
(***************************************************************************)
THEOREM StatusCurrent == Spec => []StatusIsCurrent
<1>1. IInv => StatusIsCurrent
  BY DEF IInv, JsonCurrent, StatusIsCurrent
<1> QED
  BY <1>1, InvariantHolds, PTL

=============================================================================
