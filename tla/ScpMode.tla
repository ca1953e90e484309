------------------------------ MODULE ScpMode ------------------------------
(***************************************************************************)
(* Flash mode 2 (mode/flash/scp.rs, bmap/, net.rs, unmount.rs, rawio.rs):  *)
(* flash the running disk with an image the operator pushes in over scp.   *)
(* Two actors: the init, and the scp clients of the operator.              *)
(*                                                                         *)
(* up.fifo is what the path wic.xz names: nothing, the FIFO, or a regular  *)
(* file an scp client made there.  up.bmap is wic.bmap: absent, half       *)
(* copied or complete.  up.writer is the scp of an image: blocked in the   *)
(* open of a FIFO without a reader ("waiting"), or blocked in one that no  *)
(* path names any more ("stranded").                                       *)
(***************************************************************************)
EXTENDS FlashRun, SequencesExt, FiniteSetsExt

CONSTANTS
  RawBmaps,    \* the bmap files an operator may send
  Uploads      \* the images, as the xz decoder yields them: [len, flip]

\* The numbers of a bmap are unsigned integers.
ASSUME BmapsAssumption ==
  \A raw \in RawBmaps :
    /\ raw.size \in 0 .. MaxU /\ raw.bs \in 0 .. MaxU /\ raw.blocks \in 0 .. MaxU
    /\ raw.spans \in Seq((0 .. MaxU) \X (0 .. MaxU))

(***************************************************************************)
(* Bmap::parse.  A raw bmap: sound (size and encoding of the file, XML,    *)
(* version, checksum type, file checksum and numbers are all right), the   *)
(* image size in bytes, the block size, the number of blocks and of mapped *)
(* blocks, and the ranges as <<first, last>> blocks.                       *)
(***************************************************************************)
Checked(n) == n <= MaxU

SpanEnd(raw, i) ==
  LET end == (raw.spans[i][2] + 1) * raw.bs
  IN  IF end < raw.size THEN end ELSE raw.size     \* the last block may be partial

\* Mutated form of SpanOk: ranges may overlap or come out of order.
SpanOkUnordered(raw, i) ==
  LET first == raw.spans[i][1]  last == raw.spans[i][2]
  IN  /\ first <= last
      /\ Checked(first * raw.bs) /\ Checked((last + 1) * raw.bs)
      /\ last < raw.blocks

SpanOk(raw, i) ==
  LET first == raw.spans[i][1]  last == raw.spans[i][2]
  IN  /\ first <= last
      /\ Checked(first * raw.bs) /\ Checked((last + 1) * raw.bs)
      /\ last < raw.blocks
      /\ i > 1 => first * raw.bs >= SpanEnd(raw, i - 1)

ParseOk(raw) ==
  /\ raw.sound
  /\ raw.bs # 0
  /\ raw.blocks = (raw.size + raw.bs - 1) \div raw.bs
  /\ \A i \in DOMAIN raw.spans : SpanOk(raw, i)
  /\ raw.spans # <<>>
  /\ raw.mapped = FoldLeft(LAMBDA n, s : n + s[2] - s[1] + 1, 0, raw.spans)

parse(raw) ==
  [size |-> raw.size,
   ranges |-> [i \in DOMAIN raw.spans |->
                 [offset |-> raw.spans[i][1] * raw.bs,
                  len |-> SpanEnd(raw, i) - raw.spans[i][1] * raw.bs]]]

SpanOf(r) == r.offset .. (r.offset + r.len - 1)
Mapped(p) == UNION {SpanOf(p.ranges[i]) : i \in DOMAIN p.ranges}

(***************************************************************************)
(* Bmap::unmapped: the parts of the area 0 .. len - 1 that no range        *)
(* writes, found with a cursor over the sorted ranges.  The loop ends at   *)
(* the first range that begins behind the area.                            *)
(***************************************************************************)
MaxOf(a, b) == IF a > b THEN a ELSE b
RangeEnd(r) == r.offset + r.len

\* The loop comes to the range k.
Visited(p, len, k) == \A i \in 1 .. k : p.ranges[i].offset < len

\* The cursor behind the first k ranges.
Cursor(p, len) ==
  LET cursor[k \in 0 .. Len(p.ranges)] ==
        IF k = 0 THEN 0
        ELSE IF Visited(p, len, k) THEN MaxOf(cursor[k - 1], RangeEnd(p.ranges[k]))
        ELSE cursor[k - 1]
  IN  cursor

Gaps(p, len) ==
  UNION {Cursor(p, len)[k - 1] .. p.ranges[k].offset - 1 :
           k \in {i \in DOMAIN p.ranges : Visited(p, len, i)}}

\* Mutated form of unmapped: the rest behind the last range is forgotten.
UnmappedBetween(p, len) == Gaps(p, len)

unmapped(p, len) == Gaps(p, len) \cup (Cursor(p, len)[Len(p.ranges)] .. len - 1)

(***************************************************************************)
(* copy_stream of an upload u: its length, and the byte that is wrong      *)
(* (None: all are right).  The stream cannot move back, it is read to its  *)
(* end, and every range has a checksum; the gaps between the ranges have   *)
(* none and are not written.  copy_ok: the copy succeeds unless a device   *)
(* fails.                                                                  *)
(***************************************************************************)
InOrder(p) ==
  \A i \in DOMAIN p.ranges \ {1} :
    p.ranges[i].offset >= p.ranges[i - 1].offset + p.ranges[i - 1].len

\* Mutated form of copy_ok: the checksum of the last range is not looked at.
CopyOkUnchecked(p, u) ==
  /\ InOrder(p) /\ u.len = p.size
  /\ u.flip \notin UNION {SpanOf(p.ranges[i]) : i \in 1 .. Len(p.ranges) - 1}

copy_ok(p, u) == InOrder(p) /\ u.len = p.size /\ u.flip \notin Mapped(p)

\* The bytes a copy can have written when it stops: a range with a wrong
\* checksum is the last one.
Reached(p, u) ==
  {b \in Bytes : \E i \in DOMAIN p.ranges :
     /\ b \in SpanOf(p.ranges[i]) /\ b < u.len
     /\ \A k \in 1 .. i - 1 : u.flip \notin SpanOf(p.ranges[k])}

\* The disk after the bytes s of upload u; what an earlier attempt wrote is
\* of another image.
Copied(u, s) ==
  [b \in Bytes |->
     IF b \in s THEN IF b = u.flip THEN "junk" ELSE "new"
     ELSE IF disk[b] = "new" THEN "junk" ELSE disk[b]]

(***************************************************************************)
(* The run.                                                                *)
(***************************************************************************)
ScpRest == UNCHANGED <<build, env, flag, nvram, clone, error, mode, cfg, step, old, got, calm>>

ScpFails(from, r) ==
  /\ stage = from /\ EndRun(r)
  /\ UNCHANGED <<disk, table, mounts, plan, up, hist>> /\ ScpRest

\* required_constants and the lookup of the boot partition are right for every
\* build; unmount_target_disk unmounts whatever it can tell to be on the disk.
SelectScp ==
  /\ mode = "2"
  /\ Goto("select", "unmount")
  /\ UNCHANGED <<disk, result, table, mounts, plan, up, hist>> /\ ScpRest

\* A mount whose source cannot be resolved ("unknown") stays.
OnTargetDisk == mounts \ {"unknown"}

UnmountTarget(left) ==
  /\ stage = "unmount"
  /\ left \subseteq OnTargetDisk
  /\ left # {} => Faulty
  /\ mounts' = (mounts \ OnTargetDisk) \cup left
  /\ IF left = {} THEN To("net") /\ UNCHANGED result ELSE EndRun("failed")
  /\ UNCHANGED <<disk, table, plan, up, hist>> /\ ScpRest

\* bring_up: the link within 60 s, dhcpcd, and an address within 120 s.  Mode 2
\* takes any address, mode 3 needs a lease: dhcpcd sets a link-local one itself.
accepts(m, addr) == addr = "lease" \/ (m = "2" /\ addr = "linkLocal")

BringUp(fails, addr) ==
  /\ stage = "net"
  /\ fails \in Fault
  /\ addr \in {"lease"} \cup (IF Faulty THEN {"linkLocal", "none"} ELSE {})
  /\ IF fails \/ ~accepts(mode, addr) THEN EndRun("failed")
     ELSE To(IF mode = "2" THEN "fifo" ELSE "sha") /\ UNCHANGED result
  /\ UNCHANGED <<disk, table, mounts, plan, up, hist>> /\ ScpRest

(***************************************************************************)
(* create_owned_fifo: mkfifo fails when the path exists.  When only the    *)
(* chown fails the FIFO is there, but not the user's.  After a failed      *)
(* attempt that wrote the disk the error keeps the run log away from it.   *)
(***************************************************************************)

\* Mutated form of RecreateError: what earlier attempts wrote is forgotten.
RecreateErrorForgets == "failed"

RecreateError == IF up.written THEN "partly" ELSE "failed"

CreateFifo(fails) ==
  /\ stage \in {"fifo", "refifo"}
  /\ fails \in Fault
  /\ IF fails \/ up.fifo # "none"
     THEN EndRun(IF stage = "fifo" THEN "failed" ELSE RecreateError) /\ UNCHANGED up
     ELSE /\ To(IF stage = "fifo" THEN "dropbear" ELSE "bmap") /\ UNCHANGED result
          /\ up' = [up EXCEPT !.fifo = "fifo"]
  /\ UNCHANGED <<disk, table, mounts, plan, hist>> /\ ScpRest

StartDropbear ==
  /\ Goto("dropbear", "bmap")
  /\ UNCHANGED <<disk, result, table, mounts, plan, up, hist>> /\ ScpRest

\* An attempt fails with e; the loop of scp_with notes whether it wrote the disk.
AttemptFails(partly) ==
  /\ To("cleanup") /\ UNCHANGED result
  /\ up' = [up EXCEPT !.written = @ \/ partly]

\* wait_for_bmap: the file ends in the closing tag.  The wait has no limit.
BmapComplete == up.bmap = "done"

\* read_bmap and the size check.
ReadBmap(raw, fails) ==
  /\ stage = "bmap" /\ BmapComplete
  /\ fails \in Fault
  /\ IF fails \/ ~ParseOk(raw) \/ raw.size > DiskLen
     THEN AttemptFails(FALSE) /\ UNCHANGED plan
     ELSE /\ To(IF build.direct THEN "copy" ELSE "verify")
          /\ plan' = parse(raw)
          /\ UNCHANGED <<result, up>>
  /\ UNCHANGED <<disk, table, mounts, hist>> /\ ScpRest

\* The bytes between the ranges are left out: the file has zeros there.
Decoded(u) == [len |-> plan.size, flip |-> IF u.flip \in Mapped(plan) THEN u.flip ELSE None]

\* Mutated form of VerifyUpload: the result of the pass is not looked at.
VerifyUploadUnchecked(u, fails) ==
  /\ stage = "verify" /\ up.writer = "waiting"
  /\ fails \in Fault
  /\ To("copy")
  /\ up' = [up EXCEPT !.writer = "idle", !.decoded = Decoded(u)]
  /\ UNCHANGED <<disk, result, table, mounts, plan, hist>> /\ ScpRest

\* The verify pass decodes the image into RAM.  The open of the FIFO blocks
\* until a client opens it, too; when the init closes it, what the client has
\* left is refused (EPIPE).
VerifyUpload(u, fails) ==
  /\ stage = "verify" /\ up.writer = "waiting"
  /\ fails \in Fault
  /\ LET ok == ~fails /\ copy_ok(plan, u)
     IN  /\ To(IF ok THEN "copy" ELSE "cleanup")
         /\ up' = [up EXCEPT !.writer = "idle", !.decoded = IF ok THEN Decoded(u) ELSE @]
  /\ UNCHANGED <<disk, result, table, mounts, plan, hist>> /\ ScpRest

\* Mutated form of PartlyWritten: an error of the disk copy is an error like any.
PartlyWrittenNever == FALSE

\* Every error of the copy onto the disk, and of the zeroing, counts as partly
\* written.
PartlyWritten == TRUE

\* The copy reads the stream with direct flashing, else the decoded image.
CopyToDisk(u, fails, s) ==
  /\ stage = "copy"
  /\ IF build.direct THEN up.writer = "waiting" ELSE u = up.decoded
  /\ fails \in Fault
  /\ LET ok == ~fails /\ copy_ok(plan, u)
     IN  /\ s \subseteq Reached(plan, u)
         /\ ok => s = Mapped(plan)
         /\ disk' = Copied(u, s)
         /\ table' = (table /\ s = {})
         /\ hist' = [hist EXCEPT !.want = Mapped(plan),
                              !.clean = HeadBytes \ Mapped(plan), !.io = @ \/ fails]
         /\ To(IF ok THEN "zero" ELSE "cleanup")
         /\ up' = [up EXCEPT !.writer = IF build.direct THEN "idle" ELSE @,
                             !.written = @ \/ (~ok /\ PartlyWritten)]
  /\ UNCHANGED <<result, mounts, plan>> /\ ScpRest

ZeroHead(fails, s) ==
  /\ stage = "zero"
  /\ fails \in Fault
  /\ s \subseteq unmapped(plan, HeadLen)
  /\ ~fails => s = unmapped(plan, HeadLen)
  /\ disk' = [b \in Bytes |-> IF b \in s THEN "zero" ELSE disk[b]]
  /\ hist' = [hist EXCEPT !.io = @ \/ fails]
  /\ To(IF fails THEN "cleanup" ELSE "reread")
  /\ up' = [up EXCEPT !.written = @ \/ (fails /\ PartlyWritten)]
  /\ UNCHANGED <<result, table, mounts, plan>> /\ ScpRest

(***************************************************************************)
(* The loop after a failed attempt: remove the bmap and the decoded image  *)
(* (the next pass truncates one that stays), both best-effort, then the    *)
(* FIFO, and make a new one.  remove_fifo opens a reader first, so that a  *)
(* client blocked in its open is let go; a client whose FIFO only loses    *)
(* its name would block for ever.                                          *)
(***************************************************************************)
RemoveFiles(keeps) ==
  /\ Goto("cleanup", "unfifo")
  /\ keeps \in Fault
  /\ up' = [up EXCEPT !.bmap = IF keeps THEN @ ELSE "none", !.decoded = NoUpload]
  /\ UNCHANGED <<disk, result, table, mounts, plan, hist>> /\ ScpRest

\* Mutated form of WriterAfterRemove: no reader is opened.
WriterAfterUnlink(noReader, keeps) ==
  IF up.writer # "waiting" THEN up.writer ELSE IF keeps THEN "waiting" ELSE "stranded"

WriterAfterRemove(noReader, keeps) ==
  IF up.writer # "waiting" THEN up.writer
  ELSE IF ~noReader THEN "idle" ELSE IF keeps THEN "waiting" ELSE "stranded"

RemoveFifo(noReader, keeps) ==
  /\ Goto("unfifo", "refifo")
  /\ noReader \in Fault /\ keeps \in Fault
  /\ up' = [up EXCEPT !.writer = WriterAfterRemove(noReader, keeps),
                      !.fifo = IF keeps THEN @ ELSE "none"]
  /\ hist' = [hist EXCEPT !.reader = IF up'.writer = up.writer THEN @
                                    ELSE up'.writer = "stranded" => ~noReader]
  /\ UNCHANGED <<disk, result, table, mounts, plan>> /\ ScpRest

\* BLKRRPART fails while a partition of the disk is mounted.  Shared with mode 3.
RereadTable(fails) ==
  /\ stage = "reread"
  /\ fails \in Fault
  /\ IF fails \/ mounts # {}
     THEN EndRun("stale") /\ UNCHANGED table
     ELSE /\ table' = TRUE
          /\ IF build.grub THEN To("efi") /\ UNCHANGED result ELSE EndRun("ok")
  /\ UNCHANGED <<disk, mounts, plan, up, hist>> /\ ScpRest

(***************************************************************************)
(* The operator.  wic.bmap arrives in pieces; an image sent while the path *)
(* names nothing becomes a regular file there.                             *)
(***************************************************************************)
Reachable ==
  stage \in {"bmap", "verify", "copy", "zero", "cleanup", "unfifo", "refifo"}

PushBmap(state) ==
  /\ Reachable
  /\ state \in {"part", "done"} /\ up.bmap # "done" /\ up.bmap # state
  /\ up' = [up EXCEPT !.bmap = state]
  /\ UNCHANGED <<disk, stage, result, table, mounts, plan, hist>> /\ ScpRest

PushImage ==
  /\ Reachable /\ up.writer = "idle" /\ up.fifo # "file"
  /\ up' = IF up.fifo = "fifo" THEN [up EXCEPT !.writer = "waiting"]
           ELSE [up EXCEPT !.fifo = "file"]
  /\ UNCHANGED <<disk, stage, result, table, mounts, plan, hist>> /\ ScpRest

\* An operator whose scp hangs stops it.
GiveUp ==
  /\ Reachable /\ up.writer = "stranded"
  /\ up' = [up EXCEPT !.writer = "idle"]
  /\ hist' = [hist EXCEPT !.reader = TRUE]
  /\ UNCHANGED <<disk, stage, result, table, mounts, plan>> /\ ScpRest

\* In the end the operator sends what belongs together.
SentBmaps == IF calm THEN {r \in RawBmaps : ParseOk(r) /\ r.size <= DiskLen} ELSE RawBmaps
Good == [len |-> plan.size, flip |-> None]
SentImages == {Good} \cup IF calm THEN {} ELSE Uploads

\* What the disk may hold when power is lost in a write.
ScpCut ==
  CASE stage = "copy" -> {Copied(Good, s) : s \in SUBSET Mapped(plan)}
    [] stage = "zero" -> {[b \in Bytes |-> IF b \in s THEN "zero" ELSE disk[b]] :
                            s \in SUBSET unmapped(plan, HeadLen)}
    [] OTHER -> {disk}

ScpStep ==
  \/ SelectScp
  \/ \E left \in SUBSET mounts : UnmountTarget(left)
  \/ \E fails \in BOOLEAN, addr \in {"lease", "linkLocal", "none"} : BringUp(fails, addr)
  \/ \E fails \in BOOLEAN : CreateFifo(fails)
  \/ StartDropbear \/ (Faulty /\ ScpFails("dropbear", "failed"))
  \/ \E raw \in SentBmaps, fails \in BOOLEAN : ReadBmap(raw, fails)
  \/ stage = "verify" /\ \E u \in SentImages, fails \in BOOLEAN : VerifyUpload(u, fails)
  \/ stage = "copy" /\ \E u \in SentImages \cup {up.decoded}, fails \in BOOLEAN :
       \E s \in SUBSET Reached(plan, u) : CopyToDisk(u, fails, s)
  \/ stage = "zero" /\ \E fails \in BOOLEAN :
       \E s \in SUBSET unmapped(plan, HeadLen) : ZeroHead(fails, s)
  \/ \E keeps \in BOOLEAN : RemoveFiles(keeps)
  \/ \E noReader, keeps \in BOOLEAN : RemoveFifo(noReader, keeps)
  \/ \E fails \in BOOLEAN : RereadTable(fails)

Operator == PushImage \/ GiveUp \/ \E state \in {"part", "done"} : PushBmap(state)

(***************************************************************************)
(* A checked bmap: ranges are sorted, do not overlap and end inside the    *)
(* image, and the image fits the disk.                                     *)
(***************************************************************************)
Sound(p) ==
  /\ InOrder(p) /\ p.size <= DiskLen
  /\ \A i \in DOMAIN p.ranges :
       p.ranges[i].len > 0 /\ p.ranges[i].offset + p.ranges[i].len <= p.size
=============================================================================
