----------------------------- MODULE CloneMode -----------------------------
(***************************************************************************)
(* Flash mode 1 (mode/flash/clone.rs, sfdisk.rs, rawio.rs): clone the      *)
(* running disk onto a second one.                                         *)
(*                                                                         *)
(* The second disk is a record of the parts the clone writes.  A part is   *)
(* as it was ("old"), half written ("torn"), that of the source ("src") or *)
(* what the clone is to have of its own: an empty filesystem, a fresh      *)
(* identity, the default environment ("own").                              *)
(***************************************************************************)
EXTENDS FlashRun

CONSTANT Dumps     \* the partition tables sfdisk may dump of the running disk

\* The features of a build; a constant and a position in a table is a number, or None
\* (a number too) where it is missing.
ASSUME CloneAssumption ==
  /\ \A b \in Builds : b.grub \in BOOLEAN /\ b.gpt \in BOOLEAN /\ b.raw.data_size \in Int
  /\ \A d \in Dumps : \A f \in {"data_start", "ext_start", "ext_size", "last"} : d[f] \in Int

CloneParts ==
  {"area", "etc", "data", "boot", "factory", "cert", "rootA", "uuidBoot", "uuidRootA",
   "volid", "env1", "env2"}

NoTable == [data_start |-> 0, data_size |-> 0, ext_start |-> 0, ext_size |-> 0, last |-> 0]
BlankClone == [part |-> [p \in CloneParts |-> "old"], table |-> NoTable]

SectorsPerKb == 2
Kib == 2          \* bytes per KiB, scaled down to the disk of the model

\* checked arithmetic: a value above MaxU is an overflow.
Fits(n) == n \in 0 .. MaxU

(***************************************************************************)
(* required_constants: raw holds the build-time constants, None for one    *)
(* that is not set.  The bootloader area ends where the first environment  *)
(* begins; the second environment is optional.                             *)
(***************************************************************************)
AreaUsable(raw) ==
  raw.bootloader_start # None =>
    /\ raw.env1 # None /\ raw.env1 >= raw.bootloader_start
    /\ Fits(raw.bootloader_start * Kib) /\ Fits((raw.env1 - raw.bootloader_start) * Kib)

UbootEnvUsable(raw) ==
  /\ raw.env_size # None /\ Fits(raw.env_size * Kib)
  /\ raw.env1 # None /\ Fits(raw.env1 * Kib)
  /\ raw.env2 # None => Fits(raw.env2 * Kib)

required_constants(b) ==
  /\ b.raw.data_size # None
  /\ AreaUsable(b.raw)
  /\ b.grub \/ UbootEnvUsable(b.raw)

(***************************************************************************)
(* rewrite_dump: the data partition gets its shipped size again; with GPT  *)
(* the last usable sector follows it, with DOS the extended container      *)
(* shrinks around it.  Everything else is carried over.                    *)
(***************************************************************************)
DumpUsable(d, b) ==
  /\ d.unit = "sectors" /\ d.sector = 512           \* verify_sector_scale
  /\ d.data_start # None
  /\ Fits(b.raw.data_size * SectorsPerKb)
  /\ IF b.gpt
     THEN /\ d.last # None
          /\ d.data_start + b.raw.data_size * SectorsPerKb - 1 \in 0 .. MaxU
     ELSE /\ d.ext_start # None /\ d.data_start >= d.ext_start
          /\ Fits(d.data_start - d.ext_start + b.raw.data_size * SectorsPerKb)

\* Mutated form of rewrite_layout_specific: the extended container keeps its size.
RewriteKeepsContainer(d, b, size) ==
  [ext_size |-> d.ext_size, last |-> IF b.gpt THEN d.data_start + size - 1 ELSE d.last]

rewrite_layout_specific(d, b, size) ==
  IF b.gpt THEN [ext_size |-> d.ext_size, last |-> d.data_start + size - 1]
  ELSE [ext_size |-> d.data_start - d.ext_start + size, last |-> d.last]

rewrite_dump(d, b) ==
  LET size == b.raw.data_size * SectorsPerKb
      rest == rewrite_layout_specific(d, b, size)
  IN  [data_start |-> d.data_start, data_size |-> size, ext_start |-> d.ext_start,
       ext_size |-> rest.ext_size, last |-> rest.last]

(***************************************************************************)
(* The destination.  refusal compares device numbers, so every alias of    *)
(* the running disk is caught.                                             *)
(***************************************************************************)
block_devnum(d) == d

whole_disk_devnum(d) ==
  CASE d \in {"own", "ownPart"} -> "own"
    [] d \in {"other", "otherPart"} -> "other"
    [] OTHER -> "None"

\* Mutated form of refusal: partitions of the running disk are not considered.
RefusalIdenticalOnly(destination, destination_disk, source) ==
  destination = source \/ destination_disk = "None"

refusal(destination, destination_disk, source) ==
  \/ destination = source
  \/ destination_disk = "None"
  \/ destination_disk = source
  \/ destination_disk # destination

RestUnchanged == UNCHANGED <<build, env, flag, nvram, error, mode, cfg, table, old,
                             plan, up, got, calm>>

CloneFails(from) ==
  /\ stage = from
  /\ EndRun("failed")
  /\ UNCHANGED <<disk, clone, mounts, step, hist>> /\ RestUnchanged

\* run_selected_mode and required_constants, then the fresh UUIDs (GPT), which
\* need a random source.
SelectClone(noRandom) ==
  /\ stage = "select" /\ mode = "1"
  /\ noRandom \in Fault
  /\ IF Usable(cfg.dev) /\ required_constants(build) /\ ~(build.gpt /\ noRandom)
     THEN To("resolve") /\ UNCHANGED result
     ELSE EndRun("failed")
  /\ UNCHANGED <<disk, clone, mounts, step, hist>> /\ RestUnchanged

\* resolve_destination: the device appears within 30 s and its path can be
\* resolved, or the mode fails.
ResolveDestination ==
  /\ Goto("resolve", "validate")
  /\ cfg.dev.value # "never"
  /\ UNCHANGED <<disk, clone, mounts, step, result, hist>> /\ RestUnchanged

ResolveFails ==
  /\ stage = "resolve"
  /\ cfg.dev.value = "never" \/ Faulty
  /\ CloneFails("resolve")

ValidateDestination ==
  /\ stage = "validate"
  /\ LET d == cfg.dev.value
     IN  IF d = "file" \/ refusal(block_devnum(d), whole_disk_devnum(d), "own")
         THEN EndRun("failed")
         ELSE To("release") /\ UNCHANGED result
  /\ UNCHANGED <<disk, clone, mounts, step, hist>> /\ RestUnchanged

\* unmount_rootfs: the boot partition, then the rootfs; e2image and the raw
\* copies must not read a mounted filesystem.
UnmountRootfs(left) ==
  /\ stage = "release"
  /\ left \subseteq mounts \cap {"boot", "rootfs"}
  /\ left # {} => Faulty
  /\ mounts' = (mounts \ {"boot", "rootfs"}) \cup left
  /\ IF left = {} THEN To("dump") /\ UNCHANGED result ELSE EndRun("failed")
  /\ UNCHANGED <<disk, clone, step, hist>> /\ RestUnchanged

(***************************************************************************)
(* The writes, in the order of clone_with.                                 *)
(***************************************************************************)

\* Mutated form of CloneSteps: the boot partition is copied last.
CloneStepsBootLast(b) ==
  <<"apply", "verify">>
  \o (IF b.raw.bootloader_start = None THEN <<>> ELSE <<"area">>)
  \o <<"etc", "data", "factory", "cert", "rootA">>
  \o (IF b.gpt THEN <<"uuidBoot", "uuidRootA">> ELSE <<>>)
  \o (IF b.grub THEN <<"volid", "env1", "boot">>
      ELSE IF b.raw.env2 = None THEN <<"boot", "env1">> ELSE <<"boot", "env1", "env2">>)

CloneSteps(b) ==
  <<"apply", "verify">>
  \o (IF b.raw.bootloader_start = None THEN <<>> ELSE <<"area">>)
  \o <<"etc", "data", "boot", "factory", "cert", "rootA">>
  \o (IF b.gpt THEN <<"uuidBoot", "uuidRootA">> ELSE <<>>)
  \o (IF b.grub THEN <<"volid", "env1">>
      ELSE IF b.raw.env2 = None THEN <<"env1">> ELSE <<"env1", "env2">>)

(***************************************************************************)
(* What a step leaves.  The dump carries the partition UUIDs over; a copy  *)
(* of the boot partition brings the volume ID and, with GRUB, the          *)
(* environment of the source along.                                        *)
(***************************************************************************)
Effect(s, parts) ==
  CASE s = "apply" -> [p \in CloneParts |->
         IF p \in {"uuidBoot", "uuidRootA"} THEN "src" ELSE parts[p]]
    [] s = "verify" -> parts
    [] s = "boot" -> [p \in CloneParts |->
         IF p \in {"boot", "volid"} \cup (IF build.grub THEN {"env1"} ELSE {})
         THEN "src" ELSE parts[p]]
    [] s \in {"area", "factory", "cert", "rootA"} -> [parts EXCEPT ![s] = "src"]
    [] OTHER -> [parts EXCEPT ![s] = "own"]

\* A write that is cut off leaves the part as it was, or torn.
Cut(s, parts) ==
  {parts} \cup (IF s \in CloneParts THEN {[parts EXCEPT ![s] = "torn"]} ELSE {})

\* A destination that is not the second disk means that the running disk is
\* written; validate_destination refuses all of those.
CloneWrite(parts, tab) ==
  IF whole_disk_devnum(cfg.dev.value) = "own"
  THEN /\ disk' = [disk EXCEPT ![DiskLen - 1] = "junk"]
       /\ UNCHANGED clone
  ELSE /\ clone' = [part |-> parts, table |-> tab]
       /\ UNCHANGED disk

\* dump and rewrite_dump: nothing is written before the new table is known.
DumpTable(d, fails) ==
  /\ stage = "dump"
  /\ fails \in Fault
  /\ IF fails \/ ~DumpUsable(d, build)
     THEN EndRun("failed") /\ UNCHANGED plan
     ELSE /\ To("clone") /\ UNCHANGED result
          /\ plan' = rewrite_dump(d, build)
  /\ UNCHANGED <<build, env, flag, nvram, disk, clone, error, mode, cfg, table, mounts,
                 step, old, up, got, hist, calm>>

\* write_grubenv mounts the boot partition of the clone; every other step is
\* one command or copy.
CloneStep(fails) ==
  /\ stage = "clone" /\ step < Len(CloneSteps(build))
  /\ fails \in Fault
  /\ LET s == CloneSteps(build)[step + 1]
         tab == IF s = "apply" THEN IF fails THEN NoTable ELSE plan ELSE clone.table
     IN  \E parts \in IF fails THEN Cut(s, clone.part) ELSE {Effect(s, clone.part)} :
           CloneWrite(parts, tab)
  /\ IF fails THEN EndRun("failed") /\ UNCHANGED step
     ELSE step' = step + 1 /\ UNCHANGED <<stage, result>>
  /\ UNCHANGED <<mounts, hist>> /\ RestUnchanged

CloneWritten ==
  /\ stage = "clone" /\ step = Len(CloneSteps(build))
  /\ IF build.grub THEN To("efi") /\ UNCHANGED result ELSE EndRun("ok")
  /\ UNCHANGED <<disk, clone, mounts, step, hist>> /\ RestUnchanged

\* What the second disk may hold when power is lost in a write.
CloneCut ==
  IF stage = "clone" /\ step < Len(CloneSteps(build))
  THEN Cut(CloneSteps(build)[step + 1], clone.part)
  ELSE {clone.part}

CloneNext ==
  \/ \E noRandom \in BOOLEAN : SelectClone(noRandom)
  \/ ResolveDestination \/ ResolveFails \/ ValidateDestination
  \/ \E left \in SUBSET {"boot", "rootfs"} : UnmountRootfs(left)
  \/ \E d \in Dumps, fails \in BOOLEAN : DumpTable(d, fails)
  \/ \E fails \in BOOLEAN : CloneStep(fails)
  \/ CloneWritten

(***************************************************************************)
(* A clone that starts like a newly flashed device.                        *)
(***************************************************************************)
FreshTable(t) ==
  /\ t.data_size = build.raw.data_size * SectorsPerKb
  /\ IF build.gpt THEN t.last = t.data_start + t.data_size - 1
     ELSE t.ext_start + t.ext_size = t.data_start + t.data_size

CloneFresh ==
  /\ FreshTable(clone.table)
  /\ \A p \in {"boot", "factory", "cert", "rootA"} : clone.part[p] = "src"
  /\ \A p \in {"etc", "data", "env1"} : clone.part[p] = "own"
  /\ build.raw.bootloader_start # None => clone.part["area"] = "src"
  /\ build.gpt => clone.part["uuidBoot"] = "own" /\ clone.part["uuidRootA"] = "own"
  /\ build.grub => clone.part["volid"] = "own"
  /\ ~build.grub /\ build.raw.env2 # None => clone.part["env2"] = "own"
=============================================================================
