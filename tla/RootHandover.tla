---------------------------- MODULE RootHandover ----------------------------
(***************************************************************************)
(* The way of a normal boot from the empty initramfs to the init of the    *)
(* rootfs: the essential mounts, the root device, the early modules, the   *)
(* overlays with the factory defaults of /etc, the fs-links, and           *)
(* switch_root.  Any step may fail, and power may be lost between any two  *)
(* steps.  What the same boot does to the boot environment and to the fsck *)
(* records is in BootSequence and FsckRecords; here it is one step.        *)
(***************************************************************************)
EXTENDS Partition, EarlyModules, FiniteSets

CONSTANTS
  Images,        \* what is installed: see ImageFields
  FactoryFiles,  \* the files of /etc on the factory partition
  Links,         \* the paths of all fs-links
  DataLinks,     \* those on the data partition; the others are in /etc
  MaxOdd         \* bound: what may be unusual about the modules of a boot

(***************************************************************************)
(* An image, with the disk it is on and the machine it runs on:            *)
(*   grub, gpt - the build; disk - the name of the disk                    *)
(*   cmdline   - rootpart, fsuuid (GRUB) and root (U-Boot)                 *)
(*   config    - the links of fs-link.json and fs-link.d, in order, or     *)
(*               Failed when a file does not parse                         *)
(*   list      - those of create-fs-links.txt, likewise                    *)
(*   escapes   - the links whose path is absolute or has a ".."            *)
(*   links     - what the image has at the paths of the links              *)
(*   init      - init= names an executable file of the rootfs              *)
(*   factory   - the factory partition has an /etc                         *)
(*   ramfs     - / is a ramfs or tmpfs                                     *)
(*   varlog    - the build has a persistent /var/log                       *)
(***************************************************************************)
ImageFields ==
  {"grub", "gpt", "disk", "cmdline", "config", "list", "escapes", "links", "init",
   "factory", "ramfs", "varlog"}

LinkStates == {"none", "other", "dir", "right"}

\* No driver of the kernel names a disk with a digit and a "p" at its end.
DiskNamed(name) ==
  /\ name \in Seq(ToSet(name)) /\ name # <<>>
  /\ Last(name) = "p" => Len(name) = 1 \/ name[Len(name) - 1] \notin Digits

ASSUME ImagesAssumption ==
  /\ DataLinks \subseteq Links
  /\ \A im \in Images :
       /\ DOMAIN im = ImageFields /\ DiskNamed(im.disk)
       /\ im.cmdline.rootpart = Failed \/ im.cmdline.rootpart \in 0 .. 9
       /\ \A l \in {"config", "list"} : im[l] = Failed \/ im[l] \in Seq(Links)
       /\ im.escapes \subseteq Links /\ im.links \in [Links -> LinkStates]

VARIABLES
  image,     \* the image; does not change
  upper,     \* the files in the upper layer of /etc
  list,      \* create-fs-links.txt is there
  links,     \* what is at the paths of the links
  unsynced,  \* the links the data partition does not have on its disk yet
  stage,     \* the next step
  at,        \* where an essential filesystem is mounted
  dev,       \* the root device
  devlinks,  \* /dev/omnect
  mods,      \* the session of the early modules
  made,      \* how many of the mounts of the boot are made
  pos,       \* how many links of the current list are made
  root,      \* what / is
  ramroot,   \* the initramfs: not opened, "open" for its deletion, or "freed"
  hist       \* see NoHist

durable == <<image, upper, list, links, unsynced>>
memory == <<at, dev, devlinks, mods, made, pos, root, ramroot>>
vars == <<durable, stage, memory, hist>>

(***************************************************************************)
(* hist: cut - a copy of the factory defaults was cut off, edited - the    *)
(* running system changed /etc, both since the upper layer was last        *)
(* emptied; stuck - the mounts a rollback could not move back; lost - the  *)
(* links that were lost with the power.                                    *)
(***************************************************************************)
NoHist == [cut |-> FALSE, edited |-> FALSE, stuck |-> {}, lost |-> {}]

To(next) == stage' = next
Goto(from, next) == stage = from /\ To(next)

\* The step from fails without a trace; the error reaches handle_fatal_error.
Fails(from) ==
  /\ Goto(from, "failed")
  /\ UNCHANGED <<durable, memory, hist>>

(***************************************************************************)
(* mount_essential_filesystems: /dev first; the first failure ends it.     *)
(***************************************************************************)
ESSENTIAL_MOUNTS == <<"dev", "proc", "sys", "run">>
Essential == ToSet(ESSENTIAL_MOUNTS)

MountEssential ==
  /\ stage = "essential"
  /\ at' = [at EXCEPT ![ESSENTIAL_MOUNTS[pos + 1]] = "initramfs"]
  /\ IF pos + 1 < Len(ESSENTIAL_MOUNTS)
     THEN pos' = pos + 1 /\ UNCHANGED stage
     ELSE pos' = 0 /\ To("detect")
  /\ UNCHANGED <<durable, dev, devlinks, mods, made, root, ramroot, hist>>

(***************************************************************************)
(* detect_root_device.  The bootloader names the boot partition by its     *)
(* filesystem UUID, which blkid resolves, or the root partition by its     *)
(* path.  A device that is not there within 30 s, or a blkid that fails,   *)
(* is an error.                                                            *)
(***************************************************************************)
KernelName(n) == partition_path(image.disk, partition_sep_for_name(image.disk), n)
Nodes == {KernelName(n) : n \in 1 .. 8}

CmdlineUsable ==
  IF image.grub THEN image.cmdline.rootpart # Failed /\ image.cmdline.fsuuid = "set"
  ELSE image.cmdline.root # Failed

Detected ==
  IF image.grub THEN root_device_from_blkid(KernelName(BootNum), image.cmdline.rootpart)
  ELSE parse_device_path(image.cmdline.root)

\* Then create_omnect_symlinks for the layout of the device.
DetectRoot ==
  /\ Goto("detect", "core")
  /\ CmdlineUsable
  /\ Detected # Failed /\ Detected.root \in Nodes
  /\ OmnectSymlinks(Detected, image.gpt) # Failed
  /\ dev' = Detected
  /\ devlinks' = OmnectSymlinks(Detected, image.gpt)
  /\ UNCHANGED <<durable, at, mods, made, pos, root, ramroot, hist>>

\* The core mounts, the boot environment, the mode and the first-boot steps.
MountCore ==
  /\ Goto("core", "prepare")
  /\ UNCHANGED <<durable, memory, hist>>

(***************************************************************************)
(* early_modules::load never ends the boot.                                *)
(***************************************************************************)
PrepareModules(unread, loaded, broken, ready) ==
  /\ Goto("prepare", "modules")
  /\ mods' = Session(unread, loaded, broken, ready)
  /\ UNCHANGED <<durable, at, dev, devlinks, made, pos, root, ramroot, hist>>

LoadListed ==
  /\ stage = "modules" /\ mods.todo # <<>>
  /\ mods' = [load_listed(mods, Head(mods.todo)) EXCEPT !.todo = Tail(@)]
  /\ UNCHANGED <<durable, stage, at, dev, devlinks, made, pos, root, ramroot, hist>>

\* mount_remaining_partitions follows.
ModulesDone ==
  /\ Goto("modules", "remaining")
  /\ mods.todo = <<>>
  /\ UNCHANGED <<durable, memory, hist>>

MountRemaining ==
  /\ Goto("remaining", "mounts")
  /\ mods' = NoSession
  /\ UNCHANGED <<durable, at, dev, devlinks, made, pos, root, ramroot, hist>>

(***************************************************************************)
(* The mounts below the rootfs, in the order of normal::run: the raw view  *)
(* of the rootfs before anything covers it, the overlay of /etc, then the  *)
(* parts of the data partition.                                            *)
(***************************************************************************)
DataMounts ==
  <<"home", "varLib", "usrLocal">> \o (IF image.varlog THEN <<"varLog">> ELSE <<>>)

BootMounts == <<"raw", "etc">> \o DataMounts

NextMount == BootMounts[made + 1]
EtcMounted == made >= 2

(***************************************************************************)
(* setup_etc_overlay: an empty upper layer gets the factory defaults, with *)
(* cp.  Without an /etc on the factory partition nothing is copied, and    *)
(* the next boot tries again.                                              *)
(***************************************************************************)

\* Mutated form of is_upper_dir_empty: only a directory that does not exist counts.
UpperDirAbsent == FALSE

is_upper_dir_empty == upper = {}

Copies == is_upper_dir_empty /\ image.factory

SeedEtc ==
  /\ stage = "mounts" /\ NextMount = "etc"
  /\ To("etc")
  /\ upper' = IF Copies THEN FactoryFiles ELSE upper
  /\ UNCHANGED <<image, list, links, unsynced, memory, hist>>

\* cp fails after it copied the files s.
SeedFails(s) ==
  /\ stage = "mounts" /\ NextMount = "etc" /\ Copies
  /\ To("failed")
  /\ upper' = s
  /\ hist' = [hist EXCEPT !.cut = s # {}]
  /\ UNCHANGED <<image, list, links, unsynced, memory>>

MountNext ==
  /\ stage \in {"mounts", "etc"}
  /\ NextMount = "etc" <=> stage = "etc"
  /\ made' = made + 1
  /\ To(IF made + 1 = Len(BootMounts) THEN "config" ELSE "mounts")
  /\ UNCHANGED <<durable, at, dev, devlinks, mods, pos, root, ramroot, hist>>

(***************************************************************************)
(* create_fs_links: those of the config on every boot, those of the list   *)
(* once.  A path that escapes the rootfs and a directory are errors; what  *)
(* else is at the path is removed first.                                   *)
(***************************************************************************)
CurrentLinks == IF stage = "config" THEN image.config ELSE image.list

ListRead == stage = "config" \/ (stage = "list" /\ list)

Linking(l) ==
  /\ ListRead /\ CurrentLinks # Failed /\ pos < Len(CurrentLinks)
  /\ l = CurrentLinks[pos + 1]
  /\ l \notin image.escapes

RemoveExisting(l) ==
  /\ Linking(l) /\ links[l] \in {"other", "right"}
  /\ links' = [links EXCEPT ![l] = "none"]
  /\ UNCHANGED <<image, upper, list, unsynced, stage, memory, hist>>

MakeLink(l) ==
  /\ Linking(l) /\ links[l] = "none"
  /\ links' = [links EXCEPT ![l] = "right"]
  /\ unsynced' = unsynced \cup ({l} \cap DataLinks)
  /\ hist' = [hist EXCEPT !.lost = @ \ {l}]
  /\ pos' = pos + 1
  /\ UNCHANGED <<image, upper, list, stage, at, dev, devlinks, mods, made, root, ramroot>>

ConfigLinked ==
  /\ Goto("config", "list")
  /\ image.config # Failed /\ pos = Len(image.config)
  /\ pos' = 0
  /\ UNCHANGED <<durable, at, dev, devlinks, mods, made, root, ramroot, hist>>

NoLinkList ==
  /\ Goto("list", "status")
  /\ ~list
  /\ UNCHANGED <<durable, memory, hist>>

\* Mutated form of RemoveList: the list goes before its last link is made.
RemoveListEarly ==
  /\ stage = "list" /\ list
  /\ image.list # Failed /\ pos + 1 = Len(image.list)
  /\ list' = FALSE
  /\ UNCHANGED <<image, upper, links, unsynced, stage, memory, hist>>

RemoveList ==
  /\ Goto("list", "status")
  /\ list /\ image.list # Failed /\ pos = Len(image.list)
  /\ list' = FALSE
  /\ UNCHANGED <<image, upper, links, unsynced, memory, hist>>

\* drain_fsck_env, the ODS runtime files and the first-boot marker.
WriteStatus ==
  /\ Goto("status", "switch")
  /\ UNCHANGED <<durable, memory, hist>>

(***************************************************************************)
(* switch_root.  The init is looked for before anything moves.  The        *)
(* initramfs is opened for its deletion only when it is in RAM, and a      *)
(* failure to open it keeps it.                                            *)
(***************************************************************************)
resolve_init_path == image.init

PrepareSwitch(opens) ==
  /\ Goto("switch", "move")
  /\ resolve_init_path
  /\ ramroot' = IF image.ramfs /\ opens THEN "open" ELSE "kept"
  /\ pos' = 0
  /\ UNCHANGED <<durable, at, dev, devlinks, mods, made, root, hist>>

MoveMount ==
  /\ stage = "move"
  /\ at' = [at EXCEPT ![ESSENTIAL_MOUNTS[pos + 1]] = "newRoot"]
  /\ IF pos + 1 < Len(ESSENTIAL_MOUNTS)
     THEN pos' = pos + 1 /\ UNCHANGED stage
     ELSE pos' = 0 /\ To("chdir")
  /\ UNCHANGED <<durable, dev, devlinks, mods, made, root, ramroot, hist>>

(***************************************************************************)
(* Until the new root is moved onto / every failure moves the mounts back, *)
(* one by one and best-effort; stuck are those that cannot be moved.       *)
(***************************************************************************)

\* Mutated form of RollbackStages: a failed chdir returns at once.
RollbackStagesMoves == {"move", "moveRoot"}

RollbackStages == {"move", "chdir", "moveRoot"}

Moved == {m \in Essential : at[m] = "newRoot"}

rollback_critical_mounts(stuck) ==
  /\ at' = [m \in Essential |-> IF m \in Moved \ stuck THEN "initramfs" ELSE at[m]]
  /\ hist' = [hist EXCEPT !.stuck = stuck]

SwitchFails(stuck) ==
  /\ stage \in {"move", "chdir", "moveRoot", "chroot"}
  /\ IF stage \in RollbackStages
     THEN rollback_critical_mounts(stuck)
     ELSE stuck = {} /\ UNCHANGED <<at, hist>>
  /\ To("failed")
  /\ UNCHANGED <<durable, dev, devlinks, mods, made, pos, root, ramroot>>

ChdirNewRoot ==
  /\ Goto("chdir", "moveRoot")
  /\ UNCHANGED <<durable, memory, hist>>

MoveRoot ==
  /\ Goto("moveRoot", "chroot")
  /\ root' = "rootfs"
  /\ UNCHANGED <<durable, at, dev, devlinks, mods, made, pos, ramroot, hist>>

\* chroot and chdir, then the files of the initramfs are deleted; mounts, being
\* on other devices, are not entered.
FreeInitramfs ==
  /\ Goto("chroot", "exec")
  /\ ramroot' = IF ramroot = "open" THEN "freed" ELSE ramroot
  /\ UNCHANGED <<durable, at, dev, devlinks, mods, made, pos, root, hist>>

ExecInit ==
  /\ Goto("exec", "running")
  /\ UNCHANGED <<durable, memory, hist>>

(***************************************************************************)
(* The device around the boot.                                             *)
(***************************************************************************)
FreshMemory ==
  /\ at' = [m \in Essential |-> "none"]
  /\ dev' = Failed /\ devlinks' = Failed /\ mods' = NoSession
  /\ made' = 0 /\ pos' = 0 /\ root' = "initramfs" /\ ramroot' = "none"

HasList(im) == im.list # <<>>

Init ==
  /\ image \in Images
  /\ upper = {} /\ list = HasList(image) /\ links = image.links /\ unsynced = {}
  /\ stage = "essential"
  /\ at = [m \in Essential |-> "none"]
  /\ dev = Failed /\ devlinks = Failed /\ mods = NoSession
  /\ made = 0 /\ pos = 0 /\ root = "initramfs" /\ ramroot = "none"
  /\ hist = NoHist

\* The running system changes files of /etc and writes a new list of links.
Edit(s, newList) ==
  /\ stage = "running"
  /\ upper' = s
  /\ list' = (list \/ (newList /\ HasList(image)))
  /\ hist' = [hist EXCEPT !.edited = TRUE]
  /\ UNCHANGED <<image, links, unsynced, stage, memory>>

\* The kernel writes the data partition back.
WriteBack ==
  /\ stage = "running"
  /\ unsynced # {} /\ unsynced' = {}
  /\ UNCHANGED <<image, upper, list, links, stage, memory, hist>>

\* An orderly reboot, with or without a factory reset, which empties the etc and
\* the data partition.
Reboot(reset) ==
  /\ Goto("running", "essential")
  /\ FreshMemory
  /\ unsynced' = {}
  /\ IF reset
     THEN /\ upper' = {} /\ list' = HasList(image) /\ links' = image.links
          /\ hist' = NoHist
     ELSE /\ hist' = [hist EXCEPT !.stuck = {}]
          /\ UNCHANGED <<upper, list, links>>
  /\ UNCHANGED image

\* The etc partition keeps the order of its changes; a link on the data partition
\* may be lost although the list, on the etc partition, is gone already.
PowerLoss(lost) ==
  /\ lost \subseteq unsynced
  /\ To("essential")
  /\ FreshMemory
  /\ links' = [l \in Links |-> IF l \in lost THEN "none" ELSE links[l]]
  /\ unsynced' = {}
  /\ \/ /\ hist' = [hist EXCEPT !.stuck = {}, !.lost = @ \cup lost]
        /\ UNCHANGED upper
     \/ \E s \in SUBSET FactoryFiles :
          /\ stage = "mounts" /\ NextMount = "etc" /\ Copies
          /\ upper' = s
          /\ hist' = [hist EXCEPT !.stuck = {}, !.lost = @ \cup lost, !.cut = s # {}]
  /\ UNCHANGED <<image, list>>

FailingStages ==
  {"essential", "detect", "core", "remaining", "mounts", "etc", "config", "list", "status",
   "switch", "exec"}

\* What the kernel may have loaded by itself.
Loadable == {s \in SUBSET (Modules \ Builtin) : \A m \in s : Needs[m] \subseteq s \cup Builtin}

ModulesNext ==
  \/ /\ stage = "prepare"
     /\ \E unread \in SUBSET ConfFiles, loaded \in Loadable,
           broken \in SUBSET (Modules \ Builtin), ready \in BOOLEAN :
          /\ Cardinality(unread) + Cardinality(loaded) + Cardinality(broken) <= MaxOdd
          /\ PrepareModules(unread, loaded, broken, ready)
  \/ LoadListed \/ ModulesDone

MountsNext ==
  \/ MountEssential \/ DetectRoot \/ MountCore \/ MountRemaining
  \/ SeedEtc \/ MountNext
  \/ \E s \in SUBSET FactoryFiles : SeedFails(s)

LinksNext ==
  \/ \E l \in Links : RemoveExisting(l) \/ MakeLink(l)
  \/ ConfigLinked \/ NoLinkList \/ RemoveList \/ WriteStatus

SwitchNext ==
  \/ \E opens \in BOOLEAN : PrepareSwitch(opens)
  \/ MoveMount \/ ChdirNewRoot \/ MoveRoot \/ FreeInitramfs \/ ExecInit
  \/ \E stuck \in SUBSET Moved : SwitchFails(stuck)

Next ==
  \/ MountsNext \/ ModulesNext \/ LinksNext \/ SwitchNext
  \/ \E from \in FailingStages : Fails(from)
  \/ \E s \in SUBSET FactoryFiles, newList \in BOOLEAN : Edit(s, newList)
  \/ WriteBack
  \/ \E reset \in BOOLEAN : Reboot(reset)
  \/ \E lost \in SUBSET DataLinks : PowerLoss(lost)

Spec == Init /\ [][Next]_vars

\* The links the config makes on every boot.
ConfigLinks == IF image.config = Failed THEN {} ELSE ToSet(image.config)

(***************************************************************************)
(* Properties.                                                             *)
(***************************************************************************)
Stages ==
  FailingStages \cup {"prepare", "modules", "move", "chdir", "moveRoot", "chroot", "running",
                      "failed"}

\* What /dev/omnect holds for the disk the bootloader started from.
BootDiskLinks ==
  LET num == PartitionNumbers(image.gpt)
  IN  [p \in DOMAIN num \cup {"rootCurrent", "rootblk"} |->
         CASE p = "rootblk" -> image.disk
           [] p = "rootCurrent" ->
                IF image.grub THEN KernelName(image.cmdline.rootpart) ELSE image.cmdline.root
           [] OTHER -> KernelName(num[p])]

\* /dev/omnect is empty or names the disk the bootloader started from, with its
\* partitions and the slot that was asked for, whatever the kernel calls that disk.
RightDevices == devlinks = Failed \/ devlinks = BootDiskLinks

\* The variables have their types, and /dev/omnect is right.
TypeOK ==
  /\ image \in Images
  /\ upper \subseteq FactoryFiles
  /\ list \in BOOLEAN
  /\ links \in [Links -> LinkStates] /\ unsynced \subseteq DataLinks
  /\ stage \in Stages
  /\ at \in [Essential -> {"none", "initramfs", "newRoot"}]
  /\ RightDevices /\ (dev = Failed <=> devlinks = Failed)
  /\ \A f \in {"listed", "present", "failed", "broken"} : mods[f] \subseteq Modules
  /\ mods.outcome \in [Modules -> {"new", "ok", "bad"}]
  /\ made \in 0 .. Len(BootMounts)
  /\ pos \in Nat
  /\ root \in {"initramfs", "rootfs"}
  /\ ramroot \in {"none", "kept", "open", "freed"}
  /\ hist.cut \in BOOLEAN /\ hist.edited \in BOOLEAN
  /\ hist.stuck \subseteq Essential /\ hist.lost \subseteq DataLinks

\* A boot that fails while / is still the initramfs leaves /dev, /proc, /sys and
\* /run to its shell, however far switch_root came, except for a mount that could
\* not be moved back.
ShellKeepsMounts ==
  stage = "failed" /\ root = "initramfs" =>
    \A m \in Essential \ hist.stuck : at[m] # "newRoot"

\* Under a mounted overlay of /etc are the factory defaults, after a first boot and
\* after a factory reset, unless the copy was cut off once or the running system
\* changed them.
EtcSeeded ==
  EtcMounted /\ image.factory /\ ~hist.cut /\ ~hist.edited => upper = FactoryFiles

\* When the one-time list is gone its links are there, wherever the boots that
\* worked on it were cut off, except for a link on the data partition that was lost
\* with the power, and for one that the config names as well: every boot removes and
\* makes that one again.
ListConsumedMeansLinked ==
  HasList(image) /\ ~list =>
    \A l \in ToSet(image.list) \ (hist.lost \cup ConfigLinks) : links[l] = "right"

\* What a module needs, directly or not.
Closure(m) == {m} \cup (ToSet(ModDep[m]) \ {NoName})

\* The modules reported as not loaded are those that are not there, and each has a
\* reason: it or a dependency cannot be loaded, or modules.dep is wrong about it.
ModulesReported ==
  stage = "modules" /\ mods.todo = <<>> /\ mods.ready =>
    /\ mods.failed = {m \in mods.listed : ~is_present(mods, m)}
    /\ \A m \in mods.failed \cap DOMAIN ModDep :
         Closure(m) \cap mods.broken # {} \/ NoName \in ToSet(ModDep[m])
=============================================================================
