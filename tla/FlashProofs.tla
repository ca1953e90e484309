----------------------------- MODULE FlashProofs -----------------------------
(***************************************************************************)
(* Theorems about Flash, for every disk, build, bmap and image and for any *)
(* number of boots, faults and power losses.  IInv says, stage by stage,   *)
(* what the init knows, what the two disks and the EFI entries hold, and   *)
(* what was checked before; FlashRefinement concludes from it that the     *)
(* three modes keep the promise of DiskFlash.  The last theorem is about   *)
(* the choice of the mode.                                                 *)
(***************************************************************************)
EXTENDS Flash, BmapProofs

(***************************************************************************)
(* The inductive invariant.                                                *)
(***************************************************************************)
DurableTypes ==
  /\ build \in Builds
  /\ env \in [EnvKeys -> FlashValues \cup ResetValues \cup Destinations \cup UrlValues]
  /\ env["reset"] \in ResetValues
  /\ flag \in BOOLEAN
  /\ disk \in [Bytes -> Cells]

EntryTypes ==
  nvram \subseteq [disk: {"own", "other", "usb"}, fresh: BOOLEAN] /\ old \subseteq nvram

CloneTypes ==
  /\ clone = [part |-> clone.part, table |-> clone.table]
  /\ clone.part \in [CloneParts -> {"old", "torn", "src", "own"}]

RunTypes ==
  /\ stage \in Stages
  /\ error \in Errors \cup {"none"}
  /\ mode \in FlashModes \cup {"none"}
  /\ result \in {"none", "ok", "failed", "partly", "stale"}
  /\ table \in BOOLEAN
  /\ mounts \subseteq {"rootfs", "boot", "other", "unknown", "log"}
  /\ calm \in BOOLEAN

UpTypes ==
  up \in [fifo: {"none", "fifo", "file"}, bmap: {"none", "part", "done"},
          writer: {"idle", "waiting", "stranded"}, written: BOOLEAN,
          decoded: [len: 0 .. MaxU, flip: {None} \cup Bytes]]

PlanTypes ==
  plan \in Plans /\ got \in Images \cup {NoGot} /\ step \in 0 .. Len(CloneSteps(build))

HistTypes ==
  hist \in [want : SUBSET Bytes, clean : SUBSET HeadBytes, unsafe : BOOLEAN,
            refused : {"no", "yes", "ran"}, reader : BOOLEAN, io : BOOLEAN]

\* A request that was refused has left no variable behind.
RefusedCleared ==
  /\ RefusedStaysRefused
  /\ hist.refused = "yes" => env = NoEnv

CloneStages == {"resolve", "validate", "release", "dump", "clone"}
LoopStages == {"bmap", "verify", "copy", "zero", "cleanup", "unfifo", "refifo"}
ScpStages == {"fifo", "dropbear"} \cup LoopStages
UrlStages == {"sha", "ram", "check", "write"}
BeforeRun == {"detect", "refuse", "reset", "running"}

\* The stages of the three modes.
ModeOfStage ==
  /\ stage \in CloneStages => mode = "1"
  /\ stage \in ScpStages => mode = "2"
  /\ stage \in UrlStages => mode = "3"
  /\ stage \in {"unmount", "net", "reread"} => mode \in {"2", "3"}
  /\ stage \in {"clear", "select", "persist", "terminal"} \cup EfiStages => mode \in FlashModes
  /\ stage \in BeforeRun => mode = "none"
  /\ stage \notin {"persist", "terminal", "failed", "halted", "shell", "off"} => result = "none"
  /\ stage = "persist" => result # "none"

\* What a mode knows is gone when it has ended.
MemoryOfRun ==
  /\ up = NoUp \/ stage \in ({"dropbear", "reread", "persist"} \cup LoopStages \cup EfiStages)
  /\ plan = NoPlan
     \/ stage \in ({"clone", "reread", "persist"} \cup LoopStages \cup EfiStages)
  /\ step = 0 \/ stage \in ({"clone", "persist"} \cup EfiStages)

CheckedPlans == {parse(r) : r \in {q \in RawBmaps : ParseOk(q) /\ q.size <= DiskLen}}

\* The plan of mode 2 is a bmap that was checked.
PlanChecked ==
  /\ mode = "2" => plan \in {NoPlan} \cup CheckedPlans
  /\ stage \in {"verify", "copy", "zero"} => plan \in CheckedPlans

\* The copy onto the disk reads what the verify pass let through, and mode 3
\* writes an image that was checked.
CopyVerified ==
  /\ stage = "copy" /\ ~build.direct => copy_ok(plan, up.decoded)
  /\ stage \in {"check", "write"} => got \in Images
  /\ stage = "write" => ImageOk(got)
  /\ VerifiedBeforeDisk

\* The clone never goes onto the running disk.
DestinationChecked ==
  stage \in {"release", "dump", "clone"} => whole_disk_devnum(cfg.dev.value) # "own"

Untouched ==
  BeforeRun \cup {"clear", "select", "unmount", "net", "fifo", "dropbear"} \cup CloneStages
  \cup UrlStages

\* The content of the running disk, stage by stage.
DiskOfStage ==
  /\ stage \in Untouched => Intact /\ table /\ hist.want = {} /\ hist.clean = {}
  /\ stage \in LoopStages \ {"zero"} /\ ~up.written => Intact /\ table
  /\ stage = "zero" =>
       Written /\ hist.want = Mapped(plan) /\ hist.clean = HeadBytes \ Mapped(plan)
  /\ stage = "reread" => Complete
  /\ stage \in EfiStages => table /\ (IF mode = "1" THEN Intact ELSE Complete)
  /\ stage = "persist" /\ keeps_log(result) => table /\ (Intact \/ Complete)
  /\ stage = "persist" /\ result = "ok" => IF mode = "1" THEN Intact ELSE Complete
  /\ MountsSafe

\* One of the two disks is always as it was.
OneDiskIntact ==
  /\ mode = "1" \/ clone # BlankClone => Intact
  /\ stage # "off" /\ mode # "1" => clone = BlankClone

\* The part of the second disk a step of the clone is for.
Done(s) ==
  CASE s = "apply" -> FreshTable(clone.table)
    [] s = "verify" -> TRUE
    [] s \in {"area", "boot", "factory", "cert", "rootA"} -> clone.part[s] = "src"
    [] OTHER -> clone.part[s] = "own"

\* The second disk: the steps of the clone that are done stay done.
CloneSoFar ==
  /\ stage = "clone" =>
       FreshTable(plan) /\ \A i \in 1 .. step : Done(CloneSteps(build)[i])
  /\ mode = "1" /\ (stage \in EfiStages \/ (stage = "persist" /\ result = "ok")) => CloneFresh

\* The EFI entries: the new one is not among those to delete.
EntriesOfStage ==
  /\ stage \in (Untouched \cup LoopStages \cup {"reread", "efi", "efiList", "efiCreate"})
       => nvram = FirmwareEntries
  /\ stage = "efiDelete" => BootEntry(Target, TRUE) \in nvram \ old

IInv ==
  /\ DurableTypes /\ EntryTypes /\ CloneTypes /\ RunTypes /\ UpTypes /\ PlanTypes /\ HistTypes
  /\ RefusedCleared /\ ModeOfStage /\ MemoryOfRun /\ PlanChecked /\ CopyVerified
  /\ UploadNotStranded /\ DestinationChecked /\ DiskOfStage
  /\ OneDiskIntact /\ CloneSoFar /\ EntriesOfStage

-----------------------------------------------------------------------------
(***************************************************************************)
(* Types.                                                                  *)
(***************************************************************************)

(***************************************************************************)
(* handle_fatal_error ends the boot: a reboot, the halt loop or the debug  *)
(* shell.                                                                  *)
(***************************************************************************)
LEMMA FatalEnds ==
  ASSUME NEW pending, NEW rebootErr, FatalError(pending, rebootErr)
  PROVE  stage' \in {"off", "halted", "shell"}
BY DEF FatalError, To, handle_fatal_error, StopStage

(***************************************************************************)
(* BootMode::detect_with: a normal boot, a reset, a refusal, or one of the *)
(* three modes, which begins with the deletion of its triggers.            *)
(***************************************************************************)
LEMMA DetectEnds ==
  ASSUME DurableTypes, NEW avail \in BOOLEAN, NEW err, Detect(avail, err)
  PROVE  \/ stage' = "failed" /\ mode' = mode /\ hist' = hist
         \/ stage' \in {"running", "reset", "refuse"} /\ mode' = "none"
         \/ stage' = "clear" /\ mode' \in FlashModes
<1> DEFINE m == detect_with(avail, flag, Read("flash", err), Read("reset", err))
<1>1. Read("reset", err) \in {"none", "set", "Err"}
  BY DEF Read, DurableTypes, ResetValues
<1>2. Selected(Read("flash", err), flag) \in {"1", "2", "3", "none"}
  BY DEF Selected, parse_mode, FlashModes
<1>3. m \in {"Normal", "Reset", "Conflict"} \cup FlashModes
  BY <1>1, <1>2 DEF detect_with, Mode1Unless, ResetOrNormal, FlashModes
<1>4. CASE ~avail /\ ~Release
  BY <1>4 DEF Detect, To
<1>5. CASE ~(~avail /\ ~Release)
  <2>1. /\ stage' = CASE m = "Normal" -> "running" [] m = "Reset" -> "reset"
                      [] m = "Conflict" -> "refuse" [] OTHER -> "clear"
        /\ mode' = IF m \in FlashModes THEN m ELSE "none"
    BY <1>5 DEF Detect, To
  <2> HIDE DEF m
  <2> QED
    BY <1>3, <2>1 DEF FlashModes
<1> QED
  BY <1>4, <1>5

(***************************************************************************)
(* Every step keeps the types of the run.                                  *)
(***************************************************************************)
LEMMA RunStep ==
  ASSUME RunTypes, [Next]_vars
  PROVE  RunTypes'
<1> USE DEF RunTypes
<1>1. ASSUME NEW more \in SUBSET {"other", "unknown"}, NEW f \in BOOLEAN,
             StartBoot(more, f)
      PROVE  RunTypes'
  BY <1>1 DEF StartBoot, To, FreshBoot, Stages, EfiStages
<1>2. ASSUME NEW avail \in BOOLEAN, NEW err \in SUBSET EnvKeys, Detect(avail, err)
      PROVE  RunTypes'
  <2>1. CASE ~avail /\ ~Release
    BY <1>2, <2>1 DEF Detect, To, durable, Stages, Errors, FatalErrors
  <2>2. CASE ~(~avail /\ ~Release)
    <3>1. stage' \in Stages /\ mode' \in FlashModes \cup {"none"} /\ error' = error
      BY <1>2, <2>2 DEF Detect, To, Stages
    <3> QED
      BY <1>2, <3>1 DEF Detect
  <2> QED
    BY <2>1, <2>2
<1>3. ASSUME NEW kept \in FailedDeletes, Refuse(kept) PROVE RunTypes'
  BY <1>3 DEF Refuse, To, Errors, FatalErrors, Stages, EfiStages
<1>4. ASSUME NEW kept \in FailedDeletes, FactoryResetBoot(kept) PROVE RunTypes'
  BY <1>4 DEF FactoryResetBoot, Goto, To, memory, Stages, EfiStages
<1>5. ASSUME NEW pending \in BOOLEAN, NEW rebootErr \in BOOLEAN,
             FatalError(pending, rebootErr)
      PROVE  RunTypes'
  <2>1. stage' \in {"off", "halted", "shell"}
    BY <1>5, FatalEnds
  <2> QED
    BY <1>5, <2>1 DEF FatalError, memory, Stages
<1>6. ASSUME NEW kept \in FailedDeletes, ClearTriggers(kept) PROVE RunTypes'
  BY <1>6 DEF ClearTriggers, Goto, To, memory, Stages, EfiStages
<1>7. ASSUME NEW res \in WithMountResults, PersistLog(res) PROVE RunTypes'
  BY <1>7 DEF PersistLog, To, durable, Errors, FatalErrors, with_mount, Stages,
       EfiStages
<1>8. ASSUME NEW fails \in BOOLEAN, TerminalAction(fails) PROVE RunTypes'
  BY <1>8 DEF TerminalAction, To, durable, Errors, FatalErrors, Stages, EfiStages
<1>9. CASE EfiMount
  BY <1>9 DEF EfiMount, Goto, To, durable, memory, Stages, EfiStages
<1>10. CASE EfiList
  BY <1>10 DEF EfiList, Goto, To, durable, Stages, EfiStages
<1>11. CASE EfiCreate
  BY <1>11 DEF EfiCreate, Goto, To, memory, Stages, EfiStages
<1>12. CASE EfiDump
  BY <1>12 DEF EfiDump, Goto, To, durable, memory, Stages, EfiStages
<1>13. ASSUME NEW e \in old, EfiDelete(e) PROVE RunTypes'
  BY <1>13 DEF EfiDelete, Stages, EfiStages
<1>14. ASSUME NEW res \in WithMountResults, EfiWrite(res) PROVE RunTypes'
  BY <1>14 DEF EfiWrite, EndRun, To, durable, with_mount, Stages, EfiStages
<1>15. ASSUME NEW from \in EfiStages, EfiFails(from) PROVE RunTypes'
  BY <1>15 DEF EfiFails, EndRun, To, durable, Stages, EfiStages
<1>16. ASSUME NEW noRandom \in BOOLEAN, SelectClone(noRandom) PROVE RunTypes'
  BY <1>16 DEF SelectClone, EndRun, To, RestUnchanged, Stages, EfiStages
<1>17. CASE ResolveDestination
  BY <1>17 DEF ResolveDestination, Goto, To, RestUnchanged, Stages, EfiStages
<1>18. CASE ResolveFails
  BY <1>18 DEF ResolveFails, CloneFails, EndRun, To, RestUnchanged, Stages, EfiStages
<1>19. CASE ValidateDestination
  BY <1>19 DEF ValidateDestination, EndRun, To, RestUnchanged, Stages, EfiStages
<1>20. ASSUME NEW left \in SUBSET {"boot", "rootfs"}, UnmountRootfs(left)
       PROVE  RunTypes'
  BY <1>20 DEF UnmountRootfs, EndRun, To, RestUnchanged, Stages, EfiStages
<1>21. ASSUME NEW d \in Dumps, NEW fails \in BOOLEAN, DumpTable(d, fails)
       PROVE  RunTypes'
  BY <1>21 DEF DumpTable, EndRun, To, Stages, EfiStages
<1>22. ASSUME NEW fails \in BOOLEAN, CloneStep(fails) PROVE RunTypes'
  BY <1>22 DEF CloneStep, EndRun, To, RestUnchanged, Stages, EfiStages
<1>23. CASE CloneWritten
  BY <1>23 DEF CloneWritten, EndRun, To, RestUnchanged, Stages, EfiStages
<1>24. CASE SelectScp
  BY <1>24 DEF SelectScp, Goto, To, ScpRest, Stages, EfiStages
<1>25. ASSUME NEW left \in SUBSET mounts, UnmountTarget(left) PROVE RunTypes'
  BY <1>25 DEF UnmountTarget, EndRun, To, ScpRest, Stages, EfiStages
<1>26. ASSUME NEW fails \in BOOLEAN, NEW addr, BringUp(fails, addr) PROVE RunTypes'
  BY <1>26 DEF BringUp, EndRun, To, ScpRest, Stages, EfiStages
<1>27. ASSUME NEW fails \in BOOLEAN, CreateFifo(fails) PROVE RunTypes'
  BY <1>27 DEF CreateFifo, EndRun, To, ScpRest, RecreateError, Stages, EfiStages
<1>28. CASE StartDropbear
  BY <1>28 DEF StartDropbear, Goto, To, ScpRest, Stages, EfiStages
<1>29. CASE ScpFails("dropbear", "failed")
  BY <1>29 DEF ScpFails, EndRun, To, ScpRest, Stages, EfiStages
<1>30. ASSUME NEW raw \in RawBmaps, NEW fails \in BOOLEAN, ReadBmap(raw, fails)
       PROVE  RunTypes'
  BY <1>30 DEF ReadBmap, AttemptFails, To, ScpRest, Stages, EfiStages
<1>31. ASSUME NEW u, NEW fails \in BOOLEAN, VerifyUpload(u, fails) PROVE RunTypes'
  BY <1>31 DEF VerifyUpload, To, ScpRest, Stages, EfiStages
<1>32. ASSUME NEW u, NEW fails \in BOOLEAN, NEW s, CopyToDisk(u, fails, s)
       PROVE  RunTypes'
  BY <1>32 DEF CopyToDisk, PartlyWritten, To, ScpRest, Stages, EfiStages
<1>33. ASSUME NEW fails \in BOOLEAN, NEW s, ZeroHead(fails, s) PROVE RunTypes'
  BY <1>33 DEF ZeroHead, PartlyWritten, To, ScpRest, Stages, EfiStages
<1>34. ASSUME NEW keeps \in BOOLEAN, RemoveFiles(keeps) PROVE RunTypes'
  BY <1>34 DEF RemoveFiles, Goto, To, ScpRest, Stages, EfiStages
<1>35. ASSUME NEW noReader \in BOOLEAN, NEW keeps \in BOOLEAN,
              RemoveFifo(noReader, keeps)
       PROVE  RunTypes'
  BY <1>35 DEF RemoveFifo, WriterAfterRemove, Goto, To, ScpRest, Stages, EfiStages
<1>36. ASSUME NEW fails \in BOOLEAN, RereadTable(fails) PROVE RunTypes'
  BY <1>36 DEF RereadTable, EndRun, To, ScpRest, Stages, EfiStages
<1>37. CASE SelectUrl
  BY <1>37 DEF SelectUrl, EndRun, To, UrlRest, Stages, EfiStages
<1>38. CASE OpenFails
  BY <1>38 DEF OpenFails, EndRun, To, UrlRest, Stages, EfiStages
<1>39. ASSUME NEW fails \in BOOLEAN, DownloadSha(fails) PROVE RunTypes'
  BY <1>39 DEF DownloadSha, EndRun, To, UrlRest, Stages, EfiStages
<1>40. ASSUME NEW fails \in BOOLEAN, CheckImage(fails) PROVE RunTypes'
  BY <1>40 DEF CheckImage, EndRun, To, UrlRest, Stages, EfiStages
<1>41. ASSUME NEW ram, NEW img \in Images, NEW fails \in BOOLEAN,
              DownloadImage(ram, img, fails)
       PROVE  RunTypes'
  BY <1>41 DEF DownloadImage, EndRun, To, UrlRest, Stages, EfiStages
<1>42. ASSUME NEW fails \in BOOLEAN, NEW s, WriteImage(fails, s) PROVE RunTypes'
  BY <1>42 DEF WriteImage, EndRun, To, UrlRest, Stages, EfiStages
<1>43. CASE PushImage
  BY <1>43 DEF PushImage, ScpRest, Stages, EfiStages
<1>44. CASE GiveUp
  BY <1>44 DEF GiveUp, ScpRest, Stages, EfiStages
<1>45. ASSUME NEW state \in {"part", "done"}, PushBmap(state) PROVE RunTypes'
  BY <1>45 DEF PushBmap, ScpRest, Stages, EfiStages
<1>46. CASE Repair
  BY <1>46 DEF Repair, Goto, To, memory, Stages, EfiStages
<1>47. CASE PowerLoss
  BY <1>47 DEF PowerLoss, To, FreshBoot, Stages, EfiStages
<1>48. CASE Restart
  BY <1>48 DEF Restart, To, FreshBoot, durable, Stages, EfiStages
<1>49. CASE Calm
  BY <1>49 DEF Calm, durable, memory, Stages, EfiStages
<1>50. ASSUME NEW req \in Requests, Request(req) PROVE RunTypes'
  BY <1>50 DEF Request, Goto, To, memory, Stages, EfiStages
<1>51. CASE UNCHANGED vars
  BY <1>51 DEF vars, durable, memory
<1> HIDE DEF RunTypes
<1> QED
  BY <1>1, <1>2, <1>3, <1>4, <1>5, <1>6, <1>7, <1>8, <1>9, <1>10, <1>11, <1>12, <1>13,
       <1>14, <1>15, <1>16, <1>17, <1>18, <1>19, <1>20, <1>21, <1>22, <1>23, <1>24,
       <1>25, <1>26, <1>27, <1>28, <1>29, <1>30, <1>31, <1>32, <1>33, <1>34, <1>35,
       <1>36, <1>37, <1>38, <1>39, <1>40, <1>41, <1>42, <1>43, <1>44, <1>45, <1>46,
       <1>47, <1>48, <1>49, <1>50, <1>51 DEF Next, Step, BootNext, FrameNext, EfiNext,
       CloneNext, ScpStep, UrlNext, Operator, SentBmaps, ServedImages

(***************************************************************************)
(* A copy, a zeroing and a power loss in the middle of either leave every  *)
(* byte with one of its contents (copy_stream, zero_range, decode_into).   *)
(***************************************************************************)
LEMMA CopiedType ==
  ASSUME disk \in [Bytes -> Cells], NEW u, NEW s
  PROVE  /\ Copied(u, s) \in [Bytes -> Cells]
         /\ [b \in Bytes |-> IF b \in s THEN "zero" ELSE disk[b]] \in [Bytes -> Cells]
<1>1. \A b \in Bytes : (IF b \in s THEN IF b = u.flip THEN "junk" ELSE "new"
                        ELSE IF disk[b] = "new" THEN "junk" ELSE disk[b]) \in Cells
  BY DEF Cells
<1>2. \A b \in Bytes : (IF b \in s THEN "zero" ELSE disk[b]) \in Cells
  BY DEF Cells
<1> QED
  BY <1>1, <1>2 DEF Copied

(***************************************************************************)
(* What the disk may hold after a power loss.                              *)
(***************************************************************************)
LEMMA CutType ==
  ASSUME DurableTypes, PowerLoss
  PROVE  disk' \in [Bytes -> Cells]
<1>1. disk \in [Bytes -> Cells]
  BY DEF DurableTypes
<1>2. CASE stage = "write"
  BY <1>1, <1>2, CopiedType DEF PowerLoss, UrlCut
<1>3. CASE stage = "copy"
  BY <1>1, <1>3, CopiedType DEF PowerLoss, ScpCut
<1>4. CASE stage = "zero"
  BY <1>1, <1>4, CopiedType DEF PowerLoss, ScpCut
<1>5. CASE stage \notin {"write", "copy", "zero"}
  BY <1>1, <1>5 DEF PowerLoss, ScpCut
<1> QED
  BY <1>2, <1>3, <1>4, <1>5

(***************************************************************************)
(* A deleted variable is not set.                                          *)
(***************************************************************************)
LEMMA DeletedType ==
  ASSUME DurableTypes, NEW keys, NEW kept
  PROVE  /\ Deleted(keys, kept)
              \in [EnvKeys -> FlashValues \cup ResetValues \cup Destinations \cup UrlValues]
         /\ Deleted(keys, kept)["reset"] \in ResetValues
<1>1. "none" \in ResetValues /\ "reset" \in EnvKeys
  BY DEF ResetValues, EnvKeys
<1> QED
  BY <1>1 DEF DurableTypes, Deleted

(***************************************************************************)
(* A checked bmap is sound, and its image fits the disk (ParseSound).      *)
(***************************************************************************)
LEMMA CheckedIsSound ==
  ASSUME NEW p \in CheckedPlans
  PROVE  /\ SoundPlan(p) /\ p.size \in 0 .. MaxU
         /\ Mapped(p) \subseteq Bytes /\ Mapped(p) # {}
         /\ unmapped(p, HeadLen) = HeadBytes \ Mapped(p)
<1>1. PICK r \in RawBmaps : ParseOk(r) /\ r.size <= DiskLen /\ p = parse(r)
  BY DEF CheckedPlans
<1>2. SoundPlan(p)
  BY <1>1, ParseSound
<1>3. p.size \in 0 .. MaxU
  BY <1>1, BmapsAssumption DEF parse
<1> QED
  BY <1>2, <1>3, MappedInDisk

(***************************************************************************)
(* An image that passed the checks of mode 3 fits the disk.                *)
(***************************************************************************)
LEMMA ImageFits ==
  ASSUME NEW img \in Images, ImageOk(img)
  PROVE  /\ img.size \in 1 .. DiskLen /\ img.len \in Nat
         /\ 0 .. img.size - 1 \subseteq Bytes /\ 0 .. img.size - 1 # {}
         /\ img.len = img.size => ImageBytes(img) = 0 .. img.size - 1
<1>1. img.size \in 0 .. MaxU /\ img.len \in Nat /\ img.size # 0 /\ img.size <= DiskLen
  BY ServedAssumption DEF ImageOk
<1>2. img.size \in 1 .. DiskLen
  BY <1>1, DiskAssumption
<1>3. 0 .. img.size - 1 \subseteq Bytes /\ 0 \in 0 .. img.size - 1
  BY <1>2, DiskAssumption DEF Bytes
<1>4. img.len = img.size => ImageBytes(img) = 0 .. img.size - 1
  BY <1>1, <1>2, <1>3, DiskAssumption DEF ImageBytes, Bytes
<1> QED
  BY <1>1, <1>2, <1>3, <1>4

(***************************************************************************)
(* Every step keeps the types of the disk and of the boot environment.     *)
(***************************************************************************)
LEMMA DurableStep ==
  ASSUME DurableTypes, [Next]_vars
  PROVE  DurableTypes'
<1> USE DEF DurableTypes
<1>1. ASSUME NEW more \in SUBSET {"other", "unknown"}, NEW f \in BOOLEAN,
             StartBoot(more, f)
      PROVE  DurableTypes'
  BY <1>1 DEF StartBoot, To, FreshBoot, NoEnv, EnvKeys, ResetValues, Cells
<1>2. ASSUME NEW avail \in BOOLEAN, NEW err \in SUBSET EnvKeys, Detect(avail, err)
      PROVE  DurableTypes'
  BY <1>2 DEF Detect, To, durable
<1>3. ASSUME NEW kept \in FailedDeletes, Refuse(kept) PROVE DurableTypes'
  BY <1>3, DeletedType DEF Refuse, To
<1>4. ASSUME NEW kept \in FailedDeletes, FactoryResetBoot(kept) PROVE DurableTypes'
  BY <1>4, DeletedType DEF FactoryResetBoot, Goto, To, memory
<1>5. ASSUME NEW pending \in BOOLEAN, NEW rebootErr \in BOOLEAN,
             FatalError(pending, rebootErr)
      PROVE  DurableTypes'
  BY <1>5 DEF FatalError, To, durable, memory
<1>6. ASSUME NEW kept \in FailedDeletes, ClearTriggers(kept) PROVE DurableTypes'
  BY <1>6, DeletedType DEF ClearTriggers, Goto, To, memory
<1>7. ASSUME NEW res \in WithMountResults, PersistLog(res) PROVE DurableTypes'
  BY <1>7 DEF PersistLog, To, durable
<1>8. ASSUME NEW fails \in BOOLEAN, TerminalAction(fails) PROVE DurableTypes'
  BY <1>8 DEF TerminalAction, To, durable
<1>9. CASE EfiMount
  BY <1>9 DEF EfiMount, Goto, To, durable, memory
<1>10. CASE EfiList
  BY <1>10 DEF EfiList, Goto, To, durable
<1>11. CASE EfiCreate
  BY <1>11 DEF EfiCreate, Goto, To, memory
<1>12. CASE EfiDump
  BY <1>12 DEF EfiDump, Goto, To, durable, memory
<1>13. ASSUME NEW e \in old, EfiDelete(e) PROVE DurableTypes'
  BY <1>13 DEF EfiDelete
<1>14. ASSUME NEW res \in WithMountResults, EfiWrite(res) PROVE DurableTypes'
  BY <1>14 DEF EfiWrite, EndRun, To, durable
<1>15. ASSUME NEW from \in EfiStages, EfiFails(from) PROVE DurableTypes'
  BY <1>15 DEF EfiFails, EndRun, To, durable
<1>16. ASSUME NEW noRandom \in BOOLEAN, SelectClone(noRandom) PROVE DurableTypes'
  BY <1>16 DEF SelectClone, EndRun, To, RestUnchanged
<1>17. CASE ResolveDestination
  BY <1>17 DEF ResolveDestination, Goto, To, RestUnchanged
<1>18. CASE ResolveFails
  BY <1>18 DEF ResolveFails, CloneFails, EndRun, To, RestUnchanged
<1>19. CASE ValidateDestination
  BY <1>19 DEF ValidateDestination, EndRun, To, RestUnchanged
<1>20. ASSUME NEW left \in SUBSET {"boot", "rootfs"}, UnmountRootfs(left)
       PROVE  DurableTypes'
  BY <1>20 DEF UnmountRootfs, EndRun, To, RestUnchanged
<1>21. ASSUME NEW d \in Dumps, NEW fails \in BOOLEAN, DumpTable(d, fails)
       PROVE  DurableTypes'
  BY <1>21 DEF DumpTable, EndRun, To
<1>22. ASSUME NEW fails \in BOOLEAN, CloneStep(fails) PROVE DurableTypes'
  <2>1. disk' = disk \/ disk' = [disk EXCEPT ![DiskLen - 1] = "junk"]
    BY <1>22 DEF CloneStep, CloneWrite
  <2> QED
    BY <1>22, <2>1 DEF CloneStep, RestUnchanged, Cells
<1>23. CASE CloneWritten
  BY <1>23 DEF CloneWritten, EndRun, To, RestUnchanged
<1>24. CASE SelectScp
  BY <1>24 DEF SelectScp, Goto, To, ScpRest
<1>25. ASSUME NEW left \in SUBSET mounts, UnmountTarget(left) PROVE DurableTypes'
  BY <1>25 DEF UnmountTarget, EndRun, To, ScpRest
<1>26. ASSUME NEW fails \in BOOLEAN, NEW addr, BringUp(fails, addr) PROVE DurableTypes'
  BY <1>26 DEF BringUp, EndRun, To, ScpRest
<1>27. ASSUME NEW fails \in BOOLEAN, CreateFifo(fails) PROVE DurableTypes'
  BY <1>27 DEF CreateFifo, EndRun, To, ScpRest
<1>28. CASE StartDropbear
  BY <1>28 DEF StartDropbear, Goto, To, ScpRest
<1>29. CASE ScpFails("dropbear", "failed")
  BY <1>29 DEF ScpFails, EndRun, To, ScpRest
<1>30. ASSUME NEW raw \in RawBmaps, NEW fails \in BOOLEAN, ReadBmap(raw, fails)
       PROVE  DurableTypes'
  BY <1>30 DEF ReadBmap, AttemptFails, To, ScpRest
<1>31. ASSUME NEW u, NEW fails \in BOOLEAN, VerifyUpload(u, fails) PROVE DurableTypes'
  BY <1>31 DEF VerifyUpload, To, ScpRest
<1>32. ASSUME NEW u, NEW fails \in BOOLEAN, NEW s, CopyToDisk(u, fails, s)
       PROVE  DurableTypes'
  BY <1>32, CopiedType DEF CopyToDisk, PartlyWritten, To, ScpRest
<1>33. ASSUME NEW fails \in BOOLEAN, NEW s, ZeroHead(fails, s) PROVE DurableTypes'
  BY <1>33, CopiedType DEF ZeroHead, PartlyWritten, To, ScpRest
<1>34. ASSUME NEW keeps \in BOOLEAN, RemoveFiles(keeps) PROVE DurableTypes'
  BY <1>34 DEF RemoveFiles, Goto, To, ScpRest
<1>35. ASSUME NEW noReader \in BOOLEAN, NEW keeps \in BOOLEAN,
              RemoveFifo(noReader, keeps)
       PROVE  DurableTypes'
  BY <1>35 DEF RemoveFifo, WriterAfterRemove, Goto, To, ScpRest
<1>36. ASSUME NEW fails \in BOOLEAN, RereadTable(fails) PROVE DurableTypes'
  BY <1>36 DEF RereadTable, EndRun, To, ScpRest
<1>37. CASE SelectUrl
  BY <1>37 DEF SelectUrl, EndRun, To, UrlRest
<1>38. CASE OpenFails
  BY <1>38 DEF OpenFails, EndRun, To, UrlRest
<1>39. ASSUME NEW fails \in BOOLEAN, DownloadSha(fails) PROVE DurableTypes'
  BY <1>39 DEF DownloadSha, EndRun, To, UrlRest
<1>40. ASSUME NEW fails \in BOOLEAN, CheckImage(fails) PROVE DurableTypes'
  BY <1>40 DEF CheckImage, EndRun, To, UrlRest
<1>41. ASSUME NEW ram, NEW img \in Images, NEW fails \in BOOLEAN,
              DownloadImage(ram, img, fails)
       PROVE  DurableTypes'
  BY <1>41 DEF DownloadImage, EndRun, To, UrlRest
<1>42. ASSUME NEW fails \in BOOLEAN, NEW s, WriteImage(fails, s) PROVE DurableTypes'
  BY <1>42, CopiedType DEF WriteImage, EndRun, To, UrlRest
<1>43. CASE PushImage
  BY <1>43 DEF PushImage, ScpRest
<1>44. CASE GiveUp
  BY <1>44 DEF GiveUp, ScpRest
<1>45. ASSUME NEW state \in {"part", "done"}, PushBmap(state) PROVE DurableTypes'
  BY <1>45 DEF PushBmap, ScpRest
<1>46. CASE Repair
  BY <1>46 DEF Repair, Goto, To, memory, NoEnv, EnvKeys, ResetValues, Cells
<1>47. CASE PowerLoss
  BY <1>47, CutType DEF PowerLoss, To, FreshBoot
<1>48. CASE Restart
  BY <1>48 DEF Restart, To, FreshBoot, durable
<1>49. CASE Calm
  BY <1>49 DEF Calm, durable, memory
<1>50. ASSUME NEW req \in Requests, Request(req) PROVE DurableTypes'
  <2>1. /\ req \in [EnvKeys -> FlashValues \cup ResetValues \cup Destinations \cup UrlValues]
        /\ req["reset"] \in ResetValues
    BY DEF Requests, EnvKeys, FlashValues, FlashModes, ResetValues, Destinations, UrlValues
  <2> QED
    BY <1>50, <2>1 DEF Request
<1>51. CASE UNCHANGED vars
  BY <1>51 DEF vars, durable, memory
<1> HIDE DEF DurableTypes
<1> QED
  BY <1>1, <1>2, <1>3, <1>4, <1>5, <1>6, <1>7, <1>8, <1>9, <1>10, <1>11, <1>12, <1>13,
       <1>14, <1>15, <1>16, <1>17, <1>18, <1>19, <1>20, <1>21, <1>22, <1>23, <1>24,
       <1>25, <1>26, <1>27, <1>28, <1>29, <1>30, <1>31, <1>32, <1>33, <1>34, <1>35,
       <1>36, <1>37, <1>38, <1>39, <1>40, <1>41, <1>42, <1>43, <1>44, <1>45, <1>46,
       <1>47, <1>48, <1>49, <1>50, <1>51 DEF Next, Step, BootNext, FrameNext, EfiNext,
       CloneNext, ScpStep, UrlNext, Operator, SentBmaps, ServedImages

(***************************************************************************)
(* Every step keeps the types of the EFI entries; what is to be deleted    *)
(* exists.                                                                 *)
(***************************************************************************)
LEMMA EntryStep ==
  ASSUME EntryTypes, [Next]_vars
  PROVE  EntryTypes'
<1> USE DEF EntryTypes
<1>1. ASSUME NEW more \in SUBSET {"other", "unknown"}, NEW f \in BOOLEAN,
             StartBoot(more, f)
      PROVE  EntryTypes'
  BY <1>1 DEF StartBoot, To, FreshBoot, FirmwareEntries, BootEntry
<1>2. ASSUME NEW avail \in BOOLEAN, NEW err \in SUBSET EnvKeys, Detect(avail, err)
      PROVE  EntryTypes'
  BY <1>2 DEF Detect, To, durable
<1>3. ASSUME NEW kept \in FailedDeletes, Refuse(kept) PROVE EntryTypes'
  BY <1>3 DEF Refuse, To
<1>4. ASSUME NEW kept \in FailedDeletes, FactoryResetBoot(kept) PROVE EntryTypes'
  BY <1>4 DEF FactoryResetBoot, Goto, To, memory
<1>5. ASSUME NEW pending \in BOOLEAN, NEW rebootErr \in BOOLEAN,
             FatalError(pending, rebootErr)
      PROVE  EntryTypes'
  BY <1>5 DEF FatalError, To, durable, memory
<1>6. ASSUME NEW kept \in FailedDeletes, ClearTriggers(kept) PROVE EntryTypes'
  BY <1>6 DEF ClearTriggers, Goto, To, memory
<1>7. ASSUME NEW res \in WithMountResults, PersistLog(res) PROVE EntryTypes'
  BY <1>7 DEF PersistLog, To, durable
<1>8. ASSUME NEW fails \in BOOLEAN, TerminalAction(fails) PROVE EntryTypes'
  BY <1>8 DEF TerminalAction, To, durable
<1>9. CASE EfiMount
  BY <1>9 DEF EfiMount, Goto, To, durable, memory
<1>10. CASE EfiList
  BY <1>10 DEF EfiList, Goto, To, durable
<1>11. CASE EfiCreate
  <2>1. BootEntry(Target, TRUE) \in [disk: {"own", "other", "usb"}, fresh: BOOLEAN]
    BY DEF BootEntry, Target
  <2> QED
    BY <1>11, <2>1 DEF EfiCreate, memory
<1>12. CASE EfiDump
  BY <1>12 DEF EfiDump, Goto, To, durable, memory
<1>13. ASSUME NEW e \in old, EfiDelete(e) PROVE EntryTypes'
  BY <1>13 DEF EfiDelete
<1>14. ASSUME NEW res \in WithMountResults, EfiWrite(res) PROVE EntryTypes'
  BY <1>14 DEF EfiWrite, EndRun, To, durable
<1>15. ASSUME NEW from \in EfiStages, EfiFails(from) PROVE EntryTypes'
  BY <1>15 DEF EfiFails, EndRun, To, durable
<1>16. ASSUME NEW noRandom \in BOOLEAN, SelectClone(noRandom) PROVE EntryTypes'
  BY <1>16 DEF SelectClone, EndRun, To, RestUnchanged
<1>17. CASE ResolveDestination
  BY <1>17 DEF ResolveDestination, Goto, To, RestUnchanged
<1>18. CASE ResolveFails
  BY <1>18 DEF ResolveFails, CloneFails, EndRun, To, RestUnchanged
<1>19. CASE ValidateDestination
  BY <1>19 DEF ValidateDestination, EndRun, To, RestUnchanged
<1>20. ASSUME NEW left \in SUBSET {"boot", "rootfs"}, UnmountRootfs(left)
       PROVE  EntryTypes'
  BY <1>20 DEF UnmountRootfs, EndRun, To, RestUnchanged
<1>21. ASSUME NEW d \in Dumps, NEW fails \in BOOLEAN, DumpTable(d, fails)
       PROVE  EntryTypes'
  BY <1>21 DEF DumpTable, EndRun, To
<1>22. ASSUME NEW fails \in BOOLEAN, CloneStep(fails) PROVE EntryTypes'
  BY <1>22 DEF CloneStep, EndRun, To, RestUnchanged
<1>23. CASE CloneWritten
  BY <1>23 DEF CloneWritten, EndRun, To, RestUnchanged
<1>24. CASE SelectScp
  BY <1>24 DEF SelectScp, Goto, To, ScpRest
<1>25. ASSUME NEW left \in SUBSET mounts, UnmountTarget(left) PROVE EntryTypes'
  BY <1>25 DEF UnmountTarget, EndRun, To, ScpRest
<1>26. ASSUME NEW fails \in BOOLEAN, NEW addr, BringUp(fails, addr) PROVE EntryTypes'
  BY <1>26 DEF BringUp, EndRun, To, ScpRest
<1>27. ASSUME NEW fails \in BOOLEAN, CreateFifo(fails) PROVE EntryTypes'
  BY <1>27 DEF CreateFifo, EndRun, To, ScpRest
<1>28. CASE StartDropbear
  BY <1>28 DEF StartDropbear, Goto, To, ScpRest
<1>29. CASE ScpFails("dropbear", "failed")
  BY <1>29 DEF ScpFails, EndRun, To, ScpRest
<1>30. ASSUME NEW raw \in RawBmaps, NEW fails \in BOOLEAN, ReadBmap(raw, fails)
       PROVE  EntryTypes'
  BY <1>30 DEF ReadBmap, AttemptFails, To, ScpRest
<1>31. ASSUME NEW u, NEW fails \in BOOLEAN, VerifyUpload(u, fails) PROVE EntryTypes'
  BY <1>31 DEF VerifyUpload, To, ScpRest
<1>32. ASSUME NEW u, NEW fails \in BOOLEAN, NEW s, CopyToDisk(u, fails, s)
       PROVE  EntryTypes'
  BY <1>32 DEF CopyToDisk, PartlyWritten, To, ScpRest
<1>33. ASSUME NEW fails \in BOOLEAN, NEW s, ZeroHead(fails, s) PROVE EntryTypes'
  BY <1>33 DEF ZeroHead, PartlyWritten, To, ScpRest
<1>34. ASSUME NEW keeps \in BOOLEAN, RemoveFiles(keeps) PROVE EntryTypes'
  BY <1>34 DEF RemoveFiles, Goto, To, ScpRest
<1>35. ASSUME NEW noReader \in BOOLEAN, NEW keeps \in BOOLEAN,
              RemoveFifo(noReader, keeps)
       PROVE  EntryTypes'
  BY <1>35 DEF RemoveFifo, WriterAfterRemove, Goto, To, ScpRest
<1>36. ASSUME NEW fails \in BOOLEAN, RereadTable(fails) PROVE EntryTypes'
  BY <1>36 DEF RereadTable, EndRun, To, ScpRest
<1>37. CASE SelectUrl
  BY <1>37 DEF SelectUrl, EndRun, To, UrlRest
<1>38. CASE OpenFails
  BY <1>38 DEF OpenFails, EndRun, To, UrlRest
<1>39. ASSUME NEW fails \in BOOLEAN, DownloadSha(fails) PROVE EntryTypes'
  BY <1>39 DEF DownloadSha, EndRun, To, UrlRest
<1>40. ASSUME NEW fails \in BOOLEAN, CheckImage(fails) PROVE EntryTypes'
  BY <1>40 DEF CheckImage, EndRun, To, UrlRest
<1>41. ASSUME NEW ram, NEW img \in Images, NEW fails \in BOOLEAN,
              DownloadImage(ram, img, fails)
       PROVE  EntryTypes'
  BY <1>41 DEF DownloadImage, EndRun, To, UrlRest
<1>42. ASSUME NEW fails \in BOOLEAN, NEW s, WriteImage(fails, s) PROVE EntryTypes'
  BY <1>42 DEF WriteImage, EndRun, To, UrlRest
<1>43. CASE PushImage
  BY <1>43 DEF PushImage, ScpRest
<1>44. CASE GiveUp
  BY <1>44 DEF GiveUp, ScpRest
<1>45. ASSUME NEW state \in {"part", "done"}, PushBmap(state) PROVE EntryTypes'
  BY <1>45 DEF PushBmap, ScpRest
<1>46. CASE Repair
  BY <1>46 DEF Repair, Goto, To, memory
<1>47. CASE PowerLoss
  BY <1>47 DEF PowerLoss, To, FreshBoot
<1>48. CASE Restart
  BY <1>48 DEF Restart, To, FreshBoot, durable
<1>49. CASE Calm
  BY <1>49 DEF Calm, durable, memory
<1>50. ASSUME NEW req \in Requests, Request(req) PROVE EntryTypes'
  BY <1>50 DEF Request, Goto, To, memory
<1>51. CASE UNCHANGED vars
  BY <1>51 DEF vars, durable, memory
<1> HIDE DEF EntryTypes
<1> QED
  BY <1>1, <1>2, <1>3, <1>4, <1>5, <1>6, <1>7, <1>8, <1>9, <1>10, <1>11, <1>12, <1>13,
       <1>14, <1>15, <1>16, <1>17, <1>18, <1>19, <1>20, <1>21, <1>22, <1>23, <1>24,
       <1>25, <1>26, <1>27, <1>28, <1>29, <1>30, <1>31, <1>32, <1>33, <1>34, <1>35,
       <1>36, <1>37, <1>38, <1>39, <1>40, <1>41, <1>42, <1>43, <1>44, <1>45, <1>46,
       <1>47, <1>48, <1>49, <1>50, <1>51 DEF Next, Step, BootNext, FrameNext, EfiNext,
       CloneNext, ScpStep, UrlNext, Operator, SentBmaps, ServedImages

(***************************************************************************)
(* Every step keeps the types of what is observed; what a plan or an image *)
(* maps is inside the disk.                                                *)
(***************************************************************************)
LEMMA HistStep ==
  ASSUME HistTypes, PlanChecked, CopyVerified, [Next]_vars
  PROVE  HistTypes'
<1> USE DEF HistTypes
<1>1. ASSUME NEW more \in SUBSET {"other", "unknown"}, NEW f \in BOOLEAN,
             StartBoot(more, f)
      PROVE  HistTypes'
  BY <1>1 DEF StartBoot, To, FreshBoot, FreshRun
<1>2. ASSUME NEW avail \in BOOLEAN, NEW err \in SUBSET EnvKeys, Detect(avail, err)
      PROVE  HistTypes'
  <2>1. CASE ~avail /\ ~Release
    BY <1>2, <2>1 DEF Detect
  <2>2. CASE ~(~avail /\ ~Release)
    <3> DEFINE ran == detect_with(avail, flag, Read("flash", err), Read("reset", err))
                        \in {"Reset", "1"}
    <3>1. hist' = [hist EXCEPT !.refused = NotBefore(ran)]
      BY <1>2, <2>2 DEF Detect
    <3>2. NotBefore(ran) \in {"no", "yes", "ran"}
      BY DEF NotBefore
    <3> HIDE DEF ran
    <3> QED
      BY <3>1, <3>2
  <2> QED
    BY <2>1, <2>2
<1>3. ASSUME NEW kept \in FailedDeletes, Refuse(kept) PROVE HistTypes'
  BY <1>3 DEF Refuse, To
<1>4. ASSUME NEW kept \in FailedDeletes, FactoryResetBoot(kept) PROVE HistTypes'
  BY <1>4 DEF FactoryResetBoot, Goto, To, memory
<1>5. ASSUME NEW pending \in BOOLEAN, NEW rebootErr \in BOOLEAN,
             FatalError(pending, rebootErr)
      PROVE  HistTypes'
  BY <1>5 DEF FatalError, To, durable, memory
<1>6. ASSUME NEW kept \in FailedDeletes, ClearTriggers(kept) PROVE HistTypes'
  BY <1>6 DEF ClearTriggers, Goto, To, memory
<1>7. ASSUME NEW res \in WithMountResults, PersistLog(res) PROVE HistTypes'
  BY <1>7 DEF PersistLog, To, durable, with_mount
<1>8. ASSUME NEW fails \in BOOLEAN, TerminalAction(fails) PROVE HistTypes'
  BY <1>8 DEF TerminalAction, To, durable
<1>9. CASE EfiMount
  BY <1>9 DEF EfiMount, Goto, To, durable, memory
<1>10. CASE EfiList
  BY <1>10 DEF EfiList, Goto, To, durable
<1>11. CASE EfiCreate
  BY <1>11 DEF EfiCreate, Goto, To, memory
<1>12. CASE EfiDump
  BY <1>12 DEF EfiDump, Goto, To, durable, memory
<1>13. ASSUME NEW e \in old, EfiDelete(e) PROVE HistTypes'
  BY <1>13 DEF EfiDelete
<1>14. ASSUME NEW res \in WithMountResults, EfiWrite(res) PROVE HistTypes'
  BY <1>14 DEF EfiWrite, EndRun, To, durable, with_mount
<1>15. ASSUME NEW from \in EfiStages, EfiFails(from) PROVE HistTypes'
  BY <1>15 DEF EfiFails, EndRun, To, durable
<1>16. ASSUME NEW noRandom \in BOOLEAN, SelectClone(noRandom) PROVE HistTypes'
  BY <1>16 DEF SelectClone, EndRun, To, RestUnchanged
<1>17. CASE ResolveDestination
  BY <1>17 DEF ResolveDestination, Goto, To, RestUnchanged
<1>18. CASE ResolveFails
  BY <1>18 DEF ResolveFails, CloneFails, EndRun, To, RestUnchanged
<1>19. CASE ValidateDestination
  BY <1>19 DEF ValidateDestination, EndRun, To, RestUnchanged
<1>20. ASSUME NEW left \in SUBSET {"boot", "rootfs"}, UnmountRootfs(left)
       PROVE  HistTypes'
  BY <1>20 DEF UnmountRootfs, EndRun, To, RestUnchanged
<1>21. ASSUME NEW d \in Dumps, NEW fails \in BOOLEAN, DumpTable(d, fails)
       PROVE  HistTypes'
  BY <1>21 DEF DumpTable, EndRun, To
<1>22. ASSUME NEW fails \in BOOLEAN, CloneStep(fails) PROVE HistTypes'
  BY <1>22 DEF CloneStep, EndRun, To, RestUnchanged
<1>23. CASE CloneWritten
  BY <1>23 DEF CloneWritten, EndRun, To, RestUnchanged
<1>24. CASE SelectScp
  BY <1>24 DEF SelectScp, Goto, To, ScpRest
<1>25. ASSUME NEW left \in SUBSET mounts, UnmountTarget(left) PROVE HistTypes'
  BY <1>25 DEF UnmountTarget, EndRun, To, ScpRest
<1>26. ASSUME NEW fails \in BOOLEAN, NEW addr, BringUp(fails, addr) PROVE HistTypes'
  BY <1>26 DEF BringUp, EndRun, To, ScpRest
<1>27. ASSUME NEW fails \in BOOLEAN, CreateFifo(fails) PROVE HistTypes'
  BY <1>27 DEF CreateFifo, EndRun, To, ScpRest
<1>28. CASE StartDropbear
  BY <1>28 DEF StartDropbear, Goto, To, ScpRest
<1>29. CASE ScpFails("dropbear", "failed")
  BY <1>29 DEF ScpFails, EndRun, To, ScpRest
<1>30. ASSUME NEW raw \in RawBmaps, NEW fails \in BOOLEAN, ReadBmap(raw, fails)
       PROVE  HistTypes'
  BY <1>30 DEF ReadBmap, AttemptFails, To, ScpRest
<1>31. ASSUME NEW u, NEW fails \in BOOLEAN, VerifyUpload(u, fails) PROVE HistTypes'
  BY <1>31 DEF VerifyUpload, To, ScpRest
<1>32. ASSUME NEW u, NEW fails \in BOOLEAN, NEW s, CopyToDisk(u, fails, s)
       PROVE  HistTypes'
  <2>1. Mapped(plan) \subseteq Bytes
    BY <1>32, CheckedIsSound DEF CopyToDisk, PlanChecked
  <2>2. hist' = [hist EXCEPT !.want = Mapped(plan), !.clean = HeadBytes \ Mapped(plan),
                             !.io = hist.io \/ fails]
    BY <1>32 DEF CopyToDisk
  <2> QED
    BY <2>1, <2>2
<1>33. ASSUME NEW fails \in BOOLEAN, NEW s, ZeroHead(fails, s) PROVE HistTypes'
  BY <1>33 DEF ZeroHead, PartlyWritten, To, ScpRest
<1>34. ASSUME NEW keeps \in BOOLEAN, RemoveFiles(keeps) PROVE HistTypes'
  BY <1>34 DEF RemoveFiles, Goto, To, ScpRest
<1>35. ASSUME NEW noReader \in BOOLEAN, NEW keeps \in BOOLEAN,
              RemoveFifo(noReader, keeps)
       PROVE  HistTypes'
  BY <1>35 DEF RemoveFifo, WriterAfterRemove, Goto, To, ScpRest
<1>36. ASSUME NEW fails \in BOOLEAN, RereadTable(fails) PROVE HistTypes'
  BY <1>36 DEF RereadTable, EndRun, To, ScpRest
<1>37. CASE SelectUrl
  BY <1>37 DEF SelectUrl, EndRun, To, UrlRest
<1>38. CASE OpenFails
  BY <1>38 DEF OpenFails, EndRun, To, UrlRest
<1>39. ASSUME NEW fails \in BOOLEAN, DownloadSha(fails) PROVE HistTypes'
  BY <1>39 DEF DownloadSha, EndRun, To, UrlRest
<1>40. ASSUME NEW fails \in BOOLEAN, CheckImage(fails) PROVE HistTypes'
  BY <1>40 DEF CheckImage, EndRun, To, UrlRest
<1>41. ASSUME NEW ram, NEW img \in Images, NEW fails \in BOOLEAN,
              DownloadImage(ram, img, fails)
       PROVE  HistTypes'
  BY <1>41 DEF DownloadImage, EndRun, To, UrlRest
<1>42. ASSUME NEW fails \in BOOLEAN, NEW s, WriteImage(fails, s) PROVE HistTypes'
  <2>1. 0 .. got.size - 1 \subseteq Bytes
    BY <1>42, ImageFits DEF WriteImage, CopyVerified
  <2>2. hist' = [hist EXCEPT !.want = 0 .. got.size - 1, !.io = hist.io \/ fails]
    BY <1>42 DEF WriteImage
  <2> QED
    BY <2>1, <2>2
<1>43. CASE PushImage
  BY <1>43 DEF PushImage, ScpRest
<1>44. CASE GiveUp
  BY <1>44 DEF GiveUp, ScpRest
<1>45. ASSUME NEW state \in {"part", "done"}, PushBmap(state) PROVE HistTypes'
  BY <1>45 DEF PushBmap, ScpRest
<1>46. CASE Repair
  BY <1>46 DEF Repair, Goto, To, memory, FreshRun
<1>47. CASE PowerLoss
  <2>1. CASE stage = "copy"
    <3>1. Mapped(plan) \subseteq Bytes
      BY <2>1, CheckedIsSound DEF PlanChecked
    <3>2. hist' = [hist EXCEPT !.want = Mapped(plan), !.clean = HeadBytes \ Mapped(plan)]
      BY <1>47, <2>1 DEF PowerLoss
    <3> QED
      BY <3>1, <3>2
  <2>2. CASE stage = "write"
    <3>1. 0 .. got.size - 1 \subseteq Bytes
      BY <2>2, ImageFits DEF CopyVerified
    <3>2. hist' = [hist EXCEPT !.want = 0 .. got.size - 1]
      BY <1>47, <2>2 DEF PowerLoss
    <3> QED
      BY <3>1, <3>2
  <2>3. CASE stage \notin {"copy", "write"}
    BY <1>47, <2>3 DEF PowerLoss
  <2> QED
    BY <2>1, <2>2, <2>3
<1>48. CASE Restart
  BY <1>48 DEF Restart, To, FreshBoot, durable
<1>49. CASE Calm
  BY <1>49 DEF Calm, durable, memory
<1>50. ASSUME NEW req \in Requests, Request(req) PROVE HistTypes'
  BY <1>50 DEF Request, Goto, To, memory
<1>51. CASE UNCHANGED vars
  BY <1>51 DEF vars, durable, memory
<1> HIDE DEF HistTypes
<1> QED
  BY <1>1, <1>2, <1>3, <1>4, <1>5, <1>6, <1>7, <1>8, <1>9, <1>10, <1>11, <1>12, <1>13,
       <1>14, <1>15, <1>16, <1>17, <1>18, <1>19, <1>20, <1>21, <1>22, <1>23, <1>24,
       <1>25, <1>26, <1>27, <1>28, <1>29, <1>30, <1>31, <1>32, <1>33, <1>34, <1>35,
       <1>36, <1>37, <1>38, <1>39, <1>40, <1>41, <1>42, <1>43, <1>44, <1>45, <1>46,
       <1>47, <1>48, <1>49, <1>50, <1>51 DEF Next, Step, BootNext, FrameNext, EfiNext,
       CloneNext, ScpStep, UrlNext, Operator, SentBmaps, ServedImages

(***************************************************************************)
(* The upload before a run.                                                *)
(***************************************************************************)
LEMMA NoUploadType ==
  /\ NoUpload \in [len: 0 .. MaxU, flip: {None} \cup Bytes]
  /\ NoUp \in [fifo: {"none", "fifo", "file"}, bmap: {"none", "part", "done"},
               writer: {"idle", "waiting", "stranded"}, written: BOOLEAN,
               decoded: [len: 0 .. MaxU, flip: {None} \cup Bytes]]
<1>1. NoUpload \in [len: 0 .. MaxU, flip: {None} \cup Bytes]
  BY DiskAssumption DEF NoUpload
<1> QED
  BY <1>1 DEF NoUp

(***************************************************************************)
(* What the verify pass leaves is as long as the image of the bmap.        *)
(***************************************************************************)
LEMMA DecodedType ==
  ASSUME plan \in CheckedPlans, NEW u
  PROVE  Decoded(u) \in [len: 0 .. MaxU, flip: {None} \cup Bytes]
<1>1. plan.size \in 0 .. MaxU /\ Mapped(plan) \subseteq Bytes
  BY CheckedIsSound
<1> QED
  BY <1>1 DEF Decoded

(***************************************************************************)
(* Every step keeps the types of the upload.                               *)
(***************************************************************************)
LEMMA UpStep ==
  ASSUME UpTypes, PlanChecked, [Next]_vars
  PROVE  UpTypes'
<1> USE DEF UpTypes
<1>1. ASSUME NEW more \in SUBSET {"other", "unknown"}, NEW f \in BOOLEAN,
             StartBoot(more, f)
      PROVE  UpTypes'
  BY <1>1, NoUploadType DEF StartBoot, To, FreshBoot
<1>2. ASSUME NEW avail \in BOOLEAN, NEW err \in SUBSET EnvKeys, Detect(avail, err)
      PROVE  UpTypes'
  BY <1>2 DEF Detect, To, durable
<1>3. ASSUME NEW kept \in FailedDeletes, Refuse(kept) PROVE UpTypes'
  BY <1>3 DEF Refuse, To
<1>4. ASSUME NEW kept \in FailedDeletes, FactoryResetBoot(kept) PROVE UpTypes'
  BY <1>4 DEF FactoryResetBoot, Goto, To, memory
<1>5. ASSUME NEW pending \in BOOLEAN, NEW rebootErr \in BOOLEAN,
             FatalError(pending, rebootErr)
      PROVE  UpTypes'
  BY <1>5 DEF FatalError, To, durable, memory
<1>6. ASSUME NEW kept \in FailedDeletes, ClearTriggers(kept) PROVE UpTypes'
  BY <1>6 DEF ClearTriggers, Goto, To, memory
<1>7. ASSUME NEW res \in WithMountResults, PersistLog(res) PROVE UpTypes'
  BY <1>7, NoUploadType DEF PersistLog, To, durable
<1>8. ASSUME NEW fails \in BOOLEAN, TerminalAction(fails) PROVE UpTypes'
  BY <1>8 DEF TerminalAction, To, durable
<1>9. CASE EfiMount
  BY <1>9 DEF EfiMount, Goto, To, durable, memory
<1>10. CASE EfiList
  BY <1>10 DEF EfiList, Goto, To, durable
<1>11. CASE EfiCreate
  BY <1>11 DEF EfiCreate, Goto, To, memory
<1>12. CASE EfiDump
  BY <1>12 DEF EfiDump, Goto, To, durable, memory
<1>13. ASSUME NEW e \in old, EfiDelete(e) PROVE UpTypes'
  BY <1>13 DEF EfiDelete
<1>14. ASSUME NEW res \in WithMountResults, EfiWrite(res) PROVE UpTypes'
  BY <1>14 DEF EfiWrite, EndRun, To, durable
<1>15. ASSUME NEW from \in EfiStages, EfiFails(from) PROVE UpTypes'
  BY <1>15 DEF EfiFails, EndRun, To, durable
<1>16. ASSUME NEW noRandom \in BOOLEAN, SelectClone(noRandom) PROVE UpTypes'
  BY <1>16 DEF SelectClone, EndRun, To, RestUnchanged
<1>17. CASE ResolveDestination
  BY <1>17 DEF ResolveDestination, Goto, To, RestUnchanged
<1>18. CASE ResolveFails
  BY <1>18 DEF ResolveFails, CloneFails, EndRun, To, RestUnchanged
<1>19. CASE ValidateDestination
  BY <1>19 DEF ValidateDestination, EndRun, To, RestUnchanged
<1>20. ASSUME NEW left \in SUBSET {"boot", "rootfs"}, UnmountRootfs(left) PROVE UpTypes'
  BY <1>20 DEF UnmountRootfs, EndRun, To, RestUnchanged
<1>21. ASSUME NEW d \in Dumps, NEW fails \in BOOLEAN, DumpTable(d, fails) PROVE UpTypes'
  BY <1>21 DEF DumpTable, EndRun, To
<1>22. ASSUME NEW fails \in BOOLEAN, CloneStep(fails) PROVE UpTypes'
  BY <1>22 DEF CloneStep, EndRun, To, RestUnchanged
<1>23. CASE CloneWritten
  BY <1>23 DEF CloneWritten, EndRun, To, RestUnchanged
<1>24. CASE SelectScp
  BY <1>24 DEF SelectScp, Goto, To, ScpRest
<1>25. ASSUME NEW left \in SUBSET mounts, UnmountTarget(left) PROVE UpTypes'
  BY <1>25 DEF UnmountTarget, EndRun, To, ScpRest
<1>26. ASSUME NEW fails \in BOOLEAN, NEW addr, BringUp(fails, addr) PROVE UpTypes'
  BY <1>26 DEF BringUp, EndRun, To, ScpRest
<1>27. ASSUME NEW fails \in BOOLEAN, CreateFifo(fails) PROVE UpTypes'
  BY <1>27 DEF CreateFifo, EndRun, To, ScpRest
<1>28. CASE StartDropbear
  BY <1>28 DEF StartDropbear, Goto, To, ScpRest
<1>29. CASE ScpFails("dropbear", "failed")
  BY <1>29 DEF ScpFails, EndRun, To, ScpRest
<1>30. ASSUME NEW raw \in RawBmaps, NEW fails \in BOOLEAN, ReadBmap(raw, fails)
       PROVE  UpTypes'
  BY <1>30 DEF ReadBmap, AttemptFails, To, ScpRest
<1>31. ASSUME NEW u, NEW fails \in BOOLEAN, VerifyUpload(u, fails) PROVE UpTypes'
  <2>1. plan \in CheckedPlans
    BY <1>31 DEF VerifyUpload, PlanChecked
  <2>2. Decoded(u) \in [len: 0 .. MaxU, flip: {None} \cup Bytes]
    BY <2>1, DecodedType
  <2>3. \/ up' = [up EXCEPT !.writer = "idle", !.decoded = Decoded(u)]
        \/ up' = [up EXCEPT !.writer = "idle", !.decoded = up.decoded]
    BY <1>31 DEF VerifyUpload
  <2> QED
    BY <2>2, <2>3
<1>32. ASSUME NEW u, NEW fails \in BOOLEAN, NEW s, CopyToDisk(u, fails, s)
       PROVE  UpTypes'
  BY <1>32 DEF CopyToDisk, PartlyWritten, To, ScpRest
<1>33. ASSUME NEW fails \in BOOLEAN, NEW s, ZeroHead(fails, s) PROVE UpTypes'
  BY <1>33 DEF ZeroHead, PartlyWritten, To, ScpRest
<1>34. ASSUME NEW keeps \in BOOLEAN, RemoveFiles(keeps) PROVE UpTypes'
  <2>1. up' = [up EXCEPT !.bmap = IF keeps THEN up.bmap ELSE "none", !.decoded = NoUpload]
    BY <1>34 DEF RemoveFiles
  <2> QED
    BY <2>1, NoUploadType
<1>35. ASSUME NEW noReader \in BOOLEAN, NEW keeps \in BOOLEAN,
              RemoveFifo(noReader, keeps)
       PROVE  UpTypes'
  BY <1>35 DEF RemoveFifo, WriterAfterRemove, Goto, To, ScpRest
<1>36. ASSUME NEW fails \in BOOLEAN, RereadTable(fails) PROVE UpTypes'
  BY <1>36 DEF RereadTable, EndRun, To, ScpRest
<1>37. CASE SelectUrl
  BY <1>37 DEF SelectUrl, EndRun, To, UrlRest
<1>38. CASE OpenFails
  BY <1>38 DEF OpenFails, EndRun, To, UrlRest
<1>39. ASSUME NEW fails \in BOOLEAN, DownloadSha(fails) PROVE UpTypes'
  BY <1>39 DEF DownloadSha, EndRun, To, UrlRest
<1>40. ASSUME NEW fails \in BOOLEAN, CheckImage(fails) PROVE UpTypes'
  BY <1>40 DEF CheckImage, EndRun, To, UrlRest
<1>41. ASSUME NEW ram, NEW img \in Images, NEW fails \in BOOLEAN,
              DownloadImage(ram, img, fails)
       PROVE  UpTypes'
  BY <1>41 DEF DownloadImage, EndRun, To, UrlRest
<1>42. ASSUME NEW fails \in BOOLEAN, NEW s, WriteImage(fails, s) PROVE UpTypes'
  BY <1>42 DEF WriteImage, EndRun, To, UrlRest
<1>43. CASE PushImage
  BY <1>43 DEF PushImage, ScpRest
<1>44. CASE GiveUp
  BY <1>44 DEF GiveUp, ScpRest
<1>45. ASSUME NEW state \in {"part", "done"}, PushBmap(state) PROVE UpTypes'
  BY <1>45 DEF PushBmap, ScpRest
<1>46. CASE Repair
  BY <1>46 DEF Repair, Goto, To, memory
<1>47. CASE PowerLoss
  BY <1>47, NoUploadType DEF PowerLoss, To, FreshBoot
<1>48. CASE Restart
  BY <1>48, NoUploadType DEF Restart, To, FreshBoot, durable
<1>49. CASE Calm
  BY <1>49 DEF Calm, durable, memory
<1>50. ASSUME NEW req \in Requests, Request(req) PROVE UpTypes'
  BY <1>50 DEF Request, Goto, To, memory
<1>51. CASE UNCHANGED vars
  BY <1>51 DEF vars, durable, memory
<1> HIDE DEF UpTypes
<1> QED
  BY <1>1, <1>2, <1>3, <1>4, <1>5, <1>6, <1>7, <1>8, <1>9, <1>10, <1>11, <1>12, <1>13,
       <1>14, <1>15, <1>16, <1>17, <1>18, <1>19, <1>20, <1>21, <1>22, <1>23, <1>24,
       <1>25, <1>26, <1>27, <1>28, <1>29, <1>30, <1>31, <1>32, <1>33, <1>34, <1>35,
       <1>36, <1>37, <1>38, <1>39, <1>40, <1>41, <1>42, <1>43, <1>44, <1>45, <1>46,
       <1>47, <1>48, <1>49, <1>50, <1>51 DEF Next, Step, BootNext, FrameNext, EfiNext,
       CloneNext, ScpStep, UrlNext, Operator, SentBmaps, ServedImages

(***************************************************************************)
(* Every step keeps the types of the plan, of the download and of the      *)
(* position in the clone.                                                  *)
(***************************************************************************)
LEMMA PlanStep ==
  ASSUME PlanTypes, DurableTypes, [Next]_vars
  PROVE  PlanTypes'
<1> USE DEF PlanTypes
<1>1. ASSUME NEW more \in SUBSET {"other", "unknown"}, NEW f \in BOOLEAN,
             StartBoot(more, f)
      PROVE  PlanTypes'
  BY <1>1 DEF StartBoot, To, FreshBoot, Plans
<1>2. ASSUME NEW avail \in BOOLEAN, NEW err \in SUBSET EnvKeys, Detect(avail, err)
      PROVE  PlanTypes'
  BY <1>2 DEF Detect, To, durable
<1>3. ASSUME NEW kept \in FailedDeletes, Refuse(kept) PROVE PlanTypes'
  BY <1>3 DEF Refuse, To
<1>4. ASSUME NEW kept \in FailedDeletes, FactoryResetBoot(kept) PROVE PlanTypes'
  BY <1>4 DEF FactoryResetBoot, Goto, To, memory
<1>5. ASSUME NEW pending \in BOOLEAN, NEW rebootErr \in BOOLEAN,
             FatalError(pending, rebootErr)
      PROVE  PlanTypes'
  BY <1>5 DEF FatalError, To, durable, memory
<1>6. ASSUME NEW kept \in FailedDeletes, ClearTriggers(kept) PROVE PlanTypes'
  BY <1>6 DEF ClearTriggers, Goto, To, memory
<1>7. ASSUME NEW res \in WithMountResults, PersistLog(res) PROVE PlanTypes'
  BY <1>7 DEF PersistLog, To, durable, Plans
<1>8. ASSUME NEW fails \in BOOLEAN, TerminalAction(fails) PROVE PlanTypes'
  BY <1>8 DEF TerminalAction, To, durable
<1>9. CASE EfiMount
  BY <1>9 DEF EfiMount, Goto, To, durable, memory
<1>10. CASE EfiList
  BY <1>10 DEF EfiList, Goto, To, durable
<1>11. CASE EfiCreate
  BY <1>11 DEF EfiCreate, Goto, To, memory
<1>12. CASE EfiDump
  BY <1>12 DEF EfiDump, Goto, To, durable, memory
<1>13. ASSUME NEW e \in old, EfiDelete(e) PROVE PlanTypes'
  BY <1>13 DEF EfiDelete
<1>14. ASSUME NEW res \in WithMountResults, EfiWrite(res) PROVE PlanTypes'
  BY <1>14 DEF EfiWrite, EndRun, To, durable
<1>15. ASSUME NEW from \in EfiStages, EfiFails(from) PROVE PlanTypes'
  BY <1>15 DEF EfiFails, EndRun, To, durable
<1>16. ASSUME NEW noRandom \in BOOLEAN, SelectClone(noRandom) PROVE PlanTypes'
  BY <1>16 DEF SelectClone, EndRun, To, RestUnchanged
<1>17. CASE ResolveDestination
  BY <1>17 DEF ResolveDestination, Goto, To, RestUnchanged
<1>18. CASE ResolveFails
  BY <1>18 DEF ResolveFails, CloneFails, EndRun, To, RestUnchanged
<1>19. CASE ValidateDestination
  BY <1>19 DEF ValidateDestination, EndRun, To, RestUnchanged
<1>20. ASSUME NEW left \in SUBSET {"boot", "rootfs"}, UnmountRootfs(left)
       PROVE  PlanTypes'
  BY <1>20 DEF UnmountRootfs, EndRun, To, RestUnchanged
<1>21. ASSUME NEW d \in Dumps, NEW fails \in BOOLEAN, DumpTable(d, fails)
       PROVE  PlanTypes'
  BY <1>21 DEF DumpTable, EndRun, To, Plans, DurableTypes
<1>22. ASSUME NEW fails \in BOOLEAN, CloneStep(fails) PROVE PlanTypes'
  BY <1>22 DEF CloneStep, EndRun, To, RestUnchanged
<1>23. CASE CloneWritten
  BY <1>23 DEF CloneWritten, EndRun, To, RestUnchanged
<1>24. CASE SelectScp
  BY <1>24 DEF SelectScp, Goto, To, ScpRest
<1>25. ASSUME NEW left \in SUBSET mounts, UnmountTarget(left) PROVE PlanTypes'
  BY <1>25 DEF UnmountTarget, EndRun, To, ScpRest
<1>26. ASSUME NEW fails \in BOOLEAN, NEW addr, BringUp(fails, addr) PROVE PlanTypes'
  BY <1>26 DEF BringUp, EndRun, To, ScpRest
<1>27. ASSUME NEW fails \in BOOLEAN, CreateFifo(fails) PROVE PlanTypes'
  BY <1>27 DEF CreateFifo, EndRun, To, ScpRest
<1>28. CASE StartDropbear
  BY <1>28 DEF StartDropbear, Goto, To, ScpRest
<1>29. CASE ScpFails("dropbear", "failed")
  BY <1>29 DEF ScpFails, EndRun, To, ScpRest
<1>30. ASSUME NEW raw \in RawBmaps, NEW fails \in BOOLEAN, ReadBmap(raw, fails)
       PROVE  PlanTypes'
  BY <1>30 DEF ReadBmap, AttemptFails, To, ScpRest, Plans
<1>31. ASSUME NEW u, NEW fails \in BOOLEAN, VerifyUpload(u, fails) PROVE PlanTypes'
  BY <1>31 DEF VerifyUpload, To, ScpRest
<1>32. ASSUME NEW u, NEW fails \in BOOLEAN, NEW s, CopyToDisk(u, fails, s)
       PROVE  PlanTypes'
  BY <1>32 DEF CopyToDisk, PartlyWritten, To, ScpRest
<1>33. ASSUME NEW fails \in BOOLEAN, NEW s, ZeroHead(fails, s) PROVE PlanTypes'
  BY <1>33 DEF ZeroHead, PartlyWritten, To, ScpRest
<1>34. ASSUME NEW keeps \in BOOLEAN, RemoveFiles(keeps) PROVE PlanTypes'
  BY <1>34 DEF RemoveFiles, Goto, To, ScpRest
<1>35. ASSUME NEW noReader \in BOOLEAN, NEW keeps \in BOOLEAN,
              RemoveFifo(noReader, keeps)
       PROVE  PlanTypes'
  BY <1>35 DEF RemoveFifo, WriterAfterRemove, Goto, To, ScpRest
<1>36. ASSUME NEW fails \in BOOLEAN, RereadTable(fails) PROVE PlanTypes'
  BY <1>36 DEF RereadTable, EndRun, To, ScpRest
<1>37. CASE SelectUrl
  BY <1>37 DEF SelectUrl, EndRun, To, UrlRest
<1>38. CASE OpenFails
  BY <1>38 DEF OpenFails, EndRun, To, UrlRest
<1>39. ASSUME NEW fails \in BOOLEAN, DownloadSha(fails) PROVE PlanTypes'
  BY <1>39 DEF DownloadSha, EndRun, To, UrlRest
<1>40. ASSUME NEW fails \in BOOLEAN, CheckImage(fails) PROVE PlanTypes'
  BY <1>40 DEF CheckImage, EndRun, To, UrlRest
<1>41. ASSUME NEW ram, NEW img \in Images, NEW fails \in BOOLEAN,
              DownloadImage(ram, img, fails)
       PROVE  PlanTypes'
  BY <1>41 DEF DownloadImage, EndRun, To, UrlRest
<1>42. ASSUME NEW fails \in BOOLEAN, NEW s, WriteImage(fails, s) PROVE PlanTypes'
  BY <1>42 DEF WriteImage, EndRun, To, UrlRest
<1>43. CASE PushImage
  BY <1>43 DEF PushImage, ScpRest
<1>44. CASE GiveUp
  BY <1>44 DEF GiveUp, ScpRest
<1>45. ASSUME NEW state \in {"part", "done"}, PushBmap(state) PROVE PlanTypes'
  BY <1>45 DEF PushBmap, ScpRest
<1>46. CASE Repair
  BY <1>46 DEF Repair, Goto, To, memory
<1>47. CASE PowerLoss
  BY <1>47 DEF PowerLoss, To, FreshBoot, Plans
<1>48. CASE Restart
  BY <1>48 DEF Restart, To, FreshBoot, durable, Plans
<1>49. CASE Calm
  BY <1>49 DEF Calm, durable, memory
<1>50. ASSUME NEW req \in Requests, Request(req) PROVE PlanTypes'
  BY <1>50 DEF Request, Goto, To, memory
<1>51. CASE UNCHANGED vars
  BY <1>51 DEF vars, durable, memory
<1> HIDE DEF PlanTypes
<1> QED
  BY <1>1, <1>2, <1>3, <1>4, <1>5, <1>6, <1>7, <1>8, <1>9, <1>10, <1>11, <1>12, <1>13,
       <1>14, <1>15, <1>16, <1>17, <1>18, <1>19, <1>20, <1>21, <1>22, <1>23, <1>24,
       <1>25, <1>26, <1>27, <1>28, <1>29, <1>30, <1>31, <1>32, <1>33, <1>34, <1>35,
       <1>36, <1>37, <1>38, <1>39, <1>40, <1>41, <1>42, <1>43, <1>44, <1>45, <1>46,
       <1>47, <1>48, <1>49, <1>50, <1>51 DEF Next, Step, BootNext, FrameNext, EfiNext,
       CloneNext, ScpStep, UrlNext, Operator, SentBmaps, ServedImages

-----------------------------------------------------------------------------
(***************************************************************************)
(* What the init knows.                                                    *)
(***************************************************************************)

(***************************************************************************)
(* Every stage of a mode belongs to that mode, and a result exists only    *)
(* once the mode has ended.                                                *)
(***************************************************************************)
LEMMA ModeStep ==
  ASSUME DurableTypes, ModeOfStage, [Next]_vars
  PROVE  ModeOfStage'
<1> USE DEF ModeOfStage
<1>1. ASSUME NEW more \in SUBSET {"other", "unknown"}, NEW f \in BOOLEAN,
             StartBoot(more, f)
      PROVE  ModeOfStage'
  BY <1>1 DEF StartBoot, To, FreshBoot, CloneStages, ScpStages, LoopStages, UrlStages,
       BeforeRun, EfiStages, FlashModes
<1>2. ASSUME NEW avail \in BOOLEAN, NEW err \in SUBSET EnvKeys, Detect(avail, err)
      PROVE  ModeOfStage'
  <2>1. stage = "detect" /\ result' = result
    BY <1>2 DEF Detect
  <2>2. result = "none" /\ mode = "none"
    BY <2>1 DEF BeforeRun
  <2> QED
    BY <1>2, <2>1, <2>2, DetectEnds
      DEF CloneStages, ScpStages, LoopStages, UrlStages, BeforeRun,
       EfiStages, FlashModes
<1>3. ASSUME NEW kept \in FailedDeletes, Refuse(kept) PROVE ModeOfStage'
  BY <1>3 DEF Refuse, To, CloneStages, ScpStages, LoopStages, UrlStages, BeforeRun,
       EfiStages, FlashModes
<1>4. ASSUME NEW kept \in FailedDeletes, FactoryResetBoot(kept) PROVE ModeOfStage'
  BY <1>4 DEF FactoryResetBoot, Goto, To, memory, CloneStages, ScpStages, LoopStages,
       UrlStages, BeforeRun, EfiStages, FlashModes
<1>5. ASSUME NEW pending \in BOOLEAN, NEW rebootErr \in BOOLEAN,
             FatalError(pending, rebootErr)
      PROVE  ModeOfStage'
  BY <1>5, FatalEnds DEF FatalError, To, durable, memory, CloneStages, ScpStages,
       LoopStages, UrlStages, BeforeRun, EfiStages, FlashModes
<1>6. ASSUME NEW kept \in FailedDeletes, ClearTriggers(kept) PROVE ModeOfStage'
  BY <1>6 DEF ClearTriggers, Goto, To, memory, CloneStages, ScpStages, LoopStages,
       UrlStages, BeforeRun, EfiStages, FlashModes
<1>7. ASSUME NEW res \in WithMountResults, PersistLog(res) PROVE ModeOfStage'
  BY <1>7 DEF PersistLog, To, durable, CloneStages, ScpStages, LoopStages, UrlStages,
       BeforeRun, EfiStages, FlashModes
<1>8. ASSUME NEW fails \in BOOLEAN, TerminalAction(fails) PROVE ModeOfStage'
  BY <1>8 DEF TerminalAction, To, durable, CloneStages, ScpStages, LoopStages,
       UrlStages, BeforeRun, EfiStages, FlashModes
<1>9. CASE EfiMount
  BY <1>9 DEF EfiMount, Goto, To, durable, memory, CloneStages, ScpStages, LoopStages,
       UrlStages, BeforeRun, EfiStages, FlashModes
<1>10. CASE EfiList
  BY <1>10 DEF EfiList, Goto, To, durable, CloneStages, ScpStages, LoopStages,
       UrlStages, BeforeRun, EfiStages, FlashModes
<1>11. CASE EfiCreate
  BY <1>11 DEF EfiCreate, Goto, To, memory, CloneStages, ScpStages, LoopStages,
       UrlStages, BeforeRun, EfiStages, FlashModes
<1>12. CASE EfiDump
  BY <1>12 DEF EfiDump, Goto, To, durable, memory, CloneStages, ScpStages, LoopStages,
       UrlStages, BeforeRun, EfiStages, FlashModes
<1>13. ASSUME NEW e \in old, EfiDelete(e) PROVE ModeOfStage'
  BY <1>13 DEF EfiDelete, CloneStages, ScpStages, LoopStages, UrlStages, BeforeRun,
       EfiStages, FlashModes
<1>14. ASSUME NEW res \in WithMountResults, EfiWrite(res) PROVE ModeOfStage'
  BY <1>14 DEF EfiWrite, EndRun, To, durable, CloneStages, ScpStages, LoopStages,
       UrlStages, BeforeRun, EfiStages, FlashModes
<1>15. ASSUME NEW from \in EfiStages, EfiFails(from) PROVE ModeOfStage'
  BY <1>15 DEF EfiFails, EndRun, To, durable, CloneStages, ScpStages, LoopStages,
       UrlStages, BeforeRun, EfiStages, FlashModes
<1>16. ASSUME NEW noRandom \in BOOLEAN, SelectClone(noRandom) PROVE ModeOfStage'
  BY <1>16 DEF SelectClone, EndRun, To, RestUnchanged, CloneStages, ScpStages,
       LoopStages, UrlStages, BeforeRun, EfiStages, FlashModes
<1>17. CASE ResolveDestination
  BY <1>17 DEF ResolveDestination, Goto, To, RestUnchanged, CloneStages, ScpStages,
       LoopStages, UrlStages, BeforeRun, EfiStages, FlashModes
<1>18. CASE ResolveFails
  BY <1>18 DEF ResolveFails, CloneFails, EndRun, To, RestUnchanged, CloneStages,
       ScpStages, LoopStages, UrlStages, BeforeRun, EfiStages, FlashModes
<1>19. CASE ValidateDestination
  BY <1>19 DEF ValidateDestination, EndRun, To, RestUnchanged, CloneStages, ScpStages,
       LoopStages, UrlStages, BeforeRun, EfiStages, FlashModes
<1>20. ASSUME NEW left \in SUBSET {"boot", "rootfs"}, UnmountRootfs(left)
       PROVE  ModeOfStage'
  BY <1>20 DEF UnmountRootfs, EndRun, To, RestUnchanged, CloneStages, ScpStages,
       LoopStages, UrlStages, BeforeRun, EfiStages, FlashModes
<1>21. ASSUME NEW d \in Dumps, NEW fails \in BOOLEAN, DumpTable(d, fails)
       PROVE  ModeOfStage'
  BY <1>21 DEF DumpTable, EndRun, To, CloneStages, ScpStages, LoopStages, UrlStages,
       BeforeRun, EfiStages, FlashModes
<1>22. ASSUME NEW fails \in BOOLEAN, CloneStep(fails) PROVE ModeOfStage'
  BY <1>22 DEF CloneStep, EndRun, To, RestUnchanged, CloneStages, ScpStages, LoopStages,
       UrlStages, BeforeRun, EfiStages, FlashModes
<1>23. CASE CloneWritten
  BY <1>23 DEF CloneWritten, EndRun, To, RestUnchanged, CloneStages, ScpStages,
       LoopStages, UrlStages, BeforeRun, EfiStages, FlashModes
<1>24. CASE SelectScp
  BY <1>24 DEF SelectScp, Goto, To, ScpRest, CloneStages, ScpStages, LoopStages,
       UrlStages, BeforeRun, EfiStages, FlashModes
<1>25. ASSUME NEW left \in SUBSET mounts, UnmountTarget(left) PROVE ModeOfStage'
  BY <1>25 DEF UnmountTarget, EndRun, To, ScpRest, CloneStages, ScpStages, LoopStages,
       UrlStages, BeforeRun, EfiStages, FlashModes
<1>26. ASSUME NEW fails \in BOOLEAN, NEW addr, BringUp(fails, addr) PROVE ModeOfStage'
  BY <1>26 DEF BringUp, EndRun, To, ScpRest, CloneStages, ScpStages, LoopStages,
       UrlStages, BeforeRun, EfiStages, FlashModes
<1>27. ASSUME NEW fails \in BOOLEAN, CreateFifo(fails) PROVE ModeOfStage'
  BY <1>27 DEF CreateFifo, EndRun, To, ScpRest, RecreateError, CloneStages, ScpStages,
       LoopStages, UrlStages, BeforeRun, EfiStages, FlashModes
<1>28. CASE StartDropbear
  BY <1>28 DEF StartDropbear, Goto, To, ScpRest, CloneStages, ScpStages, LoopStages,
       UrlStages, BeforeRun, EfiStages, FlashModes
<1>29. CASE ScpFails("dropbear", "failed")
  BY <1>29 DEF ScpFails, EndRun, To, ScpRest, CloneStages, ScpStages, LoopStages,
       UrlStages, BeforeRun, EfiStages, FlashModes
<1>30. ASSUME NEW raw \in RawBmaps, NEW fails \in BOOLEAN, ReadBmap(raw, fails)
       PROVE  ModeOfStage'
  BY <1>30 DEF ReadBmap, AttemptFails, To, ScpRest, CloneStages, ScpStages, LoopStages,
       UrlStages, BeforeRun, EfiStages, FlashModes
<1>31. ASSUME NEW u, NEW fails \in BOOLEAN, VerifyUpload(u, fails) PROVE ModeOfStage'
  BY <1>31 DEF VerifyUpload, To, ScpRest, CloneStages, ScpStages, LoopStages, UrlStages,
       BeforeRun, EfiStages, FlashModes
<1>32. ASSUME NEW u, NEW fails \in BOOLEAN, NEW s, CopyToDisk(u, fails, s)
       PROVE  ModeOfStage'
  BY <1>32 DEF CopyToDisk, PartlyWritten, To, ScpRest, CloneStages, ScpStages,
       LoopStages, UrlStages, BeforeRun, EfiStages, FlashModes
<1>33. ASSUME NEW fails \in BOOLEAN, NEW s, ZeroHead(fails, s) PROVE ModeOfStage'
  BY <1>33 DEF ZeroHead, PartlyWritten, To, ScpRest, CloneStages, ScpStages, LoopStages,
       UrlStages, BeforeRun, EfiStages, FlashModes
<1>34. ASSUME NEW keeps \in BOOLEAN, RemoveFiles(keeps) PROVE ModeOfStage'
  BY <1>34 DEF RemoveFiles, Goto, To, ScpRest, CloneStages, ScpStages, LoopStages,
       UrlStages, BeforeRun, EfiStages, FlashModes
<1>35. ASSUME NEW noReader \in BOOLEAN, NEW keeps \in BOOLEAN,
              RemoveFifo(noReader, keeps)
       PROVE  ModeOfStage'
  BY <1>35 DEF RemoveFifo, WriterAfterRemove, Goto, To, ScpRest, CloneStages, ScpStages,
       LoopStages, UrlStages, BeforeRun, EfiStages, FlashModes
<1>36. ASSUME NEW fails \in BOOLEAN, RereadTable(fails) PROVE ModeOfStage'
  BY <1>36 DEF RereadTable, EndRun, To, ScpRest, CloneStages, ScpStages, LoopStages,
       UrlStages, BeforeRun, EfiStages, FlashModes
<1>37. CASE SelectUrl
  BY <1>37 DEF SelectUrl, EndRun, To, UrlRest, CloneStages, ScpStages, LoopStages,
       UrlStages, BeforeRun, EfiStages, FlashModes
<1>38. CASE OpenFails
  BY <1>38 DEF OpenFails, EndRun, To, UrlRest, CloneStages, ScpStages, LoopStages,
       UrlStages, BeforeRun, EfiStages, FlashModes
<1>39. ASSUME NEW fails \in BOOLEAN, DownloadSha(fails) PROVE ModeOfStage'
  BY <1>39 DEF DownloadSha, EndRun, To, UrlRest, CloneStages, ScpStages, LoopStages,
       UrlStages, BeforeRun, EfiStages, FlashModes
<1>40. ASSUME NEW fails \in BOOLEAN, CheckImage(fails) PROVE ModeOfStage'
  BY <1>40 DEF CheckImage, EndRun, To, UrlRest, CloneStages, ScpStages, LoopStages,
       UrlStages, BeforeRun, EfiStages, FlashModes
<1>41. ASSUME NEW ram, NEW img \in Images, NEW fails \in BOOLEAN,
              DownloadImage(ram, img, fails)
       PROVE  ModeOfStage'
  BY <1>41 DEF DownloadImage, EndRun, To, UrlRest, CloneStages, ScpStages, LoopStages,
       UrlStages, BeforeRun, EfiStages, FlashModes
<1>42. ASSUME NEW fails \in BOOLEAN, NEW s, WriteImage(fails, s) PROVE ModeOfStage'
  BY <1>42 DEF WriteImage, EndRun, To, UrlRest, CloneStages, ScpStages, LoopStages,
       UrlStages, BeforeRun, EfiStages, FlashModes
<1>43. CASE PushImage
  BY <1>43 DEF PushImage, ScpRest, CloneStages, ScpStages, LoopStages, UrlStages,
       BeforeRun, EfiStages, FlashModes
<1>44. CASE GiveUp
  BY <1>44 DEF GiveUp, ScpRest, CloneStages, ScpStages, LoopStages, UrlStages,
       BeforeRun, EfiStages, FlashModes
<1>45. ASSUME NEW state \in {"part", "done"}, PushBmap(state) PROVE ModeOfStage'
  BY <1>45 DEF PushBmap, ScpRest, CloneStages, ScpStages, LoopStages, UrlStages,
       BeforeRun, EfiStages, FlashModes
<1>46. CASE Repair
  BY <1>46 DEF Repair, Goto, To, memory, CloneStages, ScpStages, LoopStages, UrlStages,
       BeforeRun, EfiStages, FlashModes
<1>47. CASE PowerLoss
  BY <1>47 DEF PowerLoss, To, FreshBoot, CloneStages, ScpStages, LoopStages, UrlStages,
       BeforeRun, EfiStages, FlashModes
<1>48. CASE Restart
  BY <1>48 DEF Restart, To, FreshBoot, durable, CloneStages, ScpStages, LoopStages,
       UrlStages, BeforeRun, EfiStages, FlashModes
<1>49. CASE Calm
  BY <1>49 DEF Calm, durable, memory, CloneStages, ScpStages, LoopStages, UrlStages,
       BeforeRun, EfiStages, FlashModes
<1>50. ASSUME NEW req \in Requests, Request(req) PROVE ModeOfStage'
  BY <1>50 DEF Request, Goto, To, memory, CloneStages, ScpStages, LoopStages, UrlStages,
       BeforeRun, EfiStages, FlashModes
<1>51. CASE UNCHANGED vars
  BY <1>51 DEF vars, durable, memory
<1> HIDE DEF ModeOfStage
<1> QED
  BY <1>1, <1>2, <1>3, <1>4, <1>5, <1>6, <1>7, <1>8, <1>9, <1>10, <1>11, <1>12, <1>13,
       <1>14, <1>15, <1>16, <1>17, <1>18, <1>19, <1>20, <1>21, <1>22, <1>23, <1>24,
       <1>25, <1>26, <1>27, <1>28, <1>29, <1>30, <1>31, <1>32, <1>33, <1>34, <1>35,
       <1>36, <1>37, <1>38, <1>39, <1>40, <1>41, <1>42, <1>43, <1>44, <1>45, <1>46,
       <1>47, <1>48, <1>49, <1>50, <1>51 DEF Next, Step, BootNext, FrameNext, EfiNext,
       CloneNext, ScpStep, UrlNext, Operator, SentBmaps, ServedImages

(***************************************************************************)
(* What a mode knows is gone when it has ended.                            *)
(***************************************************************************)
LEMMA MemoryStep ==
  ASSUME MemoryOfRun, [Next]_vars
  PROVE  MemoryOfRun'
<1> USE DEF MemoryOfRun
<1>1. ASSUME NEW more \in SUBSET {"other", "unknown"}, NEW f \in BOOLEAN,
             StartBoot(more, f)
      PROVE  MemoryOfRun'
  BY <1>1 DEF StartBoot, To, FreshBoot, LoopStages, EfiStages
<1>2. ASSUME NEW avail \in BOOLEAN, NEW err \in SUBSET EnvKeys, Detect(avail, err)
      PROVE  MemoryOfRun'
  BY <1>2 DEF Detect, To, durable, LoopStages, EfiStages
<1>3. ASSUME NEW kept \in FailedDeletes, Refuse(kept) PROVE MemoryOfRun'
  BY <1>3 DEF Refuse, To, LoopStages, EfiStages
<1>4. ASSUME NEW kept \in FailedDeletes, FactoryResetBoot(kept) PROVE MemoryOfRun'
  BY <1>4 DEF FactoryResetBoot, Goto, To, memory, LoopStages, EfiStages
<1>5. ASSUME NEW pending \in BOOLEAN, NEW rebootErr \in BOOLEAN,
             FatalError(pending, rebootErr)
      PROVE  MemoryOfRun'
  BY <1>5 DEF FatalError, To, durable, memory, LoopStages, EfiStages
<1>6. ASSUME NEW kept \in FailedDeletes, ClearTriggers(kept) PROVE MemoryOfRun'
  BY <1>6 DEF ClearTriggers, Goto, To, memory, LoopStages, EfiStages
<1>7. ASSUME NEW res \in WithMountResults, PersistLog(res) PROVE MemoryOfRun'
  BY <1>7 DEF PersistLog, To, durable, LoopStages, EfiStages
<1>8. ASSUME NEW fails \in BOOLEAN, TerminalAction(fails) PROVE MemoryOfRun'
  BY <1>8 DEF TerminalAction, To, durable, LoopStages, EfiStages
<1>9. CASE EfiMount
  BY <1>9 DEF EfiMount, Goto, To, durable, memory, LoopStages, EfiStages
<1>10. CASE EfiList
  BY <1>10 DEF EfiList, Goto, To, durable, LoopStages, EfiStages
<1>11. CASE EfiCreate
  BY <1>11 DEF EfiCreate, Goto, To, memory, LoopStages, EfiStages
<1>12. CASE EfiDump
  BY <1>12 DEF EfiDump, Goto, To, durable, memory, LoopStages, EfiStages
<1>13. ASSUME NEW e \in old, EfiDelete(e) PROVE MemoryOfRun'
  BY <1>13 DEF EfiDelete, LoopStages, EfiStages
<1>14. ASSUME NEW res \in WithMountResults, EfiWrite(res) PROVE MemoryOfRun'
  BY <1>14 DEF EfiWrite, EndRun, To, durable, LoopStages, EfiStages
<1>15. ASSUME NEW from \in EfiStages, EfiFails(from) PROVE MemoryOfRun'
  BY <1>15 DEF EfiFails, EndRun, To, durable, LoopStages, EfiStages
<1>16. ASSUME NEW noRandom \in BOOLEAN, SelectClone(noRandom) PROVE MemoryOfRun'
  BY <1>16 DEF SelectClone, EndRun, To, RestUnchanged, LoopStages, EfiStages
<1>17. CASE ResolveDestination
  BY <1>17 DEF ResolveDestination, Goto, To, RestUnchanged, LoopStages, EfiStages
<1>18. CASE ResolveFails
  BY <1>18 DEF ResolveFails, CloneFails, EndRun, To, RestUnchanged, LoopStages,
       EfiStages
<1>19. CASE ValidateDestination
  BY <1>19 DEF ValidateDestination, EndRun, To, RestUnchanged, LoopStages, EfiStages
<1>20. ASSUME NEW left \in SUBSET {"boot", "rootfs"}, UnmountRootfs(left)
       PROVE  MemoryOfRun'
  BY <1>20 DEF UnmountRootfs, EndRun, To, RestUnchanged, LoopStages, EfiStages
<1>21. ASSUME NEW d \in Dumps, NEW fails \in BOOLEAN, DumpTable(d, fails)
       PROVE  MemoryOfRun'
  BY <1>21 DEF DumpTable, EndRun, To, LoopStages, EfiStages
<1>22. ASSUME NEW fails \in BOOLEAN, CloneStep(fails) PROVE MemoryOfRun'
  BY <1>22 DEF CloneStep, EndRun, To, RestUnchanged, LoopStages, EfiStages
<1>23. CASE CloneWritten
  BY <1>23 DEF CloneWritten, EndRun, To, RestUnchanged, LoopStages, EfiStages
<1>24. CASE SelectScp
  BY <1>24 DEF SelectScp, Goto, To, ScpRest, LoopStages, EfiStages
<1>25. ASSUME NEW left \in SUBSET mounts, UnmountTarget(left) PROVE MemoryOfRun'
  BY <1>25 DEF UnmountTarget, EndRun, To, ScpRest, LoopStages, EfiStages
<1>26. ASSUME NEW fails \in BOOLEAN, NEW addr, BringUp(fails, addr) PROVE MemoryOfRun'
  BY <1>26 DEF BringUp, EndRun, To, ScpRest, LoopStages, EfiStages
<1>27. ASSUME NEW fails \in BOOLEAN, CreateFifo(fails) PROVE MemoryOfRun'
  BY <1>27 DEF CreateFifo, EndRun, To, ScpRest, LoopStages, EfiStages
<1>28. CASE StartDropbear
  BY <1>28 DEF StartDropbear, Goto, To, ScpRest, LoopStages, EfiStages
<1>29. CASE ScpFails("dropbear", "failed")
  BY <1>29 DEF ScpFails, EndRun, To, ScpRest, LoopStages, EfiStages
<1>30. ASSUME NEW raw \in RawBmaps, NEW fails \in BOOLEAN, ReadBmap(raw, fails)
       PROVE  MemoryOfRun'
  BY <1>30 DEF ReadBmap, AttemptFails, To, ScpRest, LoopStages, EfiStages
<1>31. ASSUME NEW u, NEW fails \in BOOLEAN, VerifyUpload(u, fails) PROVE MemoryOfRun'
  BY <1>31 DEF VerifyUpload, To, ScpRest, LoopStages, EfiStages
<1>32. ASSUME NEW u, NEW fails \in BOOLEAN, NEW s, CopyToDisk(u, fails, s)
       PROVE  MemoryOfRun'
  BY <1>32 DEF CopyToDisk, PartlyWritten, To, ScpRest, LoopStages, EfiStages
<1>33. ASSUME NEW fails \in BOOLEAN, NEW s, ZeroHead(fails, s) PROVE MemoryOfRun'
  BY <1>33 DEF ZeroHead, PartlyWritten, To, ScpRest, LoopStages, EfiStages
<1>34. ASSUME NEW keeps \in BOOLEAN, RemoveFiles(keeps) PROVE MemoryOfRun'
  BY <1>34 DEF RemoveFiles, Goto, To, ScpRest, LoopStages, EfiStages
<1>35. ASSUME NEW noReader \in BOOLEAN, NEW keeps \in BOOLEAN,
              RemoveFifo(noReader, keeps)
       PROVE  MemoryOfRun'
  BY <1>35 DEF RemoveFifo, WriterAfterRemove, Goto, To, ScpRest, LoopStages, EfiStages
<1>36. ASSUME NEW fails \in BOOLEAN, RereadTable(fails) PROVE MemoryOfRun'
  BY <1>36 DEF RereadTable, EndRun, To, ScpRest, LoopStages, EfiStages
<1>37. CASE SelectUrl
  BY <1>37 DEF SelectUrl, EndRun, To, UrlRest, LoopStages, EfiStages
<1>38. CASE OpenFails
  BY <1>38 DEF OpenFails, EndRun, To, UrlRest, LoopStages, EfiStages
<1>39. ASSUME NEW fails \in BOOLEAN, DownloadSha(fails) PROVE MemoryOfRun'
  BY <1>39 DEF DownloadSha, EndRun, To, UrlRest, LoopStages, EfiStages
<1>40. ASSUME NEW fails \in BOOLEAN, CheckImage(fails) PROVE MemoryOfRun'
  BY <1>40 DEF CheckImage, EndRun, To, UrlRest, LoopStages, EfiStages
<1>41. ASSUME NEW ram, NEW img \in Images, NEW fails \in BOOLEAN,
              DownloadImage(ram, img, fails)
       PROVE  MemoryOfRun'
  BY <1>41 DEF DownloadImage, EndRun, To, UrlRest, LoopStages, EfiStages
<1>42. ASSUME NEW fails \in BOOLEAN, NEW s, WriteImage(fails, s) PROVE MemoryOfRun'
  BY <1>42 DEF WriteImage, EndRun, To, UrlRest, LoopStages, EfiStages
<1>43. CASE PushImage
  BY <1>43 DEF PushImage, ScpRest, Reachable, LoopStages, EfiStages
<1>44. CASE GiveUp
  BY <1>44 DEF GiveUp, ScpRest, Reachable, LoopStages, EfiStages
<1>45. ASSUME NEW state \in {"part", "done"}, PushBmap(state) PROVE MemoryOfRun'
  BY <1>45 DEF PushBmap, ScpRest, Reachable, LoopStages, EfiStages
<1>46. CASE Repair
  BY <1>46 DEF Repair, Goto, To, memory, LoopStages, EfiStages
<1>47. CASE PowerLoss
  BY <1>47 DEF PowerLoss, To, FreshBoot, LoopStages, EfiStages
<1>48. CASE Restart
  BY <1>48 DEF Restart, To, FreshBoot, durable, LoopStages, EfiStages
<1>49. CASE Calm
  BY <1>49 DEF Calm, durable, memory, LoopStages, EfiStages
<1>50. ASSUME NEW req \in Requests, Request(req) PROVE MemoryOfRun'
  BY <1>50 DEF Request, Goto, To, memory, LoopStages, EfiStages
<1>51. CASE UNCHANGED vars
  BY <1>51 DEF vars, durable, memory
<1> HIDE DEF MemoryOfRun
<1> QED
  BY <1>1, <1>2, <1>3, <1>4, <1>5, <1>6, <1>7, <1>8, <1>9, <1>10, <1>11, <1>12, <1>13,
       <1>14, <1>15, <1>16, <1>17, <1>18, <1>19, <1>20, <1>21, <1>22, <1>23, <1>24,
       <1>25, <1>26, <1>27, <1>28, <1>29, <1>30, <1>31, <1>32, <1>33, <1>34, <1>35,
       <1>36, <1>37, <1>38, <1>39, <1>40, <1>41, <1>42, <1>43, <1>44, <1>45, <1>46,
       <1>47, <1>48, <1>49, <1>50, <1>51 DEF Next, Step, BootNext, FrameNext, EfiNext,
       CloneNext, ScpStep, UrlNext, Operator, SentBmaps, ServedImages

(***************************************************************************)
(* The plan of mode 2 is a checked bmap.                                   *)
(***************************************************************************)
LEMMA PlanCheckedStep ==
  ASSUME DurableTypes, ModeOfStage, MemoryOfRun, PlanChecked, [Next]_vars
  PROVE  PlanChecked'
<1> USE DEF PlanChecked
<1>1. ASSUME NEW more \in SUBSET {"other", "unknown"}, NEW f \in BOOLEAN,
             StartBoot(more, f)
      PROVE  PlanChecked'
  BY <1>1 DEF StartBoot, To, FreshBoot
<1>2. ASSUME NEW avail \in BOOLEAN, NEW err \in SUBSET EnvKeys, Detect(avail, err)
      PROVE  PlanChecked'
  <2>1. stage = "detect" /\ plan' = plan /\ plan = NoPlan
    BY <1>2 DEF Detect, MemoryOfRun, LoopStages, EfiStages
  <2> QED
    BY <1>2, <2>1, DetectEnds
<1>3. ASSUME NEW kept \in FailedDeletes, Refuse(kept) PROVE PlanChecked'
  BY <1>3 DEF Refuse, To
<1>4. ASSUME NEW kept \in FailedDeletes, FactoryResetBoot(kept) PROVE PlanChecked'
  BY <1>4 DEF FactoryResetBoot, Goto, To, memory
<1>5. ASSUME NEW pending \in BOOLEAN, NEW rebootErr \in BOOLEAN,
             FatalError(pending, rebootErr)
      PROVE  PlanChecked'
  BY <1>5, FatalEnds DEF FatalError, To, durable, memory
<1>6. ASSUME NEW kept \in FailedDeletes, ClearTriggers(kept) PROVE PlanChecked'
  BY <1>6 DEF ClearTriggers, Goto, To, memory
<1>7. ASSUME NEW res \in WithMountResults, PersistLog(res) PROVE PlanChecked'
  BY <1>7 DEF PersistLog, To, durable
<1>8. ASSUME NEW fails \in BOOLEAN, TerminalAction(fails) PROVE PlanChecked'
  BY <1>8 DEF TerminalAction, To, durable
<1>9. CASE EfiMount
  BY <1>9 DEF EfiMount, Goto, To, durable, memory
<1>10. CASE EfiList
  BY <1>10 DEF EfiList, Goto, To, durable
<1>11. CASE EfiCreate
  BY <1>11 DEF EfiCreate, Goto, To, memory
<1>12. CASE EfiDump
  BY <1>12 DEF EfiDump, Goto, To, durable, memory
<1>13. ASSUME NEW e \in old, EfiDelete(e) PROVE PlanChecked'
  BY <1>13 DEF EfiDelete
<1>14. ASSUME NEW res \in WithMountResults, EfiWrite(res) PROVE PlanChecked'
  BY <1>14 DEF EfiWrite, EndRun, To, durable
<1>15. ASSUME NEW from \in EfiStages, EfiFails(from) PROVE PlanChecked'
  BY <1>15 DEF EfiFails, EndRun, To, durable
<1>16. ASSUME NEW noRandom \in BOOLEAN, SelectClone(noRandom) PROVE PlanChecked'
  BY <1>16 DEF SelectClone, EndRun, To, RestUnchanged
<1>17. CASE ResolveDestination
  BY <1>17 DEF ResolveDestination, Goto, To, RestUnchanged
<1>18. CASE ResolveFails
  BY <1>18 DEF ResolveFails, CloneFails, EndRun, To, RestUnchanged
<1>19. CASE ValidateDestination
  BY <1>19 DEF ValidateDestination, EndRun, To, RestUnchanged
<1>20. ASSUME NEW left \in SUBSET {"boot", "rootfs"}, UnmountRootfs(left)
       PROVE  PlanChecked'
  BY <1>20 DEF UnmountRootfs, EndRun, To, RestUnchanged
<1>21. ASSUME NEW d \in Dumps, NEW fails \in BOOLEAN, DumpTable(d, fails)
       PROVE  PlanChecked'
  BY <1>21 DEF DumpTable, EndRun, To, ModeOfStage, CloneStages
<1>22. ASSUME NEW fails \in BOOLEAN, CloneStep(fails) PROVE PlanChecked'
  BY <1>22 DEF CloneStep, EndRun, To, RestUnchanged
<1>23. CASE CloneWritten
  BY <1>23 DEF CloneWritten, EndRun, To, RestUnchanged
<1>24. CASE SelectScp
  BY <1>24 DEF SelectScp, Goto, To, ScpRest
<1>25. ASSUME NEW left \in SUBSET mounts, UnmountTarget(left) PROVE PlanChecked'
  BY <1>25 DEF UnmountTarget, EndRun, To, ScpRest
<1>26. ASSUME NEW fails \in BOOLEAN, NEW addr, BringUp(fails, addr) PROVE PlanChecked'
  BY <1>26 DEF BringUp, EndRun, To, ScpRest
<1>27. ASSUME NEW fails \in BOOLEAN, CreateFifo(fails) PROVE PlanChecked'
  BY <1>27 DEF CreateFifo, EndRun, To, ScpRest
<1>28. CASE StartDropbear
  BY <1>28 DEF StartDropbear, Goto, To, ScpRest
<1>29. CASE ScpFails("dropbear", "failed")
  BY <1>29 DEF ScpFails, EndRun, To, ScpRest
<1>30. ASSUME NEW raw \in RawBmaps, NEW fails \in BOOLEAN, ReadBmap(raw, fails)
       PROVE  PlanChecked'
  <2>1. CASE fails \/ ~ParseOk(raw) \/ raw.size > DiskLen
    BY <1>30, <2>1 DEF ReadBmap, AttemptFails, To, ScpRest
  <2>2. CASE ~(fails \/ ~ParseOk(raw) \/ raw.size > DiskLen)
    <3>1. raw.size \in 0 .. MaxU
      BY BmapsAssumption
    <3>2. ParseOk(raw) /\ raw.size <= DiskLen
      BY <2>2, <3>1, DiskAssumption
    <3>3. plan' = parse(raw)
      BY <1>30, <2>2 DEF ReadBmap
    <3>4. parse(raw) \in CheckedPlans
      BY <3>2 DEF CheckedPlans
    <3> QED
      BY <3>3, <3>4
  <2> QED
    BY <2>1, <2>2
<1>31. ASSUME NEW u, NEW fails \in BOOLEAN, VerifyUpload(u, fails) PROVE PlanChecked'
  BY <1>31 DEF VerifyUpload, To, ScpRest
<1>32. ASSUME NEW u, NEW fails \in BOOLEAN, NEW s, CopyToDisk(u, fails, s)
       PROVE  PlanChecked'
  BY <1>32 DEF CopyToDisk, PartlyWritten, To, ScpRest
<1>33. ASSUME NEW fails \in BOOLEAN, NEW s, ZeroHead(fails, s) PROVE PlanChecked'
  BY <1>33 DEF ZeroHead, PartlyWritten, To, ScpRest
<1>34. ASSUME NEW keeps \in BOOLEAN, RemoveFiles(keeps) PROVE PlanChecked'
  BY <1>34 DEF RemoveFiles, Goto, To, ScpRest
<1>35. ASSUME NEW noReader \in BOOLEAN, NEW keeps \in BOOLEAN,
              RemoveFifo(noReader, keeps)
       PROVE  PlanChecked'
  BY <1>35 DEF RemoveFifo, WriterAfterRemove, Goto, To, ScpRest
<1>36. ASSUME NEW fails \in BOOLEAN, RereadTable(fails) PROVE PlanChecked'
  BY <1>36 DEF RereadTable, EndRun, To, ScpRest
<1>37. CASE SelectUrl
  BY <1>37 DEF SelectUrl, EndRun, To, UrlRest
<1>38. CASE OpenFails
  BY <1>38 DEF OpenFails, EndRun, To, UrlRest
<1>39. ASSUME NEW fails \in BOOLEAN, DownloadSha(fails) PROVE PlanChecked'
  BY <1>39 DEF DownloadSha, EndRun, To, UrlRest
<1>40. ASSUME NEW fails \in BOOLEAN, CheckImage(fails) PROVE PlanChecked'
  BY <1>40 DEF CheckImage, EndRun, To, UrlRest
<1>41. ASSUME NEW ram, NEW img \in Images, NEW fails \in BOOLEAN,
              DownloadImage(ram, img, fails)
       PROVE  PlanChecked'
  BY <1>41 DEF DownloadImage, EndRun, To, UrlRest
<1>42. ASSUME NEW fails \in BOOLEAN, NEW s, WriteImage(fails, s) PROVE PlanChecked'
  BY <1>42 DEF WriteImage, EndRun, To, UrlRest
<1>43. CASE PushImage
  BY <1>43 DEF PushImage, ScpRest
<1>44. CASE GiveUp
  BY <1>44 DEF GiveUp, ScpRest
<1>45. ASSUME NEW state \in {"part", "done"}, PushBmap(state) PROVE PlanChecked'
  BY <1>45 DEF PushBmap, ScpRest
<1>46. CASE Repair
  BY <1>46 DEF Repair, Goto, To, memory
<1>47. CASE PowerLoss
  BY <1>47 DEF PowerLoss, To, FreshBoot
<1>48. CASE Restart
  BY <1>48 DEF Restart, To, FreshBoot, durable
<1>49. CASE Calm
  BY <1>49 DEF Calm, durable, memory
<1>50. ASSUME NEW req \in Requests, Request(req) PROVE PlanChecked'
  BY <1>50 DEF Request, Goto, To, memory
<1>51. CASE UNCHANGED vars
  BY <1>51 DEF vars, durable, memory
<1> HIDE DEF PlanChecked
<1> QED
  BY <1>1, <1>2, <1>3, <1>4, <1>5, <1>6, <1>7, <1>8, <1>9, <1>10, <1>11, <1>12, <1>13,
       <1>14, <1>15, <1>16, <1>17, <1>18, <1>19, <1>20, <1>21, <1>22, <1>23, <1>24,
       <1>25, <1>26, <1>27, <1>28, <1>29, <1>30, <1>31, <1>32, <1>33, <1>34, <1>35,
       <1>36, <1>37, <1>38, <1>39, <1>40, <1>41, <1>42, <1>43, <1>44, <1>45, <1>46,
       <1>47, <1>48, <1>49, <1>50, <1>51 DEF Next, Step, BootNext, FrameNext, EfiNext,
       CloneNext, ScpStep, UrlNext, Operator, SentBmaps, ServedImages

(***************************************************************************)
(* A request that was refused has left no variable behind, so that no      *)
(* later boot runs it.                                                     *)
(***************************************************************************)
LEMMA RefusedStep ==
  ASSUME DurableTypes, HistTypes, RefusedCleared, [Next]_vars
  PROVE  RefusedCleared'
<1> USE DEF RefusedCleared, RefusedStaysRefused
<1>1. ASSUME NEW more \in SUBSET {"other", "unknown"}, NEW f \in BOOLEAN,
             StartBoot(more, f)
      PROVE  RefusedCleared'
  BY <1>1 DEF StartBoot, To, FreshBoot, FreshRun, HistTypes
<1>2. ASSUME NEW avail \in BOOLEAN, NEW err \in SUBSET EnvKeys, Detect(avail, err)
      PROVE  RefusedCleared'
  <2>1. CASE ~avail /\ ~Release
    BY <1>2, <2>1 DEF Detect, durable
  <2>2. CASE ~(~avail /\ ~Release)
    <3> DEFINE ran == detect_with(avail, flag, Read("flash", err), Read("reset", err))
                        \in {"Reset", "1"}
    <3>1. hist'.refused = NotBefore(ran) /\ env' = env
      BY <1>2, <2>2 DEF Detect, HistTypes, durable
    <3>2. hist.refused = "yes" => ~ran
      <4> SUFFICES ASSUME hist.refused = "yes" PROVE ~ran
        OBVIOUS
      <4>1. Read("flash", err) \in {"none", "Err"} /\ Read("reset", err) \in {"none", "Err"}
        BY DEF Read, NoEnv, EnvKeys
      <4>2. Selected(Read("flash", err), flag) \in {"2", "none"}
        BY <4>1 DEF Selected, parse_mode, FlashModes
      <4> QED
        BY <4>1, <4>2 DEF detect_with, ResetOrNormal
    <3> HIDE DEF ran
    <3>3. NotBefore(ran) = hist.refused
      BY <3>2 DEF NotBefore
    <3> QED
      BY <3>1, <3>3
  <2> QED
    BY <2>1, <2>2
<1>3. ASSUME NEW kept \in FailedDeletes, Refuse(kept) PROVE RefusedCleared'
  <2>1. hist'.refused = IF kept = {} THEN "yes" ELSE "no"
    BY <1>3 DEF Refuse, HistTypes
  <2>2. kept = {} => env' = NoEnv
    BY <1>3 DEF Refuse, Deleted, NoEnv
  <2> QED
    BY <2>1, <2>2
<1>4. ASSUME NEW kept \in FailedDeletes, FactoryResetBoot(kept) PROVE RefusedCleared'
  BY <1>4 DEF FactoryResetBoot, Goto, To, memory, Deleted, NoEnv
<1>5. ASSUME NEW pending \in BOOLEAN, NEW rebootErr \in BOOLEAN,
             FatalError(pending, rebootErr)
      PROVE  RefusedCleared'
  BY <1>5 DEF FatalError, To, durable, memory
<1>6. ASSUME NEW kept \in FailedDeletes, ClearTriggers(kept) PROVE RefusedCleared'
  BY <1>6 DEF ClearTriggers, Goto, To, memory, Deleted, NoEnv
<1>7. ASSUME NEW res \in WithMountResults, PersistLog(res) PROVE RefusedCleared'
  BY <1>7 DEF PersistLog, To, durable, with_mount, HistTypes
<1>8. ASSUME NEW fails \in BOOLEAN, TerminalAction(fails) PROVE RefusedCleared'
  BY <1>8 DEF TerminalAction, To, durable
<1>9. CASE EfiMount
  BY <1>9 DEF EfiMount, Goto, To, durable, memory
<1>10. CASE EfiList
  BY <1>10 DEF EfiList, Goto, To, durable
<1>11. CASE EfiCreate
  BY <1>11 DEF EfiCreate, Goto, To, memory
<1>12. CASE EfiDump
  BY <1>12 DEF EfiDump, Goto, To, durable, memory
<1>13. ASSUME NEW e \in old, EfiDelete(e) PROVE RefusedCleared'
  BY <1>13 DEF EfiDelete
<1>14. ASSUME NEW res \in WithMountResults, EfiWrite(res) PROVE RefusedCleared'
  BY <1>14 DEF EfiWrite, EndRun, To, durable, with_mount, HistTypes
<1>15. ASSUME NEW from \in EfiStages, EfiFails(from) PROVE RefusedCleared'
  BY <1>15 DEF EfiFails, EndRun, To, durable
<1>16. ASSUME NEW noRandom \in BOOLEAN, SelectClone(noRandom) PROVE RefusedCleared'
  BY <1>16 DEF SelectClone, EndRun, To, RestUnchanged
<1>17. CASE ResolveDestination
  BY <1>17 DEF ResolveDestination, Goto, To, RestUnchanged
<1>18. CASE ResolveFails
  BY <1>18 DEF ResolveFails, CloneFails, EndRun, To, RestUnchanged
<1>19. CASE ValidateDestination
  BY <1>19 DEF ValidateDestination, EndRun, To, RestUnchanged
<1>20. ASSUME NEW left \in SUBSET {"boot", "rootfs"}, UnmountRootfs(left)
       PROVE  RefusedCleared'
  BY <1>20 DEF UnmountRootfs, EndRun, To, RestUnchanged
<1>21. ASSUME NEW d \in Dumps, NEW fails \in BOOLEAN, DumpTable(d, fails)
       PROVE  RefusedCleared'
  BY <1>21 DEF DumpTable, EndRun, To
<1>22. ASSUME NEW fails \in BOOLEAN, CloneStep(fails) PROVE RefusedCleared'
  BY <1>22 DEF CloneStep, EndRun, To, RestUnchanged
<1>23. CASE CloneWritten
  BY <1>23 DEF CloneWritten, EndRun, To, RestUnchanged
<1>24. CASE SelectScp
  BY <1>24 DEF SelectScp, Goto, To, ScpRest
<1>25. ASSUME NEW left \in SUBSET mounts, UnmountTarget(left) PROVE RefusedCleared'
  BY <1>25 DEF UnmountTarget, EndRun, To, ScpRest
<1>26. ASSUME NEW fails \in BOOLEAN, NEW addr, BringUp(fails, addr)
       PROVE  RefusedCleared'
  BY <1>26 DEF BringUp, EndRun, To, ScpRest
<1>27. ASSUME NEW fails \in BOOLEAN, CreateFifo(fails) PROVE RefusedCleared'
  BY <1>27 DEF CreateFifo, EndRun, To, ScpRest
<1>28. CASE StartDropbear
  BY <1>28 DEF StartDropbear, Goto, To, ScpRest
<1>29. CASE ScpFails("dropbear", "failed")
  BY <1>29 DEF ScpFails, EndRun, To, ScpRest
<1>30. ASSUME NEW raw \in RawBmaps, NEW fails \in BOOLEAN, ReadBmap(raw, fails)
       PROVE  RefusedCleared'
  BY <1>30 DEF ReadBmap, AttemptFails, To, ScpRest
<1>31. ASSUME NEW u, NEW fails \in BOOLEAN, VerifyUpload(u, fails) PROVE RefusedCleared'
  BY <1>31 DEF VerifyUpload, To, ScpRest
<1>32. ASSUME NEW u, NEW fails \in BOOLEAN, NEW s, CopyToDisk(u, fails, s)
       PROVE  RefusedCleared'
  BY <1>32 DEF CopyToDisk, PartlyWritten, To, ScpRest, HistTypes
<1>33. ASSUME NEW fails \in BOOLEAN, NEW s, ZeroHead(fails, s) PROVE RefusedCleared'
  BY <1>33 DEF ZeroHead, PartlyWritten, To, ScpRest, HistTypes
<1>34. ASSUME NEW keeps \in BOOLEAN, RemoveFiles(keeps) PROVE RefusedCleared'
  BY <1>34 DEF RemoveFiles, Goto, To, ScpRest
<1>35. ASSUME NEW noReader \in BOOLEAN, NEW keeps \in BOOLEAN,
              RemoveFifo(noReader, keeps)
       PROVE  RefusedCleared'
  BY <1>35 DEF RemoveFifo, WriterAfterRemove, Goto, To, ScpRest, HistTypes
<1>36. ASSUME NEW fails \in BOOLEAN, RereadTable(fails) PROVE RefusedCleared'
  BY <1>36 DEF RereadTable, EndRun, To, ScpRest
<1>37. CASE SelectUrl
  BY <1>37 DEF SelectUrl, EndRun, To, UrlRest
<1>38. CASE OpenFails
  BY <1>38 DEF OpenFails, EndRun, To, UrlRest
<1>39. ASSUME NEW fails \in BOOLEAN, DownloadSha(fails) PROVE RefusedCleared'
  BY <1>39 DEF DownloadSha, EndRun, To, UrlRest
<1>40. ASSUME NEW fails \in BOOLEAN, CheckImage(fails) PROVE RefusedCleared'
  BY <1>40 DEF CheckImage, EndRun, To, UrlRest
<1>41. ASSUME NEW ram, NEW img \in Images, NEW fails \in BOOLEAN,
              DownloadImage(ram, img, fails)
       PROVE  RefusedCleared'
  BY <1>41 DEF DownloadImage, EndRun, To, UrlRest
<1>42. ASSUME NEW fails \in BOOLEAN, NEW s, WriteImage(fails, s) PROVE RefusedCleared'
  BY <1>42 DEF WriteImage, EndRun, To, UrlRest, HistTypes
<1>43. CASE PushImage
  BY <1>43 DEF PushImage, ScpRest
<1>44. CASE GiveUp
  BY <1>44 DEF GiveUp, ScpRest, HistTypes
<1>45. ASSUME NEW state \in {"part", "done"}, PushBmap(state) PROVE RefusedCleared'
  BY <1>45 DEF PushBmap, ScpRest
<1>46. CASE Repair
  BY <1>46 DEF Repair, Goto, To, memory, FreshRun, HistTypes
<1>47. CASE PowerLoss
  BY <1>47 DEF PowerLoss, To, FreshBoot, HistTypes
<1>48. CASE Restart
  BY <1>48 DEF Restart, To, FreshBoot, durable
<1>49. CASE Calm
  BY <1>49 DEF Calm, durable, memory
<1>50. ASSUME NEW req \in Requests, Request(req) PROVE RefusedCleared'
  BY <1>50 DEF Request, Goto, To, memory, HistTypes
<1>51. CASE UNCHANGED vars
  BY <1>51 DEF vars, durable, memory
<1> HIDE DEF RefusedCleared, RefusedStaysRefused
<1> QED
  BY <1>1, <1>2, <1>3, <1>4, <1>5, <1>6, <1>7, <1>8, <1>9, <1>10, <1>11, <1>12, <1>13,
       <1>14, <1>15, <1>16, <1>17, <1>18, <1>19, <1>20, <1>21, <1>22, <1>23, <1>24,
       <1>25, <1>26, <1>27, <1>28, <1>29, <1>30, <1>31, <1>32, <1>33, <1>34, <1>35,
       <1>36, <1>37, <1>38, <1>39, <1>40, <1>41, <1>42, <1>43, <1>44, <1>45, <1>46,
       <1>47, <1>48, <1>49, <1>50, <1>51 DEF Next, Step, BootNext, FrameNext, EfiNext,
       CloneNext, ScpStep, UrlNext, Operator, SentBmaps, ServedImages

(***************************************************************************)
(* What the verify pass let through passes the copy onto the disk, too:    *)
(* the bytes between the ranges, which have no checksum, are left out.     *)
(***************************************************************************)
LEMMA DecodedPasses ==
  ASSUME plan \in CheckedPlans, NEW u, copy_ok(plan, u)
  PROVE  copy_ok(plan, Decoded(u))
<1>1. None \notin Mapped(plan)
  BY CheckedIsSound DEF Bytes, None
<1> QED
  BY <1>1 DEF copy_ok, Decoded

(***************************************************************************)
(* Only what was verified is written.                                      *)
(***************************************************************************)
LEMMA VerifiedStep ==
  ASSUME DurableTypes, UpTypes, HistTypes, ModeOfStage, MemoryOfRun, PlanChecked,
         CopyVerified, [Next]_vars
  PROVE  CopyVerified'
<1> USE DEF CopyVerified, VerifiedBeforeDisk
<1>1. ASSUME NEW more \in SUBSET {"other", "unknown"}, NEW f \in BOOLEAN,
             StartBoot(more, f)
      PROVE  CopyVerified'
  BY <1>1 DEF StartBoot, To, FreshBoot, NoUp
<1>2. ASSUME NEW avail \in BOOLEAN, NEW err \in SUBSET EnvKeys, Detect(avail, err)
      PROVE  CopyVerified'
  <2>1. stage = "detect" /\ up' = up /\ up = NoUp
    BY <1>2 DEF Detect, MemoryOfRun, LoopStages, EfiStages
  <2> QED
    BY <1>2, <2>1, DetectEnds DEF NoUp
<1>3. ASSUME NEW kept \in FailedDeletes, Refuse(kept) PROVE CopyVerified'
  BY <1>3 DEF Refuse, To
<1>4. ASSUME NEW kept \in FailedDeletes, FactoryResetBoot(kept) PROVE CopyVerified'
  BY <1>4 DEF FactoryResetBoot, Goto, To, memory
<1>5. ASSUME NEW pending \in BOOLEAN, NEW rebootErr \in BOOLEAN,
             FatalError(pending, rebootErr)
      PROVE  CopyVerified'
  BY <1>5, FatalEnds DEF FatalError, To, durable, memory
<1>6. ASSUME NEW kept \in FailedDeletes, ClearTriggers(kept) PROVE CopyVerified'
  BY <1>6 DEF ClearTriggers, Goto, To, memory
<1>7. ASSUME NEW res \in WithMountResults, PersistLog(res) PROVE CopyVerified'
  BY <1>7 DEF PersistLog, To, durable, NoUp
<1>8. ASSUME NEW fails \in BOOLEAN, TerminalAction(fails) PROVE CopyVerified'
  BY <1>8 DEF TerminalAction, To, durable
<1>9. CASE EfiMount
  BY <1>9 DEF EfiMount, Goto, To, durable, memory
<1>10. CASE EfiList
  BY <1>10 DEF EfiList, Goto, To, durable
<1>11. CASE EfiCreate
  BY <1>11 DEF EfiCreate, Goto, To, memory
<1>12. CASE EfiDump
  BY <1>12 DEF EfiDump, Goto, To, durable, memory
<1>13. ASSUME NEW e \in old, EfiDelete(e) PROVE CopyVerified'
  BY <1>13 DEF EfiDelete
<1>14. ASSUME NEW res \in WithMountResults, EfiWrite(res) PROVE CopyVerified'
  BY <1>14 DEF EfiWrite, EndRun, To, durable, with_mount, HistTypes
<1>15. ASSUME NEW from \in EfiStages, EfiFails(from) PROVE CopyVerified'
  BY <1>15 DEF EfiFails, EndRun, To, durable
<1>16. ASSUME NEW noRandom \in BOOLEAN, SelectClone(noRandom) PROVE CopyVerified'
  BY <1>16 DEF SelectClone, EndRun, To, RestUnchanged
<1>17. CASE ResolveDestination
  BY <1>17 DEF ResolveDestination, Goto, To, RestUnchanged
<1>18. CASE ResolveFails
  BY <1>18 DEF ResolveFails, CloneFails, EndRun, To, RestUnchanged
<1>19. CASE ValidateDestination
  BY <1>19 DEF ValidateDestination, EndRun, To, RestUnchanged
<1>20. ASSUME NEW left \in SUBSET {"boot", "rootfs"}, UnmountRootfs(left)
       PROVE  CopyVerified'
  BY <1>20 DEF UnmountRootfs, EndRun, To, RestUnchanged
<1>21. ASSUME NEW d \in Dumps, NEW fails \in BOOLEAN, DumpTable(d, fails)
       PROVE  CopyVerified'
  BY <1>21 DEF DumpTable, EndRun, To
<1>22. ASSUME NEW fails \in BOOLEAN, CloneStep(fails) PROVE CopyVerified'
  BY <1>22 DEF CloneStep, EndRun, To, RestUnchanged
<1>23. CASE CloneWritten
  BY <1>23 DEF CloneWritten, EndRun, To, RestUnchanged
<1>24. CASE SelectScp
  BY <1>24 DEF SelectScp, Goto, To, ScpRest
<1>25. ASSUME NEW left \in SUBSET mounts, UnmountTarget(left) PROVE CopyVerified'
  BY <1>25 DEF UnmountTarget, EndRun, To, ScpRest
<1>26. ASSUME NEW fails \in BOOLEAN, NEW addr, BringUp(fails, addr) PROVE CopyVerified'
  BY <1>26 DEF BringUp, EndRun, To, ScpRest
<1>27. ASSUME NEW fails \in BOOLEAN, CreateFifo(fails) PROVE CopyVerified'
  BY <1>27 DEF CreateFifo, EndRun, To, ScpRest, UpTypes, ModeOfStage, ScpStages,
       LoopStages
<1>28. CASE StartDropbear
  BY <1>28 DEF StartDropbear, Goto, To, ScpRest
<1>29. CASE ScpFails("dropbear", "failed")
  BY <1>29 DEF ScpFails, EndRun, To, ScpRest
<1>30. ASSUME NEW raw \in RawBmaps, NEW fails \in BOOLEAN, ReadBmap(raw, fails)
       PROVE  CopyVerified'
  BY <1>30 DEF ReadBmap, AttemptFails, To, ScpRest, UpTypes, HistTypes
<1>31. ASSUME NEW u, NEW fails \in BOOLEAN, VerifyUpload(u, fails) PROVE CopyVerified'
  <2>1. plan \in CheckedPlans
    BY <1>31 DEF VerifyUpload, PlanChecked
  <2>2. up'.written = up.written /\ stage = "verify"
    BY <1>31 DEF VerifyUpload, UpTypes
  <2>3. CASE ~fails /\ copy_ok(plan, u)
    <3>1. up'.decoded = Decoded(u) /\ stage' = "copy"
      BY <1>31, <2>3 DEF VerifyUpload, UpTypes, To
    <3> QED
      BY <1>31, <2>1, <2>2, <2>3, <3>1, DecodedPasses DEF VerifyUpload, ScpRest
  <2>4. CASE ~(~fails /\ copy_ok(plan, u))
    <3>1. stage' = "cleanup"
      BY <1>31, <2>4 DEF VerifyUpload, To
    <3> QED
      BY <1>31, <2>2, <3>1 DEF VerifyUpload, ScpRest
  <2> QED
    BY <2>3, <2>4
<1>32. ASSUME NEW u, NEW fails \in BOOLEAN, NEW s, CopyToDisk(u, fails, s)
       PROVE  CopyVerified'
  <2>1. stage = "copy" /\ stage' \in {"zero", "cleanup"} /\ mode = "2"
    BY <1>32 DEF CopyToDisk, To, ModeOfStage, ScpStages, LoopStages
  <2>2. hist'.io <=> hist.io \/ fails
    BY <1>32 DEF CopyToDisk, HistTypes
  <2>3. up'.written <=> up.written \/ ~(~fails /\ copy_ok(plan, u))
    BY <1>32 DEF CopyToDisk, UpTypes, PartlyWritten
  <2>4. ~build.direct => copy_ok(plan, u)
    BY <1>32, <2>1 DEF CopyToDisk
  <2> QED
    BY <1>32, <2>1, <2>2, <2>3, <2>4 DEF CopyToDisk, ScpRest
<1>33. ASSUME NEW fails \in BOOLEAN, NEW s, ZeroHead(fails, s) PROVE CopyVerified'
  <2>1. stage' \in {"reread", "cleanup"}
    BY <1>33 DEF ZeroHead, To
  <2>2. hist'.io <=> hist.io \/ fails
    BY <1>33 DEF ZeroHead, HistTypes
  <2>3. up'.written <=> up.written \/ fails
    BY <1>33 DEF ZeroHead, UpTypes, PartlyWritten
  <2> QED
    BY <1>33, <2>1, <2>2, <2>3 DEF ZeroHead, ScpRest
<1>34. ASSUME NEW keeps \in BOOLEAN, RemoveFiles(keeps) PROVE CopyVerified'
  BY <1>34 DEF RemoveFiles, Goto, To, ScpRest, UpTypes, HistTypes
<1>35. ASSUME NEW noReader \in BOOLEAN, NEW keeps \in BOOLEAN,
              RemoveFifo(noReader, keeps)
       PROVE  CopyVerified'
  BY <1>35 DEF RemoveFifo, WriterAfterRemove, Goto, To, ScpRest, UpTypes, HistTypes
<1>36. ASSUME NEW fails \in BOOLEAN, RereadTable(fails) PROVE CopyVerified'
  BY <1>36 DEF RereadTable, EndRun, To, ScpRest
<1>37. CASE SelectUrl
  BY <1>37 DEF SelectUrl, EndRun, To, UrlRest
<1>38. CASE OpenFails
  BY <1>38 DEF OpenFails, EndRun, To, UrlRest
<1>39. ASSUME NEW fails \in BOOLEAN, DownloadSha(fails) PROVE CopyVerified'
  BY <1>39 DEF DownloadSha, EndRun, To, UrlRest
<1>40. ASSUME NEW fails \in BOOLEAN, CheckImage(fails) PROVE CopyVerified'
  BY <1>40 DEF CheckImage, EndRun, To, UrlRest
<1>41. ASSUME NEW ram, NEW img \in Images, NEW fails \in BOOLEAN,
              DownloadImage(ram, img, fails)
       PROVE  CopyVerified'
  BY <1>41 DEF DownloadImage, EndRun, To, UrlRest
<1>42. ASSUME NEW fails \in BOOLEAN, NEW s, WriteImage(fails, s) PROVE CopyVerified'
  <2>1. stage = "write" /\ stage' \in {"reread", "persist"} /\ mode = "3"
    BY <1>42 DEF WriteImage, EndRun, To, ModeOfStage, UrlStages
  <2>2. hist'.io <=> hist.io \/ fails
    BY <1>42 DEF WriteImage, HistTypes
  <2>3. got.size <= DiskLen
    BY <2>1 DEF ImageOk
  <2>4. stage' = "persist" => fails \/ got.len # got.size
    BY <1>42, <2>3 DEF WriteImage, EndRun, To
  <2> QED
    BY <1>42, <2>1, <2>2, <2>4 DEF WriteImage, UrlRest
<1>43. CASE PushImage
  BY <1>43 DEF PushImage, ScpRest, UpTypes, HistTypes
<1>44. CASE GiveUp
  BY <1>44 DEF GiveUp, ScpRest, UpTypes, HistTypes
<1>45. ASSUME NEW state \in {"part", "done"}, PushBmap(state) PROVE CopyVerified'
  BY <1>45 DEF PushBmap, ScpRest, UpTypes, HistTypes
<1>46. CASE Repair
  BY <1>46 DEF Repair, Goto, To, memory, MemoryOfRun, LoopStages, EfiStages, NoUp
<1>47. CASE PowerLoss
  BY <1>47 DEF PowerLoss, To, FreshBoot, NoUp
<1>48. CASE Restart
  BY <1>48 DEF Restart, To, FreshBoot, durable, NoUp
<1>49. CASE Calm
  BY <1>49 DEF Calm, durable, memory
<1>50. ASSUME NEW req \in Requests, Request(req) PROVE CopyVerified'
  BY <1>50 DEF Request, Goto, To, memory, UpTypes, HistTypes
<1>51. CASE UNCHANGED vars
  BY <1>51 DEF vars, durable, memory
<1> HIDE DEF CopyVerified, VerifiedBeforeDisk
<1> QED
  BY <1>1, <1>2, <1>3, <1>4, <1>5, <1>6, <1>7, <1>8, <1>9, <1>10, <1>11, <1>12, <1>13,
       <1>14, <1>15, <1>16, <1>17, <1>18, <1>19, <1>20, <1>21, <1>22, <1>23, <1>24,
       <1>25, <1>26, <1>27, <1>28, <1>29, <1>30, <1>31, <1>32, <1>33, <1>34, <1>35,
       <1>36, <1>37, <1>38, <1>39, <1>40, <1>41, <1>42, <1>43, <1>44, <1>45, <1>46,
       <1>47, <1>48, <1>49, <1>50, <1>51 DEF Next, Step, BootNext, FrameNext, EfiNext,
       CloneNext, ScpStep, UrlNext, Operator, SentBmaps, ServedImages

(***************************************************************************)
(* A client is left hanging only when the init could not open the FIFO.    *)
(***************************************************************************)
LEMMA StrandedStep ==
  ASSUME UpTypes, HistTypes, MemoryOfRun, UploadNotStranded, [Next]_vars
  PROVE  UploadNotStranded'
<1> USE DEF UploadNotStranded
<1>1. ASSUME NEW more \in SUBSET {"other", "unknown"}, NEW f \in BOOLEAN,
             StartBoot(more, f)
      PROVE  UploadNotStranded'
  BY <1>1 DEF StartBoot, To, FreshBoot, NoUp
<1>2. ASSUME NEW avail \in BOOLEAN, NEW err \in SUBSET EnvKeys, Detect(avail, err)
      PROVE  UploadNotStranded'
  <2>1. up' = up /\ up = NoUp
    BY <1>2 DEF Detect, MemoryOfRun, LoopStages, EfiStages
  <2> QED
    BY <2>1 DEF NoUp
<1>3. ASSUME NEW kept \in FailedDeletes, Refuse(kept) PROVE UploadNotStranded'
  BY <1>3 DEF Refuse, To
<1>4. ASSUME NEW kept \in FailedDeletes, FactoryResetBoot(kept) PROVE UploadNotStranded'
  BY <1>4 DEF FactoryResetBoot, Goto, To, memory
<1>5. ASSUME NEW pending \in BOOLEAN, NEW rebootErr \in BOOLEAN,
             FatalError(pending, rebootErr)
      PROVE  UploadNotStranded'
  BY <1>5 DEF FatalError, To, durable, memory
<1>6. ASSUME NEW kept \in FailedDeletes, ClearTriggers(kept) PROVE UploadNotStranded'
  BY <1>6 DEF ClearTriggers, Goto, To, memory
<1>7. ASSUME NEW res \in WithMountResults, PersistLog(res) PROVE UploadNotStranded'
  BY <1>7 DEF PersistLog, To, durable, NoUp
<1>8. ASSUME NEW fails \in BOOLEAN, TerminalAction(fails) PROVE UploadNotStranded'
  BY <1>8 DEF TerminalAction, To, durable
<1>9. CASE EfiMount
  BY <1>9 DEF EfiMount, Goto, To, durable, memory
<1>10. CASE EfiList
  BY <1>10 DEF EfiList, Goto, To, durable
<1>11. CASE EfiCreate
  BY <1>11 DEF EfiCreate, Goto, To, memory
<1>12. CASE EfiDump
  BY <1>12 DEF EfiDump, Goto, To, durable, memory
<1>13. ASSUME NEW e \in old, EfiDelete(e) PROVE UploadNotStranded'
  BY <1>13 DEF EfiDelete
<1>14. ASSUME NEW res \in WithMountResults, EfiWrite(res) PROVE UploadNotStranded'
  BY <1>14 DEF EfiWrite, EndRun, To, durable, with_mount, HistTypes
<1>15. ASSUME NEW from \in EfiStages, EfiFails(from) PROVE UploadNotStranded'
  BY <1>15 DEF EfiFails, EndRun, To, durable
<1>16. ASSUME NEW noRandom \in BOOLEAN, SelectClone(noRandom) PROVE UploadNotStranded'
  BY <1>16 DEF SelectClone, EndRun, To, RestUnchanged
<1>17. CASE ResolveDestination
  BY <1>17 DEF ResolveDestination, Goto, To, RestUnchanged
<1>18. CASE ResolveFails
  BY <1>18 DEF ResolveFails, CloneFails, EndRun, To, RestUnchanged
<1>19. CASE ValidateDestination
  BY <1>19 DEF ValidateDestination, EndRun, To, RestUnchanged
<1>20. ASSUME NEW left \in SUBSET {"boot", "rootfs"}, UnmountRootfs(left)
       PROVE  UploadNotStranded'
  BY <1>20 DEF UnmountRootfs, EndRun, To, RestUnchanged
<1>21. ASSUME NEW d \in Dumps, NEW fails \in BOOLEAN, DumpTable(d, fails)
       PROVE  UploadNotStranded'
  BY <1>21 DEF DumpTable, EndRun, To
<1>22. ASSUME NEW fails \in BOOLEAN, CloneStep(fails) PROVE UploadNotStranded'
  BY <1>22 DEF CloneStep, EndRun, To, RestUnchanged
<1>23. CASE CloneWritten
  BY <1>23 DEF CloneWritten, EndRun, To, RestUnchanged
<1>24. CASE SelectScp
  BY <1>24 DEF SelectScp, Goto, To, ScpRest
<1>25. ASSUME NEW left \in SUBSET mounts, UnmountTarget(left) PROVE UploadNotStranded'
  BY <1>25 DEF UnmountTarget, EndRun, To, ScpRest
<1>26. ASSUME NEW fails \in BOOLEAN, NEW addr, BringUp(fails, addr)
       PROVE  UploadNotStranded'
  BY <1>26 DEF BringUp, EndRun, To, ScpRest
<1>27. ASSUME NEW fails \in BOOLEAN, CreateFifo(fails) PROVE UploadNotStranded'
  BY <1>27 DEF CreateFifo, EndRun, To, ScpRest, UpTypes, HistTypes
<1>28. CASE StartDropbear
  BY <1>28 DEF StartDropbear, Goto, To, ScpRest
<1>29. CASE ScpFails("dropbear", "failed")
  BY <1>29 DEF ScpFails, EndRun, To, ScpRest
<1>30. ASSUME NEW raw \in RawBmaps, NEW fails \in BOOLEAN, ReadBmap(raw, fails)
       PROVE  UploadNotStranded'
  BY <1>30 DEF ReadBmap, AttemptFails, To, ScpRest, UpTypes, HistTypes
<1>31. ASSUME NEW u, NEW fails \in BOOLEAN, VerifyUpload(u, fails)
       PROVE  UploadNotStranded'
  BY <1>31 DEF VerifyUpload, To, ScpRest, UpTypes, HistTypes
<1>32. ASSUME NEW u, NEW fails \in BOOLEAN, NEW s, CopyToDisk(u, fails, s)
       PROVE  UploadNotStranded'
  BY <1>32 DEF CopyToDisk, PartlyWritten, To, ScpRest, UpTypes, HistTypes
<1>33. ASSUME NEW fails \in BOOLEAN, NEW s, ZeroHead(fails, s) PROVE UploadNotStranded'
  BY <1>33 DEF ZeroHead, PartlyWritten, To, ScpRest, UpTypes, HistTypes
<1>34. ASSUME NEW keeps \in BOOLEAN, RemoveFiles(keeps) PROVE UploadNotStranded'
  BY <1>34 DEF RemoveFiles, Goto, To, ScpRest, UpTypes, HistTypes
<1>35. ASSUME NEW noReader \in BOOLEAN, NEW keeps \in BOOLEAN,
              RemoveFifo(noReader, keeps)
       PROVE  UploadNotStranded'
  <2>1. up'.writer = WriterAfterRemove(noReader, keeps)
    BY <1>35 DEF RemoveFifo, UpTypes
  <2>2. CASE up'.writer = up.writer
    BY <1>35, <2>2 DEF RemoveFifo, HistTypes
  <2>3. CASE up'.writer # up.writer
    <3>1. up'.writer = "stranded" => noReader
      BY <2>1, <2>3 DEF WriterAfterRemove
    <3>2. hist'.reader <=> (up'.writer = "stranded" => ~noReader)
      BY <1>35, <2>3 DEF RemoveFifo, HistTypes
    <3> QED
      BY <3>1, <3>2
  <2> QED
    BY <2>2, <2>3
<1>36. ASSUME NEW fails \in BOOLEAN, RereadTable(fails) PROVE UploadNotStranded'
  BY <1>36 DEF RereadTable, EndRun, To, ScpRest
<1>37. CASE SelectUrl
  BY <1>37 DEF SelectUrl, EndRun, To, UrlRest
<1>38. CASE OpenFails
  BY <1>38 DEF OpenFails, EndRun, To, UrlRest
<1>39. ASSUME NEW fails \in BOOLEAN, DownloadSha(fails) PROVE UploadNotStranded'
  BY <1>39 DEF DownloadSha, EndRun, To, UrlRest
<1>40. ASSUME NEW fails \in BOOLEAN, CheckImage(fails) PROVE UploadNotStranded'
  BY <1>40 DEF CheckImage, EndRun, To, UrlRest
<1>41. ASSUME NEW ram, NEW img \in Images, NEW fails \in BOOLEAN,
              DownloadImage(ram, img, fails)
       PROVE  UploadNotStranded'
  BY <1>41 DEF DownloadImage, EndRun, To, UrlRest
<1>42. ASSUME NEW fails \in BOOLEAN, NEW s, WriteImage(fails, s)
       PROVE  UploadNotStranded'
  BY <1>42 DEF WriteImage, EndRun, To, UrlRest, UpTypes, HistTypes
<1>43. CASE PushImage
  BY <1>43 DEF PushImage, ScpRest, UpTypes, HistTypes
<1>44. CASE GiveUp
  BY <1>44 DEF GiveUp, ScpRest, UpTypes, HistTypes
<1>45. ASSUME NEW state \in {"part", "done"}, PushBmap(state) PROVE UploadNotStranded'
  BY <1>45 DEF PushBmap, ScpRest, UpTypes, HistTypes
<1>46. CASE Repair
  BY <1>46 DEF Repair, Goto, To, memory, MemoryOfRun, LoopStages, EfiStages, NoUp
<1>47. CASE PowerLoss
  BY <1>47 DEF PowerLoss, To, FreshBoot, NoUp
<1>48. CASE Restart
  BY <1>48 DEF Restart, To, FreshBoot, durable, NoUp
<1>49. CASE Calm
  BY <1>49 DEF Calm, durable, memory
<1>50. ASSUME NEW req \in Requests, Request(req) PROVE UploadNotStranded'
  BY <1>50 DEF Request, Goto, To, memory, UpTypes, HistTypes
<1>51. CASE UNCHANGED vars
  BY <1>51 DEF vars, durable, memory
<1> HIDE DEF UploadNotStranded
<1> QED
  BY <1>1, <1>2, <1>3, <1>4, <1>5, <1>6, <1>7, <1>8, <1>9, <1>10, <1>11, <1>12, <1>13,
       <1>14, <1>15, <1>16, <1>17, <1>18, <1>19, <1>20, <1>21, <1>22, <1>23, <1>24,
       <1>25, <1>26, <1>27, <1>28, <1>29, <1>30, <1>31, <1>32, <1>33, <1>34, <1>35,
       <1>36, <1>37, <1>38, <1>39, <1>40, <1>41, <1>42, <1>43, <1>44, <1>45, <1>46,
       <1>47, <1>48, <1>49, <1>50, <1>51 DEF Next, Step, BootNext, FrameNext, EfiNext,
       CloneNext, ScpStep, UrlNext, Operator, SentBmaps, ServedImages

(***************************************************************************)
(* A destination that is the running disk, or a part of it, is refused     *)
(* before anything is written.                                             *)
(***************************************************************************)
LEMMA DestinationStep ==
  ASSUME DestinationChecked, [Next]_vars
  PROVE  DestinationChecked'
<1> USE DEF DestinationChecked
<1>1. ASSUME NEW more \in SUBSET {"other", "unknown"}, NEW f \in BOOLEAN,
             StartBoot(more, f)
      PROVE  DestinationChecked'
  BY <1>1 DEF StartBoot, To, FreshBoot
<1>2. ASSUME NEW avail \in BOOLEAN, NEW err \in SUBSET EnvKeys, Detect(avail, err)
      PROVE  DestinationChecked'
  <2>1. stage' \notin {"release", "dump", "clone"}
    BY <1>2 DEF Detect, To
  <2> QED
    BY <2>1
<1>3. ASSUME NEW kept \in FailedDeletes, Refuse(kept) PROVE DestinationChecked'
  BY <1>3 DEF Refuse, To
<1>4. ASSUME NEW kept \in FailedDeletes, FactoryResetBoot(kept)
      PROVE  DestinationChecked'
  BY <1>4 DEF FactoryResetBoot, Goto, To, memory
<1>5. ASSUME NEW pending \in BOOLEAN, NEW rebootErr \in BOOLEAN,
             FatalError(pending, rebootErr)
      PROVE  DestinationChecked'
  BY <1>5, FatalEnds DEF FatalError, To, durable, memory
<1>6. ASSUME NEW kept \in FailedDeletes, ClearTriggers(kept) PROVE DestinationChecked'
  BY <1>6 DEF ClearTriggers, Goto, To, memory
<1>7. ASSUME NEW res \in WithMountResults, PersistLog(res) PROVE DestinationChecked'
  BY <1>7 DEF PersistLog, To, durable
<1>8. ASSUME NEW fails \in BOOLEAN, TerminalAction(fails) PROVE DestinationChecked'
  BY <1>8 DEF TerminalAction, To, durable
<1>9. CASE EfiMount
  BY <1>9 DEF EfiMount, Goto, To, durable, memory
<1>10. CASE EfiList
  BY <1>10 DEF EfiList, Goto, To, durable
<1>11. CASE EfiCreate
  BY <1>11 DEF EfiCreate, Goto, To, memory
<1>12. CASE EfiDump
  BY <1>12 DEF EfiDump, Goto, To, durable, memory
<1>13. ASSUME NEW e \in old, EfiDelete(e) PROVE DestinationChecked'
  BY <1>13 DEF EfiDelete
<1>14. ASSUME NEW res \in WithMountResults, EfiWrite(res) PROVE DestinationChecked'
  BY <1>14 DEF EfiWrite, EndRun, To, durable
<1>15. ASSUME NEW from \in EfiStages, EfiFails(from) PROVE DestinationChecked'
  BY <1>15 DEF EfiFails, EndRun, To, durable
<1>16. ASSUME NEW noRandom \in BOOLEAN, SelectClone(noRandom) PROVE DestinationChecked'
  BY <1>16 DEF SelectClone, EndRun, To, RestUnchanged
<1>17. CASE ResolveDestination
  BY <1>17 DEF ResolveDestination, Goto, To, RestUnchanged
<1>18. CASE ResolveFails
  BY <1>18 DEF ResolveFails, CloneFails, EndRun, To, RestUnchanged
<1>19. CASE ValidateDestination
  BY <1>19 DEF ValidateDestination, EndRun, To, RestUnchanged, refusal
<1>20. ASSUME NEW left \in SUBSET {"boot", "rootfs"}, UnmountRootfs(left)
       PROVE  DestinationChecked'
  BY <1>20 DEF UnmountRootfs, EndRun, To, RestUnchanged
<1>21. ASSUME NEW d \in Dumps, NEW fails \in BOOLEAN, DumpTable(d, fails)
       PROVE  DestinationChecked'
  BY <1>21 DEF DumpTable, EndRun, To
<1>22. ASSUME NEW fails \in BOOLEAN, CloneStep(fails) PROVE DestinationChecked'
  BY <1>22 DEF CloneStep, EndRun, To, RestUnchanged
<1>23. CASE CloneWritten
  BY <1>23 DEF CloneWritten, EndRun, To, RestUnchanged
<1>24. CASE SelectScp
  BY <1>24 DEF SelectScp, Goto, To, ScpRest
<1>25. ASSUME NEW left \in SUBSET mounts, UnmountTarget(left) PROVE DestinationChecked'
  BY <1>25 DEF UnmountTarget, EndRun, To, ScpRest
<1>26. ASSUME NEW fails \in BOOLEAN, NEW addr, BringUp(fails, addr)
       PROVE  DestinationChecked'
  BY <1>26 DEF BringUp, EndRun, To, ScpRest
<1>27. ASSUME NEW fails \in BOOLEAN, CreateFifo(fails) PROVE DestinationChecked'
  BY <1>27 DEF CreateFifo, EndRun, To, ScpRest
<1>28. CASE StartDropbear
  BY <1>28 DEF StartDropbear, Goto, To, ScpRest
<1>29. CASE ScpFails("dropbear", "failed")
  BY <1>29 DEF ScpFails, EndRun, To, ScpRest
<1>30. ASSUME NEW raw \in RawBmaps, NEW fails \in BOOLEAN, ReadBmap(raw, fails)
       PROVE  DestinationChecked'
  BY <1>30 DEF ReadBmap, AttemptFails, To, ScpRest
<1>31. ASSUME NEW u, NEW fails \in BOOLEAN, VerifyUpload(u, fails)
       PROVE  DestinationChecked'
  BY <1>31 DEF VerifyUpload, To, ScpRest
<1>32. ASSUME NEW u, NEW fails \in BOOLEAN, NEW s, CopyToDisk(u, fails, s)
       PROVE  DestinationChecked'
  BY <1>32 DEF CopyToDisk, PartlyWritten, To, ScpRest
<1>33. ASSUME NEW fails \in BOOLEAN, NEW s, ZeroHead(fails, s) PROVE DestinationChecked'
  BY <1>33 DEF ZeroHead, PartlyWritten, To, ScpRest
<1>34. ASSUME NEW keeps \in BOOLEAN, RemoveFiles(keeps) PROVE DestinationChecked'
  BY <1>34 DEF RemoveFiles, Goto, To, ScpRest
<1>35. ASSUME NEW noReader \in BOOLEAN, NEW keeps \in BOOLEAN,
              RemoveFifo(noReader, keeps)
       PROVE  DestinationChecked'
  BY <1>35 DEF RemoveFifo, WriterAfterRemove, Goto, To, ScpRest
<1>36. ASSUME NEW fails \in BOOLEAN, RereadTable(fails) PROVE DestinationChecked'
  BY <1>36 DEF RereadTable, EndRun, To, ScpRest
<1>37. CASE SelectUrl
  BY <1>37 DEF SelectUrl, EndRun, To, UrlRest
<1>38. CASE OpenFails
  BY <1>38 DEF OpenFails, EndRun, To, UrlRest
<1>39. ASSUME NEW fails \in BOOLEAN, DownloadSha(fails) PROVE DestinationChecked'
  BY <1>39 DEF DownloadSha, EndRun, To, UrlRest
<1>40. ASSUME NEW fails \in BOOLEAN, CheckImage(fails) PROVE DestinationChecked'
  BY <1>40 DEF CheckImage, EndRun, To, UrlRest
<1>41. ASSUME NEW ram, NEW img \in Images, NEW fails \in BOOLEAN,
              DownloadImage(ram, img, fails)
       PROVE  DestinationChecked'
  BY <1>41 DEF DownloadImage, EndRun, To, UrlRest
<1>42. ASSUME NEW fails \in BOOLEAN, NEW s, WriteImage(fails, s)
       PROVE  DestinationChecked'
  BY <1>42 DEF WriteImage, EndRun, To, UrlRest
<1>43. CASE PushImage
  BY <1>43 DEF PushImage, ScpRest
<1>44. CASE GiveUp
  BY <1>44 DEF GiveUp, ScpRest
<1>45. ASSUME NEW state \in {"part", "done"}, PushBmap(state) PROVE DestinationChecked'
  BY <1>45 DEF PushBmap, ScpRest
<1>46. CASE Repair
  BY <1>46 DEF Repair, Goto, To, memory
<1>47. CASE PowerLoss
  BY <1>47 DEF PowerLoss, To, FreshBoot
<1>48. CASE Restart
  BY <1>48 DEF Restart, To, FreshBoot, durable
<1>49. CASE Calm
  BY <1>49 DEF Calm, durable, memory
<1>50. ASSUME NEW req \in Requests, Request(req) PROVE DestinationChecked'
  BY <1>50 DEF Request, Goto, To, memory
<1>51. CASE UNCHANGED vars
  BY <1>51 DEF vars, durable, memory
<1> HIDE DEF DestinationChecked
<1> QED
  BY <1>1, <1>2, <1>3, <1>4, <1>5, <1>6, <1>7, <1>8, <1>9, <1>10, <1>11, <1>12, <1>13,
       <1>14, <1>15, <1>16, <1>17, <1>18, <1>19, <1>20, <1>21, <1>22, <1>23, <1>24,
       <1>25, <1>26, <1>27, <1>28, <1>29, <1>30, <1>31, <1>32, <1>33, <1>34, <1>35,
       <1>36, <1>37, <1>38, <1>39, <1>40, <1>41, <1>42, <1>43, <1>44, <1>45, <1>46,
       <1>47, <1>48, <1>49, <1>50, <1>51 DEF Next, Step, BootNext, FrameNext, EfiNext,
       CloneNext, ScpStep, UrlNext, Operator, SentBmaps, ServedImages

-----------------------------------------------------------------------------
(***************************************************************************)
(* The two disks.                                                          *)
(***************************************************************************)

(***************************************************************************)
(* A step that leaves the disk and what is wanted of it alone leaves it    *)
(* intact, written or complete as it was.                                  *)
(***************************************************************************)
LEMMA DiskKept ==
  ASSUME disk' = disk, hist'.want = hist.want, hist'.clean = hist.clean
  PROVE  (Intact' <=> Intact) /\ (Written' <=> Written) /\ (Complete' <=> Complete)
BY DEF Intact, Written, Complete

(***************************************************************************)
(* A destination that was checked is not the running disk: the clone       *)
(* writes the second one.                                                  *)
(***************************************************************************)
LEMMA CloneKeepsDisk ==
  ASSUME DestinationChecked, NEW fails, CloneStep(fails)
  PROVE  disk' = disk
BY DEF CloneStep, CloneWrite, DestinationChecked

(***************************************************************************)
(* The detection of the mode touches nothing.                              *)
(***************************************************************************)
LEMMA DetectKeeps ==
  ASSUME HistTypes, NEW avail, NEW err, Detect(avail, err)
  PROVE  /\ disk' = disk /\ table' = table /\ clone' = clone /\ up' = up /\ nvram' = nvram
         /\ hist'.want = hist.want /\ hist'.clean = hist.clean /\ hist'.unsafe = hist.unsafe
BY DEF Detect, durable, HistTypes

(***************************************************************************)
(* The content of the running disk, stage by stage: it is written in a     *)
(* copy only, a copy that succeeds leaves the image, the zeroing the head  *)
(* without a byte of the old one, and an error that may have left neither  *)
(* keeps the log away.                                                     *)
(***************************************************************************)
LEMMA DiskStep ==
  ASSUME UpTypes, HistTypes, DurableTypes, ModeOfStage, PlanChecked, CopyVerified,
         DestinationChecked, DiskOfStage, [Next]_vars
  PROVE  DiskOfStage'
<1> USE DEF DiskOfStage, MountsSafe
<1>1. ASSUME NEW more \in SUBSET {"other", "unknown"}, NEW f \in BOOLEAN,
             StartBoot(more, f)
      PROVE  DiskOfStage'
  <2>1. CASE Intact \/ Written
    <3>1. stage' = "detect" /\ disk' = [b \in Bytes |-> "old"] /\ table' = TRUE
      BY <1>1, <2>1 DEF StartBoot, To, FreshBoot
    <3>2. hist'.want = {} /\ hist'.clean = {} /\ hist'.unsafe = hist.unsafe
      BY <1>1, <2>1 DEF StartBoot, FreshRun, HistTypes
    <3>3. Intact'
      BY <3>1 DEF Intact
    <3> QED
      BY <3>1, <3>2, <3>3 DEF Untouched, BeforeRun, LoopStages, EfiStages
  <2>2. CASE ~(Intact \/ Written)
    <3>1. stage' = "dead" /\ hist' = hist
      BY <1>1, <2>2 DEF StartBoot, To
    <3> QED
      BY <3>1 DEF Untouched, BeforeRun, CloneStages, UrlStages, LoopStages, EfiStages
  <2> QED
    BY <2>1, <2>2
<1>2. ASSUME NEW avail \in BOOLEAN, NEW err \in SUBSET EnvKeys, Detect(avail, err)
      PROVE  DiskOfStage'
  <2>1. stage = "detect" /\ stage' \in {"failed", "running", "reset", "refuse", "clear"}
    BY <1>2, DetectEnds DEF Detect
  <2> QED
    BY <1>2, <2>1, DetectKeeps, DiskKept
      DEF Untouched, BeforeRun, LoopStages, EfiStages, CloneStages, UrlStages
<1>3. ASSUME NEW kept \in FailedDeletes, Refuse(kept) PROVE DiskOfStage'
  <2>1. stage' = "failed" /\ hist'.unsafe = hist.unsafe
    BY <1>3 DEF Refuse, To, HistTypes
  <2> QED
    BY <2>1 DEF Untouched, BeforeRun, LoopStages, EfiStages, CloneStages, UrlStages
<1>4. ASSUME NEW kept \in FailedDeletes, FactoryResetBoot(kept) PROVE DiskOfStage'
  BY <1>4, DiskKept DEF FactoryResetBoot, Goto, To, memory, Untouched, BeforeRun,
       CloneStages, UrlStages, LoopStages, EfiStages, FlashModes
<1>5. ASSUME NEW pending \in BOOLEAN, NEW rebootErr \in BOOLEAN,
             FatalError(pending, rebootErr)
      PROVE  DiskOfStage'
  BY <1>5, DiskKept, FatalEnds DEF FatalError, To, durable, memory, Untouched,
       BeforeRun, CloneStages, UrlStages, LoopStages, EfiStages, FlashModes
<1>6. ASSUME NEW kept \in FailedDeletes, ClearTriggers(kept) PROVE DiskOfStage'
  BY <1>6, DiskKept DEF ClearTriggers, Goto, To, memory, Untouched, BeforeRun,
       CloneStages, UrlStages, LoopStages, EfiStages, FlashModes
<1>7. ASSUME NEW res \in WithMountResults, PersistLog(res) PROVE DiskOfStage'
  <2>1. stage' \in {"terminal", "failed"}
    BY <1>7 DEF PersistLog, To
  <2>2. CASE keeps_log(result)
    <3>1. table /\ (Intact \/ Written)
      BY <1>7, <2>2 DEF PersistLog, Complete
    <3>2. ~hist'.unsafe
      BY <1>7, <2>2, <3>1 DEF PersistLog, with_mount, HistTypes
    <3> QED
      BY <2>1, <3>2 DEF Untouched, BeforeRun, LoopStages, EfiStages, CloneStages, UrlStages
  <2>3. CASE ~keeps_log(result)
    <3>1. hist' = hist
      BY <1>7, <2>3 DEF PersistLog
    <3> QED
      BY <2>1, <3>1 DEF Untouched, BeforeRun, LoopStages, EfiStages, CloneStages, UrlStages
  <2> QED
    BY <2>2, <2>3
<1>8. ASSUME NEW fails \in BOOLEAN, TerminalAction(fails) PROVE DiskOfStage'
  BY <1>8, DiskKept DEF TerminalAction, To, durable, Untouched, BeforeRun, CloneStages,
       UrlStages, LoopStages, EfiStages, FlashModes
<1>9. CASE EfiMount
  BY <1>9, DiskKept DEF EfiMount, Goto, To, durable, memory, Untouched, BeforeRun,
       CloneStages, UrlStages, LoopStages, EfiStages, FlashModes
<1>10. CASE EfiList
  BY <1>10, DiskKept DEF EfiList, Goto, To, durable, Untouched, BeforeRun, CloneStages,
       UrlStages, LoopStages, EfiStages, FlashModes
<1>11. CASE EfiCreate
  BY <1>11, DiskKept DEF EfiCreate, Goto, To, memory, Untouched, BeforeRun, CloneStages,
       UrlStages, LoopStages, EfiStages, FlashModes
<1>12. CASE EfiDump
  BY <1>12, DiskKept DEF EfiDump, Goto, To, durable, memory, Untouched, BeforeRun,
       CloneStages, UrlStages, LoopStages, EfiStages, FlashModes
<1>13. ASSUME NEW e \in old, EfiDelete(e) PROVE DiskOfStage'
  BY <1>13, DiskKept DEF EfiDelete, Untouched, BeforeRun, CloneStages, UrlStages,
       LoopStages, EfiStages, FlashModes
<1>14. ASSUME NEW res \in WithMountResults, EfiWrite(res) PROVE DiskOfStage'
  <2>1. /\ stage = "efiWrite" /\ stage' = "persist" /\ disk' = disk /\ table' = table
        /\ mode' = mode
    BY <1>14 DEF EfiWrite, EndRun, To, durable
  <2>2. table /\ IF mode = "1" THEN Intact ELSE Complete
    BY <2>1 DEF EfiStages
  <2>3. Target = "own" => Written
    BY <2>2 DEF Target, Complete
  <2>4. ~hist'.unsafe /\ hist'.want = hist.want /\ hist'.clean = hist.clean
    BY <1>14, <2>2, <2>3 DEF EfiWrite, with_mount, HistTypes
  <2> QED
    BY <2>1, <2>2, <2>4, DiskKept
      DEF Untouched, BeforeRun, LoopStages, EfiStages, CloneStages, UrlStages
<1>15. ASSUME NEW from \in EfiStages, EfiFails(from) PROVE DiskOfStage'
  BY <1>15, DiskKept DEF EfiFails, EndRun, To, durable, keeps_log, Untouched, BeforeRun,
       CloneStages, UrlStages, LoopStages, EfiStages, FlashModes
<1>16. ASSUME NEW noRandom \in BOOLEAN, SelectClone(noRandom) PROVE DiskOfStage'
  BY <1>16, DiskKept DEF SelectClone, EndRun, To, RestUnchanged, keeps_log, Untouched,
       BeforeRun, CloneStages, UrlStages, LoopStages, EfiStages, FlashModes
<1>17. CASE ResolveDestination
  BY <1>17, DiskKept DEF ResolveDestination, Goto, To, RestUnchanged, Untouched,
       BeforeRun, CloneStages, UrlStages, LoopStages, EfiStages, FlashModes
<1>18. CASE ResolveFails
  BY <1>18, DiskKept DEF ResolveFails, CloneFails, EndRun, To, RestUnchanged, keeps_log,
       Untouched, BeforeRun, CloneStages, UrlStages, LoopStages, EfiStages, FlashModes
<1>19. CASE ValidateDestination
  BY <1>19, DiskKept DEF ValidateDestination, EndRun, To, RestUnchanged, keeps_log,
       Untouched, BeforeRun, CloneStages, UrlStages, LoopStages, EfiStages, FlashModes
<1>20. ASSUME NEW left \in SUBSET {"boot", "rootfs"}, UnmountRootfs(left)
       PROVE  DiskOfStage'
  BY <1>20, DiskKept DEF UnmountRootfs, EndRun, To, RestUnchanged, keeps_log, Untouched,
       BeforeRun, CloneStages, UrlStages, LoopStages, EfiStages, FlashModes
<1>21. ASSUME NEW d \in Dumps, NEW fails \in BOOLEAN, DumpTable(d, fails)
       PROVE  DiskOfStage'
  BY <1>21, DiskKept DEF DumpTable, EndRun, To, keeps_log, Untouched, BeforeRun,
       CloneStages, UrlStages, LoopStages, EfiStages, FlashModes
<1>22. ASSUME NEW fails \in BOOLEAN, CloneStep(fails) PROVE DiskOfStage'
  <2>1. stage = "clone" /\ disk' = disk /\ table' = table /\ hist' = hist
    BY <1>22, CloneKeepsDisk DEF CloneStep, RestUnchanged
  <2>2. stage' = "clone" \/ (stage' = "persist" /\ result' = "failed")
    BY <1>22, <2>1 DEF CloneStep, EndRun, To
  <2> QED
    BY <2>1, <2>2, DiskKept
      DEF Untouched, BeforeRun, LoopStages, EfiStages, CloneStages, UrlStages
<1>23. CASE CloneWritten
  BY <1>23, DiskKept DEF CloneWritten, EndRun, To, RestUnchanged, keeps_log,
       ModeOfStage, Untouched, BeforeRun, CloneStages, UrlStages, LoopStages, EfiStages,
       FlashModes
<1>24. CASE SelectScp
  BY <1>24, DiskKept DEF SelectScp, Goto, To, ScpRest, Untouched, BeforeRun,
       CloneStages, UrlStages, LoopStages, EfiStages, FlashModes
<1>25. ASSUME NEW left \in SUBSET mounts, UnmountTarget(left) PROVE DiskOfStage'
  BY <1>25, DiskKept DEF UnmountTarget, EndRun, To, ScpRest, keeps_log, Untouched,
       BeforeRun, CloneStages, UrlStages, LoopStages, EfiStages, FlashModes
<1>26. ASSUME NEW fails \in BOOLEAN, NEW addr, BringUp(fails, addr) PROVE DiskOfStage'
  BY <1>26, DiskKept DEF BringUp, EndRun, To, ScpRest, keeps_log, Untouched, BeforeRun,
       CloneStages, UrlStages, LoopStages, EfiStages, FlashModes
<1>27. ASSUME NEW fails \in BOOLEAN, CreateFifo(fails) PROVE DiskOfStage'
  BY <1>27, DiskKept DEF CreateFifo, EndRun, To, ScpRest, keeps_log, RecreateError,
       UpTypes, Untouched, BeforeRun, CloneStages, UrlStages, LoopStages, EfiStages,
       FlashModes
<1>28. CASE StartDropbear
  BY <1>28, DiskKept DEF StartDropbear, Goto, To, ScpRest, Untouched, BeforeRun,
       CloneStages, UrlStages, LoopStages, EfiStages, FlashModes
<1>29. CASE ScpFails("dropbear", "failed")
  BY <1>29, DiskKept DEF ScpFails, EndRun, To, ScpRest, keeps_log, Untouched, BeforeRun,
       CloneStages, UrlStages, LoopStages, EfiStages, FlashModes
<1>30. ASSUME NEW raw \in RawBmaps, NEW fails \in BOOLEAN, ReadBmap(raw, fails)
       PROVE  DiskOfStage'
  BY <1>30, DiskKept DEF ReadBmap, AttemptFails, To, ScpRest, UpTypes, Untouched,
       BeforeRun, CloneStages, UrlStages, LoopStages, EfiStages, FlashModes
<1>31. ASSUME NEW u, NEW fails \in BOOLEAN, VerifyUpload(u, fails) PROVE DiskOfStage'
  BY <1>31, DiskKept DEF VerifyUpload, To, ScpRest, UpTypes, Untouched, BeforeRun,
       CloneStages, UrlStages, LoopStages, EfiStages, FlashModes
<1>32. ASSUME NEW u, NEW fails \in BOOLEAN, NEW s, CopyToDisk(u, fails, s)
       PROVE  DiskOfStage'
  <2>1. stage = "copy" /\ plan \in CheckedPlans /\ plan' = plan
    BY <1>32 DEF CopyToDisk, PlanChecked
  <2>2. /\ hist'.want = Mapped(plan) /\ hist'.clean = HeadBytes \ Mapped(plan)
        /\ hist'.unsafe = hist.unsafe
    BY <1>32 DEF CopyToDisk, HistTypes
  <2>3. CASE ~fails /\ copy_ok(plan, u)
    <3>1. stage' = "zero" /\ s = Mapped(plan) /\ disk' = Copied(u, s)
      BY <1>32, <2>3 DEF CopyToDisk, To
    <3>2. \A b \in Mapped(plan) : disk'[b] = "new"
      BY <2>1, <2>3, <3>1, CheckedIsSound DEF Copied, copy_ok
    <3>3. Written'
      BY <2>1, <2>2, <3>2, CheckedIsSound DEF Written
    <3> QED
      BY <2>1, <2>2, <3>1, <3>3
        DEF Untouched, BeforeRun, LoopStages, EfiStages, CloneStages, UrlStages
  <2>4. CASE ~(~fails /\ copy_ok(plan, u))
    <3>1. stage' = "cleanup" /\ up'.written
      BY <1>32, <2>4 DEF CopyToDisk, To, UpTypes, PartlyWritten
    <3> QED
      BY <2>2, <3>1 DEF Untouched, BeforeRun, LoopStages, EfiStages, CloneStages, UrlStages
  <2> QED
    BY <2>3, <2>4
<1>33. ASSUME NEW fails \in BOOLEAN, NEW s, ZeroHead(fails, s) PROVE DiskOfStage'
  <2>1. stage = "zero" /\ plan \in CheckedPlans
    BY <1>33 DEF ZeroHead, PlanChecked
  <2>2. hist'.want = hist.want /\ hist'.clean = hist.clean /\ hist'.unsafe = hist.unsafe
    BY <1>33 DEF ZeroHead, HistTypes
  <2>3. CASE ~fails
    <3>1. /\ stage' = "reread"
          /\ disk' = [b \in Bytes |-> IF b \in HeadBytes \ Mapped(plan) THEN "zero" ELSE disk[b]]
      BY <1>33, <2>1, <2>3, CheckedIsSound DEF ZeroHead, To
    <3>2. Mapped(plan) \subseteq Bytes /\ HeadBytes \subseteq Bytes
      BY <2>1, CheckedIsSound, DiskAssumption DEF HeadBytes, Bytes
    <3>3. Complete'
      BY <2>1, <2>2, <3>1, <3>2 DEF Complete, Written
    <3> QED
      BY <2>2, <3>1, <3>3
        DEF Untouched, BeforeRun, LoopStages, EfiStages, CloneStages, UrlStages
  <2>4. CASE fails
    <3>1. stage' = "cleanup" /\ up'.written
      BY <1>33, <2>4 DEF ZeroHead, To, UpTypes, PartlyWritten
    <3> QED
      BY <2>2, <3>1 DEF Untouched, BeforeRun, LoopStages, EfiStages, CloneStages, UrlStages
  <2> QED
    BY <2>3, <2>4
<1>34. ASSUME NEW keeps \in BOOLEAN, RemoveFiles(keeps) PROVE DiskOfStage'
  BY <1>34, DiskKept DEF RemoveFiles, Goto, To, ScpRest, UpTypes, Untouched, BeforeRun,
       CloneStages, UrlStages, LoopStages, EfiStages, FlashModes
<1>35. ASSUME NEW noReader \in BOOLEAN, NEW keeps \in BOOLEAN,
              RemoveFifo(noReader, keeps)
       PROVE  DiskOfStage'
  BY <1>35, DiskKept DEF RemoveFifo, WriterAfterRemove, Goto, To, ScpRest, UpTypes,
       HistTypes, Untouched, BeforeRun, CloneStages, UrlStages, LoopStages, EfiStages,
       FlashModes
<1>36. ASSUME NEW fails \in BOOLEAN, RereadTable(fails) PROVE DiskOfStage'
  BY <1>36, DiskKept DEF RereadTable, EndRun, To, ScpRest, keeps_log, ModeOfStage,
       Untouched, BeforeRun, CloneStages, UrlStages, LoopStages, EfiStages, FlashModes
<1>37. CASE SelectUrl
  BY <1>37, DiskKept DEF SelectUrl, EndRun, To, UrlRest, keeps_log, Untouched,
       BeforeRun, CloneStages, UrlStages, LoopStages, EfiStages, FlashModes
<1>38. CASE OpenFails
  BY <1>38, DiskKept DEF OpenFails, EndRun, To, UrlRest, keeps_log, Untouched,
       BeforeRun, CloneStages, UrlStages, LoopStages, EfiStages, FlashModes
<1>39. ASSUME NEW fails \in BOOLEAN, DownloadSha(fails) PROVE DiskOfStage'
  BY <1>39, DiskKept DEF DownloadSha, EndRun, To, UrlRest, keeps_log, Untouched,
       BeforeRun, CloneStages, UrlStages, LoopStages, EfiStages, FlashModes
<1>40. ASSUME NEW fails \in BOOLEAN, CheckImage(fails) PROVE DiskOfStage'
  BY <1>40, DiskKept DEF CheckImage, EndRun, To, UrlRest, keeps_log, Untouched,
       BeforeRun, CloneStages, UrlStages, LoopStages, EfiStages, FlashModes
<1>41. ASSUME NEW ram, NEW img \in Images, NEW fails \in BOOLEAN,
              DownloadImage(ram, img, fails)
       PROVE  DiskOfStage'
  BY <1>41, DiskKept DEF DownloadImage, EndRun, To, UrlRest, keeps_log, Untouched,
       BeforeRun, CloneStages, UrlStages, LoopStages, EfiStages, FlashModes
<1>42. ASSUME NEW fails \in BOOLEAN, NEW s, WriteImage(fails, s) PROVE DiskOfStage'
  <2>1. stage = "write" /\ got \in Images /\ ImageOk(got)
    BY <1>42 DEF WriteImage, CopyVerified
  <2>2. /\ hist'.want = 0 .. got.size - 1 /\ hist'.clean = hist.clean
        /\ hist'.unsafe = hist.unsafe /\ hist.clean = {}
    BY <1>42, <2>1 DEF WriteImage, HistTypes, Untouched, UrlStages
  <2>3. CASE ~fails /\ got.len = got.size /\ got.size <= DiskLen
    <3>1. stage' = "reread" /\ s = ImageBytes(got)
          /\ disk' = Copied([len |-> got.size, flip |-> None], s)
      BY <1>42, <2>3 DEF WriteImage, To
    <3>2. s = 0 .. got.size - 1 /\ s \subseteq Bytes /\ s # {}
      BY <2>1, <2>3, <3>1, ImageFits
    <3>3. \A b \in s : b # None
      BY <3>2 DEF Bytes, None
    <3>4. \A b \in s : disk'[b] = "new"
      BY <3>1, <3>2, <3>3 DEF Copied
    <3>5. Complete'
      BY <2>2, <3>2, <3>4 DEF Complete, Written
    <3> QED
      BY <2>2, <3>1, <3>5
        DEF Untouched, BeforeRun, LoopStages, EfiStages, CloneStages, UrlStages
  <2>4. CASE ~(~fails /\ got.len = got.size /\ got.size <= DiskLen)
    <3>1. stage' = "persist" /\ result' = "partly"
      BY <1>42, <2>4 DEF WriteImage, EndRun, To
    <3> QED
      BY <2>2, <3>1
        DEF Untouched, BeforeRun, LoopStages, EfiStages, CloneStages, UrlStages, keeps_log
  <2> QED
    BY <2>3, <2>4
<1>43. CASE PushImage
  BY <1>43, DiskKept DEF PushImage, ScpRest, UpTypes, Untouched, BeforeRun, CloneStages,
       UrlStages, LoopStages, EfiStages, FlashModes
<1>44. CASE GiveUp
  BY <1>44, DiskKept DEF GiveUp, ScpRest, UpTypes, HistTypes, Untouched, BeforeRun,
       CloneStages, UrlStages, LoopStages, EfiStages, FlashModes
<1>45. ASSUME NEW state \in {"part", "done"}, PushBmap(state) PROVE DiskOfStage'
  BY <1>45, DiskKept DEF PushBmap, ScpRest, UpTypes, Untouched, BeforeRun, CloneStages,
       UrlStages, LoopStages, EfiStages, FlashModes
<1>46. CASE Repair
  BY <1>46, DiskKept DEF Repair, Goto, To, memory, FreshRun, HistTypes, Untouched,
       BeforeRun, CloneStages, UrlStages, LoopStages, EfiStages, FlashModes
<1>47. CASE PowerLoss
  <2>1. stage' = "off"
    BY <1>47 DEF PowerLoss, To
  <2>2. hist'.unsafe = hist.unsafe
    BY <1>47 DEF PowerLoss, HistTypes
  <2> QED
    BY <2>1, <2>2 DEF Untouched, BeforeRun, LoopStages, EfiStages, CloneStages, UrlStages
<1>48. CASE Restart
  BY <1>48, DiskKept DEF Restart, To, FreshBoot, durable, Untouched, BeforeRun,
       CloneStages, UrlStages, LoopStages, EfiStages, FlashModes
<1>49. CASE Calm
  BY <1>49, DiskKept DEF Calm, durable, memory, Untouched, BeforeRun, CloneStages,
       UrlStages, LoopStages, EfiStages, FlashModes
<1>50. ASSUME NEW req \in Requests, Request(req) PROVE DiskOfStage'
  BY <1>50, DiskKept DEF Request, Goto, To, memory, HistTypes, Untouched, BeforeRun,
       CloneStages, UrlStages, LoopStages, EfiStages, FlashModes
<1>51. CASE UNCHANGED vars
  BY <1>51, DiskKept DEF vars, durable, memory
<1> HIDE DEF DiskOfStage, MountsSafe
<1> QED
  BY <1>1, <1>2, <1>3, <1>4, <1>5, <1>6, <1>7, <1>8, <1>9, <1>10, <1>11, <1>12, <1>13,
       <1>14, <1>15, <1>16, <1>17, <1>18, <1>19, <1>20, <1>21, <1>22, <1>23, <1>24,
       <1>25, <1>26, <1>27, <1>28, <1>29, <1>30, <1>31, <1>32, <1>33, <1>34, <1>35,
       <1>36, <1>37, <1>38, <1>39, <1>40, <1>41, <1>42, <1>43, <1>44, <1>45, <1>46,
       <1>47, <1>48, <1>49, <1>50, <1>51 DEF Next, Step, BootNext, FrameNext, EfiNext,
       CloneNext, ScpStep, UrlNext, Operator, SentBmaps, ServedImages

(***************************************************************************)
(* A step that leaves the disk alone leaves it intact.                     *)
(***************************************************************************)
LEMMA IntactKept ==
  ASSUME disk' = disk
  PROVE  Intact' <=> Intact
BY DEF Intact

(***************************************************************************)
(* What a step of the clone, or one that is cut off, leaves of the parts.  *)
(***************************************************************************)
LEMMA EffectType ==
  ASSUME CloneTypes, NEW s
  PROVE  /\ Effect(s, clone.part) \in [CloneParts -> {"old", "torn", "src", "own"}]
         /\ \A parts \in Cut(s, clone.part) :
              parts \in [CloneParts -> {"old", "torn", "src", "own"}]
<1> DEFINE V == {"old", "torn", "src", "own"}
<1>1. clone.part \in [CloneParts -> V]
  BY DEF CloneTypes
<1>2. Effect(s, clone.part) \in [CloneParts -> V]
  <2>1. CASE s = "apply"
    BY <1>1, <2>1 DEF Effect
  <2>2. CASE s = "verify"
    BY <1>1, <2>2 DEF Effect
  <2>3. CASE s = "boot"
    BY <1>1, <2>3 DEF Effect
  <2>4. CASE s \notin {"apply", "verify", "boot"}
    BY <1>1, <2>4 DEF Effect
  <2> QED
    BY <2>1, <2>2, <2>3, <2>4
<1>3. \A parts \in Cut(s, clone.part) : parts \in [CloneParts -> V]
  BY <1>1 DEF Cut
<1> QED
  BY <1>2, <1>3

(***************************************************************************)
(* What a clone step writes onto the second disk.                          *)
(***************************************************************************)
LEMMA CloneWrites ==
  ASSUME DestinationChecked, NEW fails \in BOOLEAN, CloneStep(fails)
  PROVE  LET s == CloneSteps(build)[step + 1]
         IN  /\ clone' = [part |-> clone'.part, table |-> clone'.table]
             /\ fails => clone'.part \in Cut(s, clone.part)
             /\ ~fails => /\ clone'.part = Effect(s, clone.part)
                          /\ clone'.table = IF s = "apply" THEN plan ELSE clone.table
<1> DEFINE s == CloneSteps(build)[step + 1]
           tab == IF s = "apply" THEN IF fails THEN NoTable ELSE plan ELSE clone.table
<1>1. PICK parts \in (IF fails THEN Cut(s, clone.part) ELSE {Effect(s, clone.part)}) :
        CloneWrite(parts, tab)
  BY DEF CloneStep
<1> HIDE DEF s, tab
<1>2. clone' = [part |-> parts, table |-> tab]
  BY <1>1 DEF CloneWrite, CloneStep, DestinationChecked
<1> QED
  BY <1>1, <1>2 DEF s, tab

(***************************************************************************)
(* Every step keeps the types of the second disk.                          *)
(***************************************************************************)
LEMMA CloneTypesStep ==
  ASSUME CloneTypes, DestinationChecked, [Next]_vars
  PROVE  CloneTypes'
<1> USE DEF CloneTypes
<1>1. ASSUME NEW more \in SUBSET {"other", "unknown"}, NEW f \in BOOLEAN,
             StartBoot(more, f)
      PROVE  CloneTypes'
  BY <1>1 DEF StartBoot, To, FreshBoot, BlankClone
<1>2. ASSUME NEW avail \in BOOLEAN, NEW err \in SUBSET EnvKeys, Detect(avail, err)
      PROVE  CloneTypes'
  <2>1. clone' = clone
    BY <1>2 DEF Detect, durable
  <2> QED
    BY <2>1
<1>3. ASSUME NEW kept \in FailedDeletes, Refuse(kept) PROVE CloneTypes'
  BY <1>3 DEF Refuse, To
<1>4. ASSUME NEW kept \in FailedDeletes, FactoryResetBoot(kept) PROVE CloneTypes'
  BY <1>4 DEF FactoryResetBoot, Goto, To, memory
<1>5. ASSUME NEW pending \in BOOLEAN, NEW rebootErr \in BOOLEAN,
             FatalError(pending, rebootErr)
      PROVE  CloneTypes'
  BY <1>5 DEF FatalError, To, durable, memory
<1>6. ASSUME NEW kept \in FailedDeletes, ClearTriggers(kept) PROVE CloneTypes'
  BY <1>6 DEF ClearTriggers, Goto, To, memory
<1>7. ASSUME NEW res \in WithMountResults, PersistLog(res) PROVE CloneTypes'
  BY <1>7 DEF PersistLog, To, durable
<1>8. ASSUME NEW fails \in BOOLEAN, TerminalAction(fails) PROVE CloneTypes'
  BY <1>8 DEF TerminalAction, To, durable
<1>9. CASE EfiMount
  BY <1>9 DEF EfiMount, Goto, To, durable, memory
<1>10. CASE EfiList
  BY <1>10 DEF EfiList, Goto, To, durable
<1>11. CASE EfiCreate
  BY <1>11 DEF EfiCreate, Goto, To, memory
<1>12. CASE EfiDump
  BY <1>12 DEF EfiDump, Goto, To, durable, memory
<1>13. ASSUME NEW e \in old, EfiDelete(e) PROVE CloneTypes'
  BY <1>13 DEF EfiDelete
<1>14. ASSUME NEW res \in WithMountResults, EfiWrite(res) PROVE CloneTypes'
  BY <1>14 DEF EfiWrite, EndRun, To, durable
<1>15. ASSUME NEW from \in EfiStages, EfiFails(from) PROVE CloneTypes'
  BY <1>15 DEF EfiFails, EndRun, To, durable
<1>16. ASSUME NEW noRandom \in BOOLEAN, SelectClone(noRandom) PROVE CloneTypes'
  BY <1>16 DEF SelectClone, EndRun, To, RestUnchanged
<1>17. CASE ResolveDestination
  BY <1>17 DEF ResolveDestination, Goto, To, RestUnchanged
<1>18. CASE ResolveFails
  BY <1>18 DEF ResolveFails, CloneFails, EndRun, To, RestUnchanged
<1>19. CASE ValidateDestination
  BY <1>19 DEF ValidateDestination, EndRun, To, RestUnchanged
<1>20. ASSUME NEW left \in SUBSET {"boot", "rootfs"}, UnmountRootfs(left)
       PROVE  CloneTypes'
  BY <1>20 DEF UnmountRootfs, EndRun, To, RestUnchanged
<1>21. ASSUME NEW d \in Dumps, NEW fails \in BOOLEAN, DumpTable(d, fails)
       PROVE  CloneTypes'
  BY <1>21 DEF DumpTable, EndRun, To
<1>22. ASSUME NEW fails \in BOOLEAN, CloneStep(fails) PROVE CloneTypes'
  <2>1. clone'.part \in [CloneParts -> {"old", "torn", "src", "own"}]
    BY <1>22, CloneWrites, EffectType
  <2> QED
    BY <1>22, <2>1, CloneWrites
<1>23. CASE CloneWritten
  BY <1>23 DEF CloneWritten, EndRun, To, RestUnchanged
<1>24. CASE SelectScp
  BY <1>24 DEF SelectScp, Goto, To, ScpRest
<1>25. ASSUME NEW left \in SUBSET mounts, UnmountTarget(left) PROVE CloneTypes'
  BY <1>25 DEF UnmountTarget, EndRun, To, ScpRest
<1>26. ASSUME NEW fails \in BOOLEAN, NEW addr, BringUp(fails, addr) PROVE CloneTypes'
  BY <1>26 DEF BringUp, EndRun, To, ScpRest
<1>27. ASSUME NEW fails \in BOOLEAN, CreateFifo(fails) PROVE CloneTypes'
  BY <1>27 DEF CreateFifo, EndRun, To, ScpRest
<1>28. CASE StartDropbear
  BY <1>28 DEF StartDropbear, Goto, To, ScpRest
<1>29. CASE ScpFails("dropbear", "failed")
  BY <1>29 DEF ScpFails, EndRun, To, ScpRest
<1>30. ASSUME NEW raw \in RawBmaps, NEW fails \in BOOLEAN, ReadBmap(raw, fails)
       PROVE  CloneTypes'
  BY <1>30 DEF ReadBmap, AttemptFails, To, ScpRest
<1>31. ASSUME NEW u, NEW fails \in BOOLEAN, VerifyUpload(u, fails) PROVE CloneTypes'
  BY <1>31 DEF VerifyUpload, To, ScpRest
<1>32. ASSUME NEW u, NEW fails \in BOOLEAN, NEW s, CopyToDisk(u, fails, s)
       PROVE  CloneTypes'
  BY <1>32 DEF CopyToDisk, PartlyWritten, To, ScpRest
<1>33. ASSUME NEW fails \in BOOLEAN, NEW s, ZeroHead(fails, s) PROVE CloneTypes'
  BY <1>33 DEF ZeroHead, PartlyWritten, To, ScpRest
<1>34. ASSUME NEW keeps \in BOOLEAN, RemoveFiles(keeps) PROVE CloneTypes'
  BY <1>34 DEF RemoveFiles, Goto, To, ScpRest
<1>35. ASSUME NEW noReader \in BOOLEAN, NEW keeps \in BOOLEAN,
              RemoveFifo(noReader, keeps)
       PROVE  CloneTypes'
  BY <1>35 DEF RemoveFifo, WriterAfterRemove, Goto, To, ScpRest
<1>36. ASSUME NEW fails \in BOOLEAN, RereadTable(fails) PROVE CloneTypes'
  BY <1>36 DEF RereadTable, EndRun, To, ScpRest
<1>37. CASE SelectUrl
  BY <1>37 DEF SelectUrl, EndRun, To, UrlRest
<1>38. CASE OpenFails
  BY <1>38 DEF OpenFails, EndRun, To, UrlRest
<1>39. ASSUME NEW fails \in BOOLEAN, DownloadSha(fails) PROVE CloneTypes'
  BY <1>39 DEF DownloadSha, EndRun, To, UrlRest
<1>40. ASSUME NEW fails \in BOOLEAN, CheckImage(fails) PROVE CloneTypes'
  BY <1>40 DEF CheckImage, EndRun, To, UrlRest
<1>41. ASSUME NEW ram, NEW img \in Images, NEW fails \in BOOLEAN,
              DownloadImage(ram, img, fails)
       PROVE  CloneTypes'
  BY <1>41 DEF DownloadImage, EndRun, To, UrlRest
<1>42. ASSUME NEW fails \in BOOLEAN, NEW s, WriteImage(fails, s) PROVE CloneTypes'
  BY <1>42 DEF WriteImage, EndRun, To, UrlRest
<1>43. CASE PushImage
  BY <1>43 DEF PushImage, ScpRest
<1>44. CASE GiveUp
  BY <1>44 DEF GiveUp, ScpRest
<1>45. ASSUME NEW state \in {"part", "done"}, PushBmap(state) PROVE CloneTypes'
  BY <1>45 DEF PushBmap, ScpRest
<1>46. CASE Repair
  BY <1>46 DEF Repair, Goto, To, memory
<1>47. CASE PowerLoss
  <2>1. PICK parts \in CloneCut : clone' = [clone EXCEPT !.part = parts]
    BY <1>47 DEF PowerLoss
  <2>2. parts \in [CloneParts -> {"old", "torn", "src", "own"}]
    BY EffectType DEF CloneCut
  <2>3. clone' = [part |-> parts, table |-> clone.table]
    BY <2>1
  <2> QED
    BY <2>2, <2>3
<1>48. CASE Restart
  BY <1>48 DEF Restart, To, FreshBoot, durable
<1>49. CASE Calm
  BY <1>49 DEF Calm, durable, memory
<1>50. ASSUME NEW req \in Requests, Request(req) PROVE CloneTypes'
  BY <1>50 DEF Request, Goto, To, memory
<1>51. CASE UNCHANGED vars
  BY <1>51 DEF vars, durable, memory
<1> HIDE DEF CloneTypes
<1> QED
  BY <1>1, <1>2, <1>3, <1>4, <1>5, <1>6, <1>7, <1>8, <1>9, <1>10, <1>11, <1>12, <1>13,
       <1>14, <1>15, <1>16, <1>17, <1>18, <1>19, <1>20, <1>21, <1>22, <1>23, <1>24,
       <1>25, <1>26, <1>27, <1>28, <1>29, <1>30, <1>31, <1>32, <1>33, <1>34, <1>35,
       <1>36, <1>37, <1>38, <1>39, <1>40, <1>41, <1>42, <1>43, <1>44, <1>45, <1>46,
       <1>47, <1>48, <1>49, <1>50, <1>51 DEF Next, Step, BootNext, FrameNext, EfiNext,
       CloneNext, ScpStep, UrlNext, Operator, SentBmaps, ServedImages

(***************************************************************************)
(* One of the two disks is always as it was: a clone leaves the running    *)
(* one alone, the other modes the second one.                              *)
(***************************************************************************)
LEMMA OneDiskStep ==
  ASSUME DurableTypes, HistTypes, CloneTypes, ModeOfStage, DestinationChecked,
         DiskOfStage, OneDiskIntact, [Next]_vars
  PROVE  OneDiskIntact'
<1> USE DEF OneDiskIntact
<1>1. ASSUME NEW more \in SUBSET {"other", "unknown"}, NEW f \in BOOLEAN,
             StartBoot(more, f)
      PROVE  OneDiskIntact'
  <2>1. mode' = "none" /\ clone' = BlankClone
    BY <1>1 DEF StartBoot, FreshBoot
  <2> QED
    BY <2>1
<1>2. ASSUME NEW avail \in BOOLEAN, NEW err \in SUBSET EnvKeys, Detect(avail, err)
      PROVE  OneDiskIntact'
  <2>1. stage = "detect" /\ Intact /\ mode = "none"
    BY <1>2 DEF Detect, DiskOfStage, Untouched, BeforeRun, ModeOfStage
  <2> QED
    BY <1>2, <2>1, IntactKept, DetectKeeps
<1>3. ASSUME NEW kept \in FailedDeletes, Refuse(kept) PROVE OneDiskIntact'
  BY <1>3, IntactKept DEF Refuse, To
<1>4. ASSUME NEW kept \in FailedDeletes, FactoryResetBoot(kept) PROVE OneDiskIntact'
  BY <1>4, IntactKept DEF FactoryResetBoot, Goto, To, memory
<1>5. ASSUME NEW pending \in BOOLEAN, NEW rebootErr \in BOOLEAN,
             FatalError(pending, rebootErr)
      PROVE  OneDiskIntact'
  BY <1>5, IntactKept, FatalEnds DEF FatalError, To, durable, memory
<1>6. ASSUME NEW kept \in FailedDeletes, ClearTriggers(kept) PROVE OneDiskIntact'
  BY <1>6, IntactKept DEF ClearTriggers, Goto, To, memory
<1>7. ASSUME NEW res \in WithMountResults, PersistLog(res) PROVE OneDiskIntact'
  BY <1>7, IntactKept DEF PersistLog, To, durable
<1>8. ASSUME NEW fails \in BOOLEAN, TerminalAction(fails) PROVE OneDiskIntact'
  BY <1>8, IntactKept DEF TerminalAction, To, durable
<1>9. CASE EfiMount
  BY <1>9, IntactKept DEF EfiMount, Goto, To, durable, memory
<1>10. CASE EfiList
  BY <1>10, IntactKept DEF EfiList, Goto, To, durable
<1>11. CASE EfiCreate
  BY <1>11, IntactKept DEF EfiCreate, Goto, To, memory
<1>12. CASE EfiDump
  BY <1>12, IntactKept DEF EfiDump, Goto, To, durable, memory
<1>13. ASSUME NEW e \in old, EfiDelete(e) PROVE OneDiskIntact'
  BY <1>13, IntactKept DEF EfiDelete
<1>14. ASSUME NEW res \in WithMountResults, EfiWrite(res) PROVE OneDiskIntact'
  BY <1>14, IntactKept DEF EfiWrite, EndRun, To, durable
<1>15. ASSUME NEW from \in EfiStages, EfiFails(from) PROVE OneDiskIntact'
  BY <1>15, IntactKept DEF EfiFails, EndRun, To, durable, EfiStages
<1>16. ASSUME NEW noRandom \in BOOLEAN, SelectClone(noRandom) PROVE OneDiskIntact'
  BY <1>16, IntactKept DEF SelectClone, EndRun, To, RestUnchanged
<1>17. CASE ResolveDestination
  BY <1>17, IntactKept DEF ResolveDestination, Goto, To, RestUnchanged
<1>18. CASE ResolveFails
  BY <1>18, IntactKept DEF ResolveFails, CloneFails, EndRun, To, RestUnchanged
<1>19. CASE ValidateDestination
  BY <1>19, IntactKept DEF ValidateDestination, EndRun, To, RestUnchanged
<1>20. ASSUME NEW left \in SUBSET {"boot", "rootfs"}, UnmountRootfs(left)
       PROVE  OneDiskIntact'
  BY <1>20, IntactKept DEF UnmountRootfs, EndRun, To, RestUnchanged
<1>21. ASSUME NEW d \in Dumps, NEW fails \in BOOLEAN, DumpTable(d, fails)
       PROVE  OneDiskIntact'
  BY <1>21, IntactKept DEF DumpTable, EndRun, To
<1>22. ASSUME NEW fails \in BOOLEAN, CloneStep(fails) PROVE OneDiskIntact'
  <2>1. stage = "clone" /\ mode = "1" /\ mode' = mode
    BY <1>22 DEF CloneStep, RestUnchanged, ModeOfStage, CloneStages
  <2> QED
    BY <1>22, <2>1, CloneKeepsDisk, IntactKept
<1>23. CASE CloneWritten
  BY <1>23, IntactKept DEF CloneWritten, EndRun, To, RestUnchanged
<1>24. CASE SelectScp
  BY <1>24, IntactKept DEF SelectScp, Goto, To, ScpRest
<1>25. ASSUME NEW left \in SUBSET mounts, UnmountTarget(left) PROVE OneDiskIntact'
  BY <1>25, IntactKept DEF UnmountTarget, EndRun, To, ScpRest
<1>26. ASSUME NEW fails \in BOOLEAN, NEW addr, BringUp(fails, addr) PROVE OneDiskIntact'
  BY <1>26, IntactKept DEF BringUp, EndRun, To, ScpRest
<1>27. ASSUME NEW fails \in BOOLEAN, CreateFifo(fails) PROVE OneDiskIntact'
  BY <1>27, IntactKept DEF CreateFifo, EndRun, To, ScpRest
<1>28. CASE StartDropbear
  BY <1>28, IntactKept DEF StartDropbear, Goto, To, ScpRest
<1>29. CASE ScpFails("dropbear", "failed")
  BY <1>29, IntactKept DEF ScpFails, EndRun, To, ScpRest
<1>30. ASSUME NEW raw \in RawBmaps, NEW fails \in BOOLEAN, ReadBmap(raw, fails)
       PROVE  OneDiskIntact'
  BY <1>30, IntactKept DEF ReadBmap, AttemptFails, To, ScpRest
<1>31. ASSUME NEW u, NEW fails \in BOOLEAN, VerifyUpload(u, fails) PROVE OneDiskIntact'
  BY <1>31, IntactKept DEF VerifyUpload, To, ScpRest
<1>32. ASSUME NEW u, NEW fails \in BOOLEAN, NEW s, CopyToDisk(u, fails, s)
       PROVE  OneDiskIntact'
  BY <1>32, IntactKept DEF CopyToDisk, PartlyWritten, To, ScpRest, ModeOfStage,
       ScpStages, LoopStages
<1>33. ASSUME NEW fails \in BOOLEAN, NEW s, ZeroHead(fails, s) PROVE OneDiskIntact'
  BY <1>33, IntactKept DEF ZeroHead, PartlyWritten, To, ScpRest, ModeOfStage, ScpStages,
       LoopStages
<1>34. ASSUME NEW keeps \in BOOLEAN, RemoveFiles(keeps) PROVE OneDiskIntact'
  BY <1>34, IntactKept DEF RemoveFiles, Goto, To, ScpRest
<1>35. ASSUME NEW noReader \in BOOLEAN, NEW keeps \in BOOLEAN,
              RemoveFifo(noReader, keeps)
       PROVE  OneDiskIntact'
  BY <1>35, IntactKept DEF RemoveFifo, WriterAfterRemove, Goto, To, ScpRest
<1>36. ASSUME NEW fails \in BOOLEAN, RereadTable(fails) PROVE OneDiskIntact'
  BY <1>36, IntactKept DEF RereadTable, EndRun, To, ScpRest
<1>37. CASE SelectUrl
  BY <1>37, IntactKept DEF SelectUrl, EndRun, To, UrlRest
<1>38. CASE OpenFails
  BY <1>38, IntactKept DEF OpenFails, EndRun, To, UrlRest
<1>39. ASSUME NEW fails \in BOOLEAN, DownloadSha(fails) PROVE OneDiskIntact'
  BY <1>39, IntactKept DEF DownloadSha, EndRun, To, UrlRest
<1>40. ASSUME NEW fails \in BOOLEAN, CheckImage(fails) PROVE OneDiskIntact'
  BY <1>40, IntactKept DEF CheckImage, EndRun, To, UrlRest
<1>41. ASSUME NEW ram, NEW img \in Images, NEW fails \in BOOLEAN,
              DownloadImage(ram, img, fails)
       PROVE  OneDiskIntact'
  BY <1>41, IntactKept DEF DownloadImage, EndRun, To, UrlRest
<1>42. ASSUME NEW fails \in BOOLEAN, NEW s, WriteImage(fails, s) PROVE OneDiskIntact'
  BY <1>42, IntactKept DEF WriteImage, EndRun, To, UrlRest, ModeOfStage, UrlStages
<1>43. CASE PushImage
  BY <1>43, IntactKept DEF PushImage, ScpRest
<1>44. CASE GiveUp
  BY <1>44, IntactKept DEF GiveUp, ScpRest
<1>45. ASSUME NEW state \in {"part", "done"}, PushBmap(state) PROVE OneDiskIntact'
  BY <1>45, IntactKept DEF PushBmap, ScpRest
<1>46. CASE Repair
  BY <1>46, IntactKept DEF Repair, Goto, To, memory, Intact
<1>47. CASE PowerLoss
  <2>1. mode' = "none" /\ stage' = "off" /\ stage # "off"
    BY <1>47 DEF PowerLoss, To, FreshBoot
  <2>2. PICK parts \in CloneCut : clone' = [clone EXCEPT !.part = parts]
    BY <1>47 DEF PowerLoss
  <2>3. CASE stage \in {"write", "copy", "zero"}
    <3>1. mode # "1" /\ clone = BlankClone
      BY <2>1, <2>3 DEF ModeOfStage, ScpStages, LoopStages, UrlStages
    <3>2. parts = BlankClone.part
      BY <2>3, <3>1 DEF CloneCut
    <3>3. clone' = BlankClone
      BY <2>2, <3>1, <3>2 DEF BlankClone
    <3> QED
      BY <2>1, <3>3
  <2>4. CASE stage = "clone"
    <3>1. disk' = disk
      BY <1>47, <2>4 DEF PowerLoss, ScpCut
    <3>2. Intact
      BY <2>4 DEF DiskOfStage, Untouched, CloneStages
    <3> QED
      BY <2>1, <3>1, <3>2, IntactKept
  <2>5. CASE stage \notin {"write", "copy", "zero", "clone"}
    <3>1. disk' = disk /\ parts = clone.part
      BY <1>47, <2>5 DEF PowerLoss, ScpCut, CloneCut
    <3>2. clone' = clone
      BY <2>2, <3>1 DEF CloneTypes
    <3> QED
      BY <2>1, <3>1, <3>2, IntactKept
  <2> QED
    BY <2>3, <2>4, <2>5
<1>48. CASE Restart
  BY <1>48, IntactKept DEF Restart, To, FreshBoot, durable
<1>49. CASE Calm
  BY <1>49, IntactKept DEF Calm, durable, memory
<1>50. ASSUME NEW req \in Requests, Request(req) PROVE OneDiskIntact'
  BY <1>50, IntactKept DEF Request, Goto, To, memory
<1>51. CASE UNCHANGED vars
  BY <1>51, IntactKept DEF vars, durable, memory
<1> HIDE DEF OneDiskIntact
<1> QED
  BY <1>1, <1>2, <1>3, <1>4, <1>5, <1>6, <1>7, <1>8, <1>9, <1>10, <1>11, <1>12, <1>13,
       <1>14, <1>15, <1>16, <1>17, <1>18, <1>19, <1>20, <1>21, <1>22, <1>23, <1>24,
       <1>25, <1>26, <1>27, <1>28, <1>29, <1>30, <1>31, <1>32, <1>33, <1>34, <1>35,
       <1>36, <1>37, <1>38, <1>39, <1>40, <1>41, <1>42, <1>43, <1>44, <1>45, <1>46,
       <1>47, <1>48, <1>49, <1>50, <1>51 DEF Next, Step, BootNext, FrameNext, EfiNext,
       CloneNext, ScpStep, UrlNext, Operator, SentBmaps, ServedImages

(***************************************************************************)
(* The disk the mode works on.                                             *)
(***************************************************************************)
LEMMA TargetKept ==
  ASSUME mode' = mode
  PROVE  Target' = Target
BY DEF Target

(***************************************************************************)
(* The entry of the written disk is created before the old ones go, and it *)
(* is not one of them.                                                     *)
(***************************************************************************)
LEMMA EntriesStep ==
  ASSUME EntryTypes, EntriesOfStage, [Next]_vars
  PROVE  EntriesOfStage'
<1> USE DEF EntriesOfStage
<1>1. ASSUME NEW more \in SUBSET {"other", "unknown"}, NEW f \in BOOLEAN,
             StartBoot(more, f)
      PROVE  EntriesOfStage'
  BY <1>1, TargetKept DEF StartBoot, To, FreshBoot, Untouched, BeforeRun, CloneStages,
       UrlStages, LoopStages, EfiStages
<1>2. ASSUME NEW avail \in BOOLEAN, NEW err \in SUBSET EnvKeys, Detect(avail, err)
      PROVE  EntriesOfStage'
  <2>1. stage = "detect" /\ nvram' = nvram /\ stage' # "efiDelete"
    BY <1>2 DEF Detect, To, durable
  <2> QED
    BY <2>1 DEF Untouched, BeforeRun
<1>3. ASSUME NEW kept \in FailedDeletes, Refuse(kept) PROVE EntriesOfStage'
  BY <1>3, TargetKept DEF Refuse, To, Untouched, BeforeRun, CloneStages, UrlStages,
       LoopStages, EfiStages
<1>4. ASSUME NEW kept \in FailedDeletes, FactoryResetBoot(kept) PROVE EntriesOfStage'
  BY <1>4, TargetKept DEF FactoryResetBoot, Goto, To, memory, Untouched, BeforeRun,
       CloneStages, UrlStages, LoopStages, EfiStages
<1>5. ASSUME NEW pending \in BOOLEAN, NEW rebootErr \in BOOLEAN,
             FatalError(pending, rebootErr)
      PROVE  EntriesOfStage'
  BY <1>5, TargetKept, FatalEnds DEF FatalError, To, durable, memory, Untouched,
       BeforeRun, CloneStages, UrlStages, LoopStages, EfiStages
<1>6. ASSUME NEW kept \in FailedDeletes, ClearTriggers(kept) PROVE EntriesOfStage'
  BY <1>6, TargetKept DEF ClearTriggers, Goto, To, memory, Untouched, BeforeRun,
       CloneStages, UrlStages, LoopStages, EfiStages
<1>7. ASSUME NEW res \in WithMountResults, PersistLog(res) PROVE EntriesOfStage'
  BY <1>7, TargetKept DEF PersistLog, To, durable, Untouched, BeforeRun, CloneStages,
       UrlStages, LoopStages, EfiStages
<1>8. ASSUME NEW fails \in BOOLEAN, TerminalAction(fails) PROVE EntriesOfStage'
  BY <1>8, TargetKept DEF TerminalAction, To, durable, Untouched, BeforeRun,
       CloneStages, UrlStages, LoopStages, EfiStages
<1>9. CASE EfiMount
  BY <1>9, TargetKept DEF EfiMount, Goto, To, durable, memory, Untouched, BeforeRun,
       CloneStages, UrlStages, LoopStages, EfiStages
<1>10. CASE EfiList
  BY <1>10, TargetKept DEF EfiList, Goto, To, durable, Untouched, BeforeRun,
       CloneStages, UrlStages, LoopStages, EfiStages
<1>11. CASE EfiCreate
  <2>1. nvram = FirmwareEntries /\ old \subseteq nvram /\ old' = old /\ mode' = mode
    BY <1>11 DEF EfiCreate, Goto, EntryTypes, memory
  <2>2. BootEntry(Target, TRUE) \notin FirmwareEntries
    BY DEF FirmwareEntries, BootEntry
  <2>3. BootEntry(Target, TRUE) \in nvram' /\ Target' = Target /\ stage' = "efiDelete"
    BY <1>11, <2>1 DEF EfiCreate, Target, Goto, To
  <2> QED
    BY <2>1, <2>2, <2>3 DEF Untouched, BeforeRun, CloneStages, UrlStages, LoopStages
<1>12. CASE EfiDump
  BY <1>12, TargetKept DEF EfiDump, Goto, To, durable, memory, Untouched, BeforeRun,
       CloneStages, UrlStages, LoopStages, EfiStages
<1>13. ASSUME NEW e \in old, EfiDelete(e) PROVE EntriesOfStage'
  <2>1. BootEntry(Target, TRUE) \in nvram \ old
    BY <1>13 DEF EfiDelete
  <2>2. /\ nvram' = nvram \ {e} /\ old' = old \ {e} /\ e \in old
        /\ Target' = Target /\ stage' = "efiDelete"
    BY <1>13 DEF EfiDelete, Target
  <2> QED
    BY <2>1, <2>2 DEF Untouched, BeforeRun, CloneStages, UrlStages, LoopStages
<1>14. ASSUME NEW res \in WithMountResults, EfiWrite(res) PROVE EntriesOfStage'
  BY <1>14, TargetKept DEF EfiWrite, EndRun, To, durable, Untouched, BeforeRun,
       CloneStages, UrlStages, LoopStages, EfiStages
<1>15. ASSUME NEW from \in EfiStages, EfiFails(from) PROVE EntriesOfStage'
  BY <1>15, TargetKept DEF EfiFails, EndRun, To, durable, Untouched, BeforeRun,
       CloneStages, UrlStages, LoopStages, EfiStages
<1>16. ASSUME NEW noRandom \in BOOLEAN, SelectClone(noRandom) PROVE EntriesOfStage'
  BY <1>16, TargetKept DEF SelectClone, EndRun, To, RestUnchanged, Untouched, BeforeRun,
       CloneStages, UrlStages, LoopStages, EfiStages
<1>17. CASE ResolveDestination
  BY <1>17, TargetKept DEF ResolveDestination, Goto, To, RestUnchanged, Untouched,
       BeforeRun, CloneStages, UrlStages, LoopStages, EfiStages
<1>18. CASE ResolveFails
  BY <1>18, TargetKept DEF ResolveFails, CloneFails, EndRun, To, RestUnchanged,
       Untouched, BeforeRun, CloneStages, UrlStages, LoopStages, EfiStages
<1>19. CASE ValidateDestination
  BY <1>19, TargetKept DEF ValidateDestination, EndRun, To, RestUnchanged, Untouched,
       BeforeRun, CloneStages, UrlStages, LoopStages, EfiStages
<1>20. ASSUME NEW left \in SUBSET {"boot", "rootfs"}, UnmountRootfs(left)
       PROVE  EntriesOfStage'
  BY <1>20, TargetKept DEF UnmountRootfs, EndRun, To, RestUnchanged, Untouched,
       BeforeRun, CloneStages, UrlStages, LoopStages, EfiStages
<1>21. ASSUME NEW d \in Dumps, NEW fails \in BOOLEAN, DumpTable(d, fails)
       PROVE  EntriesOfStage'
  BY <1>21, TargetKept DEF DumpTable, EndRun, To, Untouched, BeforeRun, CloneStages,
       UrlStages, LoopStages, EfiStages
<1>22. ASSUME NEW fails \in BOOLEAN, CloneStep(fails) PROVE EntriesOfStage'
  BY <1>22, TargetKept DEF CloneStep, EndRun, To, RestUnchanged, Untouched, BeforeRun,
       CloneStages, UrlStages, LoopStages, EfiStages
<1>23. CASE CloneWritten
  BY <1>23, TargetKept DEF CloneWritten, EndRun, To, RestUnchanged, Untouched,
       BeforeRun, CloneStages, UrlStages, LoopStages, EfiStages
<1>24. CASE SelectScp
  BY <1>24, TargetKept DEF SelectScp, Goto, To, ScpRest, Untouched, BeforeRun,
       CloneStages, UrlStages, LoopStages, EfiStages
<1>25. ASSUME NEW left \in SUBSET mounts, UnmountTarget(left) PROVE EntriesOfStage'
  BY <1>25, TargetKept DEF UnmountTarget, EndRun, To, ScpRest, Untouched, BeforeRun,
       CloneStages, UrlStages, LoopStages, EfiStages
<1>26. ASSUME NEW fails \in BOOLEAN, NEW addr, BringUp(fails, addr)
       PROVE  EntriesOfStage'
  BY <1>26, TargetKept DEF BringUp, EndRun, To, ScpRest, Untouched, BeforeRun,
       CloneStages, UrlStages, LoopStages, EfiStages
<1>27. ASSUME NEW fails \in BOOLEAN, CreateFifo(fails) PROVE EntriesOfStage'
  BY <1>27, TargetKept DEF CreateFifo, EndRun, To, ScpRest, Untouched, BeforeRun,
       CloneStages, UrlStages, LoopStages, EfiStages
<1>28. CASE StartDropbear
  BY <1>28, TargetKept DEF StartDropbear, Goto, To, ScpRest, Untouched, BeforeRun,
       CloneStages, UrlStages, LoopStages, EfiStages
<1>29. CASE ScpFails("dropbear", "failed")
  BY <1>29, TargetKept DEF ScpFails, EndRun, To, ScpRest, Untouched, BeforeRun,
       CloneStages, UrlStages, LoopStages, EfiStages
<1>30. ASSUME NEW raw \in RawBmaps, NEW fails \in BOOLEAN, ReadBmap(raw, fails)
       PROVE  EntriesOfStage'
  BY <1>30, TargetKept DEF ReadBmap, AttemptFails, To, ScpRest, Untouched, BeforeRun,
       CloneStages, UrlStages, LoopStages, EfiStages
<1>31. ASSUME NEW u, NEW fails \in BOOLEAN, VerifyUpload(u, fails) PROVE EntriesOfStage'
  BY <1>31, TargetKept DEF VerifyUpload, To, ScpRest, Untouched, BeforeRun, CloneStages,
       UrlStages, LoopStages, EfiStages
<1>32. ASSUME NEW u, NEW fails \in BOOLEAN, NEW s, CopyToDisk(u, fails, s)
       PROVE  EntriesOfStage'
  BY <1>32, TargetKept DEF CopyToDisk, PartlyWritten, To, ScpRest, Untouched, BeforeRun,
       CloneStages, UrlStages, LoopStages, EfiStages
<1>33. ASSUME NEW fails \in BOOLEAN, NEW s, ZeroHead(fails, s) PROVE EntriesOfStage'
  BY <1>33, TargetKept DEF ZeroHead, PartlyWritten, To, ScpRest, Untouched, BeforeRun,
       CloneStages, UrlStages, LoopStages, EfiStages
<1>34. ASSUME NEW keeps \in BOOLEAN, RemoveFiles(keeps) PROVE EntriesOfStage'
  BY <1>34, TargetKept DEF RemoveFiles, Goto, To, ScpRest, Untouched, BeforeRun,
       CloneStages, UrlStages, LoopStages, EfiStages
<1>35. ASSUME NEW noReader \in BOOLEAN, NEW keeps \in BOOLEAN,
              RemoveFifo(noReader, keeps)
       PROVE  EntriesOfStage'
  BY <1>35, TargetKept DEF RemoveFifo, WriterAfterRemove, Goto, To, ScpRest, Untouched,
       BeforeRun, CloneStages, UrlStages, LoopStages, EfiStages
<1>36. ASSUME NEW fails \in BOOLEAN, RereadTable(fails) PROVE EntriesOfStage'
  BY <1>36, TargetKept DEF RereadTable, EndRun, To, ScpRest, Untouched, BeforeRun,
       CloneStages, UrlStages, LoopStages, EfiStages
<1>37. CASE SelectUrl
  BY <1>37, TargetKept DEF SelectUrl, EndRun, To, UrlRest, Untouched, BeforeRun,
       CloneStages, UrlStages, LoopStages, EfiStages
<1>38. CASE OpenFails
  BY <1>38, TargetKept DEF OpenFails, EndRun, To, UrlRest, Untouched, BeforeRun,
       CloneStages, UrlStages, LoopStages, EfiStages
<1>39. ASSUME NEW fails \in BOOLEAN, DownloadSha(fails) PROVE EntriesOfStage'
  BY <1>39, TargetKept DEF DownloadSha, EndRun, To, UrlRest, Untouched, BeforeRun,
       CloneStages, UrlStages, LoopStages, EfiStages
<1>40. ASSUME NEW fails \in BOOLEAN, CheckImage(fails) PROVE EntriesOfStage'
  BY <1>40, TargetKept DEF CheckImage, EndRun, To, UrlRest, Untouched, BeforeRun,
       CloneStages, UrlStages, LoopStages, EfiStages
<1>41. ASSUME NEW ram, NEW img \in Images, NEW fails \in BOOLEAN,
              DownloadImage(ram, img, fails)
       PROVE  EntriesOfStage'
  BY <1>41, TargetKept DEF DownloadImage, EndRun, To, UrlRest, Untouched, BeforeRun,
       CloneStages, UrlStages, LoopStages, EfiStages
<1>42. ASSUME NEW fails \in BOOLEAN, NEW s, WriteImage(fails, s) PROVE EntriesOfStage'
  BY <1>42, TargetKept DEF WriteImage, EndRun, To, UrlRest, Untouched, BeforeRun,
       CloneStages, UrlStages, LoopStages, EfiStages
<1>43. CASE PushImage
  BY <1>43, TargetKept DEF PushImage, ScpRest, Untouched, BeforeRun, CloneStages,
       UrlStages, LoopStages, EfiStages
<1>44. CASE GiveUp
  BY <1>44, TargetKept DEF GiveUp, ScpRest, Untouched, BeforeRun, CloneStages,
       UrlStages, LoopStages, EfiStages
<1>45. ASSUME NEW state \in {"part", "done"}, PushBmap(state) PROVE EntriesOfStage'
  BY <1>45, TargetKept DEF PushBmap, ScpRest, Untouched, BeforeRun, CloneStages,
       UrlStages, LoopStages, EfiStages
<1>46. CASE Repair
  BY <1>46, TargetKept DEF Repair, Goto, To, memory, Untouched, BeforeRun, CloneStages,
       UrlStages, LoopStages, EfiStages
<1>47. CASE PowerLoss
  BY <1>47, TargetKept DEF PowerLoss, To, FreshBoot, Untouched, BeforeRun, CloneStages,
       UrlStages, LoopStages, EfiStages
<1>48. CASE Restart
  BY <1>48, TargetKept DEF Restart, To, FreshBoot, durable, Untouched, BeforeRun,
       CloneStages, UrlStages, LoopStages, EfiStages
<1>49. CASE Calm
  <2>1. Target' = Target /\ stage' = stage /\ nvram' = nvram /\ old' = old
    BY <1>49 DEF Calm, durable, memory, Target
  <2> QED
    BY <2>1
<1>50. ASSUME NEW req \in Requests, Request(req) PROVE EntriesOfStage'
  BY <1>50, TargetKept DEF Request, Goto, To, memory, Untouched, BeforeRun, CloneStages,
       UrlStages, LoopStages, EfiStages
<1>51. CASE UNCHANGED vars
  BY <1>51, TargetKept DEF vars, durable, memory
<1> HIDE DEF EntriesOfStage
<1> QED
  BY <1>1, <1>2, <1>3, <1>4, <1>5, <1>6, <1>7, <1>8, <1>9, <1>10, <1>11, <1>12, <1>13,
       <1>14, <1>15, <1>16, <1>17, <1>18, <1>19, <1>20, <1>21, <1>22, <1>23, <1>24,
       <1>25, <1>26, <1>27, <1>28, <1>29, <1>30, <1>31, <1>32, <1>33, <1>34, <1>35,
       <1>36, <1>37, <1>38, <1>39, <1>40, <1>41, <1>42, <1>43, <1>44, <1>45, <1>46,
       <1>47, <1>48, <1>49, <1>50, <1>51 DEF Next, Step, BootNext, FrameNext, EfiNext,
       CloneNext, ScpStep, UrlNext, Operator, SentBmaps, ServedImages

(***************************************************************************)
(* The elements of a concatenation.                                        *)
(***************************************************************************)
LEMMA Concat ==
  ASSUME NEW S, NEW s \in Seq(S), NEW t \in Seq(S)
  PROVE  /\ s \o t \in Seq(S) /\ Len(s \o t) = Len(s) + Len(t)
         /\ \A i \in 1 .. Len(s) : (s \o t)[i] = s[i]
         /\ \A i \in Len(s) + 1 .. Len(s) + Len(t) : (s \o t)[i] = t[i - Len(s)]
OBVIOUS

Names == {"apply", "verify"} \cup CloneParts

\* Nothing of X is in the sequence, and everything of Y is.
Avoids(s, X) == \A i \in 1 .. Len(s) : s[i] \notin X
Has(s, Y) == \A y \in Y : \E i \in 1 .. Len(s) : s[i] = y

(***************************************************************************)
(* What two sequences avoid, their concatenation avoids.                   *)
(***************************************************************************)
LEMMA ConcatAvoids ==
  ASSUME NEW S, NEW s \in Seq(S), NEW t \in Seq(S), NEW X, Avoids(s, X), Avoids(t, X)
  PROVE  Avoids(s \o t, X)
<1> SUFFICES ASSUME NEW i \in 1 .. Len(s \o t) PROVE (s \o t)[i] \notin X
  BY DEF Avoids
<1>1. CASE i <= Len(s)
  <2>1. i \in 1 .. Len(s)
    BY <1>1
  <2> QED
    BY <2>1, Concat DEF Avoids
<1>2. CASE i > Len(s)
  <2>1. i \in Len(s) + 1 .. Len(s) + Len(t) /\ i - Len(s) \in 1 .. Len(t)
    BY <1>2, Concat
  <2> QED
    BY <2>1, Concat DEF Avoids
<1> QED
  BY <1>1, <1>2

(***************************************************************************)
(* What one of two sequences has, their concatenation has.                 *)
(***************************************************************************)
LEMMA ConcatHas ==
  ASSUME NEW S, NEW s \in Seq(S), NEW t \in Seq(S), NEW Y, NEW Z, Has(s, Y), Has(t, Z)
  PROVE  Has(s \o t, Y \cup Z)
<1>1. ASSUME NEW y \in Y PROVE \E i \in 1 .. Len(s \o t) : (s \o t)[i] = y
  <2>1. PICK i \in 1 .. Len(s) : s[i] = y
    BY DEF Has
  <2>2. i \in 1 .. Len(s \o t) /\ (s \o t)[i] = y
    BY <2>1, Concat
  <2> QED
    BY <2>2
<1>2. ASSUME NEW z \in Z PROVE \E i \in 1 .. Len(s \o t) : (s \o t)[i] = z
  <2>1. PICK i \in 1 .. Len(t) : t[i] = z
    BY DEF Has
  <2>2. Len(s) + i \in Len(s) + 1 .. Len(s) + Len(t) /\ (Len(s) + i) - Len(s) = i
    OBVIOUS
  <2>3. Len(s) + i \in 1 .. Len(s \o t) /\ (s \o t)[Len(s) + i] = z
    BY <2>1, <2>2, Concat
  <2> QED
    BY <2>3
<1> QED
  BY <1>1, <1>2 DEF Has

(***************************************************************************)
(* The order of the writes of clone_with: the table comes first, the copy  *)
(* of the boot partition before the volume ID and the environment it       *)
(* brings along, and every part the clone is to have is written.           *)
(***************************************************************************)
LEMMA StepsOrder ==
  ASSUME NEW b
  PROVE  LET steps == CloneSteps(b)
         IN  /\ steps \in Seq(Names)
             /\ \A i \in 2 .. Len(steps) : steps[i] # "apply"
             /\ \A j \in 1 .. Len(steps) : \A i \in 1 .. j - 1 :
                  steps[j] = "boot" => steps[i] \notin {"volid", "env1"}
             /\ Has(steps, {"apply", "etc", "data", "boot", "factory", "cert", "rootA", "env1"})
             /\ b.raw.bootloader_start # None => Has(steps, {"area"})
             /\ b.gpt => Has(steps, {"uuidBoot", "uuidRootA"})
             /\ b.grub => Has(steps, {"volid"})
             /\ ~b.grub /\ b.raw.env2 # None => Has(steps, {"env2"})
<1> DEFINE A == <<"apply", "verify">>
           B == IF b.raw.bootloader_start = None THEN <<>> ELSE <<"area">>
           C == <<"etc", "data", "boot", "factory", "cert", "rootA">>
           D == IF b.gpt THEN <<"uuidBoot", "uuidRootA">> ELSE <<>>
           E == IF b.grub THEN <<"volid", "env1">>
                ELSE IF b.raw.env2 = None THEN <<"env1">> ELSE <<"env1", "env2">>
           YB == IF b.raw.bootloader_start = None THEN {} ELSE {"area"}
           YD == IF b.gpt THEN {"uuidBoot", "uuidRootA"} ELSE {}
           YE == {"env1"} \cup (IF b.grub THEN {"volid"}
                                ELSE IF b.raw.env2 = None THEN {} ELSE {"env2"})
<1>1. /\ A \in Seq(Names) /\ Len(A) = 2 /\ A[1] = "apply" /\ A[2] = "verify"
      /\ Avoids(A, {"volid", "env1"}) /\ Has(A, {"apply"})
  BY DEF Names, Avoids, Has
<1>2. B \in Seq(Names) /\ Avoids(B, {"apply", "volid", "env1"}) /\ Has(B, YB)
  <2>1. CASE b.raw.bootloader_start = None
    BY <2>1 DEF Avoids, Has
  <2>2. CASE b.raw.bootloader_start # None
    BY <2>2 DEF Names, CloneParts, Avoids, Has
  <2> QED
    BY <2>1, <2>2
<1>3. /\ C \in Seq(Names) /\ Avoids(C, {"apply", "volid", "env1"})
      /\ Has(C, {"etc", "data", "boot", "factory", "cert", "rootA"})
  BY DEF Names, CloneParts, Avoids, Has
<1>4. D \in Seq(Names) /\ Avoids(D, {"apply", "volid", "env1"}) /\ Has(D, YD)
  <2>1. CASE b.gpt
    BY <2>1 DEF Names, CloneParts, Avoids, Has
  <2>2. CASE ~b.gpt
    BY <2>2 DEF Avoids, Has
  <2> QED
    BY <2>1, <2>2
<1>5. E \in Seq(Names) /\ Avoids(E, {"apply", "boot"}) /\ Has(E, YE)
  <2>1. CASE b.grub
    BY <2>1 DEF Names, CloneParts, Avoids, Has
  <2>2. CASE ~b.grub /\ b.raw.env2 = None
    BY <2>2 DEF Names, CloneParts, Avoids, Has
  <2>3. CASE ~b.grub /\ b.raw.env2 # None
    BY <2>3 DEF Names, CloneParts, Avoids, Has
  <2> QED
    BY <2>1, <2>2, <2>3
<1>6. CloneSteps(b) = (((A \o B) \o C) \o D) \o E
  BY DEF CloneSteps
<1> HIDE DEF A, B, C, D, E, YB, YD, YE
<1> DEFINE X == {"volid", "env1"}
           F == ((A \o B) \o C) \o D
           YC == {"etc", "data", "boot", "factory", "cert", "rootA"}
<1>7. Avoids(B, X) /\ Avoids(C, X) /\ Avoids(D, X)
  BY <1>2, <1>3, <1>4 DEF Avoids
<1> HIDE DEF X, YC
<1>8. /\ A \o B \in Seq(Names) /\ Avoids(A \o B, X) /\ Has(A \o B, {"apply"} \cup YB)
  BY <1>1, <1>2, <1>7, Concat, ConcatAvoids, ConcatHas DEF X
<1>9. /\ (A \o B) \o C \in Seq(Names) /\ Avoids((A \o B) \o C, X)
      /\ Has((A \o B) \o C, ({"apply"} \cup YB) \cup YC)
  BY <1>3, <1>7, <1>8, Concat, ConcatAvoids, ConcatHas DEF YC
<1>10. F \in Seq(Names) /\ Avoids(F, X) /\ Has(F, (({"apply"} \cup YB) \cup YC) \cup YD)
  BY <1>4, <1>7, <1>9, Concat, ConcatAvoids, ConcatHas
<1>11. F \o E \in Seq(Names) /\ Has(F \o E, ((({"apply"} \cup YB) \cup YC) \cup YD) \cup YE)
  <2> HIDE DEF F
  <2> QED
    BY <1>5, <1>10, Concat, ConcatHas
<1>12. \A i \in 2 .. Len(F \o E) : (F \o E)[i] # "apply"
  <2> DEFINE Only(s) == Len(s) >= 2 /\ \A i \in 2 .. Len(s) : s[i] # "apply"
  <2>1. ASSUME NEW s \in Seq(Names), NEW t \in Seq(Names), Only(s), Avoids(t, {"apply"})
        PROVE  Only(s \o t)
    <3>1. Len(s \o t) >= 2
      BY <2>1, Concat
    <3>2. ASSUME NEW i \in 2 .. Len(s \o t) PROVE (s \o t)[i] # "apply"
      <4>1. CASE i <= Len(s)
        <5>1. i \in 1 .. Len(s) /\ i \in 2 .. Len(s)
          BY <4>1
        <5> QED
          BY <2>1, <5>1, Concat
      <4>2. CASE i > Len(s)
        <5>1. i \in Len(s) + 1 .. Len(s) + Len(t) /\ i - Len(s) \in 1 .. Len(t)
          BY <4>2, Concat
        <5>2. t[i - Len(s)] # "apply"
          BY <2>1, <5>1 DEF Avoids
        <5> QED
          BY <5>1, <5>2, Concat
      <4> QED
        BY <4>1, <4>2
    <3> QED
      BY <3>1, <3>2
  <2>2. Only(A)
    BY <1>1
  <2>3. /\ Avoids(B, {"apply"}) /\ Avoids(C, {"apply"}) /\ Avoids(D, {"apply"})
        /\ Avoids(E, {"apply"})
    BY <1>2, <1>3, <1>4, <1>5 DEF Avoids
  <2> HIDE DEF Only
  <2>4. Only(A \o B)
    BY <1>1, <1>2, <2>1, <2>2, <2>3
  <2>5. Only((A \o B) \o C)
    BY <1>3, <1>8, <2>1, <2>3, <2>4
  <2>6. Only(F)
    BY <1>4, <1>9, <2>1, <2>3, <2>5
  <2> HIDE DEF F
  <2>7. Only(F \o E)
    BY <1>5, <1>10, <2>1, <2>3, <2>6
  <2> QED
    BY <2>7 DEF Only
<1>13. ASSUME NEW j \in 1 .. Len(F \o E), NEW i \in 1 .. j - 1, (F \o E)[j] = "boot"
       PROVE  (F \o E)[i] \notin {"volid", "env1"}
  <2> HIDE DEF F
  <2>1. j <= Len(F)
    <3> SUFFICES ASSUME j > Len(F) PROVE FALSE
      BY <1>10, <1>11
    <3>1. j \in Len(F) + 1 .. Len(F) + Len(E) /\ j - Len(F) \in 1 .. Len(E)
      BY <1>5, <1>10, Concat
    <3>2. E[j - Len(F)] = "boot"
      BY <1>5, <1>10, <1>13, <3>1, Concat
    <3> QED
      BY <1>5, <3>1, <3>2 DEF Avoids
  <2>2. i \in 1 .. Len(F)
    BY <1>10, <1>11, <2>1
  <2> QED
    BY <1>5, <1>10, <2>2, Concat DEF Avoids, X
<1> HIDE DEF F
<1>14. CloneSteps(b) = F \o E
  BY <1>6 DEF F
<1>15. /\ Has(F \o E, {"apply", "etc", "data", "boot", "factory", "cert", "rootA", "env1"})
       /\ b.raw.bootloader_start # None => Has(F \o E, {"area"})
       /\ b.gpt => Has(F \o E, {"uuidBoot", "uuidRootA"})
       /\ b.grub => Has(F \o E, {"volid"})
       /\ ~b.grub /\ b.raw.env2 # None => Has(F \o E, {"env2"})
  BY <1>11 DEF Has, YB, YC, YD, YE
<1> QED
  BY <1>11, <1>12, <1>13, <1>14, <1>15

(***************************************************************************)
(* A step that leaves the second disk alone leaves every part as it was.   *)
(***************************************************************************)
LEMMA CloneKept ==
  ASSUME clone' = clone, build' = build
  PROVE  CloneFresh' <=> CloneFresh
BY DEF CloneFresh, FreshTable

(***************************************************************************)
(* rewrite_dump yields the table of a newly flashed device: the data       *)
(* partition has its shipped size, and what is around it fits.             *)
(***************************************************************************)
LEMMA RewriteFresh ==
  ASSUME build \in Builds, NEW d \in Dumps
  PROVE  FreshTable(rewrite_dump(d, build))
<1> DEFINE size == build.raw.data_size * SectorsPerKb
           rest == rewrite_layout_specific(d, build, size)
           t == rewrite_dump(d, build)
<1>1. d.data_start \in Int /\ d.ext_start \in Int /\ d.ext_size \in Int /\ d.last \in Int
  BY CloneAssumption
<1>2. build.raw.data_size \in Int
  BY CloneAssumption
<1>3. size \in Int
  BY <1>2 DEF SectorsPerKb
<1>4. /\ t.data_start = d.data_start /\ t.data_size = size /\ t.ext_start = d.ext_start
      /\ t.ext_size = rest.ext_size /\ t.last = rest.last
  BY DEF rewrite_dump
<1> HIDE DEF t
<1>5. CASE build.gpt
  <2>1. rest.last = d.data_start + size - 1
    BY <1>5 DEF rewrite_layout_specific
  <2> QED
    BY <1>4, <1>5, <2>1 DEF FreshTable, t
<1>6. CASE ~build.gpt
  <2>1. rest.ext_size = d.data_start - d.ext_start + size
    BY <1>6 DEF rewrite_layout_specific
  <2> HIDE DEF size, rest
  <2>2. d.ext_start + (d.data_start - d.ext_start + size) = d.data_start + size
    BY <1>1, <1>3
  <2>3. t.ext_start + t.ext_size = t.data_start + t.data_size /\ t.data_size = size
    BY <1>4, <2>1, <2>2
  <2> QED
    BY <1>6, <2>3 DEF FreshTable, t, size
<1> QED
  BY <1>5, <1>6

(***************************************************************************)
(* A clone all of whose steps are done starts like a newly flashed device. *)
(***************************************************************************)
LEMMA AllDoneFresh ==
  ASSUME \A i \in 1 .. Len(CloneSteps(build)) : Done(CloneSteps(build)[i])
  PROVE  CloneFresh
<1>1. ASSUME NEW Y, Has(CloneSteps(build), Y), NEW y \in Y PROVE Done(y)
  <2>1. PICK i \in 1 .. Len(CloneSteps(build)) : CloneSteps(build)[i] = y
    BY <1>1 DEF Has
  <2> QED
    BY <2>1
<1>2. \A y \in {"apply", "etc", "data", "boot", "factory", "cert", "rootA", "env1"} : Done(y)
  BY <1>1, StepsOrder
<1>3. build.raw.bootloader_start # None => Done("area")
  BY <1>1, StepsOrder
<1>4. build.gpt => Done("uuidBoot") /\ Done("uuidRootA")
  BY <1>1, StepsOrder
<1>5. build.grub => Done("volid")
  BY <1>1, StepsOrder
<1>6. ~build.grub /\ build.raw.env2 # None => Done("env2")
  BY <1>1, StepsOrder
<1>7. /\ Done("apply") <=> FreshTable(clone.table)
      /\ \A p \in {"area", "boot", "factory", "cert", "rootA"} :
           Done(p) <=> clone.part[p] = "src"
      /\ \A p \in {"etc", "data", "env1", "env2", "volid", "uuidBoot", "uuidRootA"} :
           Done(p) <=> clone.part[p] = "own"
  BY DEF Done
<1> HIDE DEF Done
<1>8. FreshTable(clone.table)
  BY <1>2, <1>7
<1>9. /\ \A p \in {"boot", "factory", "cert", "rootA"} : clone.part[p] = "src"
      /\ \A p \in {"etc", "data", "env1"} : clone.part[p] = "own"
  BY <1>2, <1>7
<1> QED
  BY <1>3, <1>4, <1>5, <1>6, <1>7, <1>8, <1>9 DEF CloneFresh

(***************************************************************************)
(* A step of the clone is done afterwards, and the steps before it stay    *)
(* done.                                                                   *)
(***************************************************************************)
LEMMA DoneStep ==
  ASSUME DurableTypes, CloneTypes, PlanTypes, DestinationChecked, CloneSoFar, CloneStep(FALSE),
         NEW i \in 1 .. step + 1
  PROVE  Done(CloneSteps(build)[i])'
<1> DEFINE s == CloneSteps(build)[step + 1]
           r == CloneSteps(build)[i]
<1>1. /\ stage = "clone" /\ step \in Nat /\ step + 1 \in 1 .. Len(CloneSteps(build))
      /\ build' = build
  BY DEF CloneStep, RestUnchanged, PlanTypes
<1>2. CloneSteps(build) \in Seq(Names)
  BY StepsOrder
<1>3. s \in Names /\ r \in Names
  BY <1>1, <1>2
<1>4. /\ clone'.part = Effect(s, clone.part)
      /\ clone'.table = IF s = "apply" THEN plan ELSE clone.table
  BY CloneWrites
<1>5. CloneSteps(build)[i]' = r
  BY <1>1
<1>6. FreshTable(plan) /\ \A k \in 1 .. step : Done(CloneSteps(build)[k])
  BY <1>1 DEF CloneSoFar
<1>7. FreshTable(clone.table)' <=> FreshTable(IF s = "apply" THEN plan ELSE clone.table)
  BY <1>1, <1>4 DEF FreshTable
<1>8. clone.part \in [CloneParts -> {"old", "torn", "src", "own"}]
  BY DEF CloneTypes
<1>9. i = step + 1 \/ (i \in 1 .. step /\ step + 1 \in 2 .. Len(CloneSteps(build)))
  BY <1>1
<1>10. i # step + 1 =>
         /\ Done(r) /\ s # "apply"
         /\ s = "boot" => r \notin {"volid", "env1"}
  <2> SUFFICES ASSUME i # step + 1
               PROVE  Done(r) /\ s # "apply" /\ (s = "boot" => r \notin {"volid", "env1"})
    OBVIOUS
  <2>1. i \in 1 .. step /\ step + 1 \in 2 .. Len(CloneSteps(build))
        /\ i \in 1 .. (step + 1) - 1
    BY <1>1, <1>9
  <2> QED
    BY <1>1, <1>6, <2>1, StepsOrder
<1> HIDE DEF s, r
<1>11. CASE r = "apply"
  <2>1. FreshTable(clone.table)'
    <3>1. CASE s = "apply"
      BY <1>6, <1>7, <3>1
    <3>2. CASE s # "apply"
      <4>1. i # step + 1
        BY <1>11, <3>2 DEF r, s
      <4>2. FreshTable(clone.table)
        BY <1>10, <1>11, <4>1 DEF Done
      <4> QED
        BY <1>7, <3>2, <4>2
    <3> QED
      BY <3>1, <3>2
  <2> QED
    BY <1>5, <1>11, <2>1 DEF Done
<1>12. CASE r = "verify"
  BY <1>5, <1>12 DEF Done
<1>13. CASE r \in {"area", "boot", "factory", "cert", "rootA"}
  <2>1. r \in CloneParts
    BY <1>13 DEF CloneParts
  <2>2. s # r => clone.part[r] = "src" /\ s # "apply"
    BY <1>10, <1>13 DEF Done, r, s
  <2>3. CASE s = "boot"
    BY <1>5, <1>4, <1>8, <1>13, <2>1, <2>2, <2>3 DEF Done, Effect
  <2>4. CASE s \in {"area", "factory", "cert", "rootA"}
    BY <1>5, <1>4, <1>8, <1>13, <2>1, <2>2, <2>4 DEF Done, Effect
  <2>5. CASE s \notin {"boot", "area", "factory", "cert", "rootA"}
    BY <1>5, <1>4, <1>8, <1>13, <2>1, <2>2, <2>5 DEF Done, Effect
  <2> QED
    BY <2>3, <2>4, <2>5
<1>14. CASE r \notin {"apply", "verify", "area", "boot", "factory", "cert", "rootA"}
  <2>1. r \in CloneParts
    BY <1>3, <1>14 DEF Names
  <2>2. s # r => clone.part[r] = "own" /\ s # "apply" /\ (s = "boot" => r \notin {"volid", "env1"})
    BY <1>10, <1>14 DEF Done, r, s
  <2>3. clone'.part[r] = "own"
    <3>1. CASE s = "verify"
      BY <1>4, <1>8, <1>14, <2>1, <2>2, <3>1 DEF Effect
    <3>2. CASE s = "boot"
      BY <1>4, <1>8, <1>14, <2>1, <2>2, <3>2 DEF Effect
    <3>3. CASE s \in {"area", "factory", "cert", "rootA"}
      BY <1>4, <1>8, <1>14, <2>1, <2>2, <3>3 DEF Effect
    <3>4. CASE s \notin {"verify", "boot", "area", "factory", "cert", "rootA"}
      BY <1>4, <1>8, <1>14, <2>1, <2>2, <3>4 DEF Effect
    <3> QED
      BY <3>1, <3>2, <3>3, <3>4
  <2> QED
    BY <1>5, <1>14, <2>3 DEF Done
<1> QED
  BY <1>11, <1>12, <1>13, <1>14

(***************************************************************************)
(* Nothing happens to the second disk and to the run.                      *)
(***************************************************************************)
LEMMA CloneSoFarKept ==
  ASSUME CloneSoFar, UNCHANGED <<durable, stage, memory>>
  PROVE  CloneSoFar'
<1>1. /\ build' = build /\ clone' = clone /\ stage' = stage /\ mode' = mode
      /\ result' = result /\ step' = step /\ plan' = plan
  BY DEF durable, memory
<1>2. FreshTable(plan) => FreshTable(plan)'
  BY <1>1 DEF FreshTable
<1>3. FreshTable(clone.table) <=> FreshTable(clone.table)'
  BY <1>1 DEF FreshTable
<1>4. \A i \in 1 .. step : Done(CloneSteps(build)[i]) => Done(CloneSteps(build)[i])'
  BY <1>1, <1>3 DEF Done
<1> QED
  BY <1>1, <1>2, <1>4, CloneKept DEF CloneSoFar

(***************************************************************************)
(* The steps of the clone that are done stay done, so that a clone that    *)
(* ends is complete.                                                       *)
(***************************************************************************)
LEMMA CloneSoFarStep ==
  ASSUME DurableTypes, CloneTypes, PlanTypes, ModeOfStage, MemoryOfRun,
         DestinationChecked, CloneSoFar, [Next]_vars
  PROVE  CloneSoFar'
<1> USE DEF CloneSoFar
<1>1. ASSUME NEW more \in SUBSET {"other", "unknown"}, NEW f \in BOOLEAN,
             StartBoot(more, f)
      PROVE  CloneSoFar'
  BY <1>1, CloneKept DEF StartBoot, To, FreshBoot, EfiStages
<1>2. ASSUME NEW avail \in BOOLEAN, NEW err \in SUBSET EnvKeys, Detect(avail, err)
      PROVE  CloneSoFar'
  <2>1. stage' \notin EfiStages \cup {"clone", "persist"}
    BY <1>2 DEF Detect, To, EfiStages
  <2> QED
    BY <2>1
<1>3. ASSUME NEW kept \in FailedDeletes, Refuse(kept) PROVE CloneSoFar'
  BY <1>3, CloneKept DEF Refuse, To, EfiStages
<1>4. ASSUME NEW kept \in FailedDeletes, FactoryResetBoot(kept) PROVE CloneSoFar'
  BY <1>4, CloneKept DEF FactoryResetBoot, Goto, To, memory, EfiStages
<1>5. ASSUME NEW pending \in BOOLEAN, NEW rebootErr \in BOOLEAN,
             FatalError(pending, rebootErr)
      PROVE  CloneSoFar'
  BY <1>5, CloneKept, FatalEnds DEF FatalError, To, durable, memory, EfiStages
<1>6. ASSUME NEW kept \in FailedDeletes, ClearTriggers(kept) PROVE CloneSoFar'
  BY <1>6, CloneKept DEF ClearTriggers, Goto, To, memory, EfiStages
<1>7. ASSUME NEW res \in WithMountResults, PersistLog(res) PROVE CloneSoFar'
  BY <1>7, CloneKept DEF PersistLog, To, durable, EfiStages
<1>8. ASSUME NEW fails \in BOOLEAN, TerminalAction(fails) PROVE CloneSoFar'
  BY <1>8, CloneKept DEF TerminalAction, To, durable, EfiStages
<1>9. CASE EfiMount
  BY <1>9, CloneKept DEF EfiMount, Goto, To, durable, memory, EfiStages
<1>10. CASE EfiList
  BY <1>10, CloneKept DEF EfiList, Goto, To, durable, EfiStages
<1>11. CASE EfiCreate
  BY <1>11, CloneKept DEF EfiCreate, Goto, To, memory, EfiStages
<1>12. CASE EfiDump
  BY <1>12, CloneKept DEF EfiDump, Goto, To, durable, memory, EfiStages
<1>13. ASSUME NEW e \in old, EfiDelete(e) PROVE CloneSoFar'
  BY <1>13, CloneKept DEF EfiDelete, EfiStages
<1>14. ASSUME NEW res \in WithMountResults, EfiWrite(res) PROVE CloneSoFar'
  <2>1. /\ stage \in EfiStages /\ stage' = "persist" /\ clone' = clone /\ build' = build
        /\ mode' = mode
    BY <1>14 DEF EfiWrite, EndRun, To, durable, EfiStages
  <2> QED
    BY <2>1, CloneKept DEF EfiStages
<1>15. ASSUME NEW from \in EfiStages, EfiFails(from) PROVE CloneSoFar'
  BY <1>15, CloneKept DEF EfiFails, EndRun, To, durable, EfiStages
<1>16. ASSUME NEW noRandom \in BOOLEAN, SelectClone(noRandom) PROVE CloneSoFar'
  BY <1>16, CloneKept DEF SelectClone, EndRun, To, RestUnchanged, EfiStages
<1>17. CASE ResolveDestination
  BY <1>17, CloneKept DEF ResolveDestination, Goto, To, RestUnchanged, EfiStages
<1>18. CASE ResolveFails
  BY <1>18, CloneKept DEF ResolveFails, CloneFails, EndRun, To, RestUnchanged, EfiStages
<1>19. CASE ValidateDestination
  BY <1>19, CloneKept DEF ValidateDestination, EndRun, To, RestUnchanged, EfiStages
<1>20. ASSUME NEW left \in SUBSET {"boot", "rootfs"}, UnmountRootfs(left)
       PROVE  CloneSoFar'
  BY <1>20, CloneKept DEF UnmountRootfs, EndRun, To, RestUnchanged, EfiStages
<1>21. ASSUME NEW d \in Dumps, NEW fails \in BOOLEAN, DumpTable(d, fails)
       PROVE  CloneSoFar'
  <2>1. CASE fails \/ ~DumpUsable(d, build)
    BY <1>21, <2>1 DEF DumpTable, EndRun, To, EfiStages
  <2>2. CASE ~(fails \/ ~DumpUsable(d, build))
    <3>1. /\ stage = "dump" /\ stage' = "clone" /\ plan' = rewrite_dump(d, build)
          /\ step' = step /\ build' = build
      BY <1>21, <2>2 DEF DumpTable, To
    <3>2. step' = 0
      BY <3>1 DEF MemoryOfRun, EfiStages
    <3>3. FreshTable(plan)'
      <4>1. FreshTable(rewrite_dump(d, build))
        BY RewriteFresh DEF DurableTypes
      <4> QED
        BY <3>1, <4>1 DEF FreshTable
    <3> QED
      BY <3>1, <3>2, <3>3 DEF EfiStages
  <2> QED
    BY <2>1, <2>2
<1>22. ASSUME NEW fails \in BOOLEAN, CloneStep(fails) PROVE CloneSoFar'
  <2>1. CASE fails
    BY <1>22, <2>1 DEF CloneStep, EndRun, To, EfiStages
  <2>2. CASE ~fails
    <3>1. CloneStep(FALSE)
      BY <1>22, <2>2
    <3>2. /\ stage = "clone" /\ stage' = "clone" /\ step' = step + 1
          /\ plan' = plan /\ build' = build
      BY <1>22, <2>2 DEF CloneStep, RestUnchanged
    <3>3. \A i \in 1 .. step + 1 : Done(CloneSteps(build)[i])'
      BY <3>1, DoneStep
    <3>4. FreshTable(plan)'
      BY <3>2 DEF FreshTable
    <3> QED
      BY <3>2, <3>3, <3>4 DEF EfiStages
  <2> QED
    BY <2>1, <2>2
<1>23. CASE CloneWritten
  <2>1. stage = "clone" /\ step = Len(CloneSteps(build)) /\ clone' = clone /\ build' = build
    BY <1>23 DEF CloneWritten, RestUnchanged
  <2>2. CloneFresh
    BY <2>1, AllDoneFresh
  <2>3. stage' # "clone"
    BY <1>23 DEF CloneWritten, EndRun, To
  <2> QED
    BY <2>1, <2>2, <2>3, CloneKept
<1>24. CASE SelectScp
  BY <1>24, CloneKept DEF SelectScp, Goto, To, ScpRest, EfiStages
<1>25. ASSUME NEW left \in SUBSET mounts, UnmountTarget(left) PROVE CloneSoFar'
  BY <1>25, CloneKept DEF UnmountTarget, EndRun, To, ScpRest, EfiStages
<1>26. ASSUME NEW fails \in BOOLEAN, NEW addr, BringUp(fails, addr) PROVE CloneSoFar'
  BY <1>26, CloneKept DEF BringUp, EndRun, To, ScpRest, EfiStages
<1>27. ASSUME NEW fails \in BOOLEAN, CreateFifo(fails) PROVE CloneSoFar'
  BY <1>27, CloneKept DEF CreateFifo, EndRun, To, ScpRest, ModeOfStage, ScpStages,
       RecreateError, LoopStages, EfiStages
<1>28. CASE StartDropbear
  BY <1>28, CloneKept DEF StartDropbear, Goto, To, ScpRest, EfiStages
<1>29. CASE ScpFails("dropbear", "failed")
  BY <1>29, CloneKept DEF ScpFails, EndRun, To, ScpRest, EfiStages
<1>30. ASSUME NEW raw \in RawBmaps, NEW fails \in BOOLEAN, ReadBmap(raw, fails)
       PROVE  CloneSoFar'
  BY <1>30, CloneKept DEF ReadBmap, AttemptFails, To, ScpRest, EfiStages
<1>31. ASSUME NEW u, NEW fails \in BOOLEAN, VerifyUpload(u, fails) PROVE CloneSoFar'
  BY <1>31, CloneKept DEF VerifyUpload, To, ScpRest, EfiStages
<1>32. ASSUME NEW u, NEW fails \in BOOLEAN, NEW s, CopyToDisk(u, fails, s)
       PROVE  CloneSoFar'
  BY <1>32, CloneKept DEF CopyToDisk, PartlyWritten, To, ScpRest, EfiStages
<1>33. ASSUME NEW fails \in BOOLEAN, NEW s, ZeroHead(fails, s) PROVE CloneSoFar'
  BY <1>33, CloneKept DEF ZeroHead, PartlyWritten, To, ScpRest, EfiStages
<1>34. ASSUME NEW keeps \in BOOLEAN, RemoveFiles(keeps) PROVE CloneSoFar'
  BY <1>34, CloneKept DEF RemoveFiles, Goto, To, ScpRest, EfiStages
<1>35. ASSUME NEW noReader \in BOOLEAN, NEW keeps \in BOOLEAN,
              RemoveFifo(noReader, keeps)
       PROVE  CloneSoFar'
  BY <1>35, CloneKept DEF RemoveFifo, WriterAfterRemove, Goto, To, ScpRest, EfiStages
<1>36. ASSUME NEW fails \in BOOLEAN, RereadTable(fails) PROVE CloneSoFar'
  BY <1>36, CloneKept DEF RereadTable, EndRun, To, ScpRest, ModeOfStage, EfiStages
<1>37. CASE SelectUrl
  BY <1>37, CloneKept DEF SelectUrl, EndRun, To, UrlRest, EfiStages
<1>38. CASE OpenFails
  BY <1>38, CloneKept DEF OpenFails, EndRun, To, UrlRest, EfiStages
<1>39. ASSUME NEW fails \in BOOLEAN, DownloadSha(fails) PROVE CloneSoFar'
  BY <1>39, CloneKept DEF DownloadSha, EndRun, To, UrlRest, EfiStages
<1>40. ASSUME NEW fails \in BOOLEAN, CheckImage(fails) PROVE CloneSoFar'
  BY <1>40, CloneKept DEF CheckImage, EndRun, To, UrlRest, EfiStages
<1>41. ASSUME NEW ram, NEW img \in Images, NEW fails \in BOOLEAN,
              DownloadImage(ram, img, fails)
       PROVE  CloneSoFar'
  BY <1>41, CloneKept DEF DownloadImage, EndRun, To, UrlRest, EfiStages
<1>42. ASSUME NEW fails \in BOOLEAN, NEW s, WriteImage(fails, s) PROVE CloneSoFar'
  BY <1>42, CloneKept DEF WriteImage, EndRun, To, UrlRest, EfiStages
<1>43. CASE PushImage
  BY <1>43, CloneKept DEF PushImage, ScpRest, Reachable, EfiStages
<1>44. CASE GiveUp
  BY <1>44, CloneKept DEF GiveUp, ScpRest, Reachable, EfiStages
<1>45. ASSUME NEW state \in {"part", "done"}, PushBmap(state) PROVE CloneSoFar'
  BY <1>45, CloneKept DEF PushBmap, ScpRest, Reachable, EfiStages
<1>46. CASE Repair
  BY <1>46, CloneKept DEF Repair, Goto, To, memory, EfiStages
<1>47. CASE PowerLoss
  <2>1. stage' = "off"
    BY <1>47 DEF PowerLoss, To
  <2> QED
    BY <2>1 DEF EfiStages
<1>48. CASE Restart
  BY <1>48, CloneKept DEF Restart, To, FreshBoot, durable, EfiStages
<1>49. CASE Calm
  <2>1. UNCHANGED <<durable, stage, memory>>
    BY <1>49 DEF Calm
  <2> QED
    BY <2>1, CloneSoFarKept
<1>50. ASSUME NEW req \in Requests, Request(req) PROVE CloneSoFar'
  BY <1>50, CloneKept DEF Request, Goto, To, memory, EfiStages
<1>51. CASE UNCHANGED vars
  BY <1>51, CloneSoFarKept DEF vars
<1> HIDE DEF CloneSoFar
<1> QED
  BY <1>1, <1>2, <1>3, <1>4, <1>5, <1>6, <1>7, <1>8, <1>9, <1>10, <1>11, <1>12, <1>13,
       <1>14, <1>15, <1>16, <1>17, <1>18, <1>19, <1>20, <1>21, <1>22, <1>23, <1>24,
       <1>25, <1>26, <1>27, <1>28, <1>29, <1>30, <1>31, <1>32, <1>33, <1>34, <1>35,
       <1>36, <1>37, <1>38, <1>39, <1>40, <1>41, <1>42, <1>43, <1>44, <1>45, <1>46,
       <1>47, <1>48, <1>49, <1>50, <1>51 DEF Next, Step, BootNext, FrameNext, EfiNext,
       CloneNext, ScpStep, UrlNext, Operator, SentBmaps, ServedImages

-----------------------------------------------------------------------------
(***************************************************************************)
(* The theorems.                                                           *)
(***************************************************************************)

(***************************************************************************)
(* The invariant holds before the first boot.                              *)
(***************************************************************************)
LEMMA InvariantStarts == Init => IInv
<1> SUFFICES ASSUME Init PROVE IInv
  OBVIOUS
<1> USE DEF Init
<1>1. DurableTypes
  <2>1. env \in [EnvKeys -> ResetValues] /\ env["reset"] \in ResetValues
    BY DEF NoEnv, EnvKeys, ResetValues
  <2> QED
    BY <2>1 DEF DurableTypes, Cells
<1>2. EntryTypes
  BY DEF EntryTypes, FirmwareEntries, BootEntry
<1>3. CloneTypes
  BY DEF CloneTypes, BlankClone
<1>4. RunTypes
  BY DEF RunTypes, Stages
<1>5. UpTypes
  BY NoUploadType DEF UpTypes
<1>6. PlanTypes
  <2>1. Len(CloneSteps(build)) \in Nat
    BY StepsOrder
  <2> QED
    BY <2>1 DEF PlanTypes, Plans
<1>7. HistTypes
  BY DEF HistTypes, NoHist
<1>8. RefusedCleared
  BY DEF RefusedCleared, RefusedStaysRefused, NoHist
<1>9. ModeOfStage /\ MemoryOfRun /\ PlanChecked /\ DestinationChecked
  BY DEF ModeOfStage, MemoryOfRun, PlanChecked, DestinationChecked, CloneStages, ScpStages,
     LoopStages, UrlStages, BeforeRun, EfiStages
<1>10. CopyVerified /\ UploadNotStranded
  BY DEF CopyVerified, VerifiedBeforeDisk, UploadNotStranded, NoUp
<1>11. DiskOfStage
  BY DEF DiskOfStage, MountsSafe, NoHist, Untouched, BeforeRun, CloneStages, UrlStages,
     LoopStages, EfiStages
<1>12. OneDiskIntact
  BY DEF OneDiskIntact, Intact
<1>13. CloneSoFar /\ EntriesOfStage
  BY DEF CloneSoFar, EntriesOfStage, Untouched, BeforeRun, CloneStages, UrlStages,
     LoopStages, EfiStages
<1> HIDE DEF Init
<1> QED
  BY <1>1, <1>2, <1>3, <1>4, <1>5, <1>6, <1>7, <1>8, <1>9, <1>10, <1>11, <1>12, <1>13
     DEF IInv

(***************************************************************************)
(* Every step keeps the invariant.                                         *)
(***************************************************************************)
LEMMA InvariantKept == IInv /\ [Next]_vars => IInv'
<1> SUFFICES ASSUME IInv, [Next]_vars PROVE IInv'
  OBVIOUS
<1>1. /\ /\ DurableTypes /\ EntryTypes /\ CloneTypes /\ RunTypes /\ UpTypes /\ PlanTypes
      /\ HistTypes
      /\ RefusedCleared /\ ModeOfStage /\ MemoryOfRun /\ PlanChecked /\ CopyVerified
      /\ UploadNotStranded /\ DestinationChecked /\ DiskOfStage
      /\ OneDiskIntact /\ CloneSoFar /\ EntriesOfStage
  BY DEF IInv
<1>2. /\ DurableTypes' /\ EntryTypes' /\ CloneTypes' /\ RunTypes' /\ UpTypes' /\ PlanTypes'
      /\ HistTypes'
  BY <1>1, DurableStep, EntryStep, CloneTypesStep, RunStep, UpStep, PlanStep, HistStep
<1>3. RefusedCleared' /\ ModeOfStage' /\ MemoryOfRun' /\ PlanChecked' /\ CopyVerified'
  BY <1>1, RefusedStep, ModeStep, MemoryStep, PlanCheckedStep, VerifiedStep
<1>4. UploadNotStranded' /\ DestinationChecked' /\ DiskOfStage'
  BY <1>1, StrandedStep, DestinationStep, DiskStep
<1>5. OneDiskIntact' /\ CloneSoFar' /\ EntriesOfStage'
  BY <1>1, OneDiskStep, CloneSoFarStep, EntriesStep
<1> QED
  BY <1>2, <1>3, <1>4, <1>5 DEF IInv

(***************************************************************************)
(* IInv is an invariant of every device, for any number of boots,          *)
(* requests, faults and power losses.                                      *)
(***************************************************************************)
THEOREM InvariantHolds == Spec => []IInv
BY InvariantStarts, InvariantKept, PTL DEF Spec

(***************************************************************************)
(* The state always has its types.                                         *)
(***************************************************************************)
THEOREM TypeCorrect == Spec => []TypeOK
<1>1. IInv => TypeOK
  <2> SUFFICES ASSUME IInv PROVE TypeOK
    OBVIOUS
  <2>1. /\ build \in Builds /\ flag \in BOOLEAN /\ disk \in [Bytes -> Cells]
        /\ env \in [EnvKeys -> FlashValues \cup ResetValues \cup Destinations \cup UrlValues]
    BY DEF IInv, DurableTypes
  <2>2. /\ /\ nvram \subseteq [disk: {"own", "other", "usb"}, fresh: BOOLEAN]
        /\ old \subseteq nvram
        /\ clone.part \in [CloneParts -> {"old", "torn", "src", "own"}]
    BY DEF IInv, EntryTypes, CloneTypes
  <2>3. RunTypes /\ UpTypes /\ PlanTypes
    BY DEF IInv
  <2>4. /\ hist.want \subseteq 0 .. MaxU /\ hist.clean \subseteq HeadBytes
        /\ hist.refused \in {"no", "yes", "ran"}
        /\ \A f \in {"unsafe", "reader", "io"} : hist[f] \in BOOLEAN
    <3>1. HistTypes
      BY DEF IInv
    <3>2. hist.want \subseteq Bytes /\ Bytes \subseteq 0 .. MaxU
      BY <3>1, DiskAssumption DEF HistTypes, Bytes
    <3>3. hist.unsafe \in BOOLEAN /\ hist.reader \in BOOLEAN /\ hist.io \in BOOLEAN
      BY <3>1 DEF HistTypes
    <3> QED
      BY <3>1, <3>2, <3>3 DEF HistTypes
  <2> QED
    BY <2>1, <2>2, <2>3, <2>4 DEF TypeOK, RunTypes, UpTypes, PlanTypes
<1> QED
  BY <1>1, InvariantHolds, PTL

(***************************************************************************)
(* No partition of the running disk is mounted while the disk is partly    *)
(* written, nor through a table the disk no longer has (persist_run_log,   *)
(* write_entry_dump).                                                      *)
(***************************************************************************)
THEOREM MountsAreSafe == Spec => []MountsSafe
<1>1. IInv => MountsSafe
  BY DEF IInv, DiskOfStage
<1> QED
  BY <1>1, InvariantHolds, PTL

(***************************************************************************)
(* Whatever bmap the operator sends, the one in use is sound (read_bmap):  *)
(* the ranges are in order, do not overlap and end inside an image that    *)
(* fits the disk.                                                          *)
(***************************************************************************)
THEOREM BmapInUseSound == Spec => []BmapSound
<1>1. IInv => BmapSound
  <2> SUFFICES ASSUME IInv, mode = "2", plan # NoPlan PROVE Sound(plan)
    BY DEF BmapSound
  <2>1. plan \in CheckedPlans
    BY DEF IInv, PlanChecked
  <2> QED
    BY <2>1, CheckedIsSound DEF SoundPlan
<1> QED
  BY <1>1, InvariantHolds, PTL

(***************************************************************************)
(* A client that sends an image is left hanging in its open only when the  *)
(* init could not open the FIFO itself (remove_fifo).                      *)
(***************************************************************************)
THEOREM NobodyStranded == Spec => []UploadNotStranded
<1>1. IInv => UploadNotStranded
  BY DEF IInv
<1> QED
  BY <1>1, InvariantHolds, PTL

(***************************************************************************)
(* With the verify pass only an error of the disk itself leaves it partly  *)
(* written, and in mode 3 only such an error or an image that is not as    *)
(* long as its index says.                                                 *)
(***************************************************************************)
THEOREM DiskWrittenVerified == Spec => []VerifiedBeforeDisk
<1>1. IInv => VerifiedBeforeDisk
  BY DEF IInv, CopyVerified
<1> QED
  BY <1>1, InvariantHolds, PTL

(***************************************************************************)
(* A clone and a factory reset that were refused together never run, in    *)
(* this boot or in a later one, until the operator asks again              *)
(* (clear_flash_and_reset_triggers).                                       *)
(***************************************************************************)
THEOREM RefusedForGood == Spec => []RefusedStaysRefused
<1>1. IInv => RefusedStaysRefused
  BY DEF IInv, RefusedCleared
<1> QED
  BY <1>1, InvariantHolds, PTL

(***************************************************************************)
(* The firmware always has an entry of the running disk or of a disk that  *)
(* is completely written: efi::handle creates the new entry before it      *)
(* deletes the old ones, and mode 1 comes to it with a complete clone      *)
(* only.                                                                   *)
(***************************************************************************)
THEOREM EntryRemains == Spec => BootEntryRemains
<1>1. IInv /\ [Next]_vars =>
        [nvram' # nvram /\ nvram' # FirmwareEntries =>
           \E e \in nvram' : e.disk = "own" \/ (e.disk = "other" /\ CloneFresh)]_vars
  <2> SUFFICES ASSUME IInv, [Next]_vars, nvram' # nvram, nvram' # FirmwareEntries
               PROVE  \E e \in nvram' : e.disk = "own" \/ (e.disk = "other" /\ CloneFresh)
    OBVIOUS
  <2>1. EfiCreate \/ \E e \in old : EfiDelete(e)
    BY DEF Next, Step, BootNext, FrameNext, EfiNext, CloneNext, ScpStep, UrlNext, Operator,
       StartBoot, Detect, Refuse, FactoryResetBoot, FatalError, ClearTriggers, PersistLog,
       TerminalAction, EfiMount, EfiList, EfiDump, EfiWrite, EfiFails, SelectClone,
       ResolveDestination, ResolveFails, CloneFails, ValidateDestination, UnmountRootfs,
       DumpTable, CloneStep, CloneWritten, SelectScp, UnmountTarget, BringUp, CreateFifo,
       StartDropbear, ScpFails, ReadBmap, VerifyUpload, CopyToDisk, ZeroHead, RemoveFiles,
       RemoveFifo, RereadTable, SelectUrl, OpenFails, DownloadSha, CheckImage, DownloadImage,
       WriteImage, PushImage, GiveUp, PushBmap, Repair, PowerLoss, Restart, Calm, Request,
       RestUnchanged, ScpRest, UrlRest, durable, vars
  <2>2. BootEntry(Target, TRUE) \in nvram' /\ stage \in EfiStages
    <3>1. CASE EfiCreate
      BY <3>1 DEF EfiCreate, Goto, EfiStages
    <3>2. ASSUME NEW e \in old, EfiDelete(e)
          PROVE  BootEntry(Target, TRUE) \in nvram' /\ stage \in EfiStages
      BY <3>2 DEF EfiDelete, IInv, EntriesOfStage, EfiStages
    <3> QED
      BY <2>1, <3>1, <3>2
  <2>3. mode = "1" => CloneFresh
    BY <2>2 DEF IInv, CloneSoFar
  <2>4. BootEntry(Target, TRUE).disk = "own"
        \/ (BootEntry(Target, TRUE).disk = "other" /\ CloneFresh)
    BY <2>3 DEF BootEntry, Target
  <2> QED
    BY <2>2, <2>4
<1> QED
  BY <1>1, InvariantHolds, PTL DEF Spec, BootEntryRemains

(***************************************************************************)
(* A disk is overwritten or reset only when the operator asked for it: for *)
(* every content of the boot environment and every read that fails,        *)
(* detect_with chooses a mode exactly on the value that names it.  No      *)
(* value it does not know, no environment that is missing and no read      *)
(* error starts a mode, except that the enforce flag starts mode 2; and    *)
(* mode 1 never runs without knowing that no factory reset is asked for.   *)
(***************************************************************************)
THEOREM ModeOnlyIfAsked ==
  ASSUME NEW avail \in BOOLEAN, NEW present \in BOOLEAN,
         NEW value \in FlashValues \cup {"Err"}, NEW reset \in ResetValues \cup {"Err"}
  PROVE  LET chosen == detect_with(avail, present, value, reset)
         IN  /\ chosen \in {"1", "2", "3", "Reset", "Conflict", "Normal"}
             /\ chosen = "1" <=> avail /\ value = "1" /\ reset = "none"
             /\ chosen = "2" <=> IF present THEN ~avail \/ value # "1"
                                 ELSE avail /\ value = "2"
             /\ chosen = "3" <=> avail /\ ~present /\ value = "3"
             /\ chosen = "Reset" <=> /\ avail /\ ~present
                                     /\ value \in {"none", "junk"} /\ reset = "set"
             /\ chosen = "Conflict" <=> avail /\ value = "1" /\ reset = "set"
<1>1. value \in {"1", "2", "3", "none", "junk", "Err"} /\ reset \in {"none", "set", "Err"}
  BY DEF FlashValues, FlashModes, ResetValues
<1>2. CASE ~avail \/ value = "Err"
  BY <1>1, <1>2 DEF detect_with
<1>3. CASE avail /\ value # "Err"
  <2>1. Selected(value, present) = IF value = "1" THEN "1"
                                   ELSE IF present THEN "2"
                                   ELSE IF value \in {"2", "3"} THEN value ELSE "none"
    BY <1>1 DEF Selected, parse_mode, FlashModes
  <2> QED
    BY <1>1, <1>3, <2>1 DEF detect_with, Mode1Unless, ResetOrNormal
<1> QED
  BY <1>2, <1>3

=============================================================================
