------------------------------- MODULE Flash -------------------------------
(***************************************************************************)
(* A device with the three flash modes over any number of boots: the       *)
(* detection of the mode, the run, the recovery policy, the operator who   *)
(* sets the variables, and a power supply that may fail between any two    *)
(* steps and in the middle of a write.  A factory reset and a normal boot  *)
(* are one step here; FactoryReset and BootSequence model them.            *)
(*                                                                         *)
(* The second disk is moved to its machine, or erased, before the next     *)
(* boot, as docs/usage.md demands: a clone that was cut off may carry the  *)
(* volume ID of the source, by which GRUB and the init find their disk.    *)
(***************************************************************************)
EXTENDS CloneMode, UrlMode

Stages ==
  {"off", "detect", "refuse", "reset", "running", "dead", "clear", "select",
   "resolve", "validate", "release", "dump", "clone",
   "unmount", "net", "fifo", "dropbear", "bmap", "verify", "copy", "zero", "cleanup",
   "unfifo", "refifo", "sha", "ram", "check", "write", "reread",
   "persist", "terminal", "failed", "halted", "shell"} \cup EfiStages

Plans == {NoPlan} \cup {parse(r) : r \in {q \in RawBmaps : ParseOk(q)}}
         \cup {rewrite_dump(d, b) : d \in Dumps, b \in Builds}

TypeOK ==
  /\ build \in Builds
  /\ env \in [EnvKeys -> FlashValues \cup ResetValues \cup Destinations \cup UrlValues]
  /\ flag \in BOOLEAN
  /\ nvram \subseteq [disk: {"own", "other", "usb"}, fresh: BOOLEAN] /\ old \subseteq nvram
  /\ disk \in [Bytes -> Cells]
  /\ clone.part \in [CloneParts -> {"old", "torn", "src", "own"}]
  /\ stage \in Stages
  /\ error \in Errors \cup {"none"}
  /\ mode \in FlashModes \cup {"none"}
  /\ result \in {"none", "ok", "failed", "partly", "stale"}
  /\ table \in BOOLEAN
  /\ mounts \subseteq {"rootfs", "boot", "other", "unknown", "log"}
  /\ step \in 0 .. Len(CloneSteps(build))
  /\ plan \in Plans
  /\ up \in [fifo: {"none", "fifo", "file"}, bmap: {"none", "part", "done"},
             writer: {"idle", "waiting", "stranded"}, written: BOOLEAN,
             decoded: [len: 0 .. MaxU, flip: {None} \cup Bytes]]
  /\ got \in Images \cup {NoGot}
  /\ hist.want \subseteq 0 .. MaxU /\ hist.clean \subseteq HeadBytes
  /\ hist.refused \in {"no", "yes", "ran"}
  /\ \A f \in {"unsafe", "reader", "io"} : hist[f] \in BOOLEAN
  /\ calm \in BOOLEAN

\* The entries before a run; the firmware registers its devices anew at power-on.
FirmwareEntries == {BootEntry("own", FALSE), BootEntry("usb", FALSE)}

Init ==
  /\ build \in Builds
  /\ env = NoEnv /\ flag \in BOOLEAN
  /\ nvram = FirmwareEntries
  /\ disk = [b \in Bytes |-> "old"]
  /\ clone = BlankClone
  /\ stage = "off" /\ error = "none" /\ mode = "none" /\ cfg = NoCfg /\ result = "none"
  /\ table = TRUE /\ mounts = {} /\ step = 0 /\ old = {} /\ plan = NoPlan
  /\ up = NoUp /\ got = NoGot
  /\ hist = NoHist
  /\ calm = FALSE

FreshBoot ==
  /\ error' = "none" /\ mode' = "none" /\ cfg' = NoCfg /\ result' = "none"
  /\ table' = TRUE /\ step' = 0 /\ old' = {} /\ plan' = NoPlan
  /\ up' = NoUp /\ got' = NoGot

(***************************************************************************)
(* The firmware starts the disk.  After a finished flash the new image     *)
(* starts with the environment it brought along; a partly written disk     *)
(* does not start.  Mounted at the choice of the mode are the rootfs and   *)
(* the boot partition, and perhaps something a failed step left behind.    *)
(***************************************************************************)
StartBoot(more, newFlag) ==
  /\ stage = "off"
  /\ more \subseteq {"other", "unknown"}
  /\ more # {} => Faulty
  /\ (newFlag = flag) \/ (Written /\ Faulty)
  /\ FreshBoot
  /\ nvram' = FirmwareEntries
  /\ clone' = BlankClone
  /\ IF Intact \/ Written
     THEN /\ To("detect")
          /\ disk' = [b \in Bytes |-> "old"]
          /\ env' = IF Written THEN NoEnv ELSE env
          /\ flag' = newFlag
          /\ mounts' = {"rootfs", "boot"} \cup more
          /\ hist' = FreshRun(hist)
     ELSE /\ To("dead") /\ mounts' = {}
          /\ UNCHANGED <<disk, env, flag, hist>>
  /\ UNCHANGED <<build, calm>>

\* Somebody installs an image on a disk that does not start.
Repair ==
  /\ Goto("dead", "off")
  /\ disk' = [b \in Bytes |-> "old"] /\ env' = NoEnv
  /\ hist' = FreshRun(hist)
  /\ UNCHANGED <<build, flag, nvram, clone, memory, calm>>

(***************************************************************************)
(* BootMode::detect and build_flash_config.  err holds the variables whose *)
(* read fails.  Without a boot environment only a release image goes on    *)
(* (classify_boot_env).                                                    *)
(***************************************************************************)
Read(k, err) == IF k \in err THEN "Err" ELSE env[k]

Config(m, avail, err) ==
  [avail |-> avail,
   dev   |-> IF m = "1" THEN parse_devpath(Read("dev", err)) ELSE NotSet,
   image |-> IF m = "3" THEN parse_url(Read("image", err)) ELSE NotSet,
   sha   |-> IF m = "3" THEN parse_url(Read("sha", err)) ELSE NotSet]

NotBefore(ran) == IF hist.refused = "yes" /\ ran THEN "ran" ELSE hist.refused

Detect(avail, err) ==
  /\ stage = "detect"
  /\ (~avail \/ err # {}) => Faulty
  /\ LET m == detect_with(avail, flag, Read("flash", err), Read("reset", err))
     IN  IF ~avail /\ ~Release
         THEN To("failed") /\ error' = "DegradedBoot" /\ UNCHANGED <<mode, cfg, hist>>
         ELSE /\ To(CASE m = "Normal" -> "running" [] m = "Reset" -> "reset"
                      [] m = "Conflict" -> "refuse" [] OTHER -> "clear")
              /\ mode' = IF m \in FlashModes THEN m ELSE "none"
              /\ cfg' = IF m \in FlashModes THEN Config(m, avail, err) ELSE NoCfg
              /\ hist' = [hist EXCEPT !.refused = NotBefore(m \in {"Reset", "1"})]
              /\ UNCHANGED error
  /\ UNCHANGED <<durable, result, table, mounts, step, old, plan, up, got, calm>>

\* Mutated form of Refuse: only the flash triggers are deleted.
RefuseKeepsReset(kept) ==
  /\ stage = "refuse"
  /\ kept # {} => Faulty
  /\ env' = Deleted(FlashKeys, kept)
  /\ To("failed") /\ error' = "Flash"
  /\ hist' = [hist EXCEPT !.refused = IF kept = {} THEN "yes" ELSE "no"]
  /\ UNCHANGED <<build, flag, nvram, disk, clone, mode, cfg, result, table, mounts, step,
                 old, plan, up, got, calm>>

\* clear_flash_and_reset_triggers, then ConflictingTriggers.
Refuse(kept) ==
  /\ stage = "refuse"
  /\ kept # {} => Faulty
  /\ env' = Deleted(EnvKeys, kept)
  /\ To("failed") /\ error' = "Flash"
  /\ hist' = [hist EXCEPT !.refused = IF kept = {} THEN "yes" ELSE "no"]
  /\ UNCHANGED <<build, flag, nvram, disk, clone, mode, cfg, result, table, mounts, step,
                 old, plan, up, got, calm>>

\* The factory reset deletes its trigger and boots on.
FactoryResetBoot(kept) ==
  /\ Goto("reset", "running")
  /\ kept # {} => Faulty
  /\ env' = Deleted({"reset"}, kept)
  /\ UNCHANGED <<build, flag, nvram, disk, clone, memory, hist, calm>>

FatalError(pending, rebootErr) ==
  /\ stage = "failed"
  /\ pending \in BOOLEAN /\ rebootErr \in Fault
  /\ To(handle_fatal_error(error, Release, pending, rebootErr))
  /\ UNCHANGED <<durable, memory, hist, calm>>

(***************************************************************************)
(* The operator sets the variables of one or two modes and reboots.        *)
(***************************************************************************)
Requests ==
  {[flash |-> "1", reset |-> r, dev |-> d, image |-> "none", sha |-> "none"] :
     r \in ResetValues, d \in Destinations \cup {"none"}}
  \cup {[flash |-> "3", reset |-> r, dev |-> "none", image |-> i, sha |-> s] :
     r \in ResetValues, i \in UrlValues, s \in {"none", "ok"}}
  \cup {[flash |-> f, reset |-> r, dev |-> "none", image |-> "none", sha |-> "none"] :
     f \in {"none", "junk", "2"}, r \in ResetValues}

Request(req) ==
  /\ ~calm
  /\ Goto("running", "off")
  /\ env' = req
  /\ hist' = [hist EXCEPT !.refused = "no"]
  /\ UNCHANGED <<build, flag, nvram, disk, clone, memory, calm>>

PowerLoss ==
  /\ ~calm /\ stage \notin {"off", "dead"}
  /\ To("off")
  /\ FreshBoot /\ mounts' = {}
  /\ disk' \in IF stage = "write" THEN UrlCut ELSE ScpCut
  /\ hist' = IF stage = "copy"
             THEN [hist EXCEPT !.want = Mapped(plan), !.clean = HeadBytes \ Mapped(plan)]
             ELSE IF stage = "write" THEN [hist EXCEPT !.want = 0 .. got.size - 1] ELSE hist
  /\ \E parts \in CloneCut : clone' = [clone EXCEPT !.part = parts]
  /\ UNCHANGED <<build, env, flag, nvram, calm>>

\* A running, halted or waiting device is switched off and on.
Restart ==
  /\ stage \in {"running", "halted", "shell"}
  /\ To("off")
  /\ FreshBoot /\ mounts' = {}
  /\ UNCHANGED <<durable, hist, calm>>

Calm ==
  /\ ~calm /\ calm' = TRUE
  /\ UNCHANGED <<durable, stage, memory, hist>>

BootNext ==
  \/ \E more \in SUBSET {"other", "unknown"}, f \in BOOLEAN : StartBoot(more, f)
  \/ \E avail \in BOOLEAN, err \in SUBSET EnvKeys : Detect(avail, err)
  \/ \E kept \in FailedDeletes : Refuse(kept) \/ FactoryResetBoot(kept)
  \/ \E pending, rebootErr \in BOOLEAN : FatalError(pending, rebootErr)

Step == BootNext \/ FrameNext \/ EfiNext \/ CloneNext \/ ScpStep \/ UrlNext

Next ==
  \/ Step \/ Operator \/ Repair \/ PowerLoss \/ Restart \/ Calm
  \/ \E req \in Requests : Request(req)

Spec == Init /\ [][Next]_vars

(***************************************************************************)
(* The init goes on by itself, the operator keeps sending what is asked    *)
(* for, and the faults end.                                                *)
(***************************************************************************)
FairSpec ==
  /\ Spec
  /\ WF_vars(Step) /\ WF_vars(Calm)
  /\ WF_vars(PushBmap("done")) /\ WF_vars(PushImage) /\ WF_vars(GiveUp)
(***************************************************************************)
(* Properties.                                                             *)
(***************************************************************************)

\* What DiskFlash sees of a device.
Phase ==
  CASE mode = "none" \/ stage \in {"off", "dead"} -> "idle"
    [] OTHER -> IF result = "none" THEN IF mode = "1" THEN "clone" ELSE "overwrite"
                ELSE IF stage = "persist" THEN IF result = "ok" THEN "finished" ELSE "failed"
                ELSE IF keeps_log(result) THEN "logged" ELSE "failed"

OwnContent == IF Intact THEN "intact" ELSE IF Complete THEN "complete" ELSE "partial"
SecondContent ==
  IF clone = BlankClone THEN "intact" ELSE IF CloneFresh THEN "complete" ELSE "partial"

DF == INSTANCE DiskFlash WITH own <- OwnContent, second <- SecondContent, phase <- Phase

\* The three modes keep the promise of DiskFlash: the disk that is not the
\* target stays as it is, a run finishes only with a complete disk (for mode 2
\* with a head that has nothing of the old image), and its log never goes onto
\* a partly written disk.
ImplementsDiskFlash == DF!Spec

\* No partition of the running disk is mounted while the disk is partly
\* written, nor through a partition table the disk no longer has: not for the
\* run log, not for the dump of the EFI entries.
MountsSafe == ~hist.unsafe

\* A bmap in use has ranges in order, without overlap, inside the image, and
\* the image fits the disk, whatever file the operator sent.
BmapSound == mode = "2" /\ plan # NoPlan => Sound(plan)

\* At every moment the firmware has an entry of the running disk or of a disk
\* that is completely written: the new entry comes before the old ones go.
BootEntryRemains ==
  [][nvram' # nvram /\ nvram' # FirmwareEntries =>
       \E e \in nvram' : e.disk = "own" \/ (e.disk = "other" /\ CloneFresh)]_vars

\* A client that sends an image is never left hanging in its open, unless the
\* init could not open the FIFO itself.
UploadNotStranded == up.writer = "stranded" => ~hist.reader

\* With the verify pass only an error of the disk itself leaves it partly
\* written; a broken transfer never does.  In mode 3 neither, unless the image
\* with the right digest is not as long as its index says.
VerifiedBeforeDisk ==
  /\ mode = "2" /\ ~build.direct /\ up.written => hist.io
  /\ mode = "3" /\ stage = "persist" /\ result = "partly" => hist.io \/ got.len # got.size

\* A clone and a factory reset requested together: neither runs, now or in a
\* later boot, until the operator asks again.
RefusedStaysRefused == hist.refused # "ran"

\* The flash of a request is not repeated for ever: from some time on no mode
\* starts but for the enforce flag.
FlashNotRepeated == <>[](stage # "select" \/ flag)

\* scp.rs: "a failed attempt, even one that left the disk unbootable, can be
\* repaired by a new upload as long as the device stays powered".  A client that
\* sends its image early is no reason to give up a disk that is partly written.
RetryPossible == mode = "2" /\ result = "partly" => up.fifo # "file"
=============================================================================
