--------------------------- MODULE FlashRefinement ---------------------------
(***************************************************************************)
(* Flash implements DiskFlash: whatever happens to a device, its two disks *)
(* and its run behave as DiskFlash promises. Every step of Flash is a step *)
(* of DiskFlash or leaves what DiskFlash sees as it is; IInv of            *)
(* FlashProofs says why.                                                   *)
(***************************************************************************)
EXTENDS FlashProofs

Refines == [DF!Next]_(DF!vars)

(***************************************************************************)
(* What DiskFlash sees of a disk is one of three contents.                 *)
(***************************************************************************)
LEMMA ContentTypes ==
  /\ OwnContent \in DF!Contents /\ SecondContent \in DF!Contents
  /\ OwnContent' \in DF!Contents /\ SecondContent' \in DF!Contents
BY DEF OwnContent, SecondContent, DF!Contents

(***************************************************************************)
(* A step that leaves the disks alone changes nothing of them.             *)
(***************************************************************************)
LEMMA ContentKept ==
  ASSUME disk' = disk, hist'.want = hist.want, hist'.clean = hist.clean,
         clone' = clone, build' = build
  PROVE  OwnContent' = OwnContent /\ SecondContent' = SecondContent
<1>1. (Intact' <=> Intact) /\ (Complete' <=> Complete) /\ (CloneFresh' <=> CloneFresh)
  BY DiskKept, CloneKept
<1> QED
  BY <1>1 DEF OwnContent, SecondContent

(***************************************************************************)
(* A clone that is complete is not a disk that was left alone.             *)
(***************************************************************************)
LEMMA FreshSeen ==
  ASSUME CloneFresh
  PROVE  SecondContent = "complete"
<1>1. clone # BlankClone
  BY DEF CloneFresh, BlankClone, CloneParts
<1> QED
  BY <1>1 DEF SecondContent

(***************************************************************************)
(* A disk that is completely written is not the one that was there.        *)
(***************************************************************************)
LEMMA CompleteSeen ==
  ASSUME HistTypes, Complete
  PROVE  OwnContent = "complete"
<1>1. hist.want \subseteq Bytes
  BY DEF HistTypes
<1>2. ~Intact
  BY <1>1 DEF Complete, Written, Intact
<1> QED
  BY <1>2 DEF OwnContent

(***************************************************************************)
(* What DiskFlash sees of a mode that goes on, and of one that ends.       *)
(***************************************************************************)
LEMMA PhaseRuns ==
  ASSUME mode \in FlashModes, stage \notin {"off", "dead"}, result = "none", mode' = mode
  PROVE  /\ Phase = IF mode = "1" THEN "clone" ELSE "overwrite"
         /\ stage' \notin {"off", "dead"} /\ result' = "none" => Phase' = Phase
         /\ stage' = "persist" /\ result' # "none" =>
              Phase' = IF result' = "ok" THEN "finished" ELSE "failed"
<1>1. mode # "none"
  BY DEF FlashModes
<1> QED
  BY <1>1 DEF Phase

(***************************************************************************)
(* What DiskFlash sees stays as it is.                                     *)
(***************************************************************************)
LEMMA Stutters ==
  ASSUME OwnContent' = OwnContent, SecondContent' = SecondContent, Phase' = Phase
  PROVE  Refines
BY DEF Refines, DF!vars

(***************************************************************************)
(* A mode that writes its disk, or that fails with it: the other disk      *)
(* stays as it is.                                                         *)
(***************************************************************************)
LEMMA WritesOrFails ==
  ASSUME mode \in FlashModes, stage \notin {"off", "dead"}, result = "none", mode' = mode,
         IF mode = "1" THEN OwnContent' = OwnContent ELSE SecondContent' = SecondContent,
         \/ stage' \notin {"off", "dead"} /\ result' = "none"
         \/ stage' = "persist" /\ result' \notin {"none", "ok"}
  PROVE  Refines
<1>1. CASE stage' \notin {"off", "dead"} /\ result' = "none"
  <2>1. Phase = (IF mode = "1" THEN "clone" ELSE "overwrite") /\ Phase' = Phase
    BY <1>1, PhaseRuns
  <2>2. CASE mode = "1"
    <3>1. DF!WriteSecond
      BY <2>1, <2>2, ContentTypes DEF DF!WriteSecond
    <3> QED
      BY <3>1 DEF Refines, DF!Next
  <2>3. CASE mode # "1"
    <3>1. DF!WriteOwn
      BY <2>1, <2>3, ContentTypes DEF DF!WriteOwn
    <3> QED
      BY <3>1 DEF Refines, DF!Next
  <2> QED
    BY <2>2, <2>3
<1>2. CASE stage' = "persist" /\ result' \notin {"none", "ok"}
  <2>1. Phase = (IF mode = "1" THEN "clone" ELSE "overwrite") /\ Phase' = "failed"
    BY <1>2, PhaseRuns
  <2>2. DF!Fail
    BY <2>1, ContentTypes DEF DF!Fail
  <2> QED
    BY <2>2 DEF Refines, DF!Next
<1> QED
  BY <1>1, <1>2

(***************************************************************************)
(* A step of a mode that writes no disk.                                   *)
(***************************************************************************)
LEMMA QuietStep ==
  ASSUME mode \in FlashModes, stage \notin {"off", "dead"}, result = "none", mode' = mode,
         disk' = disk, hist'.want = hist.want, hist'.clean = hist.clean,
         clone' = clone, build' = build,
         \/ stage' \notin {"off", "dead"} /\ result' = "none"
         \/ stage' = "persist" /\ result' \notin {"none", "ok"}
  PROVE  Refines
<1>1. OwnContent' = OwnContent /\ SecondContent' = SecondContent
  BY ContentKept
<1> QED
  BY <1>1, WritesOrFails

(***************************************************************************)
(* A mode that finishes has a complete disk.                               *)
(***************************************************************************)
LEMMA Finishes ==
  ASSUME mode \in FlashModes, stage \notin {"off", "dead"}, result = "none", mode' = mode,
         disk' = disk, hist'.want = hist.want, hist'.clean = hist.clean,
         clone' = clone, build' = build, stage' = "persist", result' = "ok",
         HistTypes, IF mode = "1" THEN CloneFresh ELSE Complete
  PROVE  Refines
<1>1. OwnContent' = OwnContent /\ SecondContent' = SecondContent
  BY ContentKept
<1>2. Phase = (IF mode = "1" THEN "clone" ELSE "overwrite") /\ Phase' = "finished"
  BY PhaseRuns
<1>3. IF mode = "1" THEN SecondContent = "complete" ELSE OwnContent = "complete"
  BY FreshSeen, CompleteSeen
<1>4. DF!Finish
  BY <1>1, <1>2, <1>3 DEF DF!Finish
<1> QED
  BY <1>4 DEF Refines, DF!Next

(***************************************************************************)
(* The device is switched off, or it boots on without a flash mode, with   *)
(* the disks it has.                                                       *)
(***************************************************************************)
LEMMA StopsQuietly ==
  ASSUME disk' = disk, hist'.want = hist.want, hist'.clean = hist.clean,
         clone' = clone, build' = build, stage' \in {"off", "dead"} \/ mode' = "none"
  PROVE  Refines
<1>1. OwnContent' = OwnContent /\ SecondContent' = SecondContent
  BY ContentKept
<1>2. Phase' = "idle"
  BY DEF Phase
<1>3. DF!Stop
  BY <1>1, <1>2, ContentTypes DEF DF!Stop
<1> QED
  BY <1>3 DEF Refines, DF!Next

(***************************************************************************)
(* The running stages belong to a mode that has no result yet.             *)
(***************************************************************************)
LEMMA RunsAMode ==
  ASSUME ModeOfStage,
         stage \in ({"clear", "select", "unmount", "net", "reread"} \cup CloneStages
                    \cup ScpStages \cup UrlStages \cup EfiStages)
  PROVE  mode \in FlashModes /\ stage \notin {"off", "dead"} /\ result = "none"
BY DEF ModeOfStage, FlashModes, CloneStages, ScpStages, LoopStages, UrlStages, EfiStages

(***************************************************************************)
(* Every step of Flash is a step of DiskFlash, or one DiskFlash does not   *)
(* see: the detection of a mode begins a run, an error of any step fails   *)
(* it, and only a step that has checked its disk, or that can rely on one  *)
(* that has, finishes it.                                                  *)
(***************************************************************************)
LEMMA StepRefines ==
  ASSUME DurableTypes, HistTypes, CloneTypes, ModeOfStage, DestinationChecked,
       DiskOfStage, OneDiskIntact, CloneSoFar, [Next]_vars
  PROVE  Refines
<1>1. ASSUME NEW more \in SUBSET {"other", "unknown"}, NEW f \in BOOLEAN,
             StartBoot(more, f)
      PROVE  Refines
  <2>1. CASE Intact \/ Written
    <3>1. /\ disk' = [b \in Bytes |-> "old"] /\ clone' = BlankClone /\ mode' = "none"
          /\ stage = "off"
      BY <1>1, <2>1 DEF StartBoot, FreshBoot
    <3>2. OwnContent' = "intact" /\ SecondContent' = "intact"
      BY <3>1 DEF OwnContent, SecondContent, Intact
    <3>3. Phase = "idle" /\ Phase' = "idle"
      BY <3>1 DEF Phase
    <3>4. DF!Restart
      BY <3>2, <3>3 DEF DF!Restart
    <3> QED
      BY <3>4 DEF Refines, DF!Next
  <2>2. CASE ~(Intact \/ Written)
    <3>1. clone = BlankClone
      BY <2>2 DEF OneDiskIntact
    <3> QED
      BY <1>1, <2>2, <3>1, StopsQuietly DEF StartBoot, FreshBoot
  <2> QED
    BY <2>1, <2>2
<1>2. ASSUME NEW avail \in BOOLEAN, NEW err \in SUBSET EnvKeys, Detect(avail, err)
      PROVE  Refines
  <2>1. stage = "detect" /\ mode = "none" /\ result = "none" /\ result' = result /\ Intact
    BY <1>2 DEF Detect, ModeOfStage, BeforeRun, DiskOfStage, Untouched
  <2>2. OwnContent' = OwnContent /\ SecondContent' = SecondContent
    BY <1>2, DetectKeeps, ContentKept DEF Detect, durable
  <2>3. Phase = "idle" /\ OwnContent = "intact"
    BY <2>1 DEF Phase, OwnContent
  <2>4. CASE mode' = "none"
    <3>1. Phase' = "idle"
      BY <2>4 DEF Phase
    <3> QED
      BY <2>2, <2>3, <3>1, Stutters
  <2>5. CASE stage' = "clear" /\ mode' \in FlashModes
    <3>1. Phase' \in {"clone", "overwrite"}
      BY <2>1, <2>5 DEF Phase, FlashModes
    <3>2. DF!Begin(Phase')
      BY <2>2, <2>3, <3>1 DEF DF!Begin
    <3> QED
      BY <3>1, <3>2 DEF Refines, DF!Next
  <2> QED
    BY <1>2, <2>1, <2>4, <2>5, DetectEnds
<1>3. ASSUME NEW kept \in FailedDeletes, Refuse(kept) PROVE Refines
  BY <1>3, StopsQuietly DEF Refuse, HistTypes, ModeOfStage, BeforeRun
<1>4. ASSUME NEW kept \in FailedDeletes, FactoryResetBoot(kept) PROVE Refines
  BY <1>4, StopsQuietly DEF FactoryResetBoot, Goto, memory, ModeOfStage, BeforeRun
<1>5. ASSUME NEW pending \in BOOLEAN, NEW rebootErr \in BOOLEAN,
             FatalError(pending, rebootErr)
      PROVE  Refines
  <2>1. CASE stage' = "off"
    BY <1>5, <2>1, StopsQuietly DEF FatalError, durable, memory
  <2>2. CASE stage' \in {"halted", "shell"}
    <3>1. Phase' = Phase
      BY <1>5, <2>2 DEF FatalError, memory, Phase
    <3>2. OwnContent' = OwnContent /\ SecondContent' = SecondContent
      BY <1>5, ContentKept DEF FatalError, durable
    <3> QED
      BY <3>1, <3>2, Stutters
  <2> QED
    BY <1>5, <2>1, <2>2, FatalEnds
<1>6. ASSUME NEW kept \in FailedDeletes, ClearTriggers(kept) PROVE Refines
  <2>1. mode \in FlashModes /\ stage \notin {"off", "dead"} /\ result = "none"
    BY <1>6, RunsAMode DEF ClearTriggers, Goto, To, memory, CloneStages, ScpStages,
         LoopStages, UrlStages, EfiStages
  <2> QED
    BY <1>6, <2>1, QuietStep DEF ClearTriggers, Goto, To, memory
<1>7. ASSUME NEW res \in WithMountResults, PersistLog(res) PROVE Refines
  <2>1. /\ stage = "persist" /\ mode \in FlashModes /\ mode # "none" /\ result # "none"
        /\ stage' \in {"terminal", "failed"} /\ mode' = mode /\ result' = result
    BY <1>7 DEF PersistLog, To, ModeOfStage, FlashModes
  <2>2. /\ Phase = IF result = "ok" THEN "finished" ELSE "failed"
        /\ Phase' = IF keeps_log(result) THEN "logged" ELSE "failed"
    BY <2>1 DEF Phase, keeps_log
  <2>3. OwnContent' = OwnContent /\ SecondContent' = SecondContent
    BY <1>7, ContentKept DEF PersistLog, with_mount, durable, HistTypes
  <2>4. CASE keeps_log(result)
    <3>1. Intact \/ Complete
      BY <2>1, <2>4 DEF DiskOfStage
    <3>2. OwnContent # "partial"
      BY <3>1 DEF OwnContent
    <3>3. DF!Log
      BY <2>2, <2>3, <2>4, <3>2 DEF DF!Log
    <3> QED
      BY <3>3 DEF Refines, DF!Next
  <2>5. CASE ~keeps_log(result)
    <3>1. Phase' = Phase
      BY <2>2, <2>5 DEF keeps_log
    <3> QED
      BY <2>3, <3>1, Stutters
  <2> QED
    BY <2>4, <2>5
<1>8. ASSUME NEW fails \in BOOLEAN, TerminalAction(fails) PROVE Refines
  <2>1. CASE fails
    <3>1. Phase' = Phase
      BY <1>8, <2>1 DEF TerminalAction, To, Phase
    <3>2. OwnContent' = OwnContent /\ SecondContent' = SecondContent
      BY <1>8, ContentKept DEF TerminalAction, durable
    <3> QED
      BY <3>1, <3>2, Stutters
  <2>2. CASE ~fails
    BY <1>8, <2>2, StopsQuietly DEF TerminalAction, To, durable
  <2> QED
    BY <2>1, <2>2
<1>9. CASE EfiMount
  <2>1. mode \in FlashModes /\ stage \notin {"off", "dead"} /\ result = "none"
    BY <1>9, RunsAMode DEF EfiMount, Goto, To, durable, memory, CloneStages, ScpStages,
         LoopStages, UrlStages, EfiStages
  <2> QED
    BY <1>9, <2>1, QuietStep DEF EfiMount, Goto, To, durable, memory
<1>10. CASE EfiList
  <2>1. mode \in FlashModes /\ stage \notin {"off", "dead"} /\ result = "none"
    BY <1>10, RunsAMode DEF EfiList, Goto, To, durable, CloneStages, ScpStages, LoopStages,
         UrlStages, EfiStages
  <2> QED
    BY <1>10, <2>1, QuietStep DEF EfiList, Goto, To, durable
<1>11. CASE EfiCreate
  <2>1. mode \in FlashModes /\ stage \notin {"off", "dead"} /\ result = "none"
    BY <1>11, RunsAMode DEF EfiCreate, Goto, To, memory, CloneStages, ScpStages, LoopStages,
         UrlStages, EfiStages
  <2> QED
    BY <1>11, <2>1, QuietStep DEF EfiCreate, Goto, To, memory
<1>12. CASE EfiDump
  <2>1. mode \in FlashModes /\ stage \notin {"off", "dead"} /\ result = "none"
    BY <1>12, RunsAMode DEF EfiDump, Goto, To, durable, memory, CloneStages, ScpStages,
         LoopStages, UrlStages, EfiStages
  <2> QED
    BY <1>12, <2>1, QuietStep DEF EfiDump, Goto, To, durable, memory
<1>13. ASSUME NEW e \in old, EfiDelete(e) PROVE Refines
  <2>1. mode \in FlashModes /\ stage \notin {"off", "dead"} /\ result = "none"
    BY <1>13, RunsAMode DEF EfiDelete, CloneStages, ScpStages, LoopStages, UrlStages,
         EfiStages
  <2> QED
    BY <1>13, <2>1, QuietStep DEF EfiDelete
<1>14. ASSUME NEW res \in WithMountResults, EfiWrite(res) PROVE Refines
  <2>1. /\ mode \in FlashModes /\ stage \notin {"off", "dead"} /\ result = "none"
        /\ stage \in EfiStages
    BY <1>14, RunsAMode DEF EfiWrite, EfiStages
  <2>2. /\ /\ stage' = "persist" /\ mode' = mode /\ disk' = disk /\ clone' = clone
        /\ build' = build
        /\ hist'.want = hist.want /\ hist'.clean = hist.clean
        /\ result' = IF res = "ok" THEN "ok" ELSE "failed"
    BY <1>14 DEF EfiWrite, EndRun, To, with_mount, durable, HistTypes
  <2>3. CASE res = "ok"
    <3>1. IF mode = "1" THEN CloneFresh ELSE Complete
      BY <2>1 DEF DiskOfStage, CloneSoFar
    <3> QED
      BY <2>1, <2>2, <2>3, <3>1, Finishes
  <2>4. CASE res # "ok"
    BY <2>1, <2>2, <2>4, QuietStep
  <2> QED
    BY <2>3, <2>4
<1>15. ASSUME NEW from \in EfiStages, EfiFails(from) PROVE Refines
  <2>1. mode \in FlashModes /\ stage \notin {"off", "dead"} /\ result = "none"
    BY <1>15, RunsAMode DEF EfiFails, EndRun, To, durable, CloneStages, ScpStages,
         LoopStages, UrlStages, EfiStages
  <2> QED
    BY <1>15, <2>1, QuietStep DEF EfiFails, EndRun, To, durable
<1>16. ASSUME NEW noRandom \in BOOLEAN, SelectClone(noRandom) PROVE Refines
  <2>1. mode \in FlashModes /\ stage \notin {"off", "dead"} /\ result = "none"
    BY <1>16, RunsAMode DEF SelectClone, EndRun, To, RestUnchanged, CloneStages, ScpStages,
         LoopStages, UrlStages, EfiStages
  <2> QED
    BY <1>16, <2>1, QuietStep DEF SelectClone, EndRun, To, RestUnchanged
<1>17. CASE ResolveDestination
  <2>1. mode \in FlashModes /\ stage \notin {"off", "dead"} /\ result = "none"
    BY <1>17, RunsAMode DEF ResolveDestination, Goto, To, RestUnchanged, CloneStages,
         ScpStages, LoopStages, UrlStages, EfiStages
  <2> QED
    BY <1>17, <2>1, QuietStep DEF ResolveDestination, Goto, To, RestUnchanged
<1>18. CASE ResolveFails
  <2>1. mode \in FlashModes /\ stage \notin {"off", "dead"} /\ result = "none"
    BY <1>18, RunsAMode DEF ResolveFails, CloneFails, EndRun, To, RestUnchanged,
         CloneStages, ScpStages, LoopStages, UrlStages, EfiStages
  <2> QED
    BY <1>18, <2>1, QuietStep DEF ResolveFails, CloneFails, EndRun, To, RestUnchanged
<1>19. CASE ValidateDestination
  <2>1. mode \in FlashModes /\ stage \notin {"off", "dead"} /\ result = "none"
    BY <1>19, RunsAMode DEF ValidateDestination, EndRun, To, RestUnchanged, CloneStages,
         ScpStages, LoopStages, UrlStages, EfiStages
  <2> QED
    BY <1>19, <2>1, QuietStep DEF ValidateDestination, EndRun, To, RestUnchanged
<1>20. ASSUME NEW left \in SUBSET {"boot", "rootfs"}, UnmountRootfs(left) PROVE Refines
  <2>1. mode \in FlashModes /\ stage \notin {"off", "dead"} /\ result = "none"
    BY <1>20, RunsAMode DEF UnmountRootfs, EndRun, To, RestUnchanged, CloneStages,
         ScpStages, LoopStages, UrlStages, EfiStages
  <2> QED
    BY <1>20, <2>1, QuietStep DEF UnmountRootfs, EndRun, To, RestUnchanged
<1>21. ASSUME NEW d \in Dumps, NEW fails \in BOOLEAN, DumpTable(d, fails) PROVE Refines
  <2>1. mode \in FlashModes /\ stage \notin {"off", "dead"} /\ result = "none"
    BY <1>21, RunsAMode DEF DumpTable, EndRun, To, CloneStages, ScpStages, LoopStages,
         UrlStages, EfiStages
  <2> QED
    BY <1>21, <2>1, QuietStep DEF DumpTable, EndRun, To
<1>22. ASSUME NEW fails \in BOOLEAN, CloneStep(fails) PROVE Refines
  <2>1. mode \in FlashModes /\ stage \notin {"off", "dead"} /\ result = "none" /\ mode = "1"
    BY <1>22, RunsAMode DEF CloneStep, CloneStages, ModeOfStage
  <2>2. OwnContent' = OwnContent
    <3>1. disk' = disk /\ hist' = hist
      BY <1>22, CloneKeepsDisk DEF CloneStep
    <3> QED
      BY <3>1, DiskKept DEF OwnContent
  <2> QED
    BY <1>22, <2>1, <2>2, WritesOrFails DEF CloneStep, EndRun, To, RestUnchanged
<1>23. CASE CloneWritten
  <2>1. /\ mode \in FlashModes /\ stage \notin {"off", "dead"} /\ result = "none" /\ mode = "1"
        /\ stage = "clone" /\ step = Len(CloneSteps(build))
    BY <1>23, RunsAMode DEF CloneWritten, CloneStages, ModeOfStage
  <2>2. CASE build.grub
    BY <1>23, <2>1, <2>2, QuietStep DEF CloneWritten, To, RestUnchanged
  <2>3. CASE ~build.grub
    <3>1. CloneFresh
      BY <2>1, AllDoneFresh DEF CloneSoFar
    <3> QED
      BY <1>23, <2>1, <2>3, <3>1, Finishes DEF CloneWritten, EndRun, To, RestUnchanged
  <2> QED
    BY <2>2, <2>3
<1>24. CASE SelectScp
  <2>1. mode \in FlashModes /\ stage \notin {"off", "dead"} /\ result = "none"
    BY <1>24, RunsAMode DEF SelectScp, Goto, To, ScpRest, CloneStages, ScpStages,
         LoopStages, UrlStages, EfiStages
  <2> QED
    BY <1>24, <2>1, QuietStep DEF SelectScp, Goto, To, ScpRest
<1>25. ASSUME NEW left \in SUBSET mounts, UnmountTarget(left) PROVE Refines
  <2>1. mode \in FlashModes /\ stage \notin {"off", "dead"} /\ result = "none"
    BY <1>25, RunsAMode DEF UnmountTarget, EndRun, To, ScpRest, CloneStages, ScpStages,
         LoopStages, UrlStages, EfiStages
  <2> QED
    BY <1>25, <2>1, QuietStep DEF UnmountTarget, EndRun, To, ScpRest
<1>26. ASSUME NEW fails \in BOOLEAN, NEW addr, BringUp(fails, addr) PROVE Refines
  <2>1. mode \in FlashModes /\ stage \notin {"off", "dead"} /\ result = "none"
    BY <1>26, RunsAMode DEF BringUp, EndRun, To, ScpRest, CloneStages, ScpStages,
         LoopStages, UrlStages, EfiStages
  <2> QED
    BY <1>26, <2>1, QuietStep DEF BringUp, EndRun, To, ScpRest
<1>27. ASSUME NEW fails \in BOOLEAN, CreateFifo(fails) PROVE Refines
  <2>1. mode \in FlashModes /\ stage \notin {"off", "dead"} /\ result = "none"
    BY <1>27, RunsAMode DEF CreateFifo, EndRun, To, ScpRest, CloneStages, ScpStages,
         LoopStages, UrlStages, EfiStages
  <2> QED
    BY <1>27, <2>1, QuietStep DEF CreateFifo, EndRun, To, ScpRest, RecreateError
<1>28. CASE StartDropbear
  <2>1. mode \in FlashModes /\ stage \notin {"off", "dead"} /\ result = "none"
    BY <1>28, RunsAMode DEF StartDropbear, Goto, To, ScpRest, CloneStages, ScpStages,
         LoopStages, UrlStages, EfiStages
  <2> QED
    BY <1>28, <2>1, QuietStep DEF StartDropbear, Goto, To, ScpRest
<1>29. CASE ScpFails("dropbear", "failed")
  <2>1. mode \in FlashModes /\ stage \notin {"off", "dead"} /\ result = "none"
    BY <1>29, RunsAMode DEF ScpFails, EndRun, To, ScpRest, CloneStages, ScpStages,
         LoopStages, UrlStages, EfiStages
  <2> QED
    BY <1>29, <2>1, QuietStep DEF ScpFails, EndRun, To, ScpRest
<1>30. ASSUME NEW raw \in RawBmaps, NEW fails \in BOOLEAN, ReadBmap(raw, fails)
       PROVE  Refines
  <2>1. mode \in FlashModes /\ stage \notin {"off", "dead"} /\ result = "none"
    BY <1>30, RunsAMode DEF ReadBmap, AttemptFails, To, ScpRest, CloneStages, ScpStages,
         LoopStages, UrlStages, EfiStages
  <2> QED
    BY <1>30, <2>1, QuietStep DEF ReadBmap, AttemptFails, To, ScpRest
<1>31. ASSUME NEW u, NEW fails \in BOOLEAN, VerifyUpload(u, fails) PROVE Refines
  <2>1. mode \in FlashModes /\ stage \notin {"off", "dead"} /\ result = "none"
    BY <1>31, RunsAMode DEF VerifyUpload, To, ScpRest, CloneStages, ScpStages, LoopStages,
         UrlStages, EfiStages
  <2> QED
    BY <1>31, <2>1, QuietStep DEF VerifyUpload, To, ScpRest
<1>32. ASSUME NEW u, NEW fails \in BOOLEAN, NEW s, CopyToDisk(u, fails, s) PROVE Refines
  <2>1. mode \in FlashModes /\ stage \notin {"off", "dead"} /\ result = "none" /\ mode # "1"
    BY <1>32, RunsAMode DEF CopyToDisk, ModeOfStage, ScpStages, LoopStages, UrlStages
  <2>2. SecondContent' = SecondContent
    BY <1>32, CloneKept DEF CopyToDisk, ScpRest, SecondContent
  <2> QED
    BY <1>32, <2>1, <2>2, WritesOrFails DEF CopyToDisk, To, ScpRest
<1>33. ASSUME NEW fails \in BOOLEAN, NEW s, ZeroHead(fails, s) PROVE Refines
  <2>1. mode \in FlashModes /\ stage \notin {"off", "dead"} /\ result = "none" /\ mode # "1"
    BY <1>33, RunsAMode DEF ZeroHead, ModeOfStage, ScpStages, LoopStages, UrlStages
  <2>2. SecondContent' = SecondContent
    BY <1>33, CloneKept DEF ZeroHead, ScpRest, SecondContent
  <2> QED
    BY <1>33, <2>1, <2>2, WritesOrFails DEF ZeroHead, To, ScpRest
<1>34. ASSUME NEW keeps \in BOOLEAN, RemoveFiles(keeps) PROVE Refines
  <2>1. mode \in FlashModes /\ stage \notin {"off", "dead"} /\ result = "none"
    BY <1>34, RunsAMode DEF RemoveFiles, Goto, To, ScpRest, CloneStages, ScpStages,
         LoopStages, UrlStages, EfiStages
  <2> QED
    BY <1>34, <2>1, QuietStep DEF RemoveFiles, Goto, To, ScpRest
<1>35. ASSUME NEW noReader \in BOOLEAN, NEW keeps \in BOOLEAN,
              RemoveFifo(noReader, keeps)
       PROVE  Refines
  <2>1. mode \in FlashModes /\ stage \notin {"off", "dead"} /\ result = "none"
    BY <1>35, RunsAMode DEF RemoveFifo, WriterAfterRemove, Goto, To, ScpRest, CloneStages,
         ScpStages, LoopStages, UrlStages, EfiStages
  <2> QED
    BY <1>35, <2>1, QuietStep DEF RemoveFifo, WriterAfterRemove, Goto, To, ScpRest,
         HistTypes
<1>36. ASSUME NEW fails \in BOOLEAN, RereadTable(fails) PROVE Refines
  <2>1. mode \in FlashModes /\ stage \notin {"off", "dead"} /\ result = "none" /\ mode # "1"
    BY <1>36, RunsAMode DEF RereadTable, ModeOfStage
  <2>2. CASE stage' = "persist" /\ result' = "ok"
    <3>1. Complete
      BY <1>36 DEF RereadTable, DiskOfStage
    <3> QED
      BY <1>36, <2>1, <2>2, <3>1, Finishes DEF RereadTable, ScpRest
  <2>3. CASE ~(stage' = "persist" /\ result' = "ok")
    BY <1>36, <2>1, <2>3, QuietStep DEF RereadTable, EndRun, To, ScpRest
  <2> QED
    BY <2>2, <2>3
<1>37. CASE SelectUrl
  <2>1. mode \in FlashModes /\ stage \notin {"off", "dead"} /\ result = "none"
    BY <1>37, RunsAMode DEF SelectUrl, EndRun, To, UrlRest, CloneStages, ScpStages,
         LoopStages, UrlStages, EfiStages
  <2> QED
    BY <1>37, <2>1, QuietStep DEF SelectUrl, EndRun, To, UrlRest
<1>38. CASE OpenFails
  <2>1. mode \in FlashModes /\ stage \notin {"off", "dead"} /\ result = "none"
    BY <1>38, RunsAMode DEF OpenFails, EndRun, To, UrlRest, CloneStages, ScpStages,
         LoopStages, UrlStages, EfiStages
  <2> QED
    BY <1>38, <2>1, QuietStep DEF OpenFails, EndRun, To, UrlRest
<1>39. ASSUME NEW fails \in BOOLEAN, DownloadSha(fails) PROVE Refines
  <2>1. mode \in FlashModes /\ stage \notin {"off", "dead"} /\ result = "none"
    BY <1>39, RunsAMode DEF DownloadSha, EndRun, To, UrlRest, CloneStages, ScpStages,
         LoopStages, UrlStages, EfiStages
  <2> QED
    BY <1>39, <2>1, QuietStep DEF DownloadSha, EndRun, To, UrlRest
<1>40. ASSUME NEW fails \in BOOLEAN, CheckImage(fails) PROVE Refines
  <2>1. mode \in FlashModes /\ stage \notin {"off", "dead"} /\ result = "none"
    BY <1>40, RunsAMode DEF CheckImage, EndRun, To, UrlRest, CloneStages, ScpStages,
         LoopStages, UrlStages, EfiStages
  <2> QED
    BY <1>40, <2>1, QuietStep DEF CheckImage, EndRun, To, UrlRest
<1>41. ASSUME NEW ram, NEW img \in Images, NEW fails \in BOOLEAN,
              DownloadImage(ram, img, fails)
       PROVE  Refines
  <2>1. mode \in FlashModes /\ stage \notin {"off", "dead"} /\ result = "none"
    BY <1>41, RunsAMode DEF DownloadImage, EndRun, To, UrlRest, CloneStages, ScpStages,
         LoopStages, UrlStages, EfiStages
  <2> QED
    BY <1>41, <2>1, QuietStep DEF DownloadImage, EndRun, To, UrlRest
<1>42. ASSUME NEW fails \in BOOLEAN, NEW s, WriteImage(fails, s) PROVE Refines
  <2>1. mode \in FlashModes /\ stage \notin {"off", "dead"} /\ result = "none" /\ mode # "1"
    BY <1>42, RunsAMode DEF WriteImage, ModeOfStage, ScpStages, LoopStages, UrlStages
  <2>2. SecondContent' = SecondContent
    BY <1>42, CloneKept DEF WriteImage, UrlRest, SecondContent
  <2> QED
    BY <1>42, <2>1, <2>2, WritesOrFails DEF WriteImage, EndRun, To, UrlRest
<1>43. CASE PushImage
  <2>1. mode \in FlashModes /\ stage \notin {"off", "dead"} /\ result = "none"
    BY <1>43, RunsAMode DEF PushImage, ScpRest, Reachable, CloneStages, ScpStages,
         LoopStages, UrlStages, EfiStages
  <2> QED
    BY <1>43, <2>1, QuietStep DEF PushImage, ScpRest
<1>44. CASE GiveUp
  <2>1. mode \in FlashModes /\ stage \notin {"off", "dead"} /\ result = "none"
    BY <1>44, RunsAMode DEF GiveUp, ScpRest, Reachable, CloneStages, ScpStages, LoopStages,
         UrlStages, EfiStages
  <2> QED
    BY <1>44, <2>1, QuietStep DEF GiveUp, ScpRest, HistTypes
<1>45. ASSUME NEW state \in {"part", "done"}, PushBmap(state) PROVE Refines
  <2>1. mode \in FlashModes /\ stage \notin {"off", "dead"} /\ result = "none"
    BY <1>45, RunsAMode DEF PushBmap, ScpRest, Reachable, CloneStages, ScpStages,
         LoopStages, UrlStages, EfiStages
  <2> QED
    BY <1>45, <2>1, QuietStep DEF PushBmap, ScpRest
<1>46. CASE Repair
  <2>1. stage = "dead" /\ stage' = "off" /\ disk' = [b \in Bytes |-> "old"] /\ clone' = clone
        /\ build' = build
    BY <1>46 DEF Repair, Goto, To
  <2>2. OwnContent' = "intact" /\ SecondContent' = SecondContent
    BY <2>1, CloneKept DEF OwnContent, SecondContent, Intact
  <2>3. Phase = "idle" /\ Phase' = "idle"
    BY <2>1 DEF Phase
  <2>4. DF!Restart
    BY <2>2, <2>3 DEF DF!Restart
  <2> QED
    BY <2>4 DEF Refines, DF!Next
<1>47. CASE PowerLoss
  <2>1. stage' = "off" /\ build' = build /\ stage # "off"
    BY <1>47 DEF PowerLoss, To
  <2>2. Phase' = "idle"
    BY <2>1 DEF Phase
  <2>3. PICK parts \in CloneCut : clone' = [clone EXCEPT !.part = parts]
    BY <1>47 DEF PowerLoss
  <2>4. stage # "clone" => clone' = clone
    BY <2>3 DEF CloneCut, CloneTypes
  <2>5. stage \notin {"write", "copy", "zero"} => disk' = disk /\ hist' = hist
    BY <1>47 DEF PowerLoss, ScpCut
  <2>6. CASE stage \in {"write", "copy", "zero"}
    <3>1. mode \in FlashModes /\ stage \notin {"off", "dead"} /\ result = "none" /\ mode # "1"
      BY <2>6, RunsAMode DEF ModeOfStage, ScpStages, LoopStages, UrlStages
    <3>2. Phase = "overwrite"
      BY <3>1 DEF Phase, FlashModes
    <3>3. SecondContent' = SecondContent
      BY <2>1, <2>4, <2>6, CloneKept DEF SecondContent
    <3>4. DF!Stop
      BY <2>2, <3>2, <3>3, ContentTypes DEF DF!Stop
    <3> QED
      BY <3>4 DEF Refines, DF!Next
  <2>7. CASE stage = "clone"
    <3>1. mode \in FlashModes /\ stage \notin {"off", "dead"} /\ result = "none" /\ mode = "1"
      BY <2>7, RunsAMode DEF ModeOfStage, CloneStages
    <3>2. Phase = "clone"
      BY <3>1 DEF Phase, FlashModes
    <3>3. OwnContent' = OwnContent
      BY <2>5, <2>7, DiskKept DEF OwnContent
    <3>4. DF!Stop
      BY <2>2, <3>2, <3>3, ContentTypes DEF DF!Stop
    <3> QED
      BY <3>4 DEF Refines, DF!Next
  <2>8. CASE stage \notin {"write", "copy", "zero", "clone"}
    BY <2>1, <2>4, <2>5, <2>8, StopsQuietly
  <2> QED
    BY <2>6, <2>7, <2>8
<1>48. CASE Restart
  BY <1>48, StopsQuietly DEF Restart, FreshBoot, durable
<1>49. CASE Calm
  <2>1. Phase' = Phase
    BY <1>49 DEF Calm, memory, Phase
  <2>2. OwnContent' = OwnContent /\ SecondContent' = SecondContent
    BY <1>49, ContentKept DEF Calm, durable
  <2> QED
    BY <2>1, <2>2, Stutters
<1>50. ASSUME NEW req \in Requests, Request(req) PROVE Refines
  BY <1>50, StopsQuietly DEF Request, Goto, To, memory, HistTypes
<1>51. CASE UNCHANGED vars
  <2>1. Phase' = Phase
    BY <1>51 DEF vars, memory, Phase
  <2>2. OwnContent' = OwnContent /\ SecondContent' = SecondContent
    BY <1>51, ContentKept DEF vars, durable
  <2> QED
    BY <2>1, <2>2, Stutters
<1> QED
  BY <1>1, <1>2, <1>3, <1>4, <1>5, <1>6, <1>7, <1>8, <1>9, <1>10, <1>11, <1>12, <1>13,
       <1>14, <1>15, <1>16, <1>17, <1>18, <1>19, <1>20, <1>21, <1>22, <1>23, <1>24,
       <1>25, <1>26, <1>27, <1>28, <1>29, <1>30, <1>31, <1>32, <1>33, <1>34, <1>35,
       <1>36, <1>37, <1>38, <1>39, <1>40, <1>41, <1>42, <1>43, <1>44, <1>45, <1>46,
       <1>47, <1>48, <1>49, <1>50, <1>51 DEF Next, Step, BootNext, FrameNext, EfiNext,
       CloneNext, ScpStep, UrlNext, Operator, SentBmaps, ServedImages

(***************************************************************************)
(* The three modes keep the promise of DiskFlash: the disk that is not the *)
(* target stays as it is, a run finishes only with a complete disk, and    *)
(* its log never goes onto a partly written one, whatever fails and        *)
(* whenever the power is lost.                                             *)
(***************************************************************************)
THEOREM FlashImplementsDiskFlash == Spec => ImplementsDiskFlash
<1>1. Init => DF!Init
  BY DEF Init, DF!Init, OwnContent, SecondContent, Phase, Intact
<1>2. IInv /\ [Next]_vars => [DF!Next]_(DF!vars)
  BY StepRefines DEF IInv, Refines
<1> QED
  BY <1>1, <1>2, InvariantHolds, PTL DEF Spec, ImplementsDiskFlash, DF!Spec

=============================================================================
