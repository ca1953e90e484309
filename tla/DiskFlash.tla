----------------------------- MODULE DiskFlash -----------------------------
(***************************************************************************)
(* What a flash promises, without its steps.  A run works on one disk: a   *)
(* clone on the second one, an overwrite on the running one.  The other    *)
(* disk stays as it is, whatever goes wrong.  A run finishes only with a   *)
(* complete disk, it may fail at any time, and it leaves its log on the    *)
(* running disk only while that is not partly written.                     *)
(***************************************************************************)
VARIABLES
  own,       \* the running disk
  second,    \* the second disk
  phase      \* what the device does

vars == <<own, second, phase>>

Contents == {"intact", "partial", "complete"}
Phases == {"idle", "clone", "overwrite", "finished", "failed", "logged"}

Init == own = "intact" /\ second = "intact" /\ phase = "idle"

Begin(kind) ==
  /\ phase = "idle" /\ own = "intact"
  /\ kind \in {"clone", "overwrite"}
  /\ phase' = kind
  /\ UNCHANGED <<own, second>>

WriteSecond ==
  /\ phase = "clone"
  /\ second' \in Contents
  /\ UNCHANGED <<own, phase>>

WriteOwn ==
  /\ phase = "overwrite"
  /\ own' \in Contents
  /\ UNCHANGED <<second, phase>>

Finish ==
  /\ \/ phase = "clone" /\ second = "complete"
     \/ phase = "overwrite" /\ own = "complete"
  /\ phase' = "finished"
  /\ UNCHANGED <<own, second>>

Fail ==
  /\ phase \in {"clone", "overwrite"}
  /\ phase' = "failed"
  /\ own' \in IF phase = "overwrite" THEN Contents ELSE {own}
  /\ second' \in IF phase = "clone" THEN Contents ELSE {second}

\* The run log is written.
Log ==
  /\ phase \in {"finished", "failed"}
  /\ own # "partial"
  /\ phase' = "logged"
  /\ UNCHANGED <<own, second>>

\* The device is switched off, possibly in the middle of a write; then the
\* image on its disk starts, or the disk is repaired.
Stop ==
  /\ phase' = "idle"
  /\ own' \in IF phase = "overwrite" THEN Contents ELSE {own}
  /\ second' \in IF phase = "clone" THEN Contents ELSE {second}

Restart ==
  /\ phase = "idle"
  /\ own' = "intact"
  /\ second' \in {second, "intact"}
  /\ UNCHANGED phase

Next ==
  \/ \E kind \in {"clone", "overwrite"} : Begin(kind)
  \/ WriteSecond \/ WriteOwn \/ Finish \/ Fail \/ Log \/ Stop \/ Restart

Spec == Init /\ [][Next]_vars
=============================================================================
