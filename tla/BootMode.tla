------------------------------ MODULE BootMode ------------------------------
(***************************************************************************)
(* The choice of the boot mode (mode/mod.rs, BootMode::detect_with) and    *)
(* the reading of the flash variables (mode/flash/config.rs).  Everything  *)
(* here is pure; Flash.tla reads the boot environment and acts on it.      *)
(*                                                                         *)
(* A variable of the boot environment is a class of values: "none" also    *)
(* stands for a blank value, which the code takes for no trigger, and      *)
(* "Err" is a read that fails.                                             *)
(***************************************************************************)
FlashModes == {"1", "2", "3"}
FlashValues == FlashModes \cup {"none", "junk"}
ResetValues == {"none", "set"}

\* The value selects nothing unless it is exactly a mode.
parse_mode(value) == IF value \in FlashModes THEN value ELSE "none"

(***************************************************************************)
(* The enforce flag selects mode 2 unless flash-mode selects mode 1.       *)
(***************************************************************************)
Selected(value, flag) ==
  IF flag /\ parse_mode(value) # "1" THEN "2" ELSE parse_mode(value)

\* Without a flash mode the factory-reset variable decides; a read error boots
\* normally and leaves the trigger alone.
ResetOrNormal(reset) == IF reset = "set" THEN "Reset" ELSE "Normal"

\* Mode 1 together with a factory reset is refused; without knowing about the
\* reset mode 1 does not start.
Mode1Unless(reset) ==
  CASE reset = "set"  -> "Conflict"
    [] reset = "Err"  -> "Normal"
    [] reset = "none" -> "1"

(***************************************************************************)
(* avail: there is a boot environment; value, reset: what the reads of     *)
(* flash-mode and factory-reset return.                                    *)
(***************************************************************************)
detect_with(avail, flag, value, reset) ==
  IF ~avail \/ value = "Err"
  THEN IF flag THEN "2" ELSE "Normal"
  ELSE CASE Selected(value, flag) = "1" -> Mode1Unless(reset)
         [] Selected(value, flag) \in {"2", "3"} -> Selected(value, flag)
         [] Selected(value, flag) = "none" -> ResetOrNormal(reset)

(***************************************************************************)
(* EnvValue: what a further variable of the mode held when the mode was    *)
(* detected.  An unusable one does not stop the detection; it is an error  *)
(* of the run (env_value), so that the reason reaches the run log.         *)
(* A URL is base64 text: "notb64" does not decode, "empty" decodes to      *)
(* blanks or to text that is not UTF-8.                                    *)
(***************************************************************************)
UrlValues == {"none", "notb64", "empty", "ok"}

parse_devpath(raw) ==
  CASE raw = "Err"  -> [kind |-> "Unreadable"]
    [] raw = "none" -> [kind |-> "NotSet"]
    [] OTHER        -> [kind |-> "Set", value |-> raw]

parse_url(raw) ==
  CASE raw = "Err"  -> [kind |-> "Unreadable"]
    [] raw = "none" -> [kind |-> "NotSet"]
    [] raw \in {"notb64", "empty"} -> [kind |-> "Invalid"]
    [] raw = "ok"   -> [kind |-> "Set", value |-> raw]

NotSet == [kind |-> "NotSet"]

\* env_value: only a value that is set can be used.
Usable(v) == v.kind = "Set"
=============================================================================
