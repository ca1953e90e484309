---------------------------- MODULE EarlyModules ----------------------------
(***************************************************************************)
(* The load of the listed kernel modules before switch_root                *)
(* (early_modules/): the list, modules.dep, and the session that loads     *)
(* every module after its dependencies.  RootHandover takes the steps; a   *)
(* session is the record                                                   *)
(*   todo    - the listed modules still to come, in order                  *)
(*   listed  - all of them                                                 *)
(*   present - the modules in the kernel                                   *)
(*   outcome - what the session knows of a module: "new", "ok" or "bad"    *)
(*   failed  - the listed modules that are reported as not loaded          *)
(*   broken  - the modules that cannot be loaded in this boot (no file, or *)
(*             finit_module refuses it)                                    *)
(*   ready   - prepare found the release, the two files and the firmware   *)
(*             parameter.                                                  *)
(***************************************************************************)
EXTENDS Naturals, SequencesExt

CONSTANTS
  Modules,     \* the modules of the rootfs
  ConfLines,   \* the lines of the .conf files in name order: the file and the module
  ModDep,      \* modules.dep: the dependencies of a module, the last loads first
  Needs,       \* the modules whose symbols a module uses
  Builtin      \* modules.builtin

\* A path in modules.dep that is not the one of a module (module_name).
NoName == "noname"

ASSUME EarlyModulesAssumption ==
  /\ NoName \notin Modules
  /\ DOMAIN ConfLines = 1 .. Len(ConfLines) /\ Len(ConfLines) \in Nat
  /\ \A i \in DOMAIN ConfLines : ConfLines[i].name \in Modules
  /\ DOMAIN ModDep \subseteq Modules
  /\ \A m \in DOMAIN ModDep : ModDep[m] \in Seq(Modules \cup {NoName})
  /\ Needs \in [Modules -> SUBSET Modules]
  /\ Builtin \subseteq Modules

ConfFiles == {ConfLines[i].file : i \in DOMAIN ConfLines}
Listed == {ConfLines[i].name : i \in DOMAIN ConfLines}

(***************************************************************************)
(* What moddep.rs relies on, "all transitive dependencies, as depmod       *)
(* writes them; the last one loads first": behind a module its line names  *)
(* every module whose symbols it uses, and what the line of that module    *)
(* names; no module depends on itself, and every module has a line.        *)
(***************************************************************************)
Behind(m, i) == {ModDep[m][j] : j \in {j \in DOMAIN ModDep[m] : j > i}}

ASSUME DepmodAssumption ==
  \A m \in DOMAIN ModDep :
    /\ Needs[m] \subseteq ToSet(ModDep[m]) /\ m \notin ToSet(ModDep[m])
    /\ \A i \in DOMAIN ModDep[m] :
         LET n == ModDep[m][i]
         IN  n # NoName =>
               /\ Needs[n] \subseteq Behind(m, i)
               /\ n \in Listed => n \in DOMAIN ModDep
               /\ n \in DOMAIN ModDep => ToSet(ModDep[n]) \subseteq Behind(m, i)

\* read_config_dir: a file that cannot be read is skipped, and the first line of
\* a module counts.
Entries(unread) ==
  LET entries[k \in 0 .. Len(ConfLines)] ==
        IF k = 0 THEN <<>>
        ELSE IF ConfLines[k].file \in unread \/ ConfLines[k].name \in ToSet(entries[k - 1])
        THEN entries[k - 1]
        ELSE Append(entries[k - 1], ConfLines[k].name)
  IN  entries

read_config_dir(unread) == Entries(unread)[Len(ConfLines)]

NoSession ==
  [todo |-> <<>>, listed |-> {}, present |-> {}, outcome |-> [m \in Modules |-> "new"],
   failed |-> {}, broken |-> {}, ready |-> TRUE]

\* load_with: without an entry nothing happens; when prepare fails nothing is
\* loaded, and what sysfs does not show is reported.
Session(unread, loaded, broken, ready) ==
  LET entries == read_config_dir(unread)
  IN  [NoSession EXCEPT
        !.todo    = IF ready THEN entries ELSE <<>>,
        !.listed  = ToSet(entries),
        !.present = loaded,
        !.broken  = broken,
        !.ready   = ready \/ entries = <<>>,
        !.failed  = IF ready THEN {} ELSE ToSet(entries) \ loaded]

is_present(s, m) == m \in s.present \cup Builtin

\* finit_module: the kernel refuses a module whose symbols are not there.
finit(s, m) == m \notin s.broken /\ \A n \in Needs[m] : is_present(s, n)

load_one(s, m) ==
  IF s.outcome[m] # "new" THEN s
  ELSE IF is_present(s, m) THEN [s EXCEPT !.outcome[m] = "ok"]
  ELSE IF finit(s, m) THEN [s EXCEPT !.outcome[m] = "ok", !.present = @ \cup {m}]
  ELSE [s EXCEPT !.outcome[m] = "bad"]

Report(s, m) == [s EXCEPT !.failed = @ \cup {m}]

\* Mutated form of LoadOrder: as modules.dep lists them.
LoadOrderOfFile(m) == Append(ModDep[m], m)

\* The dependencies from the last to the first, then the module.
LoadOrder(m) == Append(Reverse(ModDep[m]), m)

(***************************************************************************)
(* load_listed: a module that came up before, as a dependency, is not      *)
(* tried again; the first dependency that fails, or that is no module,     *)
(* ends the attempt, and the module itself is then neither loaded nor      *)
(* recorded.                                                               *)
(***************************************************************************)
LoadNext(a, n) ==
  IF ~a.ok \/ n = NoName THEN [s |-> a.s, ok |-> FALSE]
  ELSE [s |-> load_one(a.s, n), ok |-> load_one(a.s, n).outcome[n] = "ok"]

\* The session behind the first k modules of the order, and whether all of them are there.
Attempt(s, order) ==
  LET attempt[k \in 0 .. Len(order)] ==
        IF k = 0 THEN [s |-> s, ok |-> TRUE] ELSE LoadNext(attempt[k - 1], order[k])
  IN  attempt

load_listed(s, m) ==
  IF s.outcome[m] # "new" THEN IF s.outcome[m] = "ok" THEN s ELSE Report(s, m)
  ELSE IF is_present(s, m) THEN [s EXCEPT !.outcome[m] = "ok"]
  ELSE IF m \notin DOMAIN ModDep THEN Report(s, m)
  ELSE LET a == Attempt(s, LoadOrder(m))[Len(LoadOrder(m))]
       IN  IF a.ok THEN a.s ELSE Report(a.s, m)
=============================================================================
