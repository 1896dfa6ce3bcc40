------------------------------ MODULE Settings ------------------------------
(***************************************************************************)
(* The global settings (src/settings.ts) and the page that changes them    *)
(* (src/tui/settings-commands.ts).                                         *)
(*                                                                         *)
(* A file maps the keys in it to sections; a section has a flag, its       *)
(* `enabled' or `mode', and the fields in it that are numbers.  A file     *)
(* that is missing or does not parse is Unreadable.                        *)
(***************************************************************************)
EXTENDS Naturals, TLC

Unreadable == [unreadable |-> [flag |-> "", numbers |-> [n \in {} |-> 0]]]
NoFields == [flag |-> "", numbers |-> [n \in {} |-> 0]]

DEFAULT_RETRY == [maxRetries |-> 3, baseDelayMs |-> 2000]

(* Only a flag that says so turns a section off; numbers that are missing    *)
(* are the defaults of a retry, and left open for a compaction.              *)
Enabled(raw) == IF raw.flag = "false" THEN "false" ELSE "true"
Only(numbers, names) == [n \in DOMAIN numbers \intersect names |-> numbers[n]]
Parsed(key, raw) ==
  CASE key = "retry" ->
         [flag |-> Enabled(raw),
          numbers |-> Only(raw.numbers, DOMAIN DEFAULT_RETRY) @@ DEFAULT_RETRY]
    [] key = "compaction" ->
         [flag |-> Enabled(raw),
          numbers |-> Only(raw.numbers, {"reserveTokens", "keepRecentTokens", "autoCompactPct"})]
    [] key = "team" ->
         [NoFields EXCEPT !.flag = IF raw.flag = "pipeline" THEN "pipeline" ELSE "free"]
    [] key = "memory" -> [NoFields EXCEPT !.flag = Enabled(raw)]
    [] key \in {"defaultModel", "enabledModels"} -> raw

Known == {"retry", "defaultModel", "enabledModels", "compaction", "team", "memory"}

(* A process reads the file once and keeps what it read until it writes.     *)
parse(file) ==
  [key \in (DOMAIN file \intersect Known) \union {"retry"} |->
     Parsed(key, IF key \in DOMAIN file THEN file[key] ELSE NoFields)]
readPiSettings(cache, file) == IF cache = <<>> THEN parse(file) ELSE cache[1]

isMemoryEnabled(settings) == "memory" \in DOMAIN settings => settings["memory"].flag # "false"
getTeamMode(settings) == IF "team" \in DOMAIN settings THEN settings["team"].flag ELSE "free"

(* The patch goes over the file as it is on disk, section by section.        *)
writePiSettings(file, patch) == IF file = Unreadable THEN patch ELSE patch @@ file

(* The page shows what the process read and writes its section back.         *)
Toggle(settings, file, key, on) ==
  LET shown == IF key \in DOMAIN settings /\ key # "memory" THEN settings[key] ELSE NoFields
  IN  writePiSettings(file, key :> [shown EXCEPT !.flag = IF on THEN "true" ELSE "false"])
setTeamMode(file, mode) == writePiSettings(file, "team" :> [NoFields EXCEPT !.flag = mode])

-----------------------------------------------------------------------------
(* The configuration files of the directory of an older program.             *)

MIGRATABLE_FILES == {"auth.json", "models.json", "settings.json"}
missingMigratableFiles(from, to) == (MIGRATABLE_FILES \intersect DOMAIN from) \ DOMAIN to
migrateNeeded(from, to) == missingMigratableFiles(from, to) # {}
migrateFromPi(from, to, failing) ==
  LET copied == missingMigratableFiles(from, to) \ failing
  IN  to @@ [f \in copied |-> from[f]]
=============================================================================
