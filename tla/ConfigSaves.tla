----------------------------- MODULE ConfigSaves -----------------------------
(***************************************************************************)
(* Saving the providers' settings from the dashboard: configPut            *)
(* (internal/dashboard/dashboard.go) and persistProviderUpdates            *)
(* (internal/dashboard/config_persist.go).  Requests run side by side      *)
(* without a lock, and all write the same config.yaml.tmp.  A document is  *)
(* a value for each provider.                                              *)
(***************************************************************************)
EXTENDS FiniteSets

CONSTANTS
  Saves,      \* PUT requests
  Providers   \* providers in the configuration

Old == "old"      \* the value a provider had at first
ASSUME ConfigAssumption == Old \notin Saves

NoFile == [text |-> "none"]
Torn == [text |-> "torn"]
Empty == [text |-> "empty"]
Whole(values) == [text |-> "whole", values |-> values]

VARIABLES
  updates,   \* the providers a request changes
  configFile,      \* config.yaml
  tmp,       \* config.yaml.tmp
  backup,    \* config.yaml.backup
  memory,    \* s.cfg.Providers
  saveAt,    \* what a request is at
  data,      \* the document it read
  opened,      \* where the file it writes is by now: "tmp", "disk" or "gone"
  reply,     \* its answer
  serverUp,   \* the server runs
  crossed    \* history: requests that were under way at the same time

configVars == <<updates, configFile, tmp, backup, memory, saveAt, data, opened, reply,
                serverUp, crossed>>

ConfigInit ==
  /\ updates \in [Saves -> SUBSET Providers \ {{}}]
  /\ configFile = Whole([p \in Providers |-> Old]) /\ tmp = NoFile /\ backup = NoFile
  /\ memory = [p \in Providers |-> Old]
  /\ saveAt = [s \in Saves |-> "new"] /\ data = [s \in Saves |-> NoFile]
  /\ opened = [s \in Saves |-> "gone"] /\ reply = [s \in Saves |-> "none"]
  /\ serverUp = TRUE /\ crossed = {}

Busy == {s \in Saves : saveAt[s] \notin {"new", "done"}}
At(s, step) == serverUp /\ saveAt[s] = step
Goes(s, step) == saveAt' = [saveAt EXCEPT ![s] = step]
Replies(s, what) == Goes(s, "done") /\ reply' = [reply EXCEPT ![s] = what]

\* A file that is not a YAML document is an error.
ReadConfig(s) ==
  /\ At(s, "new")
  /\ crossed' = IF Busy = {} THEN crossed ELSE crossed \union Busy \union {s}
  /\ data' = [data EXCEPT ![s] = configFile]
  /\ IF configFile.text = "whole" THEN Goes(s, "backup") /\ UNCHANGED reply
     ELSE Replies(s, "failed")
  /\ UNCHANGED <<updates, configFile, tmp, backup, memory, opened, serverUp>>

WriteBackup(s) ==
  /\ At(s, "backup") /\ backup' = data[s] /\ Goes(s, "open")
  /\ UNCHANGED <<updates, configFile, tmp, memory, data, opened, reply, serverUp, crossed>>

\* Mutant: the file itself is emptied and written.
OpenConfig(s) ==
  /\ At(s, "open") /\ configFile' = Empty /\ tmp' = Empty
  /\ opened' = [opened EXCEPT ![s] = "disk"] /\ Goes(s, "write")
  /\ UNCHANGED <<updates, backup, memory, data, reply, serverUp, crossed>>

\* The first half of os.WriteFile: made, or emptied under whoever writes it.
OpenTmp(s) ==
  /\ At(s, "open") /\ tmp' = Empty
  /\ opened' = [opened EXCEPT ![s] = "tmp"] /\ Goes(s, "write")
  /\ UNCHANGED <<updates, configFile, backup, memory, data, reply, serverUp, crossed>>

Document(s) ==
  Whole([p \in Providers |-> IF p \in updates[s] THEN s ELSE data[s].values[p]])
Written(s, before) == IF before = Empty THEN {Document(s)} ELSE {Document(s), Torn}

\* The second half writes to the file that was opened, whatever its name is.
WriteConfigTmp(s) ==
  /\ At(s, "write") /\ Goes(s, "rename")
  /\ tmp' \in (IF opened[s] = "tmp" THEN Written(s, tmp) ELSE {tmp})
  /\ configFile' \in (IF opened[s] = "disk" THEN Written(s, configFile) ELSE {configFile})
  /\ UNCHANGED <<updates, backup, memory, data, opened, reply, serverUp, crossed>>

\* Renames whatever is there, or fails when another request has renamed it.
RenameTmp(s) ==
  /\ At(s, "rename")
  /\ IF tmp = NoFile
     THEN Replies(s, "failed") /\ UNCHANGED <<configFile, tmp, opened>>
     ELSE /\ configFile' = tmp /\ tmp' = NoFile /\ Goes(s, "reflect")
          /\ opened' = [x \in Saves |-> IF opened[x] = "tmp" THEN "disk" ELSE "gone"]
          /\ UNCHANGED reply
  /\ UNCHANGED <<updates, backup, memory, data, serverUp, crossed>>

\* A step on the disk may fail, or the server end: half a backup is none.
HalfBackup == backup' \in {backup, Empty}

StepFails(s) ==
  /\ serverUp /\ saveAt[s] \in {"backup", "open", "write", "rename"}
  /\ Replies(s, "failed")
  /\ IF saveAt[s] = "backup" THEN HalfBackup ELSE UNCHANGED backup
  /\ UNCHANGED <<updates, configFile, tmp, memory, data, opened, serverUp, crossed>>

\* One provider after another, in a map.
ReflectInMemory(s) ==
  /\ At(s, "reflect")
  /\ memory' = [p \in Providers |-> IF p \in updates[s] THEN s ELSE memory[p]]
  /\ Replies(s, "ok")
  /\ UNCHANGED <<updates, configFile, tmp, backup, data, opened, serverUp, crossed>>

\* Two requests write the map at once: the runtime ends the program.
MapRace ==
  /\ serverUp
  /\ \E s, x \in Saves : s # x /\ saveAt[s] = "reflect" /\ saveAt[x] = "reflect"
  /\ serverUp' = FALSE
  /\ UNCHANGED <<updates, configFile, tmp, backup, memory, saveAt, data, opened, reply, crossed>>

DashboardEnds ==
  /\ serverUp /\ serverUp' = FALSE
  /\ IF \E s \in Saves : saveAt[s] = "backup" THEN HalfBackup ELSE UNCHANGED backup
  /\ UNCHANGED <<updates, configFile, tmp, memory, saveAt, data, opened, reply, crossed>>

ConfigNext ==
  \/ \E s \in Saves : ReadConfig(s) \/ WriteBackup(s) \/ OpenTmp(s) \/ WriteConfigTmp(s)
                      \/ RenameTmp(s) \/ StepFails(s) \/ ReflectInMemory(s)
  \/ MapRace \/ DashboardEnds

ConfigSpec == ConfigInit /\ [][ConfigNext]_configVars

----------------------------------------------------------------------------
ConfigTypeOK ==
  /\ configFile.text \in {"whole", "empty", "torn"}
  /\ reply \in [Saves -> {"none", "ok", "failed"}]
  /\ memory \in [Providers -> Saves \union {Old}]

Later(s, p) == {x \in Saves \ {s} : p \in updates[x]}

(* What a save leaves, wherever it or the server stops.  As long as no two *)
(* saves met, the file is a whole document, and the backup too if nothing  *)
(* failed, a save that was answered "ok" is in the file and in memory unless *)
(* another changed the same provider, one that failed is in neither, and   *)
(* memory is the file but for a save between its rename and its answer.    *)
(* Saves that met may leave half a document, an old value under an "ok",   *)
(* or a new one under a failure: all of them write one .tmp.               *)
LoneSavesHold ==
  crossed = {} =>
    /\ configFile.text = "whole"
    /\ backup.text = "empty" => ~serverUp \/ \E s \in Saves : reply[s] = "failed"
    /\ \A s \in Saves, p \in Providers :
         /\ reply[s] = "ok" /\ p \in updates[s] =>
              configFile.values[p] \in {s} \union Later(s, p)
         /\ reply[s] = "failed" => configFile.values[p] # s /\ memory[p] # s
         /\ memory[p] # configFile.values[p] => saveAt[configFile.values[p]] = "reflect"

=============================================================================
