------------------------------ MODULE TaskRun -------------------------------
(***************************************************************************)
(* One task in Orchestrator.Execute and its folder on disk                 *)
(* (internal/orchestrator: orchestrator.go, workspace.go): the folder is   *)
(* made, the agent runs once or, under a VERIFY directive, several times,  *)
(* and in the end a manifest is written next to the files or the empty     *)
(* folder removed.  What decides is the call log of the last result.       *)
(* Shell commands and background processes of the agent write too.         *)
(***************************************************************************)
EXTENDS Naturals, FiniteSets

CONSTANTS
  Files,         \* files of the deliverable folder
  MaxAttempts    \* bound: runs of the agent in executeWithRetry

ASSUME TaskAssumption == MaxAttempts \in Nat \ {0}

VARIABLES
  taskAt,     \* "prepare", "run", "report", "look", "remove", "write", "rename", "done" or "crashed"
  attempt,    \* runs of the agent begun
  logs,       \* the run's strategy fills ToolCallLog: executeReact alone does
  isolated,   \* the context carries the folder: PrepareWorkspace succeeded
  folder,     \* the task's folder is on disk
  content,    \* regular files in it
  logged,     \* paths of file writes in the log of the latest result
  produced,   \* history: files the file tool has written to the folder
  background, \* a process the task started is still running
  late,       \* history: files a background process wrote after the last run
  manifest,   \* manifest.json: is it there, and the files it lists
  ioFailed,   \* history: writing the manifest or removing the folder failed
  erased,     \* history: files the cleanup removed
  succeeded   \* status: executeWithRetry returned no error

taskVars == <<taskAt, attempt, logs, isolated, folder, content, logged, produced,
              background, late, manifest, ioFailed, erased, succeeded>>

TaskInit ==
  /\ taskAt = "prepare" /\ attempt = 0 /\ logs = FALSE /\ isolated = FALSE
  /\ folder = FALSE /\ content = {} /\ logged = {} /\ produced = {}
  /\ background = FALSE /\ late = {}
  /\ manifest = [there |-> FALSE, files |-> {}]
  /\ ioFailed = FALSE /\ erased = {} /\ succeeded = FALSE

\* A folder that cannot be made is no reason to fail: the files go elsewhere.
Prepare ==
  /\ taskAt = "prepare" /\ taskAt' = "run" /\ attempt' = 1
  /\ logs' \in BOOLEAN
  /\ \E made \in BOOLEAN : isolated' = made /\ folder' = made
  /\ UNCHANGED <<content, logged, produced, background, late, manifest, ioFailed, erased, succeeded>>

\* A call of the file tool is logged whether or not it succeeds.  The tool
\* makes the directories of the path it writes.
WriteFile ==
  /\ taskAt = "run"
  /\ \E f \in Files, good \in BOOLEAN :
       /\ logged' = IF logs THEN logged \union {f} ELSE logged
       /\ IF good /\ isolated
          THEN folder' = TRUE /\ content' = content \union {f} /\ produced' = produced \union {f}
          ELSE UNCHANGED <<folder, content, produced>>
  /\ UNCHANGED <<taskAt, attempt, logs, isolated, background, late, manifest, ioFailed, erased, succeeded>>

\* The terminal tool, whose commands may write or remove files.
RunCommand ==
  /\ taskAt = "run" /\ isolated
  /\ content' \in SUBSET Files
  /\ UNCHANGED <<taskAt, attempt, logs, isolated, folder, logged, produced, background, late,
                 manifest, ioFailed, erased, succeeded>>

\* The process tool: nothing ends its processes with the task.
StartProcess ==
  /\ taskAt = "run" /\ isolated /\ ~background /\ background' = TRUE
  /\ UNCHANGED <<taskAt, attempt, logs, isolated, folder, content, logged, produced, late,
                 manifest, ioFailed, erased, succeeded>>

ProcessWrites ==
  /\ background /\ folder /\ taskAt # "crashed"
  /\ \E f \in Files :
       /\ content' = content \union {f}
       /\ late' = IF taskAt = "run" THEN late ELSE late \union ({f} \ content)
  /\ UNCHANGED <<taskAt, attempt, logs, isolated, folder, logged, produced, background,
                 manifest, ioFailed, erased, succeeded>>

ProcessEnds ==
  /\ background /\ background' = FALSE
  /\ UNCHANGED <<taskAt, attempt, logs, isolated, folder, content, logged, produced, late,
                 manifest, ioFailed, erased, succeeded>>

\* Each run of the verify loop has a result and a log of its own.
NextAttempt ==
  /\ taskAt = "run" /\ attempt < MaxAttempts
  /\ attempt' = attempt + 1 /\ logs' \in BOOLEAN /\ logged' = {}
  /\ UNCHANGED <<taskAt, isolated, folder, content, produced, background, late, manifest,
                 ioFailed, erased, succeeded>>

\* executeWithRetry returns; the result of a run that failed may be nil.
AgentReturns ==
  /\ taskAt = "run" /\ taskAt' = "report" /\ succeeded' \in BOOLEAN
  /\ logged' = logged \/ (~succeeded' /\ logged' = {})
  /\ UNCHANGED <<attempt, logs, isolated, folder, content, produced, background, late, manifest,
                 ioFailed, erased>>

Finalize ==
  /\ taskAt = "report"
  /\ taskAt' = IF logged = {} THEN "look" ELSE "write"
  /\ UNCHANGED <<attempt, logs, isolated, folder, content, logged, produced, background, late,
                 manifest, ioFailed, erased, succeeded>>

\* Mutant: the folder is removed without a look into it.
LookAway ==
  /\ taskAt = "look"
  /\ taskAt' = IF folder THEN "remove" ELSE "done"
  /\ UNCHANGED <<attempt, logs, isolated, folder, content, logged, produced, background, late,
                 manifest, ioFailed, erased, succeeded>>

\* CleanupIfEmpty walks the folder first and removes it afterwards.
Look ==
  /\ taskAt = "look"
  /\ taskAt' = IF folder /\ content = {} THEN "remove" ELSE "done"
  /\ UNCHANGED <<attempt, logs, isolated, folder, content, logged, produced, background, late,
                 manifest, ioFailed, erased, succeeded>>

RemoveFolder ==
  /\ taskAt = "remove" /\ taskAt' = "done"
  /\ \/ folder' = FALSE /\ content' = {} /\ erased' = content /\ UNCHANGED ioFailed
     \/ ioFailed' = TRUE /\ UNCHANGED <<folder, content, erased>>
  /\ UNCHANGED <<attempt, logs, isolated, logged, produced, background, late, manifest, succeeded>>

\* writeManifest: a temporary file in the folder, made again if need be, and
\* a rename.
WriteTmp ==
  /\ taskAt = "write"
  /\ \/ taskAt' = "rename" /\ folder' = TRUE /\ UNCHANGED ioFailed
     \/ taskAt' = "done" /\ ioFailed' = TRUE /\ UNCHANGED folder
  /\ UNCHANGED <<attempt, logs, isolated, content, logged, produced, background, late, manifest,
                 erased, succeeded>>

Rename ==
  /\ taskAt = "rename" /\ taskAt' = "done"
  /\ \/ manifest' = [there |-> TRUE, files |-> logged] /\ UNCHANGED ioFailed
     \/ ioFailed' = TRUE /\ UNCHANGED manifest
  /\ UNCHANGED <<attempt, logs, isolated, folder, content, logged, produced, background, late,
                 erased, succeeded>>

Crash ==
  /\ taskAt \notin {"done", "crashed"} /\ taskAt' = "crashed"
  /\ UNCHANGED <<attempt, logs, isolated, folder, content, logged, produced, background, late,
                 manifest, ioFailed, erased, succeeded>>

TaskNext ==
  \/ Prepare \/ WriteFile \/ RunCommand \/ StartProcess \/ ProcessWrites \/ ProcessEnds
  \/ NextAttempt \/ AgentReturns \/ Finalize \/ Look \/ RemoveFolder \/ WriteTmp \/ Rename \/ Crash

TaskSpec == TaskInit /\ [][TaskNext]_taskVars

----------------------------------------------------------------------------
TaskTypeOK ==
  /\ taskAt \in {"prepare", "run", "report", "look", "remove", "write", "rename", "done", "crashed"}
  /\ attempt \in 0..MaxAttempts
  /\ {logs, isolated, folder, background, ioFailed, manifest.there, succeeded} \subseteq BOOLEAN
  /\ UNION {content, logged, produced, late, manifest.files, erased} \subseteq Files

(* What the end of a task leaves behind: a file is lost to the cleanup only *)
(* if a background process wrote it after the last run, between the look    *)
(* into the folder and its removal; an empty folder stays only under a      *)
(* manifest that lists writes that left no file here, or if the disk failed *)
(* (or the process died); and a manifest lists no file of an earlier run.   *)
TaskFolderIsAccountedFor ==
  /\ erased \subseteq late
  /\ taskAt = "done" /\ folder /\ content = {} => manifest.there \/ ioFailed
  /\ manifest.there => folder /\ manifest.files = logged /\ logged # {}
  /\ content # {} => folder

(* A task that ended well and left files it wrote with the file tool has a  *)
(* manifest next to them.                                                   *)
ProducedFilesHaveAManifest ==
  taskAt = "done" /\ succeeded /\ ~ioFailed /\ produced \intersect content # {} =>
    manifest.there

=============================================================================
