------------------------------- MODULE Worker -------------------------------
(***************************************************************************)
(* The worker of one plan step (internal/agent/worker.go): the tool loop   *)
(* reactLoop, the file check with its retries (verifyArtifacts, and        *)
(* verifyFileCreation of orchestrated.go) and the tags runWorker puts on   *)
(* the finding.  A model response, one tool call of it, and one check of   *)
(* the files are the steps.  The conversation is abstracted to what the    *)
(* checks read in it: the paths of file-write calls in assistant messages  *)
(* and whether a tool result reports a command that failed.                *)
(***************************************************************************)
EXTENDS Naturals, Sequences, FiniteSets

CONSTANTS
  Paths,          \* files a step may write
  WorkerMaxIter,  \* OrchestratorConfig.WorkerMaxIterations
  WorkerBudget,   \* OrchestratorConfig.WorkerMaxToolCalls
  WorkerBatch     \* bound: tool calls in one model response

\* With a cap of one iteration the evidence nudge itself would be returned as
\* the finding; the code only replaces caps of zero and less by 8.
ASSUME WorkerAssumption ==
  WorkerMaxIter \in Nat \ {0, 1} /\ WorkerBudget \in Nat \ {0} /\ WorkerBatch \in Nat \ {0}
ASSUME PathsAssumption == IsFiniteSet(Paths)

MaxRetries == 2      \* verifyArtifacts
RepeatLimit == 3     \* the circuit breaker of reactLoop

\* A call that is no file write may run a command, and the command may fail.
ToolCalls == [kind: {"write"}, path: Paths] \union [kind: {"command"}, path: {"-"}]
NoCall == [kind |-> "none", path |-> "-"]

Batches == UNION {[1..n -> ToolCalls] : n \in 1..WorkerBatch}

VARIABLES
  step,     \* what the step's description and tool hint make of it
  workerAt, \* "ask", "calls", "check", "done" or "failed"
  loop,     \* locals of reactLoop
  pending,  \* calls of the current response not yet executed
  msgs,     \* the conversation: write calls shown, a failed command shown
  grown,    \* the conversation as the first reactLoop returned it
  disk,     \* the files: "absent", "empty" or "full"
  tries,    \* verifyArtifacts: retries made, claims seen, a retry that failed
  draft,    \* currentTagged: verdict and tags of the last checked output
  finding,  \* what runWorker returned
  wrote     \* history: the model's own calls have written a file

workerVars ==
  <<step, workerAt, loop, pending, msgs, grown, disk, tries, draft, finding, wrote>>

\* A QA step (isQAStep) is also a check step (isVerifyOrQAStep).
StepKinds ==
  {s \in [file: BOOLEAN, check: BOOLEAN, qa: BOOLEAN, hint: BOOLEAN] : s.qa => s.check}

NewLoop == [iter |-> 0, made |-> 0, nudged |-> FALSE, last |-> NoCall, repeat |-> 0]
NoDraft == [verdict |-> "none", noEvidence |-> FALSE]
NoFinding == [verdict |-> "none", noEvidence |-> FALSE, build |-> FALSE]

WorkerInit ==
  /\ step \in StepKinds
  /\ workerAt = "ask"
  /\ loop = NewLoop /\ pending = <<>>
  /\ msgs = [writes |-> {}, failed |-> FALSE] /\ grown = msgs
  /\ disk = [p \in Paths |-> "absent"]
  /\ tries = [attempt |-> 0, seen |-> {}, brokeOff |-> FALSE]
  /\ draft = NoDraft /\ finding = NoFinding
  /\ wrote = FALSE

NeedsEvidence == step.hint \/ step.file

\* Mutant: only the text of the output is looked at.
ReturnByText(d, shown) ==
  \E quoted \in BOOLEAN :
    /\ finding' = [verdict |-> d.verdict, noEvidence |-> d.noEvidence,
                   build |-> step.check /\ quoted]
    /\ workerAt' = "done"

\* A verify or QA step is tagged when a command it is known to have run
\* failed: its first conversation says so, or its own text quotes the marker.
Return(d, shown) ==
  \E quoted \in BOOLEAN :
    /\ finding' = [verdict |-> d.verdict, noEvidence |-> d.noEvidence,
                   build |-> step.check /\ (shown \/ quoted)]
    /\ workerAt' = "done"

----------------------------------------------------------------------------
(* reactLoop *)

Asking == workerAt = "ask" /\ ~step.qa

\* The loop hands its output to verifyArtifacts, the first time with the
\* conversation that the build tag will be decided on.
LoopReturns(noEvidence) ==
  /\ workerAt' = "check"
  /\ grown' = IF tries.attempt = 0 THEN msgs' ELSE grown
  /\ draft' = [draft EXCEPT !.noEvidence = noEvidence]

\* The end of an iteration; past the cap the last message is the output.
NextIter(l) ==
  /\ loop' = [l EXCEPT !.iter = @ + 1]
  /\ IF l.iter + 1 < WorkerMaxIter
     THEN workerAt' = "ask" /\ UNCHANGED <<grown, draft>>
     ELSE LoopReturns(FALSE)

\* In a retry the failure only ends the retries: the last verdict stands.
AskFails ==
  /\ Asking
  /\ IF tries.attempt = 0 THEN workerAt' = "failed" /\ UNCHANGED finding
     ELSE Return(draft, grown.failed)
  /\ tries' = [tries EXCEPT !.brokeOff = tries.attempt > 0]
  /\ UNCHANGED <<step, loop, pending, msgs, grown, disk, draft, wrote>>

ModelCalls ==
  /\ Asking
  /\ \E b \in Batches :
       /\ pending' = b
       /\ msgs' = [msgs EXCEPT !.writes = @ \union {b[i].path : i \in {j \in DOMAIN b : b[j].kind = "write"}}]
  /\ workerAt' = "calls"
  /\ UNCHANGED <<step, loop, grown, disk, tries, draft, finding, wrote>>

\* The interceptor writes the files of the code blocks itself, and each write
\* may fail.  It leaves tool results in the conversation and no assistant
\* message with the calls.
Intercept ==
  /\ Asking /\ step.file /\ ~loop.nudged
  /\ msgs' = msgs
  /\ \E blocks \in (SUBSET Paths) \ {{}} : \E good \in SUBSET blocks :
       /\ disk' = [p \in Paths |-> IF p \in good THEN "full" ELSE disk[p]]
       /\ NextIter([loop EXCEPT !.made = @ + Cardinality(blocks)])
  /\ UNCHANGED <<step, pending, tries, finding, wrote>>

\* An answer from memory is turned down once, on the first turn.
Nudge ==
  /\ Asking /\ loop.iter = 0 /\ NeedsEvidence /\ ~loop.nudged
  /\ msgs' = msgs
  /\ NextIter([loop EXCEPT !.nudged = TRUE])
  /\ UNCHANGED <<step, pending, disk, tries, finding, wrote>>

AcceptAnswer ==
  /\ Asking /\ ~(loop.iter = 0 /\ NeedsEvidence /\ ~loop.nudged)
  /\ msgs' = msgs
  /\ LoopReturns(loop.nudged /\ NeedsEvidence /\ loop.made = 0)
  /\ UNCHANGED <<step, loop, pending, disk, tries, finding, wrote>>

\* The next call of the response is over the budget, or the third of its
\* kind in a row: the loop returns and the rest of the response is dropped.
Repeats(c) == IF c = loop.last THEN loop.repeat + 1 ELSE 1

StopCalls ==
  /\ workerAt = "calls" /\ pending # <<>>
  /\ loop.made + 1 > WorkerBudget \/ Repeats(Head(pending)) >= RepeatLimit
  /\ pending' = <<>> /\ msgs' = msgs /\ LoopReturns(FALSE)
  /\ UNCHANGED <<step, loop, disk, tries, finding, wrote>>

\* One call, which may fail: a write then leaves nothing, or an empty file,
\* and a failed command leaves its marker in the conversation.
Act ==
  /\ workerAt = "calls" /\ pending # <<>>
  /\ loop.made + 1 <= WorkerBudget /\ Repeats(Head(pending)) < RepeatLimit
  /\ LET c == Head(pending)
         l == [loop EXCEPT !.made = @ + 1, !.last = c, !.repeat = Repeats(c)]
     IN /\ \E good \in {"absent", "empty", "full"} :
             disk' = IF c.kind = "write" /\ good # "absent"
                     THEN [disk EXCEPT ![c.path] = good] ELSE disk
        /\ \E bad \in BOOLEAN :
             msgs' = [msgs EXCEPT !.failed = @ \/ (c.kind = "command" /\ bad)]
        /\ wrote' = (wrote \/ c.kind = "write")
        /\ IF Len(pending) = 1 THEN NextIter(l)
           ELSE loop' = l /\ UNCHANGED <<workerAt, grown, draft>>
  /\ pending' = Tail(pending)
  /\ UNCHANGED <<step, tries, finding>>

----------------------------------------------------------------------------
(* verifyFileCreation and verifyArtifacts *)

Candidates == msgs.writes

\* A file whose exists call fails counts as missing.
Verdict(unseen) ==
  LET missing == unseen \union {p \in Candidates : disk[p] = "absent"}
  IN  IF Candidates = {} THEN "failed: no write calls"
      ELSE IF missing = Candidates THEN "failed: no files"
      ELSE IF missing # {} \/ \E p \in Candidates : disk[p] = "empty" THEN "partial"
      ELSE "none"

Failed(v) == v \in {"failed: no write calls", "failed: no files"}

\* The output with the tag of the file check, which only file steps get.
Checked ==
  {[draft EXCEPT !.verdict = IF step.file THEN Verdict(unseen) ELSE "none"] :
     unseen \in SUBSET Candidates}

\* The files are there, the output names none to ask for, the same names as
\* before, or two retries are spent: the finding goes out.
Conclude ==
  /\ workerAt = "check"
  /\ \E d \in Checked : draft' = d /\ Return(d, grown.failed)
  /\ UNCHANGED <<step, loop, pending, msgs, grown, disk, tries, wrote>>

Retry ==
  /\ workerAt = "check" /\ tries.attempt < MaxRetries
  /\ \E d \in Checked : Failed(d.verdict) /\ draft' = d
  /\ \E claimed \in (SUBSET Paths) \ {{}} :
       /\ claimed \notin tries.seen
       /\ tries' = [tries EXCEPT !.attempt = @ + 1, !.seen = @ \union {claimed}]
  /\ loop' = NewLoop /\ workerAt' = "ask"
  /\ UNCHANGED <<step, pending, msgs, grown, disk, finding, wrote>>

----------------------------------------------------------------------------
\* A QA step is a run of its own with a fresh conversation (QAWorker): only
\* its verdict text comes back, so whether it ran a failing command shows
\* only if the text quotes it.
QAReview ==
  /\ workerAt = "ask" /\ step.qa
  /\ \/ workerAt' = "failed" /\ UNCHANGED <<finding, msgs>>
     \/ \E bad \in BOOLEAN :
          msgs' = [msgs EXCEPT !.failed = bad] /\ Return(NoDraft, FALSE)
  /\ UNCHANGED <<step, loop, pending, grown, disk, tries, draft, wrote>>

WorkerNext ==
  \/ AskFails \/ ModelCalls \/ Intercept \/ Nudge \/ AcceptAnswer
  \/ StopCalls \/ Act \/ Conclude \/ Retry \/ QAReview

WorkerSpec == WorkerInit /\ [][WorkerNext]_workerVars /\ WF_workerVars(WorkerNext)
----------------------------------------------------------------------------
Verdicts == {"none", "partial", "failed: no write calls", "failed: no files"}

WorkerTypeOK ==
  /\ step \in StepKinds
  /\ workerAt \in {"ask", "calls", "check", "done", "failed"}
  /\ loop \in [iter: 0..WorkerMaxIter, made: Nat, nudged: BOOLEAN,
               last: ToolCalls \union {NoCall}, repeat: 0..(RepeatLimit - 1)]
  /\ pending \in Seq(ToolCalls)
  /\ msgs \in [writes: SUBSET Paths, failed: BOOLEAN]
  /\ grown \in [writes: SUBSET Paths, failed: BOOLEAN]
  /\ disk \in [Paths -> {"absent", "empty", "full"}]
  /\ tries.attempt \in 0..MaxRetries /\ tries.seen \subseteq SUBSET Paths
  /\ draft \in [verdict: Verdicts, noEvidence: BOOLEAN]
  /\ finding \in [verdict: Verdicts, noEvidence: BOOLEAN, build: BOOLEAN]

(* A finding carries the tags it should: an output without a tool call for *)
(* a step that needed one; a verify step that ran a failing command in its *)
(* first conversation, whatever the retries and the model's text say; and  *)
(* a file step goes out untagged only if every file it was to write is on  *)
(* disk with content.  It denies any write call, though the model made     *)
(* one, only when a retry broke off.  A QA step is left out: its failing   *)
(* commands stay in the reviewer's own conversation.                       *)
FindingsCarryTheirTags ==
  /\ workerAt = "check" /\ NeedsEvidence /\ loop.made = 0 => draft.noEvidence
  /\ workerAt = "done" /\ step.check /\ ~step.qa /\ grown.failed => finding.build
  /\ workerAt = "done" /\ step.file /\ ~step.qa /\ finding.verdict = "none" =>
       msgs.writes # {} /\ \A p \in msgs.writes : disk[p] = "full"
  /\ workerAt = "done" /\ finding.verdict = "failed: no write calls" =>
       ~wrote \/ tries.brokeOff

=============================================================================
