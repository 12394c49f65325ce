------------------------------ MODULE FileEdits ------------------------------
(***************************************************************************)
(* One file that several agents edit at the same time: the workers of a    *)
(* plan and delegated agents share a folder.  The file tool's edit, append *)
(* and write (internal/tool/builtin/file.go) and the patch tool with its   *)
(* syntax check and its revert (internal/tool/builtin/patch.go); no call   *)
(* locks the file.  A file is the set of edits it contains; os.WriteFile   *)
(* empties it and then writes.                                             *)
(***************************************************************************)
EXTENDS FiniteSets

CONSTANTS
  Edits,     \* calls of the tools
  EditKinds  \* the combinations of kinds they may have

Base == "base"  \* the text of the file that edits look for
ASSUME EditAssumption == Base \notin Edits

VARIABLES
  kind,     \* "edit", "append", "write" or "patch"
  faulty,   \* edits that break the syntax
  checker,  \* there is a program that checks its syntax
  file,     \* the edits whose text is in the file, and Base
  mixed,    \* two writes at the same place left a mixture
  editAt,   \* what a call is at
  copy,     \* what it read, and restores
  said,     \* its answer
  met,      \* history: calls that were under way at the same time
  over      \* history: calls that overwrote the file after it had begun

editVars == <<kind, faulty, checker, file, mixed, editAt, copy, said, met, over>>

EditInit ==
  /\ kind \in EditKinds /\ faulty \in SUBSET Edits /\ checker \in BOOLEAN
  /\ file = {Base} /\ mixed = FALSE
  /\ editAt = [e \in Edits |-> "new"] /\ copy = [e \in Edits |-> {}]
  /\ said = [e \in Edits |-> "nothing"]
  /\ met = [e \in Edits |-> {}] /\ over = [e \in Edits |-> {}]

Calling == {e \in Edits : editAt[e] \notin {"new", "done"}}
Now(e, at) == editAt' = [editAt EXCEPT ![e] = at]
Tells(e, what) == Now(e, "done") /\ said' = [said EXCEPT ![e] = what]

\* A call meets those that are under way.
Meets(e) ==
  met' = [x \in Edits |-> IF x = e THEN Calling
                          ELSE IF x \in Calling THEN met[x] \union {e} ELSE met[x]]

\* editFile and the patch read first; text that is not found ends the call.
ReadFile(e) ==
  /\ editAt[e] = "new" /\ kind[e] \in {"edit", "patch"}
  /\ copy' = [copy EXCEPT ![e] = file] /\ Meets(e)
  /\ IF Base \in file THEN Now(e, "empty") /\ UNCHANGED said ELSE Tells(e, "not found")
  /\ UNCHANGED <<kind, faulty, checker, file, mixed, over>>

BeginWrite(e) ==
  /\ editAt[e] = "new" /\ kind[e] = "write"
  /\ Meets(e) /\ Now(e, "empty")
  /\ over' = [x \in Edits |-> IF x # e /\ editAt[x] # "new" THEN over[x] \union {e}
                              ELSE over[x]]
  /\ UNCHANGED <<kind, faulty, checker, file, mixed, copy, said>>

\* With O_APPEND.
AppendFile(e) ==
  /\ editAt[e] = "new" /\ kind[e] = "append"
  /\ file' = file \union {e} /\ Meets(e) /\ Tells(e, "ok")
  /\ UNCHANGED <<kind, faulty, checker, mixed, copy, over>>

\* os.WriteFile, for the edit and to restore the original.
EmptyFile(e) ==
  /\ editAt[e] \in {"empty", "restore"}
  /\ file' = {} /\ mixed' = FALSE
  /\ Now(e, IF editAt[e] = "empty" THEN "fill" ELSE "refill")
  /\ UNCHANGED <<kind, faulty, checker, copy, said, met, over>>

\* What others wrote since the file was emptied may be left beyond the end.
Fill(e, text) ==
  /\ file' = text /\ mixed' \in (IF file = {} THEN {FALSE} ELSE BOOLEAN)

WriteEdit(e) ==
  /\ editAt[e] = "fill"
  /\ Fill(e, IF kind[e] = "write" THEN {Base, e} ELSE copy[e] \union {e})
  /\ IF kind[e] = "patch" THEN Now(e, "check") /\ UNCHANGED said ELSE Tells(e, "ok")
  /\ UNCHANGED <<kind, faulty, checker, copy, met, over>>

Sound == file \intersect faulty = {} /\ ~mixed /\ Base \in file

\* verifySyntax looks at the file as it is by now.  With no checker for its
\* language it passes, and the answer says "syntax verified" all the same.
CheckPasses(e) ==
  /\ editAt[e] = "check" /\ (checker => Sound) /\ Tells(e, "ok")
  /\ UNCHANGED <<kind, faulty, checker, file, mixed, copy, met, over>>

\* Also when it runs out of time, or the file did not compile before.
CheckFails(e) ==
  /\ editAt[e] = "check" /\ checker /\ Now(e, "restore")
  /\ UNCHANGED <<kind, faulty, checker, file, mixed, copy, said, met, over>>

\* Mutant: the patched text is written again in place of the original.
RestoreThePatch(e) ==
  /\ editAt[e] = "refill" /\ Fill(e, copy[e] \union {e}) /\ Tells(e, "reverted")
  /\ UNCHANGED <<kind, faulty, checker, copy, met, over>>

Restore(e) ==
  /\ editAt[e] = "refill" /\ Fill(e, copy[e]) /\ Tells(e, "reverted")
  /\ UNCHANGED <<kind, faulty, checker, copy, met, over>>

\* The program ends, or the disk is full: what was emptied stays empty.
EditFails(e) ==
  /\ editAt[e] \in {"empty", "fill", "restore", "refill"}
  /\ Tells(e, "error")
  /\ UNCHANGED <<kind, faulty, checker, file, mixed, copy, met, over>>

EditNext ==
  \E e \in Edits :
    \/ ReadFile(e) \/ BeginWrite(e) \/ AppendFile(e) \/ EmptyFile(e) \/ WriteEdit(e)
    \/ CheckPasses(e) \/ CheckFails(e) \/ Restore(e) \/ EditFails(e)

EditSpec == EditInit /\ [][EditNext]_editVars

----------------------------------------------------------------------------
EditTypeOK ==
  /\ file \subseteq Edits \union {Base} /\ mixed \in BOOLEAN
  /\ said \in [Edits -> {"nothing", "ok", "not found", "reverted", "error"}]

Alone(e) == met[e] = {} /\ over[e] = {}
FailedEdits == {e \in Edits : said[e] = "error"}

(* What the tools answer about the file.  An edit that was announced is in *)
(* it, and one that was announced as reverted is not, unless it met        *)
(* another call, was written over, or a write failed half way; a patch     *)
(* that met nobody leaves no syntax error that was not there; and only     *)
(* calls that met leave a mixture of their texts.                          *)
EditsAreTold ==
  /\ \A e \in Edits : Alone(e) /\ FailedEdits = {} =>
       /\ said[e] = "ok" => e \in file \/ Calling # {} \/ mixed
       /\ said[e] = "reverted" => e \notin file
       /\ said[e] = "ok" /\ kind[e] = "patch" /\ checker => e \notin faulty
  /\ mixed => \E e \in Edits : met[e] # {}

=============================================================================
