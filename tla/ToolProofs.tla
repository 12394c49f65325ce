----------------------------- MODULE ToolProofs -----------------------------
(***************************************************************************)
(* The tools that agents share, each a component of its own: edits of one  *)
(* file, the todo list and the table of processes, delegation, and the     *)
(* client of an MCP server. What the tools answer is true although         *)
(* nothing, or too little, is locked.                                      *)
(***************************************************************************)
EXTENDS FileEdits, SharedTables, Delegation, McpClient, FiniteSetTheorems, SequenceTheorems, TLAPS

-----------------------------------------------------------------------------
(* FileEdits: calls of the file tools on one file. *)

CallSteps == {"new", "empty", "fill", "check", "restore", "refill", "done"}

EditShape ==
  /\ EditTypeOK
  /\ editAt \in [Edits -> CallSteps] /\ copy \in [Edits -> SUBSET (Edits \union {Base})]
  /\ met \in [Edits -> SUBSET Edits] /\ over \in [Edits -> SUBSET Edits]
  /\ \A e \in Edits : /\ editAt[e] = "new" => met[e] = {} /\ copy[e] = {}
                      /\ said[e] # "nothing" <=> editAt[e] = "done"
                      /\ editAt[e] \in {"check", "restore", "refill"} => kind[e] = "patch"

\* Calls that are under way have met; a write that began since has been noted.
MeetingsAreNoted ==
  /\ \A e, f \in Calling : e # f => f \in met[e]
  /\ \A e \in Edits, f \in Calling :
       editAt[e] = "done" /\ kind[f] = "write" => f \in met[e] \union over[e]

\* What a call holds of the file.
CopiesHold ==
  /\ \A e \in Calling : kind[e] # "write" => Base \in copy[e]
  /\ \A e \in Edits : e \notin copy[e]
  /\ \A e \in Edits : editAt[e] = "new" => e \notin file /\ \A f \in Edits : e \notin copy[f]

\* A file without its text is being written, by a call that did not fail.
EmptiedIsRefilled ==
  FailedEdits = {} /\ Base \notin file => \E f \in Edits : editAt[f] \in {"fill", "refill"}

\* Nobody writes under a call that meets nobody.
LoneCallsOwnTheFile ==
  \A e \in Edits : met[e] = {} =>
    /\ editAt[e] \in {"fill", "refill"} => file = {}
    /\ editAt[e] = "check" => e \in file

\* Whoever has begun since has read the edit, or that it was taken back.
AnswersReachReaders ==
  \A e \in Edits : Alone(e) =>
    /\ said[e] = "ok" /\ FailedEdits = {} =>
         (Base \in file => e \in file) /\ \A f \in Calling : kind[f] # "write" => e \in copy[f]
    /\ said[e] = "reverted" => e \notin file /\ \A f \in Calling : e \notin copy[f]
    /\ said[e] = "ok" /\ kind[e] = "patch" /\ checker => e \notin faulty

MixturesMet == mixed => \E e \in Edits : met[e] # {}

EditInv ==
  /\ EditShape /\ MeetingsAreNoted /\ CopiesHold /\ EmptiedIsRefilled
  /\ LoneCallsOwnTheFile /\ AnswersReachReaders /\ MixturesMet

\* It holds at the start.
LEMMA EditInvInitially == EditInit => EditInv
<1> SUFFICES ASSUME EditInit PROVE EditInv
  OBVIOUS
<1>1. Calling = {} /\ FailedEdits = {}
  BY DEF EditInit, Calling, FailedEdits
<1>2. EditShape
  BY DEF EditInit, EditShape, EditTypeOK, CallSteps
<1>3. QED BY <1>1, <1>2, EditAssumption DEF EditInit, EditInv, MeetingsAreNoted, CopiesHold,
   EmptiedIsRefilled,
     LoneCallsOwnTheFile, AnswersReachReaders, MixturesMet

\* A call begins.
LEMMA BeginKeepsEditInv ==
  ASSUME EditInv, NEW e \in Edits, ReadFile(e) \/ BeginWrite(e) \/ AppendFile(e)
  PROVE  EditInv'
<1> USE DEF EditInv
<1>1. /\ editAt[e] = "new" /\ UNCHANGED <<kind, faulty, checker, mixed>> 
      /\ met' = [x \in Edits |-> IF x = e THEN Calling
                          ELSE IF x \in Calling THEN met[x] \union {e} ELSE met[x]]
  BY DEF ReadFile, BeginWrite, AppendFile, Meets
<1>2. /\ editAt' = [editAt EXCEPT ![e] = IF e \in Calling' THEN "empty" ELSE "done"]
      /\ e \notin Calling
      /\ (e \in Calling' => Calling' = Calling \union {e} /\ said' = said)
      /\ (e \notin Calling' => Calling' = Calling)
  BY <1>1 DEF ReadFile, BeginWrite, AppendFile, Now, Tells, Calling, EditShape
<1>3. file' = file \/ (AppendFile(e) /\ file' = file \union {e})
  BY DEF ReadFile, BeginWrite, AppendFile
<1>4. copy' = copy \/ (ReadFile(e) /\ copy' = [copy EXCEPT ![e] = file])
  BY DEF ReadFile, BeginWrite, AppendFile
<1>5. \A x \in Edits : over[x] \subseteq over'[x]
  BY DEF ReadFile, BeginWrite, AppendFile, EditShape
<1>6. EditShape'
  <2>1. met' \in [Edits -> SUBSET Edits] /\ over' \in [Edits -> SUBSET Edits]
    <3>1. \A x \in Edits : met[x] \subseteq Edits /\ over[x] \subseteq Edits
      BY DEF EditShape
    <3>2. Calling \subseteq Edits
      BY DEF Calling
    <3>3. met' \in [Edits -> SUBSET Edits]
      BY <1>1, <3>1, <3>2
    <3>4. over' = over \/ over' = [x \in Edits |-> IF x # e /\ editAt[x] # "new"
            THEN over[x] \union {e} ELSE over[x]]
      BY DEF ReadFile, BeginWrite, AppendFile
    <3>5. QED BY <3>1, <3>3, <3>4 DEF EditShape
  <2>2. copy' \in [Edits -> SUBSET (Edits \union {Base})] /\ file' \subseteq Edits \union {Base}
    BY <1>3, <1>4 DEF EditShape, EditTypeOK
  <2>3. \/ editAt' = [editAt EXCEPT ![e] = "empty"] /\ said' = said
        \/ editAt' = [editAt EXCEPT ![e] = "done"]
           /\ \E what \in {"ok", "not found"} : said' = [said EXCEPT ![e] = what]
    BY DEF ReadFile, BeginWrite, AppendFile, Now, Tells
  <2>4. /\ editAt' \in [Edits -> CallSteps] /\ mixed' \in BOOLEAN
        /\ said' \in [Edits -> {"nothing", "ok", "not found", "reverted", "error"}]
    <3>1. CASE editAt' = [editAt EXCEPT ![e] = "empty"] /\ said' = said
      BY <1>1, <3>1 DEF EditShape, EditTypeOK, CallSteps
    <3>2. ASSUME NEW what \in {"ok", "not found"}, editAt' = [editAt EXCEPT ![e] = "done"],
                 said' = [said EXCEPT ![e] = what]
          PROVE  /\ editAt' \in [Edits -> CallSteps] /\ mixed' \in BOOLEAN
                 /\ said' \in [Edits -> {"nothing", "ok", "not found", "reverted", "error"}]
      BY <1>1, <3>2 DEF EditShape, EditTypeOK, CallSteps
    <3>3. QED BY <2>3, <3>1, <3>2
  <2>5. ASSUME NEW x \in Edits
        PROVE  /\ editAt'[x] = "new" => met'[x] = {} /\ copy'[x] = {}
               /\ said'[x] # "nothing" <=> editAt'[x] = "done"
               /\ editAt'[x] \in {"check", "restore", "refill"} => kind[x] = "patch"
    <3>1. /\ editAt[x] = "new" => met[x] = {} /\ copy[x] = {}
          /\ said[x] # "nothing" <=> editAt[x] = "done"
          /\ editAt[x] \in {"check", "restore", "refill"} => kind[x] = "patch"
      BY DEF EditShape
    <3>2. editAt \in [Edits -> CallSteps]
          /\ said \in [Edits -> {"nothing", "ok", "not found", "reverted", "error"}]
      BY DEF EditShape, EditTypeOK
    <3>3. CASE x = e
      <4>1. editAt'[e] \in {"empty", "done"} /\ (said'[e] # "nothing" <=> editAt'[e] = "done")
        BY <1>1, <2>3, <3>1, <3>2, <3>3
      <4>2. QED BY <3>3, <4>1
    <3>4. CASE x # e
      <4>1. editAt'[x] = editAt[x] /\ said'[x] = said[x] /\ copy'[x] = copy[x]
        BY <1>4, <2>3, <3>2, <3>4 DEF EditShape
      <4>2. editAt[x] = "new" => met'[x] = {}
        BY <1>1, <3>1, <3>4 DEF Calling
      <4>3. QED BY <1>1, <3>1, <4>1, <4>2
    <3>5. QED BY <3>3, <3>4
  <2>6. QED BY <1>1, <2>1, <2>2, <2>4, <2>5 DEF EditShape, EditTypeOK
<1>7. \A x \in Edits : x # e => editAt'[x] = editAt[x] /\ said'[x] = said[x] /\ copy'[x] = copy[x]
          /\ met[x] \subseteq met'[x] /\ (x \in Calling => e \in met'[x])
  BY <1>1, <1>2, <1>4 DEF EditShape, EditTypeOK, ReadFile, BeginWrite, AppendFile, Tells
<1>8. MeetingsAreNoted'
  <2>1. \A x, f \in Calling' : x # f => f \in met'[x]
    BY <1>1, <1>2, <1>7 DEF MeetingsAreNoted, Calling
  <2>2. ASSUME NEW x \in Edits, NEW f \in Calling', editAt'[x] = "done", kind[f] = "write"
        PROVE  f \in met'[x] \union over'[x]
    <3>1. CASE f = e
      <4>1. BeginWrite(e)
        BY <1>2, <2>2, <3>1 DEF ReadFile, AppendFile, Tells, Calling, EditShape
      <4>2. x # e /\ editAt[x] = "done"
        BY <1>2, <1>7, <2>2, <3>1 DEF EditShape
      <4>3. QED BY <3>1, <4>1, <4>2 DEF BeginWrite
    <3>2. CASE f # e /\ x = e
      BY <1>1, <1>2, <2>2, <3>2
    <3>3. CASE f # e /\ x # e
      BY <1>2, <1>5, <1>7, <2>2, <3>3 DEF MeetingsAreNoted
    <3>4. QED BY <3>1, <3>2, <3>3
  <2>3. QED BY <1>1, <2>1, <2>2 DEF MeetingsAreNoted
<1>9. CopiesHold'
  <2>1. \A x \in Calling' : kind[x] # "write" => Base \in copy'[x]
    <3>1. e \in Calling' /\ kind[e] # "write" => Base \in copy'[e]
      <4>1. ~BeginWrite(e) /\ ~AppendFile(e) /\ Base \notin file => e \notin Calling'
        BY DEF ReadFile, BeginWrite, AppendFile, Tells, Now, EditShape, Calling
      <4>2. BeginWrite(e) => kind[e] = "write"
        BY DEF BeginWrite
      <4>3. AppendFile(e) => e \notin Calling'
        BY DEF AppendFile, Tells, Now, EditShape, Calling
      <4>4. ReadFile(e) => copy'[e] = file
        BY DEF ReadFile, EditShape
      <4>5. QED BY <4>1, <4>2, <4>3, <4>4
    <3>2. QED BY <1>2, <1>7, <3>1 DEF CopiesHold, Calling
  <2>2. \A x \in Edits : x \notin copy'[x]
    BY <1>1, <1>4 DEF CopiesHold, EditShape
  <2>3. \A x \in Edits : editAt'[x] = "new" => x # e /\ editAt[x] = "new"
    BY <1>2, <1>7 DEF EditShape
  <2>4. \A x \in Edits : editAt'[x] = "new" => x \notin file' /\ \A f \in Edits : x \notin copy'[f]
    BY <1>3, <1>4, <2>3 DEF CopiesHold, EditShape
  <2>5. QED BY <1>1, <2>1, <2>2, <2>4 DEF CopiesHold
<1>10. EmptiedIsRefilled'
  <2>1. FailedEdits' = {} => FailedEdits = {}
    BY <1>1, <1>7 DEF FailedEdits, EditShape
  <2>2. \A f \in Edits : editAt[f] \in {"fill", "refill"} => editAt'[f] = editAt[f]
    BY <1>1, <1>7
  <2>3. QED BY <1>3, <2>1, <2>2 DEF EmptiedIsRefilled
<1>11. LoneCallsOwnTheFile'
  BY <1>1, <1>2, <1>3, <1>7 DEF LoneCallsOwnTheFile, EditShape, Calling, AppendFile
<1>12. AnswersReachReaders'
  <2>1. FailedEdits' = {} => FailedEdits = {}
    BY <1>1, <1>7 DEF FailedEdits, EditShape
  <2>2. ASSUME NEW x \in Edits, Alone(x)', x # e
        PROVE  /\ said'[x] = "ok" /\ FailedEdits' = {} =>
                  (Base \in file' => x \in file')
                    /\ \A f \in Calling' : kind[f] # "write" => x \in copy'[f]
               /\ said'[x] = "reverted" => x \notin file' /\ \A f \in Calling' : x \notin copy'[f]
               /\ said'[x] = "ok" /\ kind[x] = "patch" /\ checker => x \notin faulty
    <3>1. Alone(x)
      BY <1>5, <1>7, <2>2 DEF Alone
    <3>2. e \in Calling' /\ kind[e] # "write" => Base \in file /\ copy'[e] = file
      BY <1>2 DEF ReadFile, BeginWrite, AppendFile, Now, Tells, EditShape, Calling
    <3>3. e \in Calling' => copy'[e] \in {file, {}}
      BY <1>1, <1>4 DEF EditShape
    <3>4. said'[x] = said[x]
      BY <1>7, <2>2
    <3>5. said[x] = "ok" /\ FailedEdits' = {} =>
                  (Base \in file' => x \in file')
                    /\ \A f \in Calling' : kind[f] # "write" => x \in copy'[f]
      BY <1>2, <1>3, <1>7, <2>1, <2>2, <3>1, <3>2, EditAssumption DEF AnswersReachReaders, Calling
    <3>6. said[x] = "reverted" => x \notin file' /\ \A f \in Calling' : x \notin copy'[f]
      <4>1. said[x] = "reverted" => x \notin file /\ \A f \in Calling : x \notin copy[f]
        BY <3>1 DEF AnswersReachReaders
      <4>2. \A f \in Calling' : f = e \/ (f \in Calling /\ copy'[f] = copy[f])
        BY <1>2, <1>7 DEF Calling
      <4>3. QED BY <1>3, <2>2, <3>3, <4>1, <4>2
    <3>7. QED BY <3>1, <3>4, <3>5, <3>6 DEF AnswersReachReaders
  <2>3. ASSUME Alone(e)', said'[e] \in {"ok", "reverted"}
        PROVE  said'[e] = "ok" /\ e \in file' /\ Calling' = {} /\ kind[e] # "patch"
    BY <1>1, <1>2, <2>3 DEF Alone, ReadFile, BeginWrite, AppendFile, Tells, EditShape, EditTypeOK,
       Calling
  <2>4. QED BY <1>1, <2>2, <2>3 DEF AnswersReachReaders
<1>13. MixturesMet'
  BY <1>1, <1>7 DEF MixturesMet, EditShape
<1>14. QED BY <1>6, <1>8, <1>9, <1>10, <1>11, <1>12, <1>13

\* What every later step of a call has in common: others are where they were,
\* and what was noted about anyone stays as it is.
LEMMA LaterSteps ==
  ASSUME EditInv, NEW e \in Edits,
         \/ EmptyFile(e) \/ WriteEdit(e) \/ CheckPasses(e) \/ CheckFails(e) \/ Restore(e)
         \/ EditFails(e)
  PROVE  /\ UNCHANGED <<kind, faulty, checker, copy, met, over>> /\ e \in Calling
         /\ \A x \in Edits \ {e} : editAt'[x] = editAt[x] /\ said'[x] = said[x]
         /\ Calling' = IF editAt'[e] = "done" THEN Calling \ {e} ELSE Calling
         /\ editAt'[e] # "new" /\ (FailedEdits' = {} => FailedEdits = {} /\ said'[e] # "error")
         /\ editAt' \in [Edits -> CallSteps]
         /\ said' \in [Edits -> {"nothing", "ok", "not found", "reverted", "error"}]
         /\ said'[e] # "nothing" <=> editAt'[e] = "done"
         /\ editAt'[e] \in {"check", "restore", "refill"} => kind[e] = "patch"
         /\ MeetingsAreNoted'
<1> USE DEF EditInv, EditShape, EditTypeOK, CallSteps, EmptyFile, WriteEdit, CheckPasses,
   CheckFails, Restore,
      EditFails, Now, Tells
<1>1. /\ UNCHANGED <<kind, faulty, checker, copy, met, over>> /\ e \in Calling
      /\ said[e] = "nothing"
  BY DEF Calling
<1>2. PICK spot \in {"fill", "refill", "check", "restore", "done"} :
        /\ editAt' = [editAt EXCEPT ![e] = spot]
        /\ spot \in {"check", "restore", "refill"} => kind[e] = "patch"
        /\ spot # "done" => said' = said
        /\ spot = "done" => \E what \in {"ok", "reverted", "error"} :
             said' = [said EXCEPT ![e] = what]
  OBVIOUS
<1> HIDE DEF EmptyFile, WriteEdit, CheckPasses, CheckFails, Restore, EditFails, EditInv,
   EditShape, EditTypeOK, CallSteps
<1>3. /\ said \in [Edits -> {"nothing", "ok", "not found", "reverted", "error"}]
      /\ editAt \in [Edits -> CallSteps] /\ spot \in CallSteps
  BY DEF EditInv, EditShape, EditTypeOK, CallSteps
<1>4. editAt' \in [Edits -> CallSteps] /\ editAt'[e] = spot
        /\ \A x \in Edits \ {e} : editAt'[x] = editAt[x]
  BY ONLY <1>2, <1>3
<1>5. /\ said' \in [Edits -> {"nothing", "ok", "not found", "reverted", "error"}]
      /\ said'[e] # "nothing" <=> spot = "done"
      /\ \A x \in Edits \ {e} : said'[x] = said[x]
  <2>1. CASE spot = "done"
    <3>1. PICK what \in {"ok", "reverted", "error"} : said' = [said EXCEPT ![e] = what]
      BY <1>2, <2>1
    <3>2. said'[e] = what /\ what # "nothing"
      BY ONLY <1>3, <3>1
    <3>3. /\ said' \in [Edits -> {"nothing", "ok", "not found", "reverted", "error"}]
          /\ \A x \in Edits \ {e} : said'[x] = said[x]
      BY ONLY <1>3, <3>1
    <3>4. QED BY ONLY <2>1, <3>2, <3>3
  <2>2. CASE spot # "done"
    <3>1. said' = said
      BY <1>2, <2>2
    <3>2. QED BY <1>1, <1>3, <2>2, <3>1
  <2>3. QED BY <2>1, <2>2
<1>6. Calling' = IF spot = "done" THEN Calling \ {e} ELSE Calling
  BY <1>1, <1>2, <1>4 DEF Calling
<1>7. FailedEdits' = {} => FailedEdits = {} /\ said'[e] # "error"
  <2>1. FailedEdits' \subseteq Edits /\ \A x \in Edits : x \in FailedEdits' <=> said'[x] = "error"
    BY DEF FailedEdits
  <2>2. \A x \in FailedEdits : x \in Edits /\ said[x] = "error" /\ x # e
    BY <1>1 DEF FailedEdits
  <2>3. \A x \in FailedEdits : x \in FailedEdits'
    BY <1>5, <2>1, <2>2
  <2>4. QED BY <2>1, <2>3
<1>8. MeetingsAreNoted'
  BY <1>1, <1>4, <1>6 DEF EditInv, MeetingsAreNoted, Calling
<1>9. QED BY <1>1, <1>2, <1>4, <1>5, <1>6, <1>7, <1>8

\* A step that leaves the file alone.
LEMMA CheckKeepsEditInv ==
  ASSUME EditInv, NEW e \in Edits, CheckPasses(e) \/ CheckFails(e) \/ EditFails(e)
  PROVE  EditInv'
<1> USE DEF EditInv
<1>1. /\ UNCHANGED <<kind, faulty, checker, copy, met, over>> /\ e \in Calling
      /\ \A x \in Edits \ {e} : editAt'[x] = editAt[x] /\ said'[x] = said[x]
      /\ Calling' = IF editAt'[e] = "done" THEN Calling \ {e} ELSE Calling
      /\ editAt'[e] # "new" /\ (FailedEdits' = {} => FailedEdits = {} /\ said'[e] # "error")
      /\ editAt' \in [Edits -> CallSteps]
      /\ said' \in [Edits -> {"nothing", "ok", "not found", "reverted", "error"}]
      /\ said'[e] # "nothing" <=> editAt'[e] = "done"
      /\ editAt'[e] \in {"check", "restore", "refill"} => kind[e] = "patch"
      /\ MeetingsAreNoted'
  BY LaterSteps
<1>2. file' = file /\ mixed' = mixed /\ editAt'[e] \in {"done", "restore"}
  BY DEF CheckPasses, CheckFails, EditFails, Now, Tells, EditShape
<1>3. EditShape'
  BY <1>1, <1>2 DEF EditShape, EditTypeOK
<1>4. CopiesHold'
  BY <1>1, <1>2 DEF CopiesHold
<1>5. EmptiedIsRefilled'
  <2>1. FailedEdits' = {} => ~EditFails(e)
    BY <1>1 DEF EditFails, Tells, EditShape, EditTypeOK
  <2>2. CheckPasses(e) \/ CheckFails(e) => editAt[e] = "check"
    BY DEF CheckPasses, CheckFails
  <2>3. QED BY <1>1, <1>2, <2>1, <2>2 DEF EmptiedIsRefilled
<1>6. LoneCallsOwnTheFile'
  BY <1>1, <1>2 DEF LoneCallsOwnTheFile
<1>7. AnswersReachReaders'
  <2>1. ASSUME NEW x \in Edits, x # e, Alone(x)
        PROVE  /\ said'[x] = "ok" /\ FailedEdits' = {} =>
                  (Base \in file => x \in file)
                    /\ \A f \in Calling' : kind[f] # "write" => x \in copy[f]
               /\ said'[x] = "reverted" => x \notin file /\ \A f \in Calling' : x \notin copy[f]
               /\ said'[x] = "ok" /\ kind[x] = "patch" /\ checker => x \notin faulty
    BY <1>1, <2>1 DEF AnswersReachReaders
  <2>2. ASSUME Alone(e), said'[e] \in {"ok", "reverted"}
        PROVE  said'[e] = "ok" /\ e \in file /\ Calling' = {} /\ (checker => e \notin faulty)
    <3>1. CheckPasses(e)
      BY <1>1, <2>2 DEF CheckPasses, CheckFails, EditFails, Tells, EditShape, EditTypeOK, Calling
    <3>2. said'[e] = "ok" /\ editAt[e] = "check" /\ editAt'[e] = "done"
      BY <3>1 DEF CheckPasses, Tells, Now, EditShape, EditTypeOK
    <3>3. e \in file
      BY <2>2, <3>2 DEF LoneCallsOwnTheFile, Alone
    <3>4. Calling' = {}
      BY <1>1, <2>2, <3>2 DEF MeetingsAreNoted, Alone
    <3>5. checker => e \notin faulty
      BY <3>1, <3>3 DEF CheckPasses, Sound
    <3>6. QED BY <3>2, <3>3, <3>4, <3>5
  <2>3. \A x \in Edits : Alone(x)' <=> Alone(x)
    BY <1>1 DEF Alone
  <2>4. QED BY <1>1, <1>2, <2>1, <2>2, <2>3 DEF AnswersReachReaders
<1>8. MixturesMet'
  BY <1>1, <1>2 DEF MixturesMet
<1>9. QED BY <1>1, <1>3, <1>4, <1>5, <1>6, <1>7, <1>8

\* The file is emptied: whoever owns it alone owns it still.
LEMMA EmptyKeepsEditInv ==
  ASSUME EditInv, NEW e \in Edits, EmptyFile(e)
  PROVE  EditInv'
<1> USE DEF EditInv
<1>1. /\ UNCHANGED <<kind, faulty, checker, copy, met, over, said>> /\ e \in Calling
      /\ \A x \in Edits \ {e} : editAt'[x] = editAt[x]
      /\ Calling' = Calling /\ FailedEdits' = FailedEdits
      /\ editAt' \in [Edits -> CallSteps] /\ editAt'[e] \in {"fill", "refill"}
      /\ editAt'[e] = "refill" => kind[e] = "patch"
      /\ MeetingsAreNoted' /\ file' = {} /\ mixed' = FALSE
  <2>1. /\ said' = said /\ file' = {} /\ mixed' = FALSE
        /\ editAt' = [editAt EXCEPT ![e] = IF editAt[e] = "empty" THEN "fill" ELSE "refill"]
    BY DEF EmptyFile, Now
  <2>2. /\ UNCHANGED <<kind, faulty, checker, copy, met, over>> /\ e \in Calling
        /\ \A x \in Edits \ {e} : editAt'[x] = editAt[x]
        /\ Calling' = IF editAt'[e] = "done" THEN Calling \ {e} ELSE Calling
        /\ editAt' \in [Edits -> CallSteps]
        /\ editAt'[e] \in {"check", "restore", "refill"} => kind[e] = "patch"
        /\ MeetingsAreNoted'
    BY LaterSteps
  <2>3. editAt'[e] \in {"fill", "refill"}
    <3>1. editAt \in [Edits -> CallSteps]
      BY DEF EditShape
    <3>2. QED BY <2>1, <3>1
  <2>4. FailedEdits' = FailedEdits
    BY <2>1 DEF FailedEdits
  <2>5. QED BY <2>1, <2>2, <2>3, <2>4
<1>2. EditShape'
  BY <1>1 DEF EditShape, EditTypeOK, Calling
<1>3. CopiesHold'
  BY <1>1 DEF CopiesHold
<1>4. EmptiedIsRefilled' /\ MixturesMet'
  BY <1>1 DEF EmptiedIsRefilled, MixturesMet
<1>5. LoneCallsOwnTheFile'
  <2>1. \A x \in Edits \ {e} : x \in Calling => e \in met[x]
    BY <1>1 DEF MeetingsAreNoted
  <2>2. \A x \in Edits : met[x] = {} => editAt'[x] # "check"
    BY <1>1, <2>1 DEF Calling
  <2>3. QED BY <1>1, <2>2 DEF LoneCallsOwnTheFile
<1>6. AnswersReachReaders'
  BY <1>1, EditAssumption DEF AnswersReachReaders, Alone
<1>7. QED BY <1>1, <1>2, <1>3, <1>4, <1>5, <1>6

\* The file gets a call's text, over whatever is there.
LEMMA FillKeepsEditInv ==
  ASSUME EditInv, NEW e \in Edits, WriteEdit(e) \/ Restore(e)
  PROVE  EditInv'
<1> USE DEF EditInv
<1>1. /\ UNCHANGED <<kind, faulty, checker, copy, met, over>> /\ e \in Calling
      /\ \A x \in Edits \ {e} : editAt'[x] = editAt[x] /\ said'[x] = said[x]
      /\ Calling' = IF editAt'[e] = "done" THEN Calling \ {e} ELSE Calling
      /\ editAt'[e] # "new" /\ (FailedEdits' = {} => FailedEdits = {} /\ said'[e] # "error")
      /\ editAt' \in [Edits -> CallSteps]
      /\ said' \in [Edits -> {"nothing", "ok", "not found", "reverted", "error"}]
      /\ said'[e] # "nothing" <=> editAt'[e] = "done"
      /\ editAt'[e] \in {"check", "restore", "refill"} => kind[e] = "patch"
      /\ MeetingsAreNoted'
  BY LaterSteps
<1>2. PICK text \in {{Base, e}, copy[e] \union {e}, copy[e]} :
        /\ file' = text /\ mixed' \in (IF file = {} THEN {FALSE} ELSE BOOLEAN)
        /\ WriteEdit(e) => text = IF kind[e] = "write" THEN {Base, e} ELSE copy[e] \union {e}
        /\ Restore(e) => text = copy[e]
  BY DEF WriteEdit, Restore, Fill
<1>3. editAt[e] \in {"fill", "refill"} /\ editAt'[e] \in {"check", "done"}
  BY DEF WriteEdit, Restore, Now, Tells, EditShape
<1>4. ~(WriteEdit(e) /\ Restore(e)) /\ (Restore(e) => kind[e] # "write")
  BY DEF WriteEdit, Restore, EditShape
<1>5. Base \in text /\ (WriteEdit(e) => e \in text) /\ (Restore(e) => e \notin text)
  BY <1>1, <1>2, <1>4 DEF CopiesHold
<1>6. EditShape'
  <2>1. text \subseteq Edits \union {Base}
    BY <1>2 DEF EditShape
  <2>2. QED BY <1>1, <1>2, <2>1 DEF EditShape, EditTypeOK
<1>7. CopiesHold'
  <2>1. \A x \in Edits : editAt'[x] = "new" => x # e /\ editAt[x] = "new"
    BY <1>1
  <2>2. \A x \in Edits : editAt'[x] = "new" => x \notin text
    BY <1>2, <2>1, EditAssumption DEF CopiesHold
  <2>3. QED BY <1>1, <1>2, <2>1, <2>2 DEF CopiesHold
<1>8. EmptiedIsRefilled'
  BY <1>2, <1>5 DEF EmptiedIsRefilled
<1>9. LoneCallsOwnTheFile'
  <2>1. \A x \in Edits \ {e} : met[x] = {} => x \notin Calling
    BY <1>1 DEF MeetingsAreNoted
  <2>2. editAt'[e] = "check" => e \in text
    BY <1>5 DEF WriteEdit, Restore, Tells, Now, EditShape
  <2>3. QED BY <1>1, <1>2, <1>3, <2>1, <2>2 DEF LoneCallsOwnTheFile, Calling
<1>10. AnswersReachReaders'
  <2>1. ASSUME NEW x \in Edits, x # e, Alone(x)
        PROVE  /\ said'[x] = "ok" /\ FailedEdits' = {} =>
                  (Base \in text => x \in text)
                    /\ \A f \in Calling' : kind[f] # "write" => x \in copy[f]
               /\ said'[x] = "reverted" => x \notin text /\ \A f \in Calling' : x \notin copy[f]
               /\ said'[x] = "ok" /\ kind[x] = "patch" /\ checker => x \notin faulty
    <3>1. said[x] \in {"ok", "reverted"} => kind[e] # "write"
      BY <1>1, <2>1 DEF MeetingsAreNoted, Alone, EditShape
    <3>2. said[x] \in {"ok", "reverted"} => text \in {copy[e] \union {e}, copy[e]}
      BY <1>2, <3>1
    <3>3. said[x] = "ok" /\ FailedEdits' = {} => x \in copy[e]
      BY <1>1, <2>1, <3>1 DEF AnswersReachReaders
    <3>4. said[x] = "reverted" => x \notin copy[e]
      BY <1>1, <2>1 DEF AnswersReachReaders
    <3>5. QED BY <1>1, <2>1, <3>2, <3>3, <3>4 DEF AnswersReachReaders
  <2>2. ASSUME Alone(e), said'[e] \in {"ok", "reverted"}
        PROVE  /\ Calling' = {} /\ (said'[e] = "ok" => e \in text /\ kind[e] # "patch")
               /\ (said'[e] = "reverted" => e \notin text)
    <3>1. Calling' = {}
      BY <1>1, <2>2 DEF MeetingsAreNoted, Alone
    <3>2. said'[e] = "ok" => WriteEdit(e) /\ kind[e] # "patch"
      BY <1>1, <2>2 DEF WriteEdit, Restore, Tells, EditShape, EditTypeOK, Calling
    <3>3. said'[e] = "reverted" => Restore(e)
      BY <1>1, <2>2 DEF WriteEdit, Restore, Tells, EditShape, EditTypeOK, Calling
    <3>4. QED BY <1>5, <3>1, <3>2, <3>3
  <2>3. \A x \in Edits : Alone(x)' <=> Alone(x)
    BY <1>1 DEF Alone
  <2>4. QED BY <1>1, <1>2, <2>1, <2>2, <2>3 DEF AnswersReachReaders
<1>11. MixturesMet'
  BY <1>1, <1>2, <1>3 DEF MixturesMet, LoneCallsOwnTheFile
<1>12. QED BY <1>1, <1>6, <1>7, <1>8, <1>9, <1>10, <1>11

\* Every step keeps it.
LEMMA EditInvIsInductive == EditInv /\ [EditNext]_editVars => EditInv'
<1> SUFFICES ASSUME EditInv, [EditNext]_editVars PROVE EditInv'
  OBVIOUS
<1>1. CASE UNCHANGED editVars
  <2> USE <1>1 DEF editVars, EditInv
  <2>1. Calling' = Calling /\ FailedEdits' = FailedEdits /\ \A e \in Edits : Alone(e)' <=> Alone(e)
    BY DEF Calling, FailedEdits, Alone
  <2>2. EditShape'
    BY DEF EditShape, EditTypeOK
  <2>3. MeetingsAreNoted' /\ CopiesHold'
    BY <2>1 DEF MeetingsAreNoted, CopiesHold
  <2>4. EmptiedIsRefilled' /\ LoneCallsOwnTheFile' /\ MixturesMet'
    BY <2>1 DEF EmptiedIsRefilled, LoneCallsOwnTheFile, MixturesMet
  <2>5. AnswersReachReaders'
    BY <2>1 DEF AnswersReachReaders
  <2>6. QED BY <2>2, <2>3, <2>4, <2>5
<1>2. QED BY <1>1, BeginKeepsEditInv, CheckKeepsEditInv, EmptyKeepsEditInv, FillKeepsEditInv
   DEF EditNext

\* For every set of calls: what Edit, Append, Write and Patch answer about
\* the file is true of a call that met no other, and only calls that met
\* leave a mixture of their texts.
THEOREM EditsAreAnswered == EditSpec => [](EditTypeOK /\ EditsAreTold)
<1>1. EditInv => EditTypeOK /\ EditsAreTold
  BY DEF EditInv, EditShape, EmptiedIsRefilled, AnswersReachReaders, MixturesMet, EditsAreTold,
     Calling
<1>2. QED BY <1>1, EditInvInitially, EditInvIsInductive, PTL DEF EditSpec

-----------------------------------------------------------------------------
(* SharedTables: the numbers agents name todo items and processes by. *)

(* The todo list. *)

ItemRecord == [id: Nat, text: Nat, status: {"pending", "completed"}]
AgentRecord ==
  [at: {"idle", "answer", "gone"}, claim: Nat,
   shown: SUBSET [id: Nat \union Pids, what: Nat \union Programs], since: Nat]

\* Numbers and texts grow along the list, and what an agent has seen or claims is old.
ItemsGrow ==
  /\ items \in Seq(ItemRecord) /\ nextID \in Nat /\ added \in Nat /\ clears \in Nat
  /\ \A i, j \in DOMAIN items :
       i < j => items[i].id < items[j].id /\ items[i].text < items[j].text
  /\ \A i \in DOMAIN items : items[i].id < nextID /\ items[i].text \in 1..added

AgentsRemember ==
  \A a \in Agents :
    /\ agent[a].since <= clears /\ agent[a].claim <= added
    /\ agent[a].since = clears => \A y \in agent[a].shown :
         /\ y.id \in Nat /\ y.id < nextID
         /\ \A i \in DOMAIN items : items[i].id = y.id => items[i].text = y.what
    /\ agent[a].at = "answer" => \A i \in DOMAIN items :
         items[i].text = agent[a].claim => items[i].status = "completed"

LockLostOverNothing == storeLock = "lost" \/ ~up => items = <<>>

TodoInv == ItemsGrow /\ AgentsRemember /\ LockLostOverNothing

LEMMA RemovalShifts ==
  ASSUME NEW S, NEW s \in Seq(S), NEW i \in DOMAIN s
  PROVE  /\ RemoveAt(s, i) \in Seq(S) /\ DOMAIN RemoveAt(s, i) = 1..(Len(s) - 1)
         /\ \A j \in 1..(Len(s) - 1) : RemoveAt(s, i)[j] = s[IF j < i THEN j ELSE j + 1]
<1>1. Len(s) \in Nat /\ i \in 1..Len(s) /\ \A j \in 1..Len(s) : s[j] \in S
  OBVIOUS
<1> DEFINE u == SubSeq(s, 1, i - 1)
           v == SubSeq(s, i + 1, Len(s))
<1>2. u \in Seq(S) /\ Len(u) = i - 1 /\ \A j \in 1..(i - 1) : u[j] = s[j]
  BY <1>1, SubSeqProperties
<1>3. v \in Seq(S) /\ Len(v) = Len(s) - i /\ \A j \in 1..(Len(s) - i) : v[j] = s[i + j]
  BY <1>1, SubSeqProperties
<1>4. RemoveAt(s, i) = u \o v
  BY DEF RemoveAt
<1> HIDE DEF u, v
<1>5. u \o v \in Seq(S) /\ Len(u \o v) = Len(s) - 1
  BY <1>1, <1>2, <1>3, ConcatProperties
<1>6. ASSUME NEW j \in 1..(Len(s) - 1) PROVE (u \o v)[j] = s[IF j < i THEN j ELSE j + 1]
  <2>1. (u \o v)[j] = IF j <= i - 1 THEN u[j] ELSE v[j - (i - 1)]
    <3>1. \A n \in 1..Len(u) + Len(v) : (u \o v)[n] = IF n <= Len(u) THEN u[n] ELSE v[n - Len(u)]
      BY ONLY <1>2, <1>3, ConcatProperties
    <3>2. j \in 1..Len(u) + Len(v)
      BY <1>1, <1>2, <1>3
    <3>3. QED BY <1>2, <3>1, <3>2
  <2>2. CASE j < i
    BY <1>1, <1>2, <2>1, <2>2
  <2>3. CASE j >= i
    <3>1. j - (i - 1) \in 1..(Len(s) - i) /\ i + (j - (i - 1)) = j + 1
      BY <1>1, <2>3
    <3>2. ~(j <= i - 1) /\ ~(j < i)
      BY <1>1, <2>3
    <3>3. (u \o v)[j] = v[j - (i - 1)]
      BY <2>1, <3>2
    <3>4. v[j - (i - 1)] = s[j + 1]
      BY <1>3, <3>1
    <3>5. QED BY <3>2, <3>3, <3>4
  <2>4. j \in Int /\ i \in Int
    BY <1>1
  <2>5. j < i \/ j >= i
    BY <2>4
  <2>6. QED BY <2>2, <2>3, <2>5
<1>7. DOMAIN (u \o v) = 1..(Len(s) - 1)
  <2>1. DOMAIN (u \o v) = 1..Len(u \o v)
    BY <1>5
  <2>2. QED BY <1>5, <2>1
<1>8. QED BY <1>4, <1>5, <1>6, <1>7

\* What an agent is at and claims changes; what it was shown stays.
LEMMA AnswersKeepMemory ==
  ASSUME agent \in [Agents -> AgentRecord], NEW a \in Agents, NEW claim \in Nat, Answers(a, claim)
  PROVE  /\ agent' \in [Agents -> AgentRecord]
         /\ agent'[a].at = "answer" /\ agent'[a].claim = claim
         /\ \A b \in Agents : agent'[b].since = agent[b].since /\ agent'[b].shown = agent[b].shown
         /\ \A b \in Agents \ {a} : agent'[b] = agent[b]
BY DEF Answers, AgentRecord

LEMMA ClaimsAreOld ==
  ASSUME TodoInv, agent \in [Agents -> AgentRecord], NEW a \in Agents, NEW claim \in Nat,
         claim <= added,
         Answers(a, claim)
  PROVE  \A b \in Agents : /\ agent'[b].claim \in Nat /\ agent'[b].claim <= added
                           /\ agent'[b].since \in Nat /\ agent'[b].since <= clears
<1>1. \A b \in Agents : /\ agent[b].claim \in Nat /\ agent[b].claim <= added
                        /\ agent[b].since \in Nat /\ agent[b].since <= clears
  BY DEF TodoInv, AgentsRemember, AgentRecord
<1>2. QED BY <1>1, AnswersKeepMemory

TableShape ==
  /\ TableTypeOK /\ table \in {"todo", "process"} /\ agent \in [Agents -> AgentRecord]

\* A step that keeps or shortens the list, and the numbers.
LEMMA FewerItems ==
  ASSUME TodoInv, agent \in [Agents -> AgentRecord], NEW a \in Agents, Answers(a, 0),
         items' \in Seq(ItemRecord),
         nextID' = nextID, added' = added, clears' = clears, storeLock' = storeLock, up' = up,
         items = <<>> => items' = <<>>,
         NEW f \in [DOMAIN items' -> DOMAIN items],
         \A i, j \in DOMAIN items' : i < j => f[i] < f[j],
         \A i \in DOMAIN items' : items'[i] = items[f[i]]
  PROVE  TodoInv'
<1>1. ItemsGrow'
  BY DEF TodoInv, ItemsGrow
<1>2. AgentsRemember'
  <2>1. /\ added \in Nat /\ 0 <= added /\ agent'[a].claim = 0
        /\ \A i \in DOMAIN items : items[i].text \in 1..added
        /\ \A b \in Agents : agent'[b].since = agent[b].since /\ agent'[b].shown = agent[b].shown
        /\ \A b \in Agents \ {a} : agent'[b] = agent[b]
    BY AnswersKeepMemory DEF TodoInv, ItemsGrow
  <2>2. \A b \in Agents : agent'[b].claim <= added /\ agent'[b].since <= clears
    BY <2>1, ClaimsAreOld
  <2>3. \A i \in DOMAIN items' : f[i] \in DOMAIN items /\ items'[i] = items[f[i]]
    OBVIOUS
  <2>4. ASSUME NEW b \in Agents, agent[b].since = clears, NEW y \in agent[b].shown
        PROVE  /\ y.id \in Nat /\ y.id < nextID
               /\ \A i \in DOMAIN items' : items'[i].id = y.id => items'[i].text = y.what
    BY <2>3, <2>4 DEF TodoInv, AgentsRemember
  <2>5. ASSUME NEW b \in Agents, agent'[b].at = "answer", NEW i \in DOMAIN items',
               items'[i].text = agent'[b].claim
        PROVE  items'[i].status = "completed"
    <3>1. items'[i].text # 0
      BY <2>1, <2>3
    <3>2. agent'[b] = agent[b]
      BY <2>1, <2>5, <3>1
    <3>3. \A j \in DOMAIN items : items[j].text = agent[b].claim => items[j].status = "completed"
      BY <2>5, <3>2 DEF TodoInv, AgentsRemember
    <3>4. QED BY <2>3, <2>5, <3>2, <3>3
  <2>6. QED BY <2>1, <2>2, <2>4, <2>5 DEF AgentsRemember
<1>3. LockLostOverNothing'
  BY DEF TodoInv, LockLostOverNothing
<1>4. QED BY <1>1, <1>2, <1>3 DEF TodoInv

LEMMA TodoStepKeepsTodoInv ==
  ASSUME TableShape, TodoInv, NEW a \in Agents, TodoStep(a)
  PROVE  TodoInv' /\ agent' \in [Agents -> AgentRecord]
<1> USE DEF TableShape
<1>0. DOMAIN items = 1..Len(items) /\ Len(items) \in Nat
        /\ \A i \in DOMAIN items : items[i] \in ItemRecord
  BY DEF TodoInv, ItemsGrow
<1>1. CASE AddTask(a)
  <2> DEFINE new == [id |-> nextID, text |-> added + 1, status |-> "pending"]
  <2>1. /\ items' = Append(items, new) /\ nextID' = nextID + 1 /\ added' = added + 1
        /\ Answers(a, 0)
        /\ storeLock' = storeLock /\ clears' = clears /\ up' = up /\ up /\ storeLock = "free"
    BY <1>1 DEF AddTask, CanCall
  <2>2. new \in ItemRecord /\ new.id = nextID /\ new.text = added + 1
    BY DEF TodoInv, ItemsGrow, ItemRecord
  <2> HIDE DEF new
  <2>3. /\ items' \in Seq(ItemRecord) /\ DOMAIN items' = 1..(Len(items) + 1)
        /\ items'[Len(items) + 1] = new /\ \A i \in DOMAIN items : items'[i] = items[i]
    BY <1>0, <2>1, <2>2 DEF TodoInv, ItemsGrow
  <2>4. ItemsGrow'
    <3>1. \A i \in DOMAIN items' : i = Len(items) + 1 \/ i \in DOMAIN items
      BY <1>0, <2>3
    <3>2. \A i \in DOMAIN items' : items'[i].id < nextID' /\ items'[i].text \in 1..added'
      BY <1>0, <2>1, <2>2, <2>3, <3>1 DEF TodoInv, ItemsGrow, ItemRecord
    <3>3. \A i, j \in DOMAIN items' : i < j =>
            items'[i].id < items'[j].id /\ items'[i].text < items'[j].text
      <4>1. ASSUME NEW i \in DOMAIN items', NEW j \in DOMAIN items', i < j
            PROVE  items'[i].id < items'[j].id /\ items'[i].text < items'[j].text
        <5>1. i \in DOMAIN items
          BY <1>0, <2>3, <4>1
        <5>2. CASE j = Len(items) + 1
          BY <1>0, <2>2, <2>3, <5>1, <5>2 DEF TodoInv, ItemsGrow
        <5>3. CASE j # Len(items) + 1
          BY <2>3, <3>1, <4>1, <5>1, <5>3 DEF TodoInv, ItemsGrow
        <5>4. QED BY <5>2, <5>3
      <4>2. QED BY <4>1
    <3>4. QED BY <2>1, <2>3, <3>2, <3>3 DEF TodoInv, ItemsGrow
  <2>5. AgentsRemember'
    <3>1. \A i \in DOMAIN items' : i = Len(items) + 1 \/ i \in DOMAIN items
      BY <1>0, <2>3
    <3>2. ASSUME NEW b \in Agents, agent[b].since = clears, NEW y \in agent[b].shown
          PROVE  /\ y.id \in Nat /\ y.id < nextID'
                 /\ \A i \in DOMAIN items' : items'[i].id = y.id => items'[i].text = y.what
      BY <2>1, <2>2, <2>3, <3>1, <3>2 DEF TodoInv, ItemsGrow, AgentsRemember
    <3>3. ASSUME NEW b \in Agents, agent'[b].at = "answer", NEW i \in DOMAIN items',
            items'[i].text = agent'[b].claim
          PROVE  items'[i].status = "completed"
      <4>1. agent'[b].claim <= added /\ agent'[b].claim \in Nat
        <5>1. 0 <= added
          BY DEF TodoInv, ItemsGrow
        <5>2. QED BY <2>1, <5>1, ClaimsAreOld
      <4>2. i \in DOMAIN items
        BY <2>2, <2>3, <3>1, <3>3, <4>1 DEF TodoInv, ItemsGrow
      <4>3. b # a
        <5>1. agent'[a].claim = 0
          BY <2>1, AnswersKeepMemory
        <5>2. items'[i].text # 0
          BY <2>3, <4>2 DEF TodoInv, ItemsGrow
        <5>3. QED BY <3>3, <5>1, <5>2
      <4>4. QED BY <2>1, <2>3, <3>3, <4>2, <4>3, AnswersKeepMemory DEF TodoInv, AgentsRemember
    <3>4. \A b \in Agents : agent'[b].claim <= added' /\ agent'[b].since <= clears'
      <4>1. added \in Nat /\ 0 <= added
        BY DEF TodoInv, ItemsGrow
      <4>2. QED BY <2>1, <4>1, ClaimsAreOld
    <3>5. QED BY <2>1, <3>2, <3>3, <3>4, AnswersKeepMemory DEF AgentsRemember
  <2>6. LockLostOverNothing'
    BY <2>1 DEF LockLostOverNothing
  <2>7. QED BY <2>1, <2>4, <2>5, <2>6, AnswersKeepMemory DEF TodoInv
<1>2. ASSUME NEW id, CompleteTask(a, id) PROVE TodoInv' /\ agent' \in [Agents -> AgentRecord]
  <2>1. PICK k \in DOMAIN items :
          /\ items' = [items EXCEPT ![k].status = "completed"] /\ Answers(a, items[k].text)
          /\ nextID' = nextID /\ added' = added /\ clears' = clears /\ storeLock' = storeLock
          /\ up' = up
          /\ up /\ storeLock = "free"
    BY <1>2 DEF CompleteTask, Numbered, CanCall
  <2> DEFINE new == [items[k] EXCEPT !.status = "completed"]
  <2>2. new \in ItemRecord /\ new.id = items[k].id /\ new.text = items[k].text
          /\ new.status = "completed"
    BY <1>0 DEF ItemRecord
  <2>3. items' = [items EXCEPT ![k] = new]
    BY <2>1
  <2> HIDE DEF new
  <2>4. /\ items' \in Seq(ItemRecord) /\ DOMAIN items' = DOMAIN items
        /\ \A i \in DOMAIN items : items'[i] = IF i = k THEN new ELSE items[i]
    BY <1>0, <2>2, <2>3, ExceptSeq DEF TodoInv, ItemsGrow
  <2>5. \A i \in DOMAIN items : /\ items'[i].id = items[i].id /\ items'[i].text = items[i].text
                                /\ items[i].status = "completed" => items'[i].status = "completed"
    BY <2>2, <2>4
  <2>6. ItemsGrow'
    BY <2>1, <2>4, <2>5 DEF TodoInv, ItemsGrow
  <2>7. items[k].text \in Nat /\ items[k].text <= added
    BY DEF TodoInv, ItemsGrow
  <2>8. \A i \in DOMAIN items : items'[i].text = items[k].text => items'[i].status = "completed"
    BY <1>0, <2>2, <2>4, <2>5 DEF TodoInv, ItemsGrow
  <2>9. AgentsRemember'
    <3>1. /\ agent'[a].at = "answer" /\ agent'[a].claim = items[k].text
          /\ \A b \in Agents : agent'[b].since = agent[b].since /\ agent'[b].shown = agent[b].shown
          /\ \A b \in Agents \ {a} : agent'[b] = agent[b]
      BY <2>1, <2>7, AnswersKeepMemory
    <3>2. \A b \in Agents : agent'[b].claim <= added' /\ agent'[b].since <= clears'
      BY <2>1, <2>7, ClaimsAreOld
    <3>3. ASSUME NEW b \in Agents, agent[b].since = clears, NEW y \in agent[b].shown
          PROVE  /\ y.id \in Nat /\ y.id < nextID'
                 /\ \A i \in DOMAIN items' : items'[i].id = y.id => items'[i].text = y.what
      BY <2>1, <2>4, <2>5, <3>3 DEF TodoInv, AgentsRemember
    <3>4. ASSUME NEW b \in Agents, agent'[b].at = "answer", NEW i \in DOMAIN items',
                 items'[i].text = agent'[b].claim
          PROVE  items'[i].status = "completed"
      <4>1. CASE b = a
        BY <2>4, <2>8, <3>1, <3>4, <4>1
      <4>2. CASE b # a
        <5>1. agent'[b] = agent[b]
          BY <3>1, <4>2
        <5>2. \A j \in DOMAIN items :
                items[j].text = agent[b].claim => items[j].status = "completed"
          BY <3>4, <5>1 DEF TodoInv, AgentsRemember
        <5>3. QED BY <2>4, <2>5, <3>4, <5>1, <5>2
      <4>3. QED BY <4>1, <4>2
    <3>5. QED BY <2>1, <3>1, <3>2, <3>3, <3>4 DEF AgentsRemember
  <2>10. LockLostOverNothing'
    BY <2>1 DEF LockLostOverNothing
  <2>11. QED BY <2>1, <2>6, <2>7, <2>9, <2>10, AnswersKeepMemory DEF TodoInv
<1>3. ASSUME NEW id, RemoveTask(a, id) PROVE TodoInv' /\ agent' \in [Agents -> AgentRecord]
  <2>1. PICK k \in DOMAIN items :
          /\ items' = RemoveAt(items, k) /\ Answers(a, 0)
          /\ nextID' = nextID /\ added' = added /\ clears' = clears /\ storeLock' = storeLock
          /\ up' = up
          /\ items # <<>>
    BY <1>3 DEF RemoveTask, Numbered
  <2>2. /\ items' \in Seq(ItemRecord) /\ DOMAIN items' = 1..(Len(items) - 1)
        /\ \A j \in 1..(Len(items) - 1) : items'[j] = items[IF j < k THEN j ELSE j + 1]
    BY <2>1, RemovalShifts DEF TodoInv, ItemsGrow
  <2> DEFINE f == [j \in DOMAIN items' |-> IF j < k THEN j ELSE j + 1]
  <2>3. f \in [DOMAIN items' -> DOMAIN items]
    BY <1>0, <2>2
  <2>4. \A i, j \in DOMAIN items' : i < j => f[i] < f[j]
    BY <1>0, <2>2
  <2>5. \A j \in DOMAIN items' : items'[j] = items[f[j]]
    BY <2>2
  <2> HIDE DEF f
  <2>6. TodoInv'
    BY <2>1, <2>2, <2>3, <2>4, <2>5, FewerItems
  <2>7. QED BY <2>1, <2>6, AnswersKeepMemory
<1>4. CASE ListTasks(a)
  <2>1. UNCHANGED todoVars /\ Answers(a, 0)
    BY <1>4 DEF ListTasks
  <2> DEFINE f == [j \in DOMAIN items' |-> j]
  <2>2. f \in [DOMAIN items' -> DOMAIN items] /\ (\A j \in DOMAIN items' : items'[j] = items[f[j]])
        /\ (\A i, j \in DOMAIN items' : i < j => f[i] < f[j]) /\ items' \in Seq(ItemRecord)
    BY <2>1 DEF todoVars, TodoInv, ItemsGrow
  <2> HIDE DEF f
  <2>3. TodoInv'
    BY <2>1, <2>2, FewerItems DEF todoVars
  <2>4. QED BY <2>1, <2>3, AnswersKeepMemory
<1>5. CASE ClearTasks(a)
  <2>1. /\ items' = <<>> /\ nextID' = 1 /\ clears' = clears + 1 /\ Answers(a, 0) /\ added' = added
    BY <1>5 DEF ClearTasks
  <2>2. ItemsGrow'
    BY <2>1 DEF TodoInv, ItemsGrow
  <2>3. \A b \in Agents : agent'[b].since <= clears /\ agent'[b].since \in Nat
          /\ agent'[b].claim <= added
    <3>1. added \in Nat /\ 0 <= added
      BY DEF TodoInv, ItemsGrow
    <3>2. QED BY <2>1, <3>1, ClaimsAreOld
  <2>4. AgentsRemember'
    BY <2>1, <2>3 DEF AgentsRemember, TodoInv, ItemsGrow
  <2>5. QED BY <2>1, <2>2, <2>4, AnswersKeepMemory DEF TodoInv, LockLostOverNothing
<1>6. CASE FormatResult(a)
  <2> DEFINE seen == {[id |-> x.id, what |-> x.text] : x \in Range(items)}
  <2>1. /\ agent' = [agent EXCEPT ![a] = [at |-> "idle", claim |-> 0, since |-> clears,
             shown |-> seen]]
        /\ UNCHANGED todoVars
    BY <1>6 DEF FormatResult
  <2>2. \A y \in seen : \E i \in DOMAIN items : y = [id |-> items[i].id, what |-> items[i].text]
    BY DEF Range
  <2>3. seen \subseteq [id: Nat \union Pids, what: Nat \union Programs]
    BY <1>0, <2>2 DEF ItemRecord
  <2>4. \A y \in seen : /\ y.id \in Nat /\ y.id < nextID
                        /\ \A i \in DOMAIN items : items[i].id = y.id => items[i].text = y.what
    <3>1. ASSUME NEW i \in DOMAIN items, NEW j \in DOMAIN items, items[i].id = items[j].id
          PROVE  i = j
      <4>1. items[i].id \in Nat /\ items[j].id \in Nat /\ i \in Nat /\ j \in Nat
        BY <1>0 DEF ItemRecord
      <4>2. ~(i < j) /\ ~(j < i)
        BY <3>1, <4>1 DEF TodoInv, ItemsGrow
      <4>3. QED BY <4>1, <4>2
    <3>2. ASSUME NEW y \in seen
          PROVE  /\ y.id \in Nat /\ y.id < nextID
                 /\ \A i \in DOMAIN items : items[i].id = y.id => items[i].text = y.what
      <4>1. PICK i \in DOMAIN items : y = [id |-> items[i].id, what |-> items[i].text]
        BY <2>2
      <4>2. QED BY <1>0, <3>1, <4>1 DEF TodoInv, ItemsGrow, ItemRecord
    <3>3. QED BY <3>2
  <2> HIDE DEF seen
  <2>5. agent' \in [Agents -> AgentRecord]
    BY <2>1, <2>3 DEF TodoInv, ItemsGrow, AgentRecord
  <2>6. AgentsRemember'
    BY <2>1, <2>4 DEF TodoInv, ItemsGrow, AgentsRemember, todoVars
  <2>7. ItemsGrow' /\ LockLostOverNothing'
    BY <2>1 DEF TodoInv, ItemsGrow, LockLostOverNothing, todoVars
  <2>8. QED BY <2>5, <2>6, <2>7 DEF TodoInv
<1>7. CASE RemoveFromNothing(a)
  <2>1. /\ items = <<>> /\ agent' = [agent EXCEPT ![a].at = "gone"]
        /\ UNCHANGED <<items, nextID, clears, added>>
    BY <1>7 DEF RemoveFromNothing
  <2>2. agent' \in [Agents -> AgentRecord]
    BY <2>1 DEF AgentRecord
  <2>3. \A b \in Agents : /\ agent'[b].since = agent[b].since /\ agent'[b].shown = agent[b].shown
                          /\ agent'[b].claim = agent[b].claim
    BY <2>1
  <2>4. AgentsRemember'
    BY <2>1, <2>3 DEF TodoInv, AgentsRemember
  <2>5. ItemsGrow' /\ LockLostOverNothing'
    BY <2>1 DEF TodoInv, ItemsGrow, LockLostOverNothing
  <2>6. QED BY <2>2, <2>4, <2>5 DEF TodoInv
<1>8. QED BY <1>1, <1>2, <1>3, <1>4, <1>5, <1>6, <1>7 DEF TodoStep

-----------------------------------------------------------------------------
(* The processes. *)

ProcShape ==
  /\ pid \in [Programs -> Pids \union {0}]
  /\ os \in [Programs -> {"none", "running", "ended", "reaped"}]
  /\ waiter \in [Programs -> {"none", "waits", "sleeps", "done"}]

\* How far the goroutine of a program is follows how far the program is.
WaitersFollow ==
  \A p \in Programs :
    /\ os[p] = "none" => waiter[p] = "none"
    /\ os[p] \in {"running", "ended"} => waiter[p] \in {"none", "waits"}
    /\ os[p] = "reaped" => waiter[p] \in {"sleeps", "done"}
    /\ os[p] # "none" => pid[p] \in Pids

EntriesAreTheirs ==
  \A n \in Pids : procs[n] \in Programs => pid[procs[n]] = n /\ waiter[procs[n]] # "none"

\* The operating system gives no pid to two programs that live.
PidsAreApart ==
  \A p, q \in Programs :
    p # q /\ pid[p] = pid[q] /\ os[p] # "none" /\ os[q] # "none" => "reaped" \in {os[p], os[q]}

ShownWereStarted ==
  \A a \in Agents : \A x \in agent[a].shown :
    x.id \in Pids /\ x.what \in Programs /\ pid[x.what] = x.id /\ os[x.what] # "none"

ProcInv == ProcShape /\ WaitersFollow /\ EntriesAreTheirs /\ PidsAreApart /\ ShownWereStarted
  /\ PidsHold

LEMMA ProcessStepKeepsProcInv ==
  ASSUME TableShape, ProcInv, ProcessStep
  PROVE  ProcInv' /\ agent' \in [Agents -> AgentRecord] /\ killedPrograms' \subseteq Programs
         /\ procs' \in [Pids -> Programs \union {NoProgram}]
<1> USE TablesAssumption
<1>0. /\ procs \in [Pids -> Programs \union {NoProgram}] /\ killedPrograms \subseteq Programs
      /\ agent \in [Agents -> AgentRecord] /\ ProcShape
  BY DEF TableShape, TableTypeOK, ProcInv
<1>1. ASSUME NEW p \in Programs, StartProgram(p)
      PROVE ProcInv' /\ UNCHANGED <<procs, killedPrograms, agent>>
  <2>1. PICK n \in Pids : Free(n) /\ pid' = [pid EXCEPT ![p] = n]
    BY <1>1 DEF StartProgram
  <2>2. /\ os[p] = "none" /\ os' = [os EXCEPT ![p] = "running"]
        /\ UNCHANGED <<procs, waiter, killedPrograms, agent>>
    BY <1>1 DEF StartProgram
  <2>3. ProcShape' /\ waiter[p] = "none" /\ pid'[p] = n /\ os'[p] = "running"
        /\ \A q \in Programs : q # p => pid'[q] = pid[q] /\ os'[q] = os[q]
    BY <1>0, <2>1, <2>2 DEF ProcShape, ProcInv, WaitersFollow
  <2>4. WaitersFollow'
    BY <2>2, <2>3 DEF ProcInv, WaitersFollow
  <2>5. EntriesAreTheirs'
    BY <2>2, <2>3 DEF ProcInv, EntriesAreTheirs
  <2>6. PidsAreApart'
    BY <2>1, <2>2, <2>3 DEF ProcInv, PidsAreApart, Free
  <2>7. ShownWereStarted'
    BY <2>2, <2>3 DEF ProcInv, ShownWereStarted
  <2>8. PidsHold'
    <3>1. (\A a \in Agents : \A x \in agent[a].shown :
             procs[x.id] \in {x.what, NoProgram} \/ os[x.what] = "reaped")'
      BY <2>2, <2>3 DEF ProcInv, PidsHold, ShownWereStarted
    <3>2. \A q \in Programs : waiter'[q] = "done" => q # p
      BY <2>2, <2>3
    <3>3. ASSUME NEW q \in Programs, os'[q] = "running", waiter'[q] # "none"
          PROVE  \/ procs'[pid'[q]] = q \/ q \in killedPrograms'
                 \/ \E r \in Programs \ {q} : pid'[r] = pid'[q] /\ waiter'[r] = "done"
      <4>1. q # p /\ os[q] = "running" /\ waiter[q] # "none" /\ pid'[q] = pid[q]
        BY <2>2, <2>3, <3>3
      <4>2. CASE procs[pid[q]] = q \/ q \in killedPrograms
        BY <2>2, <4>1, <4>2
      <4>3. CASE \E r \in Programs \ {q} : pid[r] = pid[q] /\ waiter[r] = "done"
        BY <2>2, <2>3, <3>2, <4>1, <4>3
      <4>4. QED BY <4>1, <4>2, <4>3 DEF ProcInv, PidsHold
    <3>4. \A q \in Programs : waiter'[q] = "done" => procs'[pid'[q]] # q
      BY <2>2, <2>3, <3>2 DEF ProcInv, PidsHold
    <3>5. QED BY <3>1, <3>3, <3>4 DEF PidsHold
  <2>9. QED BY <2>2, <2>3, <2>4, <2>5, <2>6, <2>7, <2>8 DEF ProcInv
<1>2. ASSUME NEW p \in Programs, StoreEntry(p)
      PROVE  ProcInv' /\ UNCHANGED <<killedPrograms, agent>>
             /\ procs' \in [Pids -> Programs \union {NoProgram}]
  <2>1. /\ os[p] \in {"running", "ended"} /\ waiter[p] = "none" /\ pid[p] \in Pids
        /\ procs' = [procs EXCEPT ![pid[p]] = p] /\ waiter' = [waiter EXCEPT ![p] = "waits"]
        /\ UNCHANGED <<pid, os, killedPrograms, agent>>
    BY <1>0, <1>2 DEF StoreEntry, ProcInv, ProcShape, WaitersFollow
  <2>2. /\ ProcShape' /\ procs' \in [Pids -> Programs \union {NoProgram}]
        /\ procs'[pid[p]] = p /\ waiter'[p] = "waits"
        /\ \A q \in Programs : q # p => waiter'[q] = waiter[q]
        /\ \A n \in Pids : n # pid[p] => procs'[n] = procs[n]
    BY <1>0, <2>1 DEF ProcShape
  <2>3. WaitersFollow'
    BY <2>1, <2>2 DEF ProcInv, WaitersFollow
  <2>4. EntriesAreTheirs'
    BY <2>1, <2>2 DEF ProcInv, EntriesAreTheirs
  <2>5. PidsAreApart' /\ ShownWereStarted'
    BY <2>1 DEF ProcInv, PidsAreApart, ShownWereStarted
  <2>6. \A q \in Programs : q # p /\ pid[q] = pid[p] /\ os[q] # "none" => os[q] = "reaped"
    BY <2>1 DEF ProcInv, PidsAreApart
  <2>7. PidsHold'
    <3>1. (\A a \in Agents : \A x \in agent[a].shown :
             procs[x.id] \in {x.what, NoProgram} \/ os[x.what] = "reaped")'
      <4>1. ASSUME NEW a \in Agents, NEW x \in agent[a].shown
            PROVE  procs'[x.id] \in {x.what, NoProgram} \/ os[x.what] = "reaped"
        <5>1. x.id \in Pids /\ x.what \in Programs /\ pid[x.what] = x.id /\ os[x.what] # "none"
              /\ (procs[x.id] \in {x.what, NoProgram} \/ os[x.what] = "reaped")
          BY DEF ProcInv, ShownWereStarted, PidsHold
        <5>2. CASE x.id = pid[p]
          BY <2>2, <2>6, <5>1, <5>2
        <5>3. CASE x.id # pid[p]
          BY <2>2, <5>1, <5>3
        <5>4. QED BY <5>2, <5>3
      <4>2. QED BY <2>1, <4>1
    <3>2. ASSUME NEW q \in Programs, os[q] = "running", waiter'[q] # "none"
          PROVE  \/ procs'[pid[q]] = q \/ q \in killedPrograms
                 \/ \E r \in Programs \ {q} : pid[r] = pid[q] /\ waiter'[r] = "done"
      <4>1. CASE q = p
        BY <2>2, <4>1
      <4>2. CASE q # p
        <5>1. pid[q] # pid[p] /\ pid[q] \in Pids /\ waiter[q] # "none"
          BY <2>2, <2>6, <3>2, <4>2 DEF ProcInv, WaitersFollow
        <5>2. CASE procs[pid[q]] = q \/ q \in killedPrograms
          BY <2>2, <5>1, <5>2
        <5>3. CASE \E r \in Programs \ {q} : pid[r] = pid[q] /\ waiter[r] = "done"
          BY <2>1, <2>2, <5>3
        <5>4. QED BY <3>2, <5>1, <5>2, <5>3 DEF ProcInv, PidsHold
      <4>3. QED BY <4>1, <4>2
    <3>3. ASSUME NEW q \in Programs, waiter'[q] = "done" PROVE procs'[pid[q]] # q
      <4>1. q # p /\ waiter[q] = "done" /\ pid[q] \in Pids
        BY <2>2, <3>3 DEF ProcInv, WaitersFollow
      <4>2. CASE pid[q] = pid[p]
        BY <2>2, <4>1, <4>2
      <4>3. CASE pid[q] # pid[p]
        BY <2>2, <4>1, <4>3 DEF ProcInv, PidsHold
      <4>4. QED BY <4>2, <4>3
    <3>4. QED BY <2>1, <3>1, <3>2, <3>3 DEF PidsHold
  <2>8. QED BY <2>1, <2>2, <2>3, <2>4, <2>5, <2>7 DEF ProcInv
<1>3. ASSUME NEW p \in Programs, ProgramEnds(p)
      PROVE ProcInv' /\ UNCHANGED <<procs, killedPrograms, agent>>
  <2>1. /\ os[p] = "running" /\ os' = [os EXCEPT ![p] = "ended"]
        /\ UNCHANGED <<procs, pid, waiter, killedPrograms, agent>>
    BY <1>3 DEF ProgramEnds
  <2>2. ProcShape' /\ os'[p] = "ended" /\ \A q \in Programs : q # p => os'[q] = os[q]
    BY <1>0, <2>1 DEF ProcShape
  <2>3. WaitersFollow' /\ EntriesAreTheirs' /\ PidsAreApart' /\ ShownWereStarted'
    BY <2>1, <2>2 DEF ProcInv, WaitersFollow, EntriesAreTheirs, PidsAreApart, ShownWereStarted
  <2>4. PidsHold'
    BY <2>1, <2>2 DEF ProcInv, PidsHold, ShownWereStarted
  <2>5. QED BY <2>1, <2>2, <2>3, <2>4 DEF ProcInv
<1>4. ASSUME NEW p \in Programs, Reap(p)
      PROVE ProcInv' /\ UNCHANGED <<procs, killedPrograms, agent>>
  <2>1. /\ os[p] = "ended" /\ os' = [os EXCEPT ![p] = "reaped"]
        /\ waiter[p] = "waits" /\ waiter' = [waiter EXCEPT ![p] = "sleeps"]
        /\ UNCHANGED <<procs, pid, killedPrograms, agent>>
    BY <1>4 DEF Reap
  <2>2. /\ ProcShape' /\ os'[p] = "reaped" /\ waiter'[p] = "sleeps"
        /\ \A q \in Programs : q # p => os'[q] = os[q] /\ waiter'[q] = waiter[q]
    BY <1>0, <2>1 DEF ProcShape
  <2>3. WaitersFollow' /\ EntriesAreTheirs' /\ PidsAreApart' /\ ShownWereStarted'
    BY <2>1, <2>2 DEF ProcInv, WaitersFollow, EntriesAreTheirs, PidsAreApart, ShownWereStarted
  <2>4. PidsHold'
    <3>1. \A q \in Programs : waiter[q] = "done" <=> waiter'[q] = "done"
      BY <2>1, <2>2
    <3>2. \A q \in Programs : os'[q] = "running" => os[q] = "running" /\ waiter'[q] = waiter[q]
      BY <2>1, <2>2
    <3>3. (\A a \in Agents : \A x \in agent[a].shown :
             procs[x.id] \in {x.what, NoProgram} \/ os[x.what] = "reaped")'
      BY <2>1, <2>2 DEF ProcInv, PidsHold, ShownWereStarted
    <3>4. QED BY <2>1, <3>1, <3>2, <3>3 DEF ProcInv, PidsHold
  <2>5. QED BY <2>1, <2>2, <2>3, <2>4 DEF ProcInv
<1>5. ASSUME NEW p \in Programs, Forget(p)
      PROVE  ProcInv' /\ UNCHANGED <<killedPrograms, agent>>
             /\ procs' \in [Pids -> Programs \union {NoProgram}]
  <2>1. /\ os[p] = "reaped" /\ waiter[p] = "sleeps" /\ pid[p] \in Pids
        /\ procs' = [procs EXCEPT ![pid[p]] = NoProgram] /\ waiter' = [waiter EXCEPT ![p] = "done"]
        /\ UNCHANGED <<pid, os, killedPrograms, agent>>
    BY <1>0, <1>5 DEF Forget, ProcInv, ProcShape, WaitersFollow
  <2>2. /\ ProcShape' /\ procs' \in [Pids -> Programs \union {NoProgram}]
        /\ procs'[pid[p]] = NoProgram /\ waiter'[p] = "done"
        /\ \A q \in Programs : q # p => waiter'[q] = waiter[q]
        /\ \A n \in Pids : n # pid[p] => procs'[n] = procs[n]
    BY <1>0, <2>1 DEF ProcShape
  <2>3. WaitersFollow'
    BY <2>1, <2>2 DEF ProcInv, WaitersFollow
  <2>4. EntriesAreTheirs'
    BY <2>1, <2>2 DEF ProcInv, EntriesAreTheirs
  <2>5. PidsAreApart' /\ ShownWereStarted'
    BY <2>1 DEF ProcInv, PidsAreApart, ShownWereStarted
  <2>6. PidsHold'
    <3>1. (\A a \in Agents : \A x \in agent[a].shown :
             procs[x.id] \in {x.what, NoProgram} \/ os[x.what] = "reaped")'
      BY <2>1, <2>2 DEF ProcInv, ShownWereStarted, PidsHold
    <3>2. ASSUME NEW q \in Programs, os[q] = "running", waiter'[q] # "none"
          PROVE  \/ procs'[pid[q]] = q \/ q \in killedPrograms
                 \/ \E r \in Programs \ {q} : pid[r] = pid[q] /\ waiter'[r] = "done"
      <4>1. q # p /\ waiter[q] # "none" /\ pid[q] \in Pids
        BY <2>1, <2>2, <3>2 DEF ProcInv, WaitersFollow
      <4>2. CASE pid[q] = pid[p]
        BY <2>2, <4>1, <4>2
      <4>3. CASE pid[q] # pid[p]
        <5>1. CASE procs[pid[q]] = q \/ q \in killedPrograms
          BY <2>2, <4>1, <4>3, <5>1
        <5>2. CASE \E r \in Programs \ {q} : pid[r] = pid[q] /\ waiter[r] = "done"
          BY <2>1, <2>2, <5>2
        <5>3. QED BY <3>2, <4>1, <5>1, <5>2 DEF ProcInv, PidsHold
      <4>4. QED BY <4>2, <4>3
    <3>3. ASSUME NEW q \in Programs, waiter'[q] = "done" PROVE procs'[pid[q]] # q
      <4>1. pid[q] \in Pids
        BY <2>1, <2>2, <3>3 DEF ProcInv, WaitersFollow
      <4>2. CASE pid[q] = pid[p]
        BY <2>2, <4>2
      <4>3. CASE pid[q] # pid[p]
        BY <2>2, <3>3, <4>1, <4>3 DEF ProcInv, PidsHold
      <4>4. QED BY <4>2, <4>3
    <3>4. QED BY <2>1, <3>1, <3>2, <3>3 DEF PidsHold
  <2>7. QED BY <2>1, <2>2, <2>3, <2>4, <2>5, <2>6 DEF ProcInv
<1>6. ASSUME NEW a \in Agents, ListProcesses(a)
      PROVE  ProcInv' /\ UNCHANGED procVars /\ agent' \in [Agents -> AgentRecord]
  <2> DEFINE seen == {[id |-> n, what |-> procs[n]] : n \in {n \in Pids : procs[n] # NoProgram}}
  <2>1. agent' = [agent EXCEPT ![a].shown = seen] /\ UNCHANGED procVars
    BY <1>6 DEF ListProcesses
  <2>2. \A x \in seen : x.id \in Pids /\ x.what \in Programs /\ x.what = procs[x.id]
    BY <1>0
  <2>3. seen \subseteq [id: Nat \union Pids, what: Nat \union Programs]
    BY <1>0
  <2> HIDE DEF seen
  <2>4. /\ agent' \in [Agents -> AgentRecord] /\ agent'[a].shown = seen
        /\ \A b \in Agents : b # a => agent'[b] = agent[b]
    BY <1>0, <2>1, <2>3 DEF AgentRecord
  <2>5. ProcShape' /\ WaitersFollow' /\ EntriesAreTheirs' /\ PidsAreApart'
    BY <2>1 DEF procVars, ProcInv, ProcShape, WaitersFollow, EntriesAreTheirs, PidsAreApart
  <2>6. \A x \in seen : pid[x.what] = x.id /\ os[x.what] # "none"
    BY <2>2 DEF ProcInv, EntriesAreTheirs, WaitersFollow
  <2>7. ShownWereStarted'
    BY <2>1, <2>2, <2>4, <2>6 DEF procVars, ProcInv, ShownWereStarted
  <2>8. PidsHold'
    <3>1. (\A b \in Agents : \A x \in agent[b].shown :
             procs[x.id] \in {x.what, NoProgram} \/ os[x.what] = "reaped")'
      BY <2>1, <2>2, <2>4 DEF procVars, ProcInv, PidsHold
    <3>2. QED BY <2>1, <3>1 DEF procVars, ProcInv, PidsHold
  <2>9. QED BY <2>1, <2>4, <2>5, <2>7, <2>8 DEF ProcInv
<1>7. ASSUME NEW n \in Pids, KillProcess(n)
      PROVE  ProcInv' /\ UNCHANGED agent /\ procs' \in [Pids -> Programs \union {NoProgram}]
             /\ killedPrograms' \subseteq Programs
  <2>1. /\ procs[n] # NoProgram /\ procs' = [procs EXCEPT ![n] = NoProgram]
        /\ killedPrograms' = killedPrograms \union {procs[n]}
        /\ UNCHANGED <<pid, os, waiter, agent>>
    BY <1>7 DEF KillProcess
  <2>2. /\ procs' \in [Pids -> Programs \union {NoProgram}] /\ procs'[n] = NoProgram
        /\ \A m \in Pids : m # n => procs'[m] = procs[m]
        /\ killedPrograms' \subseteq Programs /\ procs[n] \in killedPrograms'
    BY <1>0, <2>1
  <2>3. ProcShape' /\ WaitersFollow' /\ PidsAreApart' /\ ShownWereStarted'
    BY <2>1 DEF ProcInv, ProcShape, WaitersFollow, PidsAreApart, ShownWereStarted
  <2>4. EntriesAreTheirs'
    BY <2>1, <2>2 DEF ProcInv, EntriesAreTheirs
  <2>5. PidsHold'
    <3>1. (\A b \in Agents : \A x \in agent[b].shown :
             procs[x.id] \in {x.what, NoProgram} \/ os[x.what] = "reaped")'
      BY <2>1, <2>2 DEF ProcInv, PidsHold, ShownWereStarted
    <3>2. (\A p \in Programs : os[p] = "running" /\ waiter[p] # "none" =>
             \/ procs[pid[p]] = p \/ p \in killedPrograms
             \/ \E q \in Programs \ {p} : pid[q] = pid[p] /\ waiter[q] = "done")'
      BY <2>1, <2>2 DEF ProcInv, PidsHold, WaitersFollow
    <3>3. (\A p \in Programs : waiter[p] = "done" => procs[pid[p]] # p)'
      BY <2>1, <2>2 DEF ProcInv, PidsHold, WaitersFollow
    <3>4. QED BY <3>1, <3>2, <3>3 DEF PidsHold
  <2>6. QED BY <2>1, <2>2, <2>3, <2>4, <2>5 DEF ProcInv
<1>8. QED BY <1>0, <1>1, <1>2, <1>3, <1>4, <1>5, <1>6, <1>7 DEF ProcessStep, procVars

-----------------------------------------------------------------------------
TableInv ==
  /\ TableShape
  /\ table = "todo" => TodoInv
  /\ table = "process" => ProcInv

\* For every set of agents, programs and process ids: a number that todo.go
\* or process.go has shown an agent keeps its meaning, unless the list was
\* cleared or the id came back; a lock is lost only over an empty list.
THEOREM NumbersKeepTheirMeaningAlways ==
  TableSpec => [](TableTypeOK /\ NumbersKeepTheirMeaning)
<1>1. TableInit => TableInv
  <2> SUFFICES ASSUME TableInit PROVE TableInv
    OBVIOUS
  <2>1. TableShape
    BY DEF TableInit, TableShape, TableTypeOK, AgentRecord, Idle
  <2>2. TodoInv
    BY DEF TableInit, TodoInv, ItemsGrow, AgentsRemember, LockLostOverNothing, Idle
  <2>3. ProcInv
    BY TablesAssumption DEF TableInit, ProcInv, ProcShape, WaitersFollow, EntriesAreTheirs,
       PidsAreApart,
       ShownWereStarted, PidsHold, Idle
  <2>4. QED BY <2>1, <2>2, <2>3 DEF TableInv
<1>2. TableInv /\ [TableNext]_tableVars => TableInv'
  <2> SUFFICES ASSUME TableInv, [TableNext]_tableVars PROVE TableInv'
    OBVIOUS
  <2>1. CASE table = "todo" /\ (\E a \in Agents : TodoStep(a)) /\ UNCHANGED <<table, procVars>>
    <3>1. TodoInv' /\ agent' \in [Agents -> AgentRecord] /\ table' = "todo" /\ table' # "process"
      BY <2>1, TodoStepKeepsTodoInv DEF TableInv
    <3>2. (storeLock \in {"free", "lost"})' /\ (up \in BOOLEAN)'
      BY <2>1 DEF TableInv, TableShape, TableTypeOK, TodoStep, AddTask, CompleteTask, RemoveTask,
         ClearTasks,
         ListTasks, FormatResult, RemoveFromNothing, todoVars
    <3>3. (\A i \in DOMAIN items : items[i].status \in {"pending", "completed"})'
      <4>1. items' \in Seq(ItemRecord)
        BY <3>1 DEF TodoInv, ItemsGrow
      <4>2. \A i \in DOMAIN items' : items'[i] \in ItemRecord
        BY <4>1
      <4>3. QED BY <4>2 DEF ItemRecord
    <3>4. QED BY <2>1, <3>1, <3>2, <3>3 DEF TableInv, TableShape, TableTypeOK, procVars
  <2>2. CASE table = "process" /\ ProcessStep /\ UNCHANGED <<table, todoVars>>
    <3>1. ProcInv' /\ agent' \in [Agents -> AgentRecord] /\ killedPrograms' \subseteq Programs
          /\ procs' \in [Pids -> Programs \union {NoProgram}]
      BY <2>2, ProcessStepKeepsProcInv DEF TableInv
    <3>2. QED BY <2>2, <3>1 DEF TableInv, TableShape, TableTypeOK, todoVars
  <2>3. CASE UNCHANGED tableVars
    BY <2>3 DEF tableVars, TableInv, TableShape, TableTypeOK, TodoInv, ItemsGrow, AgentsRemember,
       LockLostOverNothing, ProcInv, ProcShape, WaitersFollow, EntriesAreTheirs, PidsAreApart,
       ShownWereStarted,
       PidsHold
  <2>4. QED BY <2>1, <2>2, <2>3 DEF TableNext
<1>3. TableInv => TableTypeOK /\ NumbersKeepTheirMeaning
  <2> SUFFICES ASSUME TableInv PROVE TableTypeOK /\ NumbersKeepTheirMeaning
    OBVIOUS
  <2>1. ASSUME TodoInv PROVE IdsHold /\ (storeLock = "lost" \/ ~up => items = <<>>)
    <3>1. \A i, j \in DOMAIN items : i < j => items[i].id < items[j].id /\ items[j].id < nextID
      BY <2>1 DEF TodoInv, ItemsGrow
    <3>2. ASSUME NEW a \in Agents, NEW x \in Range(items)
          PROVE  /\ \/ [id |-> x.id, what |-> x.text] \in agent[a].shown
                    \/ agent[a].since < clears \/ \A y \in agent[a].shown : y.id # x.id
                 /\ agent[a].at = "answer" /\ agent[a].claim = x.text => x.status = "completed"
      <4>1. PICK i \in DOMAIN items : x = items[i]
        BY DEF Range
      <4>2. agent[a].at = "answer" /\ agent[a].claim = x.text => x.status = "completed"
        BY <2>1, <4>1 DEF TodoInv, AgentsRemember
      <4>3. ASSUME ~(agent[a].since < clears), NEW y \in agent[a].shown, y.id = x.id
            PROVE  [id |-> x.id, what |-> x.text] \in agent[a].shown
        <5>1. agent[a].since = clears
          BY <2>1, <4>3 DEF TodoInv, AgentsRemember, ItemsGrow, TableInv, TableShape, AgentRecord
        <5>2. y.what = x.text
          BY <2>1, <4>1, <4>3, <5>1 DEF TodoInv, AgentsRemember
        <5>3. y \in [id: Nat \union Pids, what: Nat \union Programs]
          BY DEF TableInv, TableShape, AgentRecord
        <5>4. y = [id |-> x.id, what |-> x.text]
          BY <4>3, <5>2, <5>3
        <5>5. QED BY <5>4
      <4>4. QED BY <4>2, <4>3
    <3>3. QED BY <2>1, <3>1, <3>2 DEF IdsHold, TodoInv, LockLostOverNothing
  <2>2. QED BY <2>1 DEF TableInv, TableShape, NumbersKeepTheirMeaning, ProcInv
<1>4. QED BY <1>1, <1>2, <1>3, PTL DEF TableSpec

-----------------------------------------------------------------------------
(* Delegation: sub-agents and the agents that wait for them. *)

SubRecord ==
  [at: {"queued", "working", "settling", "over"},
   status: {"pending", "running", "completed", "failed"},
   outcome: {"none"} \union SubOutcomes, result: {"empty"} \union SubOutcomes, late: BOOLEAN]
WaitRecord ==
  [kind: {"none", "one", "all", "summary", "over"}, on: SUBSET Spawned,
   timedOut: BOOLEAN, seen: {"empty"} \union SubOutcomes, next: 0..MaxSpawns,
   marks: [Spawned -> {"none", "PASS", "SUSPECT", "FAIL", "TIMEOUT"}]]

\* The fields of a task record at each point of its goroutine.
GoodSub(r) ==
  /\ r.at = "queued" => r.status = "pending"
  /\ r.at = "working" => r.status = "running"
  /\ r.at \in {"settling", "over"} =>
       /\ r.outcome \in SubOutcomes
       /\ r.status = IF r.outcome = "error" THEN "failed" ELSE "completed"

\* What a task record may become: what was read of it stays true.
Follows(r, old) ==
  /\ old.late => r.late
  /\ old.at \in {"settling", "over"} => r.status = old.status /\ r.outcome = old.outcome
                                         /\ r.at \in {"settling", "over"}

\* What an agent whose wait is w knows of the tasks it waits for or reports on.
Knows(a, w) ==
  /\ w.on \subseteq Subs
  /\ \A t \in Spawned : w.marks[t] # "none" => t \in w.on
  /\ a \in Spawned \ Subs => w.kind = "none" /\ w.on = {}
  /\ a \in Subs /\ w.kind \in {"one", "all", "summary"} => subs[a].at = "working"
  /\ w.kind = "one" => \E t \in Subs : w.on = {t}
  /\ w.kind \in {"one", "all"} => \A t \in Spawned : w.marks[t] = "none"
  /\ w.kind = "summary" /\ ~w.timedOut => \A t \in w.on : TaskEnded(t)
  /\ w.next # 0 =>
       /\ w.next \in w.on /\ w.marks[w.next] = "none"
       /\ w.kind = "summary" /\ subs[w.next].status = "completed"
  /\ \A t \in Subs :
       /\ w.marks[t] \in {"PASS", "SUSPECT"} => subs[t].status = "completed"
       /\ w.marks[t] = "FAIL" => subs[t].status = "failed"
       /\ w.marks[t] = "TIMEOUT" => w.timedOut
  /\ a \in Subs /\ a \in w.on /\ w.kind \in {"summary", "over"} =>
       subs[a].late /\ w.marks[a] \in {"none", "TIMEOUT"}

DelegShape ==
  /\ subs \in Seq(SubRecord) /\ Len(subs) <= MaxSpawns
  /\ waits \in [CallingAgents -> WaitRecord]
  /\ \A t \in Subs : GoodSub(subs[t])

DelegInv ==
  /\ DelegShape
  /\ \A a \in CallingAgents : Knows(a, waits[a])
  /\ Cardinality(Holding) <= Slots

LEMMA SubsAreSpawned ==
  ASSUME DelegShape
  PROVE  /\ Subs = 1..Len(subs) /\ Len(subs) \in Nat /\ Subs \subseteq Spawned
         /\ \A t \in Subs : subs[t] \in SubRecord
         /\ IsFiniteSet(Holding) /\ Cardinality(Holding) \in Nat
<1>1. Subs = 1..Len(subs) /\ Len(subs) \in Nat /\ \A t \in Subs : subs[t] \in SubRecord
  BY DEF DelegShape, Subs
<1>2. Subs \subseteq Spawned
  BY <1>1, DelegationAssumption DEF DelegShape, Spawned
<1>3. IsFiniteSet(Subs)
  BY <1>1, FS_Interval
<1>4. Holding \subseteq Subs
  BY DEF Holding
<1>5. IsFiniteSet(Holding) /\ Cardinality(Holding) \in Nat
  BY <1>3, <1>4, FS_Subset, FS_CardinalityType
<1>6. QED BY <1>1, <1>2, <1>5

\* It holds at the start.
LEMMA DelegInvInitially == DelegInit => DelegInv
<1> SUFFICES ASSUME DelegInit PROVE DelegInv
  OBVIOUS
<1>1. subs = <<>> /\ Subs = {} /\ Len(subs) = 0
  BY DEF DelegInit, Subs
<1>2. NoWait \in WaitRecord
  BY DelegationAssumption DEF NoWait, WaitRecord
<1>3. DelegShape
  BY <1>1, <1>2, EmptySeq, DelegationAssumption DEF DelegShape, DelegInit
<1>4. \A a \in CallingAgents : Knows(a, waits[a])
  BY <1>1 DEF DelegInit, Knows, NoWait, Spawned
<1>5. Holding = {}
  BY <1>1 DEF Holding
<1>6. Cardinality(Holding) <= Slots
  BY <1>5, FS_EmptySet, DelegationAssumption
<1>7. QED BY <1>3, <1>4, <1>6 DEF DelegInv

\* A change of one record by its goroutine.
LEMMA SubKeepsDelegInv ==
  ASSUME DelegInv, NEW t \in Subs, NEW r \in SubRecord, 
         subs' = [subs EXCEPT ![t] = r], waits' = waits,
         GoodSub(r), Follows(r, subs[t]),
         waits[t].kind \in {"one", "all", "summary"} /\ subs[t].at = "working" => r.at = "working",
         \/ r.at \in {"working", "settling"} => subs[t].at \in {"working", "settling"}
         \/ Cardinality(Holding) < Slots
  PROVE  DelegInv'
<1>1. DelegShape
  BY DEF DelegInv
<1>2. subs' \in Seq(SubRecord) /\ Len(subs') = Len(subs) /\ Subs' = Subs
      /\ \A u \in Subs : subs'[u] = IF u = t THEN r ELSE subs[u]
  BY <1>1, SubsAreSpawned, ExceptSeq DEF DelegShape, Subs
<1>3. DelegShape'
  BY <1>1, <1>2 DEF DelegShape
<1>4. ASSUME NEW a \in CallingAgents PROVE Knows(a, waits[a])'
  <2>1. Knows(a, waits[a])
    BY DEF DelegInv
  <2>2. \A u \in Subs : /\ subs[u].late => subs'[u].late
                        /\ TaskEnded(u) => TaskEnded(u)' 
                        /\ subs[u].status = "completed" => subs'[u].status = "completed"
                        /\ subs[u].status = "failed" => subs'[u].status = "failed"
    BY <1>1, <1>2, SubsAreSpawned DEF Follows, TaskEnded, DelegShape, GoodSub, SubRecord
  <2>3. a \in Subs /\ waits[a].kind \in {"one", "all", "summary"} => subs'[a].at = "working"
    BY <1>2, <2>1 DEF Knows
  <2>4. waits[a].on \subseteq Subs /\ waits[a].next # 0 => waits[a].next \in Subs
    BY <2>1 DEF Knows
  <2>5. waits'[a] = waits[a]
    OBVIOUS
  <2>6. waits[a].kind = "summary" /\ ~waits[a].timedOut => \A u \in waits[a].on : TaskEnded(u)'
    BY <2>1, <2>2 DEF Knows
  <2>7. waits[a].next # 0 => waits[a].next \in waits[a].on /\ waits[a].marks[waits[a].next] = "none"
          /\ waits[a].kind = "summary" /\ subs'[waits[a].next].status = "completed"
    BY <2>1, <2>2 DEF Knows
  <2>8. a \in Subs /\ a \in waits[a].on /\ waits[a].kind \in {"summary", "over"} =>
           subs'[a].late /\ waits[a].marks[a] \in {"none", "TIMEOUT"}
    BY <2>1, <2>2 DEF Knows
  <2>9. QED BY <1>2, <2>1, <2>2, <2>3, <2>5, <2>6, <2>7, <2>8 DEF Knows
<1>5. Cardinality(Holding') <= Slots
  <2>1. IsFiniteSet(Holding) /\ Cardinality(Holding) \in Nat
    BY <1>1, SubsAreSpawned
  <2>2. CASE r.at \in {"working", "settling"} => subs[t].at \in {"working", "settling"}
    <3>1. Holding' \subseteq Holding
      BY <1>2, <2>2 DEF Holding
    <3>2. Cardinality(Holding') <= Cardinality(Holding) /\ Cardinality(Holding') \in Nat
      BY <2>1, <3>1, FS_Subset, FS_CardinalityType
    <3>3. QED BY <2>1, <3>2, DelegationAssumption DEF DelegInv
  <2>3. CASE Cardinality(Holding) < Slots
    <3>1. Holding' \subseteq Holding \union {t}
      BY <1>2 DEF Holding
    <3>2. /\ IsFiniteSet(Holding \union {t})
          /\ Cardinality(Holding \union {t}) = IF t \in Holding THEN Cardinality(Holding)
                                                ELSE Cardinality(Holding) + 1
      BY <2>1, FS_AddElement
    <3>3. IsFiniteSet(Holding') /\ Cardinality(Holding') <= Cardinality(Holding \union {t})
      BY <3>1, <3>2, FS_Subset
    <3>4. Cardinality(Holding') \in Nat /\ Cardinality(Holding \union {t}) \in Nat
      BY <3>2, <3>3, FS_CardinalityType
    <3>5. QED BY <2>1, <2>3, <3>2, <3>3, <3>4, DelegationAssumption
  <2>4. QED BY <2>2, <2>3
<1>6. QED BY <1>3, <1>4, <1>5 DEF DelegInv

LEMMA GoroutineKeepsDelegInv ==
  ASSUME DelegInv, NEW t \in Subs, AcquireSlot(t) \/ SubDeadline(t) \/ CallbackReturns(t)
         \/ SettleTask(t)
  PROVE  DelegInv'
<1>1. subs[t] \in SubRecord /\ GoodSub(subs[t])
  BY SubsAreSpawned DEF DelegInv, DelegShape
<1>2. CASE AcquireSlot(t)
  <2> DEFINE r == [subs[t] EXCEPT !.at = "working", !.status = "running"]
  <2>1. subs' = [subs EXCEPT ![t] = r] /\ waits' = waits /\ subs[t].at = "queued"
          /\ Cardinality(Holding) < Slots
    BY <1>2 DEF AcquireSlot
  <2>2. r \in SubRecord /\ GoodSub(r) /\ Follows(r, subs[t]) /\ r.at = "working"
    BY <1>1, <2>1 DEF SubRecord, GoodSub, Follows
  <2> HIDE DEF r
  <2>3. QED BY <2>1, <2>2, SubKeepsDelegInv
<1>3. CASE SubDeadline(t)
  <2> DEFINE r == [subs[t] EXCEPT !.late = TRUE]
  <2>1. subs' = [subs EXCEPT ![t] = r] /\ waits' = waits
    BY <1>3 DEF SubDeadline
  <2>2. r \in SubRecord /\ GoodSub(r) /\ Follows(r, subs[t]) /\ r.at = subs[t].at
    BY <1>1 DEF SubRecord, GoodSub, Follows
  <2> HIDE DEF r
  <2>3. QED BY <2>1, <2>2, SubKeepsDelegInv
<1>4. CASE CallbackReturns(t)
  <2>1. PICK out \in SubOutcomes :
          subs' = [subs EXCEPT ![t].at = "settling", ![t].outcome = out,
                            ![t].status = IF out = "error" THEN "failed" ELSE "completed"]
    BY <1>4 DEF CallbackReturns, SubOutcomes
  <2> DEFINE r == [subs[t] EXCEPT !.at = "settling", !.outcome = out,
                      !.status = IF out = "error" THEN "failed" ELSE "completed"]
  <2>2. subs' = [subs EXCEPT ![t] = r] /\ waits' = waits /\ subs[t].at = "working"
          /\ waits[t].kind \in {"none", "over"}
    BY <1>4, <2>1 DEF CallbackReturns
  <2>3. r \in SubRecord /\ GoodSub(r) /\ Follows(r, subs[t])
    BY <1>1, <2>2 DEF SubRecord, GoodSub, Follows, SubOutcomes
  <2> HIDE DEF r
  <2>4. QED BY <2>2, <2>3, SubKeepsDelegInv
<1>5. CASE SettleTask(t)
  <2> DEFINE r == [subs[t] EXCEPT !.at = "over", !.result = subs[t].outcome]
  <2>1. subs' = [subs EXCEPT ![t] = r] /\ waits' = waits /\ subs[t].at = "settling"
    BY <1>5 DEF SettleTask
  <2>2. r \in SubRecord /\ GoodSub(r) /\ Follows(r, subs[t]) /\ r.at = "over"
    BY <1>1, <2>1 DEF SubRecord, GoodSub, Follows, SubOutcomes
  <2> HIDE DEF r
  <2>3. QED BY <2>1, <2>2, SubKeepsDelegInv
<1>6. QED BY <1>2, <1>3, <1>4, <1>5

LEMMA SpawnKeepsDelegInv ==
  ASSUME DelegInv, NEW a \in CallingAgents, SpawnTask(a)
  PROVE  DelegInv'
<1> DEFINE n == Len(subs) + 1
<1>1. subs' = Append(subs, NewSub) /\ waits' = waits /\ Len(subs) < MaxSpawns
  BY DEF SpawnTask
<1>2. NewSub \in SubRecord /\ GoodSub(NewSub)
  BY DEF NewSub, SubRecord, SubOutcomes, GoodSub
<1>3. Len(subs) \in Nat /\ Subs = 1..Len(subs) /\ subs \in Seq(SubRecord)
  BY SubsAreSpawned DEF DelegInv, DelegShape
<1>4. subs' \in Seq(SubRecord) /\ Len(subs') = n /\ Subs' = 1..n
      /\ \A u \in 1..n : subs'[u] = IF u = n THEN NewSub ELSE subs[u]
  BY <1>1, <1>2, <1>3 DEF Subs
<1>5. Subs' = Subs \union {n} /\ n \notin Subs /\ n \in Spawned
        /\ \A u \in Subs : subs'[u] = subs[u]
  BY <1>1, <1>3, <1>4, DelegationAssumption DEF Spawned
<1>6. subs'[n] = NewSub
  BY <1>4, <1>5
<1> HIDE DEF n
<1>7. DelegShape'
  BY <1>1, <1>2, <1>3, <1>4, <1>5, <1>6, DelegationAssumption DEF DelegInv, DelegShape, n
<1>8. ASSUME NEW b \in CallingAgents PROVE Knows(b, waits[b])'
  <2>1. Knows(b, waits[b]) /\ waits'[b] = waits[b]
    BY <1>1 DEF DelegInv
  <2>2. n \notin waits[b].on /\ waits[b].marks[n] = "none"
    BY <1>5, <2>1 DEF Knows
  <2>3. \A u \in Subs : TaskEnded(u) => TaskEnded(u)'
    BY <1>5 DEF TaskEnded
  <2>4. b = n => waits[b].kind = "none" /\ waits[b].on = {}
    BY <1>5, <2>1 DEF Knows
  <2>5. QED BY <1>5, <2>1, <2>2, <2>3, <2>4 DEF Knows
<1>9. Holding' = Holding
  BY <1>5, <1>6 DEF Holding, NewSub
<1>10. QED BY <1>7, <1>8, <1>9 DEF DelegInv

\* A step of one agent's wait.
LEMMA WaitKeepsDelegInv ==
  ASSUME DelegInv, NEW a \in CallingAgents, NEW w \in WaitRecord,
         waits' = [waits EXCEPT ![a] = w], subs' = subs, Knows(a, w)
  PROVE  DelegInv'
<1>1. waits'[a] = w /\ \A b \in CallingAgents \ {a} : waits'[b] = waits[b]
  BY DEF DelegInv, DelegShape
<1>2. DelegShape'
  BY DEF DelegInv, DelegShape, Subs
<1>3. \A b \in CallingAgents : Knows(b, waits[b])'
  BY <1>1 DEF DelegInv, Knows, Subs, TaskEnded
<1>4. Holding' = Holding
  BY DEF Holding, Subs
<1>5. QED BY <1>2, <1>3, <1>4 DEF DelegInv

LEMMA StartKeepsDelegInv ==
  ASSUME DelegInv, NEW a \in CallingAgents, WaitOne(a) \/ WaitAll(a)
  PROVE  DelegInv'
<1>1. Subs \subseteq Spawned /\ 0 \notin Subs /\ subs' = subs
  BY SubsAreSpawned DEF DelegInv, WaitOne, WaitAll
<1>2. PICK k \in {"one", "all"}, those \in SUBSET Subs :
        (k = "one" => \E t \in Subs : those = {t})
          /\ waits' = [waits EXCEPT ![a] = [NoWait EXCEPT !.kind = k, !.on = those]]
  BY DEF WaitOne, WaitAll, StartWait
<1> DEFINE w == [NoWait EXCEPT !.kind = k, !.on = those]
<1>3. /\ w \in WaitRecord /\ w.kind = k /\ w.on = those /\ w.next = 0
      /\ \A t \in Spawned : w.marks[t] = "none"
  <2>1. /\ NoWait \in WaitRecord /\ NoWait.next = 0
        /\ \A t \in Spawned : NoWait.marks[t] = "none"
    BY DelegationAssumption DEF NoWait, WaitRecord
  <2>2. those \in SUBSET Spawned
    BY <1>1
  <2>3. QED BY <2>1, <2>2 DEF WaitRecord
<1> HIDE DEF w
<1>4. waits' = [waits EXCEPT ![a] = w] /\ waits'[a] = w
  BY <1>2 DEF w, DelegInv, DelegShape
<1>5. a \in Spawned => a \in Subs /\ subs[a].at = "working"
  BY DEF WaitOne, WaitAll, FreeToCall, MainAgent, Spawned
<1>6. Knows(a, w)
  BY <1>1, <1>2, <1>3, <1>4, <1>5 DEF Knows, Subs
<1>7. QED BY <1>1, <1>3, <1>4, <1>6, WaitKeepsDelegInv

LEMMA PollKeepsDelegInv ==
  ASSUME DelegInv, NEW a \in CallingAgents, OneEnds(a) \/ AllEnd(a) \/ WaitTimesOut(a)
  PROVE  DelegInv'
<1>1. /\ Subs \subseteq Spawned /\ subs' = subs /\ Subs' = Subs
      /\ \A t \in Subs : subs[t] \in SubRecord /\ GoodSub(subs[t])
           /\ (TaskEnded(t)' <=> TaskEnded(t))
  BY SubsAreSpawned DEF DelegInv, DelegShape, OneEnds, AllEnd, WaitTimesOut, Subs, TaskEnded
<1>2. waits[a] \in WaitRecord /\ Knows(a, waits[a]) /\ waits[a].kind \in {"one", "all"}
      /\ waits[a].next = 0
  BY DEF DelegInv, DelegShape, OneEnds, AllEnd, WaitTimesOut, Knows
<1>3. a \in Subs => ~TaskEnded(a) /\ subs[a].status = "running"
  BY <1>1, <1>2 DEF Knows, GoodSub, TaskEnded
<1>4. SUFFICES ASSUME NEW w \in WaitRecord, waits' = [waits EXCEPT ![a] = w],
                      w.on = waits[a].on, w.marks = waits[a].marks, w.next = 0,
                      w.kind \in {"summary", "over"},
                      w.kind = "summary" /\ ~w.timedOut => \A t \in w.on : TaskEnded(t),
                      a \in Subs /\ a \in w.on => subs[a].late
               PROVE  DelegInv'
  <2>1. CASE OneEnds(a)
    <3>1. PICK t \in waits[a].on : TaskEnded(t)
            /\ waits' = [waits EXCEPT ![a].kind = "over", ![a].seen = subs[t].result]
      BY <2>1 DEF OneEnds
    <3> DEFINE w == [waits[a] EXCEPT !.kind = "over", !.seen = subs[t].result]
    <3>2. t \in Subs /\ waits[a].on = {t}
      BY <1>2, <2>1 DEF Knows, OneEnds
    <3>3. waits' = [waits EXCEPT ![a] = w]
      BY <3>1
    <3>4. w \in WaitRecord /\ w.on = waits[a].on /\ w.marks = waits[a].marks /\ w.next = 0
            /\ w.kind = "over"
      BY <1>1, <1>2, <3>2 DEF WaitRecord, SubRecord
    <3>5. a \notin w.on \/ a \notin Subs
      BY <1>3, <3>1, <3>2, <3>4
    <3> HIDE DEF w
    <3>6. QED BY <1>4, <3>3, <3>4, <3>5
  <2>2. CASE AllEnd(a)
    <3> DEFINE w == [waits[a] EXCEPT !.kind = "summary"]
    <3>1. waits' = [waits EXCEPT ![a] = w] /\ AllDone(waits[a].on)
      BY <2>2 DEF AllEnd
    <3>2. w \in WaitRecord /\ w.on = waits[a].on /\ w.marks = waits[a].marks /\ w.next = 0
            /\ w.kind = "summary"
      BY <1>2 DEF WaitRecord
    <3>3. \A t \in waits[a].on : TaskEnded(t)
      BY <1>1, <1>2, <3>1 DEF AllDone, Knows, TaskEnded, SubRecord
    <3>4. a \notin w.on \/ a \notin Subs
      BY <1>3, <3>2, <3>3
    <3> HIDE DEF w
    <3>5. QED BY <1>4, <3>1, <3>2, <3>3, <3>4
  <2>3. CASE WaitTimesOut(a)
    <3>1. PICK k \in {"summary", "over"} : waits' =
            [waits EXCEPT ![a].kind = k, ![a].timedOut = TRUE]
      BY <2>3 DEF WaitTimesOut
    <3> DEFINE w == [waits[a] EXCEPT !.kind = k, !.timedOut = TRUE]
    <3>2. waits' = [waits EXCEPT ![a] = w]
      BY <3>1
    <3>3. w \in WaitRecord /\ w.on = waits[a].on /\ w.marks = waits[a].marks /\ w.next = 0
            /\ w.kind = k /\ w.timedOut
      BY <1>2 DEF WaitRecord
    <3>4. a \in Subs => subs[a].late
      BY <1>1, <2>3 DEF WaitTimesOut, MainAgent, Spawned
    <3> HIDE DEF w
    <3>5. QED BY <1>4, <3>2, <3>3, <3>4
  <2>4. QED BY <2>1, <2>2, <2>3
<1>5. waits'[a] = w
  BY <1>4 DEF DelegInv, DelegShape
<1>6. \A t \in Spawned : w.marks[t] = "none"
  BY <1>2, <1>4 DEF Knows
<1>7. Knows(a, w)
  BY <1>1, <1>2, <1>4, <1>5, <1>6 DEF Knows
<1>8. QED BY <1>1, <1>4, <1>7, WaitKeepsDelegInv

\* A step of buildSummary.
LEMMA SummaryKeepsDelegInv ==
  ASSUME DelegInv, NEW a \in CallingAgents, ReadPreview(a) \/ MarkTask(a) \/ SummaryDone(a)
  PROVE  DelegInv'
<1>1. /\ Subs \subseteq Spawned /\ subs' = subs /\ Subs' = Subs
      /\ \A t \in Subs : subs[t] \in SubRecord /\ GoodSub(subs[t])
           /\ (TaskEnded(t)' <=> TaskEnded(t))
  BY SubsAreSpawned DEF DelegInv, DelegShape, ReadPreview, MarkTask, SummaryDone, Subs, TaskEnded
<1>2. waits[a] \in WaitRecord /\ Knows(a, waits[a]) /\ waits[a].kind = "summary"
  BY DEF DelegInv, DelegShape, ReadPreview, MarkTask, SummaryDone
<1>3. a \in Subs => subs[a].status = "running"
  BY <1>1, <1>2 DEF Knows, GoodSub
<1>4. waits[a].on \subseteq Subs
  BY <1>2 DEF Knows
<1>5. CASE SummaryDone(a)
  <2> DEFINE w == [waits[a] EXCEPT !.kind = "over"]
  <2>1. waits' = [waits EXCEPT ![a] = w] /\ \A t \in waits[a].on : waits[a].marks[t] # "none"
    BY <1>5 DEF SummaryDone
  <2>2. w \in WaitRecord /\ w.on = waits[a].on /\ w.marks = waits[a].marks /\ w.next = waits[a].next
          /\ w.kind = "over"
        /\ w.timedOut = waits[a].timedOut
    BY <1>2 DEF WaitRecord
  <2> HIDE DEF w
  <2>3. waits'[a] = w
    BY <2>1 DEF DelegInv, DelegShape
  <2>4. w.next = 0
    BY <1>2, <2>1, <2>2 DEF Knows
  <2>5. Knows(a, w)
    BY <1>1, <1>2, <2>2, <2>3, <2>4 DEF Knows
  <2>6. QED BY <1>1, <2>1, <2>2, <2>5, WaitKeepsDelegInv
<1>6. CASE ReadPreview(a)
  <2>1. PICK t \in waits[a].on :
          waits[a].marks[t] = "none" /\ waits' = IF subs[t].status = "completed"
                   THEN [waits EXCEPT ![a].next = t, ![a].seen = subs[t].result]
                   ELSE [waits EXCEPT ![a].marks[t] =
                           IF subs[t].status = "failed" THEN "FAIL" ELSE "TIMEOUT"]
    BY <1>6 DEF ReadPreview
  <2>2. t \in Subs /\ t \in Spawned /\ waits[a].next = 0
    BY <1>1, <1>4, <1>6 DEF ReadPreview
  <2>3. CASE subs[t].status = "completed"
    <3> DEFINE w == [waits[a] EXCEPT !.next = t, !.seen = subs[t].result]
    <3>1. waits' = [waits EXCEPT ![a] = w]
      BY <2>1, <2>3
    <3>2. w \in WaitRecord /\ w.on = waits[a].on /\ w.marks = waits[a].marks /\ w.next = t
            /\ w.kind = "summary"
          /\ w.timedOut = waits[a].timedOut
      <4>1. subs[t].result \in {"empty"} \union SubOutcomes /\ t \in 0..MaxSpawns
        BY <1>1, <2>2, DelegationAssumption DEF SubRecord, Spawned
      <4>2. QED BY <1>2, <4>1 DEF WaitRecord
    <3> HIDE DEF w
    <3>3. waits'[a] = w
      BY <3>1 DEF DelegInv, DelegShape
    <3>4. Knows(a, w)
      BY <1>1, <1>2, <2>1, <2>2, <2>3, <3>2, <3>3 DEF Knows
    <3>5. QED BY <1>1, <3>1, <3>2, <3>4, WaitKeepsDelegInv
  <2>4. CASE subs[t].status # "completed"
    <3> DEFINE m == IF subs[t].status = "failed" THEN "FAIL" ELSE "TIMEOUT"
               w == [waits[a] EXCEPT !.marks = [waits[a].marks EXCEPT ![t] = m]]
    <3>1. waits' = [waits EXCEPT ![a] = w]
      BY <2>1, <2>4
    <3>2. w \in WaitRecord /\ w.on = waits[a].on /\ w.next = 0 /\ w.kind = "summary"
          /\ w.timedOut = waits[a].timedOut
          /\ \A u \in Spawned : w.marks[u] = IF u = t THEN m ELSE waits[a].marks[u]
      BY <1>2, <2>2 DEF WaitRecord
    <3>3. /\ m = "FAIL" => subs[t].status = "failed"
          /\ m = "TIMEOUT" => waits[a].timedOut
          /\ m \in {"FAIL", "TIMEOUT"} /\ (t = a => m = "TIMEOUT")
      BY <1>2, <1>3, <2>1, <2>2, <2>4 DEF Knows, TaskEnded
    <3> HIDE DEF w, m
    <3>4. waits'[a] = w
      BY <3>1 DEF DelegInv, DelegShape
    <3>5. Knows(a, w)
      BY <1>1, <1>2, <2>1, <2>2, <3>2, <3>3, <3>4 DEF Knows
    <3>6. QED BY <1>1, <3>1, <3>2, <3>5, WaitKeepsDelegInv
  <2>5. QED BY <2>3, <2>4
<1>7. CASE MarkTask(a)
  <2> DEFINE t == waits[a].next
             m == IF waits[a].seen = "warned" \/ subs[t].result = "empty" THEN "SUSPECT" ELSE "PASS"
             w == [waits[a] EXCEPT !.next = 0, !.seen = "empty", !.marks =
               [waits[a].marks EXCEPT ![t] = m]]
  <2>1. waits' = [waits EXCEPT ![a] = w] /\ t # 0
    BY <1>7 DEF MarkTask
  <2>2. t \in Subs /\ t \in Spawned /\ t \in waits[a].on /\ subs[t].status = "completed" /\ t # a
    BY <1>1, <1>2, <1>3, <1>4, <2>1 DEF Knows
  <2>3. m \in {"PASS", "SUSPECT"}
    OBVIOUS
  <2> HIDE DEF m
  <2>4. w \in WaitRecord /\ w.on = waits[a].on /\ w.next = 0 /\ w.kind = "summary"
          /\ w.timedOut = waits[a].timedOut
          /\ \A u \in Spawned : w.marks[u] = IF u = t THEN m ELSE waits[a].marks[u]
    <3>1. waits[a].marks \in [Spawned -> {"none", "PASS", "SUSPECT", "FAIL", "TIMEOUT"}]
      BY <1>2 DEF WaitRecord
    <3> DEFINE marks == [waits[a].marks EXCEPT ![t] = m]
    <3>2. marks \in [Spawned -> {"none", "PASS", "SUSPECT", "FAIL", "TIMEOUT"}]
          /\ \A u \in Spawned : marks[u] = IF u = t THEN m ELSE waits[a].marks[u]
      BY <2>2, <2>3, <3>1
    <3>3. 0 \in 0..MaxSpawns
      BY DelegationAssumption
    <3> HIDE DEF marks, t
    <3>4. [waits[a] EXCEPT !.next = 0, !.seen = "empty", !.marks = marks] \in WaitRecord
      BY <1>2, <3>2, <3>3 DEF WaitRecord
    <3>5. QED BY <1>2, <3>2, <3>4 DEF marks, WaitRecord
  <2> HIDE DEF w, t
  <2>5. waits'[a] = w
    BY <2>1 DEF DelegInv, DelegShape
  <2>6. Knows(a, w)
    BY <1>1, <1>2, <2>2, <2>3, <2>4, <2>5 DEF Knows
  <2>7. QED BY <1>1, <2>1, <2>4, <2>6, WaitKeepsDelegInv
<1>8. QED BY <1>5, <1>6, <1>7

\* Every step keeps it.
LEMMA DelegInvIsInductive == DelegInv /\ [DelegNext]_delegVars => DelegInv'
<1> SUFFICES ASSUME DelegInv, [DelegNext]_delegVars PROVE DelegInv'
  OBVIOUS
<1>1. CASE UNCHANGED delegVars
  BY <1>1 DEF delegVars, DelegInv, DelegShape, Knows, Subs, TaskEnded, Holding
<1>2. QED
  BY <1>1, SpawnKeepsDelegInv, StartKeepsDelegInv, PollKeepsDelegInv, SummaryKeepsDelegInv,
     GoroutineKeepsDelegInv DEF DelegNext

LEMMA DelegInvReports == DelegInv => DelegTypeOK /\ DelegationReportsAreTrue
<1> SUFFICES ASSUME DelegInv PROVE DelegTypeOK /\ DelegationReportsAreTrue
  OBVIOUS
<1>1. DelegTypeOK
  BY DEF DelegInv, DelegShape, DelegTypeOK, SubRecord, WaitRecord
<1>2. Subs \subseteq Spawned /\ \A t \in Subs : GoodSub(subs[t]) /\ subs[t] \in SubRecord
  BY SubsAreSpawned DEF DelegInv, DelegShape
<1>3. \A t \in Subs : /\ subs[t].status = "completed" => subs[t].outcome \in {"good", "warned"}
                      /\ subs[t].status = "failed" => subs[t].outcome = "error"
  BY <1>2 DEF GoodSub, SubRecord, SubOutcomes
<1>4. \A a \in CallingAgents, t \in Subs :
        /\ waits[a].marks[t] \in {"PASS", "SUSPECT"} => subs[t].outcome \in {"good", "warned"}
        /\ waits[a].marks[t] = "FAIL" => subs[t].outcome = "error"
        /\ waits[a].marks[t] = "TIMEOUT" => waits[a].timedOut
  BY <1>3 DEF DelegInv, Knows
<1>5. \A a \in Subs : a \in waits[a].on /\ waits[a].kind \in {"summary", "over"} =>
        subs[a].late /\ waits[a].marks[a] \in {"none", "TIMEOUT"}
  BY <1>2 DEF DelegInv, Knows, CallingAgents
<1>6. QED BY <1>1, <1>4, <1>5 DEF DelegInv, DelegationReportsAreTrue

\* For every number of slots and of spawned tasks: no more than Slots sub-
\* agents run, and what wait_for and wait_all report of one agrees with what
\* it returned, though its record is read field by field.
THEOREM DelegationReports == DelegSpec => [](DelegTypeOK /\ DelegationReportsAreTrue)
BY DelegInvInitially, DelegInvIsInductive, DelegInvReports, PTL DEF DelegSpec

-----------------------------------------------------------------------------
(* McpClient: callers that restart the server they share. *)

\* The write lock is held by the caller that initialises, and by it alone.
LockIsHeldToInitialise ==
  \A p \in Callers : at[p] \in {"init", "reinit"} => writer = p

\* Without a history of failure only a restart under way makes the client
\* not ready, and it holds the lock: nobody sees the flag down.
ReadyUnlessRestarting ==
  unready = {} =>
    /\ ~ready => writer \in Callers /\ at[writer] = "reinit"
    /\ \A p \in Callers : at[p] \notin {"upgrade", "init"}

FaultsFollow ==
  /\ mcpFault = "fatal" \/ writer = "lost" => unready # {}
  /\ mcpFault = "panic" \/ conn.process = "nil" => "spawn" \in unready

McpInv == McpTypeOK /\ LockIsHeldToInitialise /\ ReadyUnlessRestarting /\ FaultsFollow

LEMMA NoOneIsApart == NoOne # "lost"
BY DEF NoOne

\* It holds at the start.
LEMMA McpInvInitially == McpInit => McpInv
BY McpAssumption, NoOneIsApart DEF McpInit, McpInv, McpTypeOK, LockIsHeldToInitialise,
   ReadyUnlessRestarting, FaultsFollow, Places

\* A caller's step, one handler at a time.
LEMMA CallerKeepsMcpInv ==
  ASSUME McpInv, NEW p \in Callers,
         Enter(p) \/ ReadReady(p) \/ Upgrade(p) \/ InitOk(p) \/ InitFails(p)
  PROVE  McpInv'
<1> USE McpAssumption DEF McpInv, McpTypeOK, LockIsHeldToInitialise, ReadyUnlessRestarting,
   FaultsFollow, Places, Up, Go
<1>1. CASE Enter(p)
  BY <1>1 DEF Enter
<1>2. CASE ReadReady(p)
  BY <1>2 DEF ReadReady
<1>3. CASE Upgrade(p)
  BY <1>3 DEF Upgrade, WrongUnlock
<1>4. CASE InitOk(p)
  BY <1>4 DEF InitOk, WrongUnlock, Initialise
<1>5. CASE InitFails(p)
  <2>1. /\ UNCHANGED <<second, on, ready, conn, mcpFault, deaths, unready>> /\ writer' = NoOne
        /\ pipe' \in {pipe, Ghost} /\ at[p] = "init"
    BY <1>5 DEF InitFails, Initialise
  <2>2. PICK place \in {"failed", "check"} : at' = [at EXCEPT ![p] = place]
    BY <1>5 DEF InitFails, Error
  <2>3. writer = p
    BY <2>1
  <2>4. McpTypeOK'
    BY <2>1, <2>2
  <2>5. LockIsHeldToInitialise' /\ FaultsFollow'
    BY <2>1, <2>2, <2>3, NoOneIsApart
  <2>6. ReadyUnlessRestarting'
    BY <2>1
  <2>7. QED BY <2>4, <2>5, <2>6
<1>6. QED BY <1>1, <1>2, <1>3, <1>4, <1>5

LEMMA SendKeepsMcpInv ==
  ASSUME McpInv, NEW p \in Callers,
         UseNil(p) \/ Write(p) \/ WriteFails(p) \/ Reply(p) \/ GiveUp(p)
  PROVE  McpInv'
<1> USE McpAssumption DEF McpInv, McpTypeOK, LockIsHeldToInitialise, ReadyUnlessRestarting,
   FaultsFollow, Places, Up, Go
<1>1. CASE UseNil(p)
  BY <1>1 DEF UseNil
<1>2. CASE Write(p)
  BY <1>2 DEF Write
<1>3. CASE WriteFails(p)
  BY <1>3 DEF WriteFails, Error
<1>4. CASE Reply(p)
  BY <1>4 DEF Reply, Error
<1>5. CASE GiveUp(p)
  BY <1>5 DEF GiveUp, Error
<1>6. QED BY <1>1, <1>2, <1>3, <1>4, <1>5

LEMMA RestartKeepsMcpInv ==
  ASSUME McpInv, NEW p \in Callers,
         CheckAlive(p) \/ AdapterFails(p) \/ Respawn(p) \/ ReinitOk(p) \/ ReinitFails(p)
  PROVE  McpInv'
<1> USE McpAssumption DEF McpInv, McpTypeOK, LockIsHeldToInitialise, ReadyUnlessRestarting,
   FaultsFollow, Places, Up, Go
<1>1. CASE CheckAlive(p)
  BY <1>1 DEF CheckAlive
<1>2. CASE AdapterFails(p)
  BY <1>2 DEF AdapterFails
<1>3. CASE Respawn(p)
  <2>1. conn.gen + 1 \in Nat \ {0}
    OBVIOUS
  <2>2. \A q \in Callers : at[q] \notin {"init", "reinit"}
    BY <1>3 DEF Respawn
  <2>0. /\ UNCHANGED <<second, on, mcpFault, deaths>> /\ writer = NoOne
        /\ ready' = FALSE /\ pipe' = NoOne /\ mcpFault = "none"
    BY <1>3 DEF Respawn
  <2>3. CASE conn' = [gen |-> conn.gen + 1, process |-> "alive"] /\ writer' = p
    <3>1. at' = [at EXCEPT ![p] = "reinit"] /\ unready' = unready
      BY <1>3, <2>3 DEF Respawn
    <3>2. McpTypeOK'
      BY <2>0, <2>1, <2>3, <3>1
    <3>3. LockIsHeldToInitialise'
      BY <2>2, <2>3, <3>1
    <3>4. ReadyUnlessRestarting'
      BY <2>2, <2>3, <3>1
    <3>5. FaultsFollow'
      BY <2>0, <2>3, <3>1, NoOneIsApart
    <3> QED BY <3>2, <3>3, <3>4, <3>5
  <2>4. CASE conn' = [gen |-> conn.gen + 1, process |-> "nil"]
    <3>1. at' = [at EXCEPT ![p] = "failed"] /\ unready' = unready \union {"spawn"}
          /\ writer' = writer
      BY <1>3, <2>4 DEF Respawn
    <3>2. McpTypeOK'
      BY <2>0, <2>1, <2>4, <3>1
    <3>3. LockIsHeldToInitialise' /\ ReadyUnlessRestarting'
      BY <2>2, <3>1
    <3>4. FaultsFollow'
      BY <2>0, <2>4, <3>1
    <3> QED BY <3>2, <3>3, <3>4
  <2>5. QED BY <1>3, <2>3, <2>4 DEF Respawn
<1>4. CASE ReinitOk(p)
  <2>1. writer = p /\ \A q \in Callers \ {p} : at[q] \notin {"init", "reinit"}
    BY <1>4 DEF ReinitOk
  <2>2. pipe' = NoOne
    BY <1>4 DEF ReinitOk, Initialise
  <2>3. QED BY <1>4, <2>1, <2>2, NoOneIsApart DEF ReinitOk
<1>5. CASE ReinitFails(p)
  <2>1. writer = p /\ \A q \in Callers \ {p} : at[q] \notin {"init", "reinit"}
    BY <1>5 DEF ReinitFails
  <2>2. pipe' \in Callers \union {NoOne, Ghost}
    BY <1>5 DEF ReinitFails, Initialise
  <2>3. QED BY <1>5, <2>1, <2>2, NoOneIsApart DEF ReinitFails
<1>6. QED BY <1>1, <1>2, <1>3, <1>4, <1>5

\* Every step keeps it.
LEMMA McpInvIsInductive == McpInv /\ [McpNext]_mcpVars => McpInv'
<1> SUFFICES ASSUME McpInv, [McpNext]_mcpVars PROVE McpInv'
  OBVIOUS
<1> USE McpAssumption DEF McpInv, McpTypeOK, LockIsHeldToInitialise, ReadyUnlessRestarting,
   FaultsFollow, Places
<1>1. CASE GhostEnds
  BY <1>1 DEF GhostEnds
<1>2. CASE ProcessDies
  BY <1>2 DEF ProcessDies
<1>3. CASE CloseClient
  BY <1>3 DEF CloseClient
<1>4. CASE UNCHANGED mcpVars
  BY <1>4 DEF mcpVars
<1>5. QED BY <1>1, <1>2, <1>3, <1>4, CallerKeepsMcpInv, SendKeepsMcpInv, RestartKeepsMcpInv
   DEF McpNext

\* For every set of callers: the lock upgrade of MCPClient.CallTool kills the
\* program, or loses the client's lock, only after a close, a spawn or an
\* initialisation failed. Until then a client is not ready only while one
\* caller restarts it, and that caller holds the lock.
THEOREM McpFaultsNeedAFailure == McpSpec => [](McpTypeOK /\ McpFaultsFollowAnUnreadyClient)
<1>1. McpInv => McpTypeOK /\ McpFaultsFollowAnUnreadyClient
  BY DEF McpInv, FaultsFollow, McpFaultsFollowAnUnreadyClient
<1>2. QED BY <1>1, McpInvInitially, McpInvIsInductive, PTL DEF McpSpec

=============================================================================
