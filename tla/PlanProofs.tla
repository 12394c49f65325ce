----------------------------- MODULE PlanProofs -----------------------------
(***************************************************************************)
(* The execution of plans, for every plan and every limit. The dispatcher: *)
(* a worker is given true results, a well-formed plan is never reported    *)
(* stuck, a complete dispatch ran every step, and the rounds implement     *)
(* TaskGraph. The pipeline around it: what the dispatcher guarantees it    *)
(* guarantees there, the answer has every result, and a fix-pass claims no *)
(* repair nobody checked.                                                  *)
(***************************************************************************)
EXTENDS Pipeline, FunctionTheorems, FiniteSetTheorems, SequenceTheorems, TLAPS

-----------------------------------------------------------------------------
(* Dispatcher: the rounds of a plan. *)

Finished == {i \in Positions : worker[i] = "finished"}

\* A step of the current round or of an earlier one.
Chosen(i) == i \in batch \/ worker[i] # "idle"

\* results, done and the workers that finished tell the same story.
Recorded ==
  /\ DOMAIN results = done
  /\ done = {plan[i].id : i \in Finished}
  /\ \A d \in done : results[d].step \in Positions /\ plan[results[d].step].id = d

\* Workers run in the launch phase only, for steps of the batch.
InRound ==
  /\ \A i \in Positions : worker[i] \in {"started", "working"} => i \in batch
  /\ pc # "launch" => batch = {}

\* What a chosen step depends on is done, so that no step of the current batch
\* has an id a chosen step depends on: its result cannot change any more.
Ordered ==
  \A i \in Positions : Chosen(i) =>
    /\ plan[i].deps \subseteq done
    /\ \A j \in batch : plan[j].id \notin plan[i].deps

DispatchInv ==
  /\ DispatchTypeOK
  /\ Recorded
  /\ InRound
  /\ Ordered
  /\ PriorsStayTrue

-----------------------------------------------------------------------------
(* The plan. *)

LEMMA PlanFacts ==
  ASSUME DispatchTypeOK
  PROVE  /\ plan \in Seq(Steps)
         /\ Positions = 1 .. Len(plan)
         /\ Len(plan) \in Nat
         /\ \A i \in Positions : plan[i] \in Steps
         /\ IsFiniteSet(Positions)
         /\ Cardinality(Positions) = Len(plan)
<1>1. plan \in Seq(Steps)
  BY DispatchAssumption DEF DispatchTypeOK
<1>2. Positions = 1 .. Len(plan) /\ Len(plan) \in Nat
  BY <1>1 DEF Positions
<1>3. \A i \in Positions : plan[i] \in Steps
  BY <1>1, <1>2
<1>4. IsFiniteSet(1 .. Len(plan)) /\ Cardinality(1 .. Len(plan)) = Len(plan)
  <2>1. /\ IsFiniteSet(1 .. Len(plan))
        /\ Cardinality(1 .. Len(plan)) = IF 1 > Len(plan) THEN 0 ELSE Len(plan) - 1 + 1
    <3>1. 1 \in Int /\ Len(plan) \in Int
      BY <1>2
    <3>2. QED BY ONLY <3>1, FS_Interval
  <2>2. QED BY <1>2, <2>1
<1>5. QED BY <1>1, <1>2, <1>3, <1>4

\* The counter of the breaker is a number.
LEMMA StallsAtNat ==
  ASSUME DispatchTypeOK, NEW k \in batch
  PROVE  StallsAt(k) \in Nat
<1> DEFINE upTo == {j \in batch : j <= k}
           streak == {j \in upTo : \A m \in upTo : j <= m => Stalled(m)}
<1>1. IsFiniteSet(Positions) /\ streak \in SUBSET Positions
  BY PlanFacts DEF DispatchTypeOK
<1>2. Cardinality(streak) \in Nat
  BY <1>1, FS_Subset, FS_CardinalityType
<1>3. stalls \in Nat
  BY DispatchAssumption DEF DispatchTypeOK
<1>4. StallsAt(k) = Cardinality(streak) + (IF streak = upTo THEN stalls ELSE 0)
  BY DEF StallsAt
<1>5. QED BY <1>2, <1>3, <1>4

-----------------------------------------------------------------------------
(* One step. *)

\* The step of a goroutine that records a result: RunSkill and Finish.
LEMMA RecordPreserves ==
  ASSUME DispatchInv, NEW i \in Positions, worker[i] \in {"started", "working"},
         worker[i] = "started" => plan[i].skill,
         NEW r \in Outputs(i), Record(i, r), UNCHANGED prior
  PROVE  DispatchInv'
<1> USE DEF DispatchInv
<1>1. i \in batch /\ pc = "launch"
  BY DEF InRound
<1>2. plan[i] \in Steps /\ plan[i].id \in Ids /\ IsFiniteSet(Positions)
  BY PlanFacts DEF Steps
<1>3. r \in Results /\ r.step = i
  <2>1. i \in Nat BY PlanFacts
  <2>2. QED BY <2>1 DEF Outputs, Results
<1>4. /\ plan' = plan /\ batch' = batch /\ stalls' = stalls /\ pc' = pc
      /\ outcome' = outcome /\ prior' = prior
      /\ done' = done \cup {plan[i].id}
      /\ worker' = [worker EXCEPT ![i] = "finished"]
      /\ DOMAIN results' = DOMAIN results \cup {plan[i].id}
      /\ \A d \in DOMAIN results' :
           results'[d] = IF d = plan[i].id THEN r ELSE results[d]
  BY DEF Record
<1>5. \A j \in Positions : worker'[j] = IF j = i THEN "finished" ELSE worker[j]
  BY <1>4 DEF DispatchTypeOK
<1>6. Positions' = Positions
  BY <1>4 DEF Positions
<1>7. DispatchTypeOK'
  <2>1. \A d \in DOMAIN results' : d \in Ids /\ results'[d] \in Results
    BY <1>2, <1>3, <1>4 DEF DispatchTypeOK
  <2>2. worker' \in [Positions -> WorkerPc]
    BY <1>4 DEF DispatchTypeOK, WorkerPc
  <2>3. QED BY <1>2, <1>4, <1>6, <2>1, <2>2 DEF DispatchTypeOK
<1>8. Recorded'
  <2>1. Finished' = Finished \cup {i}
    BY <1>5, <1>6 DEF Finished
  <2>2. done' = {plan[j].id : j \in Finished'}
    BY <1>4, <2>1 DEF Recorded
  <2>3. \A d \in done' : results'[d].step \in Positions /\ plan[results'[d].step].id = d
    BY <1>3, <1>4 DEF Recorded
  <2>4. DOMAIN results' = done'
    BY <1>4 DEF Recorded
  <2>5. done' = {plan'[j].id : j \in Finished'}
    BY <1>4, <2>2
  <2>6. \A d \in done' : results'[d].step \in Positions' /\ plan'[results'[d].step].id = d
    BY <1>4, <1>6, <2>3
  <2>7. QED BY <2>4, <2>5, <2>6 DEF Recorded
<1>9. InRound'
  BY <1>4, <1>5, <1>6 DEF InRound
<1>10. Ordered'
  <2>1. \A j \in Positions : Chosen(j)' => Chosen(j)
    BY <1>1, <1>4, <1>5 DEF Chosen
  <2>2. QED BY <1>4, <1>6, <2>1 DEF Ordered
<1>11. PriorsStayTrue'
  <2> SUFFICES ASSUME NEW j \in Positions,
                      worker'[j] = "working" \/ (worker'[j] = "finished" /\ ~plan[j].skill)
               PROVE  /\ DOMAIN prior[j] = plan[j].deps
                      /\ \A d \in plan[j].deps :
                           d \in DOMAIN results' /\ prior[j][d] = results'[d]
    BY <1>4, <1>6 DEF PriorsStayTrue
  <2>1. worker[j] = "working" \/ (worker[j] = "finished" /\ ~plan[j].skill)
    BY <1>5
  <2>2. /\ DOMAIN prior[j] = plan[j].deps
        /\ \A d \in plan[j].deps : d \in DOMAIN results /\ prior[j][d] = results[d]
    BY <2>1 DEF PriorsStayTrue
  <2>3. plan[i].id \notin plan[j].deps
    BY <1>1, <2>1 DEF Ordered, Chosen
  <2>4. QED BY <1>4, <2>2, <2>3
<1>12. QED BY <1>7, <1>8, <1>9, <1>10, <1>11

LEMMA SnapshotPreserves ==
  ASSUME DispatchInv, NEW i \in Positions, Snapshot(i)
  PROVE  DispatchInv'
<1> USE DEF DispatchInv
<1>1. /\ plan' = plan /\ batch' = batch /\ stalls' = stalls /\ pc' = pc
      /\ outcome' = outcome /\ done' = done /\ results' = results
      /\ worker[i] = "started"
      /\ worker' = [worker EXCEPT ![i] = "working"]
      /\ prior' = [prior EXCEPT ![i] =
                     [d \in plan[i].deps \cap DOMAIN results |-> results[d]]]
  BY DEF Snapshot
<1>2. \A j \in Positions : worker'[j] = IF j = i THEN "working" ELSE worker[j]
  BY <1>1 DEF DispatchTypeOK
<1>3. Positions' = Positions
  BY <1>1 DEF Positions
<1>4. plan[i].deps \subseteq DOMAIN results
  BY <1>1 DEF Ordered, Chosen, Recorded
<1>5. /\ DOMAIN prior' = Positions
      /\ \A j \in Positions :
           prior'[j] = IF j = i THEN [d \in plan[i].deps |-> results[d]] ELSE prior[j]
  <2>1. plan[i].deps \cap DOMAIN results = plan[i].deps
    BY <1>4
  <2>2. QED BY <1>1, <2>1 DEF DispatchTypeOK
<1>6. DispatchTypeOK'
  <2>1. worker' \in [Positions -> WorkerPc]
    BY <1>1 DEF DispatchTypeOK, WorkerPc
  <2>2. \A j \in Positions : DOMAIN prior'[j] \subseteq Ids
    BY <1>4, <1>5 DEF DispatchTypeOK
  <2>3. QED BY <1>1, <1>3, <1>5, <2>1, <2>2 DEF DispatchTypeOK
<1>7. Recorded'
  <2>1. Finished' = Finished
    BY <1>1, <1>2, <1>3 DEF Finished
  <2>2. QED BY <1>1, <1>3, <2>1 DEF Recorded
<1>8. InRound'
  BY <1>1, <1>2, <1>3 DEF InRound
<1>9. Ordered'
  <2>1. \A j \in Positions : Chosen(j)' => Chosen(j)
    BY <1>1, <1>2 DEF Chosen
  <2>2. QED BY <1>1, <1>3, <2>1 DEF Ordered
<1>10. PriorsStayTrue'
  <2> SUFFICES ASSUME NEW j \in Positions,
                      worker'[j] = "working" \/ (worker'[j] = "finished" /\ ~plan[j].skill)
               PROVE  /\ DOMAIN prior'[j] = plan[j].deps
                      /\ \A d \in plan[j].deps :
                           d \in DOMAIN results /\ prior'[j][d] = results[d]
    <3>1. plan' = plan /\ results' = results
      BY <1>1
    <3>2. QED BY <3>1, <1>3 DEF PriorsStayTrue
  <2>1. CASE j = i
    BY <2>1, <1>4, <1>5
  <2>2. CASE j # i
    BY <2>2, <1>2, <1>5 DEF PriorsStayTrue
  <2>3. QED BY <2>1, <2>2
<1>11. QED BY <1>6, <1>7, <1>8, <1>9, <1>10

LEMMA LaunchPreserves ==
  ASSUME DispatchInv, NEW i \in Positions, Launch(i)
  PROVE  DispatchInv'
<1> USE DEF DispatchInv
<1>1. /\ plan' = plan /\ batch' = batch /\ stalls' = stalls /\ pc' = pc
      /\ outcome' = outcome /\ done' = done /\ results' = results /\ prior' = prior
      /\ i \in batch /\ worker[i] = "idle"
      /\ worker' = [worker EXCEPT ![i] = "started"]
  BY DEF Launch, Idle
<1>2. \A j \in Positions : worker'[j] = IF j = i THEN "started" ELSE worker[j]
  BY <1>1 DEF DispatchTypeOK
<1>3. Positions' = Positions
  BY <1>1 DEF Positions
<1>4. DispatchTypeOK'
  <2>1. worker' \in [Positions -> WorkerPc]
    BY <1>1 DEF DispatchTypeOK, WorkerPc
  <2>2. QED BY <1>1, <1>3, <2>1 DEF DispatchTypeOK
<1>5. Recorded'
  <2>1. Finished' = Finished
    BY <1>1, <1>2, <1>3 DEF Finished
  <2>2. QED BY <1>1, <1>3, <2>1 DEF Recorded
<1>6. InRound'
  BY <1>1, <1>2, <1>3 DEF InRound
<1>7. Ordered'
  <2>1. \A j \in Positions : Chosen(j)' => Chosen(j)
    BY <1>1, <1>2 DEF Chosen
  <2>2. QED BY <1>1, <1>3, <2>1 DEF Ordered
<1>8. PriorsStayTrue'
  BY <1>1, <1>2, <1>3 DEF PriorsStayTrue
<1>9. QED BY <1>4, <1>5, <1>6, <1>7, <1>8

LEMMA NextBatchPreserves ==
  ASSUME DispatchInv, NextBatch
  PROVE  DispatchInv'
<1> USE DEF DispatchInv
<1>1. /\ plan' = plan /\ worker' = worker /\ stalls' = stalls /\ pc' = "launch"
      /\ outcome' = outcome /\ done' = done /\ results' = results /\ prior' = prior
      /\ batch' = Eligible /\ batch = {}
  BY DEF NextBatch, InRound
<1>2. Positions' = Positions
  BY <1>1 DEF Positions
<1>3. DispatchTypeOK'
  BY <1>1, <1>2 DEF DispatchTypeOK, Eligible, DispatcherPc
<1>4. Recorded'
  BY <1>1, <1>2 DEF Recorded, Finished
<1>5. InRound'
  BY <1>1, <1>2 DEF InRound
<1>6. Ordered'
  <2> SUFFICES ASSUME NEW i \in Positions, Chosen(i)'
               PROVE  /\ plan[i].deps \subseteq done
                      /\ \A j \in Eligible : plan[j].id \notin plan[i].deps
    BY <1>1, <1>2 DEF Ordered
  <2>1. plan[i].deps \subseteq done
    BY <1>1 DEF Chosen, Ordered, Eligible, AllDepsDone
  <2>2. QED BY <2>1 DEF Eligible
<1>7. PriorsStayTrue'
  BY <1>1, <1>2 DEF PriorsStayTrue
<1>8. QED BY <1>3, <1>4, <1>5, <1>6, <1>7

\* Stuck, Complete and Join leave the workers and the results alone.
LEMMA ReturnPreserves ==
  ASSUME DispatchInv, pc' \in DispatcherPc, pc' # "launch", outcome' \in Outcomes,
         stalls' \in 0 .. MaxStalls - 1, batch' = {},
         \A i \in batch : worker[i] = "finished",
         UNCHANGED <<plan, done, results, worker, prior>>
  PROVE  DispatchInv'
<1> USE DEF DispatchInv
<1>1. Positions' = Positions
  BY DEF Positions
<1>2. DispatchTypeOK'
  BY <1>1 DEF DispatchTypeOK
<1>3. Recorded'
  BY <1>1 DEF Recorded, Finished
<1>4. InRound'
  BY <1>1 DEF InRound
<1>5. Ordered'
  BY <1>1 DEF Ordered, Chosen
<1>6. PriorsStayTrue'
  BY <1>1 DEF PriorsStayTrue
<1>7. QED BY <1>2, <1>3, <1>4, <1>5, <1>6

LEMMA JoinPreserves ==
  ASSUME DispatchInv, Join
  PROVE  DispatchInv'
<1>1. /\ \A i \in batch : worker[i] = "finished"
      /\ batch' = {}
      /\ UNCHANGED <<plan, done, results, worker, prior>>
  BY DEF Join
<1>2. CASE ReturnWith("tripped") /\ UNCHANGED stalls
  <2>1. pc' = "returned" /\ outcome' = "tripped"
    BY <1>2 DEF ReturnWith
  <2>2. stalls' \in 0 .. MaxStalls - 1
    BY <1>2 DEF DispatchInv, DispatchTypeOK
  <2>3. QED BY <1>1, <2>1, <2>2, ReturnPreserves DEF DispatcherPc, Outcomes
<1>3. CASE /\ \A k \in batch : StallsAt(k) < MaxStalls
           /\ \E k \in batch : stalls' = StallsAt(k)
           /\ pc' = "select"
           /\ UNCHANGED outcome
  <2>1. stalls' \in 0 .. MaxStalls - 1
    BY <1>3, StallsAtNat, DispatchAssumption DEF DispatchInv
  <2>2. outcome' \in Outcomes
    BY <1>3 DEF DispatchInv, DispatchTypeOK
  <2>3. QED BY <1>1, <1>3, <2>1, <2>2, ReturnPreserves DEF DispatcherPc
<1>4. QED BY <1>2, <1>3 DEF Join

LEMMA Inductive == DispatchInv /\ [DispatchNext]_dispatchVars => DispatchInv'
<1> SUFFICES ASSUME DispatchInv, [DispatchNext]_dispatchVars PROVE DispatchInv'
  OBVIOUS
<1>1. CASE NextBatch
  BY <1>1, NextBatchPreserves
<1>2. CASE Stuck \/ Complete
  <2>1. /\ pc = "select" /\ pc' = "returned" /\ outcome' \in {"stuck", "complete"}
        /\ UNCHANGED <<plan, done, results, batch, worker, prior, stalls>>
    BY <1>2 DEF Stuck, Complete, ReturnWith
  <2>2. batch = {} /\ stalls \in 0 .. MaxStalls - 1
    BY <2>1 DEF DispatchInv, InRound, DispatchTypeOK
  <2>3. QED BY <2>1, <2>2, ReturnPreserves DEF DispatcherPc, Outcomes
<1>3. ASSUME NEW i \in Positions, Launch(i) PROVE DispatchInv'
  BY <1>3, LaunchPreserves
<1>4. CASE Join
  BY <1>4, JoinPreserves
<1>5. ASSUME NEW i \in Positions, RunSkill(i) PROVE DispatchInv'
  BY <1>5, RecordPreserves DEF RunSkill
<1>6. ASSUME NEW i \in Positions, Snapshot(i) PROVE DispatchInv'
  BY <1>6, SnapshotPreserves
<1>7. ASSUME NEW i \in Positions, Finish(i) PROVE DispatchInv'
  BY <1>7, RecordPreserves DEF Finish
<1>8. CASE UNCHANGED dispatchVars
  BY <1>8 DEF dispatchVars, DispatchInv, DispatchTypeOK, Recorded, Finished, InRound,
              Ordered, Chosen, PriorsStayTrue, Positions
<1>9. QED
  BY <1>1, <1>2, <1>3, <1>4, <1>5, <1>6, <1>7, <1>8
     DEF DispatchNext, DispatcherStep, WorkerStep

LEMMA Initial == DispatchInit => DispatchInv
<1> SUFFICES ASSUME DispatchInit PROVE DispatchInv
  OBVIOUS
<1>1. /\ plan \in Plans /\ done = {} /\ batch = {} /\ stalls = 0 /\ pc = "select"
      /\ outcome = "none"
      /\ worker = [i \in Positions |-> "idle"]
      /\ prior = [i \in Positions |-> NoResults]
      /\ results = NoResults /\ DOMAIN results = {}
  BY DEF DispatchInit, BeforeRounds, Positions, NoResults
<1>2. DispatchTypeOK
  BY <1>1, DispatchAssumption DEF DispatchTypeOK, NoResults, WorkerPc, DispatcherPc, Outcomes
<1>3. Recorded
  <2>1. Finished = {}
    BY <1>1 DEF Finished
  <2>2. QED BY <1>1, <2>1 DEF Recorded
<1>4. InRound /\ Ordered /\ PriorsStayTrue
  BY <1>1 DEF InRound, Ordered, Chosen, PriorsStayTrue
<1>5. QED BY <1>2, <1>3, <1>4 DEF DispatchInv

THEOREM DispatchInvariant == DispatchSpec => []DispatchInv
BY Initial, Inductive, PTL DEF DispatchSpec

\* The variables keep their types; in particular the counter of the breaker stays
\* below its limit between rounds.
THEOREM DispatchTypes == DispatchSpec => []DispatchTypeOK
<1>1. DispatchInv => DispatchTypeOK
  BY DEF DispatchInv
<1>2. QED BY <1>1, DispatchInvariant, PTL

\* Workers are given the results of all their dependencies, and these results
\* are final.
THEOREM TruePriors == DispatchSpec => []PriorsStayTrue
<1>1. DispatchInv => PriorsStayTrue
  BY DEF DispatchInv
<1>2. QED BY <1>1, DispatchInvariant, PTL

-----------------------------------------------------------------------------
(* How the dispatch ends. *)

\* The ids of the steps that ran are as many as the steps that ran, or fewer;
\* as many only if they differ.
LEMMA DoneIsCounted ==
  ASSUME DispatchInv
  PROVE  /\ IsFiniteSet(Finished) /\ IsFiniteSet(done)
         /\ Cardinality(Finished) \in Nat /\ Cardinality(done) \in Nat
         /\ Cardinality(done) <= Cardinality(Finished)
         /\ Cardinality(Finished) <= Len(plan)
         /\ Cardinality(Finished) = Len(plan) => Finished = Positions
         /\ Cardinality(done) = Cardinality(Finished) =>
              \A i, j \in Finished : plan[i].id = plan[j].id => i = j
<1> DEFINE g == [i \in Finished |-> plan[i].id]
<1>1. /\ IsFiniteSet(Positions) /\ Cardinality(Positions) = Len(plan)
      /\ Finished \in SUBSET Positions
  BY PlanFacts DEF DispatchInv, Finished
<1>2. /\ IsFiniteSet(Finished)
      /\ Cardinality(Finished) <= Len(plan)
      /\ Cardinality(Finished) = Len(plan) => Finished = Positions
  BY <1>1, FS_Subset
<1>3. g \in Surjection(Finished, done)
  BY DEF Surjection, DispatchInv, Recorded
<1>4. /\ IsFiniteSet(done) /\ Cardinality(done) <= Cardinality(Finished)
      /\ Cardinality(done) = Cardinality(Finished) <=> g \in Injection(Finished, done)
  BY <1>2, <1>3, FS_Surjection
<1>5. g \in Injection(Finished, done) =>
        \A i, j \in Finished : plan[i].id = plan[j].id => i = j
  <2> SUFFICES ASSUME g \in Injection(Finished, done),
                      NEW i \in Finished, NEW j \in Finished, plan[i].id = plan[j].id
               PROVE  i = j
    OBVIOUS
  <2>1. g[i] = g[j]
    OBVIOUS
  <2> HIDE DEF g
  <2>2. QED BY <2>1, Fun_InjectionProperties
<1>6. Cardinality(Finished) \in Nat /\ Cardinality(done) \in Nat
  BY <1>2, <1>4, FS_CardinalityType
<1>7. QED BY <1>2, <1>4, <1>5, <1>6

LEMMA StuckIsMalformed ==
  ASSUME DispatchInv, Stuck
  PROVE  ~WellFormed(plan)
<1> SUFFICES ASSUME WellFormed(plan) PROVE FALSE
  OBVIOUS
<1> DEFINE left == {i \in Positions : plan[i].id \notin done}
<1>1. Positions = DOMAIN plan
  BY DEF Positions
<1>2. left # {}
  <2> SUFFICES ASSUME \A i \in Positions : plan[i].id \in done PROVE FALSE
    OBVIOUS
  <2> DEFINE f == [i \in Positions |-> plan[i].id]
  <2>1. f \in Injection(Positions, done)
    <3>1. f \in [Positions -> done]
      OBVIOUS
    <3>2. \A i, j \in Positions : f[i] = f[j] => i = j
      BY <1>1 DEF WellFormed
    <3> HIDE DEF f
    <3>3. QED BY <3>1, <3>2, Fun_IsInj
  <2>2. Cardinality(Positions) <= Cardinality(done)
    BY <2>1, DoneIsCounted, FS_Injection
  <2>3. Cardinality(Positions) = Len(plan) /\ Len(plan) \in Nat /\ Cardinality(done) \in Nat
    BY DoneIsCounted, PlanFacts DEF DispatchInv
  <2>4. Cardinality(done) < Len(plan)
    BY DEF Stuck, MoreToDo
  <2>5. QED BY <2>2, <2>3, <2>4
<1>3. PICK i \in left : \A j \in left : plan[j].id \notin plan[i].deps
  <2>1. left \in SUBSET DOMAIN plan
    BY <1>1
  <2>2. QED BY <1>2, <2>1 DEF WellFormed
<1>4. PICK d \in plan[i].deps : d \notin done
  BY DEF Stuck, Eligible, AllDepsDone
<1>5. PICK j \in Positions : plan[j].id = d
  BY <1>1, <1>4 DEF WellFormed
<1>6. QED BY <1>3, <1>4, <1>5

LEMMA CompleteIsAll ==
  ASSUME DispatchInv, Complete
  PROVE  \A i \in Positions : /\ worker[i] = "finished"
                              /\ plan[i].id \in DOMAIN results
                              /\ results[plan[i].id].step = i
<1>1. Len(plan) <= Cardinality(done)
  <2>1. Len(plan) \in Nat /\ Cardinality(done) \in Nat
    BY DoneIsCounted, PlanFacts DEF DispatchInv
  <2>2. QED BY <2>1 DEF Complete, MoreToDo
<1>2. Cardinality(Finished) = Len(plan) /\ Cardinality(done) = Cardinality(Finished)
  BY <1>1, DoneIsCounted, PlanFacts DEF DispatchInv
<1>3. Finished = Positions
  BY <1>2, DoneIsCounted
<1>4. \A i, j \in Positions : plan[i].id = plan[j].id => i = j
  BY <1>2, <1>3, DoneIsCounted
<1>5. \A i \in Positions : worker[i] = "finished" /\ plan[i].id \in done
  BY <1>3 DEF Finished, DispatchInv, Recorded
<1>6. QED BY <1>4, <1>5 DEF DispatchInv, Recorded

EndInv ==
  /\ outcome # "none" => pc = "returned"
  /\ StuckMeansMalformed
  /\ CompleteMeansAll

\* Nothing moves once executeWorkers has returned.
LEMMA ReturnedIsFinal ==
  ASSUME DispatchInv, pc = "returned", [DispatchNext]_dispatchVars
  PROVE  UNCHANGED dispatchVars
<1>1. \A i \in Positions : worker[i] \notin {"started", "working"}
  BY DEF DispatchInv, InRound
<1>2. ~DispatcherStep
  BY DEF DispatcherStep, NextBatch, Stuck, Complete, Launch, Join
<1>3. ~(\E i \in Positions : WorkerStep(i))
  BY <1>1 DEF WorkerStep, RunSkill, Snapshot, Finish
<1>4. QED BY <1>2, <1>3 DEF DispatchNext

LEMMA EndIsInductive == DispatchInv /\ EndInv /\ [DispatchNext]_dispatchVars => EndInv'
<1> SUFFICES ASSUME DispatchInv, EndInv, [DispatchNext]_dispatchVars PROVE EndInv'
  OBVIOUS
<1>1. CASE Stuck
  <2>1. outcome' = "stuck" /\ pc' = "returned" /\ plan' = plan
    BY <1>1 DEF Stuck, ReturnWith
  <2>2. ~WellFormed(plan)
    BY <1>1, StuckIsMalformed
  <2>3. ~WellFormed(plan')
    BY <2>1, <2>2
  <2>4. QED BY <2>1, <2>3 DEF EndInv, StuckMeansMalformed, CompleteMeansAll
<1>2. CASE Complete
  <2>1. /\ outcome' = "complete" /\ pc' = "returned"
        /\ plan' = plan /\ worker' = worker /\ results' = results
    BY <1>2 DEF Complete, ReturnWith
  <2>2. CompleteMeansAll'
    BY <1>2, <2>1, CompleteIsAll DEF CompleteMeansAll, Positions
  <2>3. QED BY <2>1, <2>2 DEF EndInv, StuckMeansMalformed
<1>3. CASE UNCHANGED dispatchVars
  BY <1>3 DEF dispatchVars, EndInv, StuckMeansMalformed, WellFormed, CompleteMeansAll, Positions
<1>4. CASE Join
  <2>1. \/ outcome' = "tripped" /\ pc' = "returned"
        \/ outcome' = outcome /\ pc' = "select" /\ pc = "launch"
    BY <1>4 DEF Join, ReturnWith
  <2>2. QED BY <2>1 DEF EndInv, StuckMeansMalformed, CompleteMeansAll
<1>5. CASE \/ NextBatch
           \/ \E i \in Positions : Launch(i) \/ WorkerStep(i)
  <2>1. outcome' = outcome /\ pc # "returned"
    BY <1>5 DEF NextBatch, Launch, WorkerStep, RunSkill, Snapshot, Finish, Record,
                DispatchInv, InRound
  <2>2. QED BY <2>1 DEF EndInv, StuckMeansMalformed, CompleteMeansAll
<1>6. QED
  BY <1>1, <1>2, <1>3, <1>4, <1>5 DEF DispatchNext, DispatcherStep

LEMMA EndInvariant == DispatchSpec => []EndInv
<1>1. DispatchInit => EndInv
  BY DEF DispatchInit, BeforeRounds, EndInv, StuckMeansMalformed, CompleteMeansAll
<1>2. QED BY <1>1, EndIsInductive, DispatchInvariant, PTL DEF DispatchSpec

\* A plan whose steps are numbered apart and whose dependencies exist and have no
\* cycle is never reported stuck.
THEOREM StuckOnlyIfMalformed == DispatchSpec => []StuckMeansMalformed
<1>1. EndInv => StuckMeansMalformed
  BY DEF EndInv
<1>2. QED BY <1>1, EndInvariant, PTL

\* A dispatch that ends without an error or a trip has run every step and has the
\* result of each, by the pigeonhole principle on ids.
THEOREM CompleteRanAll == DispatchSpec => []CompleteMeansAll
<1>1. EndInv => CompleteMeansAll
  BY DEF EndInv
<1>2. QED BY <1>1, EndInvariant, PTL

-----------------------------------------------------------------------------
(* The rounds implement the graph. *)

LEMMA GraphInit == DispatchInit => Graph!Init
<1> SUFFICES ASSUME DispatchInit PROVE Graph!Init
  OBVIOUS
<1>1. /\ plan \in Plans /\ pc = "select"
      /\ \A i \in Positions : worker[i] = "idle"
  BY DEF DispatchInit, BeforeRounds, Positions
<1>2. Busy = {} /\ {i \in Positions : worker[i] = "finished"} = {}
  BY <1>1 DEF Busy
<1>3. QED BY <1>1, <1>2 DEF Graph!Init

\* A goroutine that records is a step of the graph that finishes.
LEMMA RecordFinishes ==
  ASSUME DispatchInv, NEW i \in Positions, worker[i] \in {"started", "working"},
         NEW r \in Outputs(i), Record(i, r)
  PROVE  Graph!Finish(i)
<1>1. /\ plan' = plan /\ pc' = pc
      /\ worker' = [worker EXCEPT ![i] = "finished"]
  BY DEF Record
<1>2. \A j \in Positions : worker'[j] = IF j = i THEN "finished" ELSE worker[j]
  BY <1>1 DEF DispatchInv, DispatchTypeOK
<1>3. Positions' = Positions
  BY <1>1 DEF Positions
<1>4. Busy' = Busy \ {i} /\ i \in Busy
  BY <1>2, <1>3 DEF Busy
<1>5. Finished' = Finished \cup {i}
  BY <1>2, <1>3 DEF Finished
<1>6. QED BY <1>1, <1>4, <1>5 DEF Graph!Finish, Finished

LEMMA LaunchStarts ==
  ASSUME DispatchInv, NEW i \in Positions, Launch(i)
  PROVE  Graph!Start(i)
<1>1. /\ plan' = plan /\ pc' = pc /\ pc # "returned"
      /\ i \in batch /\ worker[i] = "idle"
      /\ worker' = [worker EXCEPT ![i] = "started"]
      /\ Cardinality(Busy) < MaxParallel
  BY DEF Launch, Idle
<1>2. \A j \in Positions : worker'[j] = IF j = i THEN "started" ELSE worker[j]
  BY <1>1 DEF DispatchInv, DispatchTypeOK
<1>3. Positions' = Positions
  BY <1>1 DEF Positions
<1>4. Busy' = Busy \cup {i} /\ i \notin Busy
  BY <1>1, <1>2, <1>3 DEF Busy
<1>5. Finished' = Finished /\ i \notin Finished
  BY <1>1, <1>2, <1>3 DEF Finished
<1>6. plan[i].deps \subseteq {plan[j].id : j \in Finished}
  BY <1>1 DEF DispatchInv, Ordered, Chosen, Recorded
<1>7. Graph!Cardinality(Busy) = Cardinality(Busy)
  BY DEF Graph!Cardinality, Cardinality
<1>8. QED BY <1>1, <1>4, <1>5, <1>6, <1>7 DEF Graph!Start, Graph!Provided, Finished

LEMMA GraphStep ==
  DispatchInv /\ [DispatchNext]_dispatchVars => [Graph!Next]_Graph!graphVars
<1> SUFFICES ASSUME DispatchInv, [DispatchNext]_dispatchVars
             PROVE  [Graph!Next]_Graph!graphVars
  OBVIOUS
<1>1. ASSUME NEW i \in Positions, Launch(i) PROVE Graph!Next
  BY <1>1, LaunchStarts DEF Graph!Next, Positions
<1>2. ASSUME NEW i \in Positions, RunSkill(i) \/ Finish(i) PROVE Graph!Next
  <2>1. PICK r \in Outputs(i) : Record(i, r)
    BY <1>2 DEF RunSkill, Finish
  <2>2. worker[i] \in {"started", "working"}
    BY <1>2 DEF RunSkill, Finish
  <2>3. QED BY <2>1, <2>2, RecordFinishes DEF Graph!Next, Positions
<1>3. ASSUME NEW i \in Positions, Snapshot(i) PROVE UNCHANGED Graph!graphVars
  <2>1. /\ plan' = plan /\ pc' = pc /\ worker[i] = "started"
        /\ worker' = [worker EXCEPT ![i] = "working"]
    BY <1>3 DEF Snapshot
  <2>2. \A j \in Positions : worker'[j] = IF j = i THEN "working" ELSE worker[j]
    BY <2>1 DEF DispatchInv, DispatchTypeOK
  <2>3. Positions' = Positions
    BY <2>1 DEF Positions
  <2>4. Busy' = Busy
    BY <2>1, <2>2, <2>3 DEF Busy
  <2>5. Finished' = Finished
    BY <2>1, <2>2, <2>3 DEF Finished
  <2>6. QED BY <2>1, <2>4, <2>5 DEF Graph!graphVars, Finished
<1>4. CASE NextBatch \/ UNCHANGED dispatchVars
  <2>1. plan' = plan /\ worker' = worker /\ (pc' = "returned") = (pc = "returned")
    BY <1>4 DEF NextBatch, dispatchVars
  <2>2. QED BY <2>1 DEF Graph!graphVars, Busy, Positions
<1>5. CASE Stuck \/ Complete \/ Join
  <2>1. plan' = plan /\ worker' = worker
    BY <1>5 DEF Stuck, Complete, Join
  <2>2. Busy = {}
    <3>1. \A i \in batch : worker[i] = "finished"
      BY <1>5 DEF Stuck, Complete, Join, DispatchInv, InRound
    <3>2. QED BY <3>1 DEF Busy, DispatchInv, InRound
  <2>3. Busy' = Busy /\ Finished' = Finished
    BY <2>1 DEF Busy, Finished, Positions
  <2>4. pc' = "returned" \/ (pc # "returned" /\ pc' = "select")
    BY <1>5 DEF Stuck, Complete, Join, ReturnWith
  <2>5. CASE pc' = "returned"
    BY <2>1, <2>2, <2>3, <2>5 DEF Graph!Next, Graph!Close, Finished
  <2>6. CASE pc # "returned" /\ pc' = "select"
    BY <2>1, <2>3, <2>6 DEF Graph!graphVars, Finished
  <2>7. QED BY <2>4, <2>5, <2>6
<1>6. QED
  BY <1>1, <1>2, <1>3, <1>4, <1>5 DEF DispatchNext, DispatcherStep, WorkerStep

\* The dispatcher implements the plan's graph.
THEOREM DispatcherImplementsGraph == DispatchSpec => ImplementsGraph
BY GraphInit, GraphStep, DispatchInvariant, PTL
   DEF DispatchSpec, ImplementsGraph, Graph!Spec

\* The steps of the earlier rounds.
Earlier == {i \in Positions : worker[i] = "finished" /\ i \notin batch}

\* No step of the round has the id of an earlier one: what the counter has
\* counted cannot change.
BatchIsFresh == \A i \in Earlier, j \in batch : plan[i].id # plan[j].id

\* The counter counts the earlier steps as long as none made progress.
StallsCounted ==
  pc # "returned" /\ (\A i \in Earlier : Stalled(i)) => stalls = Cardinality(Earlier)

StallInv == BatchIsFresh /\ StallsCounted

\* A step of the dispatch that leaves the earlier steps and their results.
LEMMA SameEarlier ==
  ASSUME StallInv, Earlier' = Earlier, stalls' = stalls, plan' = plan, batch' = batch,
         pc # "returned" \/ pc' = "returned",
         \A i \in Earlier : results'[plan[i].id] = results[plan[i].id]
  PROVE  StallInv'
<1>1. BatchIsFresh'
  BY DEF StallInv, BatchIsFresh
<1>2. \A i \in Earlier : Stalled(i)' <=> Stalled(i)
  BY DEF Stalled
<1>3. StallsCounted'
  BY <1>2 DEF StallInv, StallsCounted
<1>4. QED BY <1>1, <1>3 DEF StallInv

LEMMA RecordKeepsStallInv ==
  ASSUME DispatchInv, StallInv, NEW i \in Positions, worker[i] \in {"started", "working"},
         NEW r, Record(i, r)
  PROVE  StallInv'
<1>1. i \in batch /\ pc = "launch"
  BY DEF DispatchInv, InRound
<1>2. /\ plan' = plan /\ batch' = batch /\ stalls' = stalls /\ pc' = pc
      /\ worker' = [worker EXCEPT ![i] = "finished"]
      /\ \A d \in DOMAIN results : d # plan[i].id => results'[d] = results[d]
  BY DEF Record
<1>3. \A j \in Positions : j # i => worker'[j] = worker[j]
  BY <1>2 DEF DispatchInv, DispatchTypeOK
<1>4. Positions' = Positions
  BY <1>2 DEF Positions
<1>5. Earlier' = Earlier
  BY <1>1, <1>2, <1>3, <1>4 DEF Earlier
<1>6. \A j \in Earlier : plan[j].id \in DOMAIN results /\ plan[j].id # plan[i].id
  BY <1>1 DEF DispatchInv, Recorded, Finished, Earlier, StallInv, BatchIsFresh
<1>7. QED BY <1>1, <1>2, <1>5, <1>6, SameEarlier

LEMMA JoinKeepsStallInv ==
  ASSUME DispatchInv, StallInv, Join
  PROVE  StallInv'
<1>1. /\ \A i \in batch : worker[i] = "finished"
      /\ batch' = {} /\ plan' = plan /\ worker' = worker /\ results' = results
      /\ pc = "launch"
  BY DEF Join
<1>2. BatchIsFresh'
  BY <1>1 DEF BatchIsFresh
<1>3. CASE pc' = "returned"
  BY <1>2, <1>3 DEF StallInv, StallsCounted
<1>4. CASE pc' # "returned"
  <2>1. PICK k \in batch : (\A j \in batch : j <= k) /\ stalls' = StallsAt(k)
    BY <1>4 DEF Join, ReturnWith
  <2>2. Earlier' = Earlier \union batch /\ Earlier \intersect batch = {}
    BY <1>1 DEF Earlier, Positions, DispatchInv, DispatchTypeOK
  <2>3. IsFiniteSet(Positions) /\ Earlier \subseteq Positions /\ batch \subseteq Positions
    BY PlanFacts DEF Earlier, DispatchInv, DispatchTypeOK
  <2>4. IsFiniteSet(Earlier) /\ IsFiniteSet(batch)
    BY <2>3, FS_Subset
  <2>5. Cardinality(Earlier \union batch) = Cardinality(Earlier) + Cardinality(batch)
    <3>1. Cardinality({}) = 0
      BY FS_EmptySet
    <3>2. Cardinality(Earlier) \in Nat /\ Cardinality(batch) \in Nat
      BY <2>4, FS_CardinalityType
    <3>3. Cardinality(Earlier \union batch) =
            Cardinality(Earlier) + Cardinality(batch) - Cardinality(Earlier \intersect batch)
      BY <2>4, FS_Union
    <3>4. QED BY <2>2, <3>1, <3>2, <3>3
  <2>6. ASSUME \A i \in Earlier' : Stalled(i)'
        PROVE  stalls' = Cardinality(Earlier')
    <3>1. \A i \in Earlier \union batch : Stalled(i)
      BY <1>1, <2>2, <2>6 DEF Stalled
    <3>2. stalls = Cardinality(Earlier)
      BY <1>1, <3>1 DEF StallInv, StallsCounted
    <3> DEFINE upTo == {j \in batch : j <= k}
               streak == {j \in upTo : \A m \in upTo : j <= m => Stalled(m)}
    <3>3. upTo = batch
      BY <2>1
    <3>4. streak = batch
      BY <3>1, <3>3
    <3>5. StallsAt(k) = Cardinality(streak) + (IF streak = upTo THEN stalls ELSE 0)
      BY DEF StallsAt
    <3>6. StallsAt(k) = Cardinality(batch) + Cardinality(Earlier)
      <4> HIDE DEF upTo, streak
      <4>1. QED BY <3>2, <3>3, <3>4, <3>5
    <3>7. Cardinality(Earlier) \in Nat /\ Cardinality(batch) \in Nat
      BY <2>4, FS_CardinalityType
    <3>8. QED BY <2>1, <2>2, <2>5, <3>6, <3>7
  <2>7. QED BY <1>2, <2>6 DEF StallInv, StallsCounted
<1>5. QED BY <1>3, <1>4

\* Every step keeps it.
LEMMA StallInvIsInductive ==
  DispatchInv /\ StallInv /\ [DispatchNext]_dispatchVars => StallInv'
<1> SUFFICES ASSUME DispatchInv, StallInv, [DispatchNext]_dispatchVars PROVE StallInv'
  OBVIOUS
<1>1. CASE NextBatch
  <2>1. /\ plan' = plan /\ worker' = worker /\ stalls' = stalls /\ results' = results
        /\ pc = "select" /\ batch' = Eligible /\ batch = {}
    BY <1>1 DEF NextBatch, DispatchInv, InRound
  <2>2. \A i \in Positions : worker[i] = "finished" => plan[i].id \in done
    BY DEF DispatchInv, Recorded, Finished
  <2>3. Positions' = Positions
    BY <2>1 DEF Positions
  <2>4. Earlier' = Earlier
    BY <2>1, <2>2, <2>3 DEF Earlier, Eligible
  <2>5. BatchIsFresh'
    BY <2>1, <2>2, <2>4 DEF BatchIsFresh, Earlier, Eligible
  <2>6. \A i \in Earlier : Stalled(i)' <=> Stalled(i)
    BY <2>1 DEF Stalled
  <2>7. StallsCounted'
    BY <2>1, <2>4, <2>6 DEF StallInv, StallsCounted
  <2>8. QED BY <2>5, <2>7 DEF StallInv
<1>2. CASE Stuck \/ Complete
  <2>1. /\ pc' = "returned" /\ UNCHANGED <<plan, results, batch, worker, stalls>>
    BY <1>2 DEF Stuck, Complete, ReturnWith
  <2>2. Earlier' = Earlier
    BY <2>1 DEF Earlier, Positions
  <2>3. QED BY <2>1, <2>2, SameEarlier
<1>3. ASSUME NEW i \in Positions, Launch(i) \/ Snapshot(i) PROVE StallInv'
  <2>1. /\ UNCHANGED <<plan, results, batch, stalls, pc>> /\ pc # "returned"
        /\ worker[i] \in {"idle", "started"}
        /\ worker' = [worker EXCEPT ![i] = "started"] \/ worker' = [worker EXCEPT ![i] = "working"]
    BY <1>3 DEF Launch, Idle, Snapshot, DispatchInv, InRound
  <2>2. \A j \in Positions : worker'[j] = "finished" <=> worker[j] = "finished"
    BY <2>1 DEF DispatchInv, DispatchTypeOK
  <2>3. Positions' = Positions
    BY <2>1 DEF Positions
  <2>4. Earlier' = Earlier
    BY <2>1, <2>2, <2>3 DEF Earlier
  <2>5. QED BY <2>1, <2>4, SameEarlier
<1>4. CASE Join
  BY <1>4, JoinKeepsStallInv
<1>5. ASSUME NEW i \in Positions, RunSkill(i) \/ Finish(i) PROVE StallInv'
  BY <1>5, RecordKeepsStallInv DEF RunSkill, Finish
<1>6. CASE UNCHANGED dispatchVars
  <2>1. UNCHANGED <<plan, results, batch, worker, stalls, pc>>
    BY <1>6 DEF dispatchVars
  <2>2. Earlier' = Earlier
    BY <2>1 DEF Earlier, Positions
  <2>3. QED BY <2>1, <2>2, SameEarlier
<1>7. QED
  BY <1>1, <1>2, <1>3, <1>4, <1>5, <1>6 DEF DispatchNext, DispatcherStep, WorkerStep

\* The breaker of executeWorkers, for every plan and limit: with MaxStalls
\* steps run and none of them making progress no further round starts, even
\* if steps share an id.
THEOREM StallsStopTheTask == DispatchSpec => []StalledTaskStops
<1>1. DispatchInit => StallInv
  <2> SUFFICES ASSUME DispatchInit PROVE StallInv
    OBVIOUS
  <2>1. Earlier = {} /\ batch = {} /\ stalls = 0
    BY DEF Earlier, DispatchInit, BeforeRounds, Positions
  <2>2. Cardinality({}) = 0
    BY FS_EmptySet
  <2>3. QED BY <2>1, <2>2 DEF StallInv, BatchIsFresh, StallsCounted
<1>2. DispatchInv /\ StallInv => StalledTaskStops
  <2> SUFFICES ASSUME DispatchInv, StallInv, pc # "returned", batch = {},
                      \A i \in Finished : Stalled(i)
               PROVE  Cardinality(Finished) < MaxStalls
    BY DEF StalledTaskStops, Finished
  <2>1. Earlier = Finished
    BY DEF Earlier, Finished
  <2>2. stalls = Cardinality(Finished)
    BY <2>1 DEF StallInv, StallsCounted
  <2>3. QED BY <2>2, DispatchAssumption DEF DispatchInv, DispatchTypeOK
<1>3. QED BY <1>1, <1>2, DispatchInvariant, StallInvIsInductive, PTL DEF DispatchSpec

-----------------------------------------------------------------------------
(* Pipeline: what surrounds a dispatch. *)

\* A dispatch happens in its phase, and then the report has its results.
Staged ==
  /\ stage = "plan" => \A i \in Positions : worker[i] = "idle"
  /\ stage \in {"fix", "synthesize"} => pc = "returned" /\ done \subseteq DOMAIN report
  /\ stage = "returned" =>
       \/ \A i \in Positions : worker[i] = "idle"
       \/ pc = "returned" /\ done \subseteq DOMAIN report

Claimed ==
  /\ claim => stage \in {"synthesize", "returned"}
  /\ FixClaimIsEarned

-----------------------------------------------------------------------------

LEMMA PipelineRunsDispatcher == Spec => DispatchSpec
<1>1. Init => DispatchInit
  BY PipelineAssumption DEF Init, DispatchInit
<1>2. [Next]_vars => [DispatchNext]_dispatchVars
  BY DEF Next, vars, AnswerWithoutPlan, StartDispatch, Dispatch, TakeResults, FixPass,
         EndFixing, Synthesize
<1>3. QED BY <1>1, <1>2, PTL DEF Spec, DispatchSpec

LEMMA MergedDomain ==
  ASSUME NEW map, NEW out
  PROVE  DOMAIN map \subseteq DOMAIN Merged(map, out)
BY DEF Merged

LEMMA StagedIsInductive == DispatchInv /\ Staged /\ [Next]_vars => Staged'
<1> SUFFICES ASSUME DispatchInv, Staged, [Next]_vars PROVE Staged'
  OBVIOUS
<1>1. CASE AnswerWithoutPlan
  BY <1>1 DEF AnswerWithoutPlan, ReturnAnswer, Staged, dispatchVars, Positions
<1>2. CASE StartDispatch
  BY <1>2 DEF StartDispatch, Staged
<1>3. CASE Dispatch
  BY <1>3 DEF Dispatch, pipelineVars, Staged
<1>4. CASE TakeResults
  BY <1>4 DEF TakeResults, Staged, dispatchVars, DispatchInv, Recorded
<1>5. CASE FixPass
  <2>1. PICK out \in Redone : report' = Merged(report, out)
    BY <1>5 DEF FixPass
  <2>2. /\ stage = "fix" /\ stage' \in {"fix", "synthesize"}
        /\ pc' = pc /\ done' = done
    BY <1>5 DEF FixPass, dispatchVars
  <2>3. DOMAIN report \subseteq DOMAIN report'
    BY <2>1, MergedDomain
  <2>4. QED BY <2>2, <2>3 DEF Staged
<1>6. CASE EndFixing
  BY <1>6 DEF EndFixing, Staged, dispatchVars
<1>7. CASE Synthesize
  BY <1>7 DEF Synthesize, ReturnAnswer, Staged, dispatchVars
<1>8. CASE UNCHANGED vars
  BY <1>8 DEF vars, dispatchVars, pipelineVars, Staged, Positions
<1>9. QED BY <1>1, <1>2, <1>3, <1>4, <1>5, <1>6, <1>7, <1>8 DEF Next

\* No result of a worker that ran is missing when the answer is composed, however
\* the dispatch ended and whatever the fix-passes did.
THEOREM AnswerIsWhole == Spec => []AnswerHasEveryResult
<1>1. Init => Staged
  BY DEF Init, BeforeRounds, Staged, Positions
<1>2. DispatchInv /\ Staged => AnswerHasEveryResult
  <2> SUFFICES ASSUME DispatchInv, Staged, stage \in {"synthesize", "returned"},
                      NEW i \in Positions
               PROVE  /\ worker[i] \in {"idle", "finished"}
                      /\ worker[i] = "finished" => plan[i].id \in DOMAIN report
    BY DEF AnswerHasEveryResult
  <2>1. worker[i] \in WorkerPc
    BY DEF DispatchInv, DispatchTypeOK
  <2>2. CASE pc = "returned" /\ done \subseteq DOMAIN report
    <3>1. worker[i] \notin {"started", "working"}
      BY <2>2 DEF DispatchInv, InRound
    <3>2. worker[i] = "finished" => plan[i].id \in done
      BY DEF DispatchInv, Recorded, Finished
    <3>3. QED BY <2>1, <2>2, <3>1, <3>2 DEF WorkerPc
  <2>3. CASE worker[i] = "idle"
    BY <2>3
  <2>4. QED BY <2>2, <2>3 DEF Staged
<1>3. Spec => []DispatchInv
  BY PipelineRunsDispatcher, DispatchInvariant, PTL
<1>4. QED BY <1>1, <1>2, <1>3, StagedIsInductive, PTL DEF Spec

-----------------------------------------------------------------------------

\* A check that failed before a fix-pass and not after it was run again.
LEMMA FixedMeansRerun ==
  ASSUME NEW i \in FailedChecks(report), NEW out \in Redone, DistinctIds,
         plan' = plan, report' = Merged(report, out), FailedChecks(report') = {}
  PROVE  i \in FileSteps
<1> DEFINE redone == {plan[j].id : j \in DOMAIN out}
<1>1. /\ i \in Positions /\ IsCheck(plan[i])
      /\ plan[i].id \in DOMAIN report /\ report[plan[i].id].failed
  BY DEF FailedChecks
<1>2. plan[i].id \in DOMAIN report'
  BY <1>1, MergedDomain
<1>3. ~report'[plan[i].id].failed
  BY <1>1, <1>2 DEF FailedChecks
<1>4. plan[i].id \in redone
  BY <1>1, <1>3 DEF Merged
<1>5. PICK j \in DOMAIN out : plan[j].id = plan[i].id
  BY <1>4
<1>6. DOMAIN out \subseteq FileSteps
  BY DEF Redone
<1>7. j \in Positions
  BY <1>5, <1>6 DEF FileSteps
<1>8. QED BY <1>1, <1>5, <1>6, <1>7 DEF DistinctIds

LEMMA ClaimedIsInductive == Claimed /\ [Next]_vars => Claimed'
<1> SUFFICES ASSUME Claimed, [Next]_vars PROVE Claimed'
  OBVIOUS
<1>1. CASE FixPass
  <2>1. PICK out \in Redone :
          /\ report' = Merged(report, out)
          /\ \/ /\ FailedChecks(report') = {}
                /\ claim' = TRUE
                /\ stage' = "synthesize"
             \/ UNCHANGED claim
    BY <1>1 DEF FixPass
  <2>2. PICK i \in FailedChecks(report) : trigger' = i
    BY <1>1 DEF FixPass
  <2>3. /\ plan' = plan /\ ~claim /\ rerun' = rerun \cup FileSteps
    BY <1>1 DEF FixPass, dispatchVars, Claimed
  <2>4. CASE UNCHANGED claim
    BY <2>3, <2>4 DEF Claimed, FixClaimIsEarned
  <2>5. CASE FailedChecks(report') = {} /\ claim' = TRUE /\ stage' = "synthesize"
    <3>1. ASSUME DistinctIds PROVE trigger' \in rerun'
      BY <2>1, <2>2, <2>3, <2>5, <3>1, FixedMeansRerun
    <3>2. DistinctIds' = DistinctIds /\ FailedChecks(report)' = FailedChecks(report')
      BY <2>3 DEF DistinctIds, Positions, FailedChecks
    <3>3. QED BY <2>5, <3>1, <3>2 DEF Claimed, FixClaimIsEarned
  <2>6. QED BY <2>1, <2>4, <2>5
<1>2. CASE Dispatch
  BY <1>2 DEF Dispatch, pipelineVars, Claimed, FixClaimIsEarned
<1>3. CASE TakeResults
  BY <1>3 DEF TakeResults, Claimed, FixClaimIsEarned
<1>4. CASE AnswerWithoutPlan \/ StartDispatch \/ EndFixing \/ Synthesize \/ UNCHANGED vars
  <2>1. /\ claim' = claim /\ report' = report /\ rerun' = rerun /\ trigger' = trigger
        /\ plan' = plan
        /\ claim => stage' \in {"synthesize", "returned"}
    BY <1>4 DEF AnswerWithoutPlan, StartDispatch, EndFixing, Synthesize, ReturnAnswer,
                vars, dispatchVars, pipelineVars, Claimed
  <2>2. FixClaimIsEarned'
    BY <2>1 DEF Claimed, FixClaimIsEarned, DistinctIds, FailedChecks, Positions
  <2>3. QED BY <2>1, <2>2 DEF Claimed
<1>5. QED BY <1>1, <1>2, <1>3, <1>4 DEF Next

\* A fix-pass announces that QA passes only if the failed check was run again.
THEOREM ClaimsAreEarned == Spec => []FixClaimIsEarned
<1>1. Init => Claimed
  BY DEF Init, Claimed, FixClaimIsEarned
<1>2. Claimed => FixClaimIsEarned
  BY DEF Claimed
<1>3. QED BY <1>1, <1>2, ClaimedIsInductive, PTL DEF Spec

\* The dispatcher of a pipeline implements the plan's graph.
THEOREM PipelineImplementsGraph == Spec => ImplementsGraph
BY PipelineRunsDispatcher, DispatcherImplementsGraph, PTL

\* What ensureSDLCSteps makes of a draft of n steps: the first step is an
\* injected SETUP that all others wait for, and each step it appended waits for
\* every step before it.
Framed(p, n, injected) ==
  /\ \E S : p \in Seq(S)
  /\ n \in Nat /\ n <= Len(p)
  /\ injected => /\ n # 0 /\ p[1].id = SetupID
                 /\ \A i \in DOMAIN p \ {1} : SetupID \in p[i].deps
  /\ \A i \in DOMAIN p : i > n => \A j \in 1..(i - 1) : p[j].id \in p[i].deps

LEMMA AppendedIsFramed ==
  ASSUME NEW p, NEW n, NEW injected \in BOOLEAN, Framed(p, n, injected), NEW kind, NEW kinds
  PROVE  Framed(WithLast(p, kind, kinds), n, injected)
<1> DEFINE new == [id |-> NextStepID(p), deps |-> IdsOf(p), skill |-> FALSE, kinds |-> kinds]
<1>1. WithLast(p, kind, kinds) = p \/ WithLast(p, kind, kinds) = Append(p, new)
  BY DEF WithLast
<1>2. new.deps = {p[j].id : j \in DOMAIN p}
  BY DEF IdsOf
<1> HIDE DEF new
<1>3. PICK S : p \in Seq(S)
  BY DEF Framed
<1>4. p \in Seq(S \union {new}) /\ DOMAIN p = 1..Len(p) /\ Len(p) \in Nat /\ n \in Nat
        /\ n <= Len(p)
  BY <1>3 DEF Framed
<1> DEFINE q == Append(p, new)
<1>5. /\ q \in Seq(S \union {new}) /\ Len(q) = Len(p) + 1 /\ DOMAIN q = 1..(Len(p) + 1)
      /\ \A i \in 1..Len(p) : q[i] = p[i]
      /\ q[Len(p) + 1] = new
  BY <1>4, AppendProperties
<1> HIDE DEF q
<1>6. ASSUME injected
      PROVE  /\ n # 0 /\ q[1].id = SetupID
             /\ \A i \in DOMAIN q \ {1} : SetupID \in q[i].deps
  <2>1. n # 0 /\ p[1].id = SetupID /\ \A i \in DOMAIN p \ {1} : SetupID \in p[i].deps
    BY <1>6 DEF Framed
  <2>2. 1 \in 1..Len(p)
    BY <1>4, <2>1
  <2>3. SetupID \in new.deps
    BY <1>2, <1>4, <2>1, <2>2
  <2>4. ASSUME NEW i \in DOMAIN q \ {1} PROVE SetupID \in q[i].deps
    <3>1. i = Len(p) + 1 \/ i \in 1..Len(p)
      BY <1>4, <1>5
    <3>2. QED BY <1>4, <1>5, <2>1, <2>3, <3>1
  <2>5. QED BY <1>5, <2>1, <2>2, <2>4
<1>7. ASSUME NEW i \in DOMAIN q, i > n, NEW j \in 1..(i - 1) PROVE q[j].id \in q[i].deps
  <2>1. j \in 1..Len(p) /\ q[j] = p[j]
    BY <1>4, <1>5, <1>7
  <2>2. CASE i = Len(p) + 1
    BY <1>2, <1>4, <1>5, <2>1, <2>2
  <2>3. CASE i # Len(p) + 1
    <3>1. i \in 1..Len(p) /\ q[i] = p[i]
      BY <1>4, <1>5, <2>3
    <3>2. QED BY <1>4, <1>7, <2>1, <3>1 DEF Framed
  <2>4. QED BY <2>2, <2>3
<1>8. n <= Len(q)
  BY <1>4, <1>5
<1>9. Framed(q, n, injected)
  BY <1>4, <1>5, <1>6, <1>7, <1>8 DEF Framed
<1>10. QED BY <1>1, <1>9 DEF q

LEMMA SetupIsFramed ==
  ASSUME NEW s \in Seq(Steps)
  PROVE  LET injected == ~AnyStepMatches(s, "setup")
         IN Framed(WithSetup(s), Len(s) + (IF injected THEN 1 ELSE 0), injected)
<1>1. Len(s) \in Nat /\ DOMAIN s = 1..Len(s) /\ \A i \in DOMAIN s : s[i] \in Steps
  OBVIOUS
<1>2. CASE AnyStepMatches(s, "setup")
  <2>1. WithSetup(s) = s
    BY <1>2 DEF WithSetup
  <2>2. \A i \in DOMAIN s : ~(i > Len(s))
    BY <1>1
  <2>3. Framed(s, Len(s), FALSE)
    BY <1>1, <2>2 DEF Framed
  <2> DEFINE injected == ~AnyStepMatches(s, "setup")
             n == Len(s) + (IF injected THEN 1 ELSE 0)
  <2>4. injected = FALSE /\ n = Len(s)
    BY <1>1, <1>2
  <2>5. Framed(WithSetup(s), n, injected)
    BY <2>1, <2>3, <2>4
  <2>6. QED BY <2>5
<1>3. CASE ~AnyStepMatches(s, "setup")
  <2> DEFINE t == [i \in DOMAIN s |-> [s[i] EXCEPT !.deps = @ \union {SetupID}]]
             S == {t[i] : i \in DOMAIN s} \union {SetupStep}
             p == <<SetupStep>> \o t
  <2>1. WithSetup(s) = p
    BY <1>3 DEF WithSetup
  <2>2. \A i \in DOMAIN s : SetupID \in t[i].deps
    BY <1>1 DEF Steps
  <2>3. t \in Seq(S) /\ Len(t) = Len(s) /\ DOMAIN t = 1..Len(s)
    <3>1. DOMAIN t = 1..Len(s) /\ \A i \in 1..Len(s) : t[i] \in S
      BY <1>1
    <3>2. t = [i \in 1..Len(s) |-> t[i]]
      BY <1>1
    <3> HIDE DEF S, t
    <3>3. t \in Seq(S) /\ Len(t) = Len(s)
      <4>1. t \in [1..Len(s) -> S]
        BY <3>1, <3>2
      <4>2. QED BY <1>1, <4>1, SeqDef, LenProperties
    <3>4. QED BY <3>1, <3>3
  <2> HIDE DEF t
  <2>4. <<SetupStep>> \in Seq(S) /\ Len(<<SetupStep>>) = 1 /\ <<SetupStep>>[1] = SetupStep
    OBVIOUS
  <2> HIDE DEF S
  <2>5. /\ p \in Seq(S) /\ Len(p) = Len(s) + 1 /\ DOMAIN p = 1..(Len(s) + 1)
        /\ p[1] = SetupStep /\ \A i \in 2..(Len(s) + 1) : p[i] = t[i - 1]
    <3>1. p \in Seq(S) /\ Len(p) = 1 + Len(s)
      BY <1>1, <2>3, <2>4, ConcatProperties
    <3>2. \A i \in 1..(1 + Len(s)) :
            p[i] = IF i <= 1 THEN <<SetupStep>>[i] ELSE t[i - 1]
      BY <1>1, <2>3, <2>4, ConcatProperties
    <3>3. DOMAIN p = 1..(Len(s) + 1)
      BY <1>1, <3>1
    <3> HIDE DEF p
    <3>4. p[1] = SetupStep
      BY <1>1, <2>4, <3>2
    <3>5. \A i \in 2..(Len(s) + 1) : p[i] = t[i - 1]
      BY <1>1, <3>2
    <3>6. QED BY <1>1, <3>1, <3>3, <3>4, <3>5
  <2> HIDE DEF p
  <2>6. \A i \in DOMAIN p \ {1} : i \in 2..(Len(s) + 1) /\ i - 1 \in DOMAIN s
    BY <1>1, <2>5
  <2>7. \A i \in DOMAIN p \ {1} : SetupID \in p[i].deps
    BY <2>2, <2>5, <2>6
  <2>8. p[1].id = SetupID
    BY <2>5 DEF SetupStep
  <2>9. \A i \in DOMAIN p : ~(i > Len(s) + 1)
    BY <1>1, <2>5
  <2>10. Len(s) + 1 \in Nat /\ Len(s) + 1 <= Len(p) /\ Len(s) + 1 # 0
    BY <1>1, <2>5
  <2>11. Framed(p, Len(s) + 1, TRUE)
    BY <2>5, <2>7, <2>8, <2>9, <2>10 DEF Framed
  <2>12. /\ ~AnyStepMatches(s, "setup") = TRUE
         /\ Len(s) + (IF ~AnyStepMatches(s, "setup") THEN 1 ELSE 0) = Len(s) + 1
    BY <1>1, <1>3
  <2>13. QED BY <2>1, <2>11, <2>12
<1>4. QED BY <1>2, <1>3

\* The plan of a draft.
LEMMA PlansAreFramed ==
  ASSUME NEW s \in Seq(Steps), NEW serve
  PROVE  LET injected == AnyStepMatches(s, "file") /\ ~AnyStepMatches(s, "setup")
         IN Framed(EnsureSDLCSteps(s, serve), Len(s) + (IF injected THEN 1 ELSE 0), injected)
<1> DEFINE injected == AnyStepMatches(s, "file") /\ ~AnyStepMatches(s, "setup")
           n == Len(s) + (IF injected THEN 1 ELSE 0)
<1>1. CASE ~AnyStepMatches(s, "file")
  <2>1. EnsureSDLCSteps(s, serve) = s /\ Len(s) \in Nat /\ DOMAIN s = 1..Len(s)
    BY <1>1 DEF EnsureSDLCSteps
  <2>2. \A i \in DOMAIN s : ~(i > Len(s))
    BY <2>1
  <2>3. Framed(s, Len(s), FALSE)
    BY <2>1, <2>2 DEF Framed
  <2>4. injected = FALSE /\ n = Len(s)
    BY <1>1, <2>1
  <2>5. Framed(EnsureSDLCSteps(s, serve), n, injected)
    BY <2>1, <2>3, <2>4
  <2>6. QED BY <2>5
<1>2. CASE AnyStepMatches(s, "file")
  <2>1. injected = ~AnyStepMatches(s, "setup") /\ injected \in BOOLEAN
    BY <1>2
  <2>2. Framed(WithSetup(s), n, injected)
    <3>1. Framed(WithSetup(s), Len(s) + (IF ~AnyStepMatches(s, "setup") THEN 1 ELSE 0),
                 ~AnyStepMatches(s, "setup"))
      BY SetupIsFramed
    <3>2. QED BY <2>1, <3>1
  <2> HIDE DEF n, injected
  <2> DEFINE verified == WithLast(WithSetup(s), "verify", {"verify"})
             reviewed == WithLast(verified, "qa", {"qa", "verify", "file"})
             served == WithLast(reviewed, "serve", {"serve"})
  <2>3. Framed(verified, n, injected)
    BY <2>1, <2>2, AppendedIsFramed
  <2>4. EnsureSDLCSteps(s, serve) = IF serve THEN served ELSE reviewed
    BY <1>2 DEF EnsureSDLCSteps
  <2> HIDE DEF verified
  <2>5. Framed(reviewed, n, injected)
    BY <2>1, <2>3, AppendedIsFramed
  <2> HIDE DEF reviewed
  <2>6. Framed(served, n, injected)
    BY <2>1, <2>5, AppendedIsFramed
  <2> HIDE DEF served
  <2>7. Framed(EnsureSDLCSteps(s, serve), n, injected)
    BY <2>4, <2>5, <2>6
  <2>8. QED BY <2>7 DEF n, injected
<1>3. QED BY <1>1, <1>2

-----------------------------------------------------------------------------

\* The plan is what planTask made of the draft, and an injected SETUP is the
\* first step to get its id into the done map.
FrameInv ==
  /\ draft \in Drafts /\ plan = PlanTask(draft, MaxSteps)
  /\ SetupInjected /\ SetupID \in done => worker[1] = "finished"

LEMMA PlanIsFramed ==
  ASSUME FrameInv
  PROVE  Framed(plan, DraftEnd, SetupInjected)
<1>1. Drafted \in Seq(Steps)
  <2>1. draft.steps \in Seq(Steps)
    BY PipelineAssumption DEF FrameInv
  <2> DEFINE m == IF Len(draft.steps) < MaxSteps THEN Len(draft.steps) ELSE MaxSteps
  <2>2. m \in 0..Len(draft.steps)
    BY <2>1, PipelineAssumption
  <2>3. Drafted = SubSeq(draft.steps, 1, m)
    BY DEF Drafted, Capped
  <2> HIDE DEF m
  <2>4. QED BY <2>1, <2>2, <2>3, SubSeqProperties
<1>2. plan = EnsureSDLCSteps(Drafted, draft.serve)
  BY DEF FrameInv, PlanTask, Drafted
<1>3. QED BY <1>1, <1>2, PlansAreFramed DEF SetupInjected, DraftEnd

LEMMA RecordKeepsFrameInv ==
  ASSUME DispatchInv, FrameInv, NEW i \in Positions, worker[i] \in {"started", "working"},
         NEW r, Record(i, r), draft' = draft
  PROVE  FrameInv'
<1>1. plan' = plan /\ done' = done \union {plan[i].id}
        /\ worker' = [worker EXCEPT ![i] = "finished"]
  BY DEF Record
<1>2. SetupInjected' = SetupInjected
  BY DEF SetupInjected, Drafted
<1>3. ASSUME SetupInjected, SetupID \in done' PROVE worker'[1] = "finished"
  <2>1. Framed(plan, DraftEnd, TRUE)
    BY <1>3, PlanIsFramed
  <2>2. 1 \in Positions /\ \A j \in Positions \ {1} : SetupID \in plan[j].deps
    <3>1. DraftEnd \in Nat /\ DraftEnd # 0 /\ DraftEnd <= Len(plan)
          /\ \A j \in Positions \ {1} : SetupID \in plan[j].deps
      BY <2>1 DEF Framed, Positions
    <3>2. QED BY <3>1, PlanFacts DEF DispatchInv
  <2>3. CASE i = 1
    BY <1>1, <2>2, <2>3 DEF DispatchInv, DispatchTypeOK
  <2>4. CASE i # 1
    <3>1. SetupID \in done
      BY <2>2, <2>4 DEF DispatchInv, Ordered, Chosen
    <3>2. worker[1] = "finished"
      BY <1>3, <3>1 DEF FrameInv
    <3>3. QED BY <1>1, <2>2, <3>2 DEF DispatchInv, DispatchTypeOK
  <2>5. QED BY <2>3, <2>4
<1>4. QED BY <1>1, <1>2, <1>3 DEF FrameInv

\* Every step keeps it.
LEMMA FrameInvIsInductive == DispatchInv /\ FrameInv /\ [Next]_vars => FrameInv'
<1> SUFFICES ASSUME DispatchInv, FrameInv, [Next]_vars PROVE FrameInv'
  OBVIOUS
<1>1. draft' = draft
  BY DEF Next, vars, AnswerWithoutPlan, StartDispatch, Dispatch, TakeResults, FixPass, EndFixing,
     Synthesize, pipelineVars
<1>2. SetupInjected' = SetupInjected
  BY <1>1 DEF SetupInjected, Drafted
<1>3. ASSUME UNCHANGED <<plan, done>>, worker'[1] = worker[1] \/ worker[1] # "finished"
      PROVE  FrameInv'
  BY <1>1, <1>2, <1>3 DEF FrameInv
<1>4. [DispatchNext]_dispatchVars
  BY DEF Next, vars, AnswerWithoutPlan, StartDispatch, Dispatch, TakeResults, FixPass, EndFixing,
     Synthesize
<1>5. CASE NextBatch \/ Stuck \/ Complete \/ Join \/ UNCHANGED dispatchVars
  <2>1. UNCHANGED <<plan, done, worker>>
    BY <1>5 DEF NextBatch, Stuck, Complete, Join, dispatchVars
  <2>2. QED BY <1>3, <2>1
<1>6. ASSUME NEW i \in Positions, Launch(i) \/ Snapshot(i) PROVE FrameInv'
  <2>1. /\ UNCHANGED <<plan, done>> /\ worker[i] # "finished"
        /\ worker' = [worker EXCEPT ![i] = "started"] \/ worker' = [worker EXCEPT ![i] = "working"]
    BY <1>6 DEF Launch, Idle, Snapshot
  <2>2. worker'[1] = worker[1] \/ worker[1] # "finished"
    <3>1. CASE i = 1
      BY <2>1, <3>1
    <3>2. CASE i # 1
      <4>1. 1 \in Positions
        BY PlanFacts, <1>6 DEF DispatchInv
      <4>2. QED BY <2>1, <3>2, <4>1 DEF DispatchInv, DispatchTypeOK
    <3>3. QED BY <3>1, <3>2
  <2>3. QED BY <1>3, <2>1, <2>2
<1>7. ASSUME NEW i \in Positions, RunSkill(i) \/ Finish(i) PROVE FrameInv'
  BY <1>1, <1>7, RecordKeepsFrameInv DEF RunSkill, Finish
<1>8. QED
  BY <1>4, <1>5, <1>6, <1>7 DEF DispatchNext, DispatcherStep, WorkerStep

\* "SETUP runs first and VERIFY last", for every answer of the planner, its ids
\* and its dependencies included (ensureSDLCSteps with executeWorkers).
THEOREM InjectedStepsAreFramed == Spec => []InjectedStepsFrameThePlan
<1>1. Init => FrameInv
  <2> SUFFICES ASSUME Init PROVE FrameInv
    OBVIOUS
  <2>1. draft \in Drafts /\ plan = PlanTask(draft, MaxSteps) /\ done = {}
    BY DEF Init, BeforeRounds
  <2>2. QED BY <2>1 DEF FrameInv
<1>2. DispatchInv /\ FrameInv => InjectedStepsFrameThePlan
  <2> SUFFICES ASSUME DispatchInv, FrameInv, NEW i \in Positions, worker[i] # "idle"
               PROVE  /\ SetupInjected /\ i # 1 => worker[1] = "finished"
                      /\ i > DraftEnd => \A j \in 1 .. i - 1 : plan[j].id \in done
    BY DEF InjectedStepsFrameThePlan
  <2>1. plan[i].deps \subseteq done
    BY DEF DispatchInv, Ordered, Chosen
  <2>2. Framed(plan, DraftEnd, SetupInjected)
    BY PlanIsFramed
  <2>3. SetupInjected /\ i # 1 => SetupID \in plan[i].deps
    BY <2>2 DEF Framed, Positions
  <2>4. i > DraftEnd => \A j \in 1 .. i - 1 : plan[j].id \in plan[i].deps
    BY <2>2 DEF Framed, Positions
  <2>5. QED BY <2>1, <2>3, <2>4 DEF FrameInv
<1>3. QED
  BY <1>1, <1>2, PipelineRunsDispatcher, DispatchInvariant, FrameInvIsInductive, PTL DEF Spec

=============================================================================
