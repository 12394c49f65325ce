------------------------------ MODULE Learning ------------------------------
(***************************************************************************)
(* What the agent learns from its tasks: the goroutine that records a      *)
(* finished one (internal/orchestrator/intelligence.go), its experience    *)
(* and its lessons (internal/memory/intelligence.go), the skill file that  *)
(* two similar successes earn (internal/memory/patterns.go).  All tasks    *)
(* are of one topic: their rows match one another's keywords.  Rows and    *)
(* files survive a crash, the set of skills generated so far does not.     *)
(***************************************************************************)
EXTENDS Naturals, Sequences, FiniteSets, SequencesExt

CONSTANTS
  Finished,      \* tasks that finish
  Tools,         \* tools they may have used
  Endings,       \* the combinations of how they may end
  PatternLimit,  \* rows a pattern is looked for in, 10 in the code
  MaxStops       \* bound: crashes

ASSUME LearningAssumption ==
  /\ Endings \subseteq [Finished -> [tools: Seq(Tools), ok: BOOLEAN, long: BOOLEAN]]
  /\ IsFiniteSet(Finished) /\ MaxStops \in Nat

MinPatternCount == 2

VARIABLES
  ending,     \* a task's tools, its success, and whether it was long; the tools
              \* come out of a map: any may be first, and it names the skill
  memories,   \* the long-term memory, oldest first
  recorder,   \* what the goroutine of a task is at
  similar,    \* the similar successes it has found
  generated,  \* pd.generated: skills this process knows to exist
  skillFile,  \* the skill files: how often each was created, and whether it is whole
  stops       \* history: crashes

learnVars == <<ending, memories, recorder, similar, generated, skillFile, stops>>

NoSkill == [writes |-> 0, whole |-> FALSE, from |-> {}]

LearnInit ==
  /\ ending \in Endings
  /\ memories = <<>>
  /\ recorder = [t \in Finished |-> "new"] /\ similar = [t \in Finished |-> {}]
  /\ generated = {} /\ skillFile = [x \in Tools |-> NoSkill]
  /\ stops = 0

Moves(t, at) == recorder' = [recorder EXCEPT ![t] = at]
Row(kind, t) == [kind |-> kind, of |-> t]
Add(row) == memories' \in {memories, Append(memories, row)}  \* the database may fail
Newest(n) == {memories[i] : i \in {i \in DOMAIN memories : i > Len(memories) - n}}
Of(kind, set) == {r.of : r \in {r \in set : r.kind = kind}}

Record(t) ==
  /\ recorder[t] = "new"
  /\ Add(Row("experience", t)) /\ Moves(t, IF ending[t].ok THEN "check" ELSE "reflect")
  /\ UNCHANGED <<ending, similar, generated, skillFile, stops>>

\* pd.mu is held from here to the end of CheckAndGenerate.
PatternsFree == \A t \in Finished : recorder[t] \notin {"write", "fill", "lesson"}
Skill(t) == ending[t].tools[1]
Overlap(t, x) == Range(ending[t].tools) \intersect Range(ending[x].tools) # {}

FindSimilar(t) ==
  LET found == {x \in Of("experience", Newest(PatternLimit)) :
                  ending[x].ok /\ Overlap(t, x)}
  IN /\ recorder[t] = "check" /\ PatternsFree
     /\ IF (ending[t].tools # <<>> /\ Skill(t) \in generated)
           \/ Cardinality(found) < MinPatternCount
        THEN Moves(t, "reflect") /\ UNCHANGED similar
        ELSE Moves(t, "write") /\ similar' = [similar EXCEPT ![t] = found]
     /\ UNCHANGED <<ending, memories, generated, skillFile, stops>>

\* os.WriteFile creates the file and then writes it.
CreateSkill(t) ==
  /\ skillFile' = [skillFile EXCEPT ![Skill(t)] =
                     [writes |-> @.writes + 1, whole |-> FALSE, from |-> similar[t]]]
  /\ Moves(t, "fill") /\ UNCHANGED generated
GiveSkillUp(t) == Moves(t, "reflect") /\ UNCHANGED <<skillFile, generated>>

\* Mutant: no look whether the file is there.
OverwriteSkill(t) ==
  /\ recorder[t] = "write"
  /\ CreateSkill(t) \/ GiveSkillUp(t)
  /\ UNCHANGED <<ending, memories, similar, stops>>

\* A file that is there is kept, whatever is in it.
WriteSkill(t) ==
  /\ recorder[t] = "write"
  /\ IF skillFile[Skill(t)].writes > 0
     THEN /\ generated' = generated \union {Skill(t)} /\ Moves(t, "reflect")
          /\ UNCHANGED skillFile
     ELSE CreateSkill(t) \/ GiveSkillUp(t)
  /\ UNCHANGED <<ending, memories, similar, stops>>

\* A write that fails leaves the file cut, and the skill unmarked.
FillSkill(t) ==
  /\ recorder[t] = "fill"
  /\ \/ /\ skillFile' = [skillFile EXCEPT ![Skill(t)].whole = TRUE]
        /\ generated' = generated \union {Skill(t)} /\ Moves(t, "lesson")
     \/ GiveSkillUp(t)
  /\ UNCHANGED <<ending, memories, similar, stops>>

StoreLesson(t) ==
  /\ recorder[t] = "lesson" /\ Add(Row("generated", t)) /\ Moves(t, "reflect")
  /\ UNCHANGED <<ending, similar, generated, skillFile, stops>>

\* Many iterations, or more than a minute.
ReflectOn(t) ==
  /\ recorder[t] = "reflect"
  /\ IF ending[t].long THEN Add(Row("lesson", t)) ELSE UNCHANGED memories
  /\ Moves(t, "done")
  /\ UNCHANGED <<ending, similar, generated, skillFile, stops>>

StopAndStart ==
  /\ stops < MaxStops /\ stops' = stops + 1
  /\ recorder' = [t \in Finished |-> IF recorder[t] = "new" THEN "new" ELSE "done"]
  /\ generated' = {}
  /\ UNCHANGED <<ending, memories, similar, skillFile>>

LearnNext ==
  \/ \E t \in Finished :
       \/ Record(t) \/ FindSimilar(t) \/ WriteSkill(t) \/ FillSkill(t)
       \/ StoreLesson(t) \/ ReflectOn(t)
  \/ StopAndStart

LearnSpec == LearnInit /\ [][LearnNext]_learnVars

----------------------------------------------------------------------------
LearnTypeOK ==
  /\ generated \subseteq Tools /\ stops \in 0..MaxStops
  /\ skillFile \in [Tools -> [writes : 0..Cardinality(Finished), whole : BOOLEAN, from : SUBSET Finished]]

Announced(x) ==
  Cardinality({i \in DOMAIN memories :
                 memories[i].kind = "generated" /\ Skill(memories[i].of) = x})

(* A skill is learnt once.  A skill file is created at most once, over      *)
(* crashes and failed writes too, from at least two recorded successes that *)
(* share a tool with the task; it is announced at most once, and never      *)
(* while it is cut; and what the process believes generated is there.  It   *)
(* may be there cut: a write that broke off is not done again.              *)
SkillsAreLearntOnce ==
  \A x \in Tools :
    /\ skillFile[x].writes <= 1
    /\ skillFile[x].writes > 0 =>
         /\ Cardinality(skillFile[x].from) >= MinPatternCount
         /\ \A t \in skillFile[x].from :
              ending[t].ok /\ Row("experience", t) \in Range(memories)
    /\ Announced(x) <= (IF skillFile[x].whole THEN 1 ELSE 0)
    /\ x \in generated => skillFile[x].writes = 1

=============================================================================
