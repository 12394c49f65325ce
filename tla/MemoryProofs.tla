---------------------------- MODULE MemoryProofs ----------------------------
(***************************************************************************)
(* What the server keeps beyond a task, each a component of its own: the   *)
(* user profile, the skills learnt from tasks, the memory store, and the   *)
(* configuration file.                                                     *)
(***************************************************************************)
EXTENDS Profile, Learning, Compaction, ConfigSaves, AgentProofs, SequenceTheorems,
        FiniteSetTheorems, WellFoundedInduction, TLAPS

-----------------------------------------------------------------------------
(* Profile: the cache of the user profile after a reload. *)

\* A set of numbers that is not empty and bounded has a greatest one.
LEMMA GreatestNumber ==
  ASSUME NEW m \in Nat, NEW T, T \subseteq 0..m, T # {}
  PROVE  \E x \in T : \A y \in T : y <= x
<1> DEFINE U == {m - x : x \in T}
<1>1. U \subseteq Nat /\ U # {}
  <2>1. \A x \in T : m - x \in Nat
    OBVIOUS
  <2>2. QED BY <2>1
<1>2. PICK u \in U : \A v \in U : u <= v
  <2> HIDE DEF U
  <2>1. QED BY <1>1, LeastNumber
<1>3. PICK x \in T : u = m - x
  BY <1>2
<1>4. \A y \in T : m - x <= m - y
  <2>1. \A y \in T : m - y \in U
    OBVIOUS
  <2> HIDE DEF U
  <2>2. QED BY <1>2, <1>3, <2>1
<1>5. \A y \in T : y <= x
  <2>1. \A y \in T : y \in Int /\ x \in Int
    OBVIOUS
  <2>2. QED BY <1>4, <2>1
<1>6. QED BY <1>5

\* The newest rows, newest first.
LEMMA RecalledRows ==
  ASSUME ProfileTypeOK
  PROVE  LET m == IF Len(rows) > ProfileLimit THEN ProfileLimit ELSE Len(rows)
         IN  m \in Nat /\ DOMAIN Recalled = 1..m
             /\ \A i \in 1..m : Recalled[i] = rows[Len(rows) - i + 1]
<1> DEFINE n == Len(rows)
           m == IF n > ProfileLimit THEN ProfileLimit ELSE n
           f == n - m + 1
<1>1. n \in Nat /\ ProfileLimit \in Nat /\ m \in Nat /\ m <= n /\ f \in 1..(n + 1) /\ n - f + 1 = m
  <2>1. n \in Nat /\ ProfileLimit \in Nat
    BY ProfileAssumption DEF ProfileTypeOK
  <2>2. m \in Nat /\ m <= n
    BY <2>1
  <2> HIDE DEF m, n
  <2>3. QED BY <2>1, <2>2
<1>2. LastRows(ProfileLimit) = SubSeq(rows, f, n)
  <2>1. CASE n > ProfileLimit
    BY <2>1 DEF LastRows
  <2>2. CASE ~(n > ProfileLimit)
    <3>1. m = n /\ f = 1
      BY <1>1, <2>2
    <3> HIDE DEF f, m
    <3>2. QED BY <2>2, <3>1 DEF LastRows
  <2>3. QED BY <2>1, <2>2
<1>3. /\ Len(SubSeq(rows, f, n)) = m
      /\ \A i \in 1..m : SubSeq(rows, f, n)[i] = rows[f + i - 1]
  <2> DEFINE R == [key: Keys, value: Values] \union {Other}
  <2>0. rows \in Seq(R)
    BY DEF ProfileTypeOK
  <2> HIDE DEF f, m, R
  <2>1. /\ SubSeq(rows, f, n) \in Seq(R)
        /\ Len(SubSeq(rows, f, n)) = IF f <= n THEN n - f + 1 ELSE 0
        /\ \A i \in 1..(n - f + 1) : SubSeq(rows, f, n)[i] = rows[f + i - 1]
    BY <1>1, <2>0, SubSeqProperties
  <2>2. QED BY <1>1, <2>1
<1> HIDE DEF m, f
<1>4. Recalled = [i \in 1..m |-> SubSeq(rows, f, n)[m - i + 1]]
  BY <1>2, <1>3 DEF Recalled, Reverse
<1>5. ASSUME NEW i \in 1..m PROVE Recalled[i] = rows[n - i + 1]
  <2>1. m - i + 1 \in 1..m /\ f + (m - i + 1) - 1 = n - i + 1
    BY <1>1 DEF f
  <2>2. QED BY <1>3, <1>4, <2>1
<1>6. QED BY <1>1, <1>4, <1>5 DEF m

ProfileInv == ProfileTypeOK /\ (reloaded => cache = Loaded)

\* A row of a key has a value that was given.
LEMMA RowsOfKeys ==
  ASSUME ProfileTypeOK, NEW j \in DOMAIN rows, NEW k \in Keys, rows[j].key = k
  PROVE  rows[j].value \in Values /\ rows[j] = [key |-> k, value |-> rows[j].value]
<1>1. rows[j] \in [key: Keys, value: Values] \union {Other}
  BY DEF ProfileTypeOK
<1>2. QED BY <1>1, ProfileAssumption

\* What the reload puts there for a key: the oldest row of it in the window.
LEMMA LoadedValues ==
  ASSUME ProfileTypeOK, NEW k \in Keys
  PROVE  LET from == Len(rows) - ProfileLimit + 1
             mine == {j \in DOMAIN rows : j >= from /\ rows[j].key = k}
         IN /\ mine = {} => Loaded[k] = Unset
            /\ mine # {} => \E i \in mine : Loaded[k] = rows[i].value /\ \A j \in mine : j >= i
<1> DEFINE n == Len(rows)
           from == n - ProfileLimit + 1
           m == IF n > ProfileLimit THEN ProfileLimit ELSE n
           of == {i \in DOMAIN Recalled : Recalled[i].key = k}
           mine == {j \in DOMAIN rows : j >= from /\ rows[j].key = k}
<1>1. /\ n \in Nat /\ ProfileLimit \in Nat /\ DOMAIN rows = 1..n
      /\ m \in Nat /\ DOMAIN Recalled = 1..m /\ \A i \in 1..m : Recalled[i] = rows[n - i + 1]
  BY ProfileAssumption, RecalledRows DEF ProfileTypeOK
<1>2. \A i \in 1..m : n - i + 1 \in 1..n /\ n - i + 1 >= from
  BY <1>1
<1>3. \A j \in 1..n : j >= from => n - j + 1 \in 1..m /\ n - (n - j + 1) + 1 = j
  BY <1>1
<1>4. Loaded[k] = IF of = {} THEN Unset ELSE Recalled[CHOOSE i \in of : \A j \in of : j <= i].value
  BY DEF Loaded
<1> HIDE DEF n, m, from
<1>5. \A i \in of : n - i + 1 \in mine /\ i \in 1..m /\ Recalled[i] = rows[n - i + 1]
  BY <1>1, <1>2
<1>6. \A j \in mine : n - j + 1 \in of /\ j \in 1..n
  <2>1. ASSUME NEW j \in mine PROVE n - j + 1 \in of /\ j \in 1..n
    <3>1. j \in 1..n /\ j >= from /\ rows[j].key = k
      BY <1>1
    <3>2. n - j + 1 \in 1..m /\ Recalled[n - j + 1] = rows[n - (n - j + 1) + 1]
      BY <1>1, <1>3, <3>1
    <3>3. QED BY <1>1, <1>3, <3>1, <3>2
  <2>2. QED BY <2>1
<1> HIDE DEF of, mine
<1>7. mine = {} => Loaded[k] = Unset
  BY <1>4, <1>5
<1>8. ASSUME mine # {}
      PROVE  \E i \in mine : Loaded[k] = rows[i].value /\ \A j \in mine : j >= i
  <2>1. of # {} /\ of \subseteq 0..m
    BY <1>5, <1>6, <1>8
  <2> DEFINE x == CHOOSE i \in of : \A j \in of : j <= i
  <2>2. x \in of /\ \A j \in of : j <= x
    <3>1. \E i \in of : \A j \in of : j <= i
      BY <1>1, <2>1, GreatestNumber
    <3>2. QED BY <3>1
  <2>3. Loaded[k] = Recalled[x].value
    BY <1>4, <2>1
  <2> HIDE DEF x
  <2>4. n - x + 1 \in mine /\ Loaded[k] = rows[n - x + 1].value /\ x \in Nat
    BY <1>5, <2>2, <2>3
  <2>5. \A j \in mine : j >= n - x + 1
    <3>1. \A j \in mine : n - j + 1 <= x /\ j \in Nat
      BY <1>6, <2>2
    <3>2. QED BY <1>1, <2>4, <3>1
  <2>6. QED BY <2>4, <2>5
<1>9. QED BY <1>7, <1>8 DEF mine, from, n

\* Every step keeps it.
LEMMA ProfileInvIsInductive ==
  /\ ProfileInit => ProfileInv
  /\ ProfileInv /\ [ProfileNext]_profileVars => ProfileInv'
<1>1. ASSUME ProfileInit PROVE ProfileInv
  <2>1. ProfileTypeOK
    BY <1>1, ProfileAssumption DEF ProfileInit, ProfileTypeOK
  <2>2. \A k \in Keys : Loaded[k] = Unset
    BY <1>1, <2>1, LoadedValues DEF ProfileInit
  <2>3. Loaded = [k \in Keys |-> Loaded[k]]
    BY DEF Loaded
  <2>4. Loaded = [k \in Keys |-> Unset]
    BY <2>2, <2>3
  <2>5. QED BY <1>1, <2>1, <2>4 DEF ProfileInit, ProfileInv
<1>2. ASSUME ProfileInv, [ProfileNext]_profileVars PROVE ProfileInv'
  <2> DEFINE R == [key: Keys, value: Values] \union {Other}
  <2>0. rows \in Seq(R) /\ Len(rows) \in Nat /\ cache \in [Keys -> Values \union {Unset}]
    BY <1>2 DEF ProfileInv, ProfileTypeOK
  <2>1. CASE Remember \/ SetEntry \/ RecordOther
    <3>1. PICK r \in R : rows' = Append(rows, r)
      BY <2>1 DEF Remember, SetEntry, RecordOther
    <3>2. rows' \in Seq(R) /\ Len(rows') = Len(rows) + 1
      <4> HIDE DEF R
      <4>1. QED BY <2>0, <3>1, AppendProperties
    <3>3. Len(rows) < MaxRows
      BY <2>1 DEF Remember, SetEntry, RecordOther
    <3>4. cache' \in [Keys -> Values \union {Unset}]
      BY <2>0, <2>1 DEF Remember, SetEntry, RecordOther
    <3>5. reloaded' = FALSE
      BY <2>1 DEF Remember, SetEntry, RecordOther
    <3>6. Len(rows') <= MaxRows
      BY <2>0, <3>2, <3>3, ProfileAssumption
    <3>7. QED BY <3>2, <3>4, <3>5, <3>6 DEF ProfileInv, ProfileTypeOK
  <2>2. CASE Reload
    <3>1. rows' = rows /\ cache' = Loaded /\ reloaded' = TRUE
      BY <2>2 DEF Reload
    <3>2. \A k \in Keys : Loaded[k] \in Values \union {Unset}
      BY <1>2, LoadedValues, RowsOfKeys DEF ProfileInv
    <3>3. Loaded \in [Keys -> Values \union {Unset}]
      <4>1. Loaded = [k \in Keys |-> Loaded[k]]
        BY DEF Loaded
      <4>2. QED BY <3>2, <4>1
    <3>4. Loaded' = Loaded
      BY <3>1 DEF Loaded, Recalled, LastRows
    <3>5. QED BY <1>2, <3>1, <3>3, <3>4 DEF ProfileInv, ProfileTypeOK
  <2>3. CASE UNCHANGED profileVars
    <3>1. Loaded' = Loaded
      BY <2>3 DEF Loaded, Recalled, LastRows, profileVars
    <3>2. QED BY <1>2, <2>3, <3>1 DEF ProfileInv, ProfileTypeOK, profileVars
  <2>4. QED BY <1>2, <2>1, <2>2, <2>3 DEF ProfileNext
<1>3. QED BY <1>1, <1>2

\* For every window and table: a reload of ProfileStore gives a key a value
\* exactly if the window has a row of it, and then the value of the oldest of
\* them.
THEOREM ReloadFindsTheOldest == ProfileSpec => [](ProfileTypeOK /\ ReloadedKeysAreStored)
<1>1. ProfileInv => ProfileTypeOK /\ ReloadedKeysAreStored
  <2> SUFFICES ASSUME ProfileInv, reloaded PROVE ReloadedKeysAreStored
    BY DEF ProfileInv, ReloadedKeysAreStored
  <2>1. ProfileTypeOK /\ cache = Loaded
    BY DEF ProfileInv
  <2> DEFINE from == Len(rows) - ProfileLimit + 1
  <2>2. ASSUME NEW k \in Keys
        PROVE  /\ cache[k] = Unset <=> Given(k, from) = {}
               /\ cache[k] # Unset =>
                    \E i \in DOMAIN rows :
                      /\ i >= from /\ rows[i] = [key |-> k, value |-> cache[k]]
                      /\ \A j \in DOMAIN rows : j >= from /\ rows[j].key = k => j >= i
    <3> DEFINE mine == {j \in DOMAIN rows : j >= from /\ rows[j].key = k}
    <3>1. /\ mine = {} => Loaded[k] = Unset
          /\ mine # {} => \E i \in mine : Loaded[k] = rows[i].value /\ \A j \in mine : j >= i
      BY <2>1, LoadedValues
    <3>2. \A i \in mine : rows[i].value \in Values /\ rows[i] = [key |-> k, value |-> rows[i].value]
      BY <2>1, RowsOfKeys
    <3>3. Given(k, from) = {} <=> mine = {}
      BY DEF Given
    <3>4. CASE mine = {}
      BY <2>1, <3>1, <3>3, <3>4
    <3>5. CASE mine # {}
      <4>1. PICK i \in mine : Loaded[k] = rows[i].value /\ \A j \in mine : j >= i
        BY <3>1, <3>5
      <4>2. cache[k] # Unset
        BY <2>1, <3>2, <4>1, ProfileAssumption
      <4>3. QED BY <2>1, <3>2, <3>3, <3>5, <4>1, <4>2
    <3>6. QED BY <3>4, <3>5
  <2>3. QED BY <2>2 DEF ReloadedKeysAreStored
<1>2. QED BY <1>1, ProfileInvIsInductive, PTL DEF ProfileSpec

-----------------------------------------------------------------------------
(* Learning: goroutines that record finished tasks side by side. *)

RowRecord == [kind: {"experience", "generated", "lesson"}, of: Finished]

LearnShape ==
  /\ LearnTypeOK /\ ending \in Endings /\ memories \in Seq(RowRecord)
  /\ recorder \in [Finished -> {"new", "check", "write", "fill", "lesson", "reflect", "done"}]
  /\ similar \in [Finished -> SUBSET Finished]

\* pd.mu lets one goroutine at a time make a skill.
OneMakesASkill ==
  \A t, x \in Finished : recorder[t] \in {"write", "fill", "lesson"}
    /\ recorder[x] \in {"write", "fill", "lesson"} => t = x

\* Successes that were recorded, enough of them to make a skill.
Earned(set) ==
  /\ Cardinality(set) >= MinPatternCount
  /\ \A t \in set : ending[t].ok /\ Row("experience", t) \in Range(memories)

Announces(i, x) == memories[i].kind = "generated" /\ Skill(memories[i].of) = x

\* Each file is created once and announced when it is whole, by the goroutine that wrote it.
FilesAreEarned ==
  /\ \A t \in Finished :
       /\ recorder[t] = "write" => Earned(similar[t])
       /\ recorder[t] \in {"write", "fill", "lesson"} => Skill(t) \in Tools
       /\ recorder[t] \in {"fill", "lesson"} =>
            skillFile[Skill(t)].writes = 1 /\ \A i \in DOMAIN memories : ~Announces(i, Skill(t))
       /\ recorder[t] = "lesson" => skillFile[Skill(t)].whole
  /\ \A x \in Tools :
       /\ skillFile[x].writes <= 1
       /\ skillFile[x].writes > 0 => Earned(skillFile[x].from)
       /\ x \in generated => skillFile[x].writes = 1
       /\ \A i \in DOMAIN memories : Announces(i, x) =>
            /\ skillFile[x].writes = 1 /\ skillFile[x].whole
            /\ \A j \in DOMAIN memories : Announces(j, x) => i = j

LearnInv == LearnShape /\ OneMakesASkill /\ FilesAreEarned

\* It holds at the start.
LEMMA LearnInvInitially == LearnInit => LearnInv
<1> SUFFICES ASSUME LearnInit PROVE LearnInv
  OBVIOUS
<1>1. Cardinality(Finished) \in Nat
  BY LearningAssumption, FS_CardinalityType
<1>2. LearnShape
  BY <1>1, LearningAssumption DEF LearnInit, LearnShape, LearnTypeOK, NoSkill
<1>3. OneMakesASkill /\ FilesAreEarned
  BY DEF LearnInit, OneMakesASkill, FilesAreEarned, NoSkill
<1>4. QED BY <1>2, <1>3 DEF LearnInv

\* A row may be added to the memory, after all the others.
LEMMA RowsStay ==
  ASSUME memories \in Seq(RowRecord), NEW r \in RowRecord, Add(r)
  PROVE  /\ memories' \in Seq(RowRecord) /\ Range(memories) \subseteq Range(memories')
         /\ \A i \in DOMAIN memories : i \in DOMAIN memories' /\ memories'[i] = memories[i]
         /\ \A i \in DOMAIN memories' \ DOMAIN memories : i = Len(memories) + 1 /\ memories'[i] = r
<1>1. CASE memories' = memories
  BY <1>1
<1>2. CASE memories' = Append(memories, r)
  <2>1. /\ memories' \in Seq(RowRecord) /\ DOMAIN memories' = 1..(Len(memories) + 1)
        /\ \A i \in 1..Len(memories) : memories'[i] = memories[i]
        /\ memories'[Len(memories) + 1] = r
    BY <1>2, AppendProperties
  <2>2. DOMAIN memories = 1..Len(memories) /\ Len(memories) \in Nat
    OBVIOUS
  <2>3. Range(memories) \subseteq Range(memories')
    BY <2>1, <2>2 DEF Range
  <2>4. QED BY <2>1, <2>2, <2>3
<1>3. QED BY <1>1, <1>2 DEF Add

\* A step of one goroutine that adds a row but announces nothing.
LEMMA RowKeepsLearnInv ==
  ASSUME LearnInv, NEW t \in Finished, NEW at \in {"check", "reflect", "done"},
         NEW r \in RowRecord, r.kind # "generated", Add(r) \/ UNCHANGED memories,
         recorder' = [recorder EXCEPT ![t] = at],
         UNCHANGED <<ending, similar, generated, skillFile, stops>>
  PROVE  LearnInv'
<1>1. /\ memories \in Seq(RowRecord) /\ recorder \in [Finished -> {"new", "check", "write", "fill",
           "lesson", "reflect", "done"}]
  BY DEF LearnInv, LearnShape
<1>2. /\ memories' \in Seq(RowRecord) /\ Range(memories) \subseteq Range(memories')
      /\ \A i \in DOMAIN memories : i \in DOMAIN memories' /\ memories'[i] = memories[i]
      /\ \A i \in DOMAIN memories' \ DOMAIN memories : memories'[i] = r
  BY <1>1, RowsStay
<1>3. recorder'[t] = at /\ \A x \in Finished : x # t => recorder'[x] = recorder[x]
  BY <1>1
<1>4. LearnShape' /\ OneMakesASkill'
  BY <1>1, <1>2, <1>3 DEF LearnInv, LearnShape, LearnTypeOK, OneMakesASkill
<1>5. \A x : \A i \in DOMAIN memories' : Announces(i, x)' =>
        i \in DOMAIN memories /\ Announces(i, x)
  BY <1>2 DEF Announces, Skill
<1>6. \A set : Earned(set) => Earned(set)'
  BY <1>2 DEF Earned
<1>7. \A x \in Finished : Skill(x)' = Skill(x)
  BY DEF Skill
<1>8. FilesAreEarned'
  BY <1>3, <1>5, <1>6, <1>7 DEF LearnInv, FilesAreEarned
<1>9. QED BY <1>4, <1>8 DEF LearnInv

LEMMA RecordKeepsLearnInv ==
  ASSUME LearnInv, NEW t \in Finished, Record(t) \/ ReflectOn(t)
  PROVE  LearnInv'
<1>1. CASE Record(t)
  <2>1. Row("experience", t) \in RowRecord /\ Row("experience", t).kind # "generated"
    BY DEF Row, RowRecord
  <2>2. QED BY <1>1, <2>1, RowKeepsLearnInv DEF Record, Moves
<1>2. CASE ReflectOn(t)
  <2>1. Row("lesson", t) \in RowRecord /\ Row("lesson", t).kind # "generated"
    BY DEF Row, RowRecord
  <2>2. QED BY <1>2, <2>1, RowKeepsLearnInv DEF ReflectOn, Moves
<1>3. QED BY <1>1, <1>2

\* What a goroutine finds are successes the memory has, of a task that used a tool.
LEMMA FindKeepsLearnInv ==
  ASSUME LearnInv, NEW t \in Finished, FindSimilar(t)
  PROVE  LearnInv'
<1> DEFINE found == {x \in Of("experience", Newest(PatternLimit)) : ending[x].ok /\ Overlap(t, x)}
<1>1. /\ recorder[t] = "check" /\ PatternsFree
      /\ \/ Moves(t, "reflect") /\ UNCHANGED similar
         \/ /\ ~(Cardinality(found) < MinPatternCount)
            /\ Moves(t, "write") /\ similar' = [similar EXCEPT ![t] = found]
      /\ UNCHANGED <<ending, memories, generated, skillFile, stops>>
  BY DEF FindSimilar
<1>2. /\ memories \in Seq(RowRecord) /\ ending \in Endings
      /\ recorder \in [Finished -> {"new", "check", "write", "fill", "lesson", "reflect", "done"}]
      /\ similar \in [Finished -> SUBSET Finished]
  BY DEF LearnInv, LearnShape
<1>3. found \subseteq Finished /\ \A x \in found : Row("experience", x) \in Range(memories)
  <2>1. ASSUME NEW x \in found PROVE x \in Finished /\ Row("experience", x) \in Range(memories)
    <3>1. PICK i \in DOMAIN memories : memories[i].kind = "experience" /\ memories[i].of = x
      BY DEF Of, Newest
    <3>2. memories[i] \in RowRecord
      BY <1>2
    <3>3. memories[i] = Row("experience", x) /\ x \in Finished
      BY <3>1, <3>2 DEF RowRecord, Row
    <3>4. QED BY <3>3 DEF Range
  <2>2. QED BY <2>1
<1>4. CASE Moves(t, "reflect") /\ UNCHANGED similar
  <2>1. recorder'[t] = "reflect" /\ \A x \in Finished : x # t => recorder'[x] = recorder[x]
    BY <1>2, <1>4 DEF Moves
  <2>2. LearnShape' /\ OneMakesASkill'
    BY <1>1, <1>2, <1>4, <2>1 DEF Moves, LearnInv, LearnShape, LearnTypeOK, OneMakesASkill
  <2>3. FilesAreEarned'
    BY <1>1, <1>4, <2>1 DEF LearnInv, FilesAreEarned, Earned, Announces, Skill
  <2>4. QED BY <2>2, <2>3 DEF LearnInv
<1>5. CASE /\ ~(Cardinality(found) < MinPatternCount)
           /\ Moves(t, "write") /\ similar' = [similar EXCEPT ![t] = found]
  <2>1. IsFiniteSet(found) /\ Cardinality(found) \in Nat
    BY <1>3, LearningAssumption, FS_Subset, FS_CardinalityType
  <2>2. Cardinality(found) >= MinPatternCount
    BY <1>5, <2>1 DEF MinPatternCount
  <2>3. \E x \in found : TRUE
    <3>1. CASE found = {}
      BY <2>2, <3>1, FS_EmptySet DEF MinPatternCount
    <3>2. QED BY <3>1
  <2>4. Skill(t) \in Tools
    <3>1. ending[t] \in [tools: Seq(Tools), ok: BOOLEAN, long: BOOLEAN]
      BY <1>2, LearningAssumption
    <3>2. ending[t].tools \in Seq(Tools)
      BY <3>1
    <3>3. Range(ending[t].tools) # {}
      BY <2>3 DEF Overlap
    <3>4. PICK i \in DOMAIN ending[t].tools : TRUE
      BY <3>3 DEF Range
    <3>5. 1 \in DOMAIN ending[t].tools
      BY <3>2, <3>4
    <3>6. QED BY <3>2, <3>5 DEF Skill
  <2> HIDE DEF found
  <2>5. /\ recorder'[t] = "write" /\ similar'[t] = found
        /\ \A x \in Finished : x # t => recorder'[x] = recorder[x] /\ similar'[x] = similar[x]
    BY <1>2, <1>5 DEF Moves
  <2>6. LearnShape'
    BY <1>1, <1>2, <1>3, <1>5, <2>5 DEF Moves, LearnInv, LearnShape, LearnTypeOK
  <2>7. OneMakesASkill'
    BY <1>1, <2>5 DEF OneMakesASkill, PatternsFree
  <2>8. Earned(found)
    BY <1>3, <2>2 DEF Earned, found
  <2>9. FilesAreEarned'
    <3>1. \A set : Earned(set)' <=> Earned(set)
      BY <1>1 DEF Earned
    <3>2. \A x \in Finished : Skill(x)' = Skill(x)
      BY <1>1 DEF Skill
    <3>3. \A i, x : Announces(i, x)' <=> Announces(i, x)
      BY <1>1 DEF Announces, Skill
    <3>4. QED BY <1>1, <2>4, <2>5, <2>8, <3>1, <3>2, <3>3 DEF LearnInv, FilesAreEarned
  <2>10. QED BY <2>6, <2>7, <2>9 DEF LearnInv
<1>6. QED BY <1>1, <1>4, <1>5

LEMMA WriteKeepsLearnInv ==
  ASSUME LearnInv, NEW t \in Finished, WriteSkill(t)
  PROVE  LearnInv'
<1>1. recorder[t] = "write" /\ UNCHANGED <<ending, memories, similar, stops>>
  BY DEF WriteSkill
<1>2. PICK x \in Tools : x = Skill(t)
  BY <1>1 DEF LearnInv, FilesAreEarned
<1>3. /\ recorder \in [Finished -> {"new", "check", "write", "fill", "lesson", "reflect", "done"}]
      /\ similar \in [Finished -> SUBSET Finished] /\ generated \subseteq Tools
      /\ skillFile \in [Tools -> [writes : 0..Cardinality(Finished), whole : BOOLEAN, from : SUBSET Finished]]
      /\ Cardinality(Finished) \in Nat /\ Cardinality(Finished) >= 1
  <2>1. {t} \subseteq Finished /\ Cardinality({t}) = 1
    BY FS_Singleton
  <2>2. Cardinality(Finished) \in Nat /\ Cardinality({t}) <= Cardinality(Finished)
    BY <2>1, LearningAssumption, FS_Subset, FS_CardinalityType
  <2>3. QED BY <2>1, <2>2 DEF LearnInv, LearnShape, LearnTypeOK
<1>4. /\ \A set : Earned(set)' <=> Earned(set)
      /\ \A y \in Finished : Skill(y)' = Skill(y)
      /\ \A i : \A y : Announces(i, y)' <=> Announces(i, y)
  BY <1>1 DEF Earned, Announces, Skill
<1>5. CASE Moves(t, "reflect") /\ UNCHANGED skillFile
           /\ (generated' = generated \/ (generated' = generated \union {x}
                /\ skillFile[x].writes > 0))
  <2>1. recorder'[t] = "reflect" /\ \A y \in Finished : y # t => recorder'[y] = recorder[y]
    BY <1>3, <1>5 DEF Moves
  <2>2. LearnShape' /\ OneMakesASkill'
    BY <1>1, <1>3, <1>5, <2>1 DEF Moves, LearnInv, LearnShape, LearnTypeOK, OneMakesASkill
  <2>3. \A y \in generated' : y \in Tools => skillFile[y].writes = 1
    <3>1. skillFile[x].writes \in Nat /\ (skillFile[x].writes > 0 => skillFile[x].writes = 1)
      BY <1>3 DEF LearnInv, FilesAreEarned
    <3>2. QED BY <1>5, <3>1 DEF LearnInv, FilesAreEarned
  <2>4. FilesAreEarned'
    BY <1>1, <1>4, <1>5, <2>1, <2>3 DEF LearnInv, FilesAreEarned
  <2>5. QED BY <2>2, <2>4 DEF LearnInv
<1>6. CASE CreateSkill(t) /\ ~(skillFile[x].writes > 0)
  <2>1. /\ skillFile[x].writes = 0
        /\ skillFile' = [skillFile EXCEPT ![x] =
                           [writes |-> 1, whole |-> FALSE, from |-> similar[t]]]
        /\ generated' = generated /\ recorder' = [recorder EXCEPT ![t] = "fill"]
    <3>1. skillFile[x].writes = 0 /\ skillFile[x].writes + 1 = 1
      BY <1>3, <1>6
    <3>2. QED BY <1>2, <1>6, <3>1 DEF CreateSkill, Moves
  <2>2. /\ recorder'[t] = "fill" /\ \A y \in Finished : y # t => recorder'[y] = recorder[y]
        /\ skillFile'[x].writes = 1 /\ skillFile'[x].from = similar[t]
        /\ \A y \in Tools : y # x => skillFile'[y] = skillFile[y]
    BY <1>3, <2>1
  <2>3. LearnShape'
    <3>1. [writes |-> 1, whole |-> FALSE, from |-> similar[t]]
            \in [writes : 0..Cardinality(Finished), whole : BOOLEAN, from : SUBSET Finished]
      BY <1>3
    <3>2. QED BY <1>1, <1>3, <2>1, <3>1 DEF LearnInv, LearnShape, LearnTypeOK
  <2>4. OneMakesASkill'
    BY <1>1, <2>2 DEF LearnInv, OneMakesASkill
  <2>5. /\ Earned(similar[t]) /\ x \notin generated
        /\ \A i \in DOMAIN memories : ~Announces(i, x)
    BY <1>1, <2>1 DEF LearnInv, FilesAreEarned
  <2>6. \A y \in Finished : y # t => recorder'[y] \notin {"write", "fill", "lesson"}
    BY <1>1, <2>2 DEF LearnInv, OneMakesASkill
  <2>7. FilesAreEarned'
    <3>1. ASSUME NEW y \in Finished
          PROVE  /\ recorder'[y] = "write" => Earned(similar[y])'
                 /\ recorder'[y] \in {"write", "fill", "lesson"} => Skill(y)' \in Tools
                 /\ recorder'[y] \in {"fill", "lesson"} =>
                      /\ skillFile'[Skill(y)'].writes = 1
                      /\ \A i \in DOMAIN memories' : ~Announces(i, Skill(y))'
                 /\ recorder'[y] # "lesson"
      BY <1>1, <1>2, <1>4, <2>2, <2>5, <2>6
    <3>2. ASSUME NEW y \in Tools
          PROVE  /\ skillFile'[y].writes <= 1
                 /\ skillFile'[y].writes > 0 => Earned(skillFile[y].from)'
                 /\ y \in generated' => skillFile'[y].writes = 1
                 /\ \A i \in DOMAIN memories' : Announces(i, y)' =>
                      /\ skillFile'[y].writes = 1 /\ skillFile'[y].whole
                      /\ \A j \in DOMAIN memories' : Announces(j, y)' => i = j
      <4>1. CASE y = x
        BY <1>1, <1>4, <2>1, <2>2, <2>5, <4>1
      <4>2. CASE y # x
        BY <1>1, <1>4, <2>1, <2>2, <4>2 DEF LearnInv, FilesAreEarned
      <4>3. QED BY <4>1, <4>2
    <3>3. QED BY <3>1, <3>2 DEF FilesAreEarned
  <2>8. QED BY <2>3, <2>4, <2>7 DEF LearnInv
<1>7. QED BY <1>2, <1>5, <1>6 DEF WriteSkill, GiveSkillUp

\* The file is whole or stays cut; nobody else is at it.
LEMMA FillKeepsLearnInv ==
  ASSUME LearnInv, NEW t \in Finished, FillSkill(t)
  PROVE  LearnInv'
<1>1. recorder[t] = "fill" /\ UNCHANGED <<ending, memories, similar, stops>>
  BY DEF FillSkill
<1>2. PICK x \in Tools : x = Skill(t)
  BY <1>1 DEF LearnInv, FilesAreEarned
<1>3. /\ recorder \in [Finished -> {"new", "check", "write", "fill", "lesson", "reflect", "done"}]
      /\ generated \subseteq Tools
      /\ skillFile \in [Tools -> [writes : 0..Cardinality(Finished), whole : BOOLEAN,
                                  from : SUBSET Finished]]
  BY DEF LearnInv, LearnShape, LearnTypeOK
<1>4. /\ \A set : Earned(set)' <=> Earned(set)
      /\ \A y \in Finished : Skill(y)' = Skill(y)
      /\ \A i : \A y : Announces(i, y)' <=> Announces(i, y)
  BY <1>1 DEF Earned, Announces, Skill
<1>5. CASE GiveSkillUp(t)
  <2>1. recorder'[t] = "reflect" /\ \A y \in Finished : y # t => recorder'[y] = recorder[y]
    BY <1>3, <1>5 DEF GiveSkillUp, Moves
  <2>2. LearnShape' /\ OneMakesASkill'
    BY <1>1, <1>3, <1>5, <2>1 DEF GiveSkillUp, Moves, LearnInv, LearnShape, LearnTypeOK, OneMakesASkill
  <2>3. FilesAreEarned'
    BY <1>1, <1>4, <1>5, <2>1 DEF GiveSkillUp, LearnInv, FilesAreEarned
  <2>4. QED BY <2>2, <2>3 DEF LearnInv
<1>6. CASE /\ skillFile' = [skillFile EXCEPT ![x].whole = TRUE]
           /\ generated' = generated \union {x} /\ Moves(t, "lesson")
  <2>1. /\ recorder'[t] = "lesson" /\ \A y \in Finished : y # t => recorder'[y] = recorder[y]
        /\ skillFile'[x].whole /\ \A y \in Tools : y # x => skillFile'[y] = skillFile[y]
        /\ skillFile'[x].writes = skillFile[x].writes /\ skillFile'[x].from = skillFile[x].from
    BY <1>3, <1>6 DEF Moves
  <2>2. LearnShape'
    BY <1>1, <1>3, <1>6 DEF Moves, LearnInv, LearnShape, LearnTypeOK
  <2>3. OneMakesASkill'
    BY <1>1, <2>1 DEF LearnInv, OneMakesASkill
  <2>4. /\ skillFile[x].writes = 1 /\ \A i \in DOMAIN memories : ~Announces(i, x)
        /\ \A y \in Finished : y # t => recorder'[y] \notin {"write", "fill", "lesson"}
    BY <1>1, <1>2, <2>1 DEF LearnInv, FilesAreEarned, OneMakesASkill
  <2>5. FilesAreEarned'
    <3>1. ASSUME NEW y \in Finished
          PROVE  /\ recorder'[y] # "write"
                 /\ recorder'[y] \in {"write", "fill", "lesson"} => Skill(y)' \in Tools
                 /\ recorder'[y] \in {"fill", "lesson"} =>
                      /\ skillFile'[Skill(y)'].writes = 1
                      /\ \A i \in DOMAIN memories' : ~Announces(i, Skill(y))'
                 /\ recorder'[y] = "lesson" => skillFile'[Skill(y)'].whole
      BY <1>1, <1>2, <1>4, <2>1, <2>4
    <3>2. ASSUME NEW y \in Tools
          PROVE  /\ skillFile'[y].writes <= 1
                 /\ skillFile'[y].writes > 0 => Earned(skillFile[y].from)'
                 /\ y \in generated' => skillFile'[y].writes = 1
                 /\ \A i \in DOMAIN memories' : Announces(i, y)' =>
                      /\ skillFile'[y].writes = 1 /\ skillFile'[y].whole
                      /\ \A j \in DOMAIN memories' : Announces(j, y)' => i = j
      <4>1. CASE y = x
        BY <1>1, <1>4, <2>1, <2>4, <4>1 DEF LearnInv, FilesAreEarned
      <4>2. CASE y # x
        BY <1>1, <1>4, <1>6, <2>1, <4>2 DEF LearnInv, FilesAreEarned
      <4>3. QED BY <4>1, <4>2
    <3>3. QED BY <3>1, <3>2 DEF FilesAreEarned
  <2>6. QED BY <2>2, <2>3, <2>5 DEF LearnInv
<1>7. QED BY <1>2, <1>5, <1>6 DEF FillSkill

LEMMA LessonKeepsLearnInv ==
  ASSUME LearnInv, NEW t \in Finished, StoreLesson(t)
  PROVE  LearnInv'
<1>1. /\ recorder[t] = "lesson" /\ Add(Row("generated", t))
      /\ recorder' = [recorder EXCEPT ![t] = "reflect"]
      /\ UNCHANGED <<ending, similar, generated, skillFile, stops>>
  BY DEF StoreLesson, Moves
<1>2. /\ memories \in Seq(RowRecord)
      /\ recorder \in [Finished -> {"new", "check", "write", "fill", "lesson", "reflect", "done"}]
  BY DEF LearnInv, LearnShape
<1>3. Row("generated", t) \in RowRecord /\ Row("generated", t).of = t
  BY DEF Row, RowRecord
<1>4. /\ memories' \in Seq(RowRecord) /\ Range(memories) \subseteq Range(memories')
      /\ \A i \in DOMAIN memories : i \in DOMAIN memories' /\ memories'[i] = memories[i]
      /\ \A i \in DOMAIN memories' \ DOMAIN memories : i = Len(memories) + 1 /\ memories'[i].of = t
  BY <1>1, <1>2, <1>3, RowsStay
<1>5. recorder'[t] = "reflect" /\ \A x \in Finished : x # t => recorder'[x] = recorder[x]
  BY <1>1, <1>2
<1>6. LearnShape' /\ OneMakesASkill'
  BY <1>1, <1>2, <1>4, <1>5 DEF LearnInv, LearnShape, LearnTypeOK, OneMakesASkill
<1>7. /\ \A set : Earned(set) => Earned(set)'
      /\ \A x \in Finished : Skill(x)' = Skill(x)
  BY <1>1, <1>4 DEF Earned, Skill
<1>8. /\ Skill(t) \in Tools /\ skillFile[Skill(t)].writes = 1 /\ skillFile[Skill(t)].whole
      /\ \A i \in DOMAIN memories : ~Announces(i, Skill(t))
      /\ \A x \in Finished : x # t => recorder'[x] \notin {"write", "fill", "lesson"}
  BY <1>1, <1>5 DEF LearnInv, FilesAreEarned, OneMakesASkill
<1>9. \A x : \A i \in DOMAIN memories' :
        Announces(i, x)' => (i \in DOMAIN memories /\ Announces(i, x))
          \/ (i = Len(memories) + 1 /\ x = Skill(t))
  BY <1>1, <1>4 DEF Announces, Skill
<1>10. ASSUME NEW x \in Tools, NEW i \in DOMAIN memories', Announces(i, x)'
       PROVE  /\ skillFile[x].writes = 1 /\ skillFile[x].whole
              /\ \A j \in DOMAIN memories' : Announces(j, x)' => i = j
  <2>1. CASE x = Skill(t)
    BY <1>8, <1>9, <1>10, <2>1
  <2>2. CASE x # Skill(t)
    BY <1>9, <1>10, <2>2 DEF LearnInv, FilesAreEarned
  <2>3. QED BY <2>1, <2>2
<1>11. FilesAreEarned'
  BY <1>1, <1>5, <1>7, <1>8, <1>10 DEF LearnInv, FilesAreEarned
<1>12. QED BY <1>6, <1>11 DEF LearnInv

LEMMA StopKeepsLearnInv ==
  ASSUME LearnInv, StopAndStart
  PROVE  LearnInv'
<1>1. /\ stops < MaxStops /\ stops' = stops + 1 /\ generated' = {}
      /\ recorder' = [t \in Finished |-> IF recorder[t] = "new" THEN "new" ELSE "done"]
      /\ UNCHANGED <<ending, memories, similar, skillFile>>
  BY DEF StopAndStart
<1>2. LearnShape'
  BY <1>1, LearningAssumption DEF LearnInv, LearnShape, LearnTypeOK
<1>3. OneMakesASkill'
  BY <1>1 DEF OneMakesASkill
<1>4. FilesAreEarned'
  BY <1>1 DEF LearnInv, FilesAreEarned, Earned, Announces, Skill
<1>5. QED BY <1>2, <1>3, <1>4 DEF LearnInv

\* Every step keeps it.
LEMMA LearnInvIsInductive == LearnInv /\ [LearnNext]_learnVars => LearnInv'
<1>1. LearnInv /\ UNCHANGED learnVars => LearnInv'
  BY DEF learnVars, LearnInv, LearnShape, LearnTypeOK, OneMakesASkill, FilesAreEarned, Earned,
     Announces, Skill
<1>2. QED
  BY <1>1, RecordKeepsLearnInv, FindKeepsLearnInv, WriteKeepsLearnInv, FillKeepsLearnInv,
     LessonKeepsLearnInv, StopKeepsLearnInv
     DEF LearnNext

\* For every set of tasks and every way they may end: a skill file is created
\* at most once, from at least two recorded successes, and announced at most
\* once and only when it is whole, whatever crashes come between the steps of
\* the recorder and whatever writes fail.
THEOREM SkillsAreAlwaysLearntOnce == LearnSpec => [](LearnTypeOK /\ SkillsAreLearntOnce)
<1>1. LearnInv => LearnTypeOK /\ SkillsAreLearntOnce
  <2> SUFFICES ASSUME LearnInv, NEW x \in Tools
               PROVE  /\ skillFile[x].writes <= 1
                      /\ Announced(x) <= (IF skillFile[x].whole THEN 1 ELSE 0)
                      /\ skillFile[x].writes > 0 => Earned(skillFile[x].from)
                      /\ x \in generated => skillFile[x].writes = 1
    BY DEF SkillsAreLearntOnce, Earned, LearnInv, LearnShape
  <2> DEFINE told == {i \in DOMAIN memories : memories[i].kind = "generated"
        /\ Skill(memories[i].of) = x}
  <2>1. Announced(x) = Cardinality(told)
    BY DEF Announced
  <2>3. \A i, j \in told : i = j /\ skillFile[x].whole
    BY DEF LearnInv, FilesAreEarned, Announces
  <2>4. Cardinality(told) <= (IF skillFile[x].whole THEN 1 ELSE 0)
    <3>1. CASE told = {}
      <4>1. Cardinality(told) = 0
        BY <3>1, FS_EmptySet
      <4>2. QED BY <4>1
    <3>2. CASE told # {}
      <4>1. PICK i \in told : told = {i}
        BY <2>3, <3>2
      <4>2. Cardinality({i}) = 1
        BY FS_Singleton
      <4>3. QED BY <2>3, <4>1, <4>2
    <3>3. QED BY <3>1, <3>2
  <2>5. QED BY <2>1, <2>4 DEF LearnInv, LearnShape, FilesAreEarned
<1>2. QED BY <1>1, LearnInvInitially, LearnInvIsInductive, PTL DEF LearnSpec

-----------------------------------------------------------------------------
(* Compaction: the memory store, its cache and its two compactions. *)

\* The memory keeps to its capacity between two operations.
CompactInv ==
  /\ limits \in MemoryConfigs /\ nextId \in Nat
  /\ shortTerm \in Seq(Entries) /\ Len(shortTerm) <= limits.capacity

\* What trim leaves is within both limits, or it is nothing.
LEMMA TrimmedFits ==
  ASSUME NEW s \in Seq(Entries), NEW t
  PROVE  LET new == Trimmed(s, t)
         IN  /\ new.entries \in Seq(Entries)
             /\ new.entries = <<>> \/ ~Over(new.entries, new.tokens)
<1> DEFINE left(n)  == SubSeq(s, n + 1, Len(s))
           count(n) == Less(t, SubSeq(s, 1, n))
           fits     == {n \in 0..Len(s) : n = Len(s) \/ ~Over(left(n), count(n))}
           cut      == CHOOSE n \in fits : \A m \in fits : n <= m
<1>1. Len(s) \in Nat /\ Len(s) \in fits /\ fits \subseteq Nat
  OBVIOUS
<1>2. \E n \in fits : \A m \in fits : n <= m
  <2> HIDE DEF fits
  <2>1. QED BY <1>1, LeastNumber
<1>3. cut \in fits
  <2> HIDE DEF fits
  <2>1. QED BY <1>2
<1>4. Trimmed(s, t) = [entries |-> left(cut), tokens |-> count(cut)]
  BY DEF Trimmed
<1>5. cut \in 0..Len(s) /\ (cut = Len(s) \/ ~Over(left(cut), count(cut)))
  BY <1>3
<1> HIDE DEF cut, fits
<1>6. left(cut) \in Seq(Entries)
  BY <1>1, <1>5, SubSeqProperties
<1>7. cut = Len(s) => left(cut) = <<>>
  BY <1>1, SubSeqProperties, EmptySeq
<1> HIDE DEF left, count
<1>8. QED BY <1>4, <1>5, <1>6, <1>7

\* What stays and what leaves in a compaction.
LEMMA KeptAndLeaving ==
  ASSUME NEW s \in Seq(Entries), NEW target \in Nat
  PROVE  /\ Kept(s, target) \in Seq(Entries) /\ Len(Kept(s, target)) <= Len(s)
         /\ Leaving(s, target) # <<>> => target \div 2 < Len(s)
<1>1. Len(s) \in Nat /\ target \div 2 \in Nat
  OBVIOUS
<1> DEFINE from == IF Len(s) > target \div 2 THEN Len(s) - target \div 2 + 1 ELSE 1
<1>2. from \in 1..(Len(s) + 1)
  BY <1>1
<1>3. Kept(s, target) = SubSeq(s, from, Len(s))
  BY DEF Kept
<1>4. Kept(s, target) \in Seq(Entries) /\ Len(Kept(s, target)) = Len(s) - from + 1
  <2> HIDE DEF from
  <2>1. QED BY <1>1, <1>2, <1>3, SubSeqProperties
<1>5. Len(Kept(s, target)) <= Len(s)
  <2> HIDE DEF from
  <2>1. QED BY <1>1, <1>2, <1>4
<1>6. ASSUME ~(target \div 2 < Len(s)) PROVE Leaving(s, target) = <<>>
  <2>1. from = 1
    BY <1>1, <1>6
  <2>2. Len(s) - Len(Kept(s, target)) = 0
    BY <1>1, <1>4, <2>1
  <2>3. SubSeq(s, 1, 0) = <<>>
    BY SubSeqProperties, EmptySeq
  <2>4. QED BY <2>2, <2>3 DEF Leaving
<1>7. QED BY <1>4, <1>5, <1>6

LEMMA StoreKeepsCompactInv ==
  ASSUME CompactInv, StoreShort
  PROVE  CompactInv' /\ summarised' = summarised
<1>1. PICK size \in EntrySizes :
        LET new == Trimmed(Append(shortTerm, [id |-> nextId, size |-> size]), tokens + size)
        IN IF Triggers(new.tokens)
           THEN Settle(new.entries, new.tokens, limits.tokens)
           ELSE shortTerm' = new.entries /\ tokens' = new.tokens /\ UNCHANGED summarised
  BY DEF StoreShort
<1>2. limits' = limits /\ nextId' = nextId + 1
  BY DEF StoreShort
<1> DEFINE s == Append(shortTerm, [id |-> nextId, size |-> size])
           new == Trimmed(s, tokens + size)
<1>3. s \in Seq(Entries)
  <2>1. [id |-> nextId, size |-> size] \in Entries
    BY CompactionAssumption DEF CompactInv, Entries
  <2>2. QED BY <2>1, AppendProperties DEF CompactInv
<1>4. \/ Settle(new.entries, new.tokens, limits.tokens)
      \/ shortTerm' = new.entries /\ UNCHANGED summarised
  BY <1>1
<1> HIDE DEF s
<1>5. new.entries \in Seq(Entries) /\ (new.entries = <<>> \/ ~Over(new.entries, new.tokens))
  BY <1>3, TrimmedFits
<1> HIDE DEF new
<1>6. limits.tokens \in Nat /\ limits.capacity \in Nat
  BY CompactionAssumption DEF CompactInv
<1>7. ~Compacts(new.entries, new.tokens, limits.tokens)
  <2>1. CASE new.entries = <<>>
    <3>1. Len(new.entries) = 0 /\ limits.tokens \div 2 \in Nat
      BY <1>6, <2>1
    <3>2. ~(limits.tokens \div 2 < Len(new.entries))
      BY <3>1
    <3>3. QED BY <1>5, <1>6, <3>2, KeptAndLeaving DEF Compacts
  <2>2. CASE ~Over(new.entries, new.tokens)
    BY <2>2 DEF Over, Compacts
  <2>3. QED BY <1>5, <2>1, <2>2
<1>8. shortTerm' = new.entries /\ summarised' = summarised
  BY <1>4, <1>7 DEF Settle
<1>9. Len(new.entries) <= limits.capacity
  <2>1. CASE new.entries = <<>>
    BY <1>6, <2>1
  <2>2. CASE ~Over(new.entries, new.tokens)
    BY <1>5, <1>6, <2>2 DEF Over
  <2>3. QED BY <1>5, <2>1, <2>2
<1>10. QED BY <1>2, <1>5, <1>8, <1>9 DEF CompactInv

LEMMA CompactKeepsCompactInv ==
  ASSUME CompactInv, CompactAfterTask
  PROVE  /\ CompactInv' /\ nextId' = nextId
         /\ summarised' # summarised => limits.tokens \div 4 < limits.capacity
<1>1. UNCHANGED <<limits, nextId>> /\ Settle(shortTerm, tokens, limits.tokens \div 2)
  BY DEF CompactAfterTask
<1> DEFINE target == limits.tokens \div 2
<1>2. /\ limits.tokens \in Nat /\ limits.capacity \in Nat /\ target \in Nat
      /\ target \div 2 = limits.tokens \div 4
  BY CompactionAssumption DEF CompactInv
<1>3. Settle(shortTerm, tokens, target)
  BY <1>1
<1> HIDE DEF target
<1>4. shortTerm \in Seq(Entries) /\ Len(shortTerm) \in Nat /\ Len(shortTerm) <= limits.capacity
  BY DEF CompactInv
<1>5. CASE Compacts(shortTerm, tokens, target)
  <2>1. shortTerm' = Kept(shortTerm, target) /\ Leaving(shortTerm, target) # <<>>
    BY <1>3, <1>5 DEF Settle, Compacts
  <2>2. /\ shortTerm' \in Seq(Entries) /\ Len(shortTerm') <= Len(shortTerm)
        /\ target \div 2 < Len(shortTerm)
    BY <1>2, <1>4, <2>1, KeptAndLeaving
  <2>3. limits.tokens \div 4 < limits.capacity
    BY <1>2, <1>4, <2>2
  <2>4. Len(shortTerm') <= limits.capacity
    BY <1>2, <1>4, <2>2
  <2>5. QED BY <1>1, <2>2, <2>3, <2>4 DEF CompactInv
<1>6. CASE ~Compacts(shortTerm, tokens, target)
  BY <1>1, <1>3, <1>6 DEF Settle, CompactInv
<1>7. QED BY <1>5, <1>6

LEMMA DeleteKeepsCompactInv ==
  ASSUME CompactInv, DeleteShort
  PROVE  CompactInv' /\ summarised' = summarised
<1>1. PICK i \in DOMAIN shortTerm : shortTerm' = RemoveAt(shortTerm, i)
  BY DEF DeleteShort
<1>2. UNCHANGED <<limits, nextId, summarised>>
  BY DEF DeleteShort
<1>3. /\ shortTerm \in Seq(Entries) /\ Len(shortTerm) \in Nat /\ i \in 1..Len(shortTerm)
      /\ Len(shortTerm) <= limits.capacity /\ limits.capacity \in Nat
  BY CompactionAssumption DEF CompactInv
<1> DEFINE u == SubSeq(shortTerm, 1, i - 1)
           v == SubSeq(shortTerm, i + 1, Len(shortTerm))
<1>4. u \in Seq(Entries) /\ Len(u) = i - 1
  BY <1>3, SubSeqProperties
<1>5. v \in Seq(Entries) /\ Len(v) = Len(shortTerm) - i
  BY <1>3, SubSeqProperties
<1>6. shortTerm' = u \o v
  BY <1>1 DEF RemoveAt
<1> HIDE DEF u, v
<1>7. u \o v \in Seq(Entries) /\ Len(u \o v) = Len(shortTerm) - 1
  BY <1>3, <1>4, <1>5, ConcatProperties
<1>8. Len(shortTerm') <= limits.capacity
  BY <1>3, <1>6, <1>7
<1>9. QED BY <1>2, <1>6, <1>7, <1>8 DEF CompactInv

\* The compactor of the memory, for every limit and every size of an entry:
\* the compaction inside Store moves nothing to long-term memory, and the one
\* after a task does only if a quarter of the token budget is below the capacity.
THEOREM CompactionMovesLittle == CompactionSpec => OnlyPostTaskCompactionMoves
<1>1. CompactionInit => CompactInv
  <2> SUFFICES ASSUME CompactionInit PROVE CompactInv
    OBVIOUS
  <2>1. limits \in MemoryConfigs /\ limits.capacity \in Nat
    BY CompactionAssumption DEF CompactionInit
  <2>2. <<>> \in Seq(Entries) /\ Len(<<>>) = 0
    OBVIOUS
  <2>3. QED BY <2>1, <2>2 DEF CompactionInit, CompactInv
<1>2. CompactInv /\ [CompactionNext]_memVars =>
        /\ CompactInv'
        /\ [summarised' # summarised =>
              nextId' = nextId /\ limits.tokens \div 4 < limits.capacity]_memVars
  <2> SUFFICES ASSUME CompactInv, [CompactionNext]_memVars
               PROVE  /\ CompactInv'
                      /\ summarised' # summarised =>
                           nextId' = nextId /\ limits.tokens \div 4 < limits.capacity
    OBVIOUS
  <2>1. CASE CloseMemory \/ UNCHANGED memVars
    BY <2>1 DEF CloseMemory, memVars, CompactInv
  <2>2. QED
    BY <2>1, StoreKeepsCompactInv, CompactKeepsCompactInv, DeleteKeepsCompactInv
       DEF CompactionNext
<1>3. QED BY <1>1, <1>2, PTL DEF CompactionSpec, OnlyPostTaskCompactionMoves

\* The tokens of the first n entries.
SumsOf(s, f, n) == f = [i \in 0..n |-> IF i = 0 THEN 0 ELSE f[i - 1] + s[i].size]

LEMMA SumsExist ==
  ASSUME NEW s, NEW m \in Nat
  PROVE  \E f : SumsOf(s, f, m)
<1> DEFINE T == {n \in Nat : ~\E f : SumsOf(s, f, n)}
<1>1. CASE T = {}
  BY <1>1
<1>2. CASE T # {}
  <2>1. PICK n \in T : \A y \in T : n <= y
    BY <1>2, LeastNumber
  <2>2. n # 0
    <3> DEFINE f == [i \in 0..0 |-> 0]
    <3>1. f = [i \in 0..0 |-> IF i = 0 THEN 0 ELSE f[i - 1] + s[i].size]
      OBVIOUS
    <3>2. SumsOf(s, f, 0)
      BY <3>1 DEF SumsOf
    <3>3. QED BY <2>1, <3>2
  <2>3. n \in Nat /\ n - 1 \in Nat /\ ~(n <= n - 1)
    BY <2>1, <2>2
  <2>4. PICK g : SumsOf(s, g, n - 1)
    BY <2>1, <2>3
  <2> HIDE DEF T
  <2> DEFINE f == [i \in 0..n |-> IF i = n THEN g[n - 1] + s[n].size ELSE g[i]]
  <2>5. \A i \in 0..(n - 1) : f[i] = g[i]
    BY <2>3
  <2>6. f[n] = f[n - 1] + s[n].size
    BY <2>3
  <2>7. \A i \in 0..n : f[i] = IF i = 0 THEN 0 ELSE f[i - 1] + s[i].size
    <3>1. DOMAIN f = 0..n
      OBVIOUS
    <3> HIDE DEF f
    <3>2. ASSUME NEW i \in 0..(n - 1)
          PROVE  f[i] = IF i = 0 THEN 0 ELSE f[i - 1] + s[i].size
      <4>1. f[i] = g[i] /\ (i # 0 => f[i - 1] = g[i - 1])
        BY <2>3, <2>5
      <4>2. g[i] = IF i = 0 THEN 0 ELSE g[i - 1] + s[i].size
        BY <2>4 DEF SumsOf
      <4>3. QED BY <4>1, <4>2
    <3>3. \A i \in 0..n : i \in 0..(n - 1) \/ i = n
      BY <2>3
    <3>4. QED BY <2>2, <2>6, <3>2, <3>3
  <2>8. SumsOf(s, f, n)
    <3>1. f = [i \in 0..n |-> f[i]]
      OBVIOUS
    <3> HIDE DEF f
    <3>2. QED BY <2>7, <3>1 DEF SumsOf
  <2>9. QED BY <2>1, <2>8 DEF T
<1>3. QED BY <1>1, <1>2

LEMMA EntriesHaveSizes ==
  ASSUME NEW s \in Seq(Entries)
  PROVE  \A n \in 1..Len(s) : s[n] \in Entries /\ s[n].size \in Nat /\ s[n].id \in Nat
<1>1. \A n \in 1..Len(s) : s[n] \in Entries
  OBVIOUS
<1>2. \A e \in Entries : e.size \in Nat /\ e.id \in Nat
  BY DEF Entries
<1>3. QED BY <1>1, <1>2

LEMMA TokensOfSteps ==
  ASSUME NEW s \in Seq(Entries)
  PROVE  \E f : /\ TokensOf(s) = f[Len(s)] /\ f[0] = 0
                /\ \A n \in 1..Len(s) : f[n] = f[n - 1] + s[n].size
                /\ \A n \in 0..Len(s) : f[n] \in Nat
<1> DEFINE g == CHOOSE f : SumsOf(s, f, Len(s))
<1>1. Len(s) \in Nat /\ \A n \in 1..Len(s) : s[n].size \in Nat
  BY EntriesHaveSizes
<1>2. SumsOf(s, g, Len(s))
  BY <1>1, SumsExist
<1>3. TokensOf(s) = g[Len(s)]
  BY DEF TokensOf, SumsOf
<1> HIDE DEF g
<1>4. g[0] = 0 /\ \A n \in 1..Len(s) : g[n] = g[n - 1] + s[n].size
  <2>1. 0 \in 0..Len(s) /\ \A n \in 1..Len(s) : n \in 0..Len(s) /\ n # 0
    BY <1>1
  <2>2. QED BY <1>2, <2>1 DEF SumsOf
<1>5. \A n \in 0..Len(s) : g[n] \in Nat
  <2> DEFINE T == {n \in 0..Len(s) : g[n] \notin Nat}
  <2>1. CASE T # {}
    <3>1. PICK n \in T : \A y \in T : n <= y
      <4>1. T \subseteq Nat
        BY <1>1
      <4> HIDE DEF T
      <4>2. QED BY <2>1, <4>1, LeastNumber
    <3>2. n \in 1..Len(s) /\ n - 1 \in 0..Len(s) /\ ~(n <= n - 1)
      BY <1>1, <1>4, <3>1
    <3>3. g[n - 1] \in Nat
      BY <3>1, <3>2
    <3>4. g[n] \in Nat
      <4>1. s[n].size \in Nat
        BY <1>1, <3>2
      <4>2. g[n] = g[n - 1] + s[n].size
        BY <1>4, <3>2
      <4>3. QED BY ONLY <3>3, <4>1, <4>2
    <3>5. QED BY <3>1, <3>4
  <2>2. QED BY <2>1
<1>6. QED BY <1>3, <1>4, <1>5

LEMMA TokensOfConcat ==
  ASSUME NEW a \in Seq(Entries), NEW b \in Seq(Entries)
  PROVE  /\ TokensOf(a) \in Nat /\ TokensOf(b) \in Nat
         /\ TokensOf(a \o b) = TokensOf(a) + TokensOf(b)
<1> DEFINE c == a \o b
<1>1. /\ c \in Seq(Entries) /\ Len(c) = Len(a) + Len(b)
      /\ \A i \in 1..Len(a) + Len(b) : c[i] = IF i <= Len(a) THEN a[i] ELSE b[i - Len(a)]
  BY ConcatProperties
<1>2. Len(a) \in Nat /\ Len(b) \in Nat
  OBVIOUS
<1> HIDE DEF c
<1>3. PICK f : /\ TokensOf(a) = f[Len(a)] /\ f[0] = 0
               /\ \A n \in 1..Len(a) : f[n] = f[n - 1] + a[n].size
               /\ \A n \in 0..Len(a) : f[n] \in Nat
  BY TokensOfSteps
<1>4. PICK g : /\ TokensOf(b) = g[Len(b)] /\ g[0] = 0
               /\ \A n \in 1..Len(b) : g[n] = g[n - 1] + b[n].size
               /\ \A n \in 0..Len(b) : g[n] \in Nat
  BY TokensOfSteps
<1>5. PICK h : /\ TokensOf(c) = h[Len(c)] /\ h[0] = 0
               /\ \A n \in 1..Len(c) : h[n] = h[n - 1] + c[n].size
               /\ \A n \in 0..Len(c) : h[n] \in Nat
  BY <1>1, TokensOfSteps
<1> DEFINE Sum(n) == IF n <= Len(a) THEN f[n] ELSE f[Len(a)] + g[n - Len(a)]
           T == {n \in 0..Len(c) : h[n] # Sum(n)}
<1>6. CASE T # {}
  <2>1. PICK n \in T : \A y \in T : n <= y
    <3>1. T \subseteq Nat
      BY <1>1, <1>2
    <3> HIDE DEF T
    <3>2. QED BY <1>6, <3>1, LeastNumber
  <2>2. n \in 1..Len(c) /\ n - 1 \in 0..Len(c) /\ ~(n <= n - 1)
    BY <1>1, <1>2, <1>3, <1>5, <2>1
  <2>3. h[n - 1] = Sum(n - 1) /\ h[n] # Sum(n)
    BY <2>1, <2>2
  <2>4. h[n] = h[n - 1] + c[n].size
    BY <1>5, <2>2
  <2> HIDE DEF T
  <2>5. CASE n <= Len(a)
    <3>1. n \in 1..Len(a) /\ n - 1 <= Len(a) /\ c[n] = a[n]
      BY <1>1, <1>2, <2>2, <2>5
    <3>2. f[n] = f[n - 1] + a[n].size
      BY <1>3, <3>1
    <3>3. QED BY <2>3, <2>4, <2>5, <3>1, <3>2
  <2>6. CASE ~(n <= Len(a))
    <3> DEFINE m == n - Len(a)
    <3>1. m \in 1..Len(b) /\ n - 1 - Len(a) = m - 1 /\ m - 1 \in 0..Len(b) /\ c[n] = b[m]
      BY <1>1, <1>2, <2>2, <2>6
    <3>2. g[m] = g[m - 1] + b[m].size /\ g[m - 1] \in Nat /\ b[m].size \in Nat
      <4>1. b[m].size \in Nat
        BY <3>1, EntriesHaveSizes
      <4>2. QED BY <1>4, <3>1, <4>1
    <3>3. Sum(n) = f[Len(a)] + g[m]
      BY <2>6
    <3>4. Sum(n - 1) = f[Len(a)] + g[m - 1]
      <4>1. CASE n - 1 <= Len(a)
        <5>1. n - 1 = Len(a) /\ m - 1 = 0
          BY <1>1, <1>2, <2>2, <2>6, <4>1
        <5>2. f[Len(a)] \in Nat /\ g[m - 1] = 0
          BY <1>2, <1>3, <1>4, <5>1
        <5>3. QED BY <5>1, <5>2
      <4>2. CASE ~(n - 1 <= Len(a))
        BY <3>1, <4>2
      <4>3. QED BY <4>1, <4>2
    <3>5. f[Len(a)] \in Nat
      BY <1>2, <1>3
    <3> HIDE DEF m, Sum
    <3>6. f[Len(a)] + g[m] = (f[Len(a)] + g[m - 1]) + b[m].size
      BY <3>2, <3>5
    <3>7. QED BY <2>3, <2>4, <3>1, <3>3, <3>4, <3>6
  <2>7. QED BY <2>5, <2>6
<1>7. CASE T = {}
  <2>1. h[Len(c)] = Sum(Len(c))
    <3>1. Len(c) \in 0..Len(c)
      BY <1>1, <1>2
    <3>2. QED BY <1>7, <3>1
  <2>2. f[Len(a)] \in Nat /\ g[Len(b)] \in Nat
    BY <1>2, <1>3, <1>4
  <2>3. Sum(Len(c)) = f[Len(a)] + g[Len(b)]
    <3>1. CASE Len(b) = 0
      BY <1>1, <1>2, <1>4, <2>2, <3>1
    <3>2. CASE Len(b) # 0
      BY <1>1, <1>2, <3>2
    <3>3. QED BY <3>1, <3>2
  <2> HIDE DEF Sum
  <2>4. QED BY <1>3, <1>4, <1>5, <2>1, <2>2, <2>3 DEF c
<1>8. QED BY <1>6, <1>7

LEMMA TokensOfOne ==
  ASSUME NEW e \in Entries
  PROVE  TokensOf(<<e>>) = e.size /\ e.size \in Nat
<1> DEFINE s == <<e>>
<1>1. s \in Seq(Entries) /\ Len(s) = 1 /\ s[1] = e /\ e.size \in Nat
  BY DEF Entries
<1> HIDE DEF s
<1>2. PICK f : /\ TokensOf(s) = f[Len(s)] /\ f[0] = 0
               /\ \A n \in 1..Len(s) : f[n] = f[n - 1] + s[n].size
               /\ \A n \in 0..Len(s) : f[n] \in Nat
  BY <1>1, TokensOfSteps
<1>3. 1 \in 1..Len(s) /\ 1 - 1 = 0
  BY <1>1
<1>4. f[1] = f[1 - 1] + s[1].size
  BY <1>2, <1>3
<1>5. f[1] = e.size
  BY <1>1, <1>2, <1>3, <1>4
<1>6. QED BY <1>1, <1>2, <1>5 DEF s

\* Entries whose identifiers have been given out.
GivenOut(s, k) == \A i \in 1..Len(s) : s[i].id < k

\* Taking the oldest entries away and off the counter keeps it exact.
LEMMA SuffixIsCounted ==
  ASSUME NEW s \in Seq(Entries), NEW n \in 0..Len(s), NEW k \in Nat, GivenOut(s, k)
  PROVE  LET rest == SubSeq(s, n + 1, Len(s))
         IN  /\ rest \in Seq(Entries) /\ GivenOut(rest, k)
             /\ Less(TokensOf(s), SubSeq(s, 1, n)) = TokensOf(rest)
<1> DEFINE u == SubSeq(s, 1, n)
           v == SubSeq(s, n + 1, Len(s))
<1>1. Len(s) \in Nat /\ n \in Nat /\ n <= Len(s)
  OBVIOUS
<1>2. u \in Seq(Entries)
  BY <1>1, SubSeqProperties
<1>3. /\ v \in Seq(Entries) /\ Len(v) = Len(s) - n
      /\ \A i \in 1..Len(v) : v[i] = s[n + i]
  <2>1. \A i \in (n + 1)..Len(s) : s[i] \in Entries
    BY <1>1
  <2>2. /\ v \in Seq(Entries) /\ Len(v) = IF n + 1 <= Len(s) THEN Len(s) - (n + 1) + 1 ELSE 0
        /\ \A i \in 1..(Len(s) - (n + 1) + 1) : v[i] = s[n + 1 + i - 1]
    BY <1>1, <2>1, SubSeqProperties
  <2> HIDE DEF v
  <2>3. Len(v) = Len(s) - n
    BY <1>1, <2>2
  <2>4. ASSUME NEW i \in 1..Len(v) PROVE v[i] = s[n + i]
    <3>1. i \in 1..(Len(s) - (n + 1) + 1) /\ n + 1 + i - 1 = n + i
      BY <1>1, <2>3
    <3>2. QED BY <2>2, <3>1
  <2>5. QED BY <2>2, <2>3, <2>4
<1>4. u \o v = s
  <2>1. SubSeq(s, 1, n) \o SubSeq(s, n + 1, Len(s)) = SubSeq(s, 1, Len(s))
    <3>1. 1 \in 1..(Len(s) + 1) /\ n \in (1 - 1)..Len(s) /\ Len(s) \in n..Len(s)
      BY <1>1
    <3>2. QED BY <3>1, ConcatAdjacentSubSeq
  <2>2. SubSeq(s, 1, Len(s)) = s
    <3>1. /\ SubSeq(s, 1, Len(s)) \in Seq(Entries) /\ Len(SubSeq(s, 1, Len(s))) = Len(s)
          /\ \A i \in 1..Len(s) : SubSeq(s, 1, Len(s))[i] = s[i]
      BY <1>1, SubSeqProperties
    <3>2. QED BY <3>1, SeqEqual
  <2>3. QED BY <2>1, <2>2
<1> HIDE DEF u, v
<1>5. GivenOut(v, k)
  <2>1. \A i \in 1..Len(v) : n + i \in 1..Len(s)
    BY <1>1, <1>3
  <2>2. QED BY <1>3, <2>1 DEF GivenOut
<1>6. TokensOf(u) \in Nat /\ TokensOf(v) \in Nat /\ TokensOf(s) = TokensOf(u) + TokensOf(v)
  BY <1>2, <1>3, <1>4, TokensOfConcat
<1>7. Less(TokensOf(s), u) = TokensOf(v)
  <2> DEFINE x == TokensOf(u)
             y == TokensOf(v)
  <2>1. x \in Nat /\ y \in Nat /\ TokensOf(s) - x = y
    BY <1>6
  <2> HIDE DEF x, y
  <2>2. ~(y < 0)
    BY <2>1
  <2>3. QED BY <2>1, <2>2 DEF Less, x, y
<1>8. QED BY <1>3, <1>5, <1>7 DEF u, v

LEMMA TrimmedIsCounted ==
  ASSUME NEW s \in Seq(Entries), NEW k \in Nat, GivenOut(s, k)
  PROVE  LET new == Trimmed(s, TokensOf(s))
         IN  /\ new.entries \in Seq(Entries) /\ GivenOut(new.entries, k)
             /\ new.tokens = TokensOf(new.entries)
<1> DEFINE t == TokensOf(s)
           left(n)  == SubSeq(s, n + 1, Len(s))
           count(n) == Less(t, SubSeq(s, 1, n))
           fits     == {n \in 0..Len(s) : n = Len(s) \/ ~Over(left(n), count(n))}
           cut      == CHOOSE n \in fits : \A m \in fits : n <= m
<1>1. Len(s) \in Nat /\ Len(s) \in fits /\ fits \subseteq Nat
  OBVIOUS
<1>2. \E n \in fits : \A m \in fits : n <= m
  <2> HIDE DEF fits
  <2>1. QED BY <1>1, LeastNumber
<1>3. cut \in fits
  <2> HIDE DEF fits
  <2>1. QED BY <1>2
<1>4. Trimmed(s, t) = [entries |-> left(cut), tokens |-> count(cut)]
  BY DEF Trimmed
<1>5. cut \in 0..Len(s)
  BY <1>3
<1> HIDE DEF cut, fits
<1>6. /\ left(cut) \in Seq(Entries) /\ GivenOut(left(cut), k)
      /\ count(cut) = TokensOf(left(cut))
  BY <1>5, SuffixIsCounted
<1> HIDE DEF left, count
<1>7. QED BY <1>4, <1>6 DEF t

LEMMA SettleIsCounted ==
  ASSUME NEW s \in Seq(Entries), NEW k \in 0..MaxEntries, GivenOut(s, k),
         NEW target \in Nat, Settle(s, TokensOf(s), target), summarised \subseteq 0..MaxEntries
  PROVE  /\ shortTerm' \in Seq(Entries) /\ GivenOut(shortTerm', k)
         /\ tokens' = TokensOf(shortTerm') /\ summarised' \subseteq 0..MaxEntries
<1>1. CASE ~Compacts(s, TokensOf(s), target)
  BY <1>1 DEF Settle
<1>2. CASE Compacts(s, TokensOf(s), target)
  <2> DEFINE n == IF Len(s) > target \div 2 THEN Len(s) - target \div 2 ELSE 0
             rest == SubSeq(s, n + 1, Len(s))
  <2>1. Len(s) \in Nat /\ target \div 2 \in Nat /\ k \in Nat /\ MaxEntries \in Nat /\ k <= MaxEntries
    BY CompactionAssumption
  <2>2. n \in 0..Len(s) /\ n \in Nat
    BY <2>1
  <2>3. Kept(s, target) = rest
    <3>1. (IF Len(s) > target \div 2 THEN Len(s) - target \div 2 + 1 ELSE 1) = n + 1
      BY <2>1
    <3> HIDE DEF n
    <3>2. QED BY <3>1 DEF Kept
  <2> HIDE DEF n
  <2>4. /\ rest \in Seq(Entries) /\ GivenOut(rest, k)
        /\ Less(TokensOf(s), SubSeq(s, 1, n)) = TokensOf(rest)
    BY <2>1, <2>2, SuffixIsCounted
  <2>5. Len(rest) = Len(s) - n
    <3>1. \A i \in (n + 1)..Len(s) : s[i] \in Entries
      BY <2>1, <2>2
    <3>2. Len(rest) = IF n + 1 <= Len(s) THEN Len(s) - (n + 1) + 1 ELSE 0
      BY <2>1, <2>2, <3>1, SubSeqProperties
    <3> HIDE DEF rest
    <3>3. QED BY <2>1, <2>2, <3>2
  <2>6. Leaving(s, target) = SubSeq(s, 1, n)
    <3> HIDE DEF rest
    <3>1. Len(s) - Len(rest) = n
      BY <2>1, <2>2, <2>5
    <3>2. QED BY <2>3, <3>1 DEF Leaving
  <2>7. summarised' \subseteq 0..MaxEntries
    <3> DEFINE old == SubSeq(s, 1, n)
               all == {e.id : e \in Range(old)}
    <3>1. PICK stored \in SUBSET all : summarised' = summarised \union stored
      BY <1>2, <2>6 DEF Settle
    <3>2. old \in Seq(Entries) /\ Len(old) = n /\ \A i \in 1..n : old[i] = s[i]
      BY <2>1, <2>2, SubSeqProperties
    <3> HIDE DEF old
    <3>3. \A i \in 1..n : old[i].id \in 0..MaxEntries
      <4>1. ASSUME NEW i \in 1..n PROVE old[i].id \in 0..MaxEntries
        <5>1. i \in 1..Len(s) /\ old[i] = s[i]
          BY <2>1, <2>2, <3>2
        <5>2. s[i].id \in Nat /\ s[i].id < k
          BY <5>1, EntriesHaveSizes DEF GivenOut
        <5>3. QED BY <2>1, <5>1, <5>2
      <4>2. QED BY <4>1
    <3>4. DOMAIN old = 1..n
      BY <3>2
    <3>5. all \subseteq 0..MaxEntries
      BY <3>3, <3>4 DEF Range
    <3> HIDE DEF all
    <3>6. QED BY <3>1, <3>5
  <2>8. shortTerm' = rest /\ tokens' = TokensOf(rest)
    BY <1>2, <2>3, <2>4, <2>6 DEF Settle
  <2> HIDE DEF rest
  <2>9. QED BY <2>4, <2>7, <2>8
<1>3. QED BY <1>1, <1>2

\* The counter, and that identifiers are given out in turn.
CountInv == CompactionTypeOK /\ TokensAreThoseHeld /\ GivenOut(shortTerm, nextId)

LEMMA StoreKeepsCount ==
  ASSUME CountInv, StoreShort
  PROVE  CountInv'
<1>1. PICK size \in EntrySizes :
        LET new == Trimmed(Append(shortTerm, [id |-> nextId, size |-> size]), tokens + size)
        IN IF Triggers(new.tokens)
           THEN Settle(new.entries, new.tokens, limits.tokens)
           ELSE shortTerm' = new.entries /\ tokens' = new.tokens /\ UNCHANGED summarised
  BY DEF StoreShort
<1>2. /\ limits' = limits /\ nextId' = nextId + 1 /\ memOpen' = memOpen
      /\ nextId < MaxEntries
  BY DEF StoreShort
<1>3. /\ shortTerm \in Seq(Entries) /\ nextId \in Nat /\ MaxEntries \in Nat /\ size \in Nat
      /\ limits \in MemoryConfigs /\ limits.tokens \in Nat
      /\ summarised \subseteq 0..MaxEntries /\ memOpen \in BOOLEAN
  BY CompactionAssumption DEF CountInv, CompactionTypeOK
<1>4. nextId + 1 \in 0..MaxEntries /\ nextId + 1 \in Nat
  BY <1>2, <1>3
<1> DEFINE e == [id |-> nextId, size |-> size]
           s == Append(shortTerm, e)
           new == Trimmed(s, tokens + size)
<1>5. e \in Entries /\ e.id = nextId /\ e.size = size
  BY <1>3 DEF Entries
<1>6. /\ s \in Seq(Entries) /\ Len(s) = Len(shortTerm) + 1 /\ s = shortTerm \o <<e>>
      /\ \A i \in 1..Len(shortTerm) : s[i] = shortTerm[i]
      /\ s[Len(shortTerm) + 1] = e
  <2> HIDE DEF e
  <2>1. QED BY <1>3, <1>5, AppendProperties, AppendIsConcat
<1>7. \/ Settle(new.entries, new.tokens, limits.tokens)
      \/ shortTerm' = new.entries /\ tokens' = new.tokens /\ UNCHANGED summarised
  BY <1>1
<1> HIDE DEF s
<1>8. tokens + size = TokensOf(s)
  <2>1. <<e>> \in Seq(Entries) /\ TokensOf(<<e>>) = size
    <3> HIDE DEF e
    <3>1. QED BY <1>5, TokensOfOne
  <2> HIDE DEF e
  <2>2. TokensOf(shortTerm \o <<e>>) = TokensOf(shortTerm) + TokensOf(<<e>>)
    BY <1>3, <2>1, TokensOfConcat
  <2>3. QED BY <1>6, <2>1, <2>2 DEF CountInv, TokensAreThoseHeld
<1>9. GivenOut(s, nextId + 1)
  <2>1. ASSUME NEW i \in 1..Len(s) PROVE s[i].id < nextId + 1
    <3>1. Len(shortTerm) \in Nat /\ (i \in 1..Len(shortTerm) \/ i = Len(shortTerm) + 1)
      BY <1>3, <1>6
    <3>2. CASE i \in 1..Len(shortTerm)
      <4>1. s[i].id = shortTerm[i].id /\ shortTerm[i].id \in Nat /\ shortTerm[i].id < nextId
        BY <1>3, <1>6, <3>2, EntriesHaveSizes DEF CountInv, GivenOut
      <4>2. QED BY <1>3, <4>1
    <3>3. CASE i = Len(shortTerm) + 1
      <4>1. s[i].id = nextId
        BY <1>5, <1>6, <3>3
      <4>2. QED BY <1>3, <4>1
    <3>4. QED BY <3>1, <3>2, <3>3
  <2>2. QED BY <2>1 DEF GivenOut
<1>10. /\ new.entries \in Seq(Entries) /\ GivenOut(new.entries, nextId + 1)
       /\ new.tokens = TokensOf(new.entries)
  BY <1>4, <1>6, <1>8, <1>9, TrimmedIsCounted
<1> HIDE DEF new
<1>11. /\ shortTerm' \in Seq(Entries) /\ GivenOut(shortTerm', nextId + 1)
       /\ tokens' = TokensOf(shortTerm') /\ summarised' \subseteq 0..MaxEntries
  <2>1. CASE Settle(new.entries, new.tokens, limits.tokens)
    BY <1>3, <1>4, <1>10, <2>1, SettleIsCounted
  <2>2. CASE shortTerm' = new.entries /\ tokens' = new.tokens /\ UNCHANGED summarised
    BY <1>3, <1>10, <2>2
  <2>3. QED BY <1>7, <2>1, <2>2
<1>12. tokens' \in Nat
  BY <1>11, TokensOfConcat
<1>13. QED
  BY <1>2, <1>3, <1>4, <1>11, <1>12 DEF CountInv, CompactionTypeOK, TokensAreThoseHeld

LEMMA CompactKeepsCount ==
  ASSUME CountInv, CompactAfterTask
  PROVE  CountInv'
<1>1. /\ UNCHANGED <<limits, nextId, memOpen>>
      /\ Settle(shortTerm, tokens, limits.tokens \div 2)
  BY DEF CompactAfterTask
<1> DEFINE target == limits.tokens \div 2
<1>2. /\ shortTerm \in Seq(Entries) /\ nextId \in 0..MaxEntries /\ target \in Nat
      /\ summarised \subseteq 0..MaxEntries /\ GivenOut(shortTerm, nextId)
      /\ tokens = TokensOf(shortTerm)
  BY CompactionAssumption DEF CountInv, CompactionTypeOK, TokensAreThoseHeld
<1>3. Settle(shortTerm, TokensOf(shortTerm), target)
  BY <1>1, <1>2
<1> HIDE DEF target
<1>4. /\ shortTerm' \in Seq(Entries) /\ GivenOut(shortTerm', nextId)
      /\ tokens' = TokensOf(shortTerm') /\ summarised' \subseteq 0..MaxEntries
  BY <1>2, <1>3, SettleIsCounted
<1>5. tokens' \in Nat
  BY <1>4, TokensOfConcat
<1>6. QED BY <1>1, <1>4, <1>5 DEF CountInv, CompactionTypeOK, TokensAreThoseHeld

LEMMA DeleteKeepsCount ==
  ASSUME CountInv, DeleteShort
  PROVE  CountInv'
<1>1. PICK i \in DOMAIN shortTerm : /\ shortTerm' = RemoveAt(shortTerm, i)
                                    /\ tokens' = Less(tokens, <<shortTerm[i]>>)
  BY DEF DeleteShort
<1>2. UNCHANGED <<limits, nextId, summarised, memOpen>>
  BY DEF DeleteShort
<1>3. /\ shortTerm \in Seq(Entries) /\ Len(shortTerm) \in Nat /\ i \in 1..Len(shortTerm)
      /\ nextId \in Nat /\ tokens = TokensOf(shortTerm) /\ GivenOut(shortTerm, nextId)
  BY CompactionAssumption DEF CountInv, CompactionTypeOK, TokensAreThoseHeld
<1> DEFINE u == SubSeq(shortTerm, 1, i - 1)
           w == SubSeq(shortTerm, i, Len(shortTerm))
           v == SubSeq(shortTerm, i + 1, Len(shortTerm))
           e == shortTerm[i]
<1>4. e \in Entries
  BY <1>3
<1>5. u \in Seq(Entries) /\ Len(u) = i - 1 /\ \A j \in 1..(i - 1) : u[j] = shortTerm[j]
  BY <1>3, SubSeqProperties
<1>6. /\ v \in Seq(Entries) /\ Len(v) = Len(shortTerm) - i
      /\ \A j \in 1..(Len(shortTerm) - i) : v[j] = shortTerm[i + j]
  <2>1. \A j \in (i + 1)..Len(shortTerm) : shortTerm[j] \in Entries
    BY <1>3
  <2>2. /\ v \in Seq(Entries)
        /\ Len(v) = IF i + 1 <= Len(shortTerm) THEN Len(shortTerm) - (i + 1) + 1 ELSE 0
        /\ \A j \in 1..(Len(shortTerm) - (i + 1) + 1) : v[j] = shortTerm[i + 1 + j - 1]
    BY <1>3, <2>1, SubSeqProperties
  <2> HIDE DEF v
  <2>3. Len(v) = Len(shortTerm) - i
    BY <1>3, <2>2
  <2>4. ASSUME NEW j \in 1..(Len(shortTerm) - i) PROVE v[j] = shortTerm[i + j]
    <3>1. j \in 1..(Len(shortTerm) - (i + 1) + 1) /\ i + 1 + j - 1 = i + j
      BY <1>3
    <3>2. QED BY <2>2, <3>1
  <2>5. QED BY <2>2, <2>3, <2>4
<1>7. shortTerm' = u \o v
  BY <1>1 DEF RemoveAt
<1>8. SubSeq(shortTerm, i, i) = <<e>>
  <2>1. \A j \in i..i : shortTerm[j] \in Entries
    BY <1>3
  <2> DEFINE o == SubSeq(shortTerm, i, i)
  <2>2. o \in Seq(Entries) /\ Len(o) = 1 /\ o[1] = e
    BY <1>3, <2>1, SubSeqProperties
  <2>3. <<e>> \in Seq(Entries) /\ Len(<<e>>) = 1 /\ <<e>>[1] = e
    BY <1>4
  <2> HIDE DEF o, e
  <2>4. o = <<e>>
    BY <2>2, <2>3, SeqEqual
  <2>5. QED BY <2>4 DEF o
<1>9. w = <<e>> \o v
  <2>1. SubSeq(shortTerm, i, i) \o SubSeq(shortTerm, i + 1, Len(shortTerm))
          = SubSeq(shortTerm, i, Len(shortTerm))
    <3>1. /\ i \in 1..(Len(shortTerm) + 1) /\ i \in (i - 1)..Len(shortTerm)
          /\ Len(shortTerm) \in i..Len(shortTerm)
      BY <1>3
    <3>2. shortTerm \in Seq(Entries)
      BY <1>3
    <3>3. QED BY ONLY <3>1, <3>2, ConcatAdjacentSubSeq
  <2>2. QED BY <1>8, <2>1
<1>10. shortTerm = u \o w
  <2>1. SubSeq(shortTerm, 1, i - 1) \o SubSeq(shortTerm, i - 1 + 1, Len(shortTerm))
          = SubSeq(shortTerm, 1, Len(shortTerm))
    <3>1. /\ 1 \in 1..(Len(shortTerm) + 1) /\ i - 1 \in (1 - 1)..Len(shortTerm)
          /\ Len(shortTerm) \in (i - 1)..Len(shortTerm)
      BY <1>3
    <3>2. QED BY <1>3, <3>1, ConcatAdjacentSubSeq
  <2>2. SubSeq(shortTerm, 1, Len(shortTerm)) = shortTerm
    <3> DEFINE o == SubSeq(shortTerm, 1, Len(shortTerm))
    <3>1. /\ o \in Seq(Entries) /\ Len(o) = Len(shortTerm)
          /\ \A j \in 1..Len(shortTerm) : o[j] = shortTerm[j]
      BY <1>3, SubSeqProperties
    <3> HIDE DEF o
    <3>2. o = shortTerm
      BY <1>3, <3>1, SeqEqual
    <3>3. QED BY <3>2 DEF o
  <2>3. i - 1 + 1 = i
    BY <1>3
  <2>4. QED BY <2>1, <2>2, <2>3
<1> HIDE DEF u, v, w, e
<1>11. /\ TokensOf(<<e>>) \in Nat /\ TokensOf(u) \in Nat /\ TokensOf(v) \in Nat
       /\ TokensOf(w) = TokensOf(<<e>>) + TokensOf(v) /\ <<e>> \in Seq(Entries)
  <2>1. <<e>> \in Seq(Entries)
    BY <1>4
  <2>2. /\ TokensOf(<<e>>) \in Nat /\ TokensOf(v) \in Nat
        /\ TokensOf(<<e>> \o v) = TokensOf(<<e>>) + TokensOf(v)
    BY <1>6, <2>1, TokensOfConcat
  <2>3. TokensOf(u) \in Nat
    BY <1>5, TokensOfConcat
  <2>4. QED BY <1>9, <2>1, <2>2, <2>3
<1>12. TokensOf(shortTerm) = TokensOf(u) + TokensOf(w)
  <2>1. w \in Seq(Entries)
    BY <1>6, <1>9, <1>11, ConcatProperties
  <2>2. QED BY <1>5, <1>10, <2>1, TokensOfConcat
<1>13. TokensOf(u \o v) = TokensOf(u) + TokensOf(v) /\ TokensOf(u \o v) \in Nat
  BY <1>5, <1>6, <1>11, TokensOfConcat
<1>14. tokens' = TokensOf(shortTerm') /\ tokens' \in Nat
  <2>1. tokens' = Less(tokens, <<e>>)
    BY <1>1 DEF e
  <2> DEFINE x == TokensOf(<<e>>)
             y == TokensOf(u) + TokensOf(v)
  <2>2. x \in Nat /\ y \in Nat /\ tokens - x = y
    BY <1>3, <1>11, <1>12
  <2>3. TokensOf(shortTerm') = y
    BY <1>7, <1>13
  <2> HIDE DEF x, y
  <2>4. ~(y < 0)
    BY <2>2
  <2>5. Less(tokens, <<e>>) = y
    BY <2>2, <2>4 DEF Less, x
  <2>6. QED BY <2>1, <2>2, <2>3, <2>5
<1>15. /\ u \o v \in Seq(Entries) /\ Len(u \o v) = Len(u) + Len(v)
       /\ \A j \in 1..Len(u) + Len(v) : (u \o v)[j] = IF j <= Len(u) THEN u[j] ELSE v[j - Len(u)]
  BY <1>5, <1>6, ConcatProperties
<1>16. GivenOut(shortTerm', nextId)
  <2> DEFINE r == u \o v
  <2>1. Len(r) = Len(shortTerm) - 1
    BY <1>3, <1>5, <1>6, <1>15
  <2>2. \A j \in 1..Len(r) : r[j] = IF j <= i - 1 THEN u[j] ELSE v[j - (i - 1)]
    BY <1>5, <1>15
  <2> HIDE DEF r
  <2>3. ASSUME NEW j \in 1..Len(r) PROVE r[j].id < nextId
    <3>1. CASE j <= i - 1
      <4>1. j \in 1..(i - 1) /\ j \in 1..Len(shortTerm)
        BY <1>3, <2>1, <3>1
      <4>2. r[j] = shortTerm[j]
        BY <1>5, <2>2, <3>1, <4>1
      <4>3. QED BY <1>3, <4>1, <4>2 DEF GivenOut
    <3>2. CASE ~(j <= i - 1)
      <4>1. j - (i - 1) \in 1..(Len(shortTerm) - i) /\ i + (j - (i - 1)) = j + 1
            /\ j + 1 \in 1..Len(shortTerm)
        BY <1>3, <2>1, <3>2
      <4>2. r[j] = shortTerm[j + 1]
        BY <1>6, <2>2, <3>2, <4>1
      <4>3. QED BY <1>3, <4>1, <4>2 DEF GivenOut
    <3>3. QED BY <3>1, <3>2
  <2>4. QED BY <1>7, <2>3 DEF GivenOut, r
<1>17. shortTerm' \in Seq(Entries)
  BY <1>7, <1>15
<1>18. QED
  BY <1>2, <1>14, <1>16, <1>17 DEF CountInv, CompactionTypeOK, TokensAreThoseHeld

\* Short-term memory: the counter that limits and triggers are compared with
\* stays the tokens of the entries held, over any sequence of stores with
\* their trims, compactions and deletions, for every limit and every size of
\* an entry (shortterm.go: currentTokens).
THEOREM TokensAreAlwaysThoseHeld ==
  CompactionSpec => [](CompactionTypeOK /\ TokensAreThoseHeld)
<1>1. CompactionInit => CountInv
  <2> SUFFICES ASSUME CompactionInit PROVE CountInv
    OBVIOUS
  <2>1. <<>> \in Seq(Entries) /\ Len(<<>>) = 0
    OBVIOUS
  <2>2. TokensOf(<<>>) = 0
    <3>1. PICK f : TokensOf(<<>>) = f[Len(<<>>)] /\ f[0] = 0
      BY <2>1, TokensOfSteps
    <3>2. QED BY <2>1, <3>1
  <2>3. GivenOut(<<>>, 0)
    BY <2>1 DEF GivenOut
  <2>4. QED
    BY <2>1, <2>2, <2>3, CompactionAssumption
       DEF CompactionInit, CountInv, CompactionTypeOK, TokensAreThoseHeld
<1>2. CountInv /\ [CompactionNext]_memVars => CountInv'
  <2> SUFFICES ASSUME CountInv, [CompactionNext]_memVars PROVE CountInv'
    OBVIOUS
  <2>1. CASE CloseMemory \/ UNCHANGED memVars
    BY <2>1 DEF CloseMemory, memVars, CountInv, CompactionTypeOK, TokensAreThoseHeld, GivenOut
  <2>2. QED BY <2>1, StoreKeepsCount, CompactKeepsCount, DeleteKeepsCount DEF CompactionNext
<1>3. CountInv => CompactionTypeOK /\ TokensAreThoseHeld
  BY DEF CountInv
<1>4. QED BY <1>1, <1>2, <1>3, PTL DEF CompactionSpec

-----------------------------------------------------------------------------
(* ConfigSaves: saves of config.yaml beside one another. *)

SaveSteps == {"new", "backup", "open", "write", "rename", "reflect", "done"}
Settings == [Providers -> Saves \union {Old}]
Documents == {Whole(v) : v \in Settings}

ConfigShape ==
  /\ ConfigTypeOK
  /\ updates \in [Saves -> SUBSET Providers]
  /\ configFile \in Documents \union {Empty, Torn}
  /\ tmp \in Documents \union {Empty, Torn, NoFile}
  /\ backup \in Documents \union {Empty, NoFile}
  /\ saveAt \in [Saves -> SaveSteps]
  /\ data \in [Saves -> Documents \union {Empty, Torn, NoFile}]
  /\ opened \in [Saves -> {"tmp", "disk", "gone"}]
  /\ crossed \subseteq Saves
  /\ \A s \in Saves : saveAt[s] \in {"backup", "open", "write", "rename"} => data[s] \in Documents
  /\ \A s \in Saves : reply[s] # "none" => saveAt[s] = "done"

\* What a save alone has done by each of its steps.
LoneProgress ==
  crossed = {} =>
    /\ configFile \in Documents
    /\ \A s, x \in Busy : s = x
    /\ \A s \in Saves :
         /\ saveAt[s] \in {"backup", "open", "write", "rename"} => data[s] = configFile
         /\ saveAt[s] = "write" => opened[s] = "tmp" /\ tmp = Empty
         /\ saveAt[s] = "rename" => tmp = Document(s)
         /\ saveAt[s] = "reflect" =>
              \A p \in Providers :
                configFile.values[p] = IF p \in updates[s] THEN s ELSE memory[p]

\* Where a value can have come from, and who may still owe it to the memory.
LoneSources ==
  crossed = {} =>
    \A p \in Providers :
      /\ configFile.values[p] \in Saves =>
           \/ saveAt[configFile.values[p]] = "reflect"
           \/ reply[configFile.values[p]] = "ok"
      /\ memory[p] \in Saves => reply[memory[p]] = "ok"
      /\ memory[p] # configFile.values[p] =>
           configFile.values[p] \in Saves /\ saveAt[configFile.values[p]] = "reflect"

ConfigInv == ConfigShape /\ LoneProgress /\ LoneSources /\ LoneSavesHold
USE DEF Old, Whole, NoFile, Torn, Empty, SaveSteps

LEMMA DocumentsAreWhole ==
  /\ \A d \in Documents : d.text = "whole" /\ d.values \in Settings /\ d = Whole(d.values)
  /\ \A v \in Settings : Whole(v) \in Documents
  /\ \A d \in Documents : d # Empty /\ d # Torn /\ d # NoFile
BY DEF Documents

LEMMA SaveWritesADocument ==
  ASSUME ConfigShape, NEW s \in Saves, data[s] \in Documents
  PROVE  /\ Document(s) \in Documents
         /\ \A p \in Providers :
              Document(s).values[p] = IF p \in updates[s] THEN s ELSE data[s].values[p]
<1>1. data[s].values \in Settings
  BY DocumentsAreWhole
<1>2. [p \in Providers |-> IF p \in updates[s] THEN s ELSE data[s].values[p]] \in Settings
  BY <1>1 DEF Settings
<1>3. QED BY <1>2, DocumentsAreWhole DEF Document

\* It holds at the start.
LEMMA ConfigInvInitially == ConfigInit => ConfigInv
<1> SUFFICES ASSUME ConfigInit PROVE ConfigInv
  OBVIOUS
<1>1. [p \in Providers |-> Old] \in Settings
  BY DEF Settings
<1>2. configFile \in Documents
  BY <1>1, DocumentsAreWhole DEF ConfigInit
<1>3. ConfigShape
  BY <1>2 DEF ConfigInit, ConfigShape, ConfigTypeOK
<1>4. \A p \in Providers : configFile.values[p] = Old /\ memory[p] = Old
  BY DEF ConfigInit
<1>5. LoneProgress
  BY <1>2 DEF ConfigInit, LoneProgress, Busy
<1>6. LoneSources
  BY <1>4, ConfigAssumption DEF ConfigInit, LoneSources
<1>7. LoneSavesHold
  BY <1>4, ConfigAssumption DEF ConfigInit, LoneSavesHold
<1>8. QED BY <1>3, <1>5, <1>6, <1>7 DEF ConfigInv

LEMMA ReadKeepsConfigInv ==
  ASSUME ConfigInv, NEW s \in Saves, ReadConfig(s) PROVE ConfigInv'
<1> USE DEF ReadConfig, At, Goes, Replies, ConfigInv
<1>1. configFile.text = "whole" => configFile \in Documents
  BY DEF ConfigShape
<1>2. ConfigShape'
  <2>1. crossed' \subseteq Saves
    BY DEF ConfigShape, Busy
  <2>2. CASE configFile.text = "whole"
    BY <1>1, <2>1, <2>2 DEF ConfigShape, ConfigTypeOK
  <2>3. CASE configFile.text # "whole"
    BY <2>1, <2>3 DEF ConfigShape, ConfigTypeOK
  <2>4. QED BY <2>2, <2>3
<1>3. SUFFICES ASSUME crossed' = {} PROVE LoneProgress' /\ LoneSources' /\ LoneSavesHold'
  BY <1>2 DEF LoneProgress, LoneSources, LoneSavesHold
<1>4. crossed = {} /\ Busy = {}
  BY <1>3
<1>5. configFile \in Documents /\ configFile.text = "whole"
  BY <1>4, DocumentsAreWhole DEF LoneProgress
<1>6. saveAt' = [saveAt EXCEPT ![s] = "backup"] /\ data' = [data EXCEPT ![s] = configFile]
      /\ reply' = reply
  BY <1>5
<1>7. \A x \in Saves : saveAt[x] \in {"new", "done"}
  BY <1>4 DEF Busy
<1>8. LoneProgress'
  BY <1>4, <1>5, <1>6, <1>7 DEF LoneProgress, ConfigShape, Busy
<1>9. LoneSources'
  BY <1>4, <1>6, <1>7 DEF LoneSources, ConfigShape
<1>10. LoneSavesHold'
  BY <1>4, <1>5, <1>6, <1>7 DEF LoneSavesHold, LoneSources, ConfigShape, Later
<1>11. QED BY <1>8, <1>9, <1>10

LEMMA BackupKeepsConfigInv ==
  ASSUME ConfigInv, NEW s \in Saves, WriteBackup(s) \/ OpenTmp(s) PROVE ConfigInv'
<1> USE DEF WriteBackup, OpenTmp, At, Goes, ConfigInv
<1>1. ConfigShape'
  BY DEF ConfigShape, ConfigTypeOK
<1>2. crossed = {} => Busy = {s} /\ Busy' = {s} /\ crossed' = {}
  BY DEF Busy, ConfigShape, LoneProgress
<1>3. LoneProgress'
  BY <1>2 DEF LoneProgress, ConfigShape, Busy
<1>4. LoneSources'
  BY <1>2 DEF LoneSources, LoneProgress, ConfigShape
<1>5. LoneSavesHold'
  <2>1. backup'.text = "empty" => backup' = backup
    BY DocumentsAreWhole DEF ConfigShape
  <2>2. \A x \in Saves : saveAt'[x] = "reflect" <=> saveAt[x] = "reflect"
    BY DEF ConfigShape
  <2>3. \A p \in Providers : memory[p] # configFile.values[p] /\ crossed = {} =>
           configFile.values[p] \in Saves
    BY DEF LoneSources
  <2>4. configFile' = configFile /\ memory' = memory /\ reply' = reply /\ updates' = updates
        /\ crossed' = crossed /\ serverUp' = serverUp
    OBVIOUS
  <2>5. QED BY <2>1, <2>2, <2>3, <2>4 DEF LoneSavesHold, Later
<1>6. QED BY <1>1, <1>3, <1>4, <1>5

LEMMA WriteKeepsConfigInv ==
  ASSUME ConfigInv, NEW s \in Saves, WriteConfigTmp(s) PROVE ConfigInv'
<1> USE DEF WriteConfigTmp, At, Goes, ConfigInv
<1>1. Document(s) \in Documents
  BY SaveWritesADocument DEF ConfigShape
<1>2. ConfigShape'
  <2>1. Written(s, tmp) \subseteq Documents \union {Torn}
          /\ Written(s, configFile) \subseteq Documents \union {Torn}
    BY <1>1 DEF Written
  <2>2. tmp' \in Documents \union {Empty, Torn, NoFile}
          /\ configFile' \in Documents \union {Empty, Torn}
    BY <2>1 DEF ConfigShape
  <2>3. configFile'.text \in {"whole", "empty", "torn"}
    BY <2>2, DocumentsAreWhole
  <2>4. QED BY <2>2, <2>3 DEF ConfigShape, ConfigTypeOK
<1>3. crossed = {} => Busy = {s} /\ Busy' = {s} /\ crossed' = {} /\ configFile' = configFile
                      /\ tmp' = Document(s) /\ Document(s)' = Document(s)
  BY DEF Busy, ConfigShape, LoneProgress, Written, Document
<1>4. LoneProgress'
  BY <1>3 DEF LoneProgress, ConfigShape, Busy
<1>5. LoneSources'
  BY <1>3 DEF LoneSources, LoneProgress, ConfigShape
<1>6. LoneSavesHold'
  BY <1>3 DEF LoneSavesHold, LoneProgress, ConfigShape, Later
<1>7. QED BY <1>2, <1>4, <1>5, <1>6

LEMMA RenameKeepsConfigInv ==
  ASSUME ConfigInv, NEW s \in Saves, RenameTmp(s) PROVE ConfigInv'
<1> USE DEF RenameTmp, At, Goes, Replies, ConfigInv
<1>1. ConfigShape'
  <2>1. configFile' \in Documents \union {Empty, Torn}
          /\ tmp' \in Documents \union {Empty, Torn, NoFile}
    BY DEF ConfigShape
  <2>2. configFile'.text \in {"whole", "empty", "torn"}
    BY <2>1, DocumentsAreWhole
  <2>3. QED BY <2>1, <2>2 DEF ConfigShape, ConfigTypeOK
<1>2. SUFFICES ASSUME crossed = {} PROVE LoneProgress' /\ LoneSources' /\ LoneSavesHold'
  BY <1>1 DEF LoneProgress, LoneSources, LoneSavesHold
<1>3. Document(s) \in Documents
  BY SaveWritesADocument DEF ConfigShape
<1>4. Busy = {s} /\ tmp = Document(s) /\ data[s] = configFile
  BY <1>2 DEF Busy, LoneProgress
<1>5. configFile' = Document(s) /\ saveAt' = [saveAt EXCEPT ![s] = "reflect"] /\ reply' = reply
        /\ Busy' = {s}
  BY <1>3, <1>4, DocumentsAreWhole DEF Busy, ConfigShape
<1>6. \A p \in Providers : configFile'.values[p] = IF p \in updates[s] THEN s
        ELSE configFile.values[p]
  BY <1>4, <1>5, <1>2, SaveWritesADocument DEF ConfigShape
<1>7. \A p \in Providers : configFile.values[p] = memory[p]
  BY <1>2, <1>4 DEF LoneSources, ConfigShape, Busy
<1>8. LoneProgress'
  BY <1>2, <1>3, <1>4, <1>5, <1>6, <1>7 DEF LoneProgress, ConfigShape, Busy
<1>9. LoneSources'
  BY <1>2, <1>4, <1>5, <1>6, <1>7 DEF LoneSources, ConfigShape, Busy
<1>10. LoneSavesHold'
  <2>1. reply[s] = "none"
    BY DEF ConfigShape, ConfigTypeOK
  <2>2. configFile'.text = "whole"
    BY <1>3, <1>5, DocumentsAreWhole
  <2>3. \A x \in Saves, p \in Providers :
          x \in Saves /\ reply[x] = "ok" /\ p \in updates[x] =>
            configFile'.values[p] \in {x} \union Later(x, p)
    BY <1>2, <1>6, <2>1 DEF LoneSavesHold, Later
  <2>4. \A x \in Saves, p \in Providers : reply[x] = "failed" =>
          configFile'.values[p] # x /\ memory[p] # x
    BY <1>2, <1>6, <2>1 DEF LoneSavesHold
  <2>5. \A p \in Providers : memory[p] # configFile'.values[p] =>
          saveAt'[configFile'.values[p]] = "reflect"
    BY <1>5, <1>6, <1>7 DEF ConfigShape
  <2>6. QED BY <1>2, <1>5, <2>2, <2>3, <2>4, <2>5 DEF LoneSavesHold, Later
<1>11. QED BY <1>8, <1>9, <1>10

LEMMA FailureKeepsConfigInv ==
  ASSUME ConfigInv, NEW s \in Saves, StepFails(s) PROVE ConfigInv'
<1> USE DEF StepFails, HalfBackup, Goes, Replies, ConfigInv
<1>1. ConfigShape'
  BY DEF ConfigShape, ConfigTypeOK
<1>2. SUFFICES ASSUME crossed = {} PROVE LoneProgress' /\ LoneSources' /\ LoneSavesHold'
  BY <1>1 DEF LoneProgress, LoneSources, LoneSavesHold
<1>3. Busy = {s} /\ Busy' = {}
  BY <1>2 DEF Busy, ConfigShape, LoneProgress
<1>4. LoneProgress'
  BY <1>2, <1>3 DEF LoneProgress, ConfigShape, Busy
<1>5. reply[s] = "none" /\ \A p \in Providers : configFile.values[p] # s /\ memory[p] # s
  BY <1>2 DEF LoneSources, ConfigShape
<1>6. LoneSources'
  BY <1>2, <1>5 DEF LoneSources, ConfigShape
<1>7. LoneSavesHold'
  <2>1. reply' = [reply EXCEPT ![s] = "failed"] /\ saveAt' = [saveAt EXCEPT ![s] = "done"]
    OBVIOUS
  <2>2. reply'[s] = "failed"
    BY <2>1 DEF ConfigShape, ConfigTypeOK
  <2>3. \A p \in Providers : memory[p] # configFile.values[p] =>
          configFile.values[p] \in Saves \ {s} /\ saveAt[configFile.values[p]] = "reflect"
    BY <1>2, <1>5 DEF LoneSources
  <2>4. QED BY <1>2, <1>5, <2>1, <2>2, <2>3 DEF LoneSavesHold, Later, ConfigShape, ConfigTypeOK
<1>8. QED BY <1>4, <1>6, <1>7

LEMMA ReflectKeepsConfigInv ==
  ASSUME ConfigInv, NEW s \in Saves, ReflectInMemory(s) PROVE ConfigInv'
<1> USE DEF ReflectInMemory, At, Goes, Replies, ConfigInv
<1>1. ConfigShape'
  BY DEF ConfigShape, ConfigTypeOK
<1>2. SUFFICES ASSUME crossed = {} PROVE LoneProgress' /\ LoneSources' /\ LoneSavesHold'
  BY <1>1 DEF LoneProgress, LoneSources, LoneSavesHold
<1>3. Busy = {s} /\ Busy' = {}
  BY <1>2 DEF Busy, ConfigShape, LoneProgress
<1>4. LoneProgress'
  BY <1>2, <1>3 DEF LoneProgress, ConfigShape, Busy
<1>5. \A p \in Providers : configFile.values[p] = IF p \in updates[s] THEN s ELSE memory[p]
  BY <1>2 DEF LoneProgress
<1>6. memory' = configFile.values \/ \A p \in Providers : memory'[p] = configFile.values[p]
  BY <1>5
<1>7. \A p \in Providers : memory'[p] = configFile.values[p]
  BY <1>6
<1>8. reply' = [reply EXCEPT ![s] = "ok"] /\ saveAt' = [saveAt EXCEPT ![s] = "done"]
  OBVIOUS
<1>9. LoneSources'
  BY <1>2, <1>3, <1>5, <1>7, <1>8 DEF LoneSources, ConfigShape, ConfigTypeOK, Busy
<1>10. LoneSavesHold'
  BY <1>2, <1>5, <1>7, <1>8 DEF LoneSavesHold, Later, ConfigShape, ConfigTypeOK
<1>11. QED BY <1>4, <1>9, <1>10

LEMMA EndKeepsConfigInv ==
  ASSUME ConfigInv, MapRace \/ DashboardEnds PROVE ConfigInv'
BY DEF MapRace, DashboardEnds, HalfBackup, ConfigInv, ConfigShape, ConfigTypeOK, LoneProgress,
   LoneSources,
       LoneSavesHold, Busy, Later, Document

\* Every step keeps it.
LEMMA ConfigInvIsInductive == ConfigInv /\ [ConfigNext]_configVars => ConfigInv'
<1> SUFFICES ASSUME ConfigInv, [ConfigNext]_configVars PROVE ConfigInv'
  OBVIOUS
<1>1. CASE UNCHANGED configVars
  BY <1>1 DEF configVars, ConfigInv, ConfigShape, ConfigTypeOK, LoneProgress, LoneSources,
       LoneSavesHold, Busy, Later, Document
<1>2. QED BY <1>1, ReadKeepsConfigInv, BackupKeepsConfigInv, WriteKeepsConfigInv,
   RenameKeepsConfigInv,
     FailureKeepsConfigInv, ReflectKeepsConfigInv, EndKeepsConfigInv DEF ConfigNext

\* For every set of requests and providers: while no two of
\* persistProviderUpdates met, the file is a whole document, it has what was
\* answered "ok" and not what was answered with a failure, and configPut
\* leaves memory as the file.
THEOREM LoneSavesAreHeld == ConfigSpec => [](ConfigTypeOK /\ LoneSavesHold)
<1>1. ConfigInv => ConfigTypeOK /\ LoneSavesHold
  BY DEF ConfigInv, ConfigShape
<1>2. QED BY <1>1, ConfigInvInitially, ConfigInvIsInductive, PTL DEF ConfigSpec

=============================================================================
