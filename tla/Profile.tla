------------------------------ MODULE Profile -------------------------------
(***************************************************************************)
(* The user profile (internal/memory/intelligence.go, ProfileStore): rows  *)
(* of long-term memory that the `remember' tool or Set adds, and a cache   *)
(* rebuilt from them before every task.  A row is its key and its value;   *)
(* "other" rows are the experiences, lessons and summaries in the same     *)
(* table.                                                                  *)
(***************************************************************************)
EXTENDS Naturals, Sequences, SequencesExt

CONSTANTS
  Keys, Values,
  ProfileLimit,  \* the newest rows a reload looks at
  MaxRows        \* bound: rows of the table

Unset == "unset"
Other == [key |-> "other", value |-> Unset]

ASSUME ProfileAssumption ==
  ProfileLimit \in Nat /\ MaxRows \in Nat /\ Unset \notin Values /\ Other.key \notin Keys

VARIABLES
  rows,     \* table memories, in the order of created_at
  cache,    \* ps.cache
  reloaded  \* history: nothing was written since the last reload

profileVars == <<rows, cache, reloaded>>

LastRows(n) == SubSeq(rows, IF Len(rows) > n THEN Len(rows) - n + 1 ELSE 1, Len(rows))

\* Mutant: the newest row is not looked at.
RecalledOneLess == IF rows = <<>> THEN <<>> ELSE Tail(Reverse(LastRows(ProfileLimit)))

\* The limit of 200 rows, newest first.
Recalled == Reverse(LastRows(ProfileLimit))

\* loadCacheLocked: each row overwrites what an earlier one put there.
Loaded ==
  [k \in Keys |->
     LET of == {i \in DOMAIN Recalled : Recalled[i].key = k}
     IN IF of = {} THEN Unset ELSE Recalled[CHOOSE i \in of : \A j \in of : j <= i].value]

ProfileInit ==
  /\ rows = <<>> /\ cache = [k \in Keys |-> Unset] /\ reloaded = TRUE

\* The `remember' tool writes to the store and not to the cache.
Remember ==
  /\ Len(rows) < MaxRows
  /\ \E k \in Keys, v \in Values : rows' = Append(rows, [key |-> k, value |-> v])
  /\ reloaded' = FALSE /\ UNCHANGED cache

\* ProfileStore.Set stores the row and then the cache entry.
SetEntry ==
  /\ Len(rows) < MaxRows
  /\ \E k \in Keys, v \in Values :
       rows' = Append(rows, [key |-> k, value |-> v]) /\ cache' = [cache EXCEPT ![k] = v]
  /\ reloaded' = FALSE

\* ExperienceEngine.Record, Reflect, RecordLesson and compaction.
RecordOther ==
  /\ Len(rows) < MaxRows /\ rows' = Append(rows, Other)
  /\ reloaded' = FALSE /\ UNCHANGED cache

\* Inject before a task, and NewProfileStore at start.
Reload == cache' = Loaded /\ reloaded' = TRUE /\ UNCHANGED rows

ProfileNext == Remember \/ SetEntry \/ RecordOther \/ Reload

ProfileSpec == ProfileInit /\ [][ProfileNext]_profileVars

ProfileTypeOK ==
  /\ rows \in Seq([key: Keys, value: Values] \union {Other}) /\ Len(rows) <= MaxRows
  /\ cache \in [Keys -> Values \union {Unset}] /\ reloaded \in BOOLEAN

\* The values given to a key in the rows from the i-th on.
Given(k, i) == {rows[j].value : j \in {j \in DOMAIN rows : j >= i /\ rows[j].key = k}}

(* What a task finds in the cache after a reload, of a table that also holds *)
(* other memories and grows past the window of the reload: a key has a value *)
(* exactly if the window still holds a row of it, and the value is one the   *)
(* window gave it.  A key written once is what it was written as; of one     *)
(* written again the oldest value wins.                                      *)
ReloadedKeysAreStored ==
  reloaded =>
    LET from == Len(rows) - ProfileLimit + 1
    IN \A k \in Keys :
         /\ cache[k] = Unset <=> Given(k, from) = {}
         /\ cache[k] # Unset =>
              \E i \in DOMAIN rows :
                /\ i >= from /\ rows[i] = [key |-> k, value |-> cache[k]]
                /\ \A j \in DOMAIN rows : j >= from /\ rows[j].key = k => j >= i

=============================================================================
