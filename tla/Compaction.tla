----------------------------- MODULE Compaction -----------------------------
(***************************************************************************)
(* Short-term memory and its compaction into long-term memory              *)
(* (internal/memory: shortterm.go, compactor.go and the manager's Store,   *)
(* Delete, CompactIfNeeded and Close in store.go).  The manager's lock is  *)
(* held over every operation, so an operation is an action.  An entry is   *)
(* its identifier and its estimated tokens; what the summariser and the    *)
(* database answer is free.                                                *)
(***************************************************************************)
EXTENDS Integers, Sequences, FiniteSets, SequencesExt

CONSTANTS
  MemoryConfigs,  \* records [tokens, capacity]: the limits of a memory
  EntrySizes,     \* estimated tokens of one entry
  MaxEntries      \* bound: entries ever stored

ASSUME CompactionAssumption ==
  /\ MemoryConfigs \subseteq [tokens: Nat, capacity: Nat]
  /\ EntrySizes \subseteq Nat /\ MaxEntries \in Nat

VARIABLES
  limits,      \* maxTokens and maxCapacity
  shortTerm,   \* stm.entries, oldest first
  tokens,      \* stm.currentTokens
  nextId,      \* identifiers given out
  summarised,  \* entries a long-term row of a compaction stands for
  memOpen      \* ~m.closed

memVars == <<limits, shortTerm, tokens, nextId, summarised, memOpen>>

CompactionInit ==
  /\ limits \in MemoryConfigs
  /\ shortTerm = <<>> /\ tokens = 0 /\ nextId = 0
  /\ summarised = {} /\ memOpen = TRUE

Entries == [id: Nat, size: Nat]

TokensOf(s) ==
  LET sum[n \in 0..Len(s)] == IF n = 0 THEN 0 ELSE sum[n - 1] + s[n].size
  IN sum[Len(s)]

\* currentTokens never goes below zero.
Less(t, s) == LET d == t - TokensOf(s) IN IF d < 0 THEN 0 ELSE d

----------------------------------------------------------------------------
\* Mutant: only the capacity is looked at.
OverCapacity(s, t) == Len(s) > limits.capacity

Over(s, t) == t > limits.tokens \/ Len(s) > limits.capacity

\* trim: the shortest prefix whose removal meets both limits is removed.
Trimmed(s, t) ==
  LET left(n)  == SubSeq(s, n + 1, Len(s))
      count(n) == Less(t, SubSeq(s, 1, n))
      fits     == {n \in 0..Len(s) : n = Len(s) \/ ~Over(left(n), count(n))}
      cut      == CHOOSE n \in fits : \A m \in fits : n <= m
  IN [entries |-> left(cut), tokens |-> count(cut)]

\* ShouldTrigger: above the threshold of 0.75, which no caller changes.
Triggers(t) == limits.tokens # 0 /\ 4 * t > 3 * limits.tokens

\* Compactor.Compact of the entries s, counted t, to a target.  The newest
\* target / 2 ENTRIES stay, whatever their tokens; the others leave, also
\* when the summary says nothing or the database refuses it.
Kept(s, target) == SubSeq(s, IF Len(s) > target \div 2 THEN Len(s) - target \div 2 + 1 ELSE 1, Len(s))
Leaving(s, target) == SubSeq(s, 1, Len(s) - Len(Kept(s, target)))

Compacts(s, t, target) == t > target /\ Leaving(s, target) # <<>>

Settle(s, t, target) ==
  IF Compacts(s, t, target)
  THEN /\ shortTerm' = Kept(s, target)
       /\ tokens' = Less(t, Leaving(s, target))
       /\ LET all == {e.id : e \in Range(Leaving(s, target))}
          IN \E stored \in SUBSET all : summarised' = summarised \union stored
  ELSE shortTerm' = s /\ tokens' = t /\ UNCHANGED summarised

----------------------------------------------------------------------------
\* MemoryManager.Store of a short-term entry: Add, trim, and the inline
\* compaction toward the whole budget.
StoreShort ==
  /\ memOpen /\ nextId < MaxEntries
  /\ \E size \in EntrySizes :
       LET new == Trimmed(Append(shortTerm, [id |-> nextId, size |-> size]), tokens + size)
       IN IF Triggers(new.tokens)
          THEN Settle(new.entries, new.tokens, limits.tokens)
          ELSE shortTerm' = new.entries /\ tokens' = new.tokens /\ UNCHANGED summarised
  /\ nextId' = nextId + 1
  /\ UNCHANGED <<limits, memOpen>>

\* CompactIfNeeded, run in the background after a task.
CompactAfterTask ==
  /\ memOpen /\ Triggers(tokens)
  /\ Settle(shortTerm, tokens, limits.tokens \div 2)
  /\ UNCHANGED <<limits, nextId, memOpen>>

DeleteShort ==
  /\ memOpen
  /\ \E i \in DOMAIN shortTerm :
       /\ shortTerm' = RemoveAt(shortTerm, i)
       /\ tokens' = Less(tokens, <<shortTerm[i]>>)
  /\ UNCHANGED <<limits, nextId, summarised, memOpen>>

CloseMemory ==
  /\ memOpen /\ memOpen' = FALSE
  /\ UNCHANGED <<limits, shortTerm, tokens, nextId, summarised>>

CompactionNext == StoreShort \/ CompactAfterTask \/ DeleteShort \/ CloseMemory

CompactionSpec == CompactionInit /\ [][CompactionNext]_memVars

----------------------------------------------------------------------------
CompactionTypeOK ==
  /\ limits \in MemoryConfigs
  /\ shortTerm \in Seq(Entries) /\ tokens \in Nat
  /\ nextId \in 0..MaxEntries /\ summarised \subseteq 0..MaxEntries
  /\ memOpen \in BOOLEAN

(* The counter the limits and the trigger are compared with is kept apart   *)
(* from the entries, by five pieces of code: however they are added,        *)
(* trimmed, compacted and deleted, it is the tokens of those held.          *)
TokensAreThoseHeld == tokens = TokensOf(shortTerm)

(* What reaches long-term memory by compaction.  The compaction inside      *)
(* Store never stores anything: trim has already brought the count under    *)
(* the whole budget, its target, so entries beyond the budget are dropped   *)
(* without a summary.  And the compaction after a task moves something only *)
(* if more entries than a quarter of the token budget fit: with the         *)
(* defaults, 4000 tokens and 1000 entries, it never does.                   *)
OnlyPostTaskCompactionMoves ==
  [][summarised' # summarised =>
       nextId' = nextId /\ limits.tokens \div 4 < limits.capacity]_memVars

=============================================================================
