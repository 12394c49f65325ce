------------------------------- MODULE Skills -------------------------------
(***************************************************************************)
(* The algorithms among the skills of the fast path                        *)
(* (internal/skill/builtin): text (string_algorithms.go, text.go, diff.go, *)
(* gitignore.go), numbers (math_extended.go, encoding_extended.go), check  *)
(* digits (barcodes.go), address blocks (net.go) and schedules (cron.go).  *)
(* A skill is a pure function: a behaviour picks one and its arguments and *)
(* runs it.  Characters, digits and bytes are numbers; parsing the query   *)
(* and formatting the answer are left out.  Integers are as wide as        *)
(* IntLimit says where an overflow can be met.                             *)
(***************************************************************************)
EXTENDS Integers, Sequences, FiniteSets, SequencesExt

CONSTANTS
  Words,       \* arguments of the text skills
  Patterns,    \* ignore patterns, with Star and Query
  Names,       \* names they are matched with: Star is a character of a name too
  IntLimit,    \* integers are -IntLimit .. IntLimit - 1: 2^63 in the code
  Numbers,     \* integers of gcd and lcm
  Largest,     \* the largest number asked whether it is prime
  Payloads,    \* digits of a bar code without its check digit
  SerialParts, \* the seven digits of an ISSN
  ByteSize,    \* values of a byte
  AlphabetSize,\* characters of the text alphabet
  MaxBytes,    \* bytes encoded
  AddressBits, \* bits of an address
  MaxBlocks,   \* blocks in one merge
  HourMinutes, DayHours, Horizon  \* minutes an hour, hours a day, days searched

\* Trial division squares an odd number past the root of Largest.
ASSUME SkillsAssumption ==
  /\ IntLimit \in Nat \ {0} /\ Numbers \subseteq (-IntLimit)..(IntLimit - 1)
  /\ Largest \in Nat /\ \E d \in 3..IntLimit : d % 2 = 1 /\ d * d \in (Largest + 1)..(IntLimit - 1)
  /\ Payloads \subseteq Seq(0..9) /\ SerialParts \subseteq [1..7 -> 0..9]
  /\ {ByteSize, AlphabetSize} \subseteq Nat \ {0, 1} /\ MaxBytes \in Nat
  /\ {HourMinutes, DayHours} \subseteq Nat \ {0} /\ Horizon \in Nat

Star  == 9
Query == 8

VARIABLES
  job,     \* the skill and its arguments
  result,  \* what it returned
  ran      \* it has run

skillVars == <<job, result, ran>>

----------------------------------------------------------------------------
(* string_algorithms.go *)

Lcs(s, t) ==
  LET dp[i \in 0..Len(s), j \in 0..Len(t)] ==
        IF i = 0 \/ j = 0 THEN 0
        ELSE IF s[i] = t[j] THEN dp[i - 1, j - 1] + 1
        ELSE IF dp[i - 1, j] >= dp[i, j - 1] THEN dp[i - 1, j] ELSE dp[i, j - 1]
      back[i \in 0..Len(s), j \in 0..Len(t)] ==
        IF i = 0 \/ j = 0 THEN <<>>
        ELSE IF s[i] = t[j] THEN Append(back[i - 1, j - 1], s[i])
        ELSE IF dp[i - 1, j] >= dp[i, j - 1] THEN back[i - 1, j] ELSE back[i, j - 1]
  IN back[Len(s), Len(t)]

\* The first of the longest runs that end at the same letter in both words.
Substring(s, t) ==
  LET run[i \in 0..Len(s), j \in 0..Len(t)] ==
        IF i = 0 \/ j = 0 THEN 0 ELSE IF s[i] = t[j] THEN run[i - 1, j - 1] + 1 ELSE 0
      best == CHOOSE n \in 0..Len(s) :
                /\ \E i \in 0..Len(s), j \in 0..Len(t) : run[i, j] = n
                /\ \A i \in 0..Len(s), j \in 0..Len(t) : run[i, j] <= n
      end  == CHOOSE i \in 0..Len(s) :
                /\ \E j \in 0..Len(t) : run[i, j] = best
                /\ \A h \in 0..(i - 1), j \in 0..Len(t) : run[h, j] < best
  IN SubSeq(s, end - best + 1, end)

Hamming(s, t) ==
  IF Len(s) # Len(t) THEN -1 ELSE Cardinality({i \in DOMAIN s : s[i] # t[i]})

(* text.go *)
Levenshtein(s, t) ==
  LET d[i \in 0..Len(s), j \in 0..Len(t)] ==
        IF i = 0 THEN j ELSE IF j = 0 THEN i
        ELSE LET keep == d[i - 1, j - 1] + (IF s[i] = t[j] THEN 0 ELSE 1)
                 drop == d[i - 1, j] + 1
                 add  == d[i, j - 1] + 1
             IN CHOOSE n \in {keep, drop, add} : n <= keep /\ n <= drop /\ n <= add
  IN d[Len(s), Len(t)]

(* diff.go: kept, deleted and added lines *)
Diff(s, t) ==
  LET dp[i \in 1..(Len(s) + 1), j \in 1..(Len(t) + 1)] ==
        IF i > Len(s) \/ j > Len(t) THEN 0
        ELSE IF s[i] = t[j] THEN dp[i + 1, j + 1] + 1
        ELSE IF dp[i + 1, j] >= dp[i, j + 1] THEN dp[i + 1, j] ELSE dp[i, j + 1]
      ops[i \in 1..(Len(s) + 1), j \in 1..(Len(t) + 1)] ==
        IF i > Len(s) /\ j > Len(t) THEN <<>>
        ELSE IF i <= Len(s) /\ j <= Len(t) /\ s[i] = t[j]
        THEN <<[kind |-> "equal", line |-> s[i]]>> \o ops[i + 1, j + 1]
        ELSE IF j > Len(t) \/ (i <= Len(s) /\ dp[i + 1, j] >= dp[i, j + 1])
        THEN <<[kind |-> "del", line |-> s[i]]>> \o ops[i + 1, j]
        ELSE <<[kind |-> "add", line |-> t[j]]>> \o ops[i, j + 1]
  IN ops[1, 1]

(* gitignore.go: one scan that goes back to the last star *)
Wildcard(pattern, name) ==
  LET at(p, c) == p <= Len(pattern) /\ pattern[p] = c
      scan[p \in Nat, n \in Nat, star \in Nat, from \in Nat] ==
        IF n > Len(name) THEN \A i \in p..Len(pattern) : pattern[i] = Star
        ELSE IF at(p, Query) \/ at(p, name[n]) THEN scan[p + 1, n + 1, star, from]
        ELSE IF at(p, Star) THEN scan[p + 1, n, p, n]
        ELSE star # 0 /\ scan[star + 1, from + 1, star, from + 1]
  IN scan[1, 1, 0, 0]

----------------------------------------------------------------------------
(* math_extended.go *)

\* Integers wrap around, and division truncates; the least one is its own
\* absolute value.
Wrap(n) == ((n + IntLimit) % (2 * IntLimit)) - IntLimit
Magnitude(n) == IF n < 0 THEN -n ELSE n
Abs(n) == Wrap(Magnitude(n))
Quo(m, n) ==
  LET q == Magnitude(m) \div Magnitude(n) IN Wrap(IF (m < 0) = (n < 0) THEN q ELSE -q)
Rem(m, n) ==
  LET r == Magnitude(m) % Magnitude(n) IN IF m < 0 THEN -r ELSE r

GcdInt ==
  LET gcd[m \in Int, n \in Int] == IF n = 0 THEN m ELSE gcd[n, Rem(m, n)] IN gcd

Gcd(nums) == FoldLeft(LAMBDA r, n : GcdInt[r, Abs(n)], Abs(Head(nums)), Tail(nums))

\* A division by zero stops the program: no skill recovers.
Panic == IntLimit

Lcm(nums) ==
  FoldLeft(LAMBDA r, n : IF r = Panic \/ GcdInt[r, Abs(n)] = 0 THEN Panic
                         ELSE Wrap(Quo(r, GcdInt[r, Abs(n)]) * Abs(n)),
           Abs(Head(nums)), Tail(nums))

IsPrime(n) ==
  /\ n >= 2
  /\ n < 4 \/ (n % 2 # 0 /\ ~\E i \in 3..n : i % 2 = 1 /\ i * i <= n /\ n % i = 0)

PrimeFactors(n) ==
  LET split[at \in [left: 1..n, d: 2..(n + 1)]] ==
        IF at.d * at.d > at.left THEN (IF at.left > 1 THEN <<at.left>> ELSE <<>>)
        ELSE IF at.left % at.d = 0
        THEN <<at.d>> \o split[[left |-> at.left \div at.d, d |-> at.d]]
        ELSE split[[left |-> at.left, d |-> at.d + 1]]
  IN split[[left |-> n, d |-> 2]]

\* x[1] + ... + x[n]
Total(n, x) ==
  LET sum[i \in 0..n] == IF i = 0 THEN 0 ELSE sum[i - 1] + x[i] IN sum[n]

(* barcodes.go: weights 3 and 1 from the right, and 8 down to 2 for an ISSN *)
Weight(n, i) == IF (n - i) % 2 = 0 THEN 3 ELSE 1
CheckDigit(digits) ==
  LET sum == Total(Len(digits), [i \in DOMAIN digits |-> digits[i] * Weight(Len(digits), i)])
  IN (10 - (sum % 10)) % 10

IssnDigit(digits) ==
  LET sum == Total(7, [i \in 1..7 |-> digits[i] * (9 - i)])
  IN IF sum % 11 = 0 THEN 0 ELSE 11 - (sum % 11)

(* encoding_extended.go: numbers are big *)
NumberOf(s, base) ==
  LET value[i \in 0..Len(s)] == IF i = 0 THEN 0 ELSE value[i - 1] * base + s[i] IN value[Len(s)]
DigitsOf(n, base) ==
  LET digits[m \in 0..n] == IF m = 0 THEN <<>> ELSE Append(digits[m \div base], m % base)
  IN digits[n]
Zeros(s) == Cardinality({i \in DOMAIN s : \A j \in 1..i : s[j] = 0})
Recode(s, from, to) == [i \in 1..Zeros(s) |-> 0] \o DigitsOf(NumberOf(s, from), to)

Encode(bytes) == Recode(bytes, ByteSize, AlphabetSize)
Decode(text) == Recode(text, AlphabetSize, ByteSize)

----------------------------------------------------------------------------
(* net.go: an address block is its first address and its prefix length *)

Size(k) == 2 ^ (AddressBits - k)
Blocks == {b \in [ip: 0..(Size(0) - 1), ones: 0..AddressBits] : b.ip % Size(b.ones) = 0}
Has(b, ip) == ip \in b.ip..(b.ip + Size(b.ones) - 1)
Parent(b) == [ip |-> b.ip - (b.ip % Size(b.ones - 1)), ones |-> b.ones - 1]

\* Mutant: two blocks of one size are folded wherever they are.
FoldUnaligned(merged, b) ==
  LET last == Last(merged)
  IN IF Has(last, b.ip) THEN merged
     ELSE IF last.ones > 0 /\ last.ones = b.ones
     THEN Append(Front(merged), Parent(last)) ELSE Append(merged, b)

\* One step of the greedy merge: only the last block so far is looked at.
Fold(merged, b) ==
  LET last == Last(merged)
  IN IF Has(last, b.ip) THEN merged
     ELSE IF last.ones > 0 /\ last.ones = b.ones /\ Has(Parent(last), b.ip)
     THEN Append(Front(merged), Parent(last)) ELSE Append(merged, b)

Merge(blocks) ==
  LET sorted == SetToSortSeq(blocks, LAMBDA x, y :
                  x.ip < y.ip \/ (x.ip = y.ip /\ x.ones < y.ones))
  IN FoldLeft(Fold, <<Head(sorted)>>, Tail(sorted))

(* cron.go: the three fields of a day are one set of days *)
DayLength == HourMinutes * DayHours
Fires(m, days, hours, minutes) ==
  /\ m \div DayLength \in days
  /\ (m % DayLength) \div HourMinutes \in hours
  /\ m % HourMinutes \in minutes

\* The search steps by a day, an hour or a minute and resets nothing below.
Never == -1
NextFire(from, days, hours, minutes) ==
  LET search[t \in Nat] ==
        IF t >= from + Horizon * DayLength THEN Never
        ELSE IF t \div DayLength \notin days THEN search[t + DayLength]
        ELSE IF (t % DayLength) \div HourMinutes \notin hours THEN search[t + HourMinutes]
        ELSE IF t % HourMinutes \notin minutes THEN search[t + 1] ELSE t
  IN search[from + 1]

----------------------------------------------------------------------------
SkillRests == job = [skill |-> "none"] /\ result = <<>> /\ ran = FALSE

SkillInit ==
  /\ result = <<>> /\ ran = FALSE
  /\ \/ \E s \in Words, t \in Words, k \in {"text", "edit"} : job = [skill |-> k, s |-> s, t |-> t]
     \/ \E p \in Patterns, s \in Names : job = [skill |-> "wildcard", p |-> p, s |-> s]
     \/ \E n \in UNION {[1..k -> Numbers] : k \in 2..3} : job = [skill |-> "divisors", n |-> n]
     \/ \E n \in 0..Largest : job = [skill |-> "prime", n |-> n]
     \/ \E d \in Payloads : job = [skill |-> "mod10", d |-> d]
     \/ \E d \in SerialParts : job = [skill |-> "issn", d |-> d]
     \/ \E d \in UNION {[1..k -> 0..(ByteSize - 1)] : k \in 0..MaxBytes} : job = [skill |-> "bytes", d |-> d]
     \/ \E b \in SUBSET Blocks : Cardinality(b) \in 1..MaxBlocks /\ job = [skill |-> "merge", b |-> b]
     \/ \E from \in 0..(DayLength - 1), days \in SUBSET (0..Horizon),
           hours \in SUBSET (0..(DayHours - 1)), minutes \in SUBSET (0..(HourMinutes - 1)) :
          job = [skill |-> "cron", from |-> from, days |-> days, hours |-> hours, minutes |-> minutes]

Run(skill) == ~ran /\ ran' = TRUE /\ job.skill = skill /\ UNCHANGED job

SkillNext ==
  \/ Run("text") /\ result' = [lcs |-> Lcs(job.s, job.t), sub |-> Substring(job.s, job.t),
                               diff |-> Diff(job.s, job.t)]
  \/ Run("edit") /\ result' = <<Levenshtein(job.s, job.t), Hamming(job.s, job.t)>>
  \/ Run("wildcard") /\ result' = Wildcard(job.p, job.s)
  \/ Run("divisors") /\ result' = <<Gcd(job.n), Lcm(job.n)>>
  \/ Run("prime") /\ result' = [is |-> IsPrime(job.n),
                                factors |-> IF job.n < 2 THEN <<>> ELSE PrimeFactors(job.n)]
  \/ Run("mod10") /\ result' = CheckDigit(job.d)
  \/ Run("issn") /\ result' = IssnDigit(job.d)
  \/ Run("bytes") /\ result' = Encode(job.d)
  \/ Run("merge") /\ result' = Merge(job.b)
  \/ Run("cron") /\ result' = NextFire(job.from, job.days, job.hours, job.minutes)

SkillSpec == SkillInit /\ [][SkillNext]_skillVars

----------------------------------------------------------------------------
(* What the results should be, defined without the algorithms. *)

Subsequences(s) ==
  {FoldLeft(LAMBDA r, i : IF i \in I THEN Append(r, s[i]) ELSE r, <<>>, [i \in DOMAIN s |-> i]) :
     I \in SUBSET DOMAIN s}
Segments(s) == {SubSeq(s, i, j) : i \in 1..(Len(s) + 1), j \in 0..Len(s)}
LongestIn(s, set) == s \in set /\ \A x \in set : Len(x) <= Len(s)
Side(ops, kind) == LET of == SelectSeq(ops, LAMBDA o : o.kind \in {"equal", kind})
                   IN [i \in DOMAIN of |-> of[i].line]

TextIsRight(s, t) ==
  /\ LongestIn(result.lcs, Subsequences(s) \intersect Subsequences(t))
  /\ LongestIn(result.sub, Segments(s) \intersect Segments(t))
  /\ Side(result.diff, "del") = s /\ Side(result.diff, "add") = t
  /\ Len(SelectSeq(result.diff, LAMBDA o : o.kind = "equal")) = Len(result.lcs)

\* Words of one edit's distance, and of k edits.
OneEdit(s) ==
  {w \in Words : \/ \E i \in DOMAIN s : w = RemoveAt(s, i)
                 \/ \E i \in DOMAIN w : s = RemoveAt(w, i)
                 \/ Len(w) = Len(s) /\ \E i \in DOMAIN s : w = [s EXCEPT ![i] = w[i]]}
WithinEdits(s) ==
  LET reach[k \in Nat] == IF k = 0 THEN {s} ELSE UNION {OneEdit(w) : w \in reach[k - 1]} \union reach[k - 1]
  IN reach
EditIsRight(s, t) ==
  LET d == result[1] IN
  /\ t \in WithinEdits(s)[d] /\ (d > 0 => t \notin WithinEdits(s)[d - 1])
  /\ result[2] # -1 => d <= result[2]

Matches(pattern, name) ==
  LET m[p \in Nat, n \in Nat] ==
        IF p > Len(pattern) THEN n > Len(name)
        ELSE IF pattern[p] = Star THEN \E k \in n..(Len(name) + 1) : m[p + 1, k]
        ELSE n <= Len(name) /\ pattern[p] \in {Query, name[n]} /\ m[p + 1, n + 1]
  IN m[1, 1]

\* A name with a star in it may be missed.
WildcardIsRight(pattern, name) ==
  /\ result => Matches(pattern, name)
  /\ Matches(pattern, name) => result \/ Star \in Range(name)

Divides(d, n) == d # 0 /\ n % d = 0
\* A divisor of the least integer, or a multiple that overflows, may be wrong.
DivisorsAreRight(nums) ==
  LET values    == {Magnitude(nums[i]) : i \in DOMAIN nums}
      common    == {d \in 1..IntLimit : \A n \in values : Divides(d, n)}
      multiples == {m \in 1..(IntLimit - 1) : \A n \in values : Divides(n, m)}
  IN /\ IF values = {0} THEN result[1] = 0
        ELSE IntLimit \in values \/ (result[1] \in common /\ \A d \in common : d <= result[1])
     /\ IF Cardinality({i \in DOMAIN nums : nums[i] = 0}) > 1 THEN result[2] = Panic
        ELSE IF 0 \in values THEN result[2] = 0
        ELSE multiples = {} \/ (result[2] \in multiples /\ \A m \in multiples : result[2] <= m)

Prime(n) == n > 1 /\ \A d \in 2..(n - 1) : n % d # 0
Product(s) ==
  LET times[i \in 0..Len(s)] == IF i = 0 THEN 1 ELSE times[i - 1] * s[i] IN times[Len(s)]
PrimesAreRight(n) ==
  /\ result.is = Prime(n)
  /\ n > 1 => Product(result.factors) = n
  /\ \A i \in DOMAIN result.factors : Prime(result.factors[i])
  /\ \A i \in 2..Len(result.factors) : result.factors[i - 1] <= result.factors[i]

Swapped(s, i, j) == [s EXCEPT ![i] = s[j], ![j] = s[i]]
Mod10Catches(d) ==
  /\ \A i \in DOMAIN d, x \in (0..9) : x # d[i] => CheckDigit([d EXCEPT ![i] = x]) # result
  /\ \A i \in 2..Len(d) :
       CheckDigit(Swapped(d, i - 1, i)) = result <=> d[i] - d[i - 1] \in {-5, 0, 5}
IssnCatches(d) ==
  /\ \A i \in DOMAIN d, x \in (0..9) : x # d[i] => IssnDigit([d EXCEPT ![i] = x]) # result
  /\ \A i, j \in DOMAIN d : d[i] # d[j] => IssnDigit(Swapped(d, i, j)) # result

Covered(blocks) == {ip \in 0..(Size(0) - 1) : \E b \in blocks : Has(b, ip)}
MergeIsRight(blocks) ==
  LET once  == Range(result)
      fully == Merge(Range(Merge(once)))
  IN /\ Covered(once) = Covered(blocks)
     /\ \A x, y \in once : x # y => Covered({x}) \intersect Covered({y}) = {}
     /\ \A c \in {c \in SUBSET Blocks : Cardinality(c) < Len(fully)} : Covered(c) # Covered(blocks)

FireIsRight(from, days, hours, minutes) ==
  LET due == {m \in (from + 1)..(from + Horizon * DayLength - 1) : Fires(m, days, hours, minutes)}
      start == from + 1
  IN /\ result # Never => result \in due
     /\ \A m \in due : result = Never \/ m < result =>
          m % DayLength < start % DayLength \/ m % HourMinutes < start % HourMinutes

(* Each skill returns what its name promises: a longest common subsequence  *)
(* and substring, a least edit script, a match exactly when the pattern has *)
(* one, the greatest divisor and least multiple, the prime factors, check   *)
(* digits that catch one wrong digit and swapped ones, an encoding that can *)
(* be undone.  What the code does not keep is left out, case by case: a     *)
(* name with a star in it may be missed; the divisor of the least integer   *)
(* may be negative; a multiple past the largest integer is wrapped, and the *)
(* one of two zeros divides by zero; swapped digits five apart pass the     *)
(* mod-10 check; blocks cover what they did, in no more blocks than needed  *)
(* only when the merge is run again on its result; and the next fire time   *)
(* may pass over a minute that is earlier in its day, or its hour, than the *)
(* minute the search began at.  Primes are those of numbers whose root can  *)
(* be passed without an overflow.                                           *)
SkillsMeetTheirDefinition ==
  ran =>
    CASE job.skill = "text" -> TextIsRight(job.s, job.t)
      [] job.skill = "edit" -> EditIsRight(job.s, job.t)
      [] job.skill = "wildcard" -> WildcardIsRight(job.p, job.s)
      [] job.skill = "divisors" -> DivisorsAreRight(job.n)
      [] job.skill = "prime" -> PrimesAreRight(job.n)
      [] job.skill = "mod10" -> Mod10Catches(job.d)
      [] job.skill = "issn" -> IssnCatches(job.d)
      [] job.skill = "bytes" -> Decode(result) = job.d
      [] job.skill = "merge" -> MergeIsRight(job.b)
      [] job.skill = "cron" -> FireIsRight(job.from, job.days, job.hours, job.minutes)

=============================================================================
