---------------------------- MODULE SkillsProofs ----------------------------
(***************************************************************************)
(* Skills, for arguments of any size: the primality test and the prime     *)
(* factors, the check digits, the encoding and the search for the next     *)
(* fire time meet their definitions. A recursive function is a CHOOSE, so  *)
(* each comes with a lemma that its equation has a solution.               *)
(***************************************************************************)
EXTENDS Skills, AgentProofs, SequenceTheorems, TLAPS

\* What holds at 0 and passes from each number to the next.
LEMMA StepUp ==
  ASSUME NEW n \in Nat, NEW G, 0 \in G, \A k \in 1..n : k - 1 \in G => k \in G
  PROVE  0..n \subseteq G
<1> DEFINE T == {k \in 0..n : k \notin G}
<1>1. CASE T # {}
  <2>1. PICK k \in T : \A y \in T : k <= y
    <3>1. T \subseteq Nat
      OBVIOUS
    <3> HIDE DEF T
    <3>2. QED BY <1>1, <3>1, LeastNumber
  <2>2. k \in 1..n /\ k - 1 \in 0..n /\ ~(k <= k - 1)
    BY <2>1
  <2>3. QED BY <2>1, <2>2
<1>2. QED BY <1>1

\* Division, for divisors that are not given.
LEMMA Quotient ==
  ASSUME NEW a \in Nat, NEW b \in Nat \ {0}
  PROVE  a \div b \in Nat /\ a % b \in 0..(b - 1) /\ a = (a \div b) * b + (a % b)
<1>1. a \div b \in Nat /\ a % b \in 0..(b - 1)
  OBVIOUS
<1>2. a = (a \div b) * b + (a % b)
  OBVIOUS
<1>3. QED BY <1>1, <1>2

LEMMA QuotientIs ==
  ASSUME NEW a \in Nat, NEW b \in Nat \ {0}, NEW q \in Nat, NEW r \in 0..(b - 1), a = q * b + r
  PROVE  a \div b = q /\ a % b = r
<1>1. a \div b = q
  OBVIOUS
<1>2. a % b = r
  OBVIOUS
<1>3. QED BY <1>1, <1>2

\* A number in two units, the larger of d smaller ones.
LEMMA Mixed ==
  ASSUME NEW p \in Nat, NEW x \in Nat, NEW r \in Nat, NEW h \in Nat, NEW d \in Nat
  PROVE  p * (h * d) + (x * h + r) = (p * d + x) * h + r
OBVIOUS

LEMMA Scaled ==
  ASSUME NEW x \in Nat, NEW y \in Nat, NEW h \in Nat, x <= y
  PROVE  x * h <= y * h
OBVIOUS

-----------------------------------------------------------------------------
(* nextFireTime *)

Day(m) == m \div DayLength
Hour(m) == (m % DayLength) \div HourMinutes
Minute(m) == m % HourMinutes

LEMMA Lengths ==
  /\ HourMinutes \in Nat \ {0} /\ DayHours \in Nat \ {0} /\ DayLength \in Nat \ {0}
  /\ DayLength = HourMinutes * DayHours /\ HourMinutes <= DayLength
<1>1. HourMinutes \in Nat \ {0} /\ DayHours \in Nat \ {0}
  BY SkillsAssumption
<1>2. HourMinutes * DayHours \in Nat /\ HourMinutes * 1 <= HourMinutes * DayHours
  BY <1>1
<1>3. QED BY <1>1, <1>2 DEF DayLength

\* A minute is its day, its hour and its minute, and they are it alone.
LEMMA Clock ==
  ASSUME NEW m \in Nat
  PROVE  /\ Day(m) \in Nat /\ Hour(m) \in 0..(DayHours - 1) /\ Minute(m) \in 0..(HourMinutes - 1)
         /\ m % DayLength = Hour(m) * HourMinutes + Minute(m)
         /\ m = Day(m) * DayLength + (m % DayLength)
         /\ m % DayLength \in 0..(DayLength - 1)
<1> DEFINE L == DayLength
           H == HourMinutes
           D == DayHours
           r == m % L
<1>1. H \in Nat \ {0} /\ D \in Nat \ {0} /\ L \in Nat \ {0} /\ L = H * D
  BY Lengths
<1> HIDE DEF L, H, D
<1>2. m \div L \in Nat /\ r \in 0..(L - 1) /\ m = (m \div L) * L + r
  BY <1>1, Quotient
<1> HIDE DEF r
<1>3. r \div H \in Nat /\ r % H \in 0..(H - 1) /\ r = (r \div H) * H + (r % H)
  <2>1. r \in Nat
    BY <1>1, <1>2
  <2>2. QED BY <1>1, <2>1, Quotient
<1>4. m % H = r % H
  <2>1. PICK p \in Nat, x \in Nat, y \in 0..(H - 1) :
          m \div L = p /\ r \div H = x /\ r % H = y
    BY <1>2, <1>3
  <2>2. m = p * (H * D) + (x * H + y)
    BY <1>1, <1>2, <1>3, <2>1
  <2>3. m = (p * D + x) * H + y
    BY <1>1, <2>1, <2>2, Mixed
  <2>4. PICK q \in Nat : q = p * D + x
    BY <1>1, <2>1
  <2>5. m % H = y
    <3>1. m = q * H + y
      BY <2>3, <2>4
    <3>2. QED BY ONLY <1>1, <2>1, <3>1, m \in Nat, QuotientIs
  <2>6. QED BY <2>1, <2>5
<1>5. r \div H \in 0..(D - 1)
  <2>1. CASE r \div H >= D
    <3>1. D * H <= (r \div H) * H
      BY <1>1, <1>3, <2>1, Scaled
    <3>2. D * H = L
      BY <1>1
    <3>3. QED BY <1>1, <1>2, <1>3, <3>1, <3>2
  <2>2. QED BY <1>1, <1>3, <2>1
<1>6. QED BY <1>2, <1>3, <1>4, <1>5 DEF Day, Hour, Minute, L, H, D, r

LEMMA TimeOf ==
  ASSUME NEW t \in Nat
  PROVE  \E w \in Nat, x \in 0..(DayHours - 1), v \in 0..(HourMinutes - 1) :
           /\ Day(t) = w /\ Hour(t) = x /\ Minute(t) = v
           /\ t % DayLength = x * HourMinutes + v /\ t = w * DayLength + (x * HourMinutes + v)
<1>1. /\ Day(t) \in Nat /\ Hour(t) \in 0..(DayHours - 1) /\ Minute(t) \in 0..(HourMinutes - 1)
      /\ t % DayLength = Hour(t) * HourMinutes + Minute(t)
      /\ t = Day(t) * DayLength + (t % DayLength)
  BY Clock
<1>2. PICK w \in Nat : w = Day(t)
  BY <1>1
<1>3. PICK x \in 0..(DayHours - 1) : x = Hour(t)
  BY <1>1
<1>4. PICK v \in 0..(HourMinutes - 1) : v = Minute(t)
  BY <1>1
<1>5. QED BY <1>1, <1>2, <1>3, <1>4

LEMMA ClockIs ==
  ASSUME NEW m \in Nat, NEW w \in Nat, NEW x \in 0..(DayHours - 1), NEW v \in 0..(HourMinutes - 1),
         m = w * DayLength + (x * HourMinutes + v)
  PROVE  /\ Day(m) = w /\ Hour(m) = x /\ Minute(m) = v
         /\ m % DayLength = x * HourMinutes + v /\ m \div HourMinutes = w * DayHours + x
<1> DEFINE L == DayLength
           H == HourMinutes
           D == DayHours
<1>1. H \in Nat \ {0} /\ D \in Nat \ {0} /\ L \in Nat \ {0} /\ L = H * D
  BY Lengths
<1> HIDE DEF L, H, D
<1>2. x \in Nat /\ v \in 0..(H - 1) /\ x <= D - 1 /\ m = w * L + (x * H + v)
  BY <1>1 DEF L, H, D
<1>3. PICK r \in Nat : r = x * H + v
  BY <1>1, <1>2
<1>4. r \in 0..(L - 1)
  <2>1. x * H <= (D - 1) * H
    BY <1>1, <1>2, Scaled
  <2>2. (D - 1) * H = L - H
    BY <1>1
  <2>3. QED BY <1>1, <1>2, <1>3, <2>1, <2>2
<1>5. m \div L = w /\ m % L = r
  BY <1>1, <1>2, <1>3, <1>4, QuotientIs
<1>6. r \div H = x
  BY <1>1, <1>2, <1>3, QuotientIs
<1>7. PICK q \in Nat : q = w * D + x
  BY <1>1, <1>2
<1>8. m = q * H + v
  BY <1>1, <1>2, <1>7, Mixed
<1>9. m \div H = q /\ m % H = v
  <2>1. H \in Nat \ {0} /\ v \in 0..(H - 1)
    BY <1>1, <1>2
  <2>2. QED BY ONLY <1>7, <1>8, <2>1, m \in Nat, QuotientIs
<1>10. QED BY <1>3, <1>5, <1>6, <1>7, <1>9 DEF Day, Hour, Minute, L, H, D

\* The three steps of the search.
LEMMA DayLater ==
  ASSUME NEW t \in Nat
  PROVE  /\ Day(t + DayLength) = Day(t) + 1 /\ Hour(t + DayLength) = Hour(t)
         /\ Minute(t + DayLength) = Minute(t)
         /\ (t + DayLength) % DayLength = t % DayLength
<1>1. PICK w \in Nat, x \in 0..(DayHours - 1), v \in 0..(HourMinutes - 1) :
        /\ Day(t) = w /\ Hour(t) = x /\ Minute(t) = v
        /\ t % DayLength = x * HourMinutes + v /\ t = w * DayLength + (x * HourMinutes + v)
  BY TimeOf
<1>2. t + DayLength \in Nat /\ w + 1 \in Nat
  BY Lengths
<1>3. t + DayLength = (w + 1) * DayLength + (x * HourMinutes + v)
  BY <1>1, Lengths
<1>4. QED BY <1>1, <1>2, <1>3, ClockIs

LEMMA HourLater ==
  ASSUME NEW t \in Nat
  PROVE  /\ Minute(t + HourMinutes) = Minute(t)
         /\ \/ Day(t + HourMinutes) = Day(t)
            \/ (t + HourMinutes) % DayLength = Minute(t)
<1>1. PICK w \in Nat, x \in 0..(DayHours - 1), v \in 0..(HourMinutes - 1) :
        /\ Day(t) = w /\ Minute(t) = v /\ t = w * DayLength + (x * HourMinutes + v)
  BY TimeOf
<1>2. t + HourMinutes \in Nat /\ w + 1 \in Nat /\ 0 \in 0..(DayHours - 1) /\ DayHours \in Nat
  BY Lengths
<1>3. CASE x + 1 < DayHours
  <2>1. x + 1 \in 0..(DayHours - 1)
    BY <1>2, <1>3
  <2>2. t + HourMinutes = w * DayLength + ((x + 1) * HourMinutes + v)
    BY <1>1, Lengths
  <2>3. QED BY <1>1, <1>2, <2>1, <2>2, ClockIs
<1>4. CASE ~(x + 1 < DayHours)
  <2>1. x + 1 = DayHours
    BY <1>2, <1>4
  <2>2. (x + 1) * HourMinutes = DayLength
    BY <2>1, Lengths
  <2>3. t + HourMinutes = (w + 1) * DayLength + (0 * HourMinutes + v)
    BY <1>1, <2>2, Lengths
  <2>4. 0 * HourMinutes + v = v
    BY Lengths
  <2>5. QED BY <1>1, <1>2, <2>3, <2>4, ClockIs
<1>5. QED BY <1>3, <1>4

LEMMA MinuteLater ==
  ASSUME NEW t \in Nat
  PROVE  \/ Day(t + 1) = Day(t) /\ Hour(t + 1) = Hour(t)
         \/ Minute(t + 1) = 0 /\ (Day(t + 1) = Day(t) \/ (t + 1) % DayLength = 0)
<1>1. PICK w \in Nat, x \in 0..(DayHours - 1), v \in 0..(HourMinutes - 1) :
        /\ Day(t) = w /\ Hour(t) = x /\ t = w * DayLength + (x * HourMinutes + v)
  BY TimeOf
<1>2. /\ t + 1 \in Nat /\ w + 1 \in Nat /\ 0 \in 0..(DayHours - 1) /\ 0 \in 0..(HourMinutes - 1)
      /\ DayHours \in Nat /\ HourMinutes \in Nat
  BY Lengths
<1>3. CASE v + 1 < HourMinutes
  <2>1. PICK u \in 0..(HourMinutes - 1) : u = v + 1
    BY <1>2, <1>3
  <2>2. PICK n \in Nat : n = t + 1
    OBVIOUS
  <2>3. n = w * DayLength + (x * HourMinutes + u)
    BY <1>1, <2>1, <2>2, Lengths
  <2>4. Day(n) = w /\ Hour(n) = x
    BY <2>3, ClockIs
  <2>5. QED BY <1>1, <2>2, <2>4
<1>4. CASE ~(v + 1 < HourMinutes)
  <2>1. v + 1 = HourMinutes
    BY <1>2, <1>4
  <2>2. CASE x + 1 < DayHours
    <3>1. PICK y \in 0..(DayHours - 1) : y = x + 1
      BY <1>2, <2>2
    <3>2. PICK n \in Nat, u \in 0..(HourMinutes - 1) : n = t + 1 /\ u = 0
      BY <1>2
    <3>3. n = w * DayLength + (y * HourMinutes + u)
      BY <1>1, <2>1, <3>1, <3>2, Lengths
    <3>4. Day(n) = w /\ Minute(n) = u
      BY <3>3, ClockIs
    <3>5. QED BY <1>1, <3>2, <3>4
  <2>3. CASE ~(x + 1 < DayHours)
    <3>1. x + 1 = DayHours
      BY <1>2, <2>3
    <3>2. (x + 1) * HourMinutes = DayLength
      BY <3>1, Lengths
    <3>3. t + 1 = (w + 1) * DayLength + (0 * HourMinutes + 0)
      BY <1>1, <2>1, <3>2, Lengths
    <3>4. 0 * HourMinutes + 0 = 0
      BY Lengths
    <3>5. QED BY <1>1, <1>2, <3>3, <3>4, ClockIs
  <2>4. QED BY <2>2, <2>3
<1>5. QED BY <1>3, <1>4

\* A step of b that skips m into the next unit leads to a later place in its own.
LEMMA Skipped ==
  ASSUME NEW t \in Nat, NEW m \in Nat, NEW b \in Nat \ {0}, t <= m, m < t + b,
         m \div b # t \div b
  PROVE  m % b < t % b
<1>1. PICK p \in Nat, q \in Nat, x \in 0..(b - 1), y \in 0..(b - 1) :
        /\ m \div b = p /\ t \div b = q /\ m % b = x /\ t % b = y
        /\ m = p * b + x /\ t = q * b + y
  <2>1. m \div b \in Nat /\ m % b \in 0..(b - 1) /\ m = (m \div b) * b + (m % b)
    BY Quotient
  <2>2. t \div b \in Nat /\ t % b \in 0..(b - 1) /\ t = (t \div b) * b + (t % b)
    BY Quotient
  <2>3. QED BY <2>1, <2>2
<1>2. CASE p < q
  <2>1. (p + 1) * b <= q * b
    BY <1>2, Scaled
  <2>2. (p + 1) * b = p * b + b
    OBVIOUS
  <2>3. QED BY <1>1, <2>1, <2>2
<1>3. CASE q < p
  <2>1. (q + 1) * b <= p * b
    BY <1>3, Scaled
  <2>2. (q + 1) * b = q * b + b
    OBVIOUS
  <2>3. QED BY <1>1, <2>1, <2>2
<1>4. QED BY <1>1, <1>2, <1>3

\* What the search does at minute t when f is what it does later.
SearchAt(f, t, limit, days, hours, minutes) ==
  IF t >= limit THEN Never
  ELSE IF t \div DayLength \notin days THEN f[t + DayLength]
  ELSE IF (t % DayLength) \div HourMinutes \notin hours THEN f[t + HourMinutes]
  ELSE IF t % HourMinutes \notin minutes THEN f[t + 1] ELSE t

LEMMA LooksAhead ==
  ASSUME NEW f, NEW g, NEW t \in Nat, NEW limit, NEW days, NEW hours, NEW minutes,
         \A u \in Nat : u > t => f[u] = g[u]
  PROVE  SearchAt(f, t, limit, days, hours, minutes) = SearchAt(g, t, limit, days, hours, minutes)
<1>1. /\ t + DayLength \in Nat /\ t + HourMinutes \in Nat /\ t + 1 \in Nat
      /\ t + DayLength > t /\ t + HourMinutes > t /\ t + 1 > t
  BY Lengths
<1>2. /\ f[t + DayLength] = g[t + DayLength] /\ f[t + HourMinutes] = g[t + HourMinutes]
      /\ f[t + 1] = g[t + 1]
  BY <1>1
<1>3. QED BY <1>2 DEF SearchAt

OnNat(f) == f = [t \in Nat |-> f[t]]
SearchFound(limit, days, hours, minutes) ==
  \E f : OnNat(f) /\ \A t \in Nat : f[t] = SearchAt(f, t, limit, days, hours, minutes)

LEMMA SearchExists ==
  ASSUME NEW limit \in Nat, NEW days, NEW hours, NEW minutes
  PROVE  SearchFound(limit, days, hours, minutes)
<1> DEFINE Fits(f, t) == f[t] = SearchAt(f, t, limit, days, hours, minutes)
           Good(f, k) == f = [t \in Nat |-> f[t]] /\ \A t \in Nat : t + k >= limit => Fits(f, t)
           T == {k \in Nat : ~\E f : Good(f, k)}
<1>1. CASE T = {}
  <2>1. PICK f : Good(f, limit)
    BY <1>1
  <2>2. \A t \in Nat : f[t] = SearchAt(f, t, limit, days, hours, minutes)
    BY <2>1
  <2>3. OnNat(f)
    BY <2>1 DEF OnNat
  <2> HIDE DEF Good, T
  <2>4. QED BY <2>2, <2>3 DEF SearchFound
<1>2. CASE T # {}
  <2>1. PICK k \in T : \A y \in T : k <= y
    BY <1>2, LeastNumber
  <2>2. k # 0
    <3> DEFINE f == [t \in Nat |-> Never]
    <3>1. \A t \in Nat : t + 0 >= limit => f[t] = SearchAt(f, t, limit, days, hours, minutes)
      BY DEF SearchAt
    <3>2. f = [t \in Nat |-> f[t]]
      OBVIOUS
    <3>3. Good(f, 0)
      BY <3>1, <3>2
    <3>4. QED BY <2>1, <3>3
  <2>3. k \in Nat /\ k - 1 \in Nat /\ ~(k <= k - 1)
    BY <2>1, <2>2
  <2>4. PICK g : Good(g, k - 1)
    BY <2>1, <2>3
  <2> DEFINE f == [t \in Nat |-> IF t + k = limit THEN SearchAt(g, t, limit, days, hours, minutes)
                                 ELSE g[t]]
  <2>5. \A t \in Nat : t + k = limit => f[t] = SearchAt(g, t, limit, days, hours, minutes)
    OBVIOUS
  <2>6. \A t \in Nat : t + k # limit => f[t] = g[t]
    OBVIOUS
  <2>7. f = [t \in Nat |-> f[t]]
    OBVIOUS
  <2> HIDE DEF f
  <2>8. ASSUME NEW t \in Nat, t + k >= limit  PROVE Fits(f, t)
    <3>1. \A u \in Nat : u > t => f[u] = g[u]
      <4>1. \A u \in Nat : u > t => u + k # limit
        BY <2>3, <2>8
      <4>2. QED BY <2>6, <4>1
    <3>2. SearchAt(f, t, limit, days, hours, minutes) = SearchAt(g, t, limit, days, hours, minutes)
      BY ONLY <3>1, t \in Nat, LooksAhead
    <3>3. CASE t + k = limit
      BY <2>5, <3>2, <3>3
    <3>4. CASE t + k # limit
      <4>1. t + (k - 1) >= limit
        BY <2>3, <2>8, <3>4
      <4>2. Fits(g, t)
        BY <2>4, <4>1
      <4>3. QED BY <2>6, <3>2, <3>4, <4>2
    <3>5. QED BY <3>3, <3>4
  <2>9. Good(f, k)
    BY <2>7, <2>8
  <2>10. QED BY <2>1, <2>9
<1>3. QED BY <1>1, <1>2

\* What the search from t finds, whatever the schedule.
LEMMA FoundIsDue ==
  ASSUME NEW limit \in Nat, NEW days, NEW hours, NEW minutes, NEW f,
         \A t \in Nat : f[t] = SearchAt(f, t, limit, days, hours, minutes)
  PROVE  \A t \in Nat : f[t] = Never \/ /\ f[t] \in t..(limit - 1)
                                        /\ Fires(f[t], days, hours, minutes)
<1> DEFINE Good(t) == f[t] = Never \/ /\ f[t] \in t..(limit - 1)
                                      /\ Fires(f[t], days, hours, minutes)
           T == {k \in Nat : \E t \in Nat : t + k >= limit /\ ~Good(t)}
<1>1. CASE T = {}
  <2>1. \A t \in Nat : t + limit >= limit
    OBVIOUS
  <2>2. QED BY <1>1, <2>1
<1>2. CASE T # {}
  <2>1. PICK k \in T : \A y \in T : k <= y
    BY <1>2, LeastNumber
  <2>2. PICK t \in Nat : t + k >= limit /\ ~Good(t)
    BY <2>1
  <2>3. t < limit /\ k \in Nat /\ k # 0
    <3>1. CASE t >= limit
      BY <2>2, <3>1 DEF SearchAt
    <3>2. QED BY <2>1, <2>2, <3>1
  <2>4. \A u \in Nat : u > t => Good(u)
    <3>1. \A u \in Nat : u > t => u + (k - 1) >= limit
      BY <2>2, <2>3
    <3>2. k - 1 \in Nat /\ ~(k <= k - 1)
      BY <2>3
    <3>3. QED BY <2>1, <3>1, <3>2
  <2>5. \A u \in Nat : u > t => f[u] # f[t]
    BY <2>2, <2>3, <2>4
  <2>6. /\ t + DayLength \in Nat /\ t + HourMinutes \in Nat /\ t + 1 \in Nat
        /\ t + DayLength > t /\ t + HourMinutes > t /\ t + 1 > t
    BY Lengths
  <2>7. f[t] = t /\ Fires(t, days, hours, minutes)
    <3>1. f[t] = SearchAt(f, t, limit, days, hours, minutes) /\ ~(t >= limit)
      BY <2>3
    <3> HIDE DEF T, Good
    <3>2. QED BY <2>5, <2>6, <3>1 DEF SearchAt, Fires
  <2>8. QED BY <2>2, <2>3, <2>7
<1>3. QED BY <1>1, <1>2

\* Where the search that began at a minute may be: while it steps by days or
\* hours it is no later in the hour, or the day, than it began.
OnTrack(t, start, days, hours) ==
  /\ Minute(t) <= Minute(start) \/ (Day(t) \in days /\ Hour(t) \in hours)
  /\ t % DayLength <= start % DayLength \/ Day(t) \in days

LEMMA StaysOnTrack ==
  ASSUME NEW t \in Nat, NEW start \in Nat, NEW days, NEW hours, OnTrack(t, start, days, hours)
  PROVE  /\ Day(t) \notin days => OnTrack(t + DayLength, start, days, hours)
         /\ Day(t) \in days /\ Hour(t) \notin hours => OnTrack(t + HourMinutes, start, days, hours)
         /\ Day(t) \in days /\ Hour(t) \in hours => OnTrack(t + 1, start, days, hours)
<1>1. /\ Minute(start) \in Nat /\ start % DayLength \in Nat /\ Minute(t) \in Nat
      /\ Minute(start) <= start % DayLength
  <2>1. /\ Minute(start) \in 0..(HourMinutes - 1) /\ Minute(t) \in 0..(HourMinutes - 1)
        /\ Hour(start) \in 0..(DayHours - 1)
        /\ start % DayLength = Hour(start) * HourMinutes + Minute(start)
    BY Clock
  <2>2. 0 <= Hour(start) * HourMinutes /\ Hour(start) * HourMinutes \in Nat
    BY <2>1, Lengths
  <2>3. QED BY <2>1, <2>2, Lengths
<1>2. Day(t) \notin days => OnTrack(t + DayLength, start, days, hours)
  BY DayLater DEF OnTrack
<1>3. Day(t) \in days /\ Hour(t) \notin hours => OnTrack(t + HourMinutes, start, days, hours)
  BY <1>1, HourLater DEF OnTrack
<1>4. Day(t) \in days /\ Hour(t) \in hours => OnTrack(t + 1, start, days, hours)
  BY <1>1, MinuteLater DEF OnTrack
<1>5. QED BY <1>2, <1>3, <1>4

LEMMA HourOf ==
  ASSUME NEW m \in Nat, NEW t \in Nat, m \div HourMinutes = t \div HourMinutes
  PROVE  Hour(m) = Hour(t)
<1>1. PICK w \in Nat, x \in 0..(DayHours - 1), v \in 0..(HourMinutes - 1) :
        Hour(m) = x /\ m = w * DayLength + (x * HourMinutes + v)
  BY TimeOf
<1>2. m \div HourMinutes = w * DayHours + x
  BY <1>1, ClockIs
<1>3. PICK y \in Nat, z \in 0..(DayHours - 1), u \in 0..(HourMinutes - 1) :
        Hour(t) = z /\ t = y * DayLength + (z * HourMinutes + u)
  BY TimeOf
<1>4. t \div HourMinutes = y * DayHours + z
  BY <1>3, ClockIs
<1>5. DayHours \in Nat \ {0}
  BY Lengths
<1>6. PICK q \in Nat : q = w * DayHours + x /\ q = y * DayHours + z
  BY <1>2, <1>4, <1>5
<1>7. q % DayHours = x
  BY ONLY <1>5, <1>6, w \in Nat, x \in 0..(DayHours - 1), QuotientIs
<1>8. q % DayHours = z
  BY ONLY <1>5, <1>6, y \in Nat, z \in 0..(DayHours - 1), QuotientIs
<1>9. QED BY <1>1, <1>3, <1>7, <1>8

\* The search passes over a minute only when it is earlier in its day, or in
\* its hour, than the minute at which the search began.
LEMMA PassedOverIsEarlier ==
  ASSUME NEW limit \in Nat, NEW days, NEW hours, NEW minutes, NEW f, NEW start \in Nat,
         \A t \in Nat : f[t] = SearchAt(f, t, limit, days, hours, minutes)
  PROVE  \A t \in Nat : OnTrack(t, start, days, hours) =>
           \A m \in t..(limit - 1) :
             Fires(m, days, hours, minutes) /\ (f[t] = Never \/ m < f[t]) =>
               m % DayLength < start % DayLength \/ Minute(m) < Minute(start)
<1> DEFINE Earlier(m) == m % DayLength < start % DayLength \/ Minute(m) < Minute(start)
           Good(t) == OnTrack(t, start, days, hours) =>
                        \A m \in t..(limit - 1) :
                          Fires(m, days, hours, minutes) /\ (f[t] = Never \/ m < f[t]) => Earlier(m)
           T == {k \in Nat : \E t \in Nat : t + k >= limit /\ ~Good(t)}
<1>1. CASE T = {}
  <2>1. \A t \in Nat : t + limit >= limit
    OBVIOUS
  <2>2. QED BY <1>1, <2>1
<1>2. CASE T # {}
  <2>1. PICK k \in T : \A y \in T : k <= y
    BY <1>2, LeastNumber
  <2>2. PICK t \in Nat : t + k >= limit /\ ~Good(t)
    BY <2>1
  <2>3. t < limit /\ k \in Nat /\ k # 0
    <3>1. CASE t >= limit
      <4>1. \A m \in t..(limit - 1) : FALSE
        BY <3>1
      <4>2. QED BY <2>2, <4>1
    <3>2. CASE t < limit
      BY <2>1, <2>2, <3>2
    <3>3. QED BY <3>1, <3>2
  <2>4. \A u \in Nat : u > t => Good(u)
    <3>1. \A u \in Nat : u > t => u + (k - 1) >= limit
      BY <2>2, <2>3
    <3>2. k - 1 \in Nat /\ ~(k <= k - 1)
      BY <2>3
    <3> HIDE DEF Good
    <3>3. QED BY <2>1, <3>1, <3>2
  <2> HIDE DEF T
  <2>5. OnTrack(t, start, days, hours)
    BY <2>2
  <2>6. PICK m \in t..(limit - 1) : /\ Fires(m, days, hours, minutes)
                                    /\ f[t] = Never \/ m < f[t]
                                    /\ ~Earlier(m)
    BY <2>2
  <2>7. m \in Nat /\ t <= m
    BY <2>6
  <2>8. Day(m) \in days /\ Hour(m) \in hours /\ Minute(m) \in minutes
    BY <2>6 DEF Fires, Day, Hour, Minute
  <2>9. f[t] = IF Day(t) \notin days THEN f[t + DayLength]
               ELSE IF Hour(t) \notin hours THEN f[t + HourMinutes]
               ELSE IF Minute(t) \notin minutes THEN f[t + 1] ELSE t
    BY <2>3 DEF SearchAt, Day, Hour, Minute
  <2>10. /\ t + DayLength \in Nat /\ t + HourMinutes \in Nat /\ t + 1 \in Nat
         /\ t + DayLength > t /\ t + HourMinutes > t /\ t + 1 > t
         /\ DayLength \in Nat \ {0} /\ HourMinutes \in Nat \ {0}
    BY Lengths
  <2>11. /\ m % DayLength \in Nat /\ t % DayLength \in Nat /\ start % DayLength \in Nat
         /\ Minute(m) \in Nat /\ Minute(t) \in Nat /\ Minute(start) \in Nat
    BY <2>7, <2>10 DEF Minute
  <2>12. ASSUME NEW u \in Nat, u > t, f[t] = f[u], OnTrack(u, start, days, hours)
         PROVE  m < u
    <3>1. CASE m >= u
      <4>1. m \in u..(limit - 1)
        BY <2>6, <3>1
      <4>2. Good(u)
        BY <2>4, <2>12
      <4>3. QED BY <2>6, <2>12, <4>1, <4>2
    <3>2. QED BY <2>7, <3>1
  <2>13. CASE Day(t) \notin days
    <3>1. m < t + DayLength
      BY <2>5, <2>9, <2>10, <2>12, <2>13, StaysOnTrack
    <3>2. m % DayLength < t % DayLength
      <4>1. m \div DayLength # t \div DayLength
        BY <2>8, <2>13 DEF Day
      <4>2. QED BY <2>7, <2>10, <3>1, <4>1, Skipped
    <3>3. t % DayLength <= start % DayLength
      BY <2>5, <2>13 DEF OnTrack
    <3>4. QED BY <2>6, <2>11, <3>2, <3>3
  <2>14. CASE Day(t) \in days /\ Hour(t) \notin hours
    <3>1. m < t + HourMinutes
      BY <2>5, <2>9, <2>10, <2>12, <2>14, StaysOnTrack
    <3>2. Minute(m) < Minute(t)
      <4>1. m \div HourMinutes # t \div HourMinutes
        BY <2>7, <2>8, <2>14, HourOf
      <4>2. QED BY <2>7, <2>10, <3>1, <4>1, Skipped DEF Minute
    <3>3. Minute(t) <= Minute(start)
      BY <2>5, <2>14 DEF OnTrack
    <3>4. QED BY <2>6, <2>11, <3>2, <3>3
  <2>15. CASE Day(t) \in days /\ Hour(t) \in hours /\ Minute(t) \notin minutes
    <3>1. m < t + 1
      BY <2>5, <2>9, <2>10, <2>12, <2>15, StaysOnTrack
    <3>2. m = t
      BY <2>7, <3>1
    <3>3. QED BY <2>8, <2>15, <3>2
  <2>16. CASE Day(t) \in days /\ Hour(t) \in hours /\ Minute(t) \in minutes
    <3>1. f[t] = t /\ t # Never
      BY <2>9, <2>16 DEF Never
    <3>2. QED BY <2>6, <2>7, <3>1
  <2>17. QED BY <2>13, <2>14, <2>15, <2>16
<1>3. QED BY <1>1, <1>2

LEMMA NextFireIsRight ==
  ASSUME NEW from \in Nat, NEW days, NEW hours, NEW minutes,
         result = NextFire(from, days, hours, minutes)
  PROVE  FireIsRight(from, days, hours, minutes)
<1> DEFINE limit == from + Horizon * DayLength
           start == from + 1
           f == CHOOSE f : f = [t \in Nat |-> SearchAt(f, t, limit, days, hours, minutes)]
<1>1. limit \in Nat /\ start \in Nat
  <2>1. Horizon \in Nat /\ DayLength \in Nat
    BY SkillsAssumption, Lengths
  <2>2. Horizon * DayLength \in Nat
    BY <2>1
  <2>3. QED BY <2>2
<1>2. result = f[start]
  BY DEF NextFire, SearchAt
<1>3. f = [t \in Nat |-> SearchAt(f, t, limit, days, hours, minutes)]
  <2> HIDE DEF limit
  <2>1. PICK g : OnNat(g) /\ \A t \in Nat : g[t] = SearchAt(g, t, limit, days, hours, minutes)
    <3> HIDE DEF f
    <3>1. limit \in Nat
      BY <1>1
    <3>2. SearchFound(limit, days, hours, minutes)
      BY ONLY <3>1, SearchExists
    <3>3. QED BY <3>2 DEF SearchFound
  <2>2. g = [t \in Nat |-> SearchAt(g, t, limit, days, hours, minutes)]
    BY <2>1 DEF OnNat
  <2>3. QED BY <2>2
<1> HIDE DEF f
<1>4. \A t \in Nat : f[t] = SearchAt(f, t, limit, days, hours, minutes)
  BY <1>3
<1>5. OnTrack(start, start, days, hours)
  <2>1. start % DayLength \in Nat /\ Minute(start) \in Nat
    BY <1>1, Lengths DEF Minute
  <2>2. QED BY <2>1 DEF OnTrack
<1>6. result = Never \/ /\ result \in start..(limit - 1)
                        /\ Fires(result, days, hours, minutes)
  BY <1>1, <1>2, <1>4, FoundIsDue
<1>7. \A m \in start..(limit - 1) :
        Fires(m, days, hours, minutes) /\ (result = Never \/ m < result) =>
          m % DayLength < start % DayLength \/ Minute(m) < Minute(start)
  BY <1>1, <1>2, <1>4, <1>5, PassedOverIsEarlier
<1>8. \A m \in start..(limit - 1) :
        Fires(m, days, hours, minutes) /\ (result = Never \/ m < result) =>
          m % DayLength < start % DayLength \/ m % HourMinutes < start % HourMinutes
  BY <1>7 DEF Minute
<1> DEFINE due == {m \in start..(limit - 1) : Fires(m, days, hours, minutes)}
<1>9. result # Never => result \in due
  BY <1>6
<1>10. \A m \in due : result = Never \/ m < result =>
         m % DayLength < start % DayLength \/ m % HourMinutes < start % HourMinutes
  BY <1>8
<1>11. due = {m \in (from + 1)..(from + Horizon * DayLength - 1) : Fires(m, days, hours, minutes)}
  <2>1. Horizon * DayLength \in Nat
    BY SkillsAssumption, Lengths
  <2>2. limit - 1 = from + Horizon * DayLength - 1
    BY <2>1
  <2>3. QED BY <2>2
<1> HIDE DEF due
<1>12. QED BY <1>9, <1>10, <1>11 DEF FireIsRight

-----------------------------------------------------------------------------
(* CheckDigit and IssnDigit *)

\* A value computed step by step exists.
Computed(V, n, first, rule) ==
  \E f \in [0..n -> V] : f[0] = first /\ \A i \in 1..n : f[i] = rule[<<f[i - 1], i>>]

LEMMA StepByStep ==
  ASSUME NEW V, NEW n \in Nat, NEW first \in V, NEW rule \in [V \X (1..n) -> V]
  PROVE  Computed(V, n, first, rule)
<1> DEFINE Good(f, k) == /\ f \in [0..k -> V] /\ f[0] = first
                         /\ \A i \in 1..k : f[i] = rule[<<f[i - 1], i>>]
           T == {k \in 0..n : ~\E f : Good(f, k)}
<1>1. CASE T = {}
  <2>1. n \in 0..n
    OBVIOUS
  <2>2. PICK f : Good(f, n)
    BY <1>1, <2>1
  <2>3. QED BY <2>2 DEF Computed
<1>2. CASE T # {}
  <2>1. PICK k \in T : \A y \in T : k <= y
    <3>1. T \subseteq Nat
      OBVIOUS
    <3> HIDE DEF T
    <3>2. QED BY <1>2, <3>1, LeastNumber
  <2>2. k # 0
    <3> DEFINE f == [i \in 0..0 |-> first]
    <3>1. f \in [0..0 -> V] /\ f[0] = first /\ \A i \in 1..0 : FALSE
      OBVIOUS
    <3>2. Good(f, 0)
      BY <3>1
    <3>3. QED BY <2>1, <3>2
  <2>3. k \in 1..n /\ k \in Nat /\ k - 1 \in Nat /\ k - 1 \in 0..n /\ ~(k <= k - 1)
    BY <2>1, <2>2
  <2>4. PICK g : Good(g, k - 1)
    BY <2>1, <2>3
  <2>5. g[k - 1] \in V
    BY <2>3, <2>4
  <2> DEFINE f == [i \in 0..k |-> IF i = k THEN rule[<<g[k - 1], k>>] ELSE g[i]]
  <2>6. f \in [0..k -> V]
    <3>1. rule[<<g[k - 1], k>>] \in V
      BY <2>3, <2>5
    <3>2. \A i \in 0..k : i # k => i \in 0..(k - 1)
      BY <2>3
    <3>3. QED BY <2>4, <3>1, <3>2
  <2>7. \A i \in 0..(k - 1) : f[i] = g[i]
    BY <2>3
  <2>8. f[k] = rule[<<g[k - 1], k>>]
    BY <2>3
  <2> HIDE DEF f
  <2>9. f[0] = first
    BY <2>3, <2>4, <2>7
  <2>10. ASSUME NEW i \in 1..k  PROVE f[i] = rule[<<f[i - 1], i>>]
    <3>1. i - 1 \in 0..(k - 1) /\ (i = k \/ i \in 1..(k - 1))
      BY <2>3
    <3>2. f[i - 1] = g[i - 1]
      BY <2>7, <3>1
    <3>3. CASE i = k
      BY <2>8, <3>2, <3>3
    <3>4. CASE i \in 1..(k - 1)
      <4>1. f[i] = g[i] /\ g[i] = rule[<<g[i - 1], i>>]
        BY <2>4, <2>7, <3>4
      <4>2. QED BY <3>2, <4>1
    <3>5. QED BY <3>1, <3>3, <3>4
  <2>11. Good(f, k)
    BY <2>6, <2>9, <2>10
  <2> HIDE DEF Good
  <2>12. QED BY <2>1, <2>11
<1>3. QED BY <1>1, <1>2

LEMMA TotalSteps ==
  ASSUME NEW n \in Nat, NEW x \in [1..n -> Int]
  PROVE  \E f \in [0..n -> Int] :
           Total(n, x) = f[n] /\ f[0] = 0 /\ \A i \in 1..n : f[i] = f[i - 1] + x[i]
<1> DEFINE rule == [a \in Int \X (1..n) |-> a[1] + x[a[2]]]
           IsSum(f) == f = [i \in 0..n |-> IF i = 0 THEN 0 ELSE f[i - 1] + x[i]]
<1>1. \E f : IsSum(f)
  <2>1. rule \in [Int \X (1..n) -> Int] /\ 0 \in Int
    OBVIOUS
  <2>2. \A v \in Int, i \in 1..n : rule[<<v, i>>] = v + x[i]
    OBVIOUS
  <2> HIDE DEF rule
  <2>3. PICK f \in [0..n -> Int] : f[0] = 0 /\ \A i \in 1..n : f[i] = rule[<<f[i - 1], i>>]
    <3>1. Computed(Int, n, 0, rule)
      BY <2>1, StepByStep
    <3>2. QED BY <3>1 DEF Computed
  <2>4. ASSUME NEW i \in 0..n  PROVE f[i] = IF i = 0 THEN 0 ELSE f[i - 1] + x[i]
    <3>1. CASE i = 0
      BY <2>3, <3>1
    <3>2. CASE i # 0
      <4>1. i \in 1..n /\ f[i - 1] \in Int
        BY <3>2
      <4>2. QED BY <2>2, <2>3, <3>2, <4>1
    <3>3. QED BY <3>1, <3>2
  <2>5. f = [i \in 0..n |-> f[i]]
    OBVIOUS
  <2>6. f = [i \in 0..n |-> IF i = 0 THEN 0 ELSE f[i - 1] + x[i]]
    BY <2>4, <2>5
  <2>7. QED BY <2>6
<1> DEFINE g == CHOOSE f : IsSum(f)
<1>2. IsSum(g)
  BY <1>1
<1>3. Total(n, x) = g[n]
  BY DEF Total
<1> HIDE DEF g
<1>4. \A i \in 0..n : g[i] = IF i = 0 THEN 0 ELSE g[i - 1] + x[i]
  BY <1>2
<1>5. g[0] = 0 /\ \A i \in 1..n : g[i] = g[i - 1] + x[i]
  <2>1. 0 \in 0..n /\ \A i \in 1..n : i \in 0..n /\ i # 0
    OBVIOUS
  <2>2. QED BY <1>4, <2>1
<1>6. \A i \in 0..n : g[i] \in Int
  <2> DEFINE G == {i \in 0..n : g[i] \in Int}
  <2>1. 0 \in G
    BY <1>5
  <2>2. ASSUME NEW k \in 1..n, k - 1 \in G  PROVE k \in G
    BY <1>5, <2>2
  <2> HIDE DEF G
  <2>3. 0..n \subseteq G
    BY <2>1, <2>2, StepUp
  <2>4. QED BY <2>3 DEF G
<1>7. g \in [0..n -> Int]
  BY <1>2, <1>6
<1>8. QED BY <1>3, <1>5, <1>7

\* What a sum becomes when what is added differs, or what it is added to does.
LEMMA Exchanged ==
  ASSUME NEW p \in Int, NEW q \in Int, NEW s \in Int, NEW a \in Int, NEW b \in Int,
         q = p + a, s = p + b
  PROVE  s = q + (b - a)
OBVIOUS

LEMMA Shifted ==
  ASSUME NEW p \in Int, NEW q \in Int, NEW r \in Int, NEW s \in Int, NEW z \in Int, NEW d \in Int,
         q = p + z, s = r + z, r = p + d
  PROVE  s = q + d
OBVIOUS

\* Totals of rows that differ in one place.
LEMMA TotalChanges ==
  ASSUME NEW n \in Nat, NEW x \in [1..n -> Int], NEW y \in [1..n -> Int], NEW i \in 1..n,
         \A j \in 1..n : j # i => y[j] = x[j]
  PROVE  /\ Total(n, x) \in Int /\ Total(n, y) \in Int
         /\ Total(n, y) = Total(n, x) + (y[i] - x[i])
<1>1. PICK f \in [0..n -> Int] :
        Total(n, x) = f[n] /\ f[0] = 0 /\ \A k \in 1..n : f[k] = f[k - 1] + x[k]
  BY TotalSteps
<1>2. PICK g \in [0..n -> Int] :
        Total(n, y) = g[n] /\ g[0] = 0 /\ \A k \in 1..n : g[k] = g[k - 1] + y[k]
  BY TotalSteps
<1> DEFINE G == {k \in 0..n : g[k] = f[k] + (IF k >= i THEN y[i] - x[i] ELSE 0)}
<1>3. 0 \in G
  BY <1>1, <1>2
<1>4. ASSUME NEW k \in 1..n, k - 1 \in G  PROVE k \in G
  <2>1. /\ f[k] = f[k - 1] + x[k] /\ g[k] = g[k - 1] + y[k]
        /\ f[k - 1] \in Int /\ g[k - 1] \in Int /\ x[k] \in Int /\ y[k] \in Int
        /\ x[i] \in Int /\ y[i] \in Int
    <3>1. k - 1 \in 0..n
      OBVIOUS
    <3>2. f[k - 1] \in Int /\ g[k - 1] \in Int /\ x[k] \in Int /\ y[k] \in Int
      BY <3>1
    <3>3. f[k] = f[k - 1] + x[k] /\ g[k] = g[k - 1] + y[k]
      BY <1>1, <1>2
    <3>4. QED BY <3>2, <3>3
  <2>2. k \in 0..n /\ i \in Int /\ k \in Int
    OBVIOUS
  <2>3. g[k - 1] = f[k - 1] + (IF k - 1 >= i THEN y[i] - x[i] ELSE 0)
    BY <1>4
  <2>4. g[k] = f[k] + (IF k >= i THEN y[i] - x[i] ELSE 0)
    <3>1. CASE k = i
      <4>1. ~(k - 1 >= i) /\ k >= i
        BY <2>2, <3>1
      <4>2. g[k - 1] = f[k - 1]
        BY <2>1, <2>3, <4>1
      <4>3. g[k] = f[k - 1] + y[i] /\ f[k] = f[k - 1] + x[i]
        BY <2>1, <3>1, <4>2
      <4>4. f[k] \in Int /\ g[k] \in Int
        BY <2>2
      <4> HIDE DEF G
      <4>5. g[k] = f[k] + (y[i] - x[i])
        BY ONLY <2>1, <4>3, <4>4, Exchanged
      <4>6. QED BY <4>1, <4>5
    <3>2. CASE k > i
      <4>1. k - 1 >= i /\ k >= i /\ y[k] = x[k]
        BY <2>2, <3>2
      <4>2. PICK d \in Int : d = y[i] - x[i]
        BY <2>1
      <4>3. g[k - 1] = f[k - 1] + d
        BY <2>3, <4>1, <4>2
      <4>4. f[k] = f[k - 1] + x[k] /\ g[k] = g[k - 1] + x[k]
        BY <2>1, <4>1
      <4>5. f[k] \in Int /\ g[k] \in Int
        BY <2>2
      <4> HIDE DEF G
      <4>6. g[k] = f[k] + d
        BY ONLY <2>1, <4>3, <4>4, <4>5, d \in Int, Shifted
      <4>7. QED BY <4>1, <4>2, <4>6
    <3>3. CASE k < i
      <4>1. ~(k - 1 >= i) /\ ~(k >= i) /\ y[k] = x[k]
        BY <2>2, <3>3
      <4>2. g[k - 1] = f[k - 1]
        BY <2>1, <2>3, <4>1
      <4>3. g[k] = f[k - 1] + x[k] /\ f[k] = f[k - 1] + x[k]
        BY <2>1, <4>1, <4>2
      <4>4. g[k] = f[k]
        BY ONLY <4>3
      <4>5. f[k] \in Int
        BY <2>2
      <4>6. QED BY <4>1, <4>4, <4>5
    <3>4. k = i \/ k > i \/ k < i
      BY <2>2
    <3> HIDE DEF G
    <3>5. QED BY ONLY <3>1, <3>2, <3>3, <3>4
  <2>5. QED BY <2>2, <2>4
<1>5. n \in G
  <2>1. n \in 0..n
    OBVIOUS
  <2> HIDE DEF G
  <2>2. QED BY <1>3, <1>4, <2>1, StepUp
<1>6. f[n] \in Int /\ x[i] \in Int /\ y[i] \in Int
  OBVIOUS
<1>7. QED BY <1>1, <1>2, <1>5, <1>6

LEMMA TotalInt ==
  ASSUME NEW n \in Nat, NEW x \in [1..n -> Int]
  PROVE  Total(n, x) \in Int
<1>1. PICK f \in [0..n -> Int] : Total(n, x) = f[n]
  BY TotalSteps
<1>2. n \in 0..n
  OBVIOUS
<1>3. QED BY <1>1, <1>2

\* The weighted digits, and the remainders the two check digits tell apart.
Weighted(d) == [i \in DOMAIN d |-> d[i] * Weight(Len(d), i)]
WeightedIssn(d) == [i \in 1..7 |-> d[i] * (9 - i)]

LEMMA WeightsAlternate ==
  ASSUME NEW n \in Nat, NEW i \in 1..n
  PROVE  Weight(n, i) \in {1, 3} /\ (i > 1 => Weight(n, i) + Weight(n, i - 1) = 4)
<1>1. n - i \in Nat /\ n - (i - 1) = (n - i) + 1
  OBVIOUS
<1>2. PICK m \in Nat : m = n - i
  BY <1>1
<1>3. m % 2 = 0 <=> (m + 1) % 2 # 0
  OBVIOUS
<1>4. QED BY <1>1, <1>2, <1>3 DEF Weight

LEMMA WeightedDigits ==
  ASSUME NEW d \in Seq(0..9)
  PROVE  /\ Len(d) \in Nat /\ Weighted(d) \in [1..Len(d) -> Int]
         /\ \A i \in 1..Len(d) : d[i] \in 0..9 /\ Weighted(d)[i] = d[i] * Weight(Len(d), i)
<1>1. Len(d) \in Nat /\ DOMAIN d = 1..Len(d) /\ \A i \in 1..Len(d) : d[i] \in 0..9
  OBVIOUS
<1>2. \A i \in 1..Len(d) : Weight(Len(d), i) \in Int
  BY <1>1, WeightsAlternate
<1>3. \A i \in 1..Len(d) : d[i] * Weight(Len(d), i) \in Int
  BY <1>1, <1>2
<1>4. QED BY <1>1, <1>3 DEF Weighted

LEMMA CheckDigitOf ==
  ASSUME NEW d \in Seq(0..9), NEW e \in Seq(0..9), Len(d) = Len(e)
  PROVE  /\ Total(Len(d), Weighted(d)) \in Int
         /\ CheckDigit(d) = CheckDigit(e) <=>
              Total(Len(d), Weighted(d)) % 10 = Total(Len(d), Weighted(e)) % 10
<1>1. Total(Len(d), Weighted(d)) \in Int /\ Total(Len(d), Weighted(e)) \in Int
  BY WeightedDigits, TotalInt
<1>2. /\ CheckDigit(d) = (10 - (Total(Len(d), Weighted(d)) % 10)) % 10
      /\ CheckDigit(e) = (10 - (Total(Len(d), Weighted(e)) % 10)) % 10
  BY DEF CheckDigit, Weighted
<1>3. \A a \in Int, b \in Int : (10 - (a % 10)) % 10 = (10 - (b % 10)) % 10 <=> a % 10 = b % 10
  OBVIOUS
<1>4. QED BY <1>1, <1>2, <1>3

LEMMA Remainders ==
  ASSUME NEW a \in Int, NEW c \in Int
  PROVE  /\ (a + c) % 10 = a % 10 <=> c % 10 = 0
         /\ (a + c) % 11 = a % 11 <=> c % 11 = 0
OBVIOUS

LEMMA WrongDigit ==
  ASSUME NEW x \in 0..9, NEW y \in 0..9, NEW w \in {1, 3}, x # y
  PROVE  x * w - y * w \in Int /\ (x * w - y * w) % 10 # 0
<1>1. CASE w = 1
  BY <1>1
<1>2. CASE w = 3
  <2>1. PICK z \in -9..9 : z = x - y /\ z # 0
    OBVIOUS
  <2>2. x * 3 - y * 3 = 3 * z
    BY <2>1
  <2>3. (3 * z) % 10 # 0
    BY <2>1
  <2>4. QED BY <1>2, <2>2, <2>3
<1>3. QED BY <1>1, <1>2

LEMMA SwappedDigits ==
  ASSUME NEW x \in 0..9, NEW y \in 0..9, NEW u \in {1, 3}, NEW w \in {1, 3}, u + w = 4
  PROVE  /\ y * u - x * u \in Int /\ x * w - y * w \in Int
         /\ ((y * u - x * u) + (x * w - y * w)) % 10 = 0 <=> y - x \in {-5, 0, 5}
<1>1. PICK t \in -9..9 : t = y - x
  OBVIOUS
<1>2. (2 * t) % 10 = 0 <=> t \in {-5, 0, 5}
  BY <1>1
<1>3. (-2 * t) % 10 = 0 <=> t \in {-5, 0, 5}
  BY <1>1
<1>4. CASE u = 3 /\ w = 1
  <2>1. (y * 3 - x * 3) + (x * 1 - y * 1) = 2 * t
    BY <1>1
  <2>2. QED BY <1>1, <1>2, <1>4, <2>1
<1>5. CASE u = 1 /\ w = 3
  <2>1. (y * 1 - x * 1) + (x * 3 - y * 3) = -2 * t
    BY <1>1
  <2>2. QED BY <1>1, <1>3, <1>5, <2>1
<1>6. QED BY <1>4, <1>5

\* The check digit of a bar code catches one wrong digit, and two neighbours
\* that changed places unless they are five apart.
LEMMA Mod10IsRight ==
  ASSUME NEW d \in Seq(0..9), result = CheckDigit(d)
  PROVE  Mod10Catches(d)
<1> DEFINE n == Len(d)
<1>1. n \in Nat /\ DOMAIN d = 1..n /\ \A i \in 1..n : d[i] \in 0..9
  OBVIOUS
<1>2. ASSUME NEW i \in 1..n, NEW x \in 0..9, x # d[i]
      PROVE  CheckDigit([d EXCEPT ![i] = x]) # result
  <2> DEFINE e == [d EXCEPT ![i] = x]
  <2>1. e \in Seq(0..9) /\ Len(e) = n /\ \A j \in 1..n : e[j] = IF j = i THEN x ELSE d[j]
    BY ExceptSeq
  <2> HIDE DEF e
  <2>2. Total(n, Weighted(e)) = Total(n, Weighted(d)) + (Weighted(e)[i] - Weighted(d)[i])
    <3>1. Weighted(d) \in [1..n -> Int] /\ Weighted(e) \in [1..n -> Int]
      BY <2>1, WeightedDigits
    <3>2. \A j \in 1..n : j # i => Weighted(e)[j] = Weighted(d)[j]
      BY <2>1, WeightedDigits
    <3>3. QED BY <1>1, <3>1, <3>2, TotalChanges
  <2>3. PICK w \in {1, 3}, y \in 0..9 : w = Weight(n, i) /\ y = d[i]
    BY <1>1, WeightsAlternate
  <2>4. Weighted(e)[i] = x * w /\ Weighted(d)[i] = y * w
    BY <2>1, <2>3, WeightedDigits
  <2>5. PICK z \in Int : z = x * w - y * w /\ z % 10 # 0
    BY <1>2, <2>3, WrongDigit
  <2>6. PICK a \in Int : a = Total(n, Weighted(d))
    BY CheckDigitOf
  <2>7. Total(n, Weighted(e)) % 10 # Total(n, Weighted(d)) % 10
    <3>1. (a + z) % 10 # a % 10
      BY <2>5, Remainders
    <3>2. QED BY <2>2, <2>4, <2>5, <2>6, <3>1
  <2>8. QED BY <2>1, <2>7, CheckDigitOf DEF e
<1>3. ASSUME NEW i \in 2..n
      PROVE  CheckDigit(Swapped(d, i - 1, i)) = result <=> d[i] - d[i - 1] \in {-5, 0, 5}
  <2> DEFINE c == [d EXCEPT ![i - 1] = d[i]]
             e == [c EXCEPT ![i] = d[i - 1]]
  <2>1. /\ i \in 1..n /\ i - 1 \in 1..n /\ i - 1 # i /\ i > 1
        /\ d[i] \in 0..9 /\ d[i - 1] \in 0..9
    BY <1>1
  <2>2. /\ c \in Seq(0..9) /\ Len(c) = n
        /\ \A j \in 1..n : c[j] = IF j = i - 1 THEN d[i] ELSE d[j]
    BY <2>1, ExceptSeq
  <2> HIDE DEF c
  <2>3. /\ e \in Seq(0..9) /\ Len(e) = n
        /\ \A j \in 1..n : e[j] = IF j = i THEN d[i - 1] ELSE c[j]
    BY <2>1, <2>2, ExceptSeq
  <2>4. Swapped(d, i - 1, i) = e
    BY DEF Swapped, c
  <2> HIDE DEF e
  <2>5. PICK u \in {1, 3}, w \in {1, 3}, x \in 0..9, y \in 0..9 :
          u = Weight(n, i - 1) /\ w = Weight(n, i) /\ u + w = 4 /\ x = d[i - 1] /\ y = d[i]
    BY <1>1, <2>1, WeightsAlternate
  <2>6. /\ Weighted(d) \in [1..n -> Int] /\ Weighted(c) \in [1..n -> Int]
        /\ Weighted(e) \in [1..n -> Int]
        /\ \A j \in 1..n : /\ Weighted(d)[j] = d[j] * Weight(n, j)
                           /\ Weighted(c)[j] = c[j] * Weight(n, j)
                           /\ Weighted(e)[j] = e[j] * Weight(n, j)
    BY <2>2, <2>3, WeightedDigits
  <2>7. Total(n, Weighted(c)) = Total(n, Weighted(d)) + (y * u - x * u)
    <3>1. \A j \in 1..n : j # i - 1 => Weighted(c)[j] = Weighted(d)[j]
      <4>1. \A j \in 1..n : j # i - 1 => c[j] = d[j]
        BY <2>2
      <4>2. QED BY <2>6, <4>1
    <3>2. Total(n, Weighted(c)) = Total(n, Weighted(d)) + (Weighted(c)[i - 1] - Weighted(d)[i - 1])
      BY <1>1, <2>1, <2>6, <3>1, TotalChanges
    <3>3. Weighted(c)[i - 1] = y * u /\ Weighted(d)[i - 1] = x * u
      <4>1. c[i - 1] = y /\ d[i - 1] = x /\ Weight(n, i - 1) = u /\ i - 1 \in 1..n
        BY <2>1, <2>2, <2>5
      <4>2. QED BY <2>6, <4>1
    <3>4. QED BY <3>2, <3>3
  <2>8. Total(n, Weighted(e)) = Total(n, Weighted(c)) + (x * w - y * w)
    <3>1. \A j \in 1..n : j # i => Weighted(e)[j] = Weighted(c)[j]
      <4>1. \A j \in 1..n : j # i => e[j] = c[j]
        BY <2>3
      <4>2. QED BY <2>6, <4>1
    <3>2. Total(n, Weighted(e)) = Total(n, Weighted(c)) + (Weighted(e)[i] - Weighted(c)[i])
      BY <1>1, <2>1, <2>6, <3>1, TotalChanges
    <3>3. Weighted(e)[i] = x * w /\ Weighted(c)[i] = y * w
      <4>1. e[i] = x /\ c[i] = y /\ Weight(n, i) = w /\ i \in 1..n
        BY <2>1, <2>2, <2>3, <2>5
      <4>2. QED BY <2>6, <4>1
    <3>4. QED BY <3>2, <3>3
  <2>9. PICK a \in Int : a = Total(n, Weighted(d))
    BY CheckDigitOf
  <2> DEFINE p == y * u - x * u
             q == x * w - y * w
             z == p + q
  <2>10. p \in Int /\ q \in Int /\ (z % 10 = 0 <=> y - x \in {-5, 0, 5})
    <3>1. u + w = 4
      BY <2>5
    <3>2. QED BY ONLY <3>1, SwappedDigits, x \in 0..9, y \in 0..9, u \in {1, 3}, w \in {1, 3}
  <2>11. Total(n, Weighted(c)) = a + p /\ Total(n, Weighted(e)) = (a + p) + q
    BY <2>7, <2>8, <2>9
  <2> HIDE DEF p, q
  <2>12. z \in Int /\ Total(n, Weighted(e)) = a + z
    BY <2>10, <2>11
  <2> HIDE DEF z
  <2>13. CheckDigit(e) = CheckDigit(d) <=> z % 10 = 0
    <3>1. (a + z) % 10 = a % 10 <=> z % 10 = 0
      BY <2>12, Remainders
    <3>2. QED BY <2>3, <2>9, <2>12, <3>1, CheckDigitOf
  <2>14. QED BY <2>4, <2>5, <2>10, <2>13
<1>4. QED BY <1>1, <1>2, <1>3 DEF Mod10Catches

LEMMA IssnDigits ==
  ASSUME NEW d \in [1..7 -> 0..9]
  PROVE  /\ WeightedIssn(d) \in [1..7 -> Int] /\ Total(7, WeightedIssn(d)) \in Int
         /\ \A i \in 1..7 : d[i] \in 0..9 /\ WeightedIssn(d)[i] = d[i] * (9 - i)
<1>1. \A i \in 1..7 : d[i] \in 0..9 /\ d[i] * (9 - i) \in Int
  OBVIOUS
<1>2. WeightedIssn(d) \in [1..7 -> Int] /\ \A i \in 1..7 : WeightedIssn(d)[i] = d[i] * (9 - i)
  BY <1>1 DEF WeightedIssn
<1>3. Total(7, WeightedIssn(d)) \in Int
  <2>1. 7 \in Nat
    OBVIOUS
  <2> QED BY ONLY <1>2, <2>1, TotalInt
<1>4. QED BY <1>1, <1>2, <1>3

LEMMA IssnDigitOf ==
  ASSUME NEW d \in [1..7 -> 0..9], NEW e \in [1..7 -> 0..9]
  PROVE  IssnDigit(d) = IssnDigit(e) <=>
           Total(7, WeightedIssn(d)) % 11 = Total(7, WeightedIssn(e)) % 11
<1>1. PICK a \in Int, b \in Int : a = Total(7, WeightedIssn(d)) /\ b = Total(7, WeightedIssn(e))
  BY IssnDigits
<1>2. /\ IssnDigit(d) = IF a % 11 = 0 THEN 0 ELSE 11 - (a % 11)
      /\ IssnDigit(e) = IF b % 11 = 0 THEN 0 ELSE 11 - (b % 11)
  BY <1>1 DEF IssnDigit, WeightedIssn
<1>3. a % 11 \in 0..10 /\ b % 11 \in 0..10
  OBVIOUS
<1>4. QED BY <1>1, <1>2, <1>3

\* Eleven divides no product of two numbers below it.
LEMMA ElevenIsPrime ==
  ASSUME NEW w \in (-8..8) \ {0}, NEW z \in (-9..9) \ {0}
  PROVE  (w * z) % 11 # 0
<1>1. CASE w = 1 \/ w = 2 \/ w = 3 \/ w = 4
  <2>1. z % 11 # 0 /\ (2 * z) % 11 # 0 /\ (3 * z) % 11 # 0 /\ (4 * z) % 11 # 0
    OBVIOUS
  <2>2. QED BY <1>1, <2>1
<1>2. CASE w = 5 \/ w = 6 \/ w = 7 \/ w = 8
  <2>1. (5 * z) % 11 # 0 /\ (6 * z) % 11 # 0 /\ (7 * z) % 11 # 0 /\ (8 * z) % 11 # 0
    OBVIOUS
  <2>2. QED BY <1>2, <2>1
<1>3. CASE w = -1 \/ w = -2 \/ w = -3 \/ w = -4
  <2>1. (-1 * z) % 11 # 0 /\ (-2 * z) % 11 # 0 /\ (-3 * z) % 11 # 0 /\ (-4 * z) % 11 # 0
    OBVIOUS
  <2>2. QED BY <1>3, <2>1
<1>4. CASE w = -5 \/ w = -6 \/ w = -7 \/ w = -8
  <2>1. (-5 * z) % 11 # 0 /\ (-6 * z) % 11 # 0 /\ (-7 * z) % 11 # 0 /\ (-8 * z) % 11 # 0
    OBVIOUS
  <2>2. QED BY <1>4, <2>1
<1>5. QED BY <1>1, <1>2, <1>3, <1>4

\* The check digit of an ISSN catches one wrong digit and any two swapped.
LEMMA IssnIsRight ==
  ASSUME NEW d \in [1..7 -> 0..9], result = IssnDigit(d)
  PROVE  IssnCatches(d)
<1>1. 7 \in Nat /\ DOMAIN d = 1..7 /\ \A i \in 1..7 : d[i] \in 0..9
  OBVIOUS
<1>2. PICK a \in Int : a = Total(7, WeightedIssn(d))
  BY IssnDigits
<1>3. ASSUME NEW i \in 1..7, NEW x \in 0..9, x # d[i]
      PROVE  IssnDigit([d EXCEPT ![i] = x]) # result
  <2> DEFINE e == [d EXCEPT ![i] = x]
  <2>1. e \in [1..7 -> 0..9] /\ \A j \in 1..7 : e[j] = IF j = i THEN x ELSE d[j]
    OBVIOUS
  <2> HIDE DEF e
  <2>2. Total(7, WeightedIssn(e)) = a + (WeightedIssn(e)[i] - WeightedIssn(d)[i])
    <3>1. WeightedIssn(d) \in [1..7 -> Int] /\ WeightedIssn(e) \in [1..7 -> Int]
      BY <2>1, IssnDigits
    <3>2. \A j \in 1..7 : j # i => WeightedIssn(e)[j] = WeightedIssn(d)[j]
      BY <2>1, IssnDigits
    <3>3. QED BY <1>1, <1>2, <3>1, <3>2, TotalChanges
  <2>3. PICK w \in (-8..8) \ {0}, z \in (-9..9) \ {0} : w = 9 - i /\ z = x - d[i]
    BY <1>1, <1>3
  <2>4. WeightedIssn(e)[i] = x * (9 - i) /\ WeightedIssn(d)[i] = d[i] * (9 - i)
    BY <2>1, IssnDigits
  <2>5. PICK t \in Int : t = w * z /\ t % 11 # 0
    BY ElevenIsPrime
  <2>6. x * (9 - i) - d[i] * (9 - i) = w * z
    BY <1>1, <2>3
  <2>7. (a + t) % 11 # a % 11
    BY <2>5, Remainders
  <2>8. QED BY <1>2, <1>3, <2>1, <2>2, <2>4, <2>5, <2>6, <2>7, IssnDigitOf DEF e
<1>4. ASSUME NEW i \in 1..7, NEW j \in 1..7, d[i] # d[j]
      PROVE  IssnDigit(Swapped(d, i, j)) # result
  <2> DEFINE c == [d EXCEPT ![i] = d[j]]
             e == [c EXCEPT ![j] = d[i]]
  <2>1. i # j /\ d[i] \in 0..9 /\ d[j] \in 0..9
    BY <1>1, <1>4
  <2>2. c \in [1..7 -> 0..9] /\ \A k \in 1..7 : c[k] = IF k = i THEN d[j] ELSE d[k]
    BY <2>1
  <2> HIDE DEF c
  <2>3. e \in [1..7 -> 0..9] /\ \A k \in 1..7 : e[k] = IF k = j THEN d[i] ELSE c[k]
    BY <2>1, <2>2
  <2>4. Swapped(d, i, j) = e
    BY DEF Swapped, c
  <2> HIDE DEF e
  <2>5. PICK x \in 0..9, y \in 0..9 : x = d[i] /\ y = d[j] /\ x # y
    BY <1>4, <2>1
  <2>6. Total(7, WeightedIssn(c)) = a + (y * (9 - i) - x * (9 - i))
    <3>1. WeightedIssn(d) \in [1..7 -> Int] /\ WeightedIssn(c) \in [1..7 -> Int]
      BY <2>2, IssnDigits
    <3>2. \A k \in 1..7 : k # i => WeightedIssn(c)[k] = WeightedIssn(d)[k]
      BY <2>2, IssnDigits
    <3>3. Total(7, WeightedIssn(c)) = a + (WeightedIssn(c)[i] - WeightedIssn(d)[i])
      BY <1>1, <1>2, <3>1, <3>2, TotalChanges
    <3>4. WeightedIssn(c)[i] = y * (9 - i) /\ WeightedIssn(d)[i] = x * (9 - i)
      BY <2>2, <2>5, IssnDigits
    <3>5. QED BY <3>3, <3>4
  <2>7. Total(7, WeightedIssn(e)) = Total(7, WeightedIssn(c)) + (x * (9 - j) - y * (9 - j))
    <3>1. WeightedIssn(e) \in [1..7 -> Int] /\ WeightedIssn(c) \in [1..7 -> Int]
      BY <2>2, <2>3, IssnDigits
    <3>2. \A k \in 1..7 : k # j => WeightedIssn(e)[k] = WeightedIssn(c)[k]
      BY <2>2, <2>3, IssnDigits
    <3>3. Total(7, WeightedIssn(e)) =
            Total(7, WeightedIssn(c)) + (WeightedIssn(e)[j] - WeightedIssn(c)[j])
      BY <1>1, <3>1, <3>2, TotalChanges
    <3>4. WeightedIssn(c)[j] = y * (9 - j) /\ WeightedIssn(e)[j] = x * (9 - j)
      BY <2>1, <2>2, <2>3, <2>5, IssnDigits
    <3>5. QED BY <3>3, <3>4
  <2>8. PICK w \in (-8..8) \ {0}, z \in (-9..9) \ {0} : w = j - i /\ z = y - x
    <3>1. j - i \in (-8..8) \ {0}
      BY <2>1
    <3>2. y - x \in (-9..9) \ {0}
      BY <2>5
    <3>3. QED BY <3>1, <3>2
  <2>9. PICK t \in Int : t = w * z /\ t % 11 # 0
    BY ElevenIsPrime
  <2>10. (y * (9 - i) - x * (9 - i)) + (x * (9 - j) - y * (9 - j)) = w * z
    BY <2>5, <2>8
  <2> DEFINE p == y * (9 - i) - x * (9 - i)
             q == x * (9 - j) - y * (9 - j)
  <2>11. /\ p \in Int /\ q \in Int /\ p + q = t /\ Total(7, WeightedIssn(c)) = a + p
         /\ Total(7, WeightedIssn(e)) = Total(7, WeightedIssn(c)) + q
    <3>1. p \in Int /\ q \in Int
      BY <2>5
    <3>2. p + q = t
      BY <2>9, <2>10
    <3>3. QED BY <2>6, <2>7, <3>1, <3>2
  <2> HIDE DEF p, q
  <2>12. Total(7, WeightedIssn(e)) = a + t
    BY <2>11
  <2>13. (a + t) % 11 # a % 11
    BY <2>9, Remainders
  <2>14. QED BY <1>2, <2>3, <2>4, <2>12, <2>13, IssnDigitOf
<1>5. QED BY <1>1, <1>3, <1>4 DEF IssnCatches

-----------------------------------------------------------------------------
(* Recursive functions whose equation looks at arguments of less measure. *)

Solved(S, V, rule) == \E f \in [S -> V] : \A s \in S : f[s] = rule[<<f, s>>]

LEMMA Recursion ==
  ASSUME NEW S, NEW V, NEW v \in V, NEW bound \in Nat, NEW measure \in [S -> 0..bound],
         NEW rule \in [[S -> V] \X S -> V],
         \A f \in [S -> V], g \in [S -> V], s \in S :
           (\A u \in S : measure[u] < measure[s] => f[u] = g[u]) => rule[<<f, s>>] = rule[<<g, s>>]
  PROVE  Solved(S, V, rule)
<1> DEFINE Good(f, k) == f \in [S -> V] /\ \A s \in S : measure[s] < k => f[s] = rule[<<f, s>>]
           T == {k \in Nat : ~\E f : Good(f, k)}
<1>1. CASE T = {}
  <2>1. bound + 1 \in Nat /\ \A s \in S : measure[s] < bound + 1
    OBVIOUS
  <2>2. PICK f : Good(f, bound + 1)
    BY <1>1, <2>1
  <2>3. QED BY <2>1, <2>2 DEF Solved
<1>2. CASE T # {}
  <2>1. PICK k \in T : \A y \in T : k <= y
    BY <1>2, LeastNumber
  <2>2. k # 0
    <3> DEFINE f == [s \in S |-> v]
    <3>1. f \in [S -> V] /\ \A s \in S : ~(measure[s] < 0)
      OBVIOUS
    <3>2. Good(f, 0)
      BY <3>1
    <3>3. QED BY <2>1, <3>2
  <2>3. k \in Nat /\ k - 1 \in Nat /\ ~(k <= k - 1)
    BY <2>1, <2>2
  <2>4. PICK g : Good(g, k - 1)
    BY <2>1, <2>3
  <2> DEFINE f == [s \in S |-> rule[<<g, s>>]]
  <2>5. f \in [S -> V] /\ \A s \in S : f[s] = rule[<<g, s>>]
    BY <2>4
  <2> HIDE DEF f
  <2>6. ASSUME NEW s \in S, measure[s] < k  PROVE f[s] = rule[<<f, s>>]
    <3>1. ASSUME NEW u \in S, measure[u] < measure[s]  PROVE g[u] = f[u]
      <4>1. measure[u] < k - 1
        <5>1. measure[u] \in Nat /\ measure[s] \in Nat
          OBVIOUS
        <5>2. QED BY <2>3, <2>6, <3>1, <5>1
      <4>2. QED BY <2>4, <2>5, <4>1
    <3>2. rule[<<g, s>>] = rule[<<f, s>>]
      BY <2>4, <2>5, <3>1
    <3>3. QED BY <2>5, <3>2
  <2>7. Good(f, k)
    BY <2>5, <2>6
  <2> HIDE DEF Good
  <2>8. QED BY <2>1, <2>7
<1>3. QED BY <1>1, <1>2

-----------------------------------------------------------------------------
(* IsPrime and PrimeFactors *)

LEMMA Multiples ==
  ASSUME NEW a \in Nat, NEW e \in Nat \ {0}
  PROVE  /\ a % e = 0 => a \div e \in Nat /\ a = (a \div e) * e
         /\ \A q \in Nat : a = q * e => a % e = 0 /\ a \div e = q
<1>1. a % e = 0 => a \div e \in Nat /\ a = (a \div e) * e
  <2>1. a \div e \in Nat /\ a = (a \div e) * e + (a % e)
    BY Quotient
  <2>2. PICK p \in Int : p = (a \div e) * e
    BY <2>1
  <2>3. QED BY <2>1, <2>2
<1>2. ASSUME NEW q \in Nat, a = q * e  PROVE a % e = 0 /\ a \div e = q
  <2>1. 0 \in 0..(e - 1) /\ a = q * e + 0
    BY <1>2
  <2>2. QED BY <2>1, QuotientIs
<1>3. QED BY <1>1, <1>2

LEMMA MultiplesOfMultiples ==
  ASSUME NEW a \in Nat, NEW d \in Nat \ {0}, NEW e \in Nat \ {0}, a % d = 0
  PROVE  /\ d % e = 0 => a % e = 0
         /\ (a \div d) % e = 0 => a % e = 0
<1>1. PICK q \in Nat : a \div d = q /\ a = q * d
  BY Multiples
<1>2. ASSUME d % e = 0  PROVE a % e = 0
  <2>1. PICK r \in Nat : d = r * e
    BY <1>2, Multiples
  <2>2. a = (q * r) * e /\ q * r \in Nat
    BY <1>1, <2>1
  <2>3. PICK p \in Nat : p = q * r
    BY <2>2
  <2>4. QED BY <2>2, <2>3, Multiples
<1>3. ASSUME q % e = 0  PROVE a % e = 0
  <2>1. PICK r \in Nat : q = r * e
    BY <1>3, Multiples
  <2>2. a = (r * d) * e /\ r * d \in Nat
    BY <1>1, <2>1
  <2>3. PICK p \in Nat : p = r * d
    BY <2>2
  <2>4. QED BY <2>2, <2>3, Multiples
<1>4. QED BY <1>1, <1>2, <1>3

\* A number with a divisor has one no larger than its root.
LEMMA SmallDivisor ==
  ASSUME NEW n \in Nat, NEW d \in 2..(n - 1), n % d = 0
  PROVE  \E i \in 2..(n - 1) : i * i <= n /\ n % i = 0
<1>1. PICK q \in Nat : n = q * d
  BY Multiples
<1>2. d \in Nat /\ d >= 2 /\ d < n
  OBVIOUS
<1>3. q >= 2
  <2>1. CASE q = 0
    BY <1>1, <1>2, <2>1
  <2>2. CASE q = 1
    BY <1>1, <1>2, <2>2
  <2>3. QED BY <2>1, <2>2
<1>4. CASE d <= q
  <2>1. d * d <= q * d
    BY <1>2, <1>4, Scaled
  <2>2. QED BY <1>1, <2>1
<1>5. CASE q < d
  <2>1. q * q <= d * q
    BY <1>2, <1>5, Scaled
  <2>2. d * q = n /\ 2 * q <= d * q
    BY <1>1, <1>2, Scaled
  <2>3. q * q <= n /\ q < n
    BY <1>3, <2>1, <2>2
  <2>4. n % q = 0
    <3>1. q \in Nat \ {0} /\ n = d * q
      BY <1>3, <2>2
    <3>2. QED BY <1>2, <3>1, Multiples
  <2>5. QED BY <1>3, <2>3, <2>4
<1>6. QED BY <1>2, <1>4, <1>5

\* The primality test meets the definition of a prime.
LEMMA IsPrimeIsRight ==
  ASSUME NEW n \in Nat
  PROVE  IsPrime(n) = Prime(n)
<1>1. ASSUME Prime(n)  PROVE IsPrime(n)
  <2>1. ASSUME n >= 4  PROVE n % 2 # 0
    BY <1>1, <2>1 DEF Prime
  <2>2. ASSUME NEW i \in 3..n, i * i <= n  PROVE n % i # 0
    <3>1. 3 * i <= i * i
      BY Scaled
    <3>2. i \in 2..(n - 1)
      BY <2>2, <3>1
    <3>3. QED BY <1>1, <3>2 DEF Prime
  <2>3. n >= 2
    BY <1>1 DEF Prime
  <2>4. QED BY <2>1, <2>2, <2>3 DEF IsPrime
<1>2. ASSUME IsPrime(n)  PROVE Prime(n)
  <2>1. n >= 2
    BY <1>2 DEF IsPrime
  <2>2. ASSUME NEW d \in 2..(n - 1), n % d = 0  PROVE FALSE
    <3>1. CASE n < 4
      <4>1. n = 3 /\ d = 2
        BY <2>1, <3>1
      <4>2. QED BY <2>2, <4>1
    <3>2. CASE n >= 4
      <4>1. n % 2 # 0 /\ ~\E i \in 3..n : i % 2 = 1 /\ i * i <= n /\ n % i = 0
        BY <1>2, <3>2 DEF IsPrime
      <4>2. PICK i \in 2..(n - 1) : i * i <= n /\ n % i = 0
        BY <2>2, SmallDivisor
      <4>3. i % 2 = 1
        <5>1. ASSUME i % 2 = 0  PROVE FALSE
          <6>1. i \in Nat \ {0} /\ 2 \in Nat \ {0}
            OBVIOUS
          <6>2. n % 2 = 0
            BY <4>2, <5>1, <6>1, MultiplesOfMultiples
          <6>3. QED BY <4>1, <6>2
        <5>2. QED BY <5>1
      <4>4. i \in 3..n
        BY <4>3
      <4>5. QED BY <4>1, <4>2, <4>3, <4>4
    <3>3. QED BY <3>1, <3>2
  <2>3. n > 1
    BY <2>1
  <2>4. \A d \in 2..(n - 1) : n % d # 0
    BY <2>2
  <2>5. QED BY <2>3, <2>4 DEF Prime
<1>3. IsPrime(n) \in BOOLEAN /\ Prime(n) \in BOOLEAN
  BY DEF IsPrime, Prime
<1>4. QED BY <1>1, <1>2, <1>3

LEMMA ProductSteps ==
  ASSUME NEW s \in Seq(Nat)
  PROVE  \E f \in [0..Len(s) -> Nat] :
           Product(s) = f[Len(s)] /\ f[0] = 1 /\ \A i \in 1..Len(s) : f[i] = f[i - 1] * s[i]
<1> DEFINE n == Len(s)
           rule == [a \in Nat \X (1..n) |-> a[1] * s[a[2]]]
           IsProduct(f) == f = [i \in 0..n |-> IF i = 0 THEN 1 ELSE f[i - 1] * s[i]]
<1>1. n \in Nat /\ \A i \in 1..n : s[i] \in Nat
  OBVIOUS
<1>2. \E f : IsProduct(f)
  <2>1. rule \in [Nat \X (1..n) -> Nat] /\ 1 \in Nat
    BY <1>1
  <2>2. \A v \in Nat, i \in 1..n : rule[<<v, i>>] = v * s[i]
    OBVIOUS
  <2> HIDE DEF rule, n
  <2>3. PICK f \in [0..n -> Nat] : f[0] = 1 /\ \A i \in 1..n : f[i] = rule[<<f[i - 1], i>>]
    <3>1. Computed(Nat, n, 1, rule)
      BY <1>1, <2>1, StepByStep
    <3>2. QED BY <3>1 DEF Computed
  <2>4. ASSUME NEW i \in 0..n  PROVE f[i] = IF i = 0 THEN 1 ELSE f[i - 1] * s[i]
    <3>1. CASE i = 0
      BY <2>3, <3>1
    <3>2. CASE i # 0
      <4>1. i \in 1..n /\ f[i - 1] \in Nat
        BY <1>1, <3>2
      <4>2. QED BY <2>2, <2>3, <3>2, <4>1
    <3>3. QED BY <3>1, <3>2
  <2>5. f = [i \in 0..n |-> f[i]]
    OBVIOUS
  <2>6. f = [i \in 0..n |-> IF i = 0 THEN 1 ELSE f[i - 1] * s[i]]
    BY <2>4, <2>5
  <2>7. QED BY <2>6
<1> DEFINE g == CHOOSE f : IsProduct(f)
<1>3. IsProduct(g)
  BY <1>2
<1>4. Product(s) = g[n]
  BY DEF Product
<1> HIDE DEF g, n
<1>5. \A i \in 0..n : g[i] = IF i = 0 THEN 1 ELSE g[i - 1] * s[i]
  BY <1>3
<1>6. g[0] = 1 /\ \A i \in 1..n : g[i] = g[i - 1] * s[i]
  <2>1. 0 \in 0..n /\ \A i \in 1..n : i \in 0..n /\ i # 0
    BY <1>1
  <2>2. QED BY <1>5, <2>1
<1>7. \A i \in 0..n : g[i] \in Nat
  <2> DEFINE G == {i \in 0..n : g[i] \in Nat}
  <2>1. 0 \in G
    BY <1>1, <1>6
  <2>2. ASSUME NEW k \in 1..n, k - 1 \in G  PROVE k \in G
    BY <1>1, <1>6, <2>2
  <2> HIDE DEF G
  <2>3. 0..n \subseteq G
    BY <1>1, <2>1, <2>2, StepUp
  <2>4. QED BY <2>3 DEF G
<1>8. g \in [0..n -> Nat]
  BY <1>3, <1>7
<1>9. QED BY <1>4, <1>6, <1>8 DEF n

\* The product of a row with one more factor in front.
LEMMA ProductOfCons ==
  ASSUME NEW a \in Nat, NEW t \in Seq(Nat)
  PROVE  /\ Product(<<>>) = 1 /\ Product(t) \in Nat
         /\ <<a>> \o t \in Seq(Nat) /\ Len(<<a>> \o t) = 1 + Len(t)
         /\ \A i \in 1..Len(t) : (<<a>> \o t)[i + 1] = t[i]
         /\ (<<a>> \o t)[1] = a
         /\ Product(<<a>> \o t) = a * Product(t)
<1> DEFINE s == <<a>> \o t
           n == Len(t)
<1>1. /\ s \in Seq(Nat) /\ Len(s) = 1 + n /\ n \in Nat
      /\ s[1] = a /\ \A i \in 1..n : s[i + 1] = t[i] /\ t[i] \in Nat
  OBVIOUS
<1>2. Product(<<>>) = 1
  <2>1. <<>> \in Seq(Nat) /\ Len(<<>>) = 0
    OBVIOUS
  <2>2. QED BY <2>1, ProductSteps
<1> HIDE DEF s
<1>3. PICK f \in [0..(1 + n) -> Nat] :
        Product(s) = f[1 + n] /\ f[0] = 1 /\ \A i \in 1..(1 + n) : f[i] = f[i - 1] * s[i]
  <2>1. \E f \in [0..Len(s) -> Nat] :
          Product(s) = f[Len(s)] /\ f[0] = 1 /\ \A i \in 1..Len(s) : f[i] = f[i - 1] * s[i]
    BY <1>1, ProductSteps
  <2>2. QED BY <1>1, <2>1
<1>4. PICK g \in [0..n -> Nat] :
        Product(t) = g[n] /\ g[0] = 1 /\ \A i \in 1..n : g[i] = g[i - 1] * t[i]
  BY ProductSteps
<1> HIDE DEF n
<1> DEFINE G == {k \in 0..n : f[k + 1] = a * g[k]}
<1>5. 0 \in G
  <2>1. f[0 + 1] = f[0] * s[1]
    BY <1>1, <1>3
  <2>2. QED BY <1>1, <1>3, <1>4, <2>1
<1>6. ASSUME NEW k \in 1..n, k - 1 \in G  PROVE k \in G
  <2>1. (k - 1) + 1 = k /\ (k + 1) - 1 = k /\ k \in 0..n /\ k - 1 \in 0..n /\ k + 1 \in 1..(1 + n)
    BY <1>1
  <2>2. f[k] = a * g[k - 1]
    BY <1>6, <2>1
  <2>3. f[k + 1] = f[k] * t[k] /\ g[k] = g[k - 1] * t[k] /\ g[k - 1] \in Nat /\ t[k] \in Nat
    BY <1>1, <1>3, <1>4, <2>1
  <2>4. \A x, y, z \in Nat : (x * y) * z = x * (y * z)
    OBVIOUS
  <2>5. f[k + 1] = a * g[k]
    BY <2>2, <2>3, <2>4
  <2>6. QED BY <2>1, <2>5
<1>7. n \in G
  <2>1. n \in 0..n
    BY <1>1
  <2> HIDE DEF G
  <2>2. QED BY <1>1, <1>5, <1>6, <2>1, StepUp
<1>8. 1 + n = n + 1
  BY <1>1
<1>9. Product(t) \in Nat
  BY <1>1, <1>4
<1>10. QED BY <1>1, <1>2, <1>3, <1>4, <1>7, <1>8, <1>9 DEF s, n

\* What the division by d leaves to do when f is what it leaves later.
SplitAt(f, at) ==
  IF at.d * at.d > at.left THEN (IF at.left > 1 THEN <<at.left>> ELSE <<>>)
  ELSE IF at.left % at.d = 0
  THEN <<at.d>> \o f[[left |-> at.left \div at.d, d |-> at.d]]
  ELSE f[[left |-> at.left, d |-> at.d + 1]]

Stages(n) == [left: 1..n, d: 2..(n + 1)]

\* A stage that is not the last leads to another, with less left or a larger d.
LEMMA StagesShrink ==
  ASSUME NEW n \in Nat, NEW left \in 1..n, NEW d \in 2..(n + 1), ~(d * d > left)
  PROVE  /\ d < left /\ d + 1 \in 2..(n + 1)
         /\ left % d = 0 => /\ left \div d \in 1..n /\ left \div d < left
                            /\ left = (left \div d) * d
<1>1. 2 * d <= d * d
  BY Scaled
<1>2. d < left /\ d + 1 \in 2..(n + 1)
  BY <1>1
<1>3. ASSUME left % d = 0
      PROVE  left \div d \in 1..n /\ left \div d < left /\ left = (left \div d) * d
  <2>1. PICK q \in Nat : q = left \div d /\ left = q * d
    BY <1>3, Multiples
  <2>2. q # 0
    <3>1. CASE q = 0
      BY <2>1, <3>1
    <3>2. QED BY <3>1
  <2>3. d * q = q * d /\ 2 * q <= d * q
    BY Scaled
  <2>4. QED BY <2>1, <2>2, <2>3
<1>4. QED BY <1>2, <1>3

LEMMA SplitExists ==
  ASSUME NEW n \in Nat
  PROVE  \E f \in [Stages(n) -> Seq(Nat)] : \A at \in Stages(n) : f[at] = SplitAt(f, at)
<1> DEFINE S == Stages(n)
           V == Seq(Nat)
           measure == [at \in S |-> at.left + (n + 1 - at.d)]
           rule == [p \in [S -> V] \X S |-> SplitAt(p[1], p[2])]
<1>1. <<>> \in V /\ 2 * n \in Nat
  OBVIOUS
<1>2. ASSUME NEW at \in S
      PROVE  /\ at.left \in 1..n /\ at.d \in 2..(n + 1) /\ at = [left |-> at.left, d |-> at.d]
             /\ measure[at] = at.left + (n + 1 - at.d) /\ measure[at] \in 0..(2 * n)
  BY DEF Stages
<1>3. measure \in [S -> 0..(2 * n)]
  BY <1>2
<1>4. ASSUME NEW at \in S, ~(at.d * at.d > at.left)
      PROVE  /\ at.left % at.d = 0 =>
                  LET u == [left |-> at.left \div at.d, d |-> at.d]
                  IN  u \in S /\ measure[u] < measure[at]
             /\ LET u == [left |-> at.left, d |-> at.d + 1]
                IN  u \in S /\ measure[u] < measure[at]
  <2>1. at.left \in 1..n /\ at.d \in 2..(n + 1)
    BY <1>2
  <2>2. /\ at.d + 1 \in 2..(n + 1)
        /\ at.left % at.d = 0 => at.left \div at.d \in 1..n /\ at.left \div at.d < at.left
    BY <1>4, <2>1, StagesShrink
  <2>3. \A l \in 1..n, d \in 2..(n + 1) :
          [left |-> l, d |-> d] \in S /\ measure[[left |-> l, d |-> d]] = l + (n + 1 - d)
    BY DEF Stages
  <2>4. measure[at] = at.left + (n + 1 - at.d)
    BY <1>2
  <2> HIDE DEF S, measure
  <2>5. QED BY <2>1, <2>2, <2>3, <2>4
<1> HIDE DEF measure
<1>5. ASSUME NEW f \in [S -> V], NEW at \in S  PROVE SplitAt(f, at) \in V
  <2>1. at.left \in Nat /\ at.d \in Nat
    BY <1>2
  <2>2. <<at.left>> \in V /\ <<at.d>> \in V
    BY <2>1
  <2>3. ~(at.d * at.d > at.left) =>
          /\ at.left % at.d = 0 => f[[left |-> at.left \div at.d, d |-> at.d]] \in V
          /\ f[[left |-> at.left, d |-> at.d + 1]] \in V
    BY <1>4
  <2>4. \A a \in V, b \in V : a \o b \in V
    OBVIOUS
  <2> HIDE DEF V, S
  <2>5. QED BY <1>1, <2>2, <2>3, <2>4 DEF SplitAt
<1>6. rule \in [[S -> V] \X S -> V]
  <2> HIDE DEF V, S
  <2>1. QED BY <1>5
<1>7. \A f \in [S -> V], at \in S : rule[<<f, at>>] = SplitAt(f, at)
  <2> HIDE DEF V, S
  <2>1. QED OBVIOUS
<1> HIDE DEF rule
<1>8. ASSUME NEW f \in [S -> V], NEW g \in [S -> V], NEW at \in S,
             \A u \in S : measure[u] < measure[at] => f[u] = g[u]
      PROVE  rule[<<f, at>>] = rule[<<g, at>>]
  <2>1. SplitAt(f, at) = SplitAt(g, at)
    <3> HIDE DEF V, S
    <3>1. QED BY <1>4, <1>8 DEF SplitAt
  <2> HIDE DEF V, S
  <2>2. QED BY <1>7, <2>1
<1> HIDE DEF S, V
<1>9. PICK m \in Nat : m = 2 * n
  BY <1>1
<1>10. Solved(S, V, rule)
  <2>1. measure \in [S -> 0..m]
    BY <1>3, <1>9
  <2>2. \A f \in [S -> V], g \in [S -> V], at \in S :
          (\A u \in S : measure[u] < measure[at] => f[u] = g[u]) => rule[<<f, at>>] = rule[<<g, at>>]
    BY ONLY <1>8
  <2>3. <<>> \in V /\ m \in Nat
    BY <1>1
  <2>4. QED BY ONLY <1>6, <2>1, <2>2, <2>3, Recursion
<1>11. QED BY <1>7, <1>10 DEF Solved, S, V

\* No number below d divides left, and what the factors of left are then.
Cleared(left, d) == \A e \in 2..(d - 1) : left % e # 0
Factored(s, left, d) ==
  /\ s \in Seq(Nat) /\ Product(s) = left
  /\ \A i \in 1..Len(s) : Prime(s[i]) /\ d <= s[i]
  /\ \A i \in 2..Len(s) : s[i - 1] <= s[i]

LEMMA LastFactor ==
  ASSUME NEW left \in Nat \ {0}, NEW d \in Nat \ {0, 1}, Cleared(left, d), d * d > left
  PROVE  Factored(IF left > 1 THEN <<left>> ELSE <<>>, left, d)
<1>1. CASE left > 1
  <2>1. d <= left
    <3>1. CASE left < d
      <4>1. left \in 2..(d - 1) /\ left = 1 * left
        BY <1>1, <3>1
      <4>2. left % left = 0
        BY <4>1, Multiples
      <4>3. QED BY <4>1, <4>2 DEF Cleared
    <3>2. QED BY <3>1
  <2>2. Prime(left)
    <3>1. ASSUME NEW e \in 2..(left - 1), left % e = 0  PROVE FALSE
      <4>1. PICK i \in 2..(left - 1) : i * i <= left /\ left % i = 0
        BY <3>1, SmallDivisor
      <4>2. i >= d
        <5>1. CASE i < d
          <6>1. i \in 2..(d - 1)
            BY <5>1
          <6>2. QED BY <4>1, <6>1 DEF Cleared
        <5>2. QED BY <5>1
      <4>3. d * d <= i * d /\ d * i <= i * i
        BY <4>2, Scaled
      <4>4. i * d = d * i
        OBVIOUS
      <4>5. PICK x \in Nat, y \in Nat, z \in Nat : x = d * d /\ y = d * i /\ z = i * i
        OBVIOUS
      <4>6. QED BY <4>1, <4>3, <4>4, <4>5
    <3>2. QED BY <1>1, <3>1 DEF Prime
  <2>3. <<left>> \in Seq(Nat) /\ Len(<<left>>) = 1 /\ <<left>>[1] = left
    OBVIOUS
  <2>4. Product(<<left>>) = left
    <3>1. <<>> \in Seq(Nat) /\ <<left>> \o <<>> = <<left>>
      OBVIOUS
    <3>2. Product(<<left>> \o <<>>) = left * Product(<<>>) /\ Product(<<>>) = 1
      BY ONLY <3>1, ProductOfCons, left \in Nat
    <3>3. left * 1 = left
      OBVIOUS
    <3>4. QED BY <3>1, <3>2, <3>3
  <2>5. Factored(<<left>>, left, d)
    BY <2>1, <2>2, <2>3, <2>4 DEF Factored
  <2>6. QED BY <1>1, <2>5
<1>2. CASE ~(left > 1)
  <2>1. left = 1 /\ <<>> \in Seq(Nat) /\ Len(<<>>) = 0
    BY <1>2
  <2>2. Product(<<>>) = 1
    BY <2>1, ProductOfCons
  <2>3. Factored(<<>>, left, d)
    BY <2>1, <2>2 DEF Factored
  <2>4. QED BY <1>2, <2>3
<1>3. QED BY <1>1, <1>2

LEMMA NextFactor ==
  ASSUME NEW left \in Nat, NEW d \in Nat \ {0, 1}, Cleared(left, d), left % d = 0,
         NEW t, Factored(t, left \div d, d)
  PROVE  Factored(<<d>> \o t, left, d)
<1>1. /\ t \in Seq(Nat) /\ Product(t) = left \div d
      /\ \A i \in 1..Len(t) : Prime(t[i]) /\ d <= t[i]
      /\ \A i \in 2..Len(t) : t[i - 1] <= t[i]
  BY DEF Factored
<1> DEFINE s == <<d>> \o t
<1>2. /\ s \in Seq(Nat) /\ Len(s) = 1 + Len(t) /\ s[1] = d
      /\ \A i \in 1..Len(t) : s[i + 1] = t[i]
      /\ Product(s) = d * Product(t)
  BY <1>1, ProductOfCons
<1> HIDE DEF s
<1>3. Product(s) = left
  <2>1. PICK q \in Nat : q = left \div d /\ left = q * d
    BY Multiples
  <2>2. d * q = q * d
    BY <2>1
  <2>3. QED BY <1>1, <1>2, <2>1, <2>2
<1>4. Prime(d)
  <2>1. ASSUME NEW e \in 2..(d - 1), d % e = 0  PROVE FALSE
    <3>1. d \in Nat \ {0} /\ e \in Nat \ {0}
      OBVIOUS
    <3>2. left % e = 0
      BY ONLY <2>1, <3>1, MultiplesOfMultiples, left \in Nat, left % d = 0
    <3>3. QED BY <3>2 DEF Cleared
  <2>2. d > 1
    OBVIOUS
  <2>3. \A e \in 2..(d - 1) : d % e # 0
    BY <2>1
  <2>4. QED BY <2>2, <2>3 DEF Prime
<1>5. Len(t) \in Nat /\ \A i \in 2..Len(s) : i - 1 \in 1..Len(t) /\ s[i] = t[i - 1]
  <2>1. Len(t) \in Nat
    BY <1>1
  <2>2. ASSUME NEW i \in 2..Len(s)  PROVE i - 1 \in 1..Len(t) /\ s[i] = t[i - 1]
    <3>1. i - 1 \in 1..Len(t) /\ (i - 1) + 1 = i
      BY <1>2, <2>1
    <3>2. QED BY <1>2, <3>1
  <2>3. QED BY <2>1, <2>2
<1>6. ASSUME NEW i \in 1..Len(s)  PROVE Prime(s[i]) /\ d <= s[i]
  <2>1. CASE i = 1
    BY <1>2, <1>4, <2>1
  <2>2. CASE i # 1
    <3>1. i \in 2..Len(s)
      BY <2>2
    <3>2. QED BY <1>1, <1>5, <3>1
  <2>3. QED BY <2>1, <2>2
<1>7. ASSUME NEW i \in 2..Len(s)  PROVE s[i - 1] <= s[i]
  <2>1. CASE i = 2
    BY <1>2, <1>6, <2>1
  <2>2. CASE i # 2
    <3>1. i - 1 \in 2..Len(s) /\ i - 1 \in 2..Len(t)
      BY <1>2, <1>5, <2>2
    <3>2. s[i - 1] = t[(i - 1) - 1] /\ s[i] = t[i - 1]
      BY <1>5, <3>1
    <3>3. QED BY <1>1, <3>1, <3>2
  <2>3. QED BY <2>1, <2>2
<1>8. QED BY <1>2, <1>3, <1>6, <1>7 DEF Factored, s

\* The factors of n are primes in order, and n is their product.
LEMMA PrimeFactorsAreRight ==
  ASSUME NEW n \in Nat \ {0}
  PROVE  Factored(PrimeFactors(n), n, 2)
<1> DEFINE S == Stages(n)
           IsSplit(f) == f = [at \in S |-> SplitAt(f, at)]
           g == CHOOSE f : IsSplit(f)
           size(at) == at.left + (n + 1 - at.d)
           Done(at) == Cleared(at.left, at.d) => Factored(g[at], at.left, at.d)
           G == {k \in 0..(2 * n) : \A at \in S : size(at) <= k => Done(at)}
<1>1. \E f : IsSplit(f)
  <2>1. PICK f \in [S -> Seq(Nat)] : \A at \in S : f[at] = SplitAt(f, at)
    BY SplitExists
  <2> HIDE DEF S
  <2>2. f = [at \in S |-> f[at]]
    OBVIOUS
  <2>3. f = [at \in S |-> SplitAt(f, at)]
    BY <2>1, <2>2
  <2>4. QED BY <2>3
<1>2. IsSplit(g)
  BY <1>1
<1>3. PrimeFactors(n) = g[[left |-> n, d |-> 2]]
  BY DEF PrimeFactors, SplitAt, Stages
<1> HIDE DEF g
<1>4. \A at \in S : g[at] = SplitAt(g, at)
  BY <1>2
<1>5. \A at \in S : at.left \in 1..n /\ at.d \in 2..(n + 1) /\ at = [left |-> at.left, d |-> at.d]
  BY DEF Stages
<1>6. \A l \in 1..n, d \in 2..(n + 1) : [left |-> l, d |-> d] \in S
  BY DEF Stages
<1> HIDE DEF S
<1>7. 0 \in G
  <2>1. \A at \in S : ~(size(at) <= 0)
    BY <1>5
  <2>2. QED BY <2>1
<1>8. ASSUME NEW k \in 1..(2 * n), k - 1 \in G  PROVE k \in G
  <2>1. ASSUME NEW at \in S, size(at) <= k, Cleared(at.left, at.d)
        PROVE  Factored(g[at], at.left, at.d)
    <3>1. PICK left \in 1..n, d \in 2..(n + 1) : left = at.left /\ d = at.d
      BY <1>5
    <3>2. left \in Nat \ {0} /\ d \in Nat \ {0, 1}
      OBVIOUS
    <3>3. Cleared(left, d) /\ g[at] = SplitAt(g, at)
      BY <1>4, <2>1, <3>1
    <3>4. CASE d * d > left
      <4>1. SplitAt(g, at) = IF left > 1 THEN <<left>> ELSE <<>>
        BY <3>1, <3>4 DEF SplitAt
      <4>2. QED BY <3>1, <3>2, <3>3, <3>4, <4>1, LastFactor
    <3>5. CASE ~(d * d > left) /\ left % d = 0
      <4> DEFINE u == [left |-> left \div d, d |-> d]
      <4>1. left \div d \in 1..n /\ left \div d < left
        BY <3>5, StagesShrink
      <4>2. u \in S /\ size(u) <= k - 1
        BY <1>6, <2>1, <3>1, <4>1
      <4>3. Cleared(left \div d, d)
        <5>1. ASSUME NEW e \in 2..(d - 1), (left \div d) % e = 0  PROVE FALSE
          <6>1. left \in Nat /\ d \in Nat \ {0} /\ e \in Nat \ {0}
            OBVIOUS
          <6>2. left % e = 0
            BY ONLY <3>5, <5>1, <6>1, MultiplesOfMultiples
          <6>3. QED BY <3>3, <6>2 DEF Cleared
        <5>2. QED BY <5>1 DEF Cleared
      <4>4. Factored(g[u], left \div d, d)
        BY <1>8, <4>2, <4>3
      <4>5. SplitAt(g, at) = <<d>> \o g[u]
        BY <3>1, <3>5 DEF SplitAt
      <4> HIDE DEF u
      <4>6. QED BY <3>1, <3>2, <3>3, <3>5, <4>4, <4>5, NextFactor
    <3>6. CASE ~(d * d > left) /\ left % d # 0
      <4> DEFINE u == [left |-> left, d |-> d + 1]
      <4>1. d + 1 \in 2..(n + 1)
        BY <3>6, StagesShrink
      <4>2. u \in S /\ size(u) <= k - 1
        BY <1>6, <2>1, <3>1, <4>1
      <4>3. Cleared(left, d + 1)
        <5>1. \A e \in 2..((d + 1) - 1) : e \in 2..(d - 1) \/ e = d
          OBVIOUS
        <5>2. QED BY <3>3, <3>6, <5>1 DEF Cleared
      <4>4. Factored(g[u], left, d + 1)
        BY <1>8, <4>2, <4>3
      <4>5. SplitAt(g, at) = g[u]
        BY <3>1, <3>6 DEF SplitAt
      <4> HIDE DEF u
      <4>6. Factored(g[u], left, d)
        <5>1. \A i \in 1..Len(g[u]) : g[u][i] \in Nat /\ d + 1 <= g[u][i]
          BY <4>4 DEF Factored
        <5>2. \A i \in 1..Len(g[u]) : d <= g[u][i]
          BY <5>1
        <5>3. QED BY <4>4, <5>2 DEF Factored
      <4>7. QED BY <3>1, <3>3, <4>5, <4>6
    <3>7. QED BY <3>4, <3>5, <3>6
  <2>2. QED BY <2>1
<1>9. [left |-> n, d |-> 2] \in S /\ size([left |-> n, d |-> 2]) <= 2 * n
  BY <1>6
<1>10. 2 * n \in 0..(2 * n) /\ 2 * n \in Nat
  OBVIOUS
<1>11. 2 * n \in G
  <2> HIDE DEF G
  <2>1. PICK m \in Nat : m = 2 * n
    BY <1>10
  <2>2. 0..m \subseteq G
    BY <1>7, <1>8, <2>1, StepUp
  <2>3. QED BY <2>1, <2>2
<1>12. Cleared(n, 2)
  BY DEF Cleared
<1>13. QED BY <1>3, <1>9, <1>11, <1>12

-----------------------------------------------------------------------------
(* Encode and Decode *)

LEMMA NumberSteps ==
  ASSUME NEW s \in Seq(Nat), NEW base \in Nat
  PROVE  \E f \in [0..Len(s) -> Nat] :
           /\ NumberOf(s, base) = f[Len(s)] /\ f[0] = 0
           /\ \A i \in 1..Len(s) : f[i] = f[i - 1] * base + s[i]
<1> DEFINE n == Len(s)
           rule == [a \in Nat \X (1..n) |-> a[1] * base + s[a[2]]]
           IsNumber(f) == f = [i \in 0..n |-> IF i = 0 THEN 0 ELSE f[i - 1] * base + s[i]]
<1>1. n \in Nat /\ \A i \in 1..n : s[i] \in Nat
  OBVIOUS
<1>2. \E f : IsNumber(f)
  <2>1. rule \in [Nat \X (1..n) -> Nat] /\ 0 \in Nat
    <3>1. \A v \in Nat, i \in 1..n : v * base + s[i] \in Nat
      BY <1>1
    <3>2. QED BY <3>1
  <2>2. \A v \in Nat, i \in 1..n : rule[<<v, i>>] = v * base + s[i]
    OBVIOUS
  <2> HIDE DEF rule, n
  <2>3. PICK f \in [0..n -> Nat] : f[0] = 0 /\ \A i \in 1..n : f[i] = rule[<<f[i - 1], i>>]
    <3>1. Computed(Nat, n, 0, rule)
      BY <1>1, <2>1, StepByStep
    <3>2. QED BY <3>1 DEF Computed
  <2>4. ASSUME NEW i \in 0..n  PROVE f[i] = IF i = 0 THEN 0 ELSE f[i - 1] * base + s[i]
    <3>1. CASE i = 0
      BY <2>3, <3>1
    <3>2. CASE i # 0
      <4>1. i \in 1..n /\ i - 1 \in 0..n /\ f[i - 1] \in Nat
        BY <1>1, <3>2
      <4>2. f[i] = rule[<<f[i - 1], i>>]
        BY <2>3, <4>1
      <4>3. QED BY <2>2, <3>2, <4>1, <4>2
    <3>3. QED BY <3>1, <3>2
  <2>5. f = [i \in 0..n |-> f[i]]
    OBVIOUS
  <2>6. f = [i \in 0..n |-> IF i = 0 THEN 0 ELSE f[i - 1] * base + s[i]]
    BY <2>4, <2>5
  <2>7. QED BY <2>6
<1> DEFINE g == CHOOSE f : IsNumber(f)
<1>3. IsNumber(g)
  BY <1>2
<1>4. NumberOf(s, base) = g[n]
  BY DEF NumberOf
<1> HIDE DEF g, n
<1>5. \A i \in 0..n : g[i] = IF i = 0 THEN 0 ELSE g[i - 1] * base + s[i]
  BY <1>3
<1>6. g[0] = 0 /\ \A i \in 1..n : g[i] = g[i - 1] * base + s[i]
  <2>1. 0 \in 0..n /\ \A i \in 1..n : i \in 0..n /\ i # 0
    BY <1>1
  <2>2. QED BY <1>5, <2>1
<1>7. \A i \in 0..n : g[i] \in Nat
  <2> DEFINE G == {i \in 0..n : g[i] \in Nat}
  <2>1. 0 \in G
    BY <1>1, <1>6
  <2>2. ASSUME NEW k \in 1..n, k - 1 \in G  PROVE k \in G
    <3>1. k \in 0..n /\ g[k - 1] \in Nat /\ s[k] \in Nat /\ g[k] = g[k - 1] * base + s[k]
      BY <1>1, <1>6, <2>2
    <3>2. g[k - 1] * base \in Nat
      BY <3>1
    <3>3. QED BY <3>1, <3>2
  <2> HIDE DEF G
  <2>3. 0..n \subseteq G
    BY <1>1, <2>1, <2>2, StepUp
  <2>4. QED BY <2>3 DEF G
<1>8. g \in [0..n -> Nat]
  BY <1>3, <1>7
<1>9. QED BY <1>4, <1>6, <1>8 DEF n

LEMMA NumberOfAppend ==
  ASSUME NEW s \in Seq(Nat), NEW x \in Nat, NEW base \in Nat
  PROVE  /\ NumberOf(s, base) \in Nat
         /\ NumberOf(Append(s, x), base) = NumberOf(s, base) * base + x
<1> DEFINE t == Append(s, x)
           n == Len(s)
<1>1. /\ n \in Nat /\ t \in Seq(Nat) /\ Len(t) = n + 1
      /\ t[n + 1] = x /\ \A i \in 1..n : t[i] = s[i] /\ s[i] \in Nat
  OBVIOUS
<1> HIDE DEF t
<1>2. PICK f \in [0..(n + 1) -> Nat] :
        /\ NumberOf(t, base) = f[n + 1] /\ f[0] = 0
        /\ \A i \in 1..(n + 1) : f[i] = f[i - 1] * base + t[i]
  <2>1. \E f \in [0..Len(t) -> Nat] :
          /\ NumberOf(t, base) = f[Len(t)] /\ f[0] = 0
          /\ \A i \in 1..Len(t) : f[i] = f[i - 1] * base + t[i]
    BY <1>1, NumberSteps
  <2>2. QED BY <1>1, <2>1
<1>3. PICK g \in [0..n -> Nat] :
        /\ NumberOf(s, base) = g[n] /\ g[0] = 0
        /\ \A i \in 1..n : g[i] = g[i - 1] * base + s[i]
  BY NumberSteps
<1> HIDE DEF n
<1> DEFINE G == {k \in 0..n : f[k] = g[k]}
<1>4. 0 \in G
  BY <1>1, <1>2, <1>3
<1>5. ASSUME NEW k \in 1..n, k - 1 \in G  PROVE k \in G
  <2>1. k \in 0..n /\ k \in 1..(n + 1) /\ f[k - 1] = g[k - 1] /\ t[k] = s[k]
    <3>1. k \in 0..n /\ k \in 1..(n + 1)
      BY <1>1
    <3>2. f[k - 1] = g[k - 1]
      BY <1>5
    <3>3. QED BY <1>1, <3>1, <3>2
  <2>2. f[k] = f[k - 1] * base + t[k] /\ g[k] = g[k - 1] * base + s[k]
    BY <1>2, <1>3, <2>1
  <2>3. QED BY <2>1, <2>2
<1>6. n \in G /\ n \in 0..n
  <2>1. n \in 0..n
    BY <1>1
  <2> HIDE DEF G
  <2>2. QED BY <1>1, <1>4, <1>5, <2>1, StepUp
<1>7. f[n + 1] = f[n] * base + x
  <2>1. n + 1 \in 1..(n + 1) /\ (n + 1) - 1 = n
    BY <1>1
  <2>2. QED BY <1>1, <1>2, <2>1
<1>8. g[n] \in Nat /\ f[n] = g[n]
  BY <1>6
<1>9. QED BY <1>2, <1>3, <1>7, <1>8 DEF t

LEMMA QuotientShrinks ==
  ASSUME NEW m \in Nat \ {0}, NEW base \in Nat \ {0, 1}
  PROVE  m \div base \in 0..(m - 1) /\ m % base \in 0..(base - 1) /\ m = (m \div base) * base + (m % base)
<1>1. PICK q \in Nat, r \in 0..(base - 1) : m \div base = q /\ m % base = r /\ m = q * base + r
  <2>1. m \in Nat /\ base \in Nat \ {0}
    OBVIOUS
  <2>2. m \div base \in Nat /\ m % base \in 0..(base - 1) /\ m = (m \div base) * base + (m % base)
    BY <2>1, Quotient
  <2>3. QED BY <2>2
<1>2. 2 * q <= base * q /\ base * q = q * base
  BY Scaled
<1>3. PICK p \in Nat : p = q * base
  OBVIOUS
<1>4. q < m
  BY <1>1, <1>2, <1>3
<1>5. QED BY <1>1, <1>4

LEMMA DigitsExist ==
  ASSUME NEW n \in Nat, NEW base \in Nat \ {0, 1}
  PROVE  \E f \in [0..n -> Seq(0..(base - 1))] :
           \A m \in 0..n : f[m] = IF m = 0 THEN <<>> ELSE Append(f[m \div base], m % base)
<1> DEFINE S == 0..n
           V == Seq(0..(base - 1))
           measure == [m \in S |-> m]
           rule == [p \in [S -> V] \X S |->
                     IF p[2] = 0 THEN <<>> ELSE Append(p[1][p[2] \div base], p[2] % base)]
<1>1. <<>> \in V /\ measure \in [S -> 0..n] /\ \A m \in S : measure[m] = m
  OBVIOUS
<1>2. \A m \in S : m # 0 => m \div base \in S /\ m \div base < m /\ m % base \in 0..(base - 1)
  <2>1. ASSUME NEW m \in S, m # 0
        PROVE  m \div base \in S /\ m \div base < m /\ m % base \in 0..(base - 1)
    <3>1. m \in Nat \ {0} /\ m \in 0..n
      BY <2>1
    <3>2. m \div base \in 0..(m - 1) /\ m % base \in 0..(base - 1)
      BY <3>1, QuotientShrinks
    <3>3. QED BY <3>1, <3>2
  <2>2. QED BY <2>1
<1>3. \A s \in V, x \in 0..(base - 1) : Append(s, x) \in V
  OBVIOUS
<1> HIDE DEF V, S, measure
<1>4. ASSUME NEW f \in [S -> V], NEW m \in S
      PROVE  (IF m = 0 THEN <<>> ELSE Append(f[m \div base], m % base)) \in V
  BY <1>1, <1>2, <1>3
<1>5. rule \in [[S -> V] \X S -> V]
  BY <1>4
<1>6. \A f \in [S -> V], m \in S :
        rule[<<f, m>>] = IF m = 0 THEN <<>> ELSE Append(f[m \div base], m % base)
  OBVIOUS
<1> HIDE DEF rule
<1>7. ASSUME NEW f \in [S -> V], NEW g \in [S -> V], NEW m \in S,
             \A u \in S : measure[u] < measure[m] => f[u] = g[u]
      PROVE  rule[<<f, m>>] = rule[<<g, m>>]
  <2>1. m # 0 => f[m \div base] = g[m \div base]
    BY <1>1, <1>2, <1>7
  <2>2. QED BY <1>6, <2>1
<1>8. Solved(S, V, rule)
  BY ONLY <1>1, <1>5, <1>7, n \in Nat, Recursion
<1>9. QED BY <1>6, <1>8 DEF Solved, S, V

LEMMA DigitsSteps ==
  ASSUME NEW n \in Nat, NEW base \in Nat \ {0, 1}
  PROVE  \E f \in [0..n -> Seq(0..(base - 1))] :
           /\ DigitsOf(n, base) = f[n] /\ f[0] = <<>>
           /\ \A m \in 1..n : f[m] = Append(f[m \div base], m % base)
<1> DEFINE V == Seq(0..(base - 1))
           IsDigits(f) == f = [m \in 0..n |-> IF m = 0 THEN <<>> ELSE Append(f[m \div base], m % base)]
           g == CHOOSE f : IsDigits(f)
<1>1. \E f : IsDigits(f)
  <2>1. PICK f \in [0..n -> V] :
          \A m \in 0..n : f[m] = IF m = 0 THEN <<>> ELSE Append(f[m \div base], m % base)
    BY DigitsExist
  <2>2. f = [m \in 0..n |-> f[m]]
    OBVIOUS
  <2>3. IsDigits(f)
    BY <2>1, <2>2
  <2>4. QED BY <2>3
<1>2. IsDigits(g)
  BY <1>1
<1>3. DigitsOf(n, base) = g[n]
  BY DEF DigitsOf
<1> HIDE DEF g
<1>4. \A m \in 0..n : g[m] = IF m = 0 THEN <<>> ELSE Append(g[m \div base], m % base)
  BY <1>2
<1>5. g[0] = <<>> /\ \A m \in 1..n : g[m] = Append(g[m \div base], m % base)
  <2>1. 0 \in 0..n /\ \A m \in 1..n : m \in 0..n /\ m # 0
    OBVIOUS
  <2>2. QED BY <1>4, <2>1
<1>6. \A m \in 0..n : g[m] \in V
  <2> DEFINE G == {k \in 0..n : \A m \in 0..k : g[m] \in V}
  <2>1. 0 \in G
    <3>1. g[0] \in V /\ \A m \in 0..0 : m = 0
      BY <1>5
    <3> HIDE DEF V
    <3>2. QED BY <3>1
  <2>2. ASSUME NEW k \in 1..n, k - 1 \in G  PROVE k \in G
    <3>1. k \div base \in 0..(k - 1) /\ k % base \in 0..(base - 1)
      <4>1. k \in Nat \ {0}
        OBVIOUS
      <4>2. QED BY <4>1, QuotientShrinks
    <3>2. g[k \div base] \in V
      BY <2>2, <3>1
    <3>3. Append(g[k \div base], k % base) \in V
      BY <3>1, <3>2
    <3>4. g[k] \in V
      BY <1>5, <3>3
    <3>5. \A m \in 0..k : m \in 0..(k - 1) \/ m = k
      OBVIOUS
    <3> HIDE DEF V
    <3>6. QED BY <2>2, <3>4, <3>5
  <2> HIDE DEF G
  <2>3. n \in 0..n /\ 0..n \subseteq G
    BY <2>1, <2>2, StepUp
  <2>4. QED BY <2>3 DEF G
<1>7. g \in [0..n -> V]
  BY <1>2, <1>6
<1>8. QED BY <1>3, <1>5, <1>7

\* The digits of a number are those of its quotient and its last one.
LEMMA DigitsOfQuotient ==
  ASSUME NEW n \in Nat, NEW base \in Nat \ {0, 1}
  PROVE  /\ DigitsOf(n, base) \in Seq(0..(base - 1)) /\ DigitsOf(0, base) = <<>>
         /\ n # 0 => DigitsOf(n, base) = Append(DigitsOf(n \div base, base), n % base)
<1>1. PICK f \in [0..n -> Seq(0..(base - 1))] :
        /\ DigitsOf(n, base) = f[n] /\ f[0] = <<>>
        /\ \A m \in 1..n : f[m] = Append(f[m \div base], m % base)
  BY DigitsSteps
<1>2. n \in 0..n
  OBVIOUS
<1>3. DigitsOf(0, base) = <<>>
  <2>1. 0 \in Nat
    OBVIOUS
  <2>2. QED BY <2>1, DigitsSteps
<1>4. ASSUME n # 0  PROVE DigitsOf(n, base) = Append(DigitsOf(n \div base, base), n % base)
  <2>1. PICK q \in Nat : q = n \div base /\ q \in 0..(n - 1)
    <3>1. n \in Nat \ {0}
      BY <1>4
    <3>2. n \div base \in 0..(n - 1)
      BY <3>1, QuotientShrinks
    <3>3. QED BY <3>1, <3>2
  <2>2. PICK g \in [0..q -> Seq(0..(base - 1))] :
          /\ DigitsOf(q, base) = g[q] /\ g[0] = <<>>
          /\ \A m \in 1..q : g[m] = Append(g[m \div base], m % base)
    BY DigitsSteps
  <2> DEFINE G == {k \in 0..q : \A m \in 0..k : f[m] = g[m]}
  <2>3. 0 \in G
    BY <1>1, <2>2
  <2>4. ASSUME NEW k \in 1..q, k - 1 \in G  PROVE k \in G
    <3>1. k \div base \in 0..(k - 1) /\ k \in 1..n
      <4>1. k \in Nat \ {0} /\ k \in 1..n
        BY <2>1
      <4>2. QED BY <4>1, QuotientShrinks
    <3>2. f[k \div base] = g[k \div base]
      BY <2>4, <3>1
    <3>3. f[k] = g[k]
      BY <1>1, <2>2, <3>1, <3>2
    <3>4. \A m \in 0..k : m \in 0..(k - 1) \/ m = k
      OBVIOUS
    <3>5. k \in 0..q /\ \A m \in 0..(k - 1) : f[m] = g[m]
      BY <2>1, <2>4
    <3>6. QED BY <3>3, <3>4, <3>5
  <2> HIDE DEF G
  <2>5. q \in 0..q /\ 0..q \subseteq G
    <3>1. 0..q \subseteq G
      BY ONLY <2>3, <2>4, q \in Nat, StepUp
    <3>2. QED BY <3>1
  <2>6. f[q] = g[q]
    BY <2>5 DEF G
  <2>7. n \in 1..n
    BY <1>4
  <2>8. QED BY <1>1, <2>1, <2>2, <2>6, <2>7
<1>5. QED BY <1>1, <1>2, <1>3, <1>4

\* The digits of a number, after any zeros, are its number again, and the
\* first digit is not a zero.
LEMMA NumberOfDigits ==
  ASSUME NEW n \in Nat, NEW base \in Nat \ {0, 1}, NEW z \in Seq(Nat), NumberOf(z, base) = 0
  PROVE  /\ NumberOf(z \o DigitsOf(n, base), base) = n
         /\ DigitsOf(n, base) # <<>> => DigitsOf(n, base)[1] # 0
         /\ n # 0 => DigitsOf(n, base) # <<>>
<1> DEFINE Right(m) == LET s == DigitsOf(m, base)
                       IN  /\ NumberOf(z \o s, base) = m
                           /\ s # <<>> => s[1] # 0
                           /\ m # 0 => s # <<>>
           G == {k \in 0..n : \A m \in 0..k : Right(m)}
<1>1. 0 \in G
  <2>1. DigitsOf(0, base) = <<>> /\ z \o <<>> = z
    BY DigitsOfQuotient
  <2>2. Right(0)
    BY <2>1
  <2>3. \A m \in 0..0 : m = 0
    OBVIOUS
  <2> HIDE DEF Right
  <2>4. QED BY <2>2, <2>3
<1>2. ASSUME NEW k \in 1..n, k - 1 \in G  PROVE k \in G
  <2>1. PICK q \in 0..(k - 1), r \in 0..(base - 1) :
          q = k \div base /\ r = k % base /\ k = q * base + r
    <3>1. k \in Nat \ {0}
      OBVIOUS
    <3>2. /\ k \div base \in 0..(k - 1) /\ k % base \in 0..(base - 1)
          /\ k = (k \div base) * base + (k % base)
      BY <3>1, QuotientShrinks
    <3> HIDE DEF G
    <3>3. QED BY <3>2
  <2>2. Right(q)
    BY <1>2, <2>1
  <2> DEFINE s == DigitsOf(q, base)
             t == DigitsOf(k, base)
  <2>3. s \in Seq(0..(base - 1)) /\ s \in Seq(Nat) /\ r \in Nat
    <3>1. q \in Nat
      OBVIOUS
    <3>2. s \in Seq(0..(base - 1)) /\ 0..(base - 1) \subseteq Nat
      BY <3>1, DigitsOfQuotient
    <3> HIDE DEF s
    <3>3. QED BY <3>2, SeqMonotonic
  <2>4. t = Append(s, r)
    <3>1. k \in Nat /\ k # 0
      OBVIOUS
    <3>2. QED BY <2>1, <3>1, DigitsOfQuotient
  <2>5. NumberOf(z \o t, base) = k
    <3> HIDE DEF s, t
    <3>1. z \o t = Append(z \o s, r) /\ z \o s \in Seq(Nat)
      <4>1. z \o s \in Seq(Nat) /\ t = s \o <<r>> /\ <<r>> \in Seq(Nat)
        BY <2>3, <2>4
      <4>2. (z \o s) \o <<r>> = z \o (s \o <<r>>)
        <5>1. s \in Seq(Nat) /\ <<r>> \in Seq(Nat)
          BY <2>3, <4>1
        <5>2. QED BY ONLY <5>1, z \in Seq(Nat), ConcatAssociative
      <4>3. Append(z \o s, r) = (z \o s) \o <<r>>
        BY <2>3, <4>1, AppendIsConcat
      <4>4. QED BY <4>1, <4>2, <4>3
    <3>2. NumberOf(z \o t, base) = NumberOf(z \o s, base) * base + r
      <4>1. base \in Nat
        OBVIOUS
      <4>2. QED BY <2>3, <3>1, <4>1, NumberOfAppend
    <3>3. NumberOf(z \o s, base) = q
      BY <2>2 DEF s
    <3>4. QED BY <2>1, <3>2, <3>3
  <2>6. t # <<>> /\ t[1] # 0
    <3>1. CASE q = 0
      <4>1. s = <<>>
        BY <3>1, DigitsOfQuotient
      <4>2. r # 0
        BY <2>1, <3>1
      <4> HIDE DEF s, t
      <4>3. QED BY <2>3, <2>4, <4>1, <4>2
    <3>2. CASE q # 0
      <4>1. s # <<>> /\ s[1] # 0
        BY <2>2, <3>2
      <4> HIDE DEF s, t
      <4>2. Len(s) \in Nat \ {0}
        BY <2>3, <4>1, EmptySeq
      <4>3. t # <<>> /\ \A i \in 1..Len(s) : t[i] = s[i]
        <5>1. s \in Seq(Nat) /\ r \in Nat
          BY <2>3
        <5>2. Append(s, r) # <<>> /\ \A i \in 1..Len(s) : Append(s, r)[i] = s[i]
          BY ONLY <5>1, AppendProperties
        <5>3. QED BY <2>4, <5>2
      <4>4. QED BY <4>1, <4>2, <4>3
    <3>3. QED BY <3>1, <3>2
  <2>7. Right(k)
    BY <2>5, <2>6
  <2>8. \A m \in 0..k : m \in 0..(k - 1) \/ m = k
    OBVIOUS
  <2>9. k \in 0..n /\ \A m \in 0..(k - 1) : Right(m)
    BY <1>2
  <2> HIDE DEF Right
  <2>10. QED BY <2>7, <2>8, <2>9
<1> HIDE DEF G
<1>3. n \in 0..n /\ 0..n \subseteq G
  <2>1. 0..n \subseteq G
    BY ONLY <1>1, <1>2, n \in Nat, StepUp
  <2>2. QED BY <2>1
<1>4. Right(n)
  BY <1>3 DEF G
<1>5. QED BY <1>4

\* The leading zeros of a row, and the digits of the number it stands for.
LEMMA LeadingZeros ==
  ASSUME NEW s \in Seq(Nat), NEW z \in 0..Len(s), \A j \in 1..z : s[j] = 0,
         z = Len(s) \/ s[z + 1] # 0
  PROVE  Zeros(s) = z
<1>1. PICK n \in Nat : n = Len(s) /\ DOMAIN s = 1..n
  OBVIOUS
<1>2. z \in Nat /\ z <= n
  BY <1>1
<1>3. ASSUME NEW i \in 1..n, \A j \in 1..i : s[j] = 0  PROVE i \in 1..z
  <2>1. CASE i > z
    <3>1. z + 1 \in 1..i /\ z # n
      BY <1>2, <2>1
    <3>2. QED BY <1>1, <1>3, <3>1
  <2>2. QED BY <1>2, <2>1
<1>4. ASSUME NEW i \in 1..z  PROVE i \in 1..n /\ \A j \in 1..i : s[j] = 0
  <2>1. i \in 1..n /\ \A j \in 1..i : j \in 1..z
    BY <1>2
  <2>2. QED BY <2>1
<1>5. {i \in DOMAIN s : \A j \in 1..i : s[j] = 0} = 1..z
  BY <1>1, <1>3, <1>4
<1>6. Cardinality(1..z) = z
  <2>1. z \in Int /\ 1 \in Int /\ ((IF 1 > z THEN 0 ELSE (z - 1) + 1) = z)
    BY ONLY <1>2
  <2>2. QED BY ONLY <2>1, FS_Interval
<1>7. QED BY <1>5, <1>6 DEF Zeros

LEMMA ZerosExist ==
  ASSUME NEW s \in Seq(Nat)
  PROVE  \E z \in 0..Len(s) : (\A j \in 1..z : s[j] = 0) /\ (z = Len(s) \/ s[z + 1] # 0)
<1> DEFINE T == {z \in 0..Len(s) : z = Len(s) \/ s[z + 1] # 0}
<1>1. Len(s) \in Nat
  OBVIOUS
<1>2. PICK z \in T : \A y \in T : z <= y
  <2>1. T \subseteq Nat /\ Len(s) \in T
    BY <1>1
  <2> HIDE DEF T
  <2>2. QED BY <2>1, LeastNumber
<1>3. ASSUME NEW j \in 1..z  PROVE s[j] = 0
  <2>1. j - 1 \in 0..Len(s) /\ ~(z <= j - 1) /\ (j - 1) + 1 = j
    BY <1>1, <1>2
  <2>2. QED BY <1>2, <2>1
<1>4. QED BY <1>2, <1>3

LEMMA NumberOfZeros ==
  ASSUME NEW n \in Nat, NEW base \in Nat
  PROVE  /\ [i \in 1..n |-> 0] \in Seq(Nat) /\ Len([i \in 1..n |-> 0]) = n
         /\ NumberOf([i \in 1..n |-> 0], base) = 0
<1> DEFINE s == [i \in 1..n |-> 0]
<1>1. s \in Seq(Nat) /\ Len(s) = n /\ \A i \in 1..n : s[i] = 0
  OBVIOUS
<1> HIDE DEF s
<1>2. PICK f \in [0..Len(s) -> Nat] :
        /\ NumberOf(s, base) = f[Len(s)] /\ f[0] = 0
        /\ \A i \in 1..Len(s) : f[i] = f[i - 1] * base + s[i]
  BY <1>1, NumberSteps
<1> DEFINE G == {k \in 0..n : f[k] = 0}
<1>3. 0 \in G
  BY <1>2
<1>4. ASSUME NEW k \in 1..n, k - 1 \in G  PROVE k \in G
  <2>1. f[k] = f[k - 1] * base + s[k] /\ f[k - 1] = 0 /\ s[k] = 0
    BY <1>1, <1>2, <1>4
  <2>2. 0 * base + 0 = 0
    OBVIOUS
  <2>3. QED BY <2>1, <2>2
<1>5. n \in G
  <2> HIDE DEF G
  <2>1. 0..n \subseteq G
    BY ONLY <1>3, <1>4, n \in Nat, StepUp
  <2>2. QED BY <2>1
<1>6. QED BY <1>1, <1>2, <1>5 DEF s

LEMMA DigitsOfNumber ==
  ASSUME NEW base \in Nat \ {0, 1}, NEW s \in Seq(0..(base - 1)), NEW z \in 0..Len(s),
         \A j \in 1..z : s[j] = 0, z = Len(s) \/ s[z + 1] # 0
  PROVE  DigitsOf(NumberOf(s, base), base) = SubSeq(s, z + 1, Len(s))
<1>1. PICK n \in Nat : /\ n = Len(s) /\ s \in Seq(Nat) /\ \A i \in 1..n : s[i] \in 0..(base - 1)
  <2>1. 0..(base - 1) \subseteq Nat
    OBVIOUS
  <2>2. s \in Seq(Nat)
    BY <2>1, SeqMonotonic
  <2>3. Len(s) \in Nat /\ \A i \in 1..Len(s) : s[i] \in 0..(base - 1)
    OBVIOUS
  <2>4. QED BY <2>2, <2>3
<1>2. z \in Nat /\ z <= n /\ base \in Nat
  BY <1>1
<1>3. PICK f \in [0..n -> Nat] :
        /\ NumberOf(s, base) = f[n] /\ f[0] = 0
        /\ \A i \in 1..n : f[i] = f[i - 1] * base + s[i]
  <2>1. \E f \in [0..Len(s) -> Nat] :
          /\ NumberOf(s, base) = f[Len(s)] /\ f[0] = 0
          /\ \A i \in 1..Len(s) : f[i] = f[i - 1] * base + s[i]
    BY <1>1, <1>2, NumberSteps
  <2>2. QED BY <1>1, <2>1
<1> DEFINE Right(k) == /\ k <= z => f[k] = 0
                       /\ k > z => f[k] # 0
                       /\ DigitsOf(f[k], base) = SubSeq(s, z + 1, k)
           G == {k \in 0..n : Right(k)}
<1>4. ASSUME NEW k \in 0..z, f[k] = 0  PROVE Right(k)
  <2>1. DigitsOf(0, base) = <<>>
    BY DigitsOfQuotient
  <2>2. SubSeq(s, z + 1, k) = <<>>
    <3>1. z + 1 \in Int /\ k \in Int /\ k < z + 1
      BY <1>2
    <3>2. QED BY <3>1, SubSeqEmpty
  <2>3. k <= z /\ ~(k > z)
    BY <1>2
  <2>4. QED BY <1>4, <2>1, <2>2, <2>3
<1>5. 0 \in G
  <2>1. 0 \in 0..z /\ 0 \in 0..n
    BY <1>2
  <2>2. QED BY <1>3, <1>4, <2>1
<1>6. ASSUME NEW k \in 1..n, k - 1 \in G  PROVE k \in G
  <2>1. PICK p \in Nat, r \in 0..(base - 1) :
          p = f[k - 1] /\ r = s[k] /\ f[k] = p * base + r
    <3>1. k - 1 \in 0..n
      OBVIOUS
    <3>2. f[k - 1] \in Nat /\ s[k] \in 0..(base - 1) /\ f[k] = f[k - 1] * base + s[k]
      BY <1>1, <1>3, <3>1
    <3> HIDE DEF G
    <3>3. QED BY <3>2
  <2>2. CASE k <= z
    <3>1. p = 0 /\ r = 0
      <4>1. k - 1 <= z /\ k \in 1..z
        BY <1>2, <2>2
      <4>2. QED BY <1>6, <2>1, <4>1
    <3>2. f[k] = 0
      BY <2>1, <3>1, <1>2
    <3>3. k \in 0..z
      BY <1>2, <2>2
    <3>4. QED BY <1>4, <3>2, <3>3
  <2>3. CASE k > z
    <3>1. PICK m \in Nat : m = f[k] /\ m = p * base + r /\ m # 0
      <4>1. PICK b \in Nat : b = p * base
        BY <1>2
      <4>2. CASE k - 1 > z
        <5>1. p # 0
          BY <1>6, <2>1, <4>2
        <5>2. 1 * base <= p * base
          BY <1>2, <5>1, Scaled
        <5>3. b # 0
          BY <1>2, <4>1, <5>2
        <5>4. b + r \in Nat /\ b + r # 0
          BY <5>3
        <5>5. QED BY <2>1, <4>1, <5>4
      <4>3. CASE k - 1 = z
        <5>1. k = z + 1 /\ z # Len(s)
          BY <1>1, <1>2, <4>3
        <5>2. r # 0
          BY <2>1, <5>1
        <5>3. b + r \in Nat /\ b + r # 0
          BY <5>2
        <5>4. QED BY <2>1, <4>1, <5>3
      <4>4. QED BY <1>2, <2>3, <4>2, <4>3
    <3>2. m \div base = p /\ m % base = r
      <4>1. base \in Nat \ {0}
        OBVIOUS
      <4>2. QED BY ONLY <3>1, <4>1, m \in Nat, p \in Nat, r \in 0..(base - 1), QuotientIs
    <3>3. DigitsOf(m, base) = Append(DigitsOf(p, base), r)
      BY <3>1, <3>2, DigitsOfQuotient
    <3>4. DigitsOf(p, base) = SubSeq(s, z + 1, k - 1)
      BY <1>6, <2>1
    <3>5. SubSeq(s, z + 1, k) = SubSeq(s, z + 1, k - 1) \o <<s[k]>>
      <4>1. z + 1 \in 1..Len(s) /\ k \in (z + 1)..Len(s)
        BY <1>1, <1>2, <2>3
      <4>2. QED BY <4>1, SubSeqRecursiveSecond
    <3>6. Append(SubSeq(s, z + 1, k - 1), r) = SubSeq(s, z + 1, k - 1) \o <<r>>
      <4>1. DigitsOf(p, base) \in Seq(0..(base - 1))
        BY DigitsOfQuotient
      <4>2. QED BY <3>4, <4>1, AppendIsConcat
    <3>7. DigitsOf(f[k], base) = SubSeq(s, z + 1, k)
      BY <2>1, <3>1, <3>3, <3>4, <3>5, <3>6
    <3>8. ~(k <= z)
      BY <1>2, <2>3
    <3>9. f[k] # 0
      BY <3>1
    <3>10. Right(k)
      BY <3>7, <3>8, <3>9
    <3> HIDE DEF Right
    <3>11. k \in 0..n
      OBVIOUS
    <3>12. QED BY <3>10, <3>11
  <2>4. QED BY <1>2, <2>2, <2>3
<1>7. n \in G
  <2> HIDE DEF G
  <2>1. 0..n \subseteq G
    BY ONLY <1>5, <1>6, n \in Nat, StepUp
  <2>2. QED BY <2>1
<1>8. QED BY <1>1, <1>3, <1>7

\* What is encoded can be decoded.
LEMMA EncodingIsRight ==
  ASSUME NEW d \in Seq(0..(ByteSize - 1))
  PROVE  Decode(Encode(d)) = d
<1>1. PICK a \in Nat \ {0, 1}, b \in Nat \ {0, 1} : a = ByteSize /\ b = AlphabetSize
  BY SkillsAssumption
<1>2. d \in Seq(0..(a - 1)) /\ d \in Seq(Nat) /\ Len(d) \in Nat
  <2>1. d \in Seq(0..(a - 1)) /\ 0..(a - 1) \subseteq Nat
    BY <1>1
  <2>2. d \in Seq(Nat)
    BY <2>1, SeqMonotonic
  <2>3. QED BY <2>1, <2>2
<1>3. PICK z \in 0..Len(d) : (\A j \in 1..z : d[j] = 0) /\ (z = Len(d) \/ d[z + 1] # 0)
  BY <1>2, ZerosExist
<1>4. z \in Nat /\ z <= Len(d) /\ Zeros(d) = z
  BY <1>2, <1>3, LeadingZeros
<1> DEFINE n == NumberOf(d, a)
           Z == [i \in 1..z |-> 0]
           D == DigitsOf(n, b)
           e == Z \o D
<1>5. n \in Nat
  <2>1. a \in Nat /\ 0 \in Nat
    OBVIOUS
  <2>2. QED BY <1>2, <2>1, NumberOfAppend
<1>6. Z \in Seq(Nat) /\ Len(Z) = z /\ NumberOf(Z, b) = 0 /\ \A i \in 1..z : Z[i] = 0
  <2>1. b \in Nat
    OBVIOUS
  <2>2. QED BY <1>4, <2>1, NumberOfZeros
<1>7. Encode(d) = e
  BY <1>1, <1>4 DEF Encode, Recode
<1>8. DigitsOf(n, a) = SubSeq(d, z + 1, Len(d))
  BY <1>2, <1>3, DigitsOfNumber
<1> HIDE DEF n, Z
<1>9. D \in Seq(Nat)
  <2>1. D \in Seq(0..(b - 1)) /\ 0..(b - 1) \subseteq Nat
    BY <1>5, DigitsOfQuotient
  <2> HIDE DEF D
  <2>2. QED BY <2>1, SeqMonotonic
<1>10. NumberOf(e, b) = n /\ (D # <<>> => D[1] # 0)
  BY <1>5, <1>6, NumberOfDigits
<1> HIDE DEF D
<1>11. /\ e \in Seq(Nat) /\ Len(e) = z + Len(D) /\ Len(D) \in Nat
       /\ \A i \in 1..(z + Len(D)) : e[i] = IF i <= z THEN Z[i] ELSE D[i - z]
  <2>1. /\ Z \o D \in Seq(Nat) /\ Len(Z \o D) = Len(Z) + Len(D)
        /\ \A i \in 1..(Len(Z) + Len(D)) : (Z \o D)[i] = IF i <= Len(Z) THEN Z[i] ELSE D[i - Len(Z)]
    <3>1. Z \in Seq(Nat) /\ D \in Seq(Nat)
      BY <1>6, <1>9
    <3>2. QED BY ONLY <3>1, ConcatProperties
  <2>2. QED BY <1>6, <1>9, <2>1
<1> HIDE DEF e
<1>12. Zeros(e) = z
  <2>1. z \in 0..Len(e)
    BY <1>4, <1>11
  <2>2. \A j \in 1..z : e[j] = 0
    BY <1>4, <1>6, <1>11
  <2>3. CASE D = <<>>
    <3>1. Len(D) = 0
      BY <2>3
    <3>2. z = Len(e)
      BY <1>4, <1>11, <3>1
    <3>3. QED BY <1>11, <2>1, <2>2, <3>2, LeadingZeros
  <2>4. CASE D # <<>>
    <3>1. Len(D) \in Nat \ {0}
      BY <1>9, <2>4, EmptySeq
    <3>2. z + 1 \in 1..(z + Len(D)) /\ ~(z + 1 <= z) /\ (z + 1) - z = 1
      BY <1>4, <3>1
    <3>3. e[z + 1] # 0
      BY <1>10, <1>11, <2>4, <3>2
    <3>4. QED BY <1>11, <2>1, <2>2, <3>3, LeadingZeros
  <2>5. QED BY <2>3, <2>4
<1>13. Decode(e) = Z \o SubSeq(d, z + 1, Len(d))
  BY <1>1, <1>8, <1>10, <1>12 DEF Decode, Recode, Z
<1>14. Z \o SubSeq(d, z + 1, Len(d)) = d
  <2> DEFINE t == SubSeq(d, z + 1, Len(d))
  <2>1. /\ t \in Seq(Nat) /\ Len(t) = Len(d) - z
        /\ \A i \in 1..(Len(d) - z) : t[i] = d[z + i]
    <3>1. \A i \in (z + 1)..Len(d) : d[i] \in Nat
      BY <1>2, <1>4
    <3>2. z + 1 \in Int /\ Len(d) \in Int /\ Len(d) - (z + 1) + 1 = Len(d) - z
      BY <1>2, <1>4
    <3>3. /\ SubSeq(d, z + 1, Len(d)) \in Seq(Nat)
          /\ Len(SubSeq(d, z + 1, Len(d))) =
               IF z + 1 <= Len(d) THEN Len(d) - (z + 1) + 1 ELSE 0
          /\ \A i \in 1..(Len(d) - (z + 1) + 1) :
               SubSeq(d, z + 1, Len(d))[i] = d[(z + 1) + i - 1]
      BY <3>1, <3>2, SubSeqProperties
    <3>4. \A i \in 1..(Len(d) - z) : (z + 1) + i - 1 = z + i
      BY <1>4
    <3>5. (IF z + 1 <= Len(d) THEN Len(d) - (z + 1) + 1 ELSE 0) = Len(d) - z
      BY <1>2, <1>4
    <3>6. QED BY <3>2, <3>3, <3>4, <3>5
  <2> HIDE DEF t
  <2>2. /\ Z \o t \in Seq(Nat) /\ Len(Z \o t) = Len(Z) + Len(t)
        /\ \A i \in 1..(Len(Z) + Len(t)) : (Z \o t)[i] = IF i <= Len(Z) THEN Z[i] ELSE t[i - Len(Z)]
    BY <1>6, <2>1, ConcatProperties
  <2>3. Len(Z) + Len(t) = Len(d)
    BY <1>2, <1>4, <1>6, <2>1
  <2>4. ASSUME NEW i \in 1..Len(d)  PROVE (Z \o t)[i] = d[i]
    <3>1. CASE i <= z
      <4>1. i \in 1..z
        BY <3>1
      <4>2. QED BY <1>3, <1>6, <2>2, <2>3, <3>1, <4>1
    <3>2. CASE i > z
      <4>1. i - z \in 1..(Len(d) - z) /\ z + (i - z) = i /\ ~(i <= z)
        BY <1>2, <1>4, <3>2
      <4>2. QED BY <1>6, <2>1, <2>2, <2>3, <4>1
    <3>3. i <= z \/ i > z
      BY <1>2, <1>4
    <3>4. QED BY <3>1, <3>2, <3>3
  <2>5. Z \o t = d
    BY <1>2, <2>2, <2>3, <2>4, SeqEqual
  <2>6. QED BY <2>5 DEF t
<1>15. QED BY <1>7, <1>13, <1>14

-----------------------------------------------------------------------------
(* The skills of a behaviour *)

\* A behaviour's arguments never change, and its result is what its skill returns.
ArgumentsHold ==
  /\ job.skill = "prime" => job.n \in 0..Largest
  /\ job.skill = "mod10" => job.d \in Payloads
  /\ job.skill = "issn" => job.d \in SerialParts
  /\ job.skill = "bytes" => job.d \in Seq(0..(ByteSize - 1))
  /\ job.skill = "cron" => job.from \in Nat

AnswersHold ==
  ran =>
    /\ job.skill = "prime" =>
         result = [is |-> IsPrime(job.n), factors |-> IF job.n < 2 THEN <<>> ELSE PrimeFactors(job.n)]
    /\ job.skill = "mod10" => result = CheckDigit(job.d)
    /\ job.skill = "issn" => result = IssnDigit(job.d)
    /\ job.skill = "bytes" => result = Encode(job.d)
    /\ job.skill = "cron" => result = NextFire(job.from, job.days, job.hours, job.minutes)

SkillInv == ArgumentsHold /\ AnswersHold

LEMMA RowIsSeq ==
  ASSUME NEW S, NEW k \in Nat, NEW d \in [1..k -> S]
  PROVE  d \in Seq(S)
OBVIOUS

LEMMA SkillsStart ==
  ASSUME SkillInit
  PROVE  SkillInv
<1>1. AnswersHold
  BY DEF SkillInit, AnswersHold
<1>2. ArgumentsHold
  <2>1. CASE \E s \in Words, t \in Words, k \in {"text", "edit"} : job = [skill |-> k, s |-> s, t |-> t]
    BY <2>1 DEF ArgumentsHold
  <2>2. CASE \E p \in Patterns, s \in Names : job = [skill |-> "wildcard", p |-> p, s |-> s]
    BY <2>2 DEF ArgumentsHold
  <2>3. CASE \E n \in UNION {[1..k -> Numbers] : k \in 2..3} : job = [skill |-> "divisors", n |-> n]
    BY <2>3 DEF ArgumentsHold
  <2>4. CASE \E n \in 0..Largest : job = [skill |-> "prime", n |-> n]
    BY <2>4 DEF ArgumentsHold
  <2>5. CASE \E d \in Payloads : job = [skill |-> "mod10", d |-> d]
    BY <2>5 DEF ArgumentsHold
  <2>6. CASE \E d \in SerialParts : job = [skill |-> "issn", d |-> d]
    BY <2>6 DEF ArgumentsHold
  <2>7. CASE \E d \in UNION {[1..k -> 0..(ByteSize - 1)] : k \in 0..MaxBytes} :
               job = [skill |-> "bytes", d |-> d]
    <3>1. PICK d \in UNION {[1..k -> 0..(ByteSize - 1)] : k \in 0..MaxBytes} :
            job = [skill |-> "bytes", d |-> d]
      BY <2>7
    <3>2. d \in Seq(0..(ByteSize - 1))
      <4>1. PICK k \in 0..MaxBytes : d \in [1..k -> 0..(ByteSize - 1)]
        OBVIOUS
      <4>2. k \in Nat
        BY SkillsAssumption
      <4>3. QED BY ONLY <4>1, <4>2, RowIsSeq
    <3>3. job.skill = "bytes" /\ job.d = d
      BY <3>1
    <3>4. QED BY <3>2, <3>3 DEF ArgumentsHold
  <2>8. CASE \E b \in SUBSET Blocks : Cardinality(b) \in 1..MaxBlocks /\ job = [skill |-> "merge", b |-> b]
    BY <2>8 DEF ArgumentsHold
  <2>9. CASE \E from \in 0..(DayLength - 1), days \in SUBSET (0..Horizon),
                hours \in SUBSET (0..(DayHours - 1)), minutes \in SUBSET (0..(HourMinutes - 1)) :
               job = [skill |-> "cron", from |-> from, days |-> days, hours |-> hours, minutes |-> minutes]
    <3>1. job.skill = "cron" /\ job.from \in 0..(DayLength - 1)
      BY <2>9
    <3>2. job.from \in Nat
      BY <3>1, Lengths
    <3>3. QED BY <3>1, <3>2 DEF ArgumentsHold
  <2>10. QED BY <2>1, <2>2, <2>3, <2>4, <2>5, <2>6, <2>7, <2>8, <2>9 DEF SkillInit
<1>3. QED BY <1>1, <1>2 DEF SkillInv

LEMMA SkillsStep ==
  ASSUME SkillInv, [SkillNext]_skillVars
  PROVE  SkillInv'
<1>1. CASE UNCHANGED skillVars
  BY <1>1 DEF SkillInv, ArgumentsHold, AnswersHold, skillVars
<1>2. CASE SkillNext
  <2>1. job' = job
    BY <1>2 DEF SkillNext, Run
  <2>2. ArgumentsHold'
    BY <2>1 DEF SkillInv, ArgumentsHold
  <2>3. job.skill = "prime" =>
          result' = [is |-> IsPrime(job.n), factors |-> IF job.n < 2 THEN <<>> ELSE PrimeFactors(job.n)]
    BY <1>2 DEF SkillNext, Run
  <2>4. job.skill = "mod10" => result' = CheckDigit(job.d)
    BY <1>2 DEF SkillNext, Run
  <2>5. job.skill = "issn" => result' = IssnDigit(job.d)
    BY <1>2 DEF SkillNext, Run
  <2>6. job.skill = "bytes" => result' = Encode(job.d)
    BY <1>2 DEF SkillNext, Run
  <2>7. job.skill = "cron" => result' = NextFire(job.from, job.days, job.hours, job.minutes)
    BY <1>2 DEF SkillNext, Run
  <2>8. AnswersHold'
    BY <2>1, <2>3, <2>4, <2>5, <2>6, <2>7 DEF AnswersHold
  <2>9. QED BY <2>2, <2>8 DEF SkillInv
<1>3. QED BY <1>1, <1>2

LEMMA PrimesResult ==
  ASSUME NEW n \in Nat,
         result = [is |-> IsPrime(n), factors |-> IF n < 2 THEN <<>> ELSE PrimeFactors(n)]
  PROVE  PrimesAreRight(n)
<1>1. result.is = Prime(n)
  BY IsPrimeIsRight
<1>2. CASE n < 2
  <2>1. result.factors = <<>> /\ DOMAIN <<>> = {} /\ Len(<<>>) = 0 /\ ~(n > 1)
    BY <1>2
  <2>2. QED BY <1>1, <2>1 DEF PrimesAreRight
<1>3. CASE ~(n < 2)
  <2> DEFINE s == PrimeFactors(n)
  <2>1. Factored(s, n, 2)
    <3>1. n \in Nat \ {0}
      BY <1>3
    <3>2. QED BY <3>1, PrimeFactorsAreRight
  <2>2. result.factors = s
    BY <1>3
  <2> HIDE DEF s
  <2>3. s \in Seq(Nat) /\ DOMAIN s = 1..Len(s)
    BY <2>1 DEF Factored
  <2>4. QED BY <1>1, <2>1, <2>2, <2>3 DEF PrimesAreRight, Factored
<1>4. QED BY <1>2, <1>3

\* The skills whose algorithm is a loop over a number or its digits.
LoopSkills == {"prime", "mod10", "issn", "bytes", "cron"}

LEMMA AnswersAreRight ==
  ASSUME SkillInv, job.skill \in LoopSkills
  PROVE  SkillsMeetTheirDefinition
<1> SUFFICES ASSUME ran  PROVE SkillsMeetTheirDefinition
  BY DEF SkillsMeetTheirDefinition
<1>1. CASE job.skill = "prime"
  <2>1. job.n \in 0..Largest /\ 0..Largest \subseteq Nat
    BY <1>1, SkillsAssumption DEF SkillInv, ArgumentsHold
  <2>2. result = [is |-> IsPrime(job.n), factors |-> IF job.n < 2 THEN <<>> ELSE PrimeFactors(job.n)]
    BY <1>1 DEF SkillInv, AnswersHold
  <2>3. PrimesAreRight(job.n)
    BY <2>1, <2>2, PrimesResult
  <2>4. QED BY <1>1, <2>3 DEF SkillsMeetTheirDefinition
<1>2. CASE job.skill = "mod10"
  <2>1. job.d \in Seq(0..9) /\ result = CheckDigit(job.d)
    BY <1>2, SkillsAssumption DEF SkillInv, ArgumentsHold, AnswersHold
  <2>2. Mod10Catches(job.d)
    BY <2>1, Mod10IsRight
  <2>3. QED BY <1>2, <2>2 DEF SkillsMeetTheirDefinition
<1>3. CASE job.skill = "issn"
  <2>1. job.d \in [1..7 -> 0..9] /\ result = IssnDigit(job.d)
    BY <1>3, SkillsAssumption DEF SkillInv, ArgumentsHold, AnswersHold
  <2>2. IssnCatches(job.d)
    BY <2>1, IssnIsRight
  <2>3. QED BY <1>3, <2>2 DEF SkillsMeetTheirDefinition
<1>4. CASE job.skill = "bytes"
  <2>1. job.d \in Seq(0..(ByteSize - 1)) /\ result = Encode(job.d)
    BY <1>4 DEF SkillInv, ArgumentsHold, AnswersHold
  <2>2. Decode(result) = job.d
    BY <2>1, EncodingIsRight
  <2>3. QED BY <1>4, <2>2 DEF SkillsMeetTheirDefinition
<1>5. CASE job.skill = "cron"
  <2>1. job.from \in Nat /\ result = NextFire(job.from, job.days, job.hours, job.minutes)
    BY <1>5 DEF SkillInv, ArgumentsHold, AnswersHold
  <2>2. FireIsRight(job.from, job.days, job.hours, job.minutes)
    BY <2>1, NextFireIsRight
  <2>3. QED BY <1>5, <2>2 DEF SkillsMeetTheirDefinition
<1>6. QED BY <1>1, <1>2, <1>3, <1>4, <1>5 DEF LoopSkills

(* The primality test and the prime factors (math_extended.go), the two      *)
(* check digits (barcodes.go), the encoding (encoding_extended.go) and, but  *)
(* for the minutes it is known to pass over, the search for the next fire    *)
(* time (cron.go) return what their names promise, whatever the numbers, the *)
(* digits, the alphabets and the lengths of hours, days and horizon.         *)
THEOREM SkillsKeepTheirPromise ==
  SkillSpec => [](job.skill \in LoopSkills => SkillsMeetTheirDefinition)
<1>1. SkillInit => SkillInv
  BY SkillsStart
<1>2. SkillInv /\ [SkillNext]_skillVars => SkillInv'
  BY SkillsStep
<1>3. SkillInv => (job.skill \in LoopSkills => SkillsMeetTheirDefinition)
  BY AnswersAreRight
<1>4. QED BY <1>1, <1>2, <1>3, PTL DEF SkillSpec

=============================================================================
