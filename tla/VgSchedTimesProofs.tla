------------------------- MODULE VgSchedTimesProofs -------------------------
(***************************************************************************)
(* Proofs about the calendar arithmetic of scheduleupdate: what the search *)
(* for the next time returns, for every calendar, schedule and clock.      *)
(*                                                                         *)
(* MonthStart and the search are recursive functions. That a function with *)
(* their equations exists is shown here, by a least counterexample, before *)
(* anything is said of their values.                                       *)
(***************************************************************************)
EXTENDS VgSchedTimes, FiniteSetTheorems, WellFoundedInduction, TLAPS

---------------------------------------------------------------------------
(* Arithmetic *)

\* A set of naturals that is not empty has a least element.
LEMMA MinIs ==
  ASSUME NEW S \in SUBSET Nat, S # {}
  PROVE  Min(S) \in S /\ \A n \in S : Min(S) <= n
<1> DEFINE Segments == {0..n : n \in S}
<1>1. IsWellFoundedOn(StrictSubsetOrdering(Nat), FiniteSubsetsOf(Nat))
  BY FS_StrictSubsetOrderingWellFounded
<1>2. Segments \subseteq FiniteSubsetsOf(Nat) /\ Segments # {}
  <2>1. ASSUME NEW n \in S PROVE 0..n \in FiniteSubsetsOf(Nat)
    <3>1. IsFiniteSet(0..n) /\ 0..n \subseteq Nat
      BY FS_Interval
    <3> QED
      BY <3>1 DEF FiniteSubsetsOf
  <2> QED
    BY <2>1, Zenon
<1>3. PICK T \in Segments :
        \A U \in Segments : ~ (<<U, T>> \in StrictSubsetOrdering(Nat))
  <2> HIDE DEF Segments
  <2> QED
    BY <1>1, <1>2, WFMin, Zenon
<1>4. PICK n \in S : T = 0..n
  OBVIOUS
<1>5. \A m \in S : n <= m
  <2> SUFFICES ASSUME NEW m \in S, m < n PROVE FALSE
    OBVIOUS
  <2>1. 0..m \subseteq 0..n /\ n \in 0..n /\ n \notin 0..m
    OBVIOUS
  <2>2. <<0..m, 0..n>> \in StrictSubsetOrdering(Nat)
    BY <2>1 DEF StrictSubsetOrdering
  <2> QED
    BY <1>3, <1>4, <2>2
<1> QED
  BY <1>5 DEF Min

\* A sum of differences, and a product with a bound.
LEMMA MulMono ==
  ASSUME NEW a \in Int, NEW c \in Int, NEW b \in Nat, a <= c
  PROVE  a * b <= c * b
OBVIOUS

LEMMA DivMod ==
  ASSUME NEW a \in Int, NEW b \in Nat \ {0}
  PROVE  a \div b \in Int /\ a % b \in 0..b - 1 /\ a = b * (a \div b) + (a % b)
OBVIOUS

\* The times "from + k * ival" are those whose distance from "from" ival divides.
LEMMA OnGrid ==
  ASSUME NEW from \in Int, NEW ival \in Nat \ {0}, NEW n \in Int
  PROVE  (n - from) % ival = 0 <=> \E k \in Int : n = from + k * ival
<1>1. ASSUME (n - from) % ival = 0 PROVE \E k \in Int : n = from + k * ival
  <2> DEFINE k == (n - from) \div ival
  <2>1. k \in Int /\ n - from = ival * k + 0
    BY <1>1, DivMod
  <2>2. n = from + k * ival
    <3> HIDE DEF k
    <3> QED
      BY <2>1
  <2> QED
    BY <2>1, <2>2
<1>2. ASSUME NEW k \in Int, n = from + k * ival PROVE (n - from) % ival = 0
  <2>1. n - from = ival * k
    BY <1>2
  <2>2. (ival * k) % ival = 0
    OBVIOUS
  <2> QED
    BY <2>1, <2>2
<1> QED
  BY <1>1, <1>2

\* A step of the grid that passes the last one: between two neighbours lies no
\* third.
LEMMA NoneBetween ==
  ASSUME NEW from \in Int, NEW ival \in Nat \ {0}, NEW k \in Int, NEW j \in Int,
         from + k * ival > from + (j - 1) * ival
  PROVE  from + k * ival >= from + j * ival
<1>1. k > j - 1
  <2> SUFFICES ASSUME k <= j - 1 PROVE FALSE
    OBVIOUS
  <2>1. k * ival <= (j - 1) * ival
    BY MulMono
  <2>2. k * ival \in Int /\ (j - 1) * ival \in Int
    OBVIOUS
  <2> QED
    BY <2>1, <2>2
<1>2. j * ival <= k * ival
  BY <1>1, MulMono
<1>3. k * ival \in Int /\ j * ival \in Int
  OBVIOUS
<1> QED
  BY <1>2, <1>3

\* The loop of scheduleupdate that looks for the first time (its division rounded
\* up, its steps of ival while the time was used) finds it: a time of the grid,
\* neither past nor used, and no earlier one is.
LEMMA FirstFromIs ==
  ASSUME NEW from \in Int, NEW ival \in Nat \ {0}, NEW t \in Int, NEW nt \in Int
  PROVE  LET n == FirstFrom(from, ival, t, nt) IN
         /\ n \in Int /\ n >= from /\ n >= t /\ n > nt /\ (n - from) % ival = 0
         /\ \A m \in Int : m >= from /\ m >= t /\ m > nt /\ (m - from) % ival = 0 => m >= n
<1> DEFINE up == (t - from + ival - 1) \div ival
           k0 == IF t <= from THEN 0 ELSE up
           base == from + k0 * ival
<1>1. /\ k0 \in Nat /\ base >= from /\ base >= t
      /\ k0 # 0 => from + (k0 - 1) * ival < t
  <2>1. CASE t <= from
    BY <2>1
  <2>2. CASE ~ t <= from
    <3> DEFINE a == t - from + ival - 1
               r == a % ival
    <3>1. a \in Int /\ a >= ival /\ up \in Int /\ r \in 0..ival - 1 /\ a = ival * up + r
      <4>1. a \in Int /\ a >= ival
        BY <2>2
      <4>2. up = a \div ival
        OBVIOUS
      <4> HIDE DEF a, up
      <4> QED
        BY <4>1, <4>2, DivMod
    <3>2. up >= 1
      <4> HIDE DEF a, r, up
      <4> SUFFICES ASSUME up <= 0 PROVE FALSE
        BY <3>1
      <4>1. up * ival <= 0 * ival
        BY <3>1, MulMono
      <4> QED
        BY <3>1, <4>1
    <3>3. up * ival \in Int /\ up * ival + r = t - from + ival - 1
      <4>1. a = t - from + ival - 1
        OBVIOUS
      <4> HIDE DEF a, r, up
      <4> QED
        BY <3>1, <4>1
    <3>4. (up - 1) * ival = up * ival - ival
      <4> HIDE DEF a, r, up
      <4> QED
        BY <3>1
    <3>5. k0 = up
      BY <2>2
    <3> HIDE DEF a, r, up, k0
    <3> QED
      BY <2>2, <3>1, <3>2, <3>3, <3>4, <3>5
  <2> QED
    BY <2>1, <2>2
<1>2. /\ base = IF t <= from THEN from ELSE from + up * ival
      /\ base \in Int
  BY <1>1
<1>3. ASSUME NEW m \in Int, m >= from, m >= t, (m - from) % ival = 0
      PROVE  m >= base /\ \E k \in Int : m = base + k * ival
  <2>1. PICK k \in Int : m = from + k * ival
    BY <1>3, OnGrid
  <2> HIDE DEF k0, up
  <2>2. m >= base
    <3>1. CASE k0 = 0
      BY <1>3, <3>1
    <3>2. CASE k0 # 0
      <4>1. from + k * ival > from + (k0 - 1) * ival
        <5>1. k * ival \in Int /\ (k0 - 1) * ival \in Int
          BY <1>1
        <5>2. from + (k0 - 1) * ival < t
          BY <1>1, <3>2
        <5> QED
          BY <1>3, <2>1, <5>1, <5>2
      <4> QED
        BY <1>1, <2>1, <4>1, NoneBetween
    <3> QED
      BY <3>1, <3>2
  <2>3. m = base + (k - k0) * ival
    BY <1>1, <2>1
  <2> QED
    BY <1>1, <2>2, <2>3
<1> DEFINE j == IF base > nt THEN 0 ELSE (nt - base) \div ival + 1
           n == base + j * ival
<1>4. /\ j \in Nat /\ n > nt /\ n \in Int /\ n >= base
      /\ j # 0 => base + (j - 1) * ival <= nt
  <2>1. CASE base > nt
    BY <1>2, <2>1
  <2>2. CASE ~ base > nt
    <3> HIDE DEF base
    <3> DEFINE a == nt - base
               q == a \div ival
               r == a % ival
    <3>1. a \in Nat /\ q \in Int /\ r \in 0..ival - 1 /\ a = ival * q + r
      <4>1. a \in Nat
        BY <1>2, <2>2
      <4> HIDE DEF a
      <4> QED
        BY <4>1, DivMod
    <3>2. q >= 0
      <4> HIDE DEF a, q, r
      <4> SUFFICES ASSUME q <= -1 PROVE FALSE
        BY <3>1
      <4>1. q * ival <= (-1) * ival
        BY <3>1, MulMono
      <4> QED
        BY <3>1, <4>1
    <3>3. j = q + 1 /\ nt = base + a
      BY <1>2, <2>2
    <3>4. (q + 1) * ival = q * ival + ival /\ q * ival \in Int /\ ival * q = q * ival
      <4> HIDE DEF a, q, r
      <4> QED
        BY <3>1
    <3> HIDE DEF a, q, r, j
    <3>5. j - 1 = q
      BY <3>1, <3>3
    <3> QED
      BY <1>2, <3>1, <3>2, <3>3, <3>4, <3>5
  <2> QED
    BY <2>1, <2>2
<1>5. n = FirstFrom(from, ival, t, nt)
  <2>1. FirstFrom(from, ival, t, nt) =
          IF base > nt THEN base ELSE base + ((nt - base) \div ival + 1) * ival
    BY <1>2, Zenon DEF FirstFrom
  <2> HIDE DEF base
  <2>2. CASE base > nt
    BY <1>2, <2>1, <2>2
  <2>3. CASE ~ base > nt
    BY <2>1, <2>3
  <2> QED
    BY <2>2, <2>3
<1> HIDE DEF up
<1>6. (n - from) % ival = 0
  <2>1. n = from + (k0 + j) * ival
    <3>1. j \in Nat /\ k0 \in Nat
      BY <1>1, <1>4
    <3> HIDE DEF j, k0
    <3> QED
      BY <3>1
  <2>2. n \in Int /\ k0 + j \in Int
    BY <1>1, <1>4
  <2> HIDE DEF n, j, k0
  <2> QED
    BY <2>1, <2>2, OnGrid
<1>7. ASSUME NEW m \in Int, m >= from, m >= t, m > nt, (m - from) % ival = 0
      PROVE  m >= n
  <2>1. m >= base /\ \E k \in Int : m = base + k * ival
    BY <1>3, <1>7
  <2>2. PICK k \in Int : m = base + k * ival
    BY <2>1
  <2> HIDE DEF base, k0
  <2>3. CASE j = 0
    BY <1>2, <2>1, <2>3
  <2>4. CASE j # 0
    <3>1. base + (j - 1) * ival <= nt /\ j \in Nat
      BY <1>4, <2>4
    <3> HIDE DEF j
    <3>2. base + k * ival > base + (j - 1) * ival
      <4>1. k * ival \in Int /\ (j - 1) * ival \in Int
        BY <3>1
      <4> QED
        BY <1>2, <1>7, <2>2, <3>1, <4>1
    <3> QED
      BY <1>2, <2>2, <3>1, <3>2, NoneBetween
  <2> QED
    BY <2>3, <2>4
<1>8. n >= from /\ n >= t
  <2> HIDE DEF n, j, base
  <2> QED
    BY <1>1, <1>2, <1>4
<1> HIDE DEF n, j, base, k0
<1> QED
  BY <1>4, <1>5, <1>6, <1>7, <1>8

\* Days and times of day.
LEMMA DayIs ==
  ASSUME NEW t \in Nat
  PROVE  DayOf(t) \in Nat /\ DayOf(t) * Day <= t /\ t < DayOf(t) * Day + Day
<1>1. Day \in Nat \ {0}
  BY CalendarAssumption
<1> DEFINE d == t \div Day
           r == t % Day
<1>2. d \in Int /\ r \in 0..Day - 1 /\ t = Day * d + r
  BY <1>1, DivMod
<1>3. d * Day = Day * d /\ Day * d \in Int
  <2> HIDE DEF d, r
  <2> QED
    BY <1>1, <1>2
<1>4. d >= 0
  <2> HIDE DEF r
  <2> SUFFICES ASSUME d <= -1 PROVE FALSE
    BY <1>2
  <2> HIDE DEF d
  <2>1. d * Day <= (-1) * Day
    BY <1>1, <1>2, MulMono
  <2> QED
    BY <1>1, <1>2, <1>3, <2>1
<1>5. DayOf(t) = d
  BY DEF DayOf
<1> HIDE DEF d, r
<1> QED
  BY <1>1, <1>2, <1>3, <1>4, <1>5

\* A later day begins when the earlier one has ended.
LEMMA LaterDay ==
  ASSUME NEW a \in Nat, NEW b \in Nat, a < b
  PROVE  /\ a * Day + Day <= b * Day /\ a * Day \in Nat /\ b * Day \in Nat
<1>1. Day \in Nat \ {0}
  BY CalendarAssumption
<1>2. (a + 1) * Day <= b * Day
  BY <1>1, MulMono
<1>3. (a + 1) * Day = a * Day + Day
  BY <1>1
<1> QED
  BY <1>1, <1>2, <1>3

LEMMA DayOfIs ==
  ASSUME NEW d \in Nat, NEW t \in Nat, d * Day <= t, t < d * Day + Day
  PROVE  DayOf(t) = d
<1> DEFINE c == DayOf(t)
<1>1. Day \in Nat \ {0} /\ c \in Nat /\ c * Day <= t /\ t < c * Day + Day
  BY CalendarAssumption, DayIs
<1> HIDE DEF c
<1>2. c * Day \in Int /\ d * Day \in Int
  BY <1>1
<1>3. ASSUME c < d PROVE FALSE
  BY <1>1, <1>2, <1>3, LaterDay
<1>4. ASSUME d < c PROVE FALSE
  BY <1>1, <1>2, <1>4, LaterDay
<1>5. c = d
  BY <1>1, <1>3, <1>4
<1> QED
  BY <1>5 DEF c

---------------------------------------------------------------------------
(* The calendar *)

\* the first n month starts, of a calendar f
StartsTo(f, n) == f = [m \in 1..n |-> IF m = 1 THEN 0 ELSE f[m - 1] + MonthLens[m - 1]]

\* The recursive definition of the month starts has a solution.
LEMMA StartsExist == \E f : StartsTo(f, Len(MonthLens) + 1)
<1> DEFINE N == Len(MonthLens)
           Bad == {n \in 0..N + 1 : ~ \E f : StartsTo(f, n)}
<1>0. N \in Nat
  BY CalendarAssumption
<1>1. SUFFICES ASSUME Bad # {} PROVE FALSE
  <2>1. N + 1 \in 0..N + 1
    BY <1>0
  <2>2. N + 1 \notin Bad => \E f : StartsTo(f, N + 1)
    BY <2>1, Zenon
  <2> QED
    BY <2>2, Zenon
<1>2. PICK n \in Bad : \A k \in Bad : n <= k
  <2>1. Bad \in SUBSET Nat
    BY <1>0
  <2> HIDE DEF Bad
  <2> QED
    BY <1>1, <2>1, MinIs
<1>3. CASE n = 0
  <2> DEFINE f == [m \in 1..0 |-> 0]
  <2>1. StartsTo(f, 0)
    BY DEF StartsTo
  <2> QED
    BY <1>2, <1>3, <2>1
<1>4. CASE n # 0
  <2>1. n - 1 \in 0..N + 1 /\ n - 1 \notin Bad /\ n \in Nat
    BY <1>0, <1>2, <1>4
  <2>2. PICK f : StartsTo(f, n - 1)
    BY <2>1
  <2> DEFINE h == [m \in 1..n |-> IF m = n THEN (IF m = 1 THEN 0 ELSE f[m - 1] + MonthLens[m - 1])
                                  ELSE f[m]]
  <2>3. ASSUME NEW m \in 1..n
        PROVE  h[m] = IF m = 1 THEN 0 ELSE h[m - 1] + MonthLens[m - 1]
    <3>1. m # 1 => m - 1 \in 1..n - 1 /\ h[m - 1] = f[m - 1]
      BY <2>1
    <3>2. CASE m = n
      BY <3>1, <3>2
    <3>3. CASE m # n
      <4>1. m \in 1..n - 1
        BY <2>1, <3>3
      <4>2. f[m] = IF m = 1 THEN 0 ELSE f[m - 1] + MonthLens[m - 1]
        BY <2>2, <4>1 DEF StartsTo
      <4>3. h[m] = f[m]
        BY <3>3
      <4> QED
        BY <3>1, <4>2, <4>3
    <3> QED
      BY <3>2, <3>3
  <2>4. StartsTo(h, n)
    <3>1. h = [m \in 1..n |-> h[m]]
      OBVIOUS
    <3> HIDE DEF h
    <3> QED
      BY <2>3, <3>1 DEF StartsTo
  <2> HIDE DEF h
  <2> QED
    BY <1>2, <2>4
<1> QED
  BY <1>3, <1>4

LEMMA MonthStartIs ==
  \A m \in 1..Len(MonthLens) + 1 :
    MonthStart[m] = IF m = 1 THEN 0 ELSE MonthStart[m - 1] + MonthLens[m - 1]
<1> DEFINE h == CHOOSE h : StartsTo(h, Len(MonthLens) + 1)
<1>1. StartsTo(h, Len(MonthLens) + 1)
  BY StartsExist
<1>2. MonthStart = h
  BY Zenon DEF MonthStart, StartsTo
<1> HIDE DEF h
<1> QED
  BY <1>1, <1>2 DEF StartsTo

LEMMA MonthStartType ==
  \A m \in 1..Len(MonthLens) + 1 : MonthStart[m] \in Nat
<1> DEFINE N == Len(MonthLens)
           Bad == {m \in 1..N + 1 : ~ MonthStart[m] \in Nat}
<1>0. N \in Nat /\ \A m \in 1..N : MonthLens[m] \in Nat \ {0}
  BY CalendarAssumption
<1>1. SUFFICES ASSUME Bad # {} PROVE FALSE
  BY <1>0
<1>2. PICK n \in Bad : \A k \in Bad : n <= k
  <2>1. Bad \in SUBSET Nat
    BY <1>0
  <2> HIDE DEF Bad
  <2> QED
    BY <1>1, <2>1, MinIs
<1>3. CASE n = 1
  BY <1>0, <1>2, <1>3, MonthStartIs
<1>4. CASE n # 1
  <2>1. n - 1 \in 1..N /\ n - 1 \in 1..N + 1 /\ n - 1 \notin Bad
    BY <1>0, <1>2, <1>4
  <2>2. MonthStart[n - 1] \in Nat
    BY <2>1
  <2> QED
    BY <1>0, <1>2, <1>4, <2>1, <2>2, MonthStartIs
<1> QED
  BY <1>3, <1>4

\* Every day the calendar reaches is in one of its months.
LEMMA MonthIs ==
  ASSUME NEW d \in Nat, d < MonthStart[Len(MonthLens) + 1]
  PROVE  /\ Month(d) \in 1..Len(MonthLens)
         /\ MonthStart[Month(d)] <= d /\ d < MonthStart[Month(d) + 1]
<1> DEFINE N == Len(MonthLens)
           After == {m \in 1..N + 1 : d < MonthStart[m]}
<1>0. N \in Nat /\ DOMAIN MonthLens = 1..N
  BY CalendarAssumption
<1>1. PICK n \in After : \A k \in After : n <= k
  <2>1. After \in SUBSET Nat /\ N + 1 \in After
    BY <1>0
  <2> HIDE DEF After
  <2> QED
    BY <2>1, MinIs
<1>2. n # 1
  BY <1>0, <1>1, MonthStartIs
<1>3. n - 1 \in 1..N /\ n - 1 \notin After /\ n = (n - 1) + 1 /\ n - 1 \in 1..N + 1
  BY <1>0, <1>1, <1>2
<1>4. MonthStart[n - 1] <= d /\ d < MonthStart[(n - 1) + 1]
  BY <1>0, <1>1, <1>3, MonthStartType
<1> QED
  BY <1>0, <1>3, <1>4 DEF Month

\* So the search goes forward, in steps of a day, a week or a month.
LEMMA FollowingIs ==
  ASSUME NEW x \in Specs, x.mode # "once", NEW d \in Nat, d < x.eday
  PROVE  Following(x, d) \in Nat /\ Following(x, d) > d
<1>1. x.mode \in {"daily", "weekly", "monthly"} /\ Week \in Nat \ {0} /\ x.eday \in Nat
  BY SpecsAssumption, CalendarAssumption DEF Modes
<1>2. CASE x.mode = "daily"
  BY <1>2 DEF Following
<1>3. CASE x.mode = "weekly"
  BY <1>1, <1>3 DEF Following
<1>4. CASE x.mode = "monthly"
  <2> DEFINE N == Len(MonthLens)
             m == Month(d)
  <2>1. N \in Nat /\ \A i \in 1..N : MonthLens[i] \in Nat \ {0}
    BY CalendarAssumption
  <2>2. MonthStart[N + 1] \in Nat
    BY <2>1, MonthStartType
  <2>3. d < MonthStart[N + 1]
    BY <1>1, <1>4, <2>2, CalendarCovers
  <2>4. m \in 1..N
    BY <2>3, MonthIs
  <2>5. MonthStart[m] \in Nat /\ MonthStart[m + 1] \in Nat /\ MonthLens[m] \in Nat \ {0}
    BY <2>1, <2>4, MonthStartType
  <2>6. MonthStart[m + 1] = MonthStart[m] + MonthLens[m]
    <3>1. m + 1 \in 1..N + 1 /\ m + 1 # 1 /\ (m + 1) - 1 = m
      BY <2>1, <2>4
    <3> QED
      BY <3>1, MonthStartIs
  <2>7. Following(x, d) = MonthStart[m + 1] + (d - MonthStart[m])
    BY <1>4 DEF Following, MonthLater, MonthDay
  <2> QED
    BY <2>5, <2>6, <2>7
<1> QED
  BY <1>1, <1>2, <1>3, <1>4

---------------------------------------------------------------------------
(* The search *)

\* the times found from day a on, by a search f
FoundFrom(f, a, x, t, nt) ==
  f = [d \in a..x.eday |->
         IF d >= x.eday THEN NoTime
         ELSE IF Accepted(x, d, TimeOn(x, t, nt, d)) THEN TimeOn(x, t, nt, d)
         ELSE IF Following(x, d) >= x.eday THEN NoTime
         ELSE f[Following(x, d)]]

\* The recursive definition of the search has a solution: it only goes forward.
LEMMA FoundExists ==
  ASSUME NEW x \in Specs, x.mode # "once", NEW t \in Nat, NEW nt, DayOf(t) < x.eday
  PROVE  \E f : FoundFrom(f, DayOf(t), x, t, nt)
<1> DEFINE Len0 == x.eday - DayOf(t)
           Bad == {k \in 0..Len0 : ~ \E f : FoundFrom(f, x.eday - k, x, t, nt)}
<1>0. x.eday \in Nat /\ DayOf(t) \in Nat /\ Len0 \in Nat /\ x.eday - Len0 = DayOf(t)
  BY SpecsAssumption, DayIs
<1>1. SUFFICES ASSUME Bad # {} PROVE FALSE
  <2>1. Len0 \in 0..Len0
    BY <1>0
  <2>2. Len0 \notin Bad => \E f : FoundFrom(f, x.eday - Len0, x, t, nt)
    BY <2>1, Zenon
  <2> HIDE DEF Bad, Len0
  <2> QED
    BY <1>0, <2>2
<1> HIDE DEF Len0
<1>2. PICK n \in Bad : \A k \in Bad : n <= k
  <2>1. Bad \in SUBSET Nat
    BY <1>0
  <2> HIDE DEF Bad
  <2> QED
    BY <1>1, <2>1, MinIs
<1> DEFINE a == x.eday - n
<1>3. n \in 0..Len0 /\ a \in Nat /\ a <= x.eday /\ a >= DayOf(t)
      /\ ~ \E f : FoundFrom(f, a, x, t, nt)
  BY <1>0, <1>2
<1>4. CASE n = 0
  <2> DEFINE f == [d \in a..x.eday |-> NoTime]
  <2>1. \A d \in a..x.eday : d >= x.eday
    BY <1>0, <1>4
  <2>2. f = [d \in a..x.eday |->
               IF d >= x.eday THEN NoTime
               ELSE IF Accepted(x, d, TimeOn(x, t, nt, d)) THEN TimeOn(x, t, nt, d)
               ELSE IF Following(x, d) >= x.eday THEN NoTime
               ELSE f[Following(x, d)]]
    BY <2>1
  <2> HIDE DEF f
  <2> QED
    BY <1>3, <2>2, Zenon DEF FoundFrom
<1>5. CASE n # 0
  <2>1. n - 1 \in 0..Len0 /\ n - 1 \notin Bad /\ a < x.eday
    BY <1>0, <1>2, <1>3, <1>5
  <2>2. PICK f : FoundFrom(f, a + 1, x, t, nt)
    <3>1. a + 1 = x.eday - (n - 1)
      BY <1>0, <1>3
    <3> HIDE DEF a
    <3> QED
      BY <2>1, <3>1
  <2> HIDE DEF a
  <2> DEFINE h == [d \in a..x.eday |->
                     IF d = a THEN (IF Accepted(x, a, TimeOn(x, t, nt, a)) THEN TimeOn(x, t, nt, a)
                                    ELSE IF Following(x, a) >= x.eday THEN NoTime
                                    ELSE f[Following(x, a)])
                     ELSE f[d]]
  <2>3. ASSUME NEW d \in a..x.eday
        PROVE  h[d] = IF d >= x.eday THEN NoTime
                      ELSE IF Accepted(x, d, TimeOn(x, t, nt, d)) THEN TimeOn(x, t, nt, d)
                      ELSE IF Following(x, d) >= x.eday THEN NoTime
                      ELSE h[Following(x, d)]
    <3>1. d < x.eday => Following(x, d) \in Nat /\ Following(x, d) > d
      BY <1>0, <1>3, FollowingIs
    <3>2. d < x.eday /\ ~ Following(x, d) >= x.eday => h[Following(x, d)] = f[Following(x, d)]
      BY <1>0, <1>3, <3>1
    <3>3. CASE d = a
      <4>1. ~ d >= x.eday
        BY <1>0, <1>3, <2>1, <3>3
      <4>2. h[d] = IF Accepted(x, d, TimeOn(x, t, nt, d)) THEN TimeOn(x, t, nt, d)
                   ELSE IF Following(x, d) >= x.eday THEN NoTime
                   ELSE f[Following(x, d)]
        BY <3>3
      <4> HIDE DEF h
      <4> QED
        BY <1>0, <1>3, <2>1, <3>2, <3>3, <4>1, <4>2
    <3>4. CASE d # a
      <4>1. d \in a + 1..x.eday
        BY <1>0, <1>3, <3>4
      <4>2. f[d] = IF d >= x.eday THEN NoTime
                   ELSE IF Accepted(x, d, TimeOn(x, t, nt, d)) THEN TimeOn(x, t, nt, d)
                   ELSE IF Following(x, d) >= x.eday THEN NoTime
                   ELSE f[Following(x, d)]
        BY <2>2, <4>1, Zenon DEF FoundFrom
      <4>3. h[d] = f[d]
        BY <3>4
      <4>4. d < x.eday \/ d >= x.eday
        BY <1>0, <1>3
      <4> HIDE DEF h
      <4> QED
        BY <3>2, <4>2, <4>3, <4>4
    <3> QED
      BY <3>3, <3>4
  <2>4. FoundFrom(h, a, x, t, nt)
    <3>1. h = [d \in a..x.eday |-> h[d]]
      OBVIOUS
    <3> HIDE DEF h
    <3> QED
      BY <2>3, <3>1, Zenon DEF FoundFrom
  <2> HIDE DEF h
  <2> QED
    BY <1>3, <2>4 DEF a
<1> QED
  BY <1>4, <1>5

\* What a search from day a on found: nothing, or the time of a day that the
\* schedule accepts. A daily search passes over no such day.
SearchOk(r, a, x, t, nt) ==
  \/ /\ r = NoTime
     /\ x.mode = "daily" => \A d \in a..x.eday - 1 : ~ Accepted(x, d, TimeOn(x, t, nt, d))
  \/ \E d \in a..x.eday - 1 :
       /\ r = TimeOn(x, t, nt, d) /\ Accepted(x, d, r)
       /\ x.mode = "daily" => \A c \in a..d - 1 : ~ Accepted(x, c, TimeOn(x, t, nt, c))

LEMMA SearchIs ==
  ASSUME NEW x \in Specs, x.mode # "once", NEW t \in Nat, NEW nt, DayOf(t) < x.eday
  PROVE  SearchOk(SearchDays(x, t, nt), DayOf(t), x, t, nt)
<1> DEFINE h == CHOOSE h : FoundFrom(h, DayOf(t), x, t, nt)
           Len0 == x.eday - DayOf(t)
           Bad == {k \in 0..Len0 : ~ SearchOk(h[x.eday - k], x.eday - k, x, t, nt)}
<1>0. x.eday \in Nat /\ DayOf(t) \in Nat /\ Len0 \in Nat /\ x.eday - Len0 = DayOf(t)
  BY SpecsAssumption, DayIs
<1>1. FoundFrom(h, DayOf(t), x, t, nt)
  BY FoundExists
<1>2. SearchDays(x, t, nt) = IF DayOf(t) >= x.eday THEN NoTime ELSE h[DayOf(t)]
  BY Zenon DEF SearchDays, FoundFrom
<1> HIDE DEF h
<1>3. ASSUME NEW d \in DayOf(t)..x.eday
      PROVE  h[d] = IF d >= x.eday THEN NoTime
                    ELSE IF Accepted(x, d, TimeOn(x, t, nt, d)) THEN TimeOn(x, t, nt, d)
                    ELSE IF Following(x, d) >= x.eday THEN NoTime
                    ELSE h[Following(x, d)]
  BY <1>1, Zenon DEF FoundFrom
<1>4. SUFFICES ASSUME Bad # {} PROVE FALSE
  <2>1. Len0 \in 0..Len0
    BY <1>0
  <2>2. Len0 \notin Bad => SearchOk(h[x.eday - Len0], x.eday - Len0, x, t, nt)
    BY <2>1, Zenon
  <2> HIDE DEF Bad, Len0
  <2> QED
    BY <1>0, <1>2, <2>2
<1> HIDE DEF Len0
<1>5. PICK n \in Bad : \A k \in Bad : n <= k
  <2>1. Bad \in SUBSET Nat
    BY <1>0
  <2> HIDE DEF Bad
  <2> QED
    BY <1>4, <2>1, MinIs
<1> DEFINE a == x.eday - n
           Next1 == Following(x, a)
           m == x.eday - Next1
<1>6. n \in 0..Len0 /\ a \in Nat /\ a <= x.eday /\ a \in DayOf(t)..x.eday
      /\ ~ SearchOk(h[a], a, x, t, nt)
  BY <1>0, <1>5
<1> DEFINE Acc(d) == Accepted(x, d, TimeOn(x, t, nt, d))
<1>7. CASE a >= x.eday
  <2>1. h[a] = NoTime
    BY <1>3, <1>6, <1>7
  <2>2. \A d \in a..x.eday - 1 : FALSE
    BY <1>0, <1>6, <1>7
  <2> QED
    BY <1>6, <2>1, <2>2 DEF SearchOk
<1>8. CASE ~ a >= x.eday /\ Acc(a)
  <2>1. h[a] = TimeOn(x, t, nt, a)
    BY <1>3, <1>6, <1>8
  <2>2. a \in a..x.eday - 1 /\ \A c \in a..a - 1 : FALSE
    BY <1>0, <1>6, <1>8
  <2> HIDE DEF a
  <2> QED
    BY <1>6, <1>8, <2>1, <2>2 DEF SearchOk
<1>9. CASE ~ a >= x.eday /\ ~ Acc(a)
  <2>1. Next1 \in Nat /\ Next1 > a /\ (x.mode = "daily" => Next1 = a + 1)
    <3>1. a < x.eday
      BY <1>0, <1>6, <1>9
    <3>2. x.mode = "daily" => Next1 = a + 1
      BY DEF Following
    <3> HIDE DEF a
    <3> QED
      BY <1>6, <3>1, <3>2, FollowingIs
  <2>2. h[a] = IF Next1 >= x.eday THEN NoTime ELSE h[Next1]
    BY <1>3, <1>6, <1>9
  <2>3. CASE Next1 >= x.eday
    <3>1. x.mode = "daily" => \A d \in a..x.eday - 1 : d = a
      BY <1>0, <1>6, <2>1, <2>3
    <3> HIDE DEF a
    <3>2. x.mode = "daily" => \A d \in a..x.eday - 1 : ~ Acc(d)
      BY <1>9, <3>1, Zenon
    <3> QED
      BY <1>6, <2>2, <2>3, <3>2 DEF SearchOk
  <2>4. CASE ~ Next1 >= x.eday
    <3>1. m \in 0..Len0 /\ m < n /\ x.eday - m = Next1
      <4> HIDE DEF Next1
      <4> QED
        BY <1>0, <1>5, <1>6, <2>1, <2>4
    <3>2. SearchOk(h[Next1], Next1, x, t, nt)
      <4>1. m \notin Bad
        BY <1>0, <1>5, <3>1
      <4> HIDE DEF Next1
      <4>2. SearchOk(h[x.eday - m], x.eday - m, x, t, nt)
        <5> HIDE DEF m
        <5> QED
          BY <3>1, <4>1
      <4> HIDE DEF m
      <4> QED
        BY <3>1, <4>2
    <3>3. h[a] = h[Next1]
      BY <2>2, <2>4
    <3> HIDE DEF Next1, a, m
    <3>4. \A d \in Next1..x.eday - 1 : d \in a..x.eday - 1
      BY <1>0, <1>6, <2>1
    <3>6. x.mode = "daily" => \A d \in a..x.eday - 1 : d = a \/ d \in Next1..x.eday - 1
      BY <1>0, <1>6, <2>1
    <3>7. x.mode = "daily" => \A d \in Next1..x.eday - 1 : \A c \in a..d - 1 : c = a \/ c \in Next1..d - 1
      BY <1>0, <1>6, <2>1
    <3>8. CASE /\ h[Next1] = NoTime
               /\ x.mode = "daily" => \A d \in Next1..x.eday - 1 : ~ Acc(d)
      <4>1. x.mode = "daily" => \A d \in a..x.eday - 1 : ~ Acc(d)
        BY <1>9, <3>6, <3>8, Zenon
      <4> QED
        BY <1>6, <3>3, <3>8, <4>1, Zenon DEF SearchOk
    <3>9. CASE \E d \in Next1..x.eday - 1 :
                 /\ h[Next1] = TimeOn(x, t, nt, d) /\ Accepted(x, d, h[Next1])
                 /\ x.mode = "daily" => \A c \in Next1..d - 1 : ~ Acc(c)
      <4>1. PICK d \in Next1..x.eday - 1 :
                   /\ h[Next1] = TimeOn(x, t, nt, d) /\ Accepted(x, d, h[Next1])
                   /\ x.mode = "daily" => \A c \in Next1..d - 1 : ~ Acc(c)
        BY <3>9, Zenon
      <4>2. x.mode = "daily" => \A c \in a..d - 1 : ~ Acc(c)
        BY <1>9, <3>7, <4>1, Zenon
      <4>3. d \in a..x.eday - 1
        BY <3>4
      <4> QED
        BY <1>6, <3>3, <4>1, <4>2, <4>3, Zenon DEF SearchOk
    <3> QED
      BY <3>2, <3>8, <3>9, Zenon DEF SearchOk
  <2> QED
    BY <2>3, <2>4
<1> QED
  BY <1>7, <1>8, <1>9

\* The time tried on a day is the first of that day's grid that is neither past
\* nor used.
LEMMA TimeOnIs ==
  ASSUME NEW x \in Specs, NEW t \in Nat, NEW nt \in Nat, NEW d \in Nat, d >= DayOf(t)
  PROVE  LET n == TimeOn(x, t, nt, d) IN
         /\ n \in Nat /\ n >= d * Day + x.soff /\ n >= t /\ n > nt
         /\ (n - d * Day - x.soff) % x.ival = 0
         /\ \A m \in Int : /\ m >= d * Day + x.soff /\ m >= t /\ m > nt
                           /\ (m - d * Day - x.soff) % x.ival = 0
                           => m >= n
<1> DEFINE from == d * Day + x.soff
           floor == IF d = DayOf(t) THEN t ELSE d * Day
           n == TimeOn(x, t, nt, d)
<1>1. x.soff \in Nat /\ x.ival \in Nat \ {0} /\ Day \in Nat \ {0}
  BY SpecsAssumption, CalendarAssumption
<1>2. d * Day \in Nat /\ from \in Nat /\ from >= d * Day
  BY <1>1
<1>3. n = FirstFrom(from, x.ival, floor, nt)
  BY Zenon DEF TimeOn
<1>4. floor \in Nat /\ floor >= t /\ \A m \in Int : m >= from /\ m >= t => m >= floor
  <2>1. CASE d = DayOf(t)
    BY <2>1
  <2>2. CASE d # DayOf(t)
    <3>1. DayOf(t) \in Nat /\ t < DayOf(t) * Day + Day
      BY DayIs
    <3>2. DayOf(t) * Day + Day <= d * Day /\ DayOf(t) * Day \in Nat
      BY <2>2, <3>1, LaterDay
    <3>3. floor = d * Day
      BY <2>2
    <3> HIDE DEF floor, from
    <3> QED
      BY <1>1, <1>2, <3>1, <3>2, <3>3
  <2> QED
    BY <2>1, <2>2
<1>5. \A m \in Int : m - d * Day - x.soff = m - from
  BY <1>1, <1>2
<1> HIDE DEF from, floor
<1>6. /\ n \in Int /\ n >= from /\ n >= floor /\ n > nt /\ (n - from) % x.ival = 0
      /\ \A m \in Int : m >= from /\ m >= floor /\ m > nt /\ (m - from) % x.ival = 0 => m >= n
  <2>1. from \in Int /\ floor \in Int /\ nt \in Int
    BY <1>2, <1>4
  <2> HIDE DEF n
  <2> QED
    BY <1>1, <1>3, <2>1, FirstFromIs, Zenon
<1> HIDE DEF n
<1>7. /\ n \in Nat /\ n >= from /\ n >= t /\ n > nt /\ (n - d * Day - x.soff) % x.ival = 0
  <2>1. n - d * Day - x.soff = n - from
    BY <1>5, <1>6
  <2> QED
    BY <1>2, <1>4, <1>6, <2>1
<1>8. ASSUME NEW m \in Int, m >= from, m >= t, m > nt, (m - d * Day - x.soff) % x.ival = 0
      PROVE  m >= n
  <2>1. (m - from) % x.ival = 0 /\ m >= floor
    BY <1>4, <1>5, <1>8
  <2> QED
    BY <1>6, <1>8, <2>1
<1> QED
  BY <1>7, <1>8 DEF from, n

\* The window of a schedule, and when it is done with.
LEMMA WindowIs ==
  ASSUME NEW x \in Specs
  PROVE  /\ x.sday \in Nat /\ x.eday \in Nat /\ x.soff \in 0..Day /\ x.eoff \in 0..Day
         /\ x.ival \in Nat \ {0} /\ Day \in Nat \ {0}
         /\ Eoff(x) \in Nat /\ x.soff <= Eoff(x)
         /\ End(x) = x.eday * Day + Eoff(x) /\ End(x) \in Nat
<1>1. /\ x.sday \in Nat /\ x.eday \in Nat /\ x.soff \in 0..Day /\ x.eoff \in 0..Day
      /\ x.ival \in Nat \ {0} /\ Day \in Nat \ {0}
  BY SpecsAssumption, CalendarAssumption
<1>2. Eoff(x) \in Nat /\ x.soff <= Eoff(x)
  BY <1>1 DEF Eoff
<1>3. x.eday * Day \in Nat
  BY <1>1
<1> QED
  BY <1>1, <1>2, <1>3 DEF End

\* A time of a day within the schedule comes before its end.
LEMMA BeforeEnd ==
  ASSUME NEW x \in Specs, NEW d \in Nat, d < x.eday, NEW n \in Int, n <= d * Day + Eoff(x)
  PROVE  n <= End(x)
<1>1. d * Day + Day <= x.eday * Day /\ d * Day \in Nat /\ x.eday * Day \in Nat
  BY WindowIs, LaterDay
<1> QED
  BY <1>1, WindowIs

\* What a search that found something returns.
LEMMA Searched ==
  ASSUME NEW x \in Specs, x.mode # "once", NEW t \in Nat, NEW nt \in Nat,
         SearchDays(x, t, nt) # NoTime
  PROVE  \E d \in DayOf(t)..x.eday - 1 :
           /\ DayOf(t) < x.eday /\ d \in Nat
           /\ SearchDays(x, t, nt) = TimeOn(x, t, nt, d)
           /\ Accepted(x, d, TimeOn(x, t, nt, d))
           /\ x.mode = "daily" =>
                \A c \in DayOf(t)..d - 1 : ~ Accepted(x, c, TimeOn(x, t, nt, c))
<1>1. DayOf(t) \in Nat /\ x.eday \in Nat
  BY DayIs, WindowIs
<1>2. DayOf(t) < x.eday
  BY <1>1 DEF SearchDays
<1>3. SearchOk(SearchDays(x, t, nt), DayOf(t), x, t, nt)
  BY <1>2, SearchIs
<1>4. PICK d \in DayOf(t)..x.eday - 1 :
        /\ SearchDays(x, t, nt) = TimeOn(x, t, nt, d)
        /\ Accepted(x, d, SearchDays(x, t, nt))
        /\ x.mode = "daily" =>
             \A c \in DayOf(t)..d - 1 : ~ Accepted(x, c, TimeOn(x, t, nt, c))
  BY <1>3, Zenon DEF SearchOk
<1>5. d \in Nat
  BY <1>1
<1> QED
  BY <1>2, <1>4, <1>5, Zenon

---------------------------------------------------------------------------
(* The type invariant *)

\* A time that was used is past. (A next time is what was found last or what the
\* launch wrote over it: the present time.)
UsedIsPast == ~ e.scheduled => e.nt <= ct
Inv == TypeOK /\ UsedIsPast

\* A next time is a natural number after the last.
LEMMA NextTimeType ==
  ASSUME NEW x \in Specs, NEW t \in Nat, NEW nt \in Nat, NextTime(x, t, nt) # NoTime
  PROVE  NextTime(x, t, nt) \in Nat /\ NextTime(x, t, nt) > nt
<1>1. CASE x.mode = "once"
  <2> DEFINE from == x.sday * Day + x.soff
             n == FirstFrom(from, x.ival, t, nt)
  <2>1. from \in Nat /\ x.ival \in Nat \ {0}
    <3>1. x.sday * Day \in Nat /\ x.soff \in Nat
      BY WindowIs
    <3> QED
      BY <3>1, WindowIs
  <2>2. NextTime(x, t, nt) = n
    BY <1>1, Zenon DEF NextTime
  <2> HIDE DEF from
  <2>3. n \in Int /\ n >= from /\ n > nt
    <3>1. from \in Int /\ t \in Int /\ nt \in Int
      BY <2>1
    <3> QED
      BY <2>1, <3>1, FirstFromIs, Zenon
  <2> HIDE DEF n
  <2> QED
    BY <2>1, <2>2, <2>3
<1>2. CASE x.mode # "once"
  <2>1. NextTime(x, t, nt) = SearchDays(x, t, nt)
    BY <1>2 DEF NextTime
  <2>2. PICK d \in DayOf(t)..x.eday - 1 :
          d \in Nat /\ SearchDays(x, t, nt) = TimeOn(x, t, nt, d)
    BY <1>2, <2>1, Searched
  <2>3. d >= DayOf(t)
    BY <2>2, DayIs, WindowIs
  <2> QED
    BY <2>1, <2>2, <2>3, TimeOnIs
<1> QED
  BY <1>1, <1>2

\* scheduleupdate gives the schedule up
Over(x, t, old) ==
  t > End(x) \/ NextTime(x, t, old.nt) = NoTime \/ NextTime(x, t, old.nt) > End(x)

Entries == [nt : Nat, scheduled : BOOLEAN, expired : BOOLEAN]

LEMMA UpdatedIs ==
  ASSUME NEW x \in Specs, NEW t \in Nat, NEW old \in Entries
  PROVE  /\ Updated(x, t, old) \in Entries
         /\ Over(x, t, old) =>
              /\ Updated(x, t, old) = [old EXCEPT !.expired = TRUE]
              /\ Updated(x, t, old).expired = TRUE
              /\ Updated(x, t, old).nt = old.nt
              /\ Updated(x, t, old).scheduled = old.scheduled
         /\ ~ Over(x, t, old) =>
              /\ Updated(x, t, old) = [old EXCEPT !.nt = NextTime(x, t, old.nt), !.scheduled = TRUE]
              /\ Updated(x, t, old).scheduled = TRUE
              /\ Updated(x, t, old).nt = NextTime(x, t, old.nt)
              /\ Updated(x, t, old).expired = old.expired
<1> DEFINE n == NextTime(x, t, old.nt)
           u == Updated(x, t, old)
           Gone == Over(x, t, old)
<1>1. u = IF Gone THEN [old EXCEPT !.expired = TRUE]
                  ELSE [old EXCEPT !.nt = n, !.scheduled = TRUE]
  BY Zenon DEF Updated, Over
<1>2. n # NoTime => n \in Nat
  BY NextTimeType DEF Entries
<1>3. CASE Gone
  <2>1. u = [old EXCEPT !.expired = TRUE]
    BY <1>1, <1>3
  <2> HIDE DEF n, u
  <2>2. u \in Entries /\ u.expired = TRUE /\ u.nt = old.nt /\ u.scheduled = old.scheduled
    BY <2>1 DEF Entries
  <2> QED
    BY <1>3, <2>1, <2>2 DEF n, u
<1>4. CASE ~ Gone
  <2>1. u = [old EXCEPT !.nt = n, !.scheduled = TRUE]
    BY <1>1, <1>4
  <2>2. n \in Nat
    BY <1>2, <1>4 DEF Over
  <2> HIDE DEF n, u, Gone
  <2>3. u \in Entries /\ u.scheduled = TRUE /\ u.nt = n /\ u.expired = old.expired
    BY <2>1, <2>2 DEF Entries
  <2> QED
    BY <1>4, <2>1, <2>2, <2>3 DEF n, u, Gone
<1> QED
  BY <1>3, <1>4

LEMMA InvInit == Init => Inv
BY BoundsAssumption DEF Init, Inv, TypeOK, UsedIsPast

LEMMA InvNext == Inv /\ [Next]_vars => Inv'
<1> SUFFICES ASSUME Inv, [Next]_vars PROVE Inv'
  OBVIOUS
<1> USE BoundsAssumption DEF Inv, TypeOK
<1>1. CASE Update
  <2>1. s \in Specs /\ ct \in Nat /\ e \in Entries
    BY DEF Entries
  <2>2. /\ e' = Updated(s, ct, e) /\ ~ e.expired /\ ~ e.scheduled /\ s' = s /\ ct' = ct
    BY <1>1 DEF Update
  <2>3. /\ e' \in Entries
        /\ \/ e'.nt = e.nt /\ e'.scheduled = e.scheduled
           \/ e'.scheduled = TRUE /\ e'.expired = e.expired
    BY <2>1, <2>2, UpdatedIs, Zenon
  <2> QED
    BY <2>2, <2>3 DEF UsedIsPast, Entries
<1>2. CASE Run
  <2>1. e \in Entries /\ ct \in Nat
    BY DEF Entries
  <2>2. e' = [e EXCEPT !.scheduled = FALSE, !.nt = ct] /\ s' = s /\ ct' = ct
    BY <1>2 DEF Run
  <2>3. e' \in Entries /\ e'.scheduled = FALSE /\ e'.nt = ct
    BY <2>1, <2>2 DEF Entries
  <2>4. ~ (e'.scheduled /\ e'.expired)
    BY <2>3, Zenon
  <2>5. UsedIsPast'
    BY <2>1, <2>2, <2>3 DEF UsedIsPast
  <2> QED
    BY <2>2, <2>3, <2>4, <2>5 DEF Entries
<1>3. CASE Tick
  BY <1>3 DEF Tick, UsedIsPast
<1>4. CASE UNCHANGED vars
  BY <1>4 DEF vars, UsedIsPast
<1> QED
  BY <1>1, <1>2, <1>3, <1>4 DEF Next

LEMMA Invariance == Spec => []Inv
BY InvInit, InvNext, PTL DEF Spec

\* Every variable has its type, and a schedule that has expired is not due.
THEOREM TypeCorrect == Spec => []TypeOK
<1>1. Inv => TypeOK
  BY DEF Inv
<1> QED
  BY <1>1, Invariance, PTL

---------------------------------------------------------------------------
(* What a schedule means *)

\* a time of the window that opens on day d
OfDay(x, d, n) ==
  n \in (d * Day + x.soff)..(d * Day + Eoff(x)) /\ (n - d * Day - x.soff) % x.ival = 0

LEMMA SlotsAre ==
  ASSUME NEW x \in Specs, x.mode # "once", NEW n
  PROVE  n \in Slots(x) <=> \E d \in RunDays(x) : OfDay(x, d, n)
<1> DEFINE W(d) == {k \in (d * Day + x.soff)..(d * Day + Eoff(x)) :
                      (k - d * Day - x.soff) % x.ival = 0}
<1>1. Slots(x) = UNION {W(d) : d \in RunDays(x)}
  BY DEF Slots
<1>2. \A d : n \in W(d) <=> OfDay(x, d, n)
  BY Zenon DEF OfDay
<1> HIDE DEF W
<1>3. n \in UNION {W(d) : d \in RunDays(x)} <=> \E d \in RunDays(x) : n \in W(d)
  BY Zenon
<1> QED
  BY <1>1, <1>2, <1>3, Zenon

LEMMA OpenSlotsAre ==
  ASSUME NEW x \in Specs, x.mode # "once", NEW n
  PROVE  n \in OpenSlots(x) <=> \E d \in OpenDays(x) : OfDay(x, d, n)
<1> DEFINE W(d) == {k \in (d * Day + x.soff)..(d * Day + Eoff(x)) :
                      (k - d * Day - x.soff) % x.ival = 0}
<1>1. OpenSlots(x) = UNION {W(d) : d \in OpenDays(x)}
  BY DEF OpenSlots
<1>2. \A d : n \in W(d) <=> OfDay(x, d, n)
  BY Zenon DEF OfDay
<1> HIDE DEF W
<1>3. n \in UNION {W(d) : d \in OpenDays(x)} <=> \E d \in OpenDays(x) : n \in W(d)
  BY Zenon
<1> QED
  BY <1>1, <1>2, <1>3, Zenon

\* Choosing what comes first of a set of times is what the schedule means.
LEMMA MeantIs ==
  ASSUME NEW x \in Specs, NEW t \in Nat, NEW old \in Entries,
         \A m \in Upcoming(x, t, old.nt) : m \in Nat,
         Over(x, t, old) => Upcoming(x, t, old.nt) = {},
         ~ Over(x, t, old) =>
           /\ NextTime(x, t, old.nt) \in Upcoming(x, t, old.nt)
           /\ \A m \in Upcoming(x, t, old.nt) : NextTime(x, t, old.nt) <= m
  PROVE  Updated(x, t, old) = Meant(x, t, old)
<1> DEFINE n == NextTime(x, t, old.nt)
           U == Upcoming(x, t, old.nt)
<1>1. CASE Over(x, t, old)
  <2>1. Updated(x, t, old) = [old EXCEPT !.expired = TRUE] /\ U = {}
    BY <1>1 DEF Updated, Over
  <2> QED
    BY <2>1, Zenon DEF Meant
<1>2. CASE ~ Over(x, t, old)
  <2>1. Updated(x, t, old) = [old EXCEPT !.nt = n, !.scheduled = TRUE]
    BY <1>2 DEF Updated, Over
  <2>2. U \in SUBSET Nat /\ n \in U /\ (\A m \in U : n <= m) /\ U # {}
    BY <1>2
  <2>3. n = Min(U)
    <3> HIDE DEF U, n
    <3>1. Min(U) \in U /\ \A m \in U : Min(U) <= m
      BY <2>2, MinIs
    <3>2. n <= Min(U) /\ Min(U) <= n /\ n \in Nat /\ Min(U) \in Nat
      BY <2>2, <3>1
    <3> QED
      BY <3>2
  <2>4. Meant(x, t, old) = [old EXCEPT !.nt = Min(U), !.scheduled = TRUE]
    BY <2>2, Zenon DEF Meant
  <2> QED
    BY <2>1, <2>3, <2>4, Zenon
<1> QED
  BY <1>1, <1>2

\* A "once" schedule: its times are one grid, the first left of which is found.
LEMMA OnceMeant ==
  ASSUME NEW x \in Specs, x.mode = "once", NEW t \in Nat, NEW old \in Entries
  PROVE  Updated(x, t, old) = Meant(x, t, old)
<1> DEFINE from == x.sday * Day + x.soff
           iv == x.ival
           nt == old.nt
           n == FirstFrom(from, iv, t, nt)
<1>1. from \in Nat /\ iv \in Nat \ {0} /\ nt \in Nat /\ End(x) \in Nat
  <2>1. x.sday * Day \in Nat /\ x.soff \in Nat
    BY WindowIs
  <2> QED
    BY <2>1, WindowIs DEF Entries
<1>2. NextTime(x, t, old.nt) = n
  BY Zenon DEF NextTime
<1>3. \A m : m \in Upcoming(x, t, old.nt) <=>
               m \in from..End(x) /\ m >= t /\ m > nt /\ (m - from) % iv = 0
  <2>1. \A m : m \in Slots(x) <=>
                 m \in from..End(x) /\ (m - x.sday * Day - x.soff) % x.ival = 0
    BY Zenon DEF Slots
  <2>2. \A m \in from..End(x) : m - x.sday * Day - x.soff = m - from
    <3>1. x.sday * Day \in Nat /\ x.soff \in Nat
      BY WindowIs
    <3> QED
      BY <1>1, <3>1
  <2> HIDE DEF from, iv
  <2>3. \A m : m \in Slots(x) <=> m \in from..End(x) /\ (m - from) % iv = 0
    BY <2>1, <2>2 DEF iv
  <2> HIDE DEF nt
  <2> QED
    BY <2>3 DEF Upcoming, nt
<1> HIDE DEF from, iv, nt
<1>4. /\ n \in Int /\ n >= from /\ n >= t /\ n > nt /\ (n - from) % iv = 0
      /\ \A m \in Int : m >= from /\ m >= t /\ m > nt /\ (m - from) % iv = 0 => m >= n
  <2>1. from \in Int /\ t \in Int /\ nt \in Int
    BY <1>1
  <2> QED
    BY <1>1, <2>1, FirstFromIs, Zenon
<1> HIDE DEF n
<1>5. \A m \in Upcoming(x, t, old.nt) : m \in Nat /\ n <= m /\ t <= End(x) /\ n <= End(x)
  BY <1>1, <1>3, <1>4
<1>6. n # NoTime
  BY <1>1, <1>4 DEF NoTime
<1>7. Over(x, t, old) <=> t > End(x) \/ n > End(x)
  BY <1>2, <1>6 DEF Over
<1>8. Over(x, t, old) => Upcoming(x, t, old.nt) = {}
  <2>1. Over(x, t, old) => \A m \in Upcoming(x, t, old.nt) : FALSE
    BY <1>1, <1>4, <1>5, <1>7
  <2> QED
    BY <2>1, Zenon
<1>9. ~ Over(x, t, old) => n \in Upcoming(x, t, old.nt)
  BY <1>1, <1>3, <1>4, <1>7
<1> QED
  BY <1>2, <1>5, <1>8, <1>9, MeantIs

\* A daily schedule accepts a time of a day's grid when the day's window has it.
LEMMA DailyAccepts ==
  ASSUME NEW x \in Specs, x.mode = "daily", NEW t \in Nat, NEW nt \in Nat,
         NEW d \in Nat, d >= DayOf(t)
  PROVE  /\ Accepted(x, d, TimeOn(x, t, nt, d)) <=> OfDay(x, d, TimeOn(x, t, nt, d))
         /\ ~ Accepted(x, d, TimeOn(x, t, nt, d)) =>
              \A m \in Int : m >= t /\ m > nt => ~ OfDay(x, d, m)
<1> DEFINE n == TimeOn(x, t, nt, d)
<1>1. /\ n \in Nat /\ n >= d * Day + x.soff /\ (n - d * Day - x.soff) % x.ival = 0
      /\ \A m \in Int : /\ m >= d * Day + x.soff /\ m >= t /\ m > nt
                        /\ (m - d * Day - x.soff) % x.ival = 0
                        => m >= n
  BY TimeOnIs
<1>2. Eoff(x) \in Nat /\ x.soff \in Nat /\ d * Day \in Nat
  BY WindowIs
<1>3. Accepted(x, d, n) <=> x.soff <= n - d * Day /\ n - d * Day <= Eoff(x)
  BY Zenon DEF Accepted, InWindow
<1> HIDE DEF n
<1>4. Accepted(x, d, n) <=> n <= d * Day + Eoff(x)
  BY <1>1, <1>2, <1>3
<1>5. Accepted(x, d, n) <=> OfDay(x, d, n)
  BY <1>1, <1>2, <1>4 DEF OfDay
<1>6. ASSUME ~ Accepted(x, d, n), NEW m \in Int, m >= t, m > nt, OfDay(x, d, m) PROVE FALSE
  <2>1. m >= d * Day + x.soff /\ m <= d * Day + Eoff(x) /\ (m - d * Day - x.soff) % x.ival = 0
    BY <1>2, <1>6 DEF OfDay
  <2>2. m >= n
    BY <1>1, <1>6, <2>1
  <2> QED
    BY <1>1, <1>2, <1>4, <1>6, <2>1, <2>2
<1> QED
  BY <1>5, <1>6 DEF n

\* What is still to come of a daily schedule belongs to today or a later day: only
\* a slot at 24:00 is in time on the day after, and that day begins with it.
LEMMA DailyUpcoming ==
  ASSUME NEW x \in Specs, x.mode = "daily", x.soff <= x.eoff, x.soff = 0 \/ x.eoff < Day,
         NEW t \in Nat, NEW nt \in Nat, DayOf(t) < x.eday, NEW m \in Upcoming(x, t, nt)
  PROVE  /\ m \in Nat /\ m >= t /\ m > nt
         /\ \E d \in DayOf(t)..x.eday - 1 : OfDay(x, d, m)
<1> DEFINE T == DayOf(t)
<1>1. /\ x.sday \in Nat /\ x.eday \in Nat /\ x.soff \in 0..Day /\ x.eoff \in 0..Day
      /\ Eoff(x) = x.eoff /\ Day \in Nat \ {0} /\ x.ival \in Nat \ {0}
  BY WindowIs DEF Eoff
<1>2. T \in Nat /\ T * Day <= t /\ t < T * Day + Day /\ T * Day \in Nat
  BY <1>1, DayIs
<1>3. m \in Slots(x) /\ m >= t /\ m > nt
  BY DEF Upcoming
<1>4. PICK c \in RunDays(x) : OfDay(x, c, m)
  BY <1>3, SlotsAre
<1>5. c \in Nat /\ c <= x.eday - 1
  BY <1>1 DEF RunDays
<1> HIDE DEF T
<1>6. m \in (c * Day + x.soff)..(c * Day + x.eoff) /\ c * Day \in Nat
  BY <1>1, <1>4, <1>5 DEF OfDay
<1>7. m \in Nat
  BY <1>1, <1>6
<1>8. CASE c >= T
  BY <1>1, <1>2, <1>3, <1>4, <1>5, <1>7, <1>8 DEF T
<1>9. CASE ~ c >= T
  <2>1. c * Day + Day <= T * Day
    BY <1>2, <1>5, <1>9, LaterDay
  <2>2. m = T * Day /\ x.soff = 0
    BY <1>1, <1>2, <1>3, <1>6, <1>7, <2>1
  <2>3. m - T * Day - x.soff = 0
    BY <1>2, <2>2
  <2>4. 0 % x.ival = 0
    BY <1>1
  <2>5. OfDay(x, T, m)
    <3>1. m \in (T * Day + x.soff)..(T * Day + Eoff(x))
      BY <1>1, <1>2, <2>2
    <3> QED
      BY <2>3, <2>4, <3>1 DEF OfDay
  <2>6. T \in T..x.eday - 1
    BY <1>1, <1>2 DEF T
  <2> QED
    BY <1>3, <1>7, <2>5, <2>6 DEF T
<1> QED
  BY <1>8, <1>9

\* A daily schedule whose window stays within the day.
LEMMA DailyMeant ==
  ASSUME NEW x \in Specs, x.mode = "daily", x.soff <= x.eoff, x.soff = 0 \/ x.eoff < Day,
         NEW t \in Nat, NEW old \in Entries, DayOf(t) \in x.sday..(x.eday - 1)
  PROVE  Updated(x, t, old) = Meant(x, t, old)
<1> DEFINE T == DayOf(t)
           nt == old.nt
           N(d) == TimeOn(x, t, nt, d)
           r == SearchDays(x, t, nt)
<1>1. /\ x.sday \in Nat /\ x.eday \in Nat /\ x.soff \in Nat /\ x.eoff \in 0..Day
      /\ Eoff(x) = x.eoff /\ Day \in Nat \ {0} /\ End(x) \in Nat
      /\ End(x) = x.eday * Day + x.eoff /\ x.eday * Day \in Nat
  <2>1. Eoff(x) = x.eoff
    BY WindowIs DEF Eoff
  <2> QED
    BY <2>1, WindowIs
<1>2. T \in Nat /\ T * Day <= t /\ t < T * Day + Day /\ T < x.eday /\ T >= x.sday /\ nt \in Nat
  BY <1>1, DayIs DEF Entries
<1>3. x.mode # "once" /\ NextTime(x, t, old.nt) = r
  BY Zenon DEF NextTime
<1>4. SearchOk(r, T, x, t, nt)
  BY <1>2, <1>3, SearchIs
<1> HIDE DEF T, nt, r, N
<1>5. \A m \in Upcoming(x, t, nt) : /\ m \in Nat /\ m >= t /\ m > nt
                                    /\ \E d \in T..x.eday - 1 : OfDay(x, d, m)
  BY <1>2, DailyUpcoming DEF T
<1>6. ASSUME NEW d \in T..x.eday - 1, ~ Accepted(x, d, N(d)), NEW m \in Upcoming(x, t, nt),
             OfDay(x, d, m)
      PROVE  FALSE
  <2>1. d \in Nat /\ d >= DayOf(t) /\ m \in Int /\ m >= t /\ m > nt
    BY <1>1, <1>2, <1>5, <1>6 DEF T
  <2> QED
    BY <1>2, <1>6, <2>1, DailyAccepts DEF N
<1>7. t <= End(x)
  <2>1. T * Day + Day <= x.eday * Day /\ T * Day \in Nat
    BY <1>1, <1>2, LaterDay
  <2> QED
    BY <1>1, <1>2, <2>1
<1>8. CASE /\ r = NoTime
           /\ x.mode = "daily" => \A d \in T..x.eday - 1 : ~ Accepted(x, d, TimeOn(x, t, nt, d))
  <2>1. Over(x, t, old)
    BY <1>3, <1>8 DEF Over
  <2>2. Upcoming(x, t, nt) = {}
    <3>1. \A m \in Upcoming(x, t, nt) : FALSE
      BY <1>5, <1>6, <1>8 DEF N
    <3> QED
      BY <3>1, Zenon
  <2> QED
    BY <2>1, <2>2, MeantIs DEF nt
<1>9. CASE \E d \in T..x.eday - 1 :
             /\ r = TimeOn(x, t, nt, d) /\ Accepted(x, d, r)
             /\ x.mode = "daily" => \A c \in T..d - 1 : ~ Accepted(x, c, TimeOn(x, t, nt, c))
  <2>1. PICK d \in T..x.eday - 1 :
             /\ r = N(d) /\ Accepted(x, d, N(d))
             /\ \A c \in T..d - 1 : ~ Accepted(x, c, N(c))
    BY <1>9 DEF N
  <2>2. d \in Nat /\ d >= DayOf(t) /\ d < x.eday /\ d >= x.sday /\ d * Day \in Nat
    BY <1>1, <1>2, <2>1 DEF T
  <2>3. /\ r \in Nat /\ r >= t /\ r > nt
        /\ \A m \in Int : /\ m >= d * Day + x.soff /\ m >= t /\ m > nt
                          /\ (m - d * Day - x.soff) % x.ival = 0
                          => m >= r
    BY <1>2, <2>1, <2>2, TimeOnIs DEF N
  <2>4. OfDay(x, d, r)
    BY <1>2, <2>1, <2>2, DailyAccepts DEF N
  <2>5. r <= d * Day + x.eoff
    BY <1>1, <2>2, <2>3, <2>4 DEF OfDay
  <2>6. r <= End(x)
    BY <1>1, <2>2, <2>3, <2>5, BeforeEnd
  <2>7. ~ Over(x, t, old)
    BY <1>1, <1>3, <1>7, <2>3, <2>6 DEF Over, NoTime
  <2>8. r \in Upcoming(x, t, nt)
    <3>1. d \in RunDays(x)
      BY <1>1, <2>2 DEF RunDays
    <3> QED
      BY <1>3, <2>3, <2>4, <3>1, SlotsAre DEF Upcoming
  <2>9. ASSUME NEW m \in Upcoming(x, t, nt) PROVE r <= m
    <3>1. /\ m \in Nat /\ m >= t /\ m > nt
      BY <1>5
    <3>2. PICK c \in T..x.eday - 1 : OfDay(x, c, m)
      BY <1>5
    <3>3. c \in Nat /\ c * Day \in Nat
      BY <1>1, <1>2
    <3>4. m >= c * Day + x.soff /\ (m - c * Day - x.soff) % x.ival = 0
      BY <1>1, <3>1, <3>2, <3>3 DEF OfDay
    <3>5. ~ c < d
      <4> SUFFICES ASSUME c < d PROVE FALSE
        OBVIOUS
      <4>1. c \in T..d - 1
        BY <1>2, <2>2, <3>3
      <4> QED
        BY <1>6, <2>1, <3>2, <4>1
    <3>6. CASE c = d
      BY <2>3, <3>1, <3>4, <3>6
    <3>7. CASE c > d
      <4>1. d * Day + Day <= c * Day
        BY <2>2, <3>3, <3>7, LaterDay
      <4> QED
        BY <1>1, <2>2, <2>3, <2>5, <3>1, <3>3, <3>4, <4>1
    <3> QED
      BY <2>2, <3>3, <3>5, <3>6, <3>7
  <2> QED
    BY <1>3, <1>5, <2>7, <2>8, <2>9, MeantIs DEF nt
<1> QED
  BY <1>4, <1>8, <1>9, Zenon DEF SearchOk

---------------------------------------------------------------------------
(* A chosen time *)

\* The second day a weekly or monthly window is accepted on: no other than its
\* first, or the one after it when the window ends at 24:00.
LEMMA LastDayIs ==
  ASSUME NEW x \in Specs, x.soff <= x.eoff
  PROVE  \/ x.eoff = Day /\ LastDay(x) = x.sday + 1
         \/ x.eoff < Day /\ LastDay(x) = FirstDay(x)
<1>1. /\ x.sday \in Nat /\ x.soff \in 0..Day /\ x.eoff \in 0..Day /\ Day \in Nat \ {0}
      /\ Eoff(x) = x.eoff /\ x.sday * Day \in Nat
  <2>1. Eoff(x) = x.eoff
    BY WindowIs DEF Eoff
  <2> QED
    BY <2>1, WindowIs
<1>2. CASE x.eoff < Day
  <2>1. DayOf(x.sday * Day + x.eoff) = x.sday
    BY <1>1, <1>2, DayOfIs
  <2>2. DayOf(x.sday * Day + x.soff) = x.sday
    BY <1>1, <1>2, DayOfIs
  <2> QED
    BY <1>1, <1>2, <2>1, <2>2 DEF LastDay, FirstDay
<1>3. CASE ~ x.eoff < Day
  <2> DEFINE next == x.sday + 1
             t == x.sday * Day + Day
  <2>1. next * Day = t /\ next \in Nat /\ t \in Nat
    BY <1>1
  <2>2. x.eoff = Day
    BY <1>1, <1>3
  <2>3. LastDay(x) = DayOf(t)
    BY <1>1, <2>2 DEF LastDay
  <2> HIDE DEF next, t
  <2>4. DayOf(t) = next
    BY <1>1, <2>1, DayOfIs
  <2> QED
    BY <2>2, <2>3, <2>4 DEF next
<1> QED
  BY <1>2, <1>3

\* A time accepted on a day is one of a window that opens on that day.
LEMMA AcceptedIsSlot ==
  ASSUME NEW x \in Specs, x.mode # "once",
         NEW t \in Nat, NEW nt \in Nat, NEW d \in Nat, d >= DayOf(t), d < x.eday,
         Accepted(x, d, TimeOn(x, t, nt, d))
  PROVE  TimeOn(x, t, nt, d) \in OpenSlots(x)
<1> DEFINE n == TimeOn(x, t, nt, d)
<1>1. /\ x.sday \in Nat /\ x.eday \in Nat /\ x.soff \in 0..Day /\ x.eoff \in 0..Day
      /\ Day \in Nat \ {0} /\ Eoff(x) \in Nat /\ x.soff <= Eoff(x) /\ d * Day \in Nat
  BY WindowIs
<1>2. n \in Nat /\ n >= d * Day + x.soff /\ (n - d * Day - x.soff) % x.ival = 0
  BY TimeOnIs
<1>d. d \in 0..(x.eday - 1)
  BY <1>1
<1> HIDE DEF n
<1>3. CASE x.mode = "daily"
  <2>1. d \in OpenDays(x)
    BY <1>d, <1>3 DEF OpenDays
  <2>2. OfDay(x, d, n)
    BY <1>3, DailyAccepts DEF n
  <2> QED
    BY <1>3, <2>1, <2>2, OpenSlotsAre DEF n
<1>4. CASE x.mode # "daily"
  <2>1. \/ SameDay(x, d, FirstDay(x)) /\ InWindow(x, n - d * Day)
        \/ SameDay(x, d, LastDay(x)) /\ n - d * Day <= x.eoff
    BY <1>4, Zenon DEF Accepted, n
  <2>2. /\ n - d * Day <= Eoff(x)
        /\ \/ SameDay(x, d, FirstDay(x))
           \/ x.eoff = Day /\ SameDay(x, d, x.sday + 1)
    <3>1. CASE SameDay(x, d, FirstDay(x)) /\ InWindow(x, n - d * Day)
      BY <3>1, Zenon DEF InWindow
    <3>2. CASE SameDay(x, d, LastDay(x)) /\ n - d * Day <= x.eoff
      <4>1. x.soff <= x.eoff /\ Eoff(x) = x.eoff
        <5>1. x.soff <= x.eoff
          BY <1>1, <1>2, <3>2
        <5> QED
          BY <1>1, <5>1 DEF Eoff
      <4>2. CASE x.eoff = Day /\ LastDay(x) = x.sday + 1
        BY <3>2, <4>1, <4>2, Zenon
      <4>3. CASE x.eoff < Day /\ LastDay(x) = FirstDay(x)
        BY <3>2, <4>1, <4>3, Zenon
      <4> QED
        BY <4>1, <4>2, <4>3, LastDayIs
    <3> QED
      BY <2>1, <3>1, <3>2
  <2>3. d \in OpenDays(x)
    BY <1>d, <2>2, Zenon DEF OpenDays
  <2>4. OfDay(x, d, n)
    BY <1>1, <1>2, <2>2 DEF OfDay
  <2> QED
    BY <1>4, <2>3, <2>4, OpenSlotsAre DEF n
<1> QED
  BY <1>3, <1>4

\* A schedule given up is left as due, or not, as it was.
LEMMA OverKeeps ==
  ASSUME NEW x \in Specs, NEW t \in Nat, NEW old \in Entries
  PROVE  Over(x, t, old) => Updated(x, t, old).scheduled = old.scheduled
BY UpdatedIs, Zenon

\* A time that is chosen.
LEMMA Chosen ==
  ASSUME NEW x \in Specs, NEW t \in Nat, NEW old \in Entries,
         ~ old.scheduled, Updated(x, t, old).scheduled
  PROVE  LET n == Updated(x, t, old).nt IN n \in OpenSlots(x) /\ n >= t /\ n > old.nt
<1> DEFINE nt == old.nt
           n == NextTime(x, t, nt)
<1>1. nt \in Nat
  BY DEF Entries
<1>2. ~ Over(x, t, old)
  <2>1. Over(x, t, old) => Updated(x, t, old).scheduled = old.scheduled
    BY OverKeeps, Zenon
  <2> QED
    BY <2>1, Zenon
<1>3. Updated(x, t, old).nt = n /\ n # NoTime /\ ~ n > End(x)
  BY <1>2, UpdatedIs DEF Over
<1>4. n \in Nat /\ n > nt
  BY <1>1, <1>3, NextTimeType
<1>5. n \in OpenSlots(x) /\ n >= t
  <2>1. CASE x.mode = "once"
    <3> DEFINE from == x.sday * Day + x.soff
               iv == x.ival
    <3>1. /\ from \in Nat /\ iv \in Nat \ {0} /\ x.sday * Day \in Nat /\ x.soff \in Nat
          /\ End(x) \in Nat
      <4>1. x.sday * Day \in Nat /\ x.soff \in Nat
        BY WindowIs
      <4> QED
        BY <4>1, WindowIs
    <3>2. n = FirstFrom(from, iv, t, nt)
      BY <2>1, Zenon DEF NextTime
    <3>3. n - x.sday * Day - x.soff = n - from
      BY <1>4, <3>1
    <3> HIDE DEF n
    <3>4. OpenSlots(x) = {k \in from..End(x) : (k - x.sday * Day - x.soff) % iv = 0}
      BY <2>1, Zenon DEF OpenSlots, Slots
    <3> HIDE DEF from, iv
    <3>5. n >= from /\ n >= t /\ (n - from) % iv = 0
      <4>1. from \in Int /\ t \in Int /\ nt \in Int
        BY <1>1, <3>1
      <4> QED
        BY <3>1, <3>2, <4>1, FirstFromIs, Zenon
    <3> QED
      BY <1>3, <1>4, <3>1, <3>3, <3>4, <3>5
  <2>2. CASE x.mode # "once"
    <3>1. n = SearchDays(x, t, nt)
      BY <2>2 DEF NextTime
    <3>2. PICK d \in DayOf(t)..x.eday - 1 :
            /\ d \in Nat /\ n = TimeOn(x, t, nt, d) /\ Accepted(x, d, TimeOn(x, t, nt, d))
      <4> HIDE DEF n, nt
      <4>1. SearchDays(x, t, nt) # NoTime
        BY <1>3, <3>1
      <4> QED
        BY <1>1, <2>2, <3>1, <4>1, Searched
    <3> HIDE DEF n, nt
    <3>3. d >= DayOf(t) /\ d < x.eday
      <4>1. DayOf(t) \in Nat /\ x.eday \in Nat
        BY DayIs, WindowIs
      <4> QED
        BY <3>2, <4>1
    <3>4. n \in OpenSlots(x)
      BY <1>1, <2>2, <3>2, <3>3, AcceptedIsSlot
    <3>5. n >= t
      BY <1>1, <3>2, <3>3, TimeOnIs
    <3> QED
      BY <3>4, <3>5
  <2> QED
    BY <2>1, <2>2
<1> HIDE DEF n
<1> QED
  BY <1>3, <1>4, <1>5 DEF nt

\* Of a used time that is past, and with a day left after today, today or
\* tomorrow has a time: tomorrow's window is open from its beginning.
LEMMA DailyFinds ==
  ASSUME NEW x \in Specs, x.mode = "daily", NEW t \in Nat, NEW old \in Entries,
         old.nt <= t, DayOf(t) < x.eday - 1
  PROVE  Updated(x, t, old).scheduled
<1> DEFINE T == DayOf(t)
           D == T + 1
           nt == old.nt
           n == TimeOn(x, t, nt, D)
           r == SearchDays(x, t, nt)
<1>1. /\ x.eday \in Nat /\ x.soff \in Nat /\ Eoff(x) \in Nat /\ x.soff <= Eoff(x)
      /\ Day \in Nat \ {0} /\ x.ival \in Nat \ {0} /\ End(x) \in Nat
      /\ End(x) = x.eday * Day + Eoff(x)
  BY WindowIs
<1>2. T \in Nat /\ t < T * Day + Day /\ T * Day \in Nat /\ nt \in Nat
  BY <1>1, DayIs DEF Entries
<1>3. D \in Nat /\ D < x.eday /\ D > T /\ T < x.eday
  BY <1>1, <1>2
<1>4. T * Day + Day <= D * Day /\ D * Day \in Nat
  BY <1>2, <1>3, LaterDay
<1>5. x.mode # "once" /\ NextTime(x, t, old.nt) = r
  BY Zenon DEF NextTime
<1> HIDE DEF nt, n, r
<1>6. Accepted(x, D, n)
  <2> DEFINE m == D * Day + x.soff
  <2>1. m \in Int /\ m >= t /\ m > nt /\ m - D * Day - x.soff = 0 /\ 0 % x.ival = 0
    BY <1>1, <1>2, <1>4 DEF nt
  <2>2. OfDay(x, D, m)
    <3>1. m \in (D * Day + x.soff)..(D * Day + Eoff(x))
      BY <1>1, <1>4
    <3> QED
      BY <2>1, <3>1 DEF OfDay
  <2> HIDE DEF m, D
  <2> QED
    BY <1>2, <1>3, <2>1, <2>2, DailyAccepts DEF n, T
<1>7. SearchOk(r, T, x, t, nt)
  BY <1>3, <1>5, SearchIs DEF r
<1>8. r # NoTime
  <2> SUFFICES ASSUME r = NoTime PROVE FALSE
    OBVIOUS
  <2>1. D \in T..x.eday - 1
    BY <1>1, <1>2, <1>3
  <2>2. ~ \E d \in T..x.eday - 1 :
            /\ r = TimeOn(x, t, nt, d) /\ Accepted(x, d, r)
            /\ x.mode = "daily" => \A c \in T..d - 1 : ~ Accepted(x, c, TimeOn(x, t, nt, c))
    <3>1. ASSUME NEW d \in T..x.eday - 1 PROVE NoTime # TimeOn(x, t, nt, d)
      <4>1. d \in Nat /\ d >= DayOf(t)
        BY <1>1, <1>2
      <4> QED
        BY <1>2, <4>1, TimeOnIs DEF NoTime
    <3> QED
      BY <3>1
  <2> QED
    BY <1>6, <1>7, <2>1, <2>2, Zenon DEF SearchOk, n
<1>9. r <= End(x)
  <2>1. PICK d \in T..x.eday - 1 :
          d \in Nat /\ r = TimeOn(x, t, nt, d) /\ Accepted(x, d, TimeOn(x, t, nt, d))
    BY <1>2, <1>5, <1>8, Searched DEF r
  <2>2. d >= DayOf(t) /\ d < x.eday /\ d * Day \in Nat
    BY <1>1, <1>2, <2>1
  <2>3. OfDay(x, d, r) /\ r \in Nat
    BY <1>2, <2>1, <2>2, DailyAccepts, TimeOnIs
  <2>4. r <= d * Day + Eoff(x)
    BY <1>1, <2>2, <2>3 DEF OfDay
  <2> QED
    BY <2>1, <2>2, <2>3, <2>4, BeforeEnd
<1>10. t <= End(x)
  <2>1. T * Day + Day <= x.eday * Day /\ x.eday * Day \in Nat
    BY <1>1, <1>2, <1>3, LaterDay
  <2> QED
    BY <1>1, <1>2, <2>1
<1>11. r \in Nat
  BY <1>2, <1>5, <1>8, NextTimeType DEF nt
<1>12. ~ Over(x, t, old)
  BY <1>1, <1>5, <1>8, <1>9, <1>10, <1>11 DEF Over
<1> QED
  BY <1>12, UpdatedIs

---------------------------------------------------------------------------
(* The invariants *)

LEMMA InvFacts == Inv => s \in Specs /\ ct \in Nat /\ e \in Entries
BY BoundsAssumption DEF Inv, TypeOK, Entries

\* A "once" schedule runs at the first of its times that is neither past nor
\* used, and expires with the last of them (mode 1 of scheduleupdate).
THEOREM OnceIsExactHolds == Spec => []OnceIsExact
<1>1. Inv => OnceIsExact
  BY InvFacts, OnceMeant DEF OnceIsExact
<1> QED
  BY <1>1, Invariance, PTL

\* So does a daily schedule whose window stays within the day (mode 2).
THEOREM DailyIsExactHolds == Spec => []DailyIsExact
<1>1. Inv => DailyIsExact
  BY InvFacts, DailyMeant DEF DailyIsExact
<1> QED
  BY <1>1, Invariance, PTL

\* Whatever the mode, the clock and the time used last, the time chosen is one of
\* a window the search sees open, not past, not used.
THEOREM ChosenIsASlotHolds == Spec => []ChosenIsASlot
<1>1. Inv => ChosenIsASlot
  <2> SUFFICES ASSUME Inv, Choosing, Updated(s, ct, e).scheduled
               PROVE  LET n == Updated(s, ct, e).nt
                      IN  n \in OpenSlots(s) /\ n >= ct /\ n > e.nt
    BY Zenon DEF ChosenIsASlot
  <2> QED
    BY InvFacts, Chosen DEF Choosing
<1> QED
  BY <1>1, Invariance, PTL

\* While days are left, a daily schedule has a next time, however late it ran.
THEOREM DailyIsNeverLostHolds == Spec => []DailyIsNeverLost
<1>1. Inv => DailyIsNeverLost
  BY InvFacts, DailyFinds DEF DailyIsNeverLost, Inv, UsedIsPast, Choosing
<1> QED
  BY <1>1, Invariance, PTL
=============================================================================
