-------------------------- MODULE CorrEngineProofs --------------------------
(***************************************************************************)
(* Invariants of CorrEngine, for all alarms, rules, rules files and        *)
(* bounds. The type invariant, the books (BooksRight) and the rule each id *)
(* has in memory (UniqueIds) are inductive only together: a reference      *)
(* count stays a natural number because it counts something, and a rule    *)
(* that goes takes all its matches along because no other slot holds one   *)
(* of its id. On them rest the rules in force (RuleInv) and the tickets of *)
(* alarms of mode KEEP (TicketInv).                                        *)
(***************************************************************************)
EXTENDS CorrEngine, FiniteSetTheorems, WellFoundedInduction, TLAPS

---------------------------------------------------------------------------
(* Least and greatest *)

\* A set of naturals that is not empty has a least element. (The initial
\* segments 0..n of its elements are finite sets: one of them is minimal.)
LEMMA MinIs ==
  ASSUME NEW S \in SUBSET Nat, S # {}
  PROVE  Min(S) \in S /\ \A n \in S : Min(S) <= n
<1> DEFINE Segments == {0..n : n \in S}
<1>1. IsWellFoundedOn(StrictSubsetOrdering(Nat), FiniteSubsetsOf(Nat))
  BY FS_StrictSubsetOrderingWellFounded
<1>2. Segments \subseteq FiniteSubsetsOf(Nat) /\ Segments # {}
  <2>1. ASSUME NEW n \in S PROVE 0..n \in FiniteSubsetsOf(Nat)
    <3>1. IsFiniteSet(0..n) /\ 0..n \subseteq Nat
      BY FS_Interval
    <3> QED
      BY <3>1 DEF FiniteSubsetsOf
  <2> QED
    BY <2>1, Zenon
<1>3. PICK T \in Segments :
        \A U \in Segments : ~ (<<U, T>> \in StrictSubsetOrdering(Nat))
  <2> HIDE DEF Segments
  <2> QED
    BY <1>1, <1>2, WFMin, Zenon
<1>4. PICK n \in S : T = 0..n
  OBVIOUS
<1>5. \A m \in S : n <= m
  <2> SUFFICES ASSUME NEW m \in S, m < n PROVE FALSE
    OBVIOUS
  <2>1. 0..m \subseteq 0..n /\ n \in 0..n /\ n \notin 0..m
    OBVIOUS
  <2>2. <<0..m, 0..n>> \in StrictSubsetOrdering(Nat)
    BY <2>1 DEF StrictSubsetOrdering
  <2> QED
    BY <1>3, <1>4, <2>2
<1> QED
  BY <1>5 DEF Min

\* A finite one has a greatest: that above which there are fewest.
LEMMA MaxIs ==
  ASSUME NEW S \in SUBSET Nat, S # {}, IsFiniteSet(S)
  PROVE  Max(S) \in S /\ \A n \in S : n <= Max(S)
<1> DEFINE Above(n) == {k \in S : k > n}
           Counts0 == {Cardinality(Above(n)) : n \in S}
<1>1. ASSUME NEW n \in S
      PROVE  Above(n) \in SUBSET S /\ IsFiniteSet(Above(n)) /\ Cardinality(Above(n)) \in Nat
  <2>1. Above(n) \in SUBSET S
    OBVIOUS
  <2> HIDE DEF Above
  <2> QED
    BY <2>1, FS_Subset, FS_CardinalityType
<1>2. Counts0 \in SUBSET Nat /\ Counts0 # {}
  BY <1>1
<1>3. PICK n \in S : \A k \in S : Cardinality(Above(n)) <= Cardinality(Above(k))
  <2>1. Min(Counts0) \in Counts0 /\ \A c \in Counts0 : Min(Counts0) <= c
    <3> HIDE DEF Counts0
    <3> QED
      BY <1>2, MinIs
  <2> QED
    BY <2>1
<1>4. ASSUME NEW k \in S, k > n PROVE FALSE
  <2>1. Above(k) \in SUBSET Above(n) /\ k \in Above(n) /\ k \notin Above(k)
    <3>1. \A x \in S : x \in Nat
      OBVIOUS
    <3>2. \A x \in S : x > k => x > n
      BY <1>4, <3>1
    <3>3. k > n /\ ~ k > k
      BY <1>4, <3>1
    <3> QED
      BY <3>2, <3>3
  <2>2. Cardinality(Above(k)) <= Cardinality(Above(n))
        /\ (Cardinality(Above(n)) = Cardinality(Above(k)) => Above(n) = Above(k))
    <3> HIDE DEF Above
    <3> QED
      BY <1>1, <2>1, FS_Subset
  <2> QED
    BY <1>1, <1>3, <2>1, <2>2
<1>5. \A k \in S : k <= n
  BY <1>4
<1> QED
  BY <1>5 DEF Max

\* In a finite set of naturals there is one element with exactly n below, for
\* every n less than its size.
LEMMA NthIs ==
  ASSUME NEW F \in SUBSET Nat, IsFiniteSet(F), NEW n \in Nat, n < Cardinality(F)
  PROVE  \E k \in F : Cardinality({j \in F : j < k}) = n
<1> DEFINE Below(k) == {j \in F : j < k}
           Enough == {k \in F : Cardinality(Below(k)) >= n}
<1>1. ASSUME NEW k \in F
      PROVE  /\ Below(k) \in SUBSET F /\ IsFiniteSet(Below(k))
             /\ Cardinality(Below(k)) \in Nat
  <2>1. Below(k) \in SUBSET F
    OBVIOUS
  <2> HIDE DEF Below
  <2> QED
    BY <2>1, FS_Subset, FS_CardinalityType
<1>2. F # {} /\ Cardinality(F) \in Nat
  BY FS_EmptySet, FS_CardinalityType
<1>3. Enough # {}
  <2>1. PICK m \in F : \A j \in F : j <= m
    BY <1>2, MaxIs
  <2>2. Below(m) = F \ {m}
    <3>1. \A j \in F : j \in Nat
      OBVIOUS
    <3>2. \A j \in F : j < m <=> j # m
      BY <2>1, <3>1
    <3> QED
      BY <3>2
  <2>3. Cardinality(Below(m)) = Cardinality(F) - 1
    BY <2>1, <2>2, FS_RemoveElement
  <2> QED
    BY <1>2, <2>1, <2>3
<1>4. Min(Enough) \in Enough /\ \A k \in Enough : Min(Enough) <= k
  <2>1. Enough \in SUBSET Nat
    OBVIOUS
  <2> HIDE DEF Enough
  <2> QED
    BY <1>3, <2>1, MinIs
<1>5. PICK k \in Enough : \A j \in Enough : k <= j
  BY <1>4
<1>6. Cardinality(Below(k)) = n
  <2> SUFFICES ASSUME Cardinality(Below(k)) > n PROVE FALSE
    BY <1>1
  <2> DEFINE j == Max(Below(k))
  <2>1. Below(k) # {} /\ Below(k) \in SUBSET Nat
    <3>1. Below(k) \in SUBSET F
      OBVIOUS
    <3>2. Cardinality(Below(k)) # 0
      OBVIOUS
    <3> HIDE DEF Below
    <3> QED
      BY <3>1, <3>2, FS_EmptySet
  <2>2. j \in Below(k) /\ \A i \in Below(k) : i <= j
    <3> HIDE DEF Below
    <3> QED
      BY <1>1, <2>1, MaxIs
  <2> HIDE DEF j
  <2>3. Below(j) = Below(k) \ {j}
    <3>1. \A i \in F : i \in Nat
      OBVIOUS
    <3>2. j \in F /\ j < k /\ \A i \in F : i < k => i <= j
      BY <2>2
    <3>3. \A i \in F : i < j <=> (i < k /\ i # j)
      BY <3>1, <3>2
    <3> QED
      BY <3>3
  <2>4. Cardinality(Below(j)) = Cardinality(Below(k)) - 1
    <3> HIDE DEF Below
    <3> QED
      BY <1>1, <2>2, <2>3, FS_RemoveElement
  <2>5. j \in Enough /\ j < k
    BY <1>1, <2>2, <2>4
  <2> QED
    BY <1>5, <2>5
<1> QED
  BY <1>6

\* What is least or greatest.
LEMMA MinUnique ==
  ASSUME NEW S \in SUBSET Nat, NEW m \in S, \A n \in S : m <= n
  PROVE  Min(S) = m
<1>1. Min(S) \in S /\ \A n \in S : Min(S) <= n
  BY MinIs
<1>2. \A x, y \in S : x <= y /\ y <= x => x = y
  OBVIOUS
<1> QED
  BY <1>1, <1>2

LEMMA MaxUnique ==
  ASSUME NEW S \in SUBSET Nat, NEW m \in S, \A n \in S : n <= m
  PROVE  Max(S) = m
<1>1. \A x \in S : (\A y \in S : x >= y) => x = m
  OBVIOUS
<1>2. \A y \in S : m >= y
  OBVIOUS
<1> QED
  BY <1>1, <1>2 DEF Max

\* The first and the last time of some alarms.
LEMMA TimesIs ==
  ASSUME NEW A \in SUBSET Alarms, A # {}
  PROVE  /\ Times(A) \in SUBSET Nat /\ Min(Times(A)) \in Nat /\ Max(Times(A)) \in Nat
         /\ Min(Times(A)) \in Times(A) /\ \A n \in Times(A) : Min(Times(A)) <= n
         /\ Max(Times(A)) \in Times(A) /\ \A n \in Times(A) : n <= Max(Times(A))
<1>1. Times(A) \in SUBSET Nat /\ Times(A) # {}
  BY ConstantsAssumption DEF Times
<1>2. IsFiniteSet(Times(A))
  <2>1. IsFiniteSet(A)
    BY ConstantsAssumption, FS_Subset
  <2> DEFINE f == [a \in A |-> Time[a]]
  <2>2. f \in Surjection(A, Times(A))
    BY DEF Surjection, Times
  <2> QED
    BY <2>1, <2>2, FS_Surjection
<1> HIDE DEF Times
<1> QED
  BY <1>1, <1>2, MinIs, MaxIs

\* They need not be computed again when an alarm joins.
LEMMA TimesOfOne ==
  ASSUME NEW a \in Alarms
  PROVE  Min(Times({a})) = Time[a] /\ Max(Times({a})) = Time[a] /\ Time[a] \in Nat
<1>1. Times({a}) = {Time[a]} /\ Time[a] \in Nat
  BY ConstantsAssumption DEF Times
<1> QED
  BY <1>1, MinUnique, MaxUnique

LEMMA TimesOfMore ==
  ASSUME NEW A \in SUBSET Alarms, A # {}, NEW a \in Alarms
  PROVE  /\ Min({Min(Times(A)), Time[a]}) = Min(Times(A \cup {a}))
         /\ Max({Max(Times(A)), Time[a]}) = Max(Times(A \cup {a}))
<1>1. Times(A \cup {a}) = Times(A) \cup {Time[a]} /\ Time[a] \in Nat
  BY ConstantsAssumption DEF Times
<1> DEFINE T == Times(A)
           l == Min(T)
           g == Max(T)
<1>2. /\ T \in SUBSET Nat /\ l \in Nat /\ g \in Nat
      /\ l \in T /\ \A n \in T : l <= n
      /\ g \in T /\ \A n \in T : n <= g
  BY TimesIs, Zenon
<1> HIDE DEF T, l, g
<1>3. Min({l, Time[a]}) = Min(T \cup {Time[a]})
  <2>1. CASE l <= Time[a]
    <3>1. Min({l, Time[a]}) = l
      BY <1>1, <1>2, <2>1, MinUnique
    <3>2. Min(T \cup {Time[a]}) = l
      BY <1>1, <1>2, <2>1, MinUnique
    <3> QED
      BY <3>1, <3>2
  <2>2. CASE Time[a] < l
    <3>1. Min({l, Time[a]}) = Time[a]
      BY <1>1, <1>2, <2>2, MinUnique
    <3>2. Min(T \cup {Time[a]}) = Time[a]
      BY <1>1, <1>2, <2>2, MinUnique
    <3> QED
      BY <3>1, <3>2
  <2> QED
    BY <1>1, <1>2, <2>1, <2>2
<1>4. Max({g, Time[a]}) = Max(T \cup {Time[a]})
  <2>1. CASE g >= Time[a]
    <3>1. Max({g, Time[a]}) = g
      BY <1>1, <1>2, <2>1, MaxUnique
    <3>2. Max(T \cup {Time[a]}) = g
      BY <1>1, <1>2, <2>1, MaxUnique
    <3> QED
      BY <3>1, <3>2
  <2>2. CASE Time[a] > g
    <3>1. Max({g, Time[a]}) = Time[a]
      BY <1>1, <1>2, <2>2, MaxUnique
    <3>2. Max(T \cup {Time[a]}) = Time[a]
      BY <1>1, <1>2, <2>2, MaxUnique
    <3> QED
      BY <3>1, <3>2
  <2> QED
    BY <1>1, <1>2, <2>1, <2>2
<1> QED
  BY <1>1, <1>3, <1>4 DEF T, l, g

---------------------------------------------------------------------------
(* Matches *)

\* There are finitely many.
LEMMA SlotsFinite ==
  ASSUME NEW T, T \subseteq Slots
  PROVE  IsFiniteSet(T) /\ Cardinality(T) \in Nat
<1>1. IsFiniteSet(Ccs) /\ IsFiniteSet(1..MatchN)
  BY FS_Interval, BoundsAssumption DEF Ccs
<1>2. IsFiniteSet(Slots)
  BY <1>1, FS_Product DEF Slots
<1> QED
  BY <1>2, FS_Subset, FS_CardinalityType

LEMMA MatchOf ==
  ASSUME TypeOK, NEW i \in Used
  PROVE  /\ i \in Slots /\ matchs[i] \in Match /\ matchs[i] # None
         /\ matchs[i].rule \in Loaded /\ matchs[i].rule \in RuleSlots
         /\ matchs[i].alarms \in SUBSET Alarms
BY DEF TypeOK, Used, Match, Loaded

---------------------------------------------------------------------------
(* Removing *)

LEMMA LeftIs ==
  ASSUME NEW m \in Match, NEW gone, ~ m.alarms \subseteq gone
  PROVE  LET k == Left(m, gone) IN
         /\ k \in Match /\ k # None
         /\ k.rule = m.rule /\ k.of = m.of /\ k.keep = m.keep
         /\ k.alarms = m.alarms \ gone /\ k.alarms # {}
         /\ k.fa = Min(Times(k.alarms)) /\ k.la = Max(Times(k.alarms))
<1> DEFINE left == m.alarms \ gone
<1>1. left \in SUBSET Alarms /\ left # {}
  BY DEF Match
<1>2. Min(Times(left)) \in Nat /\ Max(Times(left)) \in Nat
  <2> HIDE DEF left
  <2> QED
    BY <1>1, TimesIs
<1>3. Left(m, gone) = [m EXCEPT !.alarms = left, !.fa = Min(Times(left)),
                                !.la = Max(Times(left))]
  BY DEF Left
<1> HIDE DEF left
<1>4. Left(m, gone) \in Match
  BY <1>1, <1>2, <1>3 DEF Match
<1>5. LET k == Left(m, gone) IN
      /\ k.rule = m.rule /\ k.of = m.of /\ k.keep = m.keep
      /\ k.alarms = left /\ k.fa = Min(Times(left)) /\ k.la = Max(Times(left))
  BY <1>3 DEF Match
<1> QED
  BY <1>1, <1>4, <1>5, NoneAssumption DEF left

\* What stays, and as what.
LEMMA RemovalMatches ==
  ASSUME TypeOK, NEW gone, Removal(gone)
  PROVE  /\ Used' = {i \in Used : ~ matchs[i].alarms \subseteq gone[i]}
         /\ \A i \in Used' :
              /\ i \in Used /\ matchs'[i] \in Match
              /\ matchs'[i].rule = matchs[i].rule /\ matchs'[i].of = matchs[i].of
              /\ matchs'[i].keep = matchs[i].keep
              /\ matchs'[i].alarms = matchs[i].alarms \ gone[i] /\ matchs'[i].alarms # {}
              /\ matchs'[i].fa = Min(Times(matchs'[i].alarms))
              /\ matchs'[i].la = Max(Times(matchs'[i].alarms))
<1> DEFINE Stay == {i \in Used : ~ matchs[i].alarms \subseteq gone[i]}
<1>1. matchs' = [i \in Slots |-> IF i \in Stay THEN Left(matchs[i], gone[i]) ELSE None]
  BY DEF Removal
<1>2. ASSUME NEW i \in Stay
      PROVE  /\ i \in Slots /\ i \in Used /\ matchs'[i] = Left(matchs[i], gone[i])
             /\ matchs[i] \in Match /\ ~ matchs[i].alarms \subseteq gone[i]
  BY <1>1, MatchOf
<1>3. ASSUME NEW i \in Slots, i \notin Stay PROVE matchs'[i] = None
  BY <1>1, <1>3
<1>4. ASSUME NEW i \in Stay PROVE matchs'[i] # None
  <2> HIDE DEF Stay
  <2> QED
    BY <1>2, LeftIs
<1>5. Used' = Stay
  <2>1. Used' = {i \in Slots : matchs'[i] # None}
    BY DEF Used, Slots, Ccs
  <2> HIDE DEF Stay
  <2> QED
    BY <1>2, <1>3, <1>4, <2>1
<1> HIDE DEF Stay
<1>6. ASSUME NEW i \in Used'
      PROVE  /\ i \in Used /\ matchs'[i] \in Match
             /\ matchs'[i].rule = matchs[i].rule /\ matchs'[i].of = matchs[i].of
             /\ matchs'[i].keep = matchs[i].keep
             /\ matchs'[i].alarms = matchs[i].alarms \ gone[i] /\ matchs'[i].alarms # {}
             /\ matchs'[i].fa = Min(Times(matchs'[i].alarms))
             /\ matchs'[i].la = Max(Times(matchs'[i].alarms))
  BY <1>2, <1>5, LeftIs
<1> QED
  BY <1>5, <1>6 DEF Stay

\* The books are right after, if they were before.
LEMMA RemovalBooks ==
  ASSUME TypeOK, BooksRight, NEW gone, Removal(gone)
  PROVE  /\ BooksRight' /\ arc' \in [Alarms -> Nat] /\ rrc' \in [RuleSlots -> Nat]
         /\ inuse' \subseteq inuse /\ live' \subseteq live /\ ccl' = ccl
         /\ ticketed' = ticketed \cap inuse'
<1> DEFINE Stay == {i \in Used : ~ matchs[i].alarms \subseteq gone[i]}
<1>1. /\ Used' = Stay /\ Stay \subseteq Slots /\ Used \subseteq Slots
      /\ \A i \in Stay : /\ matchs'[i].rule = matchs[i].rule
                         /\ matchs'[i].alarms = matchs[i].alarms \ gone[i]
                         /\ matchs'[i].alarms # {}
                         /\ matchs'[i].fa = Min(Times(matchs'[i].alarms))
                         /\ matchs'[i].la = Max(Times(matchs'[i].alarms))
  BY RemovalMatches DEF Used
<1>2. ASSUME NEW a \in Alarms
      PROVE  /\ arc'[a] = Cardinality({i \in Used' : a \in matchs'[i].alarms})
             /\ arc'[a] \in Nat
             /\ arc'[a] > 0 <=> \E i \in Used' : a \in matchs'[i].alarms
  <2> DEFINE Of == {i \in Used : a \in matchs[i].alarms}
             Go == {i \in Used : a \in gone[i] \cap matchs[i].alarms}
             Now == {i \in Used' : a \in matchs'[i].alarms}
  <2>1. arc[a] = Cardinality(Of) /\ arc'[a] = arc[a] - Cardinality(Go)
    BY DEF BooksRight, Removal
  <2>2. Now = Of \ Go /\ Go = Of \cap Go /\ Of \subseteq Slots /\ Now \subseteq Slots
    BY <1>1
  <2> HIDE DEF Of, Go
  <2>3. Cardinality(Now) = arc'[a] /\ Cardinality(Now) \in Nat
    <3>1. IsFiniteSet(Of) /\ Cardinality(Now) \in Nat
      BY <2>2, SlotsFinite
    <3>2. Cardinality(Of \ Go) = Cardinality(Of) - Cardinality(Of \cap Go)
      BY <3>1, FS_Difference
    <3> QED
      BY <2>1, <2>2, <3>1, <3>2
  <2>4. Cardinality(Now) = 0 <=> Now = {}
    <3> HIDE DEF Now
    <3> QED
      BY <2>2, SlotsFinite, FS_EmptySet
  <2> QED
    BY <2>3, <2>4
<1>3. ASSUME NEW s \in RuleSlots
      PROVE  /\ rrc'[s] = Cardinality({i \in Used' : matchs'[i].rule = s})
             /\ rrc'[s] \in Nat
  <2> DEFINE Of == {i \in Used : matchs[i].rule = s}
             Go == {i \in {k \in Used : matchs[k].alarms \subseteq gone[k]} :
                      matchs[i].rule = s}
             Now == {i \in Used' : matchs'[i].rule = s}
  <2>1. rrc[s] = Cardinality(Of) /\ rrc'[s] = rrc[s] - Cardinality(Go)
    BY DEF BooksRight, Removal, RcAfter
  <2>2. Now = Of \ Go /\ Go = Of \cap Go /\ Of \subseteq Slots /\ Now \subseteq Slots
    BY <1>1
  <2> HIDE DEF Of, Go
  <2>3. IsFiniteSet(Of) /\ Cardinality(Now) \in Nat
    BY <2>2, SlotsFinite
  <2>4. Cardinality(Of \ Go) = Cardinality(Of) - Cardinality(Of \cap Go)
    BY <2>3, FS_Difference
  <2> QED
    BY <2>1, <2>2, <2>3, <2>4
<1>4. inuse' = {i[1] : i \in Used'}
  <2>1. inuse' = {c \in inuse : \E i \in Stay : i[1] = c} /\ inuse = {i[1] : i \in Used}
    BY DEF Removal, BooksRight
  <2> QED
    BY <1>1, <2>1
<1>5. live' = UNION {matchs'[i].alarms : i \in Used'}
  <2>1. live' = {a \in live : arc'[a] > 0} /\ live \subseteq Alarms
        /\ live = UNION {matchs[i].alarms : i \in Used}
    BY DEF Removal, TypeOK, BooksRight
  <2>2. \A a \in live : arc'[a] > 0 <=> \E i \in Used' : a \in matchs'[i].alarms
    BY <1>2, <2>1
  <2>3. \A i \in Used' : matchs'[i].alarms \subseteq live
    BY <1>1, <2>1
  <2> QED
    BY <2>1, <2>2, <2>3
<1>6. arc' = [a \in Alarms |-> arc'[a]] /\ rrc' = [s \in RuleSlots |-> rrc'[s]]
  BY DEF Removal
<1>7. arc' \in [Alarms -> Nat] /\ rrc' \in [RuleSlots -> Nat]
  BY <1>2, <1>3, <1>6
<1>8. ticketed' = ticketed \cap inuse' /\ inuse' \subseteq inuse /\ live' \subseteq live /\ ccl' = ccl
  BY DEF Removal, TicketedAfter
<1>9. BooksRight'
  BY <1>1, <1>2, <1>3, <1>4, <1>5 DEF BooksRight, RuleSlots
<1> QED
  BY <1>7, <1>8, <1>9

---------------------------------------------------------------------------
(* Loading rules *)

\* No two rules in memory have the same id
UniqueIds == \A s, q \in Loaded : RuleId[rules[s]] = RuleId[rules[q]] => s = q

\* What holds together of types, books and rules
Base == TypeOK /\ BooksRight /\ UniqueIds /\ MatchKeepsRule

LEMMA LoadedIs ==
  ASSUME TypeOK
  PROVE  /\ Loaded \subseteq RuleSlots
         /\ \A s \in Loaded : rules[s] \in Rules /\ rules[s] # None
BY DEF TypeOK, Loaded

\* Removing leaves the types of all that is in groups; the rest of Base depends on
\* the rules the matches that stay have then.
LEMMA RemovalBase ==
  ASSUME Base, NEW gone, Removal(gone), UNCHANGED came,
         rules' \in [RuleSlots -> Rules \cup {None}], marked' \subseteq Loaded',
         \A i \in Used : matchs[i].alarms \subseteq gone[i]
                         \/ rules'[matchs[i].rule] = rules[matchs[i].rule],
         pc' \in {"off", "load", "read", "rest", "ticket", "prune"},
         goal' \in {"read", "save", "lost"}, UNCHANGED mn,
         loaded' \in RulesFiles \cup {None}, toload' \in Seq(Rules),
         settled' \subseteq came, fails' \in 0..MaxFails, UniqueIds'
  PROVE  Base'
<1>1. /\ BooksRight' /\ arc' \in [Alarms -> Nat] /\ rrc' \in [RuleSlots -> Nat]
      /\ inuse' \subseteq inuse /\ live' \subseteq live /\ ccl' = ccl
      /\ ticketed' = ticketed \cap inuse'
  BY RemovalBooks DEF Base
<1>2. ASSUME NEW i \in Used'
      PROVE  /\ matchs'[i] \in Match /\ matchs'[i].rule \in Loaded'
             /\ rules'[matchs'[i].rule] = matchs'[i].of
  <2>1. /\ i \in Used /\ ~ matchs[i].alarms \subseteq gone[i] /\ matchs'[i] \in Match
        /\ matchs'[i].rule = matchs[i].rule /\ matchs'[i].of = matchs[i].of
    BY RemovalMatches DEF Base
  <2>2. /\ matchs[i].rule \in RuleSlots /\ rules[matchs[i].rule] = matchs[i].of
        /\ rules[matchs[i].rule] # None
    BY <2>1, MatchOf DEF Base, MatchKeepsRule, Loaded
  <2>3. rules'[matchs[i].rule] = rules[matchs[i].rule]
    BY <2>1
  <2> QED
    BY <2>1, <2>2, <2>3 DEF Loaded, RuleSlots
<1>3. TypeOK'
  BY <1>1, <1>2 DEF Base, TypeOK, Ccs, Match, RuleSlots
<1>4. MatchKeepsRule'
  BY <1>2 DEF MatchKeepsRule
<1> QED
  BY <1>1, <1>3, <1>4 DEF Base

LEMMA LoadRuleBase == ASSUME Base, LoadRule PROVE Base'
<1> DEFINE r == Head(toload)
           new == Min(RuleSlots \ Loaded)
           old == {s \in Loaded : RuleId[rules[s]] = RuleId[r]}
           same == \E s \in old : SameRule(r, rules[s])
<1>1. /\ toload \in Seq(Rules) /\ toload # <<>> /\ r \in Rules /\ r # None
      /\ toload' \in Seq(Rules) /\ toload' = Tail(toload)
  BY ConstantsAssumption DEF LoadRule, Base, TypeOK
<1>2. new \in RuleSlots /\ new \notin Loaded
  <2>1. RuleSlots \ Loaded # {} /\ RuleSlots \ Loaded \in SUBSET Nat
    BY DEF LoadRule, Loaded, RuleSlots
  <2> QED
    BY <2>1, MinIs
<1>3. \A s, q \in old : s = q
  BY DEF Base, UniqueIds
<1>4. CASE same
  <2>1. marked' = marked \cup old /\ UNCHANGED <<rules, rrc, ccVars>>
    BY <1>4 DEF LoadRule
  <2>2. old \subseteq Loaded
    OBVIOUS
  <2>3. UNCHANGED <<pc, goal, loaded, mn, came, settled, fails>>
    BY DEF LoadRule
  <2> HIDE DEF old
  <2>4. TypeOK'
    BY <1>1, <2>1, <2>2, <2>3 DEF Base, TypeOK, Loaded, Used, ccVars
  <2>5. BooksRight' /\ UniqueIds' /\ MatchKeepsRule'
    BY <2>1 DEF Base, BooksRight, UniqueIds, MatchKeepsRule, Loaded, Used, ccVars
  <2> QED
    BY <2>4, <2>5 DEF Base
<1>5. CASE ~same
  <2>1. /\ marked' = (marked \ old) \cup {new}
        /\ rules' = [s \in RuleSlots |-> IF s = new THEN r
                       ELSE IF s \in old THEN None ELSE rules[s]]
        /\ IF old = {} THEN UNCHANGED <<rrc, ccVars>> ELSE \E s \in old : Removal(OfRule(s))
    BY <1>5 DEF LoadRule
  <2>2. /\ rules' \in [RuleSlots -> Rules \cup {None}]
        /\ Loaded' = (Loaded \ old) \cup {new} /\ marked' \subseteq Loaded'
        /\ rules'[new] = r /\ \A s \in Loaded \ old : rules'[s] = rules[s]
    <3>1. rules \in [RuleSlots -> Rules \cup {None}] /\ marked \subseteq Loaded
      BY DEF Base, TypeOK
    <3>2. Loaded' = {s \in RuleSlots : rules'[s] # None}
      BY DEF Loaded, RuleSlots
    <3>3. Loaded = {s \in RuleSlots : rules[s] # None} /\ old \subseteq Loaded
      BY DEF Loaded
    <3> HIDE DEF old, r, new
    <3> QED
      BY <1>1, <1>2, <2>1, <3>1, <3>2, <3>3
  <2>3. UniqueIds'
    <3>1. \A s \in Loaded \ old : RuleId[rules'[s]] # RuleId[rules'[new]]
      BY <2>2
    <3> HIDE DEF old, r, new
    <3> QED
      BY <2>2, <3>1 DEF Base, UniqueIds
  <2>4. /\ pc' \in {"off", "load", "read", "rest", "ticket", "prune"}
        /\ goal' \in {"read", "save", "lost"} /\ UNCHANGED <<mn, came>>
        /\ loaded' \in RulesFiles \cup {None}
        /\ settled' \subseteq came /\ fails' \in 0..MaxFails
    BY DEF LoadRule, Base, TypeOK
  <2>5. CASE old = {}
    <3>1. UNCHANGED <<rrc, ccVars>>
      BY <2>1, <2>5
    <3>2. \A i \in Used : matchs[i].rule \in Loaded' /\ rules'[matchs[i].rule] = rules[matchs[i].rule]
      BY <2>2, <2>5, MatchOf DEF Base
    <3>3. TypeOK'
      BY <1>1, <2>2, <2>4, <3>1, <3>2 DEF Base, TypeOK, Used, ccVars
    <3>4. BooksRight' /\ MatchKeepsRule'
      BY <3>1, <3>2 DEF Base, BooksRight, MatchKeepsRule, Used, ccVars
    <3> QED
      BY <2>3, <3>3, <3>4 DEF Base
  <2>6. CASE old # {}
    <3>1. PICK s \in old : Removal(OfRule(s))
      BY <2>1, <2>6
    <3>2. old = {s}
      BY <1>3, <3>1
    <3>3. ASSUME NEW i \in Used, ~ matchs[i].alarms \subseteq OfRule(s)[i]
          PROVE  rules'[matchs[i].rule] = rules[matchs[i].rule]
      <4>1. matchs[i].rule # s
        BY <3>3, MatchOf DEF OfRule, Base
      <4> QED
        BY <2>2, <3>2, <4>1, MatchOf DEF Base
    <3> QED
      BY <1>1, <2>2, <2>3, <2>4, <3>1, <3>3, RemovalBase
  <2> QED
    BY <2>5, <2>6
<1> QED
  BY <1>4, <1>5

LEMMA RemoveUnmarkedBase ==
  ASSUME Base, NEW s \in RuleSlots, RemoveUnmarked(s) PROVE Base'
<1>1. /\ rules' \in [RuleSlots -> Rules \cup {None}] /\ Loaded' = Loaded \ {s}
      /\ \A q \in RuleSlots \ {s} : rules'[q] = rules[q]
  <2>1. Loaded' = {q \in RuleSlots : rules'[q] # None}
    BY DEF Loaded, RuleSlots
  <2> QED
    BY <2>1 DEF RemoveUnmarked, Base, TypeOK, Loaded
<1>2. /\ Removal(OfRule(s)) /\ UNCHANGED <<pc, goal, loaded, toload, marked, mn, came, settled, fails>>
      /\ s \notin marked
  BY DEF RemoveUnmarked
<1>3. /\ marked' \subseteq Loaded' /\ UniqueIds'
  BY <1>1, <1>2 DEF Base, TypeOK, UniqueIds, Loaded
<1>4. \A i \in Used : matchs[i].alarms \subseteq OfRule(s)[i]
                      \/ rules'[matchs[i].rule] = rules[matchs[i].rule]
  BY <1>1, MatchOf DEF OfRule, Base
<1> QED
  BY <1>1, <1>2, <1>3, <1>4, RemovalBase DEF Base, TypeOK

---------------------------------------------------------------------------
(* Packing rules. Packed is the last of a chain of states of the table,    *)
(* one for each gap. That the chain exists, and that every state of it     *)
(* keeps what matters, is shown for the least gap it might fail at.        *)

PackStep(p, g) ==
  LET movable == {s \in RuleSlots : p[s] # None /\ CanMove(s, g)}
  IN IF p[g] # None \/ movable = {} THEN p
     ELSE [p EXCEPT ![g] = p[Min(movable)], ![Min(movable)] = None]

Chain(f, n) ==
  f = [g \in 0..n |-> IF g = 0 THEN rules ELSE PackStep(f[g - 1], g)]

LEMMA ChainExists == BoundsAssumption => \E f : Chain(f, RuleN)
<1> SUFFICES ASSUME RuleN \in Nat PROVE \E f : Chain(f, RuleN)
  BY DEF BoundsAssumption
<1> DEFINE Bad == {n \in 0..RuleN : ~ \E f : Chain(f, n)}
<1>1. SUFFICES ASSUME Bad # {} PROVE FALSE
  OBVIOUS
<1>2. PICK m \in Bad : \A n \in Bad : m <= n
  <2>1. Bad \in SUBSET Nat
    OBVIOUS
  <2> HIDE DEF Bad
  <2> QED
    BY <1>1, <2>1, MinIs
<1>3. CASE m = 0
  <2> DEFINE f == [g \in 0..0 |-> rules]
  <2>1. Chain(f, 0)
    BY DEF Chain
  <2> QED
    BY <1>2, <1>3, <2>1
<1>4. CASE m # 0
  <2>1. m - 1 \in 0..RuleN /\ m - 1 \notin Bad /\ m \in Nat
    BY <1>2, <1>4
  <2>2. PICK f : Chain(f, m - 1)
    BY <2>1
  <2> DEFINE h == [g \in 0..m |-> IF g = m THEN PackStep(f[m - 1], m) ELSE f[g]]
  <2>3. ASSUME NEW g \in 0..m
        PROVE  h[g] = IF g = 0 THEN rules ELSE PackStep(h[g - 1], g)
    <3>1. CASE g = m
      BY <1>4, <2>1, <3>1
    <3>2. CASE g # m
      <4>1. g \in 0..m - 1 /\ (g # 0 => g - 1 \in 0..m - 1)
        BY <2>1, <3>2
      <4>2. f[g] = IF g = 0 THEN rules ELSE PackStep(f[g - 1], g)
        BY <2>2, <4>1 DEF Chain
      <4>3. h[g] = f[g] /\ (g # 0 => h[g - 1] = f[g - 1])
        BY <2>1, <3>2, <4>1
      <4> QED
        BY <4>2, <4>3
    <3> QED
      BY <3>1, <3>2
  <2>4. Chain(h, m)
    <3>1. h = [g \in 0..m |-> h[g]]
      OBVIOUS
    <3> HIDE DEF h
    <3> QED
      BY <2>3, <3>1 DEF Chain
  <2> HIDE DEF h
  <2> QED
    BY <1>2, <2>4
<1> QED
  BY <1>3, <1>4

\* Rules only move: those matches refer to stay where they are, and the others
\* are all there, each id once.
PackedOk(p) ==
  /\ p \in [RuleSlots -> Rules \cup {None}]
  /\ \A s \in RuleSlots : rrc[s] # 0 /\ rules[s] # None => p[s] = rules[s]
  /\ \A s \in Loaded : \E q \in RuleSlots : p[q] = rules[s]
  /\ \A q \in RuleSlots : p[q] # None => \E s \in Loaded : p[q] = rules[s]
  /\ \A s, q \in RuleSlots :
       p[s] # None /\ p[q] # None /\ RuleId[p[s]] = RuleId[p[q]] => s = q

LEMMA PackStepOk ==
  ASSUME NEW p, PackedOk(p), NEW g \in RuleSlots
  PROVE  PackedOk(PackStep(p, g))
<1> DEFINE movable == {s \in RuleSlots : p[s] # None /\ CanMove(s, g)}
           m == Min(movable)
<1>1. CASE p[g] # None \/ movable = {}
  BY <1>1 DEF PackStep
<1>2. CASE p[g] = None /\ movable # {}
  <2>1. m \in movable
    <3>1. movable \in SUBSET Nat
      BY DEF RuleSlots
    <3> HIDE DEF movable
    <3> QED
      BY <1>2, <3>1, MinIs
  <2>2. m \in RuleSlots /\ p[m] # None /\ rrc[m] = 0 /\ m # g
    BY <1>2, <2>1 DEF CanMove
  <2>3. PackStep(p, g) = [p EXCEPT ![g] = p[m], ![m] = None]
    BY <1>2 DEF PackStep
  <2> HIDE DEF m, movable
  <2> DEFINE k == [p EXCEPT ![g] = p[m], ![m] = None]
  <2>4. /\ k \in [RuleSlots -> Rules \cup {None}] /\ k[g] = p[m] /\ k[m] = None
        /\ \A s \in RuleSlots : s # g /\ s # m => k[s] = p[s]
    BY <2>2 DEF PackedOk
  <2> HIDE DEF k
  <2>5. \A s \in RuleSlots : rrc[s] # 0 /\ rules[s] # None => k[s] = rules[s]
    BY <1>2, <2>2, <2>4 DEF PackedOk
  <2>6. \A s \in Loaded : \E q \in RuleSlots : k[q] = rules[s]
    <3> SUFFICES ASSUME NEW s \in Loaded PROVE \E q \in RuleSlots : k[q] = rules[s]
      OBVIOUS
    <3>1. PICK q \in RuleSlots : p[q] = rules[s]
      BY DEF PackedOk
    <3>2. rules[s] # None
      BY DEF Loaded
    <3> QED
      BY <1>2, <2>4, <3>1, <3>2
  <2>7. \A q \in RuleSlots : k[q] # None => \E s \in Loaded : k[q] = rules[s]
    BY <2>2, <2>4 DEF PackedOk
  <2>8. \A s, q \in RuleSlots :
          k[s] # None /\ k[q] # None /\ RuleId[k[s]] = RuleId[k[q]] => s = q
    <3>1. ASSUME NEW s \in RuleSlots, NEW q \in RuleSlots, k[s] # None, k[q] # None,
                 RuleId[k[s]] = RuleId[k[q]]
          PROVE  s = q
      <4> DEFINE Was(x) == IF x = g THEN m ELSE x
      <4>1. /\ Was(s) \in RuleSlots /\ Was(q) \in RuleSlots
            /\ k[s] = p[Was(s)] /\ k[q] = p[Was(q)]
        BY <2>2, <2>4, <3>1
      <4>2. Was(s) = Was(q)
        <5> HIDE DEF Was
        <5> QED
          BY <3>1, <4>1 DEF PackedOk
      <4> QED
        BY <2>4, <3>1, <4>2
    <3> QED
      BY <3>1
  <2>9. PackedOk(k)
    BY <2>4, <2>5, <2>6, <2>7, <2>8 DEF PackedOk
  <2> QED
    BY <2>3, <2>9 DEF k
<1> QED
  BY <1>1, <1>2

LEMMA PackedIs == ASSUME TypeOK, UniqueIds PROVE PackedOk(Packed)
<1> DEFINE h == CHOOSE h : Chain(h, RuleN)
<1>1. Chain(h, RuleN)
  BY ChainExists, BoundsAssumption
<1>2. Packed = h[RuleN]
  BY Zenon DEF Packed, PackStep, Chain
<1> HIDE DEF h
<1>3. ASSUME NEW g \in 0..RuleN PROVE h[g] = IF g = 0 THEN rules ELSE PackStep(h[g - 1], g)
  BY <1>1 DEF Chain
<1> DEFINE Bad == {g \in 0..RuleN : ~ PackedOk(h[g])}
<1>4. SUFFICES ASSUME Bad # {} PROVE FALSE
  BY <1>2, BoundsAssumption
<1>5. PICK m \in Bad : \A n \in Bad : m <= n
  <2>1. Bad \in SUBSET Nat
    OBVIOUS
  <2> HIDE DEF Bad
  <2> QED
    BY <1>4, <2>1, MinIs
<1>6. CASE m = 0
  <2>1. h[0] = rules
    BY <1>3, BoundsAssumption
  <2>2. PackedOk(rules)
    BY DEF PackedOk, TypeOK, UniqueIds, Loaded
  <2> QED
    BY <1>5, <1>6, <2>1, <2>2
<1>7. CASE m # 0
  <2>1. m - 1 \in 0..RuleN /\ m - 1 \notin Bad /\ m \in RuleSlots /\ m \in 0..RuleN
    BY <1>5, <1>7, BoundsAssumption DEF RuleSlots
  <2>2. PackedOk(h[m - 1]) /\ h[m] = PackStep(h[m - 1], m)
    BY <1>3, <1>7, <2>1
  <2> QED
    BY <1>5, <2>1, <2>2, PackStepOk
<1> QED
  BY <1>6, <1>7

LEMMA LoadEndBase == ASSUME Base, LoadEnd PROVE Base'
<1>1. /\ rules' = Packed /\ marked' = {} /\ pc' = "read"
      /\ UNCHANGED <<goal, loaded, toload, rrc, ccVars, mn, came, settled, fails>>
  BY DEF LoadEnd
<1>2. PackedOk(rules')
  BY <1>1, PackedIs DEF Base
<1>3. ASSUME NEW i \in Used
      PROVE  matchs[i].rule \in Loaded' /\ rules'[matchs[i].rule] = rules[matchs[i].rule]
  <2> DEFINE s == matchs[i].rule
             Of == {k \in Used : matchs[k].rule = s}
  <2>1. s \in RuleSlots /\ rules[s] # None
    BY MatchOf DEF Base, Loaded
  <2>2. rrc[s] = Cardinality(Of) /\ Of \subseteq Slots /\ Of # {}
    BY <2>1 DEF Base, BooksRight, Used
  <2>3. rrc[s] # 0
    <3> HIDE DEF Of
    <3> QED
      BY <2>2, SlotsFinite, FS_EmptySet
  <2>4. rules'[s] = rules[s]
    BY <1>2, <2>1, <2>3 DEF PackedOk
  <2> QED
    BY <2>1, <2>4 DEF Loaded, RuleSlots
<1>4. TypeOK'
  BY <1>1, <1>2, <1>3 DEF Base, TypeOK, PackedOk, Used, ccVars
<1>5. UniqueIds'
  BY <1>2 DEF PackedOk, UniqueIds, Loaded
<1>6. BooksRight' /\ MatchKeepsRule'
  BY <1>1, <1>3 DEF Base, BooksRight, MatchKeepsRule, Used, ccVars
<1> QED
  BY <1>4, <1>5, <1>6 DEF Base

---------------------------------------------------------------------------
(* Inserting *)

\* The rules that make a match in a group take different free places of it.
LEMMA NewSlotIs ==
  ASSUME NEW c \in Ccs, NEW fits \in SUBSET RuleSlots,
         Cardinality({k \in 1..MatchN : matchs[<<c, k>>] = None}) >= Cardinality(fits),
         NEW s \in fits
  PROVE  /\ NewSlot(c, s, fits) \in Slots \ Used /\ NewSlot(c, s, fits)[1] = c
         /\ \A q \in fits : NewSlot(c, q, fits) = NewSlot(c, s, fits) => q = s
<1> DEFINE free == {k \in 1..MatchN : matchs[<<c, k>>] = None}
           Rank(q) == Cardinality({x \in fits : x < q})
           Place(q) == CHOOSE k \in free : Cardinality({j \in free : j < k}) = Rank(q)
<1>1. IsFiniteSet(fits) /\ IsFiniteSet(free) /\ Cardinality(free) \in Nat /\ free \in SUBSET Nat
  <2>1. IsFiniteSet(1..MatchN) /\ IsFiniteSet(RuleSlots) /\ free \in SUBSET (1..MatchN)
    BY BoundsAssumption, FS_Interval DEF RuleSlots
  <2> HIDE DEF free
  <2>2. IsFiniteSet(free) /\ Cardinality(free) \in Nat /\ IsFiniteSet(fits)
    BY <2>1, FS_Subset, FS_CardinalityType
  <2>3. free \in SUBSET Nat
    BY <2>1, BoundsAssumption
  <2> QED
    BY <2>2, <2>3
<1>2. \A x \in fits : x \in Nat
  BY DEF RuleSlots
<1>3. ASSUME NEW q \in fits
      PROVE  /\ Rank(q) \in Nat /\ Rank(q) < Cardinality(fits) /\ Cardinality(fits) \in Nat
             /\ \A x \in fits : x < q => Rank(x) < Rank(q)
  <2> DEFINE Under(y) == {x \in fits : x < y}
  <2>1. \A y : IsFiniteSet(Under(y)) /\ Cardinality(Under(y)) \in Nat /\ Under(y) \in SUBSET fits
    <3>1. \A y : Under(y) \in SUBSET fits
      OBVIOUS
    <3> HIDE DEF Under
    <3> QED
      BY <1>1, <3>1, FS_Subset, FS_CardinalityType
  <2>2. q \notin Under(q)
    BY <1>2
  <2>3. Rank(q) < Cardinality(fits) /\ Cardinality(fits) \in Nat
    <3> HIDE DEF Under
    <3>1. Under(q) # fits
      BY <2>2
    <3>2. Cardinality(Under(q)) < Cardinality(fits) /\ Cardinality(fits) \in Nat
      BY <1>1, <2>1, <3>1, FS_Subset, FS_CardinalityType
    <3> QED
      BY <3>2 DEF Under
  <2>4. ASSUME NEW x \in fits, x < q PROVE Rank(x) < Rank(q)
    <3>1. \A y \in fits : y < x => y < q
      BY <1>2, <2>4
    <3>2. x \in Under(q) /\ x \notin Under(x) /\ Under(x) \in SUBSET Under(q)
      BY <1>2, <2>4, <3>1
    <3> HIDE DEF Under
    <3>3. Cardinality(Under(x)) < Cardinality(Under(q))
      BY <2>1, <3>2, FS_Subset
    <3> QED
      BY <3>3 DEF Under
  <2> QED
    BY <2>1, <2>3, <2>4
<1>4. ASSUME NEW q \in fits
      PROVE  /\ Place(q) \in free /\ Cardinality({j \in free : j < Place(q)}) = Rank(q)
             /\ NewSlot(c, q, fits) = <<c, Place(q)>>
  <2>1. Rank(q) \in Nat /\ Rank(q) < Cardinality(free)
    <3> HIDE DEF free, Rank
    <3> QED
      BY <1>1, <1>3, Cardinality(free) >= Cardinality(fits) DEF free
  <2>2. \E k \in free : Cardinality({j \in free : j < k}) = Rank(q)
    <3> HIDE DEF free, Rank
    <3> QED
      BY <1>1, <2>1, NthIs
  <2>3. NewSlot(c, q, fits) = <<c, Place(q)>>
    BY Zenon DEF NewSlot
  <2> HIDE DEF free, Rank
  <2> QED
    BY <2>2, <2>3
<1>5. NewSlot(c, s, fits) \in Slots \ Used /\ NewSlot(c, s, fits)[1] = c
  <2> DEFINE k == Place(s)
  <2>1. k \in 1..MatchN /\ matchs[<<c, k>>] = None /\ NewSlot(c, s, fits) = <<c, k>>
    BY <1>4
  <2> HIDE DEF k
  <2> QED
    BY <2>1 DEF Slots, Used
<1>6. ASSUME NEW q \in fits, NewSlot(c, q, fits) = NewSlot(c, s, fits) PROVE q = s
  <2>1. Rank(q) = Rank(s)
    <3>1. <<c, Place(q)>> = <<c, Place(s)>>
      BY <1>4, <1>6
    <3> HIDE DEF Place
    <3>2. Place(q) = Place(s)
      BY <3>1
    <3> QED
      BY <1>4, <3>2
  <2> HIDE DEF Rank
  <2>2. ~ q < s /\ ~ s < q
    BY <1>3, <2>1
  <2> QED
    BY <1>2, <2>2
<1> QED
  BY <1>5, <1>6

LEMMA FreeCcIs ==
  ASSUME TypeOK, Ccs # inuse
  PROVE  FreeCc \in Ccs
<1> DEFINE free == Ccs \ inuse
           above == {c \in free : c >= ccl}
<1>1. free # {} /\ free \in SUBSET Nat /\ above \in SUBSET Nat /\ above \in SUBSET free
  <2>1. inuse \in SUBSET Ccs /\ Ccs \in SUBSET Nat
    BY BoundsAssumption DEF TypeOK, Ccs
  <2> QED
    BY <2>1
<1>2. FreeCc = IF above # {} THEN Min(above) ELSE Min(free)
  BY DEF FreeCc
<1> HIDE DEF free, above
<1>3. FreeCc \in free
  BY <1>1, <1>2, MinIs
<1> QED
  BY <1>3 DEF free

\* The group a match is made in.
LEMMA GroupIs ==
  ASSUME TypeOK, NEW joined \in SUBSET Used, NEW fits, MayMatch(joined, fits)
  PROVE  (IF joined = {} THEN FreeCc ELSE Min({i[1] : i \in joined})) \in Ccs
<1>1. CASE joined = {}
  BY <1>1, FreeCcIs DEF MayMatch
<1>2. CASE joined # {}
  <2> DEFINE G == {i[1] : i \in joined}
  <2>1. G # {} /\ G \in SUBSET Ccs /\ G \in SUBSET Nat
    BY <1>2 DEF Used, Slots, Ccs
  <2> HIDE DEF G
  <2>2. Min(G) \in Ccs
    BY <2>1, MinIs
  <2> QED
    BY <1>2, <2>2 DEF G
<1> QED
  BY <1>1, <1>2

LEMMA JoinedIs ==
  ASSUME NEW m \in Match, m.alarms # {}, NEW a \in Alarms,
         m.fa = Min(Times(m.alarms)), m.la = Max(Times(m.alarms))
  PROVE  LET k == Joined(m, a) IN
         /\ k \in Match /\ k # None
         /\ k.rule = m.rule /\ k.of = m.of /\ k.keep = (m.keep \/ a \in Keeps)
         /\ k.alarms = m.alarms \cup {a}
         /\ k.fa = Min(Times(k.alarms)) /\ k.la = Max(Times(k.alarms))
<1> DEFINE A == m.alarms \cup {a}
<1>1. m.alarms \in SUBSET Alarms /\ A \in SUBSET Alarms /\ A # {}
  BY DEF Match
<1>2. Min({m.fa, Time[a]}) = Min(Times(A)) /\ Max({m.la, Time[a]}) = Max(Times(A))
  BY <1>1, TimesOfMore
<1>3. Min(Times(A)) \in Nat /\ Max(Times(A)) \in Nat
  <2> HIDE DEF A
  <2> QED
    BY <1>1, TimesIs
<1>4. Joined(m, a) = [m EXCEPT !.alarms = A, !.fa = Min(Times(A)), !.la = Max(Times(A)),
                               !.keep = m.keep \/ a \in Keeps]
  BY <1>2 DEF Joined
<1>5. (m.keep \/ a \in Keeps) \in BOOLEAN
  BY DEF Match
<1> DEFINE keep == m.keep \/ a \in Keeps
           f == Min(Times(A))
           l == Max(Times(A))
<1> HIDE DEF A, keep, f, l
<1>6. [m EXCEPT !.alarms = A, !.fa = f, !.la = l, !.keep = keep] \in Match
  BY <1>1, <1>3, <1>5 DEF Match, keep, f, l
<1>7. LET k == [m EXCEPT !.alarms = A, !.fa = f, !.la = l, !.keep = keep] IN
      /\ k.rule = m.rule /\ k.of = m.of /\ k.keep = keep
      /\ k.alarms = A /\ k.fa = f /\ k.la = l
  BY DEF Match
<1>8. Joined(m, a) = [m EXCEPT !.alarms = A, !.fa = f, !.la = l, !.keep = keep]
  BY <1>4 DEF keep, f, l
<1> QED
  BY <1>6, <1>7, <1>8, NoneAssumption DEF A, keep, f, l

LEMMA NewIs ==
  ASSUME TypeOK, NEW s \in Loaded, NEW a \in Alarms
  PROVE  LET k == New(s, a) IN
         /\ k \in Match /\ k # None
         /\ k.rule = s /\ k.of = rules[s] /\ k.keep = (a \in Keeps) /\ k.alarms = {a}
         /\ k.fa = Min(Times({a})) /\ k.la = Max(Times({a}))
<1>1. s \in RuleSlots /\ rules[s] \in Rules
  BY LoadedIs
<1>2. Min(Times({a})) = Time[a] /\ Max(Times({a})) = Time[a] /\ Time[a] \in Nat
  BY TimesOfOne
<1>3. (a \in Keeps) \in BOOLEAN /\ {a} \in SUBSET Alarms
  OBVIOUS
<1> DEFINE keep == a \in Keeps
           A == {a}
<1>4. New(s, a) = [rule |-> s, of |-> rules[s], alarms |-> A,
                   fa |-> Time[a], la |-> Time[a], keep |-> keep]
  BY DEF New
<1> HIDE DEF keep, A
<1>5. New(s, a) \in Match
  BY <1>1, <1>2, <1>3, <1>4 DEF Match, keep, A
<1>6. LET k == New(s, a) IN
      /\ k.rule = s /\ k.of = rules[s] /\ k.keep = keep /\ k.alarms = A
      /\ k.fa = Time[a] /\ k.la = Time[a]
  BY <1>4
<1> QED
  BY <1>2, <1>5, <1>6, NoneAssumption DEF keep, A

\* The matches after an alarm was put into those it joins and those it makes.
InsertDone(a, joined, fits, made) ==
  /\ made \in SUBSET Slots /\ made \cap Used = {} /\ joined \cup made # {}
  /\ Used' = Used \cup made
  /\ \A i \in Used \ joined : matchs'[i] = matchs[i]
  /\ \A i \in joined :
       /\ matchs'[i] \in Match
       /\ matchs'[i].rule = matchs[i].rule /\ matchs'[i].of = matchs[i].of
       /\ matchs'[i].keep = (matchs[i].keep \/ a \in Keeps)
       /\ matchs'[i].alarms = matchs[i].alarms \cup {a}
       /\ matchs'[i].fa = Min(Times(matchs'[i].alarms))
       /\ matchs'[i].la = Max(Times(matchs'[i].alarms))
  /\ \A i \in made :
       /\ matchs'[i] \in Match
       /\ matchs'[i].rule \in fits /\ matchs'[i].of = rules[matchs'[i].rule]
       /\ matchs'[i].keep = (a \in Keeps) /\ matchs'[i].alarms = {a}
       /\ matchs'[i].fa = Min(Times(matchs'[i].alarms))
       /\ matchs'[i].la = Max(Times(matchs'[i].alarms))
  /\ \A s \in fits : \E i \in made :
       matchs'[i].rule = s /\ \A k \in made : matchs'[k].rule = s => k = i
  /\ inuse' = inuse \cup {i[1] : i \in joined} \cup {i[1] : i \in made}
  /\ ccl' \in 0..CcN
  /\ rrc' = [s \in RuleSlots |-> rrc[s] + (IF s \in fits THEN 1 ELSE 0)]
  /\ arc' = [arc EXCEPT ![a] = @ + Cardinality(joined \cup made)]
  /\ live' = live \cup {a} /\ mn' = TRUE
  /\ settled' = IF ({i[1] : i \in joined} \cup {i[1] : i \in made}) \cap ticketed # {}
                THEN settled \cup {a} ELSE settled
  /\ ticketed' = ticketed

LEMMA InsertIs ==
  ASSUME Base, NEW a \in Alarms, NEW joined \in SUBSET Used, NEW fits \in SUBSET Loaded,
         joined # {} \/ fits # {}, MayMatch(joined, fits), Insert(a, joined, fits)
  PROVE  \E made : InsertDone(a, joined, fits, made)
<1> DEFINE cc == IF joined = {} THEN FreeCc ELSE Min({i[1] : i \in joined})
           made == {NewSlot(cc, s, fits) : s \in fits}
           into == {i[1] : i \in joined} \cup {i[1] : i \in made}
<1>1. /\ Cardinality({k \in 1..MatchN : matchs[<<cc, k>>] = None}) >= Cardinality(fits)
      /\ matchs' = [i \in Slots |->
           IF i \in joined THEN Joined(matchs[i], a)
           ELSE IF i \in made THEN New(CHOOSE s \in fits : NewSlot(cc, s, fits) = i, a)
           ELSE matchs[i]]
      /\ inuse' = inuse \cup into
      /\ ccl' = IF joined = {} THEN cc + 1 ELSE ccl
      /\ rrc' = [s \in RuleSlots |-> rrc[s] + (IF s \in fits THEN 1 ELSE 0)]
      /\ arc' = [arc EXCEPT ![a] = @ + Cardinality(joined \cup made)]
      /\ live' = live \cup {a}
      /\ mn' = (mn \/ Counts(joined, made))
      /\ settled' = IF into \cap ticketed # {} THEN settled \cup {a} ELSE settled
      /\ UNCHANGED ticketed
  BY Zenon DEF Insert
<1>2. cc \in Ccs
  BY GroupIs DEF Base
<1>3. fits \in SUBSET RuleSlots
  BY LoadedIs DEF Base
<1> HIDE DEF cc
<1>4. ASSUME NEW s \in fits
      PROVE  /\ NewSlot(cc, s, fits) \in Slots \ Used
             /\ \A q \in fits : NewSlot(cc, q, fits) = NewSlot(cc, s, fits) => q = s
  BY <1>1, <1>2, <1>3, NewSlotIs
<1>5. made \in SUBSET Slots /\ made \cap Used = {} /\ made \cap joined = {}
      /\ joined \cup made # {}
  BY <1>4
<1>6. ASSUME NEW s \in fits
      PROVE  /\ NewSlot(cc, s, fits) \in made
             /\ matchs'[NewSlot(cc, s, fits)] = New(s, a)
  <2> DEFINE i == NewSlot(cc, s, fits)
  <2>1. i \in made /\ i \in Slots /\ i \notin joined
    BY <1>5
  <2>2. (CHOOSE q \in fits : NewSlot(cc, q, fits) = i) = s
    BY <1>4
  <2> HIDE DEF i, made
  <2> QED
    BY <1>1, <2>1, <2>2 DEF i
<1>7. ASSUME NEW i \in joined PROVE matchs'[i] = Joined(matchs[i], a)
  BY <1>1 DEF Used
<1>8. ASSUME NEW i \in Slots, i \notin joined, i \notin made PROVE matchs'[i] = matchs[i]
  <2> HIDE DEF made
  <2> QED
    BY <1>1, <1>8
<1>9. ASSUME NEW i \in joined
      PROVE  /\ matchs'[i] \in Match /\ matchs'[i] # None
             /\ matchs'[i].rule = matchs[i].rule /\ matchs'[i].of = matchs[i].of
             /\ matchs'[i].keep = (matchs[i].keep \/ a \in Keeps)
             /\ matchs'[i].alarms = matchs[i].alarms \cup {a}
             /\ matchs'[i].fa = Min(Times(matchs'[i].alarms))
             /\ matchs'[i].la = Max(Times(matchs'[i].alarms))
  <2>1. /\ matchs[i] \in Match /\ matchs[i].alarms # {}
        /\ matchs[i].fa = Min(Times(matchs[i].alarms))
        /\ matchs[i].la = Max(Times(matchs[i].alarms))
    BY DEF Base, TypeOK, BooksRight
  <2> QED
    BY <1>7, <2>1, JoinedIs
<1>10. ASSUME NEW s \in fits
       PROVE  LET k == matchs'[NewSlot(cc, s, fits)] IN
              /\ k \in Match /\ k # None
              /\ k.rule = s /\ k.of = rules[s] /\ k.keep = (a \in Keeps) /\ k.alarms = {a}
              /\ k.fa = Min(Times({a})) /\ k.la = Max(Times({a}))
  BY <1>6, NewIs DEF Base
<1>11. ASSUME NEW i \in made
       PROVE  /\ matchs'[i] \in Match /\ matchs'[i] # None
              /\ matchs'[i].rule \in fits /\ matchs'[i].of = rules[matchs'[i].rule]
              /\ matchs'[i].keep = (a \in Keeps) /\ matchs'[i].alarms = {a}
              /\ matchs'[i].fa = Min(Times(matchs'[i].alarms))
              /\ matchs'[i].la = Max(Times(matchs'[i].alarms))
              /\ i = NewSlot(cc, matchs'[i].rule, fits)
  <2>1. PICK s \in fits : i = NewSlot(cc, s, fits)
    OBVIOUS
  <2> HIDE DEF made
  <2> QED
    BY <1>10, <2>1
<1>12. Used' = Used \cup made
  <2>1. Used' = {i \in Slots : matchs'[i] # None}
    BY DEF Used, Slots, Ccs
  <2>2. \A i \in Slots : i \notin joined /\ i \notin made => matchs'[i] = matchs[i]
    BY <1>8, Zenon
  <2>3. Used = {i \in Slots : matchs[i] # None}
    BY DEF Used
  <2> HIDE DEF made
  <2> QED
    BY <1>5, <1>9, <1>11, <2>1, <2>2, <2>3
<1>13. \A i \in Used \ joined : matchs'[i] = matchs[i]
  <2> HIDE DEF made
  <2> QED
    BY <1>5, <1>8 DEF Used
<1>14. ASSUME NEW s \in fits
       PROVE  \E i \in made : matchs'[i].rule = s /\ \A k \in made : matchs'[k].rule = s => k = i
  <2>1. NewSlot(cc, s, fits) \in made /\ matchs'[NewSlot(cc, s, fits)].rule = s
    BY <1>6, <1>10
  <2>2. \A k \in made : matchs'[k].rule = s => k = NewSlot(cc, s, fits)
    <3> HIDE DEF made
    <3> QED
      BY <1>11
  <2> QED
    BY <2>1, <2>2
<1>15. ccl' \in 0..CcN
  BY <1>1, <1>2, BoundsAssumption DEF Base, TypeOK, Ccs
<1>16. mn' = TRUE
  <2>1. Counts(joined, made)
    <3> HIDE DEF made
    <3> QED
      BY <1>5 DEF Counts
  <2> QED
    BY <1>1, <2>1
<1> HIDE DEF made
<1>17. InsertDone(a, joined, fits, made)
  BY <1>1, <1>5, <1>9, <1>11, <1>12, <1>13, <1>14, <1>15, <1>16 DEF InsertDone, into
<1> QED
  BY <1>17

LEMMA InsertBase ==
  ASSUME Base, NEW a \in Alarms, a \notin came, NEW joined \in SUBSET Used,
         NEW fits \in SUBSET Loaded, MayMatch(joined, fits),
         NEW made, InsertDone(a, joined, fits, made),
         UNCHANGED <<loaded, toload, rules, marked>>, came' = came \cup {a},
         pc' \in {"off", "load", "read", "rest", "ticket", "prune"},
         goal' \in {"read", "save", "lost"}, fails' \in 0..MaxFails
  PROVE  Base'
<1>1. /\ TypeOK /\ BooksRight /\ UniqueIds /\ MatchKeepsRule
      /\ Used \subseteq Slots /\ made \subseteq Slots /\ made \cap Used = {}
      /\ Used' = Used \cup made /\ joined \subseteq Used
  BY DEF Base, InsertDone, Used
<1>2. ASSUME NEW i \in Used
      PROVE  /\ matchs'[i] \in Match /\ matchs'[i].rule = matchs[i].rule
             /\ matchs'[i].of = matchs[i].of
             /\ matchs'[i].alarms = matchs[i].alarms \cup (IF i \in joined THEN {a} ELSE {})
             /\ a \notin matchs[i].alarms /\ matchs[i].alarms # {}
             /\ matchs'[i].fa = Min(Times(matchs'[i].alarms))
             /\ matchs'[i].la = Max(Times(matchs'[i].alarms))
  <2>1. /\ a \notin matchs[i].alarms /\ matchs[i].alarms # {} /\ matchs[i] \in Match
        /\ matchs[i].fa = Min(Times(matchs[i].alarms))
        /\ matchs[i].la = Max(Times(matchs[i].alarms))
    BY <1>1 DEF BooksRight, TypeOK
  <2>2. CASE i \in joined
    BY <2>1, <2>2 DEF InsertDone
  <2>3. CASE i \notin joined
    BY <2>1, <2>3 DEF InsertDone
  <2> QED
    BY <2>2, <2>3
<1>3. ASSUME NEW i \in made
      PROVE  /\ matchs'[i] \in Match /\ matchs'[i].rule \in fits
             /\ matchs'[i].of = rules[matchs'[i].rule] /\ matchs'[i].alarms = {a}
             /\ matchs'[i].fa = Min(Times(matchs'[i].alarms))
             /\ matchs'[i].la = Max(Times(matchs'[i].alarms))
  BY DEF InsertDone
<1>4. Loaded' = Loaded /\ fits \subseteq RuleSlots /\ rules' = rules
  BY <1>1, LoadedIs DEF Loaded, RuleSlots
<1>5. ASSUME NEW b \in Alarms
      PROVE  /\ arc'[b] = Cardinality({i \in Used' : b \in matchs'[i].alarms})
             /\ arc'[b] \in Nat
  <2> DEFINE Was == {i \in Used : b \in matchs[i].alarms}
             Now == {i \in Used' : b \in matchs'[i].alarms}
  <2>1. arc[b] = Cardinality(Was) /\ arc \in [Alarms -> Nat]
    BY <1>1 DEF BooksRight, TypeOK
  <2>2. arc' = [arc EXCEPT ![a] = @ + Cardinality(joined \cup made)]
    BY DEF InsertDone
  <2>3. CASE b = a
    <3>1. Was = {} /\ Now = joined \cup made
      BY <1>1, <1>2, <1>3, <2>3
    <3>2. joined \cup made \subseteq Slots
      BY <1>1
    <3>3. Cardinality(joined \cup made) \in Nat
      BY <3>2, SlotsFinite
    <3> HIDE DEF Was, Now
    <3>4. arc[b] = 0
      BY <2>1, <3>1, FS_EmptySet
    <3>5. arc'[b] = Cardinality(Now)
      BY <2>1, <2>2, <2>3, <3>1, <3>3, <3>4
    <3> QED
      BY <3>1, <3>3, <3>5 DEF Now
  <2>4. CASE b # a
    <3>1. Now = Was
      BY <1>1, <1>2, <1>3, <2>4
    <3> HIDE DEF Was, Now
    <3> QED
      BY <2>1, <2>2, <2>4, <3>1 DEF Now
  <2> QED
    BY <2>3, <2>4
<1>6. ASSUME NEW s \in RuleSlots
      PROVE  /\ rrc'[s] = Cardinality({i \in Used' : matchs'[i].rule = s})
             /\ rrc'[s] \in Nat
  <2> DEFINE Was == {i \in Used : matchs[i].rule = s}
             Now == {i \in Used' : matchs'[i].rule = s}
  <2>1. /\ rrc[s] = Cardinality(Was) /\ rrc[s] \in Nat
        /\ rrc'[s] = rrc[s] + (IF s \in fits THEN 1 ELSE 0)
    BY <1>1 DEF BooksRight, TypeOK, InsertDone
  <2>2. IsFiniteSet(Was)
    <3>1. Was \subseteq Slots
      BY <1>1
    <3> HIDE DEF Was
    <3> QED
      BY <3>1, SlotsFinite
  <2>3. CASE s \in fits
    <3>1. PICK i \in made : matchs'[i].rule = s /\ \A k \in made : matchs'[k].rule = s => k = i
      BY <2>3 DEF InsertDone
    <3>2. Now = Was \cup {i} /\ i \notin Was
      BY <1>1, <1>2, <3>1
    <3> HIDE DEF Was, Now
    <3>3. Cardinality(Now) = Cardinality(Was) + 1
      BY <2>2, <3>2, FS_AddElement
    <3> QED
      BY <2>1, <2>3, <3>3 DEF Now
  <2>4. CASE s \notin fits
    <3>1. Now = Was
      BY <1>1, <1>2, <1>3, <2>4
    <3> HIDE DEF Was, Now
    <3>2. rrc'[s] = Cardinality(Now) /\ rrc'[s] \in Nat
      BY <2>1, <2>4, <3>1
    <3> QED
      BY <3>2 DEF Now
  <2> QED
    BY <2>3, <2>4
<1>7. inuse' = {i[1] : i \in Used'} /\ inuse \subseteq inuse' /\ inuse' \subseteq Ccs
  <2>1. inuse' = inuse \cup {i[1] : i \in joined} \cup {i[1] : i \in made}
        /\ inuse = {i[1] : i \in Used} /\ inuse \subseteq Ccs
    BY <1>1 DEF InsertDone, BooksRight, TypeOK
  <2>2. inuse' = {i[1] : i \in Used'}
    BY <1>1, <2>1
  <2>3. \A i \in made : i[1] \in Ccs
    BY <1>1 DEF Slots
  <2>4. \A i \in joined : i[1] \in Ccs
    BY <1>1 DEF Slots
  <2> QED
    BY <2>1, <2>2, <2>3, <2>4
<1>8. live' = UNION {matchs'[i].alarms : i \in Used'}
  <2>1. live' = live \cup {a} /\ live = UNION {matchs[i].alarms : i \in Used}
        /\ joined \cup made # {}
    BY <1>1 DEF InsertDone, BooksRight
  <2>2. \A b \in live' : \E i \in Used' : b \in matchs'[i].alarms
    <3>1. \E i \in Used' : a \in matchs'[i].alarms
      BY <1>1, <1>2, <1>3, <2>1
    <3>2. \A b \in live : \E i \in Used' : b \in matchs'[i].alarms
      BY <1>1, <1>2, <2>1
    <3> QED
      BY <2>1, <3>1, <3>2
  <2>3. \A i \in Used' : matchs'[i].alarms \subseteq live'
    BY <1>1, <1>2, <1>3, <2>1
  <2> QED
    BY <2>2, <2>3
<1>9. BooksRight'
  <2>1. \A i \in Used' : /\ matchs'[i].alarms # {}
                         /\ matchs'[i].fa = Min(Times(matchs'[i].alarms))
                         /\ matchs'[i].la = Max(Times(matchs'[i].alarms))
    BY <1>1, <1>2, <1>3
  <2> QED
    BY <1>5, <1>6, <1>7, <1>8, <2>1 DEF BooksRight, RuleSlots
<1>10. MatchKeepsRule'
  BY <1>1, <1>2, <1>3, <1>4 DEF MatchKeepsRule
<1>11. UniqueIds'
  BY <1>1, <1>4 DEF UniqueIds
<1>12. TypeOK'
  <2>1. \A i \in Used' : matchs'[i] \in Match /\ matchs'[i].rule \in Loaded'
    BY <1>1, <1>2, <1>3, <1>4, MatchOf
  <2>2. arc' \in [Alarms -> Nat]
    <3>1. arc' = [b \in Alarms |-> arc'[b]]
      BY <1>1 DEF InsertDone, TypeOK
    <3> QED
      BY <1>5, <3>1
  <2>3. rrc' \in [RuleSlots -> Nat]
    <3>1. rrc' = [s \in RuleSlots |-> rrc'[s]]
      BY DEF InsertDone
    <3> QED
      BY <1>6, <3>1
  <2>4. /\ ticketed' \subseteq inuse' /\ ccl' \in 0..CcN /\ mn' \in BOOLEAN
        /\ live' \subseteq came' /\ came' \subseteq Alarms /\ settled' \subseteq came'
    BY <1>1, <1>7 DEF InsertDone, TypeOK
  <2>5. /\ loaded' \in RulesFiles \cup {None} /\ toload' \in Seq(Rules)
        /\ rules' \in [RuleSlots -> Rules \cup {None}] /\ marked' \subseteq Loaded'
    BY <1>1, <1>4 DEF TypeOK
  <2> QED
    BY <1>7, <2>1, <2>2, <2>3, <2>4, <2>5 DEF TypeOK, Ccs, Match, RuleSlots
<1> QED
  BY <1>9, <1>10, <1>11, <1>12 DEF Base

---------------------------------------------------------------------------
(* The other steps *)

\* Nothing that is counted changes
SameBooks == UNCHANGED <<rules, rrc, matchs, inuse, live, arc>>

LEMMA SameBooksBase ==
  ASSUME Base, SameBooks
  PROVE  /\ BooksRight' /\ UniqueIds' /\ MatchKeepsRule'
         /\ Used' = Used /\ Loaded' = Loaded
         /\ \A i \in Used' : matchs'[i] \in Match /\ matchs'[i].rule \in Loaded'
<1>1. Used' = Used /\ Loaded' = Loaded
  BY DEF SameBooks, Used, Loaded
<1>2. BooksRight' /\ UniqueIds' /\ MatchKeepsRule'
  BY <1>1 DEF Base, SameBooks, BooksRight, UniqueIds, MatchKeepsRule
<1> QED
  BY <1>1, <1>2, MatchOf DEF Base, SameBooks

LEMMA AlarmsLive ==
  ASSUME Base PROVE \A i \in Used : matchs[i].alarms \subseteq live /\ live \subseteq came
BY DEF Base, BooksRight, TypeOK

LEMMA BeginBase == ASSUME Base, NEW f \in RulesFiles \cup {loaded}, Begin(f) PROVE Base'
<1>1. SameBooks /\ UNCHANGED <<goal, rules, rrc, ccVars, came, settled, fails>>
      /\ pc' \in {"read", "load"} /\ loaded' = f /\ marked' = {} /\ mn' = FALSE
      /\ toload' = IF f = loaded THEN <<>> ELSE f
  BY DEF Begin, SameBooks, ccVars
<1>2. toload' \in Seq(Rules) /\ f \in RulesFiles \cup {None}
  <2>1. <<>> \in Seq(Rules)
    OBVIOUS
  <2>2. f # loaded => f \in RulesFiles
    OBVIOUS
  <2> QED
    BY <1>1, <2>1, <2>2, ConstantsAssumption DEF Base, TypeOK
<1>3. TypeOK'
  BY <1>1, <1>2, SameBooksBase DEF Base, TypeOK, ccVars
<1> QED
  BY <1>1, <1>3, SameBooksBase DEF Base

LEMMA UpdateTicketsBase ==
  ASSUME Base, NEW more \in SUBSET inuse, UpdateTickets(more) PROVE Base'
<1> DEFINE now == ({i[1] : i \in {j \in Used : WantsTicket(matchs[j])}} \cup more) \ ticketed
<1>1. /\ SameBooks /\ pc' = "prune" /\ ticketed' = ticketed \cup now
      /\ settled' = settled \cup UNION {matchs[i].alarms : i \in {j \in Used : j[1] \in now}}
      /\ UNCHANGED <<goal, ruleVars, matchs, inuse, ccl, live, arc, mn, came, fails>>
  BY DEF UpdateTickets, SameBooks, ruleVars
<1>2. now \subseteq inuse
  BY DEF Base, BooksRight
<1> HIDE DEF now
<1>3. settled' \subseteq came
  BY <1>1, AlarmsLive DEF Base, TypeOK
<1>4. TypeOK'
  BY <1>1, <1>2, <1>3, SameBooksBase DEF Base, TypeOK, ruleVars
<1> QED
  BY <1>1, <1>4, SameBooksBase DEF Base

LEMMA ClearBase == ASSUME Base, NEW c, NEW A, Clear(c, A) PROVE Base'
<1> DEFINE gone == [i \in Slots |-> IF c \in {None, i[1]} THEN A ELSE {}]
<1>1. /\ Removal(gone) /\ settled' = settled \cup Cleared(gone) /\ pc = "read"
      /\ UNCHANGED <<pc, goal, loaded, toload, rules, marked, mn, came, fails>>
  BY DEF Clear
<1> HIDE DEF gone
<1>2. settled' \subseteq came
  BY <1>1, AlarmsLive DEF Cleared, Base, TypeOK
<1>3. Loaded' = Loaded
  BY <1>1 DEF Loaded
<1>4. UniqueIds'
  BY <1>1, <1>3 DEF Base, UniqueIds
<1> QED
  BY <1>1, <1>2, <1>3, <1>4, RemovalBase DEF Base, TypeOK

LEMMA PruneBase == ASSUME Base, NEW cut, Prune(cut) \/ PruneFails(cut) PROVE Base'
<1>1. /\ Removal(Before(cut)) /\ pc' \in {"read", "off", "rest", "ticket"}
      /\ goal' \in {goal, "lost"}
      /\ UNCHANGED <<loaded, toload, rules, marked, mn, came, settled, fails>>
  BY DEF Prune, PruneFails
<1>2. Loaded' = Loaded
  BY <1>1 DEF Loaded
<1>3. UniqueIds'
  BY <1>1, <1>2 DEF Base, UniqueIds
<1>4. /\ rules' \in [RuleSlots -> Rules \cup {None}] /\ marked' \subseteq Loaded'
      /\ goal' \in {"read", "save", "lost"} /\ loaded' \in RulesFiles \cup {None}
      /\ toload' \in Seq(Rules) /\ settled' \subseteq came /\ fails' \in 0..MaxFails
  BY <1>1, <1>2 DEF Base, TypeOK
<1> QED
  BY <1>1, <1>3, <1>4, RemovalBase

LEMMA EmptyBase ==
  ASSUME Base, Empty, pc' = "off", goal' = "save", UNCHANGED <<mn, came>>,
         settled' \subseteq came, fails' \in 0..MaxFails
  PROVE  Base'
<1>1. Used' = {} /\ Loaded' = {}
  BY DEF Empty, Used, Loaded, Slots, Ccs, RuleSlots
<1>2. TypeOK'
  <2>1. <<>> \in Seq(Rules) /\ 0 \in 0..CcN
    BY BoundsAssumption
  <2> QED
    BY <1>1, <2>1 DEF Empty, Base, TypeOK
<1>3. BooksRight'
  <2>1. \A a \in Alarms : {i \in Used' : a \in matchs'[i].alarms} = {}
    BY <1>1
  <2>2. \A s : {i \in Used' : matchs'[i].rule = s} = {}
    BY <1>1
  <2>3. inuse' = {i[1] : i \in Used'} /\ live' = UNION {matchs'[i].alarms : i \in Used'}
    BY <1>1 DEF Empty
  <2>4. /\ \A a \in Alarms : arc'[a] = Cardinality({i \in Used' : a \in matchs'[i].alarms})
        /\ \A s \in RuleSlots : rrc'[s] = Cardinality({i \in Used' : matchs'[i].rule = s})
    BY <2>1, <2>2, FS_EmptySet DEF Empty
  <2> QED
    BY <1>1, <2>3, <2>4 DEF BooksRight, RuleSlots
<1>4. UniqueIds' /\ MatchKeepsRule'
  BY <1>1 DEF UniqueIds, MatchKeepsRule
<1> QED
  BY <1>2, <1>3, <1>4 DEF Base

LEMMA AlarmBase ==
  ASSUME Base, NEW a \in Alarms, NEW joined \in SUBSET Used, NEW fits \in SUBSET Loaded,
         Alarm(a, joined, fits)
  PROVE  Base'
<1>1. /\ a \notin came /\ (joined # {} \/ fits # {}) /\ MayMatch(joined, fits)
      /\ Insert(a, joined, fits) /\ came' = came \cup {a}
      /\ UNCHANGED <<pc, goal, loaded, toload, rules, marked, fails>>
  BY DEF Alarm
<1>2. PICK made : InsertDone(a, joined, fits, made)
  BY <1>1, InsertIs
<1>3. /\ pc' \in {"off", "load", "read", "rest", "ticket", "prune"}
      /\ goal' \in {"read", "save", "lost"} /\ fails' \in 0..MaxFails
  BY <1>1 DEF Base, TypeOK
<1> QED
  BY <1>1, <1>2, <1>3, InsertBase

LEMMA AlarmFailsBase ==
  ASSUME Base, NEW a \in Alarms, NEW joined \in SUBSET Used, AlarmFails(a, joined)
  PROVE  Base'
<1>1. /\ a \notin came /\ came' = came \cup {a}
      /\ pc' = "rest" /\ goal' = "lost" /\ fails' \in 0..MaxFails
      /\ UNCHANGED <<loaded, toload, rules, marked>>
  BY BoundsAssumption DEF AlarmFails, Base, TypeOK
<1>2. CASE joined # {}
  <2>1. MayMatch(joined, {}) /\ Insert(a, joined, {})
    BY <1>2 DEF AlarmFails
  <2>2. PICK made : InsertDone(a, joined, {}, made)
    BY <1>2, <2>1, InsertIs
  <2> QED
    BY <1>1, <2>1, <2>2, InsertBase
<1>3. CASE joined = {}
  <2>1. settled' = settled \cup {a} /\ UNCHANGED <<rrc, ccVars, mn>>
    BY <1>3 DEF AlarmFails
  <2>2. SameBooks
    BY <1>1, <2>1 DEF SameBooks, ccVars
  <2>3. TypeOK'
    BY <1>1, <2>1, <2>2, SameBooksBase DEF Base, TypeOK, ccVars
  <2> QED
    BY <2>2, <2>3, SameBooksBase DEF Base
<1> QED
  BY <1>2, <1>3

\* The steps that change neither rules nor groups
Plain ==
  \/ \E a \in Alarms : Simple(a)
  \/ Heartbeat \/ Flush \/ RestEnd \/ \E update \in BOOLEAN : End(update)

LEMMA PlainIs ==
  ASSUME Plain
  PROVE  /\ SameBooks /\ UNCHANGED <<ruleVars, ccVars, mn, fails>>
         /\ pc' \in {"read", "rest", "ticket", "off"} /\ goal' \in {goal, "read", "save", "lost"}
         /\ \E A \in SUBSET Alarms : came' = came \cup A /\ settled' = settled \cup A
<1>1. /\ UNCHANGED <<ruleVars, ccVars, mn, fails>>
      /\ pc' \in {"read", "rest", "ticket", "off"} /\ goal' \in {goal, "read", "save", "lost"}
  BY DEF Plain, Simple, Heartbeat, Flush, RestEnd, End
<1>2. \E A \in SUBSET Alarms : came' = came \cup A /\ settled' = settled \cup A
  <2>1. CASE \E a \in Alarms : Simple(a)
    BY <2>1 DEF Simple
  <2>2. CASE UNCHANGED <<came, settled>>
    <3> WITNESS {} \in SUBSET Alarms
    <3> QED
      BY <2>2
  <2> QED
    BY <2>1, <2>2 DEF Plain, Heartbeat, Flush, RestEnd, End
<1> QED
  BY <1>1, <1>2 DEF SameBooks, ruleVars, ccVars

LEMMA PlainBase == ASSUME Base, Plain PROVE Base'
<1>1. TypeOK'
  BY PlainIs, SameBooksBase DEF Base, TypeOK, ruleVars, ccVars
<1> QED
  BY <1>1, PlainIs, SameBooksBase DEF Base

LEMMA StepsOf ==
  ASSUME [Next]_vars
  PROVE  \/ UNCHANGED vars
         \/ \E f \in RulesFiles \cup {loaded} : f # None /\ Begin(f)
         \/ LoadRule \/ (\E s \in RuleSlots : RemoveUnmarked(s)) \/ LoadEnd
         \/ \E a \in Alarms, joined \in SUBSET Used, fits \in SUBSET Loaded :
              Alarm(a, joined, fits)
         \/ \E a \in Alarms, joined \in SUBSET Used : AlarmFails(a, joined)
         \/ \E c, A : Clear(c, A)
         \/ \E more \in SUBSET inuse : UpdateTickets(more)
         \/ \E cut : Prune(cut) \/ PruneFails(cut)
         \/ Plain \/ Lose \/ Kill
<1>1. ASSUME NEW f \in RulesFiles \cup ({loaded} \ {None}), Begin(f)
      PROVE  \E g \in RulesFiles \cup {loaded} : g # None /\ Begin(g)
  BY <1>1, ConstantsAssumption
<1> QED
  BY <1>1, Zenon DEF Next, Plain

LEMMA NextBase == Base /\ [Next]_vars => Base'
<1> SUFFICES ASSUME Base, [Next]_vars PROVE Base'
  OBVIOUS
<1>1. CASE UNCHANGED vars
  <2>1. SameBooks
    BY <1>1 DEF vars, SameBooks, ccVars, ruleVars
  <2>2. TypeOK'
    BY <1>1, <2>1, SameBooksBase DEF Base, TypeOK, vars, ruleVars, ccVars
  <2> QED
    BY <2>1, <2>2, SameBooksBase DEF Base
<1>2. CASE \E f \in RulesFiles \cup {loaded} : f # None /\ Begin(f)
  BY <1>2, BeginBase
<1>3. CASE LoadRule \/ (\E s \in RuleSlots : RemoveUnmarked(s)) \/ LoadEnd
  BY <1>3, LoadRuleBase, RemoveUnmarkedBase, LoadEndBase
<1>4. CASE \E a \in Alarms, joined \in SUBSET Used, fits \in SUBSET Loaded :
             Alarm(a, joined, fits)
  BY <1>4, AlarmBase
<1>5. CASE \E a \in Alarms, joined \in SUBSET Used : AlarmFails(a, joined)
  BY <1>5, AlarmFailsBase
<1>6. CASE \E c, A : Clear(c, A)
  BY <1>6, ClearBase
<1>7. CASE \E more \in SUBSET inuse : UpdateTickets(more)
  BY <1>7, UpdateTicketsBase
<1>8. CASE \E cut : Prune(cut) \/ PruneFails(cut)
  BY <1>8, PruneBase
<1>9. CASE Lose \/ Kill
  <2>1. /\ Empty /\ pc' = "off" /\ goal' = "save" /\ UNCHANGED <<mn, came>>
        /\ settled' \subseteq settled \cup live /\ fails' \in 0..MaxFails
    BY <1>9, BoundsAssumption DEF Lose, Kill, Base, TypeOK
  <2>2. settled' \subseteq came
    BY <2>1 DEF Base, TypeOK
  <2> QED
    BY <2>1, <2>2, EmptyBase
<1>10. CASE Plain
  BY <1>10, PlainBase
<1> QED
  BY <1>1, <1>2, <1>3, <1>4, <1>5, <1>6, <1>7, <1>8, <1>9, <1>10, StepsOf

LEMMA InitBase == Init => Base
<1> SUFFICES ASSUME Init PROVE Base
  OBVIOUS
<1>1. Used = {} /\ Loaded = {}
  BY DEF Init, Used, Loaded
<1>2. TypeOK
  <2>1. <<>> \in Seq(Rules) /\ 0 \in 0..CcN /\ 0 \in 0..MaxFails
    BY BoundsAssumption
  <2> QED
    BY <1>1, <2>1 DEF Init, TypeOK
<1>3. BooksRight
  <2>1. \A a \in Alarms : {i \in Used : a \in matchs[i].alarms} = {}
    BY <1>1
  <2>2. \A s : {i \in Used : matchs[i].rule = s} = {}
    BY <1>1
  <2> QED
    BY <1>1, <2>1, <2>2, FS_EmptySet DEF Init, BooksRight
<1>4. UniqueIds /\ MatchKeepsRule
  BY <1>1 DEF UniqueIds, MatchKeepsRule
<1> QED
  BY <1>2, <1>3, <1>4 DEF Base

LEMMA BaseHolds == Spec => []Base
BY InitBase, NextBase, PTL DEF Spec

\* Every variable of the engine keeps its type, whatever the rules answer.
THEOREM TypeCorrect == Spec => []TypeOK
<1>1. Base => TypeOK
  BY DEF Base
<1> QED
  BY <1>1, BaseHolds, PTL

\* Through every insertion, removal by time, rule and clear, reload and loss of the
\* state the reference counts, the alarms in memory, the groups in use and the
\* times of a match are those of the matches there are.
THEOREM BooksRightHolds == Spec => []BooksRight
<1>1. Base => BooksRight
  BY DEF Base
<1> QED
  BY <1>1, BaseHolds, PTL

\* A match never comes to refer to another rule than the one it was made by, though
\* it refers to it by slot and slots are packed and used again.
THEOREM MatchKeepsRuleHolds == Spec => []MatchKeepsRule
<1>1. Base => MatchKeepsRule
  BY DEF Base
<1> QED
  BY <1>1, BaseHolds, PTL

---------------------------------------------------------------------------
(* The rules in force *)

\* A rules file has every rule once. (Of two with one id loadrules keeps the second
\* only, and what is in force is not all the file says.)
OneOfEachId ==
  \A f \in RulesFiles : \A k, n \in DOMAIN f : RuleId[f[k]] = RuleId[f[n]] => k = n

InMemory == {rules[s] : s \in Loaded}
OnFile == {loaded[k] : k \in DOMAIN loaded}

\* While a file is loaded the marked rules are those read so far
Progress ==
  LET n == Len(loaded) - Len(toload) IN
  /\ n \in Nat /\ n <= Len(loaded)
  /\ \A k \in 1..Len(toload) : toload[k] = loaded[n + k]
  /\ {rules[s] : s \in marked} = {loaded[k] : k \in 1..n}

RuleInv ==
  /\ pc # "off" => loaded # None
  /\ pc = "load" => Progress
  /\ pc # "load" /\ loaded # None => InMemory = OnFile

LEMMA FilesAre ==
  ASSUME Base, loaded # None
  PROVE  loaded \in RulesFiles /\ loaded \in Seq(Rules)
BY ConstantsAssumption DEF Base, TypeOK

LEMMA BeginRules ==
  ASSUME Base, RuleInv, NEW f \in RulesFiles \cup {loaded}, f # None, Begin(f)
  PROVE  RuleInv'
<1>1. /\ pc = "off" /\ loaded' = f /\ marked' = {} /\ UNCHANGED rules
      /\ pc' = IF f = loaded THEN "read" ELSE "load"
      /\ toload' = IF f = loaded THEN <<>> ELSE f
  BY DEF Begin
<1>2. CASE f = loaded
  <2>1. InMemory' = InMemory /\ OnFile' = OnFile
    BY <1>1, <1>2 DEF InMemory, OnFile, Loaded
  <2> QED
    BY <1>1, <1>2, <2>1 DEF RuleInv
<1>3. CASE f # loaded
  <2>1. f \in Seq(Rules) /\ Len(f) \in Nat
    BY <1>3, ConstantsAssumption
  <2>2. pc' = "load" /\ loaded' = f /\ toload' = f /\ marked' = {}
    BY <1>1, <1>3
  <2>3. Progress'
    BY <2>1, <2>2 DEF Progress
  <2> QED
    BY <2>2, <2>3 DEF RuleInv
<1> QED
  BY <1>2, <1>3

LEMMA LoadRuleRules ==
  ASSUME OneOfEachId, Base, RuleInv, LoadRule
  PROVE  RuleInv'
<1> DEFINE r == Head(toload)
           new == Min(RuleSlots \ Loaded)
           old == {s \in Loaded : RuleId[rules[s]] = RuleId[r]}
           same == \E s \in old : SameRule(r, rules[s])
           n == Len(loaded) - Len(toload)
<1>1. /\ pc = "load" /\ pc' = "load" /\ loaded' = loaded /\ loaded # None
      /\ toload # <<>> /\ toload' = Tail(toload)
  BY DEF LoadRule, RuleInv
<1>2. /\ loaded \in Seq(Rules) /\ toload \in Seq(Rules) /\ loaded \in RulesFiles
      /\ marked \subseteq Loaded
  BY <1>1, FilesAre DEF Base, TypeOK
<1>3. /\ n \in Nat /\ n <= Len(loaded)
      /\ \A k \in 1..Len(toload) : toload[k] = loaded[n + k]
      /\ {rules[s] : s \in marked} = {loaded[k] : k \in 1..n}
  BY <1>1 DEF RuleInv, Progress
<1>4. /\ n + 1 \in 1..Len(loaded) /\ r = loaded[n + 1] /\ r # None
      /\ Len(toload') = Len(toload) - 1 /\ Len(toload) \in Nat \ {0} /\ Len(loaded) \in Nat
      /\ \A k \in 1..Len(toload') : toload'[k] = loaded[n + 1 + k]
  <2>1. Len(toload) \in Nat \ {0} /\ Len(loaded) \in Nat /\ r = toload[1] /\ r \in Rules
        /\ Len(toload') = Len(toload) - 1
        /\ \A k \in 1..Len(toload') : toload'[k] = toload[k + 1]
    BY <1>1, <1>2
  <2>2. n + 1 \in 1..Len(loaded) /\ toload[1] = loaded[n + 1]
    BY <1>3, <2>1
  <2>3. ASSUME NEW k \in 1..Len(toload') PROVE toload'[k] = loaded[n + 1 + k]
    <3>1. k + 1 \in 1..Len(toload) /\ n + (k + 1) = n + 1 + k
      BY <1>3, <2>1
    <3> QED
      BY <1>3, <2>1, <3>1
  <2> QED
    BY <2>1, <2>2, <2>3, ConstantsAssumption
<1>5. SUFFICES {rules'[s] : s \in marked'} = {rules[s] : s \in marked} \cup {r}
  <2>1. Len(loaded') - Len(toload') = n + 1
    BY <1>1, <1>4
  <2>2. {loaded[k] : k \in 1..(n + 1)} = {loaded[k] : k \in 1..n} \cup {r}
    <3>1. 1..(n + 1) = (1..n) \cup {n + 1}
      BY <1>3
    <3>2. r = loaded[n + 1]
      BY <1>4
    <3> HIDE DEF n, r
    <3> QED
      BY <3>1, <3>2
  <2>3. Progress'
    <3> DEFINE N == Len(loaded') - Len(toload')
    <3>1. N = n + 1 /\ N \in Nat /\ N <= Len(loaded')
      BY <1>1, <1>3, <1>4, <2>1
    <3>2. \A k \in 1..Len(toload') : toload'[k] = loaded'[N + k]
      BY <1>1, <1>4, <3>1
    <3>3. {rules'[s] : s \in marked'} = {loaded'[k] : k \in 1..N}
      <4> HIDE DEF n, N, r
      <4> QED
        BY <1>1, <1>3, <1>5, <2>2, <3>1
    <3> HIDE DEF n
    <3> QED
      BY <3>1, <3>2, <3>3 DEF Progress, N
  <2> QED
    BY <1>1, <2>3 DEF RuleInv
<1>6. CASE same
  <2>1. PICK s \in old : rules[s] = r
    BY <1>6 DEF SameRule
  <2>2. old = {s}
    BY <2>1 DEF Base, UniqueIds
  <2>3. marked' = marked \cup old /\ rules' = rules
    BY <1>6 DEF LoadRule
  <2> HIDE DEF old, r
  <2> QED
    BY <2>1, <2>2, <2>3
<1>7. CASE ~same
  <2>1. /\ marked' = (marked \ old) \cup {new}
        /\ rules' = [s \in RuleSlots |-> IF s = new THEN r
                       ELSE IF s \in old THEN None ELSE rules[s]]
    BY <1>7 DEF LoadRule
  <2>2. new \in RuleSlots /\ new \notin Loaded /\ Loaded \subseteq RuleSlots
    <3>1. RuleSlots \ Loaded # {} /\ RuleSlots \ Loaded \in SUBSET Nat
      BY DEF LoadRule, Loaded, RuleSlots
    <3> QED
      BY <3>1, MinIs DEF Loaded
  <2>3. marked \cap old = {}
    <3> SUFFICES ASSUME NEW s \in marked, s \in old PROVE FALSE
      OBVIOUS
    <3>1. PICK k \in 1..n : rules[s] = loaded[k]
      <4> HIDE DEF n
      <4> QED
        BY <1>3
    <3>2. RuleId[loaded[k]] = RuleId[loaded[n + 1]]
      BY <1>4, <3>1
    <3>3. k \in DOMAIN loaded /\ n + 1 \in DOMAIN loaded /\ k # n + 1
      BY <1>2, <1>3, <1>4, <3>1
    <3> QED
      BY <1>2, <3>2, <3>3 DEF OneOfEachId
  <2>4. marked' = marked \cup {new} /\ rules'[new] = r /\ \A s \in marked : rules'[s] = rules[s]
    <3> HIDE DEF old, r, new
    <3> QED
      BY <1>2, <2>1, <2>2, <2>3
  <2> HIDE DEF r, new
  <2> QED
    BY <2>4
<1> QED
  BY <1>6, <1>7

LEMMA LoadEndRules == ASSUME Base, RuleInv, LoadEnd PROVE RuleInv'
<1>1. /\ pc = "load" /\ pc' = "read" /\ UNCHANGED loaded /\ loaded # None
      /\ toload = <<>> /\ Loaded = marked /\ rules' = Packed
  BY DEF LoadEnd, RuleInv, Base, TypeOK
<1>2. InMemory = OnFile
  <2>1. loaded \in Seq(Rules) /\ Len(loaded) - Len(toload) = Len(loaded)
        /\ DOMAIN loaded = 1..Len(loaded)
    BY <1>1, FilesAre
  <2> QED
    BY <1>1, <2>1 DEF RuleInv, Progress, InMemory, OnFile
<1>3. InMemory' = InMemory
  <2>1. PackedOk(rules')
    BY <1>1, PackedIs DEF Base
  <2>2. Loaded' = {s \in RuleSlots : rules'[s] # None}
    BY DEF Loaded, RuleSlots
  <2>3. \A s \in Loaded : \E q \in Loaded' : rules'[q] = rules[s]
    <3>1. \A s \in Loaded : rules[s] # None
      BY DEF Loaded
    <3> QED
      BY <2>1, <2>2, <3>1 DEF PackedOk
  <2>4. \A q \in Loaded' : \E s \in Loaded : rules'[q] = rules[s]
    BY <2>1, <2>2 DEF PackedOk
  <2> QED
    BY <2>3, <2>4 DEF InMemory
<1>4. OnFile' = OnFile
  BY <1>1 DEF OnFile
<1> QED
  BY <1>1, <1>2, <1>3, <1>4 DEF RuleInv

LEMMA RemoveUnmarkedRules ==
  ASSUME Base, RuleInv, NEW s \in RuleSlots, RemoveUnmarked(s) PROVE RuleInv'
<1>1. /\ pc = "load" /\ UNCHANGED <<pc, loaded, toload, marked>>
      /\ s \notin marked /\ rules' = [rules EXCEPT ![s] = None]
  BY DEF RemoveUnmarked
<1>2. \A q \in marked : rules'[q] = rules[q]
  BY <1>1 DEF Base, TypeOK, Loaded
<1>3. Progress'
  <2>1. {rules'[q] : q \in marked'} = {rules[q] : q \in marked}
    BY <1>1, <1>2
  <2>2. Progress
    BY <1>1 DEF RuleInv
  <2> QED
    BY <1>1, <2>1, <2>2 DEF Progress
<1> QED
  BY <1>1, <1>3 DEF RuleInv

LEMMA NextRules == OneOfEachId /\ Base /\ RuleInv /\ [Next]_vars => RuleInv'
<1> SUFFICES ASSUME OneOfEachId, Base, RuleInv, [Next]_vars PROVE RuleInv'
  OBVIOUS
<1>1. CASE \E f \in RulesFiles \cup {loaded} : f # None /\ Begin(f)
  BY <1>1, BeginRules
<1>2. CASE LoadRule \/ (\E s \in RuleSlots : RemoveUnmarked(s)) \/ LoadEnd
  BY <1>2, LoadRuleRules, RemoveUnmarkedRules, LoadEndRules
<1>3. CASE UNCHANGED vars
  <2>1. UNCHANGED <<pc, loaded, toload, rules, marked>>
    BY <1>3 DEF vars, ruleVars
  <2>2. InMemory' = InMemory /\ OnFile' = OnFile
    BY <2>1 DEF InMemory, OnFile, Loaded
  <2>3. ASSUME Progress PROVE Progress'
    <3>1. /\ loaded' = loaded /\ toload' = toload
          /\ {rules'[s] : s \in marked'} = {rules[s] : s \in marked}
      BY <2>1
    <3> QED
      BY <2>3, <3>1 DEF Progress
  <2> QED
    BY <2>1, <2>2, <2>3 DEF RuleInv
<1>4. CASE Lose \/ Kill
  BY <1>4 DEF Lose, Kill, Empty, RuleInv
<1>5. CASE /\ UNCHANGED <<loaded, rules>> /\ pc \notin {"off", "load"} /\ pc' # "load"
  <2>1. InMemory' = InMemory /\ OnFile' = OnFile
    BY <1>5 DEF InMemory, OnFile, Loaded
  <2> QED
    BY <1>5, <2>1 DEF RuleInv
<1>6. CASE \E a \in Alarms, joined \in SUBSET Used, fits \in SUBSET Loaded :
             Alarm(a, joined, fits)
  BY <1>5, <1>6 DEF Alarm
<1>7. CASE \E a \in Alarms, joined \in SUBSET Used : AlarmFails(a, joined)
  BY <1>5, <1>7 DEF AlarmFails
<1>8. CASE \E c, A : Clear(c, A)
  BY <1>5, <1>8 DEF Clear
<1>9. CASE \E more \in SUBSET inuse : UpdateTickets(more)
  BY <1>5, <1>9 DEF UpdateTickets, ruleVars
<1>10. CASE \E cut : Prune(cut) \/ PruneFails(cut)
  BY <1>5, <1>10 DEF Prune, PruneFails
<1>11. CASE Plain
  <2>1. pc \notin {"off", "load"}
    BY <1>11 DEF Plain, Simple, Heartbeat, Flush, RestEnd, End
  <2> QED
    BY <1>5, <1>11, <2>1, PlainIs DEF ruleVars
<1> QED
  BY <1>1, <1>2, <1>3, <1>4, <1>6, <1>7, <1>8, <1>9, <1>10, <1>11, StepsOf

\* After a load the rules in memory are those of the file, each in one slot, whatever
\* rules, matches and gaps there were before.
THEOREM RulesInForceHolds == OneOfEachId => (Spec => []RulesInForce)
<1> SUFFICES ASSUME OneOfEachId PROVE Spec => []RulesInForce
  OBVIOUS
<1>1. Init => RuleInv
  BY DEF Init, RuleInv
<1>2. Base /\ RuleInv => RulesInForce
  <2> SUFFICES ASSUME Base, RuleInv, pc \notin {"off", "load"}
               PROVE  /\ InMemory = OnFile
                      /\ \A s, q \in Loaded : rules[s] = rules[q] => s = q
    BY DEF RulesInForce, InMemory, OnFile
  <2> QED
    BY DEF Base, UniqueIds, RuleInv
<1> QED
  BY <1>1, <1>2, NextRules, BaseHolds, PTL DEF Spec

---------------------------------------------------------------------------
(* Alarms that demand a ticket *)

\* a match that holds an alarm of mode KEEP
Demands(i) == matchs[i].alarms \cap Keeps # {}
\* The tickets are up to date: nothing was matched since
Settling == pc \in {"off", "prune"} \/ (pc \in {"load", "read"} /\ ~mn)

TicketInv ==
  /\ \A i \in Used : Demands(i) => matchs[i].keep
  /\ pc = "load" => ~mn
  /\ Settling => \A i \in Used : Demands(i) => i[1] \in ticketed
  /\ \A i \in Used : i[1] \in ticketed => matchs[i].alarms \subseteq settled
  /\ KeepNotForgotten

\* Removing takes alarms of mode KEEP from ticketed groups only, or they were cleared.
LEMMA RemovalTickets ==
  ASSUME Base, TicketInv, NEW gone, Removal(gone), came' = came,
         settled \subseteq settled', Settling' => Settling, pc' = "load" => ~mn',
         Settling \/ Cleared(gone) \subseteq settled'
  PROVE  TicketInv'
<1>1. ASSUME NEW i \in Used'
      PROVE  /\ i \in Used /\ matchs'[i].keep = matchs[i].keep
             /\ matchs'[i].alarms \subseteq matchs[i].alarms
  BY RemovalMatches DEF Base
<1>2. /\ ticketed' = ticketed \cap inuse' /\ inuse' = {i[1] : i \in Used'}
      /\ live' = UNION {matchs'[i].alarms : i \in Used'}
  BY RemovalBooks DEF Base, BooksRight
<1>3. ASSUME NEW a \in came' \cap Keeps PROVE a \in live' \cup settled'
  <2> SUFFICES ASSUME a \in live, a \notin live' PROVE a \in settled'
    BY DEF TicketInv, KeepNotForgotten
  <2>1. PICK i \in Used : a \in matchs[i].alarms
    BY DEF Base, BooksRight
  <2>2. CASE Settling
    <3>1. i[1] \in ticketed
      BY <2>1, <2>2 DEF TicketInv, Demands
    <3> QED
      BY <2>1, <3>1 DEF TicketInv
  <2>3. CASE Cleared(gone) \subseteq settled'
    <3>1. a \in gone[i]
      <4> SUFFICES ASSUME a \notin gone[i] PROVE FALSE
        OBVIOUS
      <4>1. i \in Used' /\ matchs'[i].alarms = matchs[i].alarms \ gone[i]
        BY <2>1, RemovalMatches DEF Base
      <4> QED
        BY <1>2, <2>1, <4>1
    <3> QED
      BY <2>1, <2>3, <3>1 DEF Cleared
  <2> QED
    BY <2>2, <2>3
<1>4. \A i \in Used' : Demands(i)' => matchs'[i].keep
  BY <1>1 DEF TicketInv, Demands
<1>5. Settling' => \A i \in Used' : Demands(i)' => i[1] \in ticketed'
  BY <1>1, <1>2 DEF TicketInv, Demands
<1>6. \A i \in Used' : i[1] \in ticketed' => matchs'[i].alarms \subseteq settled'
  BY <1>1, <1>2 DEF TicketInv
<1> QED
  BY <1>3, <1>4, <1>5, <1>6 DEF TicketInv, KeepNotForgotten, Demands

\* An alarm that comes in is in memory, and settled if it comes into a ticketed group.
LEMMA InsertTickets ==
  ASSUME Base, TicketInv, NEW a \in Alarms, NEW joined \in SUBSET Used, NEW fits, NEW made,
         InsertDone(a, joined, fits, made), came' = came \cup {a}, pc' \in {"read", "rest"}
  PROVE  TicketInv'
<1>1. /\ Used' = Used \cup made /\ ticketed' = ticketed /\ live' = live \cup {a}
      /\ settled \subseteq settled' /\ mn'
      /\ \A i \in joined \cup made : i[1] \in ticketed => a \in settled'
  BY DEF InsertDone
<1>2. ASSUME NEW i \in Used'
      PROVE  \/ i \in Used \ joined /\ matchs'[i] = matchs[i]
             \/ /\ i \in joined
                /\ matchs'[i].keep = (matchs[i].keep \/ a \in Keeps)
                /\ matchs'[i].alarms = matchs[i].alarms \cup {a}
             \/ /\ i \in made
                /\ matchs'[i].keep = (a \in Keeps) /\ matchs'[i].alarms = {a}
  BY <1>1 DEF InsertDone
<1>3. \A i \in Used' : matchs'[i].alarms \cap Keeps # {} => matchs'[i].keep
  <2> SUFFICES ASSUME NEW i \in Used', matchs'[i].alarms \cap Keeps # {} PROVE matchs'[i].keep
    OBVIOUS
  <2>1. i \in Used /\ matchs[i].alarms \cap Keeps # {} => matchs[i].keep
    BY DEF TicketInv, Demands
  <2>2. i \in Used => matchs[i].keep \in BOOLEAN
    BY MatchOf DEF Base, Match
  <2> QED
    BY <1>2, <2>1, <2>2
<1>4. \A i \in Used' : i[1] \in ticketed' => matchs'[i].alarms \subseteq settled'
  BY <1>1, <1>2 DEF TicketInv
<1>5. came' \cap Keeps \subseteq live' \cup settled'
  BY <1>1 DEF TicketInv, KeepNotForgotten
<1>6. ~Settling' /\ pc' # "load"
  BY <1>1 DEF Settling
<1> QED
  BY <1>3, <1>4, <1>5, <1>6 DEF TicketInv, KeepNotForgotten, Demands

\* Where the groups stay as they are only the tickets can become out of date.
LEMMA SameTickets ==
  ASSUME Base, TicketInv, UNCHANGED ccVars, settled \subseteq settled',
         came' \subseteq came \cup settled', Settling' => Settling, pc' = "load" => ~mn'
  PROVE  TicketInv'
<1>1. Used' = Used /\ UNCHANGED <<matchs, ticketed, live>>
  BY DEF ccVars, Used
<1> QED
  BY <1>1 DEF TicketInv, KeepNotForgotten, Demands

LEMMA UpdateTicketsTickets ==
  ASSUME Base, TicketInv, NEW more \in SUBSET inuse, UpdateTickets(more)
  PROVE  TicketInv'
<1> DEFINE due == {i[1] : i \in {j \in Used : WantsTicket(matchs[j])}}
           now == (due \cup more) \ ticketed
<1>1. /\ pc' = "prune" /\ UNCHANGED <<matchs, live, came, mn>> /\ Used' = Used
      /\ ticketed' = ticketed \cup now
      /\ settled' = settled \cup UNION {matchs[i].alarms : i \in {j \in Used : j[1] \in now}}
  BY DEF UpdateTickets, Used
<1>2. \A i \in Used : Demands(i) => i[1] \in ticketed'
  BY <1>1 DEF TicketInv, WantsTicket
<1> HIDE DEF now
<1>3. \A i \in Used : i[1] \in ticketed' => matchs[i].alarms \subseteq settled'
  BY <1>1 DEF TicketInv
<1> QED
  BY <1>1, <1>2, <1>3 DEF TicketInv, KeepNotForgotten, Demands

LEMMA NextTickets == Base /\ TicketInv /\ [Next]_vars => TicketInv'
<1> SUFFICES ASSUME Base, TicketInv, [Next]_vars PROVE TicketInv'
  OBVIOUS
<1>1. CASE UNCHANGED vars
  BY <1>1, SameTickets DEF vars, Settling, TicketInv
<1>2. CASE \E f \in RulesFiles \cup {loaded} : f # None /\ Begin(f)
  BY <1>2, SameTickets DEF Begin, Settling
<1>3. CASE LoadRule
  <2>1. pc = "load" /\ UNCHANGED <<pc, mn, came, settled>> /\ Settling
    BY <1>3 DEF LoadRule, TicketInv, Settling
  <2>2. CASE UNCHANGED ccVars
    BY <2>1, <2>2, SameTickets DEF TicketInv
  <2>3. CASE \E s : Removal(OfRule(s))
    BY <2>1, <2>3, RemovalTickets DEF TicketInv
  <2> QED
    BY <1>3, <2>2, <2>3 DEF LoadRule
<1>4. CASE \E s \in RuleSlots : RemoveUnmarked(s)
  <2>1. PICK s \in RuleSlots : RemoveUnmarked(s)
    BY <1>4
  <2>2. /\ pc = "load" /\ UNCHANGED <<pc, mn, came, settled>> /\ Settling
        /\ Removal(OfRule(s))
    BY <2>1 DEF RemoveUnmarked, TicketInv, Settling
  <2> QED
    BY <2>2, RemovalTickets DEF TicketInv
<1>5. CASE LoadEnd
  BY <1>5, SameTickets DEF LoadEnd, Settling, TicketInv
<1>6. CASE \E a \in Alarms, joined \in SUBSET Used, fits \in SUBSET Loaded :
             Alarm(a, joined, fits)
  <2>1. PICK a \in Alarms, joined \in SUBSET Used, fits \in SUBSET Loaded :
          Alarm(a, joined, fits)
    BY <1>6
  <2>2. PICK made : InsertDone(a, joined, fits, made)
    BY <2>1, InsertIs DEF Alarm
  <2> QED
    BY <2>1, <2>2, InsertTickets DEF Alarm
<1>7. CASE \E a \in Alarms, joined \in SUBSET Used : AlarmFails(a, joined)
  <2>1. PICK a \in Alarms, joined \in SUBSET Used : AlarmFails(a, joined)
    BY <1>7
  <2>2. pc' = "rest" /\ came' = came \cup {a}
    BY <2>1 DEF AlarmFails
  <2>3. CASE joined # {}
    <3>1. MayMatch(joined, {}) /\ Insert(a, joined, {})
      BY <2>1, <2>3 DEF AlarmFails
    <3>2. PICK made : InsertDone(a, joined, {}, made)
      BY <2>3, <3>1, InsertIs
    <3> QED
      BY <2>2, <3>2, InsertTickets
  <2>4. CASE joined = {}
    <3>1. settled' = settled \cup {a} /\ UNCHANGED ccVars
      BY <2>1, <2>4 DEF AlarmFails
    <3> QED
      BY <2>2, <3>1, SameTickets DEF Settling
  <2> QED
    BY <2>3, <2>4
<1>8. CASE \E c, A : Clear(c, A)
  <2>1. PICK c, A : Clear(c, A)
    BY <1>8
  <2> DEFINE gone == [i \in Slots |-> IF c \in {None, i[1]} THEN A ELSE {}]
  <2>2. /\ Removal(gone) /\ settled' = settled \cup Cleared(gone)
        /\ UNCHANGED <<pc, mn, came>>
    BY <2>1 DEF Clear
  <2> HIDE DEF gone
  <2>3. (Settling' => Settling) /\ (pc' = "load" => ~mn')
    BY <2>2 DEF Settling, TicketInv
  <2> QED
    BY <2>2, <2>3, RemovalTickets
<1>9. CASE \E more \in SUBSET inuse : UpdateTickets(more)
  BY <1>9, UpdateTicketsTickets
<1>10. CASE \E cut : Prune(cut) \/ PruneFails(cut)
  <2>1. PICK cut : Prune(cut) \/ PruneFails(cut)
    BY <1>10
  <2>2. /\ pc = "prune" /\ pc' # "load" /\ Removal(Before(cut)) /\ UNCHANGED <<came, settled>>
    BY <2>1 DEF Prune, PruneFails
  <2>3. Settling
    BY <2>2 DEF Settling
  <2> QED
    BY <2>2, <2>3, RemovalTickets
<1>11. CASE Plain
  <2>1. Settling' => Settling
    BY <1>11 DEF Plain, Simple, Heartbeat, Flush, RestEnd, End, Settling
  <2>2. pc' # "load" /\ UNCHANGED ccVars
    BY <1>11, PlainIs
  <2>3. settled \subseteq settled' /\ came' \subseteq came \cup settled'
    BY <1>11, PlainIs
  <2> QED
    BY <2>1, <2>2, <2>3, SameTickets
<1>12. CASE Lose \/ Kill
  <2>1. /\ Empty /\ pc' = "off" /\ came' = came /\ settled \subseteq settled'
        /\ (pc = "prune" \/ live \subseteq settled')
    BY <1>12 DEF Lose, Kill
  <2>2. Used' = {}
    BY <2>1 DEF Empty, Used, Slots, Ccs
  <2>3. came' \cap Keeps \subseteq settled'
    <3> SUFFICES ASSUME NEW a \in came \cap Keeps, a \in live, pc = "prune" PROVE a \in settled
      BY <2>1 DEF TicketInv, KeepNotForgotten
    <3>1. PICK i \in Used : a \in matchs[i].alarms
      BY DEF Base, BooksRight
    <3>2. i[1] \in ticketed
      BY <3>1 DEF TicketInv, Settling, Demands
    <3> QED
      BY <3>1, <3>2 DEF TicketInv
  <2> QED
    BY <2>1, <2>2, <2>3 DEF TicketInv, KeepNotForgotten
<1> QED
  BY <1>1, <1>2, <1>3, <1>4, <1>5, <1>6, <1>7, <1>8, <1>9, <1>10, <1>11, <1>12, StepsOf

LEMMA TicketsHold == Spec => []TicketInv
<1>1. Init => TicketInv
  BY DEF Init, TicketInv, Used, KeepNotForgotten
<1> QED
  BY <1>1, NextTickets, BaseHolds, PTL DEF Spec

\* Every run leaves each group that holds an alarm of mode KEEP ticketed, also a run
\* that loads other rules or matches nothing, and so issues no tickets.
THEOREM KeepIsTicketedHolds == Spec => []KeepIsTicketed
<1>1. TicketInv => KeepIsTicketed
  BY DEF TicketInv, Settling, Demands, KeepIsTicketed
<1> QED
  BY <1>1, TicketsHold, PTL

\* No alarm of mode KEEP gets out of memory without a ticket or a clear, however its
\* rules change, prune or fail, unless the engine is killed or fails at that alarm.
THEOREM KeepNotForgottenHolds == Spec => []KeepNotForgotten
<1>1. TicketInv => KeepNotForgotten
  BY DEF TicketInv
<1> QED
  BY <1>1, TicketsHold, PTL
=============================================================================
