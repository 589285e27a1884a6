-------------------------- MODULE PersistMemProofs --------------------------
(***************************************************************************)
(* Invariants of PersistMem, for any objects, sizes and segments. Inv says *)
(* that there are places L for the objects such that the blocks there show *)
(* the graph, with the pointers in memory while the engine runs and in the *)
(* records while it does not. Blocks left over are forgotten ones, which   *)
(* say so in their first cell: that tells the block of an object from      *)
(* every other. HeapOk says how blocks lie in segments and lists. An       *)
(* address between the first unit of a block and the end of its header and *)
(* size is in no other block (Apart): this is why a record leads to one    *)
(* object, and why compaction finds one block for every pointer.           *)
(***************************************************************************)
EXTENDS PersistMem, FiniteSetTheorems, WellFoundedInduction, SequenceTheorems, TLAPS

---------------------------------------------------------------------------
(* Least elements and order *)

\* A set of naturals that is not empty has a least element.
LEMMA MinIs ==
  ASSUME NEW S \in SUBSET Nat, S # {}
  PROVE  Min(S) \in S /\ \A n \in S : Min(S) <= n
<1> DEFINE Segments == {0..n : n \in S}
<1>1. IsWellFoundedOn(StrictSubsetOrdering(Nat), FiniteSubsetsOf(Nat))
  BY FS_StrictSubsetOrderingWellFounded
<1>2. Segments \subseteq FiniteSubsetsOf(Nat) /\ Segments # {}
  <2>1. ASSUME NEW n \in S PROVE 0..n \in FiniteSubsetsOf(Nat)
    <3>1. IsFiniteSet(0..n) /\ 0..n \subseteq Nat
      BY FS_Interval
    <3> QED
      BY <3>1 DEF FiniteSubsetsOf
  <2> QED
    BY <2>1, Zenon
<1>3. PICK T \in Segments :
        \A U \in Segments : ~ (<<U, T>> \in StrictSubsetOrdering(Nat))
  <2> HIDE DEF Segments
  <2> QED
    BY <1>1, <1>2, WFMin, Zenon
<1>4. PICK n \in S : T = 0..n
  OBVIOUS
<1>5. \A m \in S : n <= m
  <2> SUFFICES ASSUME NEW m \in S, m < n PROVE FALSE
    OBVIOUS
  <2>1. 0..m \subseteq 0..n /\ n \in 0..n /\ n \notin 0..m
    OBVIOUS
  <2>2. <<0..m, 0..n>> \in StrictSubsetOrdering(Nat)
    BY <2>1 DEF StrictSubsetOrdering
  <2> QED
    BY <1>3, <1>4, <2>2
<1> QED
  BY <1>5 DEF Min

Places == Nat \X Nat

LEMMA PlaceIs ==
  ASSUME NEW p \in Places
  PROVE  p[1] \in Nat /\ p[2] \in Nat /\ p = <<p[1], p[2]>>
BY DEF Places

LEMMA LowerIs ==
  ASSUME NEW p \in Places, NEW q \in Places
  PROVE  /\ ~ Lower(p, p)
         /\ Lower(p, q) \/ Lower(q, p) \/ p = q
         /\ Lower(p, q) => ~ Lower(q, p)
         /\ \A r \in Places : Lower(r, p) /\ Lower(p, q) => Lower(r, q)
<1>1. /\ p[1] \in Nat /\ p[2] \in Nat /\ p = <<p[1], p[2]>>
      /\ q[1] \in Nat /\ q[2] \in Nat /\ q = <<q[1], q[2]>>
  BY PlaceIs
<1>2. \A r \in Places : r[1] \in Nat /\ r[2] \in Nat
  BY PlaceIs
<1> QED
  BY <1>1, <1>2 DEF Lower

\* The places of a finite set in their order.
LEMMA OrderedIs ==
  ASSUME NEW S \in SUBSET Places, IsFiniteSet(S)
  PROVE  LET n == Cardinality(S)
             q == Ordered(S) IN
         /\ n \in Nat /\ q = [i \in 1..n |-> q[i]] /\ Len(q) = n
         /\ \A i \in 1..n : q[i] \in S
         /\ \A i, j \in 1..n : i < j => Lower(q[i], q[j])
         /\ \A p \in S : \E i \in 1..n : q[i] = p
<1> DEFINE n == Cardinality(S)
           Under(p) == {x \in S : Lower(x, p)}
           Rank(p) == Cardinality(Under(p))
           q == Ordered(S)
<1>1. n \in Nat
  BY FS_CardinalityType
<1>2. ASSUME NEW p \in S
      PROVE  Rank(p) \in Nat /\ Rank(p) < n
  <2>1. Under(p) \in SUBSET S /\ p \notin Under(p)
    BY LowerIs
  <2> HIDE DEF Under
  <2>2. Under(p) # S
    BY <2>1
  <2> QED
    BY <1>1, <2>1, <2>2, FS_Subset, FS_CardinalityType
<1>3. ASSUME NEW x \in S, NEW p \in S, Lower(x, p)
      PROVE  Rank(x) < Rank(p)
  <2>1. Under(x) \in SUBSET Under(p) /\ x \in Under(p) /\ x \notin Under(x)
        /\ Under(p) \in SUBSET S
    BY <1>3, LowerIs
  <2> HIDE DEF Under
  <2>2. IsFiniteSet(Under(p)) /\ Under(x) # Under(p)
    BY <2>1, FS_Subset
  <2> QED
    BY <2>1, <2>2, FS_Subset, FS_CardinalityType
<1> HIDE DEF Rank
<1> DEFINE r == [p \in S |-> Rank(p) + 1]
<1>4. r \in Injection(S, 1..n)
  <2>1. r \in [S -> 1..n]
    BY <1>1, <1>2
  <2>2. ASSUME NEW a \in S, NEW b \in S, r[a] = r[b] PROVE a = b
    <3>1. Rank(a) = Rank(b) /\ Rank(a) \in Nat
      BY <1>2, <2>2
    <3>2. ~ Lower(a, b) /\ ~ Lower(b, a)
      BY <1>2, <1>3, <3>1
    <3> QED
      BY <3>2, LowerIs
  <2> HIDE DEF r
  <2> QED
    BY <2>1, <2>2 DEF Injection, IsInjective
<1>5. \A i \in 1..n : \E p \in S : Rank(p) = i - 1
  <2>1. IsFiniteSet(1..n) /\ Cardinality(1..n) = n
    BY <1>1, FS_Interval
  <2>2. r \in Surjection(S, 1..n)
    <3> HIDE DEF r
    <3> QED
      BY <1>4, <2>1, FS_Injection
  <2>3. \A i \in 1..n : \E p \in S : r[p] = i
    <3> HIDE DEF r
    <3> QED
      BY <2>2 DEF Surjection
  <2> SUFFICES ASSUME NEW i \in 1..n PROVE \E p \in S : Rank(p) = i - 1
    OBVIOUS
  <2>4. PICK p \in S : r[p] = i
    BY <2>3
  <2> QED
    BY <1>1, <1>2, <2>4
<1>6. q = [i \in 1..n |-> CHOOSE p \in S : Rank(p) = i - 1]
  BY Zenon DEF Ordered, Rank
<1>7. q = [i \in 1..n |-> q[i]]
  BY <1>6
<1>8. \A i \in 1..n : q[i] \in S /\ Rank(q[i]) = i - 1
  <2> HIDE DEF q
  <2> SUFFICES ASSUME NEW i \in 1..n PROVE q[i] \in S /\ Rank(q[i]) = i - 1
    OBVIOUS
  <2>1. q[i] = CHOOSE p \in S : Rank(p) = i - 1
    BY <1>6
  <2> QED
    BY <1>5, <2>1
<1>9. Len(q) = n
  <2> HIDE DEF q
  <2>1. q \in [1..n -> S]
    BY <1>7, <1>8
  <2> QED
    BY <1>1, <2>1
<1> HIDE DEF q
<1>10. ASSUME NEW i \in 1..n, NEW j \in 1..n, i < j PROVE Lower(q[i], q[j])
  <2>1. Rank(q[i]) < Rank(q[j]) /\ q[i] \in S /\ q[j] \in S
    BY <1>1, <1>8, <1>10
  <2>2. ~ Lower(q[j], q[i]) /\ q[i] # q[j]
    BY <1>2, <1>3, <2>1
  <2> QED
    BY <2>1, <2>2, LowerIs
<1>11. ASSUME NEW p \in S PROVE \E i \in 1..n : q[i] = p
  <2> DEFINE i == Rank(p) + 1
  <2>1. i \in 1..n /\ i - 1 = Rank(p)
    BY <1>1, <1>2
  <2>2. q[i] \in S /\ Rank(q[i]) = Rank(p)
    BY <1>8, <2>1
  <2>3. ~ Lower(q[i], p) /\ ~ Lower(p, q[i])
    BY <1>2, <1>3, <2>2
  <2> QED
    BY <2>1, <2>2, <2>3, LowerIs
<1> QED
  BY <1>1, <1>7, <1>8, <1>9, <1>10, <1>11 DEF q

---------------------------------------------------------------------------
(* Blocks in segments *)

\* one block with its header
BlockOk(b) ==
  /\ b = [size |-> b.size, usize |-> b.usize, cells |-> b.cells]
  /\ b.size \in Nat \ {0} /\ b.usize \in 0..b.size

\* the blocks of a segment follow each other from its first unit to its end
Tiled(end, items) ==
  /\ end \in Unit..SegSize
  /\ items = [off \in DOMAIN items |-> items[off]]
  /\ \A off \in DOMAIN items :
       /\ off \in Unit..end - 1 /\ BlockOk(items[off])
       /\ off + items[off].size + Hdr \in DOMAIN items \cup {end}
       /\ \A q \in DOMAIN items \cup {end} : q > off => q >= off + items[off].size + Hdr
  /\ \A off \in DOMAIN items \cup {end} :
       off = Unit \/ \E q \in DOMAIN items : q + items[q].size + Hdr = off

\* each list has blocks of its size, each once
Listed(items, slots) ==
  /\ slots = [k \in Slots |-> slots[k]]
  /\ \A k \in Slots :
       /\ slots[k] \in Seq(Nat) /\ IsInjective(slots[k])
       /\ \A off \in ToSet(slots[k]) : off \in DOMAIN items /\ SlotOf(items[off].size) = k

SegmentOk(g) ==
  /\ g = [end |-> g.end, items |-> g.items, slots |-> g.slots]
  /\ Tiled(g.end, g.items) /\ Listed(g.items, g.slots)

HeapOk(sg) ==
  /\ Len(sg) \in Nat /\ sg = [s \in 1..Len(sg) |-> sg[s]]
  /\ \A s \in 1..Len(sg) : SegmentOk(sg[s])

\* where blocks are, freed ones too
Headers(sg) == {p \in Places : p[1] \in DOMAIN sg /\ p[2] \in DOMAIN sg[p[1]].items}

FreedIn(slots) == UNION {ToSet(slots[k]) : k \in Slots}

LEMMA SlotIs ==
  ASSUME NEW n \in Nat \ {0}
  PROVE  SlotOf(n) \in Slots
BY SizesAssumption DEF SlotOf, Slots

LEMMA HeapSegment ==
  ASSUME NEW sg, HeapOk(sg), NEW s \in DOMAIN sg
  PROVE  s \in Nat /\ s \in 1..Len(sg) /\ SegmentOk(sg[s])
BY DEF HeapOk

LEMMA TiledIs ==
  ASSUME NEW end, NEW items, Tiled(end, items)
  PROVE  /\ end \in Nat
         /\ \A off \in DOMAIN items :
              /\ off \in Nat /\ off < end /\ BlockOk(items[off])
              /\ items[off].size \in Nat \ {0} /\ items[off].usize \in Nat
              /\ items[off].usize <= items[off].size
BY SizesAssumption DEF Tiled, BlockOk, Unit

\* What a header says, and how the place of a block is made up.
LEMMA HeaderIs ==
  ASSUME NEW sg, HeapOk(sg), NEW p \in Headers(sg)
  PROVE  /\ p = <<p[1], p[2]>> /\ p \in Places /\ p[1] \in Nat /\ p[2] \in Nat
         /\ p[1] \in DOMAIN sg /\ p[1] \in 1..Len(sg) /\ p[2] \in DOMAIN sg[p[1]].items
         /\ SegmentOk(sg[p[1]])
         /\ Item(sg, p) = sg[p[1]].items[p[2]]
         /\ BlockOk(Item(sg, p)) /\ Item(sg, p).size \in Nat \ {0}
         /\ Item(sg, p).usize \in Nat /\ Item(sg, p).usize <= Item(sg, p).size
<1>1. p = <<p[1], p[2]>> /\ p \in Places /\ p[1] \in Nat /\ p[2] \in Nat
      /\ p[1] \in DOMAIN sg /\ p[2] \in DOMAIN sg[p[1]].items
  BY PlaceIs DEF Headers
<1>2. SegmentOk(sg[p[1]]) /\ p[1] \in 1..Len(sg)
  BY <1>1, HeapSegment
<1>3. Tiled(sg[p[1]].end, sg[p[1]].items)
  BY <1>2 DEF SegmentOk
<1>4. Item(sg, p) = sg[p[1]].items[p[2]]
  BY DEF Item
<1> QED
  BY <1>1, <1>2, <1>3, <1>4, TiledIs

\* Blocks of the same sizes at the same places tile a segment as well.
LEMMA RetiledIs ==
  ASSUME NEW end, NEW items, NEW other, Tiled(end, items),
         DOMAIN other = DOMAIN items, other = [off \in DOMAIN other |-> other[off]],
         \A off \in DOMAIN items : other[off].size = items[off].size /\ BlockOk(other[off])
  PROVE  Tiled(end, other)
<1>1. end \in Unit..SegSize
  BY DEF Tiled
<1>2. ASSUME NEW off \in DOMAIN other
      PROVE  /\ off \in Unit..end - 1 /\ BlockOk(other[off])
             /\ off + other[off].size + Hdr \in DOMAIN other \cup {end}
             /\ \A q \in DOMAIN other \cup {end} : q > off => q >= off + other[off].size + Hdr
  <2>1. /\ off \in Unit..end - 1
        /\ off + items[off].size + Hdr \in DOMAIN items \cup {end}
        /\ \A q \in DOMAIN items \cup {end} : q > off => q >= off + items[off].size + Hdr
    BY <1>2 DEF Tiled
  <2>2. other[off].size = items[off].size /\ BlockOk(other[off])
    BY <1>2
  <2> QED
    BY <2>1, <2>2
<1>3. ASSUME NEW off \in DOMAIN other \cup {end}
      PROVE  off = Unit \/ \E q \in DOMAIN other : q + other[q].size + Hdr = off
  <2>1. off = Unit \/ \E q \in DOMAIN items : q + items[q].size + Hdr = off
    BY <1>3 DEF Tiled
  <2> QED
    BY <2>1
<1> QED
  BY <1>1, <1>2, <1>3 DEF Tiled

LEMMA BusyIs ==
  ASSUME NEW sg, HeapOk(sg)
  PROVE  \A p : p \in Busy(sg) <=> p \in Headers(sg) /\ p[2] \notin FreedIn(sg[p[1]].slots)
<1>1. \A s \in DOMAIN sg : s \in Nat /\ \A off \in DOMAIN sg[s].items : off \in Nat
  <2> SUFFICES ASSUME NEW s \in DOMAIN sg
               PROVE  s \in Nat /\ \A off \in DOMAIN sg[s].items : off \in Nat
    OBVIOUS
  <2>1. SegmentOk(sg[s]) /\ s \in Nat
    BY HeapSegment
  <2>2. Tiled(sg[s].end, sg[s].items)
    BY <2>1 DEF SegmentOk
  <2> QED
    BY <2>1, <2>2, TiledIs
<1>2. \A p : p \in Busy(sg) <=>
             \E s \in DOMAIN sg :
               \E off \in DOMAIN sg[s].items \ FreedIn(sg[s].slots) : p = <<s, off>>
  BY DEF Busy, Freed, FreedIn
<1>3. ASSUME NEW p \in Busy(sg)
      PROVE  p \in Headers(sg) /\ p[2] \notin FreedIn(sg[p[1]].slots)
  <2>1. PICK s \in DOMAIN sg :
               \E off \in DOMAIN sg[s].items \ FreedIn(sg[s].slots) : p = <<s, off>>
    BY <1>2
  <2>2. PICK off \in DOMAIN sg[s].items \ FreedIn(sg[s].slots) : p = <<s, off>>
    BY <2>1
  <2> QED
    BY <1>1, <2>2 DEF Headers, Places
<1>4. ASSUME NEW p \in Headers(sg), p[2] \notin FreedIn(sg[p[1]].slots) PROVE p \in Busy(sg)
  <2>1. p = <<p[1], p[2]>> /\ p[1] \in DOMAIN sg /\ p[2] \in DOMAIN sg[p[1]].items
    BY PlaceIs DEF Headers
  <2> QED
    BY <1>2, <1>4, <2>1
<1> QED
  BY <1>3, <1>4

LEMMA FreedIs ==
  ASSUME NEW items, NEW slots, Listed(items, slots)
  PROVE  /\ \A off : off \in FreedIn(slots) <=> \E k \in Slots : off \in ToSet(slots[k])
         /\ FreedIn(slots) \subseteq DOMAIN items
         /\ \A off \in FreedIn(slots), k \in Slots :
              off \in ToSet(slots[k]) <=> k = SlotOf(items[off].size)
<1>1. \A off : off \in FreedIn(slots) <=> \E k \in Slots : off \in ToSet(slots[k])
  BY DEF FreedIn
<1>2. \A k \in Slots : \A off \in ToSet(slots[k]) :
        off \in DOMAIN items /\ SlotOf(items[off].size) = k
  BY DEF Listed
<1> QED
  BY <1>1, <1>2

\* Two blocks have no address in common.
LEMMA Apart ==
  ASSUME NEW sg, HeapOk(sg), NEW p \in Headers(sg), NEW q \in Headers(sg),
         NEW i \in Nat, i <= Item(sg, p).size + 1,
         NEW j \in Nat, j <= Item(sg, q).size + 1,
         p[1] = q[1], p[2] + i = q[2] + j
  PROVE  p = q /\ i = j
<1> DEFINE g == sg[p[1]]
<1>1. p = <<p[1], p[2]>> /\ q = <<q[1], q[2]>> /\ p[2] \in Nat /\ q[2] \in Nat
      /\ p[2] \in DOMAIN g.items /\ q[2] \in DOMAIN g.items
      /\ Item(sg, p) = g.items[p[2]] /\ Item(sg, q) = g.items[q[2]]
      /\ Item(sg, p).size \in Nat /\ Item(sg, q).size \in Nat
  BY HeaderIs
<1>2. Tiled(g.end, g.items)
  BY HeaderIs DEF SegmentOk
<1>3. /\ p[2] > q[2] => p[2] >= q[2] + Item(sg, q).size + Hdr
      /\ q[2] > p[2] => q[2] >= p[2] + Item(sg, p).size + Hdr
  BY <1>1, <1>2 DEF Tiled
<1> HIDE DEF g
<1>4. p[2] = q[2]
  BY <1>1, <1>3 DEF Hdr
<1> QED
  BY <1>1, <1>4

---------------------------------------------------------------------------
(* Changing one block *)

\* the block at p and the lists of its segment replaced
Put(sg, p, b, slots) ==
  [s \in DOMAIN sg |->
    IF s = p[1]
    THEN [end |-> sg[s].end,
          items |-> [off \in DOMAIN sg[s].items |-> IF off = p[2] THEN b ELSE sg[s].items[off]],
          slots |-> slots]
    ELSE sg[s]]

\* A block may be replaced by one of its size, if the lists still fit.
LEMMA PutIs ==
  ASSUME NEW sg, HeapOk(sg), NEW p \in Headers(sg),
         NEW b, BlockOk(b), b.size = Item(sg, p).size,
         NEW slots, Listed(sg[p[1]].items, slots)
  PROVE  LET r == Put(sg, p, b, slots) IN
         /\ HeapOk(r) /\ Headers(r) = Headers(sg) /\ Item(r, p) = b
         /\ \A q \in Headers(sg) : q # p => Item(r, q) = Item(sg, q)
         /\ \A q \in Headers(sg) :
              r[q[1]].slots = IF q[1] = p[1] THEN slots ELSE sg[q[1]].slots
<1> DEFINE r == Put(sg, p, b, slots)
           g == sg[p[1]]
           i2 == [off \in DOMAIN g.items |-> IF off = p[2] THEN b ELSE g.items[off]]
           g2 == [end |-> g.end, items |-> i2, slots |-> slots]
<1>1. /\ p = <<p[1], p[2]>> /\ p[1] \in DOMAIN sg /\ p[2] \in DOMAIN g.items
      /\ SegmentOk(g) /\ Item(sg, p) = g.items[p[2]]
  BY HeaderIs
<1>2. Tiled(g.end, g.items)
  BY <1>1 DEF SegmentOk
<1>3. DOMAIN r = DOMAIN sg /\ r[p[1]] = g2 /\ \A s \in DOMAIN sg : s # p[1] => r[s] = sg[s]
  BY <1>1 DEF Put
<1>4. /\ DOMAIN i2 = DOMAIN g.items /\ i2[p[2]] = b
      /\ \A off \in DOMAIN g.items : /\ i2[off].size = g.items[off].size /\ BlockOk(i2[off])
                                     /\ off # p[2] => i2[off] = g.items[off]
  <2>1. \A off \in DOMAIN g.items : BlockOk(g.items[off])
    BY <1>2, TiledIs
  <2> QED
    BY <1>1, <2>1
<1>5. i2 = [off \in DOMAIN i2 |-> i2[off]]
  OBVIOUS
<1>6. g2.end = g.end /\ g2.items = i2 /\ g2.slots = slots
      /\ g2 = [end |-> g2.end, items |-> g2.items, slots |-> g2.slots]
  OBVIOUS
<1>7. r = [s \in 1..Len(sg) |-> r[s]]
  BY <1>3 DEF HeapOk, Put
<1> HIDE DEF g2, i2, r
<1>8. Tiled(g.end, i2)
  BY <1>2, <1>4, <1>5, RetiledIs
<1>9. Listed(i2, slots)
  BY <1>4 DEF Listed
<1>10. SegmentOk(g2)
  BY <1>6, <1>8, <1>9 DEF SegmentOk
<1>11. Len(r) = Len(sg)
  <2>1. r \in Seq({r[s] : s \in 1..Len(sg)})
    BY <1>7 DEF HeapOk
  <2> QED
    BY <1>7, <2>1 DEF HeapOk
<1>12. HeapOk(r)
  BY <1>3, <1>7, <1>10, <1>11 DEF HeapOk
<1>13. Headers(r) = Headers(sg)
  BY <1>3, <1>4, <1>6 DEF Headers
<1>14. Item(r, p) = b
  BY <1>3, <1>4, <1>6 DEF Item
<1>15. ASSUME NEW q \in Headers(sg)
       PROVE  /\ q # p => Item(r, q) = Item(sg, q)
              /\ r[q[1]].slots = IF q[1] = p[1] THEN slots ELSE sg[q[1]].slots
  <2>1. q = <<q[1], q[2]>> /\ q[1] \in DOMAIN sg /\ q[2] \in DOMAIN sg[q[1]].items
    BY HeaderIs
  <2>2. CASE q[1] = p[1]
    <3>1. q # p => q[2] # p[2]
      BY <1>1, <2>1, <2>2
    <3> QED
      BY <1>3, <1>4, <1>6, <2>1, <2>2, <3>1 DEF Item
  <2>3. CASE q[1] # p[1]
    BY <1>3, <2>1, <2>3 DEF Item
  <2> QED
    BY <2>2, <2>3
<1> QED
  BY <1>12, <1>13, <1>14, <1>15 DEF r

\* the blocks in use of a heap, and what is in them
SameBut(r, sg, p) == \A q \in Busy(sg) : q # p => Item(r, q) = Item(sg, q)

LEMMA PutBusy ==
  ASSUME NEW sg, HeapOk(sg), NEW p \in Headers(sg),
         NEW b, BlockOk(b), b.size = Item(sg, p).size,
         NEW slots, Listed(sg[p[1]].items, slots)
  PROVE  /\ slots = sg[p[1]].slots => Busy(Put(sg, p, b, slots)) = Busy(sg)
         /\ FreedIn(slots) = FreedIn(sg[p[1]].slots) \ {p[2]} =>
              Busy(Put(sg, p, b, slots)) = Busy(sg) \cup {p}
         /\ FreedIn(slots) = FreedIn(sg[p[1]].slots) \cup {p[2]} =>
              Busy(Put(sg, p, b, slots)) = Busy(sg) \ {p}
<1> DEFINE r == Put(sg, p, b, slots)
           old == FreedIn(sg[p[1]].slots)
<1>1. /\ HeapOk(r) /\ Headers(r) = Headers(sg)
      /\ \A q \in Headers(sg) :
           r[q[1]].slots = IF q[1] = p[1] THEN slots ELSE sg[q[1]].slots
  BY PutIs
<1> HIDE DEF r
<1>2. \A q : q \in Busy(sg) <=> q \in Headers(sg) /\ q[2] \notin FreedIn(sg[q[1]].slots)
  BY BusyIs
<1>3. \A q : q \in Busy(r) <=> q \in Headers(sg) /\ q[2] \notin FreedIn(r[q[1]].slots)
  BY <1>1, BusyIs
<1>4. \A q \in Headers(sg) : q = <<q[1], q[2]>>
  BY HeaderIs
<1>5. ASSUME NEW q
      PROVE  /\ slots = sg[p[1]].slots => (q \in Busy(r) <=> q \in Busy(sg))
             /\ FreedIn(slots) = old \ {p[2]} => (q \in Busy(r) <=> q \in Busy(sg) \cup {p})
             /\ FreedIn(slots) = old \cup {p[2]} => (q \in Busy(r) <=> q \in Busy(sg) \ {p})
  <2>1. CASE q \notin Headers(sg)
    BY <1>2, <1>3, <2>1
  <2>2. CASE q \in Headers(sg) /\ q[1] # p[1]
    BY <1>1, <1>2, <1>3, <2>2
  <2>3. CASE q \in Headers(sg) /\ q[1] = p[1]
    <3>1. (q = p) <=> (q[2] = p[2])
      BY <1>4, <2>3
    <3>2. /\ q \in Busy(sg) <=> q[2] \notin old
          /\ q \in Busy(r) <=> q[2] \notin FreedIn(slots)
      BY <1>1, <1>2, <1>3, <2>3
    <3> QED
      BY <3>1, <3>2
  <2> QED
    BY <2>1, <2>2, <2>3
<1> QED
  BY <1>5 DEF r

---------------------------------------------------------------------------
(* Writing, growing and freeing a block *)

LEMMA BusyHeader ==
  ASSUME NEW sg, HeapOk(sg), NEW p \in Busy(sg)
  PROVE  p \in Headers(sg)
BY BusyIs

\* a block of the same size
Block(b, n, c) == [size |-> b.size, usize |-> n, cells |-> c]

\* A block with another size in use, and other cells.
LEMMA ResizedIs ==
  ASSUME NEW b, NEW n, NEW c, BlockOk(b), n \in Nat, n <= b.size
  PROVE  /\ BlockOk(Block(b, n, c)) /\ Block(b, n, c).size = b.size
         /\ Block(b, n, c).usize = n /\ Block(b, n, c).cells = c
<1> DEFINE d == Block(b, n, c)
<1>1. d.size = b.size /\ d.usize = n /\ d.cells = c
  BY DEF Block
<1>2. d = [size |-> d.size, usize |-> d.usize, cells |-> d.cells]
  BY DEF Block
<1>3. b.size \in Nat \ {0}
  BY DEF BlockOk
<1> HIDE DEF d
<1>4. d.usize \in 0..d.size
  BY <1>1, <1>3
<1>5. BlockOk(d)
  BY <1>1, <1>2, <1>3, <1>4 DEF BlockOk
<1> QED
  BY <1>1, <1>5 DEF d

SetUsize(sg, p, n) == [sg EXCEPT ![p[1]].items[p[2]].usize = n]
SetSlots(sg, p, l) == [sg EXCEPT ![p[1]].slots = l]

\* The ways a segment is written, each as one block put for another.
LEMMA WritesArePuts ==
  ASSUME NEW sg, HeapOk(sg), NEW p \in Headers(sg)
  PROVE  /\ \A c : SetCells(sg, p, c) = Put(sg, p, Block(Item(sg, p), Item(sg, p).usize, c), sg[p[1]].slots)
         /\ \A n : SetUsize(sg, p, n) = Put(sg, p, Block(Item(sg, p), n, Item(sg, p).cells), sg[p[1]].slots)
         /\ \A l : SetSlots(sg, p, l) = Put(sg, p, Item(sg, p), l)
<1> DEFINE g == sg[p[1]]
           b == g.items[p[2]]
<1>1. /\ p = <<p[1], p[2]>> /\ p[1] \in DOMAIN sg /\ p[2] \in DOMAIN g.items
      /\ SegmentOk(g) /\ Item(sg, p) = b /\ BlockOk(b)
      /\ sg = [s \in DOMAIN sg |-> sg[s]]
  BY HeaderIs DEF HeapOk
<1>2. /\ g = [end |-> g.end, items |-> g.items, slots |-> g.slots]
      /\ g.items = [off \in DOMAIN g.items |-> g.items[off]]
      /\ g.slots = [j \in Slots |-> g.slots[j]]
  BY <1>1 DEF SegmentOk, Tiled, Listed
<1>3. \A x : [sg EXCEPT ![p[1]].items[p[2]] = x] = Put(sg, p, x, g.slots)
  <2> SUFFICES ASSUME NEW x
               PROVE  [sg EXCEPT ![p[1]].items[p[2]] = x] = Put(sg, p, x, g.slots)
    OBVIOUS
  <2> DEFINE i2 == [g.items EXCEPT ![p[2]] = x]
             i3 == [off \in DOMAIN g.items |-> IF off = p[2] THEN x ELSE g.items[off]]
             g2 == [g EXCEPT !.items = i2]
             g3 == [end |-> g.end, items |-> i3, slots |-> g.slots]
  <2>1. i2 = i3
    BY <1>1, <1>2
  <2> HIDE DEF i2, i3
  <2>2. g2 = g3
    BY <1>2, <2>1
  <2>3. [sg EXCEPT ![p[1]].items[p[2]] = x] = [sg EXCEPT ![p[1]] = g2]
    BY DEF i2
  <2>4. Put(sg, p, x, g.slots) = [s \in DOMAIN sg |-> IF s = p[1] THEN g3 ELSE sg[s]]
    BY DEF Put, i3
  <2> HIDE DEF g2, g3
  <2> QED
    BY <1>1, <2>2, <2>3, <2>4
<1>4. \A x : [sg EXCEPT ![p[1]].slots = x] = Put(sg, p, b, x)
  <2> SUFFICES ASSUME NEW x
               PROVE  [sg EXCEPT ![p[1]].slots = x] = Put(sg, p, b, x)
    OBVIOUS
  <2> DEFINE g2 == [g EXCEPT !.slots = x]
             i3 == [off \in DOMAIN g.items |-> IF off = p[2] THEN b ELSE g.items[off]]
             g3 == [end |-> g.end, items |-> i3, slots |-> x]
  <2>1. i3 = g.items
    BY <1>1, <1>2
  <2> HIDE DEF i3
  <2>2. g2 = g3
    BY <1>2, <2>1
  <2>3. [sg EXCEPT ![p[1]].slots = x] = [sg EXCEPT ![p[1]] = g2]
    OBVIOUS
  <2>4. Put(sg, p, b, x) = [s \in DOMAIN sg |-> IF s = p[1] THEN g3 ELSE sg[s]]
    BY DEF Put, i3
  <2> HIDE DEF g2, g3
  <2> QED
    BY <1>1, <2>2, <2>3, <2>4
<1>5. ASSUME NEW c, NEW n
      PROVE  /\ [sg EXCEPT ![p[1]].items[p[2]].cells = c] = Put(sg, p, Block(b, b.usize, c), g.slots)
             /\ [sg EXCEPT ![p[1]].items[p[2]].usize = n] = Put(sg, p, Block(b, n, b.cells), g.slots)
  <2>1. [b EXCEPT !.cells = c] = Block(b, b.usize, c) /\ [b EXCEPT !.usize = n] = Block(b, n, b.cells)
    BY <1>1 DEF Block, BlockOk
  <2>2. /\ [sg EXCEPT ![p[1]].items[p[2]].cells = c] = [sg EXCEPT ![p[1]].items[p[2]] = [b EXCEPT !.cells = c]]
        /\ [sg EXCEPT ![p[1]].items[p[2]].usize = n] = [sg EXCEPT ![p[1]].items[p[2]] = [b EXCEPT !.usize = n]]
    OBVIOUS
  <2> HIDE DEF b, g
  <2>3. /\ [sg EXCEPT ![p[1]].items[p[2]].cells = c] = Put(sg, p, Block(b, b.usize, c), g.slots)
        /\ [sg EXCEPT ![p[1]].items[p[2]].usize = n] = Put(sg, p, Block(b, n, b.cells), g.slots)
    BY <1>3, <2>1, <2>2
  <2> QED
    BY <2>3
<1> HIDE DEF b
<1> QED
  BY <1>1, <1>4, <1>5, Zenon DEF SetCells, SetUsize, SetSlots

LEMMA HeaderListed ==
  ASSUME NEW sg, HeapOk(sg), NEW p \in Headers(sg)
  PROVE  Listed(sg[p[1]].items, sg[p[1]].slots)
BY HeaderIs DEF SegmentOk

\* Writing the cells of a block changes nothing else.
LEMMA SetCellsIs ==
  ASSUME NEW sg, HeapOk(sg), NEW p \in Busy(sg), NEW c
  PROVE  /\ HeapOk(SetCells(sg, p, c)) /\ Busy(SetCells(sg, p, c)) = Busy(sg)
         /\ SameBut(SetCells(sg, p, c), sg, p)
         /\ Item(SetCells(sg, p, c), p) = Block(Item(sg, p), Item(sg, p).usize, c)
<1> DEFINE b == Block(Item(sg, p), Item(sg, p).usize, c)
           slots == sg[p[1]].slots
<1>1. p \in Headers(sg) /\ \A q \in Busy(sg) : q \in Headers(sg)
  BY BusyHeader
<1>3. SetCells(sg, p, c) = Put(sg, p, b, slots)
  BY <1>1, WritesArePuts
<1>4. BlockOk(b) /\ b.size = Item(sg, p).size
  BY <1>1, HeaderIs DEF Block, BlockOk
<1>5. Listed(sg[p[1]].items, slots)
  BY <1>1, HeaderListed
<1> HIDE DEF b
<1> QED
  BY <1>1, <1>3, <1>4, <1>5, PutIs, PutBusy DEF SameBut, b

LEMMA SetCellIs ==
  ASSUME NEW sg, NEW p, NEW k, NEW v
  PROVE  SetCell(sg, p, k, v) = SetCells(sg, p, [Item(sg, p).cells EXCEPT ![k] = v])
BY DEF SetCell, SetCells, Item

\* A block that is large enough grows in place.
LEMMA GrownIs ==
  ASSUME NEW sg, HeapOk(sg), NEW p \in Busy(sg), NEW n \in Nat, n <= Item(sg, p).size
  PROVE  LET r == Grown(sg, p, n)
             b == Item(sg, p) IN
         /\ HeapOk(r) /\ Busy(r) = Busy(sg) /\ SameBut(r, sg, p)
         /\ Item(r, p) = Block(b, n, [k \in 0..n - 1 |-> IF k < b.usize THEN b.cells[k] ELSE Null])
<1> DEFINE b == Item(sg, p)
           c == [k \in 0..n - 1 |-> IF k < b.usize THEN b.cells[k] ELSE Null]
           s1 == SetCells(sg, p, c)
           b2 == Block(Item(s1, p), n, Item(s1, p).cells)
           slots == s1[p[1]].slots
           r == Grown(sg, p, n)
<1>1. /\ HeapOk(s1) /\ Busy(s1) = Busy(sg) /\ SameBut(s1, sg, p)
      /\ Item(s1, p) = Block(b, b.usize, c)
  BY SetCellsIs
<1>2. r = SetUsize(s1, p, n)
  BY DEF Grown, SetUsize
<1> HIDE DEF s1, r
<1>3. p \in Headers(s1) /\ \A q \in Busy(s1) : q \in Headers(s1)
  BY <1>1, BusyHeader
<1>4. \A x : SetUsize(s1, p, x) = Put(s1, p, Block(Item(s1, p), x, Item(s1, p).cells), s1[p[1]].slots)
  BY <1>1, <1>3, WritesArePuts, Zenon
<1>5. r = Put(s1, p, b2, slots)
  BY <1>2, <1>4, Zenon
<1>6. b2 = Block(b, n, c)
  BY <1>1 DEF Block
<1>7. BlockOk(b2) /\ b2.size = Item(s1, p).size
  BY <1>1, <1>3, HeaderIs DEF Block, BlockOk
<1>8. Listed(s1[p[1]].items, slots)
  BY <1>1, <1>3, HeaderListed
<1> HIDE DEF b2, slots
<1>9. HeapOk(r) /\ Busy(r) = Busy(s1) /\ SameBut(r, s1, p) /\ Item(r, p) = b2
  BY <1>1, <1>3, <1>5, <1>7, <1>8, PutIs, PutBusy DEF SameBut, slots
<1> QED
  BY <1>1, <1>6, <1>9 DEF SameBut, r

LEMMA ConsIs ==
  ASSUME NEW l \in Seq(Nat), IsInjective(l), NEW x \in Nat, x \notin ToSet(l)
  PROVE  /\ <<x>> \o l \in Seq(Nat) /\ IsInjective(<<x>> \o l)
         /\ ToSet(<<x>> \o l) = ToSet(l) \cup {x}
<1> DEFINE r == <<x>> \o l
<1>1. r \in Seq(Nat) /\ Len(r) = Len(l) + 1 /\ Len(l) \in Nat
      /\ DOMAIN r = 1..Len(l) + 1 /\ DOMAIN l = 1..Len(l)
  OBVIOUS
<1>2. \A i \in 1..Len(l) + 1 : r[i] = IF i = 1 THEN x ELSE l[i - 1]
  OBVIOUS
<1> HIDE DEF r
<1>3. \A i \in 1..Len(l) : l[i] # x
  BY <1>1 DEF ToSet
<1>4. IsInjective(r)
  <2> SUFFICES ASSUME NEW i \in DOMAIN r, NEW j \in DOMAIN r, r[i] = r[j] PROVE i = j
    BY DEF IsInjective
  <2>1. CASE i = 1 \/ j = 1
    BY <1>1, <1>2, <1>3, <2>1
  <2>2. CASE i # 1 /\ j # 1
    <3>1. ASSUME NEW m \in DOMAIN r, m # 1
          PROVE  m \in Nat /\ m - 1 \in DOMAIN l /\ l[m - 1] = r[m]
      <4>1. m \in 1..Len(l) + 1
        BY <1>1
      <4>2. r[m] = l[m - 1]
        BY <1>2, <3>1, <4>1
      <4>3. m - 1 \in 1..Len(l)
        BY <1>1, <3>1, <4>1
      <4> QED
        BY <1>1, <4>1, <4>2, <4>3
    <3>2. /\ i \in Nat /\ i - 1 \in DOMAIN l /\ l[i - 1] = r[i]
          /\ j \in Nat /\ j - 1 \in DOMAIN l /\ l[j - 1] = r[j]
      BY <2>2, <3>1
    <3>3. i - 1 = j - 1
      BY <3>2, Zenon DEF IsInjective
    <3> QED
      BY <3>2, <3>3
  <2> QED
    BY <2>1, <2>2
<1>5. \A y : y \in ToSet(r) <=> y \in ToSet(l) \cup {x}
  <2> TAKE y
  <2>1. ASSUME y \in ToSet(r) PROVE y \in ToSet(l) \cup {x}
    <3>1. PICK i \in DOMAIN r : r[i] = y
      BY <2>1 DEF ToSet
    <3>2. i # 1 => i - 1 \in DOMAIN l /\ l[i - 1] = y
      BY <1>1, <1>2, <3>1
    <3> QED
      BY <1>1, <1>2, <3>1, <3>2 DEF ToSet
  <2>2. ASSUME NEW i \in 1..Len(l), y = l[i] PROVE y \in ToSet(r)
    <3>1. i + 1 \in DOMAIN r /\ r[i + 1] = y
      BY <1>1, <1>2, <2>2
    <3> QED
      BY <3>1 DEF ToSet
  <2>3. x \in ToSet(r)
    <3>1. 1 \in DOMAIN r /\ r[1] = x
      BY <1>1, <1>2
    <3> QED
      BY <3>1 DEF ToSet
  <2> QED
    BY <1>1, <2>1, <2>2, <2>3 DEF ToSet
<1> QED
  BY <1>1, <1>4, <1>5 DEF r

LEMMA RemoveAtIs ==
  ASSUME NEW l \in Seq(Nat), IsInjective(l), NEW i \in 1..Len(l)
  PROVE  /\ RemoveAt(l, i) \in Seq(Nat) /\ IsInjective(RemoveAt(l, i))
         /\ ToSet(RemoveAt(l, i)) = ToSet(l) \ {l[i]}
<1> DEFINE r == RemoveAt(l, i)
           a == SubSeq(l, 1, i - 1)
           b == SubSeq(l, i + 1, Len(l))
<1>1. Len(l) \in Nat /\ DOMAIN l = 1..Len(l) /\ i \in Nat /\ i >= 1 /\ i <= Len(l)
  OBVIOUS
<1>2. a \in Seq(Nat) /\ Len(a) = i - 1 /\ \A j \in 1..i - 1 : a[j] = l[j]
  BY <1>1
<1>3. b \in Seq(Nat) /\ Len(b) = Len(l) - i /\ \A j \in 1..Len(l) - i : b[j] = l[i + j]
  <2>1. i + 1 \in Nat /\ Len(l) - i = Len(l) - (i + 1) + 1 /\ Len(l) - i \in Nat
    BY <1>1
  <2>2. b \in Seq(Nat)
    BY <1>1
  <2>3. b = [j \in 1..Len(l) - i |-> l[i + j]]
    BY <1>1
  <2> HIDE DEF b
  <2> QED
    BY <2>1, <2>2, <2>3
<1>4. r = a \o b
  BY DEF RemoveAt
<1> HIDE DEF a, b, r
<1>5. /\ r \in Seq(Nat) /\ Len(r) = Len(l) - 1 /\ DOMAIN r = 1..Len(l) - 1
      /\ \A j \in 1..Len(l) - 1 : r[j] = IF j < i THEN l[j] ELSE l[j + 1]
  <2>1. r \in Seq(Nat) /\ Len(r) = Len(l) - 1 /\ DOMAIN r = 1..Len(l) - 1
    <3>1. r \in Seq(Nat) /\ Len(r) = Len(a) + Len(b) /\ DOMAIN r = 1..Len(r)
      <4>1. a \in Seq(Nat) /\ b \in Seq(Nat)
        BY <1>2, <1>3
      <4>2. a \o b \in Seq(Nat) /\ Len(a \o b) = Len(a) + Len(b)
        BY <4>1, ConcatProperties, Zenon
      <4> QED
        BY <1>4, <4>2
    <3>2. Len(a) + Len(b) = Len(l) - 1
      BY <1>1, <1>2, <1>3
    <3> QED
      BY <3>1, <3>2
  <2>2. \A j \in 1..Len(l) - 1 : r[j] = IF j <= Len(a) THEN a[j] ELSE b[j - Len(a)]
    <3>1. a \in Seq(Nat) /\ b \in Seq(Nat)
      BY <1>2, <1>3
    <3>2. \A j \in 1..Len(a) + Len(b) : (a \o b)[j] = IF j <= Len(a) THEN a[j] ELSE b[j - Len(a)]
      BY <3>1, ConcatProperties, Zenon
    <3>3. Len(a) + Len(b) = Len(l) - 1
      BY <1>1, <1>2, <1>3
    <3> QED
      BY <1>4, <3>2, <3>3
  <2> SUFFICES ASSUME NEW j \in 1..Len(l) - 1
               PROVE  r[j] = IF j < i THEN l[j] ELSE l[j + 1]
    BY <2>1
  <2>3. CASE j < i
    BY <1>1, <1>2, <2>2, <2>3
  <2>4. CASE j >= i
    <3>1. j - (i - 1) \in 1..Len(l) - i
      BY <1>1, <2>4
    <3>2. b[j - (i - 1)] = l[i + (j - (i - 1))]
      BY <1>3, <3>1
    <3>3. i + (j - (i - 1)) = j + 1
      BY <1>1
    <3> QED
      BY <1>1, <1>2, <2>2, <2>4, <3>2, <3>3
  <2> QED
    BY <1>1, <2>3, <2>4
<1>6. IsInjective(r)
  <2> SUFFICES ASSUME NEW m \in DOMAIN r, NEW n \in DOMAIN r, r[m] = r[n] PROVE m = n
    BY DEF IsInjective
  <2> DEFINE in(x) == IF x < i THEN x ELSE x + 1
  <2>1. \A x \in DOMAIN r : x \in Nat /\ in(x) \in DOMAIN l /\ r[x] = l[in(x)]
    <3> SUFFICES ASSUME NEW x \in DOMAIN r
                 PROVE  x \in Nat /\ in(x) \in DOMAIN l /\ r[x] = l[in(x)]
      OBVIOUS
    <3>1. x \in 1..Len(l) - 1
      BY <1>5
    <3>2. r[x] = IF x < i THEN l[x] ELSE l[x + 1]
      BY <1>5, <3>1
    <3> HIDE DEF r
    <3> QED
      BY <1>1, <3>1, <3>2
  <2>2. in(m) = in(n)
    <3> HIDE DEF in
    <3> QED
      BY <2>1 DEF IsInjective
  <2> QED
    BY <1>1, <2>1, <2>2
<1>7. \A y : y \in ToSet(r) <=> y \in ToSet(l) \ {l[i]}
  <2> TAKE y
  <2>1. ASSUME y \in ToSet(r) PROVE y \in ToSet(l) \ {l[i]}
    <3>1. PICK j \in DOMAIN r : r[j] = y
      BY <2>1 DEF ToSet
    <3>2. \E m \in DOMAIN l : l[m] = y /\ m # i
      <4>1. j \in 1..Len(l) - 1
        BY <1>5
      <4>2. r[j] = IF j < i THEN l[j] ELSE l[j + 1]
        BY <1>5, <4>1
      <4>3. CASE j < i
        BY <1>1, <3>1, <4>1, <4>2, <4>3
      <4>4. CASE ~ j < i
        <5>1. j + 1 \in DOMAIN l /\ j + 1 # i
          BY <1>1, <4>1, <4>4
        <5> QED
          BY <3>1, <4>2, <4>4, <5>1
      <4> QED
        BY <4>3, <4>4
    <3> QED
      BY <1>1, <3>2 DEF ToSet, IsInjective
  <2>2. ASSUME NEW m \in DOMAIN l, y = l[m], y # l[i] PROVE y \in ToSet(r)
    <3>1. CASE m < i
      <4>1. m \in DOMAIN r /\ r[m] = y
        BY <1>1, <1>5, <2>2, <3>1
      <4> QED
        BY <4>1 DEF ToSet
    <3>2. CASE m > i
      <4>1. m - 1 \in DOMAIN r /\ r[m - 1] = y
        BY <1>1, <1>5, <2>2, <3>2
      <4> QED
        BY <4>1 DEF ToSet
    <3> QED
      BY <1>1, <2>2, <3>1, <3>2
  <2> QED
    BY <2>1, <2>2 DEF ToSet
<1> QED
  BY <1>5, <1>6, <1>7 DEF r

\* Another list for one size, with a block more or less.
Relisted(items, slots, off, k, r) ==
  /\ Listed(items, slots) /\ off \in DOMAIN items /\ k \in Slots /\ SlotOf(items[off].size) = k
  /\ r = [j \in Slots |-> r[j]] /\ \A j \in Slots : j # k => r[j] = slots[j]
  /\ r[k] \in Seq(Nat) /\ IsInjective(r[k])

\* a list, and all lists, with an offset more, or less
More(l, m, off) == ToSet(m) = ToSet(l) \cup {off}
Less(l, m, off) == ToSet(m) = ToSet(l) \ {off}
MoreFreed(slots, r, off) == FreedIn(r) = FreedIn(slots) \cup {off}
LessFreed(slots, r, off) == FreedIn(r) = FreedIn(slots) \ {off}

LEMMA RelistedIs ==
  ASSUME NEW items, NEW slots, NEW off, NEW k, NEW r, Relisted(items, slots, off, k, r)
  PROVE  /\ More(slots[k], r[k], off) => Listed(items, r) /\ MoreFreed(slots, r, off)
         /\ Less(slots[k], r[k], off) => Listed(items, r) /\ LessFreed(slots, r, off)
<1> USE DEF More, Less, MoreFreed, LessFreed
<1> USE DEF Relisted
<1>1. \A j \in Slots :
        /\ slots[j] \in Seq(Nat) /\ IsInjective(slots[j])
        /\ \A x \in ToSet(slots[j]) : x \in DOMAIN items /\ SlotOf(items[x].size) = j
  BY DEF Listed
<1>2. \A j \in Slots : j # k => r[j] = slots[j]
  OBVIOUS
<1>3. /\ \A x : x \in FreedIn(slots) <=> \E j \in Slots : x \in ToSet(slots[j])
      /\ \A x : x \in FreedIn(r) <=> \E j \in Slots : x \in ToSet(r[j])
  BY DEF FreedIn
<1>4. ASSUME ToSet(r[k]) \subseteq ToSet(slots[k]) \cup {off} PROVE Listed(items, r)
  <2>1. ASSUME NEW j \in Slots
        PROVE  /\ r[j] \in Seq(Nat) /\ IsInjective(r[j])
               /\ \A x \in ToSet(r[j]) : x \in DOMAIN items /\ SlotOf(items[x].size) = j
    <3>1. CASE j = k
      BY <1>1, <1>4, <3>1
    <3>2. CASE j # k
      BY <1>1, <1>2, <3>2
    <3> QED
      BY <3>1, <3>2
  <2> QED
    BY <2>1 DEF Listed
<1>5. ASSUME ToSet(r[k]) = ToSet(slots[k]) \cup {off}
      PROVE  FreedIn(r) = FreedIn(slots) \cup {off}
  <2>1. \A x : x \in FreedIn(r) <=> x \in FreedIn(slots) \cup {off}
    BY <1>2, <1>3, <1>5
  <2> QED
    BY <2>1
<1>6. ASSUME ToSet(r[k]) = ToSet(slots[k]) \ {off}
      PROVE  FreedIn(r) = FreedIn(slots) \ {off}
  <2>1. \A j \in Slots : j # k => off \notin ToSet(slots[j])
    BY <1>1
  <2>2. \A x : x \in FreedIn(r) <=> x \in FreedIn(slots) \ {off}
    BY <1>2, <1>3, <1>6, <2>1
  <2> QED
    BY <2>2
<1> QED
  BY <1>4, <1>5, <1>6

\* A block is freed, and the others stay as they are.
LEMMA FreeIs ==
  ASSUME NEW sg, HeapOk(sg), NEW p \in Busy(sg)
  PROVE  /\ HeapOk(PMfree(sg, p)) /\ Busy(PMfree(sg, p)) = Busy(sg) \ {p}
         /\ SameBut(PMfree(sg, p), sg, p)
<1> DEFINE b == Item(sg, p)
           k == SlotOf(b.size)
           slots == sg[p[1]].slots
           l == <<p[2]>> \o slots[k]
           sl == [slots EXCEPT ![k] = l]
           s1 == SetSlots(sg, p, sl)
           s2 == SetUsize(s1, p, 0)
           s3 == SetCells(s2, p, <<>>)
<1>1. PMfree(sg, p) = s3
  BY DEF PMfree, SetSlots, SetUsize, SetCells
<1>2. p \in Headers(sg) /\ p[2] \notin FreedIn(slots) /\ \A q \in Busy(sg) : q \in Headers(sg)
  BY BusyIs
<1>3. /\ p[2] \in Nat /\ p[2] \in DOMAIN sg[p[1]].items /\ b = sg[p[1]].items[p[2]]
      /\ BlockOk(b) /\ b.size \in Nat \ {0}
  BY <1>2, HeaderIs
<1>4. k \in Slots
  BY <1>3, SlotIs
<1>5. Listed(sg[p[1]].items, slots)
  BY <1>2, HeaderListed
<1>6. slots[k] \in Seq(Nat) /\ IsInjective(slots[k]) /\ p[2] \notin ToSet(slots[k])
  BY <1>2, <1>4, <1>5 DEF Listed, FreedIn
<1>7. l \in Seq(Nat) /\ IsInjective(l) /\ ToSet(l) = ToSet(slots[k]) \cup {p[2]}
  BY <1>3, <1>6, ConsIs
<1> HIDE DEF l
<1>8. Listed(sg[p[1]].items, sl) /\ FreedIn(sl) = FreedIn(slots) \cup {p[2]}
  <2> HIDE DEF k, slots, b, s1, s2, s3
  <2>1. SlotOf(sg[p[1]].items[p[2]].size) = k
    BY <1>3 DEF k
  <2>2. sl = [j \in Slots |-> sl[j]] /\ sl[k] = l /\ \A j \in Slots : j # k => sl[j] = slots[j]
    BY <1>4, <1>5 DEF Listed
  <2> HIDE DEF sl
  <2> QED
    <3>1. Relisted(sg[p[1]].items, slots, p[2], k, sl)
      BY <1>3, <1>4, <1>5, <1>7, <2>1, <2>2 DEF Relisted
    <3>2. More(slots[k], sl[k], p[2])
      BY <1>7, <2>2 DEF More
    <3>3. Listed(sg[p[1]].items, sl) /\ MoreFreed(slots, sl, p[2])
      BY <3>1, <3>2, RelistedIs, Zenon
    <3> QED
      BY <3>3 DEF MoreFreed
<1>9. s1 = Put(sg, p, b, sl)
  BY <1>2, WritesArePuts
<1>10. /\ HeapOk(s1) /\ Headers(s1) = Headers(sg) /\ Busy(s1) = Busy(sg) \ {p}
       /\ Item(s1, p) = b /\ \A q \in Headers(sg) : q # p => Item(s1, q) = Item(sg, q)
  <2> HIDE DEF s1, sl, b, slots
  <2>1. FreedIn(sl) = FreedIn(sg[p[1]].slots) \cup {p[2]} /\ Listed(sg[p[1]].items, sl)
    BY <1>8 DEF sl, slots
  <2>2. BlockOk(b) /\ b.size = Item(sg, p).size
    BY <1>3 DEF b
  <2>3. /\ HeapOk(s1) /\ Headers(s1) = Headers(sg)
        /\ Item(s1, p) = b /\ \A q \in Headers(sg) : q # p => Item(s1, q) = Item(sg, q)
    BY <1>2, <1>9, <2>1, <2>2, PutIs
  <2>4. Busy(s1) = Busy(sg) \ {p}
    BY <1>2, <1>9, <2>1, <2>2, PutBusy
  <2> QED
    BY <2>3, <2>4
<1> HIDE DEF s1
<1> DEFINE b1 == Block(b, 0, b.cells)
<1>11. s2 = Put(s1, p, b1, s1[p[1]].slots)
  <2>1. \A n : SetUsize(s1, p, n) = Put(s1, p, Block(Item(s1, p), n, Item(s1, p).cells), s1[p[1]].slots)
    BY <1>2, <1>10, WritesArePuts, Zenon
  <2> HIDE DEF b, k, slots, l, sl
  <2>2. s2 = Put(s1, p, Block(Item(s1, p), 0, Item(s1, p).cells), s1[p[1]].slots)
    BY <2>1, Zenon
  <2>3. Item(s1, p) = b
    BY <1>10
  <2> QED
    BY <2>2, <2>3, Zenon
<1>12. BlockOk(b1) /\ b1.size = b.size
  <2> HIDE DEF b
  <2>1. BlockOk(b) /\ 0 \in Nat /\ 0 <= b.size
    BY <1>3
  <2> QED
    BY <2>1, ResizedIs
<1>13. Listed(s1[p[1]].items, s1[p[1]].slots)
  BY <1>2, <1>10, HeaderListed
<1>14. /\ HeapOk(s2) /\ Headers(s2) = Headers(sg) /\ Busy(s2) = Busy(s1)
       /\ Item(s2, p) = b1 /\ \A q \in Headers(sg) : q # p => Item(s2, q) = Item(s1, q)
  <2> HIDE DEF s2, b1, b
  <2> QED
    BY <1>2, <1>10, <1>11, <1>12, <1>13, PutIs, PutBusy
<1> HIDE DEF s2
<1> DEFINE b2 == Block(b1, b1.usize, <<>>)
<1>15. s3 = Put(s2, p, b2, s2[p[1]].slots)
  <2>1. \A c : SetCells(s2, p, c) = Put(s2, p, Block(Item(s2, p), Item(s2, p).usize, c), s2[p[1]].slots)
    BY <1>2, <1>14, WritesArePuts, Zenon
  <2> HIDE DEF b1
  <2> QED
    BY <1>14, <2>1
<1>16. BlockOk(b2) /\ b2.size = b1.size
  <2> HIDE DEF b, b1
  <2>1. BlockOk(b1) /\ b1.usize \in Nat /\ b1.usize <= b1.size
    BY <1>12 DEF BlockOk
  <2> QED
    BY <2>1, ResizedIs
<1>17. Listed(s2[p[1]].items, s2[p[1]].slots)
  BY <1>2, <1>14, HeaderListed
<1>18. /\ HeapOk(s3) /\ Busy(s3) = Busy(s2)
       /\ \A q \in Headers(sg) : q # p => Item(s3, q) = Item(s2, q)
  <2> HIDE DEF s3, b2, b1
  <2> QED
    BY <1>2, <1>14, <1>15, <1>16, <1>17, PutIs, PutBusy
<1> QED
  BY <1>1, <1>2, <1>10, <1>14, <1>18 DEF SameBut

---------------------------------------------------------------------------
(* PMalloc *)

\* The end of a segment becomes a block of its own.
LEMMA CarvedIs ==
  ASSUME NEW g, SegmentOk(g), NEW n \in Nat \ {0}, Room(g, n)
  PROVE  /\ SegmentOk(Carved(g, n)) /\ Carved(g, n).slots = g.slots
         /\ g.end \in Nat \ {0} /\ g.end \notin DOMAIN g.items
         /\ DOMAIN Carved(g, n).items = DOMAIN g.items \cup {g.end}
         /\ Carved(g, n).items[g.end].usize = n
         /\ \A off \in DOMAIN g.items : Carved(g, n).items[off] = g.items[off]
<1> DEFINE b == [size |-> n, usize |-> n, cells |-> <<>>]
           e == g.end
           f == e + n + Hdr
           i2 == [off \in DOMAIN g.items \cup {e} |-> IF off = e THEN b ELSE g.items[off]]
           g2 == [end |-> f, items |-> i2, slots |-> g.slots]
<1>1. g = [end |-> g.end, items |-> g.items, slots |-> g.slots]
      /\ Tiled(e, g.items) /\ Listed(g.items, g.slots)
  BY DEF SegmentOk
<1>2. Carved(g, n) = g2
  <2>1. Carved(g, n) = [g EXCEPT !.end = f, !.items = i2]
    BY DEF Carved
  <2> HIDE DEF i2, e
  <2> QED
    BY <1>1, <2>1 DEF e
<1>3. /\ e \in Nat \ {0} /\ e \in Unit..SegSize /\ SegSize \in Nat
      /\ \A off \in DOMAIN g.items :
           off \in Nat /\ off < e /\ BlockOk(g.items[off]) /\ g.items[off].size \in Nat \ {0}
  BY <1>1, TiledIs, SizesAssumption DEF Tiled, Unit
<1>4. f \in Unit..SegSize
  BY <1>3 DEF Room, Hdr, Unit
<1>5. e \notin DOMAIN g.items
  BY <1>3
<1>6. /\ DOMAIN i2 = DOMAIN g.items \cup {e} /\ i2[e] = b
      /\ \A off \in DOMAIN g.items : i2[off] = g.items[off]
      /\ i2 = [off \in DOMAIN i2 |-> i2[off]]
  BY <1>5
<1>7. BlockOk(b) /\ b.size = n /\ b.usize = n
  BY DEF BlockOk
<1>8. g2.end = f /\ g2.items = i2 /\ g2.slots = g.slots
      /\ g2 = [end |-> g2.end, items |-> g2.items, slots |-> g2.slots]
  OBVIOUS
<1> HIDE DEF g2, i2, b, f
<1>9. ASSUME NEW off \in DOMAIN i2
      PROVE  /\ off \in Unit..f - 1 /\ BlockOk(i2[off])
             /\ off + i2[off].size + Hdr \in DOMAIN i2 \cup {f}
             /\ \A q \in DOMAIN i2 \cup {f} :
                  q > off => q >= off + i2[off].size + Hdr
  <2>1. CASE off = e
    <3>1. i2[off].size = n /\ BlockOk(i2[off])
      BY <1>6, <1>7, <2>1
    <3>2. off \in Unit..f - 1
      BY <1>3, <2>1 DEF Hdr, Unit, f
    <3>3. \A q \in DOMAIN i2 : ~ (q > off)
      BY <1>3, <1>6, <2>1
    <3>4. off + i2[off].size + Hdr = f
      BY <2>1, <3>1 DEF f
    <3>5. f >= f
      BY <1>3 DEF f, Hdr
    <3> HIDE DEF e
    <3> QED
      BY <3>1, <3>2, <3>3, <3>4, <3>5
  <2>2. CASE off # e
    <3>1. off \in DOMAIN g.items /\ i2[off] = g.items[off]
      BY <1>6, <2>2
    <3>2. off \in Unit..e - 1 /\ BlockOk(g.items[off])
          /\ off + g.items[off].size + Hdr \in DOMAIN g.items \cup {e}
          /\ \A q \in DOMAIN g.items \cup {e} : q > off => q >= off + g.items[off].size + Hdr
      BY <1>1, <3>1 DEF Tiled
    <3>3. e >= off + g.items[off].size + Hdr
      BY <1>3, <3>1, <3>2
    <3>4. f >= off + g.items[off].size + Hdr
      BY <1>3, <3>1, <3>3 DEF Hdr, f
    <3>5. off \in Unit..f - 1
      BY <1>3, <3>2 DEF Hdr, Unit, f
    <3> HIDE DEF e
    <3> QED
      BY <1>6, <3>1, <3>2, <3>4, <3>5
  <2> QED
    BY <2>1, <2>2
<1>10. ASSUME NEW off \in DOMAIN i2 \cup {f}, off # Unit
       PROVE  \E q \in DOMAIN i2 : q + i2[q].size + Hdr = off
  <2>1. CASE off = f
    BY <1>6, <1>7, <2>1 DEF f
  <2>2. CASE off # f
    <3>1. off \in DOMAIN g.items \cup {e}
      BY <1>6, <1>10, <2>2
    <3>2. PICK q \in DOMAIN g.items : q + g.items[q].size + Hdr = off
      BY <1>1, <1>10, <3>1 DEF Tiled
    <3> QED
      BY <1>6, <3>2
  <2> QED
    BY <2>1, <2>2
<1>11. Tiled(g2.end, i2)
  BY <1>4, <1>6, <1>8, <1>9, <1>10 DEF Tiled
<1>12. Listed(i2, g2.slots)
  BY <1>1, <1>6, <1>8 DEF Listed
<1>13. SegmentOk(g2)
  BY <1>8, <1>11, <1>12 DEF SegmentOk
<1> QED
  BY <1>2, <1>3, <1>5, <1>6, <1>7, <1>8, <1>13 DEF f

LEMMA NewSegmentIs ==
  /\ SegmentOk(NewSegment) /\ NewSegment.end = Unit /\ NewSegment.items = [off \in {} |-> None]
  /\ \A k \in Slots : NewSegment.slots[k] = <<>>
<1> DEFINE e == [off \in {} |-> None]
           l == [k \in Slots |-> <<>>]
<1>1. NewSegment.end = Unit /\ NewSegment.items = e /\ NewSegment.slots = l
      /\ NewSegment = [end |-> Unit, items |-> e, slots |-> l]
  BY DEF NewSegment
<1>2. DOMAIN e = {} /\ e = [off \in DOMAIN e |-> e[off]]
  OBVIOUS
<1>3. \A k \in Slots : l[k] = <<>>
  OBVIOUS
<1>4. <<>> \in Seq(Nat) /\ DOMAIN <<>> = {}
  OBVIOUS
<1>5. l = [k \in Slots |-> l[k]]
  OBVIOUS
<1> HIDE DEF e, l
<1>6. ToSet(<<>>) = {} /\ IsInjective(<<>>)
  BY <1>4 DEF ToSet, IsInjective
<1>7. Listed(e, l)
  BY <1>3, <1>4, <1>5, <1>6 DEF Listed
<1>8. Unit \in Unit..SegSize
  BY SizesAssumption DEF Unit, Hdr
<1>9. Tiled(Unit, e)
  BY <1>2, <1>8 DEF Tiled
<1>10. SegmentOk(NewSegment)
  BY <1>1, <1>7, <1>9 DEF SegmentOk
<1> QED
  BY <1>1, <1>3, <1>10 DEF e

\* A heap with one block more.
Growth(sg, r, p) ==
  /\ HeapOk(sg) /\ HeapOk(r) /\ p \notin Headers(sg) /\ Headers(r) = Headers(sg) \cup {p}
  /\ p[2] \notin FreedIn(r[p[1]].slots)
  /\ \A q \in Headers(sg) : r[q[1]].slots = sg[q[1]].slots

LEMMA GrowthIs ==
  ASSUME NEW sg, NEW r, NEW p, Growth(sg, r, p)
  PROVE  Busy(r) = Busy(sg) \cup {p} /\ p \notin Busy(sg)
<1> USE DEF Growth
<1>1. \A q : q \in Busy(sg) <=> q \in Headers(sg) /\ q[2] \notin FreedIn(sg[q[1]].slots)
  BY BusyIs
<1>2. \A q : q \in Busy(r) <=> q \in Headers(r) /\ q[2] \notin FreedIn(r[q[1]].slots)
  BY BusyIs
<1>3. \A q : q \in Busy(r) <=> q \in Busy(sg) \cup {p}
  BY <1>1, <1>2
<1> QED
  BY <1>1, <1>3

\* Memory for n units: a block that nobody uses, and the others stay as they are.
Allocated(sg, n, a) ==
  /\ HeapOk(a.segs) /\ a.at \notin Busy(sg) /\ Busy(a.segs) = Busy(sg) \cup {a.at}
  /\ SameBut(a.segs, sg, a.at) /\ Item(a.segs, a.at).usize = n

\* Another segment in the place of one, with a block more.
SegmentGrown(sg, s, g, n, r) ==
  /\ HeapOk(sg) /\ s \in 1..Len(sg) + 1 /\ SegmentOk(g) /\ n \in Nat \ {0} /\ Room(g, n)
  /\ s = Len(sg) + 1 => g = NewSegment
  /\ s <= Len(sg) => g = sg[s]
  /\ Len(r) = (IF s <= Len(sg) THEN Len(sg) ELSE s) /\ r = [x \in 1..Len(r) |-> r[x]]
  /\ r[s] = Carved(g, n)
  /\ \A x \in 1..Len(sg) : x # s => r[x] = sg[x]

LEMMA SegmentGrows ==
  ASSUME NEW sg, NEW s, NEW g, NEW n, NEW r, SegmentGrown(sg, s, g, n, r)
  PROVE  Allocated(sg, n, [segs |-> r, at |-> <<s, g.end>>])
<1> DEFINE m == Len(r)
           c == Carved(g, n)
           p == <<s, g.end>>
<1> USE DEF SegmentGrown
<1>0. HeapOk(sg) /\ SegmentOk(g)
  OBVIOUS
<1>1. /\ SegmentOk(c) /\ c.slots = g.slots /\ g.end \in Nat \ {0} /\ g.end \notin DOMAIN g.items
      /\ DOMAIN c.items = DOMAIN g.items \cup {g.end} /\ c.items[g.end].usize = n
      /\ \A off \in DOMAIN g.items : c.items[off] = g.items[off]
  BY CarvedIs
<1>2. Len(sg) \in Nat /\ DOMAIN sg = 1..Len(sg) /\ \A x \in 1..Len(sg) : SegmentOk(sg[x])
  BY DEF HeapOk
<1>3. /\ m \in Nat /\ s \in 1..m /\ 1..m = 1..Len(sg) \cup {s}
      /\ s \in Nat
  BY <1>2
<1>4. r = [x \in 1..m |-> r[x]] /\ r[s] = c /\ \A x \in 1..m : x # s => r[x] = sg[x]
  BY <1>3
<1>a. /\ s = Len(sg) + 1 => g = NewSegment
      /\ s <= Len(sg) => g = sg[s]
      /\ m = Len(r) /\ (s <= Len(sg) \/ s = Len(sg) + 1)
  BY <1>2
<1> HIDE DEF SegmentGrown, m, c
<1>5. HeapOk(r)
  <2>1. \A x \in 1..m : SegmentOk(r[x])
    BY <1>1, <1>2, <1>3, <1>4
  <2> QED
    BY <1>3, <1>4, <1>a, <2>1 DEF HeapOk
<1>6. DOMAIN r = 1..Len(sg) \cup {s}
  BY <1>3, <1>4
<1>7. ASSUME NEW q \in Places
      PROVE  q \in Headers(r) <=> q \in Headers(sg) \/ q = p
  <2>1. q = <<q[1], q[2]>>
    BY PlaceIs
  <2>2. CASE q[1] = s
    <3>1. q \in Headers(r) <=> q[2] \in DOMAIN g.items \/ q[2] = g.end
      BY <1>1, <1>4, <1>6, <2>2 DEF Headers
    <3>2. q = p <=> q[2] = g.end
      BY <2>1, <2>2
    <3>3. q \in Headers(sg) <=> q[2] \in DOMAIN g.items
      <4>1. CASE s <= Len(sg)
        BY <1>2, <1>3, <1>a, <2>2, <4>1 DEF Headers
      <4>2. CASE s = Len(sg) + 1
        <5>1. DOMAIN g.items = {}
          BY <1>a, <4>2, NewSegmentIs
        <5>2. s \notin DOMAIN sg
          BY <1>2, <4>2
        <5>3. q \notin Headers(sg)
          BY <2>2, <5>2 DEF Headers
        <5> QED
          BY <5>1, <5>3
      <4> QED
        BY <1>a, <4>1, <4>2
    <3> QED
      BY <3>1, <3>2, <3>3
  <2>3. CASE q[1] # s
    BY <1>2, <1>3, <1>4, <1>6, <2>1, <2>3 DEF Headers
  <2> QED
    BY <2>2, <2>3
<1>8. p \in Places
  BY <1>1, <1>3 DEF Places
<1>9. Headers(r) = Headers(sg) \cup {p}
  <2>1. \A q \in Headers(r) \cup Headers(sg) : q \in Places
    BY DEF Headers
  <2> QED
    BY <1>7, <1>8, <2>1
<1>10. p \notin Headers(sg)
  <2>1. CASE s <= Len(sg)
    BY <1>1, <1>a, <2>1 DEF Headers
  <2>2. CASE s = Len(sg) + 1
    <3>1. s \notin DOMAIN sg
      BY <1>2, <2>2
    <3> QED
      BY <3>1 DEF Headers
  <2> QED
    BY <1>a, <2>1, <2>2
<1>11. ASSUME NEW q \in Headers(sg)
       PROVE  r[q[1]].slots = sg[q[1]].slots /\ Item(r, q) = Item(sg, q)
  <2>1. q[1] \in 1..Len(sg) /\ q[2] \in DOMAIN sg[q[1]].items
    BY <1>0, HeaderIs
  <2>2. CASE q[1] = s
    <3>1. g = sg[q[1]] /\ r[q[1]] = c
      <4>1. s <= Len(sg)
        BY <1>2, <2>1, <2>2
      <4> QED
        BY <1>4, <1>a, <2>2, <4>1
    <3> QED
      BY <1>1, <2>1, <3>1 DEF Item
  <2>3. CASE q[1] # s
    BY <1>3, <1>4, <2>1, <2>3 DEF Item
  <2> QED
    BY <2>2, <2>3
<1>12. p[2] \notin FreedIn(r[p[1]].slots)
  <2>1. Listed(g.items, g.slots)
    BY <1>0 DEF SegmentOk
  <2>2. FreedIn(g.slots) \subseteq DOMAIN g.items
    BY <2>1, FreedIs
  <2> QED
    BY <1>1, <1>4, <2>2
<1>13. Item(r, p).usize = n
  BY <1>1, <1>4 DEF Item
<1> HIDE DEF p
<1>14. Busy(r) = Busy(sg) \cup {p} /\ p \notin Busy(sg)
  <2>1. \A q \in Headers(sg) : r[q[1]].slots = sg[q[1]].slots
    BY <1>11
  <2> QED
    BY <1>0, <1>5, <1>9, <1>10, <1>12, <2>1, GrowthIs DEF Growth
<1>15. SameBut(r, sg, p)
  BY <1>0, <1>11, BusyHeader DEF SameBut
<1>16. Allocated(sg, n, [segs |-> r, at |-> p])
  BY <1>5, <1>13, <1>14, <1>15 DEF Allocated
<1> QED
  BY <1>16 DEF p

LEMMA FitIs ==
  ASSUME NEW g, SegmentOk(g), NEW n \in Nat \ {0}, Fit(g, n) # 0
  PROVE  /\ Fit(g, n) \in 1..Len(g.slots[SlotOf(n)])
         /\ g.items[g.slots[SlotOf(n)][Fit(g, n)]].size >= n
<1> DEFINE l == g.slots[SlotOf(n)]
           I == {i \in 1..Len(l) : g.items[l[i]].size >= n}
<1>1. Fit(g, n) = IF I # {} THEN Min(I) ELSE 0
  BY DEF Fit, SelectInSeq
<1>2. l \in Seq(Nat)
  BY SlotIs DEF SegmentOk, Listed
<1>3. I \in SUBSET Nat
  BY <1>2
<1>4. I # {} /\ Min(I) \in I
  BY <1>1, <1>3, MinIs
<1> QED
  BY <1>1, <1>4

LEMMA PMallocIs ==
  ASSUME NEW sg, HeapOk(sg), NEW n \in Nat \ {0}, n + Hdr + Unit <= SegSize
  PROVE  Allocated(sg, n, PMalloc(sg, n))
<1> DEFINE able == {s \in DOMAIN sg : Room(sg[s], n) \/ Fit(sg[s], n) # 0}
           s == Min(able)
           a == PMalloc(sg, n)
<1>1. DOMAIN sg = 1..Len(sg) /\ Len(sg) \in Nat /\ sg = [x \in 1..Len(sg) |-> sg[x]]
  BY DEF HeapOk
<1>2. CASE able = {}
  <2>1. a = [segs |-> Append(sg, Carved(NewSegment, n)), at |-> <<Len(sg) + 1, Unit>>]
    BY <1>2 DEF PMalloc
  <2> DEFINE r == Append(sg, Carved(NewSegment, n))
             t == Len(sg) + 1
  <2>2. t \in 1..Len(sg) + 1 /\ ~ (t <= Len(sg))
    BY <1>1
  <2>3. /\ Len(r) = t /\ r = [x \in 1..Len(r) |-> r[x]] /\ r[t] = Carved(NewSegment, n)
        /\ \A x \in 1..Len(sg) : x # t => r[x] = sg[x]
    <3> DEFINE S == {sg[x] : x \in 1..Len(sg)} \cup {Carved(NewSegment, n)}
    <3>1. sg \in Seq(S) /\ Carved(NewSegment, n) \in S
      BY <1>1
    <3> HIDE DEF S
    <3>2. r \in Seq(S) /\ Len(r) = t
      BY <3>1
    <3>3. r[t] = Carved(NewSegment, n) /\ \A x \in 1..Len(sg) : r[x] = sg[x]
      BY <3>1
    <3> HIDE DEF r
    <3>4. r = [x \in 1..Len(r) |-> r[x]]
      BY <3>2
    <3> QED
      BY <3>2, <3>3, <3>4
  <2>4. SegmentOk(NewSegment) /\ NewSegment.end = Unit
    BY NewSegmentIs
  <2>5. Room(NewSegment, n)
    BY <2>4, SizesAssumption DEF Room, Hdr, Unit
  <2>6. a.segs = r /\ a.at = <<t, NewSegment.end>>
    BY <2>1, <2>4
  <2> HIDE DEF r, t, a
  <2>7. /\ t = Len(sg) + 1 => NewSegment = NewSegment
        /\ t <= Len(sg) => NewSegment = sg[t]
    BY <2>2
  <2>8. Allocated(sg, n, [segs |-> r, at |-> <<t, NewSegment.end>>])
    <3>1. SegmentGrown(sg, t, NewSegment, n, r)
      BY <2>2, <2>3, <2>4, <2>5, <2>7 DEF SegmentGrown, t
    <3> QED
      BY <3>1, SegmentGrows, Zenon
  <2> QED
    BY <2>6, <2>8 DEF Allocated, a
<1>3. ASSUME able # {}
      PROVE  s \in able /\ s \in 1..Len(sg) /\ s \in Nat /\ SegmentOk(sg[s])
  <2>1. able \in SUBSET Nat
    BY <1>1
  <2>2. s \in able
    <3> HIDE DEF able
    <3> QED
      BY <1>3, <2>1, MinIs
  <2> HIDE DEF s
  <2> QED
    BY <1>1, <2>2, HeapSegment
<1>4. CASE able # {} /\ Room(sg[s], n)
  <2> DEFINE r == [sg EXCEPT ![s] = Carved(sg[s], n)]
  <2>1. a = [segs |-> r, at |-> <<s, sg[s].end>>]
    BY <1>4 DEF PMalloc
  <2>2. s \in 1..Len(sg) + 1 /\ s <= Len(sg) /\ SegmentOk(sg[s]) /\ s # Len(sg) + 1
    BY <1>1, <1>3, <1>4
  <2>3. a.segs = r /\ a.at = <<s, sg[s].end>>
    BY <2>1
  <2> HIDE DEF a, s, able
  <2>4. /\ Len(r) = Len(sg) /\ r = [x \in 1..Len(r) |-> r[x]] /\ r[s] = Carved(sg[s], n)
        /\ \A x \in 1..Len(sg) : x # s => r[x] = sg[x]
    <3>1. r = [x \in 1..Len(sg) |-> IF x = s THEN Carved(sg[s], n) ELSE sg[x]]
      BY <1>1, <2>2
    <3> HIDE DEF r
    <3>2. r \in Seq({r[x] : x \in 1..Len(sg)})
      BY <1>1, <3>1
    <3>3. Len(r) = Len(sg)
      BY <1>1, <3>1, <3>2
    <3> QED
      BY <1>1, <2>2, <3>1, <3>3
  <2> HIDE DEF r
  <2>5. /\ s = Len(sg) + 1 => sg[s] = NewSegment
        /\ s <= Len(sg) => sg[s] = sg[s]
    BY <2>2
  <2>6. Allocated(sg, n, [segs |-> r, at |-> <<s, sg[s].end>>])
    <3>1. SegmentGrown(sg, s, sg[s], n, r)
      BY <1>4, <2>2, <2>4, <2>5 DEF SegmentGrown
    <3> QED
      BY <3>1, SegmentGrows, Zenon
  <2> QED
    BY <2>3, <2>6 DEF Allocated, a
<1>5. CASE able # {} /\ ~ Room(sg[s], n)
  <2> DEFINE g == sg[s]
             k == SlotOf(n)
             l == g.slots[k]
             i == Fit(g, n)
             off == l[i]
             p == <<s, off>>
             sl == [g.slots EXCEPT ![k] = RemoveAt(l, i)]
             r1 == SetSlots(sg, p, sl)
             r2 == SetUsize(r1, p, n)
  <2>1. a = [segs |-> [sg EXCEPT ![s] = Reused(g, n)], at |-> p]
    BY <1>5 DEF PMalloc
  <2>2. s \in 1..Len(sg) /\ s \in Nat /\ SegmentOk(g) /\ i # 0
    BY <1>3, <1>5
  <2> HIDE DEF s, able, a
  <2>3. a.segs = r2 /\ a.at = p
    <3>1. a.segs = [sg EXCEPT ![s] = Reused(g, n)] /\ a.at = p
      BY <2>1
    <3>2. [sg EXCEPT ![s] = Reused(g, n)] = r2
      <4>1. s \in DOMAIN sg
        BY <1>1, <2>2
      <4>2. Reused(g, n) = [g EXCEPT !.slots = sl, !.items[off].usize = n]
        BY DEF Reused
      <4>3. r1 = [sg EXCEPT ![s] = [g EXCEPT !.slots = sl]]
        BY DEF SetSlots
      <4> HIDE DEF sl
      <4>4. r1[s] = [g EXCEPT !.slots = sl]
        BY <1>1, <2>2, <4>3
      <4> HIDE DEF r1
      <4>5. r2 = [r1 EXCEPT ![s] = [r1[s] EXCEPT !.items[off].usize = n]]
        BY DEF SetUsize
      <4>6. r2 = [r1 EXCEPT ![s] = Reused(g, n)]
        BY <4>2, <4>4, <4>5
      <4> HIDE DEF r2, g
      <4> QED
        BY <1>1, <2>2, <4>3, <4>6
    <3> QED
      BY <3>1, <3>2
  <2>4. i \in 1..Len(l) /\ g.items[off].size >= n
    <3> HIDE DEF g
    <3> QED
      BY <2>2, FitIs
  <2>5. Listed(g.items, g.slots) /\ k \in Slots
    BY <2>2, SlotIs DEF SegmentOk
  <2>6. l \in Seq(Nat) /\ IsInjective(l) /\ off \in ToSet(l)
        /\ off \in DOMAIN g.items /\ SlotOf(g.items[off].size) = k
    <3>1. l \in Seq(Nat) /\ IsInjective(l)
          /\ \A x \in ToSet(l) : x \in DOMAIN g.items /\ SlotOf(g.items[x].size) = k
      BY <2>5 DEF Listed
    <3>2. off \in ToSet(l)
      BY <2>4, <3>1 DEF ToSet
    <3> QED
      BY <3>1, <3>2
  <2>7. /\ sl[k] \in Seq(Nat) /\ IsInjective(sl[k]) /\ ToSet(sl[k]) = ToSet(g.slots[k]) \ {off}
        /\ sl = [j \in Slots |-> sl[j]] /\ \A j \in Slots : j # k => sl[j] = g.slots[j]
    <3>1. sl[k] = RemoveAt(l, i) /\ sl = [j \in Slots |-> sl[j]]
          /\ \A j \in Slots : j # k => sl[j] = g.slots[j]
      BY <2>5 DEF Listed
    <3>2. RemoveAt(l, i) \in Seq(Nat) /\ IsInjective(RemoveAt(l, i))
          /\ ToSet(RemoveAt(l, i)) = ToSet(l) \ {l[i]}
      <4> HIDE DEF l, i
      <4> QED
        BY <2>4, <2>6, RemoveAtIs
    <3> QED
      BY <3>1, <3>2
  <2>8. Listed(g.items, sl) /\ FreedIn(sl) = FreedIn(g.slots) \ {off}
    <3> HIDE DEF sl, g, off, k
    <3> QED
      <4>1. Relisted(g.items, g.slots, off, k, sl)
        BY <2>5, <2>6, <2>7 DEF Relisted
      <4>2. Less(g.slots[k], sl[k], off)
        BY <2>7 DEF Less
      <4>3. Listed(g.items, sl) /\ LessFreed(g.slots, sl, off)
        BY <4>1, <4>2, RelistedIs, Zenon
      <4> QED
        BY <4>3 DEF LessFreed
  <2>9. p \in Headers(sg) /\ p[1] = s /\ p[2] = off
    <3>1. Tiled(g.end, g.items)
      BY <2>2 DEF SegmentOk
    <3>2. off \in Nat
      BY <2>6, <3>1, TiledIs
    <3> HIDE DEF off
    <3> QED
      BY <1>1, <2>2, <2>6, <3>2 DEF Headers, Places
  <2>10. p \notin Busy(sg)
    <3>1. off \in FreedIn(g.slots)
      BY <2>5, <2>6 DEF FreedIn
    <3> QED
      BY <2>9, <3>1, BusyIs
  <2> DEFINE b == Item(sg, p)
  <2>11. BlockOk(b) /\ b.size = g.items[off].size /\ b.size \in Nat \ {0}
    <3>1. BlockOk(b) /\ b.size \in Nat \ {0}
      BY <2>9, HeaderIs
    <3> QED
      BY <2>9, <3>1 DEF Item
  <2>12. r1 = Put(sg, p, b, sl)
    <3> HIDE DEF p, sl
    <3> QED
      BY <2>9, WritesArePuts
  <2>13. /\ HeapOk(r1) /\ Headers(r1) = Headers(sg) /\ Busy(r1) = Busy(sg) \cup {p}
         /\ Item(r1, p) = b /\ \A q \in Headers(sg) : q # p => Item(r1, q) = Item(sg, q)
    <3>1. Listed(sg[p[1]].items, sl) /\ FreedIn(sl) = FreedIn(sg[p[1]].slots) \ {p[2]}
      BY <2>8, <2>9
    <3> HIDE DEF p, sl, r1, b
    <3>2. b.size = Item(sg, p).size
      BY DEF b
    <3> QED
      BY <2>9, <2>11, <2>12, <3>1, <3>2, PutIs, PutBusy
  <2> DEFINE b1 == Block(b, n, b.cells)
  <2> HIDE DEF r1, b, p, sl
  <2>14. r2 = Put(r1, p, b1, r1[p[1]].slots)
    <3>1. \A x : SetUsize(r1, p, x)
                 = Put(r1, p, Block(Item(r1, p), x, Item(r1, p).cells), r1[p[1]].slots)
      BY <2>9, <2>13, WritesArePuts, Zenon
    <3> QED
      BY <2>13, <3>1
  <2>15. BlockOk(b1) /\ b1.size = b.size /\ b1.usize = n
    <3>1. BlockOk(b) /\ n \in Nat /\ n <= b.size
      BY <2>4, <2>11
    <3>2. /\ BlockOk(Block(b, n, b.cells)) /\ Block(b, n, b.cells).size = b.size
          /\ Block(b, n, b.cells).usize = n
      BY <3>1, ResizedIs
    <3> QED
      BY <3>2
  <2>16. Listed(r1[p[1]].items, r1[p[1]].slots)
    BY <2>9, <2>13, HeaderListed
  <2> HIDE DEF r2, b1
  <2>17. /\ HeapOk(r2) /\ Busy(r2) = Busy(r1) /\ Item(r2, p) = b1
         /\ \A q \in Headers(sg) : q # p => Item(r2, q) = Item(r1, q)
    BY <2>9, <2>13, <2>14, <2>15, <2>16, PutIs, PutBusy
  <2>18. SameBut(r2, sg, p)
    BY <2>13, <2>17, BusyHeader DEF SameBut
  <2> QED
    BY <2>3, <2>10, <2>13, <2>15, <2>17, <2>18 DEF Allocated, a
<1> QED
  BY <1>2, <1>4, <1>5

---------------------------------------------------------------------------
(* The graph of the engine, and the heap that shows it *)

LiveIn(g) == {o \in Objs : g[o] # None}

CellsOk(o, c) ==
  \E n \in Sizes \cup {RootN} :
    /\ c = [k \in 0..n - 1 |-> c[k]] /\ c[0] = o
    /\ \A k \in 1..n - 1 : c[k] \in {Null} \cup (Objs \X Nat)

Typed(g) ==
  /\ g = [o \in Objs |-> g[o]] /\ Root \in LiveIn(g)
  /\ \A o \in LiveIn(g) : CellsOk(o, g[o])

\* a pointer leads to a cell of an object other than the first
Leads(g, v) == v[1] \in LiveIn(g) \ {Root} /\ v[2] \in DOMAIN g[v[1]]
Led(g) == \A o \in LiveIn(g) : \A k \in DOMAIN g[o] : IsPtr(g[o][k]) => Leads(g, g[o][k])

\* every object but the first has a pointer to its beginning
Pointed(g) ==
  \A o \in LiveIn(g) \ {Root} : \E h \in LiveIn(g) : \E k \in DOMAIN g[h] : g[h][k] = <<o, 0>>

Plus(p, j) == <<p[1], p[2] + j>>

\* what a cell of the graph is in memory, the objects being at L: running, or saved
Seen(v, L, u) == IF IsPtr(v) THEN IF u = "open" THEN Plus(L[v[1]], v[2]) ELSE Stale ELSE v

\* a block shows the cells of an object
Shows(b, c, L, u) ==
  /\ DOMAIN c = 0..b.usize - 1 /\ b.cells = [k \in DOMAIN c |-> b.cells[k]]
  /\ \A k \in DOMAIN c : b.cells[k] = Seen(c[k], L, u)

Forgotten(b) == 0 \in DOMAIN b.cells /\ b.cells[0] = None

\* every object is in a block, and the other blocks are forgotten ones
Shown(sg, g, L, u) ==
  /\ \A o \in LiveIn(g) : L[o] \in Busy(sg) /\ Shows(Item(sg, L[o]), g[o], L, u)
  /\ \A p \in Busy(sg) : (\A o \in LiveIn(g) : L[o] # p) => Forgotten(Item(sg, p))

\* The marks, the objects and the pointers are told apart.
LEMMA ValueIs ==
  /\ ~ IsPtr(Null) /\ ~ IsPtr(None) /\ ~ IsPtr(Stale)
  /\ \A o \in Objs : ~ IsPtr(o) /\ o # None /\ o # Null
  /\ \A v \in (Objs \X Nat) \cup (Nat \X Nat) : IsPtr(v) /\ v # None /\ v # Null
BY NamesAssumption DEF IsPtr

LEMMA CellsAre ==
  ASSUME NEW o \in Objs, NEW c, CellsOk(o, c)
  PROVE  /\ c # None /\ 0 \in DOMAIN c /\ c[0] = o
         /\ DOMAIN c \subseteq Nat /\ c = [k \in DOMAIN c |-> c[k]]
         /\ \A k \in DOMAIN c : (k # 0 <=> k > 0) /\ (IsPtr(c[k]) <=> c[k] \in Objs \X Nat)
         /\ \A k \in DOMAIN c : k # 0 => c[k] \in {Null} \cup (Objs \X Nat)
<1>1. PICK n \in Sizes \cup {RootN} :
        /\ c = [k \in 0..n - 1 |-> c[k]] /\ c[0] = o
        /\ \A k \in 1..n - 1 : c[k] \in {Null} \cup (Objs \X Nat)
  BY DEF CellsOk
<1>2. n \in Nat \ {0}
  BY SizesAssumption
<1>3. DOMAIN c = 0..n - 1
  BY <1>1
<1>4. c \in [0..n - 1 -> Objs \cup {Null} \cup (Objs \X Nat)]
  <2>1. \A k \in 0..n - 1 : c[k] \in Objs \cup {Null} \cup (Objs \X Nat)
    <3> SUFFICES ASSUME NEW k \in 0..n - 1
                 PROVE  c[k] \in Objs \cup {Null} \cup (Objs \X Nat)
      OBVIOUS
    <3>1. CASE k = 0
      BY <1>1, <3>1
    <3>2. CASE k # 0
      <4>1. k \in 1..n - 1
        BY <1>2, <3>2
      <4> QED
        BY <1>1, <4>1
    <3> QED
      BY <3>1, <3>2
  <2> QED
    BY <1>1, <2>1
<1>5. c # None
  BY <1>4, NamesAssumption
<1>6. \A k \in DOMAIN c : k # 0 => k \in 1..n - 1
  BY <1>2, <1>3
<1>7. \A k \in DOMAIN c : k # 0 => c[k] \in {Null} \cup (Objs \X Nat)
  BY <1>1, <1>6
<1>8. ASSUME NEW k \in DOMAIN c PROVE IsPtr(c[k]) <=> c[k] \in Objs \X Nat
  <2>1. CASE k = 0
    <3>1. o \notin Objs \X Nat
      BY NamesAssumption
    <3> QED
      BY <1>1, <2>1, <3>1, ValueIs
  <2>2. CASE k # 0
    <3>1. Null \notin Objs \X Nat
      BY NamesAssumption
    <3> QED
      BY <1>7, <2>2, <3>1, ValueIs
  <2> QED
    BY <2>1, <2>2
<1> QED
  BY <1>1, <1>2, <1>3, <1>5, <1>7, <1>8

LEMMA TypedIs ==
  ASSUME NEW g, Typed(g), NEW o \in LiveIn(g)
  PROVE  o \in Objs /\ CellsOk(o, g[o])
BY DEF Typed, LiveIn

LEMMA LiveKept ==
  ASSUME NEW g, NEW h, \A o \in Objs : (g[o] # None) <=> (h[o] # None)
  PROVE  LiveIn(h) = LiveIn(g)
BY DEF LiveIn

\* The block of an object is the one that says so.
LEMMA PlaceOf ==
  ASSUME NEW sg, NEW g, NEW L, NEW u, Typed(g), Shown(sg, g, L, u), NEW o \in LiveIn(g)
  PROVE  /\ L[o] \in Busy(sg) /\ Item(sg, L[o]).cells[0] = o
         /\ \A p \in Busy(sg) : Item(sg, p).cells[0] = o => p = L[o]
         /\ \A q \in LiveIn(g) : L[q] = L[o] => q = o
<1>1. ASSUME NEW q \in LiveIn(g)
      PROVE  q \in Objs /\ q # None /\ L[q] \in Busy(sg) /\ Item(sg, L[q]).cells[0] = q
  <2>1. q \in Objs /\ CellsOk(q, g[q])
    BY TypedIs
  <2>2. 0 \in DOMAIN g[q] /\ g[q][0] = q
    BY <2>1, CellsAre
  <2>3. Seen(q, L, u) = q /\ q # None
    BY <2>1, ValueIs DEF Seen
  <2>4. L[q] \in Busy(sg) /\ Item(sg, L[q]).cells[0] = Seen(g[q][0], L, u)
    BY <2>2 DEF Shown, Shows
  <2> QED
    BY <2>1, <2>2, <2>3, <2>4
<1>2. ASSUME NEW p \in Busy(sg), Item(sg, p).cells[0] = o PROVE p = L[o]
  <2>1. \E q \in LiveIn(g) : L[q] = p
    BY <1>1, <1>2 DEF Shown, Forgotten
  <2> QED
    BY <1>1, <1>2, <2>1
<1> QED
  BY <1>1, <1>2

LEMMA AtIs ==
  ASSUME NEW L, NEW u, Typed(graph), Shown(segs, graph, L, u), NEW o \in LiveIn(graph)
  PROVE  At(o) = L[o]
<1>1. /\ L[o] \in Busy(segs) /\ Item(segs, L[o]).cells[0] = o
      /\ \A p \in Busy(segs) : Item(segs, p).cells[0] = o => p = L[o]
  BY PlaceOf
<1> QED
  BY <1>1 DEF At

---------------------------------------------------------------------------
(* The steps an action is made of *)

\* the engine's graph, and a heap that shows it
State(sg, g, L) == HeapOk(sg) /\ Typed(g) /\ Led(g) /\ Shown(sg, g, L, "open")

Pointer(g, v) == v \in Objs \X Nat /\ Leads(g, v)

\* The graph h is g with v in one cell.
Written(g, p, k, v, h) ==
  /\ Typed(h) /\ Led(h) /\ LiveIn(h) = LiveIn(g)
  /\ h[p] = [g[p] EXCEPT ![k] = v] /\ \A q \in LiveIn(g) : q # p => h[q] = g[q]

LEMMA WrittenIs ==
  ASSUME NEW g, Typed(g), Led(g),
         NEW p \in LiveIn(g), NEW k \in DOMAIN g[p], k # 0, NEW v, v = Null \/ Pointer(g, v)
  PROVE  Written(g, p, k, v, [g EXCEPT ![p][k] = v])
<1> DEFINE h == [g EXCEPT ![p][k] = v]
           c == [g[p] EXCEPT ![k] = v]
<1>2. p \in Objs /\ CellsOk(p, g[p])
  BY TypedIs
<1>3. g = [o \in Objs |-> g[o]] /\ h = [o \in Objs |-> IF o = p THEN c ELSE g[o]]
  BY <1>2 DEF Typed
<1>4. /\ g[p] = [j \in DOMAIN g[p] |-> g[p][j]] /\ 0 \in DOMAIN g[p] /\ g[p][0] = p
  BY <1>2, CellsAre
<1>5. /\ DOMAIN c = DOMAIN g[p] /\ c = [j \in DOMAIN c |-> c[j]]
      /\ \A j \in DOMAIN c : c[j] = IF j = k THEN v ELSE g[p][j]
  BY <1>4
<1>6. CellsOk(p, c)
  <2>1. PICK n \in Sizes \cup {RootN} :
          /\ g[p] = [j \in 0..n - 1 |-> g[p][j]] /\ g[p][0] = p
          /\ \A j \in 1..n - 1 : g[p][j] \in {Null} \cup (Objs \X Nat)
    BY <1>2 DEF CellsOk
  <2>2. DOMAIN g[p] = 0..n - 1 /\ n \in Nat \ {0}
    BY <2>1, SizesAssumption
  <2>3. v \in {Null} \cup (Objs \X Nat)
    BY DEF Pointer
  <2> HIDE DEF c
  <2>4. c = [j \in 0..n - 1 |-> c[j]] /\ c[0] = p
    BY <1>4, <1>5, <2>2
  <2>5. \A j \in 1..n - 1 : c[j] \in {Null} \cup (Objs \X Nat)
    <3> SUFFICES ASSUME NEW j \in 1..n - 1 PROVE c[j] \in {Null} \cup (Objs \X Nat)
      OBVIOUS
    <3>1. j \in DOMAIN c
      BY <1>5, <2>2
    <3> QED
      BY <1>5, <2>1, <2>3, <3>1
  <2> QED
    BY <2>4, <2>5 DEF CellsOk
<1> HIDE DEF c, h
<1>7. c # None /\ g[p] # None
  BY <1>2, <1>6, CellsAre
<1>8. LiveIn(h) = LiveIn(g)
  BY <1>3, <1>7, LiveKept
<1>9. h[p] = c /\ \A o \in LiveIn(g) : o # p => h[o] = g[o]
  BY <1>2, <1>3 DEF LiveIn
<1>10. Typed(h)
  BY <1>3, <1>6, <1>8, <1>9 DEF Typed
<1>11. \A o \in LiveIn(g) : DOMAIN h[o] = DOMAIN g[o]
  BY <1>5, <1>9
<1>12. \A w : Leads(h, w) <=> Leads(g, w)
  BY <1>8, <1>11 DEF Leads
<1>13. Led(h)
  <2> SUFFICES ASSUME NEW o \in LiveIn(g), NEW j \in DOMAIN h[o], IsPtr(h[o][j])
               PROVE  Leads(h, h[o][j])
    BY <1>8 DEF Led
  <2>1. CASE o = p /\ j = k
    BY <1>5, <1>9, <1>12, <2>1, ValueIs DEF Pointer
  <2>2. CASE ~ (o = p /\ j = k)
    <3>1. h[o][j] = g[o][j] /\ j \in DOMAIN g[o]
      BY <1>5, <1>9, <2>2
    <3> QED
      BY <1>12, <3>1 DEF Led
  <2> QED
    BY <2>1, <2>2
<1> QED
  BY <1>8, <1>9, <1>10, <1>13 DEF Written, c, h

\* A cell is written.
LEMMA WriteIs ==
  ASSUME NEW sg, NEW g, NEW L, State(sg, g, L),
         NEW p \in LiveIn(g), NEW k \in DOMAIN g[p], k # 0, NEW v, v = Null \/ Pointer(g, v)
  PROVE  State(SetCell(sg, L[p], k, Seen(v, L, "open")), [g EXCEPT ![p][k] = v], L)
<1> DEFINE h == [g EXCEPT ![p][k] = v]
           c == [g[p] EXCEPT ![k] = v]
           b == Item(sg, L[p])
           x == [b.cells EXCEPT ![k] = Seen(v, L, "open")]
           r == SetCell(sg, L[p], k, Seen(v, L, "open"))
<1>1. HeapOk(sg) /\ Typed(g) /\ Led(g) /\ Shown(sg, g, L, "open")
  BY DEF State
<1>2. p \in Objs /\ CellsOk(p, g[p])
  BY <1>1, TypedIs
<1>4. /\ g[p] = [j \in DOMAIN g[p] |-> g[p][j]] /\ 0 \in DOMAIN g[p] /\ g[p][0] = p
  BY <1>2, CellsAre
<1>5. /\ DOMAIN c = DOMAIN g[p] /\ c = [j \in DOMAIN c |-> c[j]]
      /\ \A j \in DOMAIN c : c[j] = IF j = k THEN v ELSE g[p][j]
  BY <1>4
<1>6. Written(g, p, k, v, h)
  BY <1>1, WrittenIs
<1> HIDE DEF h
<1>7. /\ Typed(h) /\ Led(h) /\ LiveIn(h) = LiveIn(g)
      /\ h[p] = c /\ \A o \in LiveIn(g) : o # p => h[o] = g[o]
  BY <1>6 DEF Written
<1> HIDE DEF c
<1>14. ASSUME NEW o \in LiveIn(g)
       PROVE  /\ L[o] \in Busy(sg) /\ Shows(Item(sg, L[o]), g[o], L, "open")
              /\ L[o] = L[p] => o = p
  <2>1. L[o] = L[p] => o = p
    <3>1. Item(sg, L[o]).cells[0] = o /\ Item(sg, L[p]).cells[0] = p
      BY <1>1, PlaceOf
    <3> QED
      BY <3>1
  <2> QED
    BY <1>1, <2>1 DEF Shown
<1>15. r = SetCells(sg, L[p], x)
  BY SetCellIs
<1>16. L[p] \in Busy(sg)
  BY <1>14
<1>17. /\ HeapOk(r) /\ Busy(r) = Busy(sg) /\ SameBut(r, sg, L[p])
       /\ Item(r, L[p]) = Block(b, b.usize, x)
  BY <1>1, <1>15, <1>16, SetCellsIs
<1>18. b.cells = [j \in DOMAIN g[p] |-> b.cells[j]] /\ DOMAIN g[p] = 0..b.usize - 1
       /\ \A j \in DOMAIN g[p] : b.cells[j] = Seen(g[p][j], L, "open")
  BY <1>14 DEF Shows
<1>19. /\ x = [j \in DOMAIN g[p] |-> x[j]]
       /\ \A j \in DOMAIN g[p] : x[j] = IF j = k THEN Seen(v, L, "open") ELSE b.cells[j]
  <2> HIDE DEF b
  <2> QED
    BY <1>18
<1>20. Block(b, b.usize, x).usize = b.usize /\ Block(b, b.usize, x).cells = x
  BY DEF Block
<1> HIDE DEF b, x, r
<1>21. ASSUME NEW o \in LiveIn(g)
       PROVE  L[o] \in Busy(r) /\ Shows(Item(r, L[o]), h[o], L, "open")
  <2>1. CASE o = p
    <3>1. Item(r, L[o]).usize = b.usize /\ Item(r, L[o]).cells = x /\ h[o] = c
      BY <1>7, <1>17, <1>20, <2>1
    <3>2. \A j \in DOMAIN c : x[j] = Seen(c[j], L, "open")
      BY <1>5, <1>18, <1>19
    <3> QED
      BY <1>5, <1>16, <1>17, <1>18, <1>19, <2>1, <3>1, <3>2 DEF Shows
  <2>2. CASE o # p
    <3>1. Item(r, L[o]) = Item(sg, L[o]) /\ L[o] \in Busy(r)
      BY <1>14, <1>17, <2>2 DEF SameBut
    <3> QED
      BY <1>7, <1>14, <2>2, <3>1
  <2> QED
    BY <2>1, <2>2
<1>22. ASSUME NEW q \in Busy(r), \A o \in LiveIn(h) : L[o] # q
       PROVE  Forgotten(Item(r, q))
  <2>1. q \in Busy(sg) /\ q # L[p] /\ \A o \in LiveIn(g) : L[o] # q
    BY <1>7, <1>17, <1>22
  <2>2. Forgotten(Item(sg, q))
    BY <1>1, <2>1 DEF Shown
  <2> QED
    BY <1>17, <2>1, <2>2 DEF SameBut
<1>23. Shown(r, h, L, "open")
  BY <1>7, <1>21, <1>22 DEF Shown
<1> QED
  BY <1>7, <1>17, <1>23 DEF State, r, h

\* the objects at L, and o at p
With(L, g, o, p) == [q \in LiveIn(g) \cup {o} |-> IF q = o THEN p ELSE L[q]]
NewCells(o, n) == [i \in 0..n - 1 |-> IF i = 0 THEN o ELSE Null]

LEMMA SeenSame ==
  ASSUME NEW v, NEW L, NEW M, NEW u, IsPtr(v) => M[v[1]] = L[v[1]]
  PROVE  Seen(v, M, u) = Seen(v, L, u)
BY DEF Seen

LEMMA ShowsSame ==
  ASSUME NEW b, NEW c, NEW L, NEW M, NEW u, Shows(b, c, L, u),
         \A k \in DOMAIN c : IsPtr(c[k]) => M[c[k][1]] = L[c[k][1]]
  PROVE  Shows(b, c, M, u)
<1>1. \A k \in DOMAIN c : Seen(c[k], M, u) = Seen(c[k], L, u)
  BY SeenSame
<1> QED
  BY <1>1 DEF Shows

\* The graph h is g with a new object of n cells.
Added(g, o, n, h) ==
  /\ Typed(h) /\ Led(h) /\ LiveIn(h) = LiveIn(g) \cup {o} /\ h[o] = NewCells(o, n)
  /\ \A q \in LiveIn(g) : q # o /\ q \in Objs /\ h[q] = g[q]

LEMMA AddedIs ==
  ASSUME NEW g, Typed(g), Led(g), NEW o \in Objs, o \notin LiveIn(g), NEW n \in Sizes
  PROVE  Added(g, o, n, [g EXCEPT ![o] = NewCells(o, n)])
<1> DEFINE c == NewCells(o, n)
           h == [g EXCEPT ![o] = c]
<1>2. n \in Nat \ {0}
  BY SizesAssumption
<1>4. /\ c = [i \in 0..n - 1 |-> c[i]] /\ DOMAIN c = 0..n - 1 /\ c[0] = o
      /\ \A i \in 0..n - 1 : i # 0 => c[i] = Null
  BY <1>2 DEF NewCells
<1>5. CellsOk(o, c)
  <2>1. \A i \in 1..n - 1 : c[i] = Null
    BY <1>2, <1>4
  <2> HIDE DEF c
  <2> QED
    BY <1>4, <2>1 DEF CellsOk
<1> HIDE DEF c
<1>6. c # None
  BY <1>5, CellsAre
<1>7. h = [q \in Objs |-> h[q]] /\ h[o] = c /\ \A q \in Objs : q # o => h[q] = g[q]
  BY DEF Typed
<1> HIDE DEF h
<1>8. LiveIn(h) = LiveIn(g) \cup {o}
  BY <1>6, <1>7 DEF LiveIn
<1>9. \A q \in LiveIn(g) : q # o /\ q \in Objs /\ h[q] = g[q]
  BY <1>7 DEF LiveIn
<1>10. Typed(h)
  BY <1>5, <1>7, <1>8, <1>9 DEF Typed
<1>11. \A i \in DOMAIN c : ~ IsPtr(c[i])
  BY <1>4, ValueIs
<1>12. \A w : Leads(g, w) => Leads(h, w)
  BY <1>8, <1>9 DEF Leads
<1>13. Led(h)
  <2> SUFFICES ASSUME NEW q \in LiveIn(h), NEW j \in DOMAIN h[q], IsPtr(h[q][j])
               PROVE  Leads(h, h[q][j])
    BY DEF Led
  <2>1. q # o
    BY <1>7, <1>11
  <2>2. q \in LiveIn(g) /\ h[q] = g[q]
    BY <1>8, <1>9, <2>1
  <2> QED
    BY <1>12, <2>2 DEF Led
<1> QED
  BY <1>7, <1>8, <1>9, <1>10, <1>13 DEF Added, c, h

\* A new object is put in a new block.
LEMMA AddIs ==
  ASSUME NEW sg, NEW g, NEW L, State(sg, g, L), NEW o \in Objs, o \notin LiveIn(g),
         NEW n \in Sizes
  PROVE  LET a == PMalloc(sg, n) IN
         State(SetCells(a.segs, a.at, NewCells(o, n)), [g EXCEPT ![o] = NewCells(o, n)],
               With(L, g, o, a.at))
<1> DEFINE a == PMalloc(sg, n)
           c == NewCells(o, n)
           h == [g EXCEPT ![o] = c]
           M == With(L, g, o, a.at)
           r == SetCells(a.segs, a.at, c)
<1>1. HeapOk(sg) /\ Typed(g) /\ Led(g) /\ Shown(sg, g, L, "open")
  BY DEF State
<1>2. n \in Nat \ {0} /\ n + Hdr + Unit <= SegSize
  BY SizesAssumption
<1>3. /\ HeapOk(a.segs) /\ a.at \notin Busy(sg) /\ Busy(a.segs) = Busy(sg) \cup {a.at}
      /\ SameBut(a.segs, sg, a.at) /\ Item(a.segs, a.at).usize = n
  BY <1>1, <1>2, PMallocIs DEF Allocated
<1> HIDE DEF a
<1>4. /\ c = [i \in 0..n - 1 |-> c[i]] /\ DOMAIN c = 0..n - 1 /\ c[0] = o
      /\ \A i \in 0..n - 1 : i # 0 => c[i] = Null
  BY <1>2 DEF NewCells
<1>5. Added(g, o, n, h)
  BY <1>1, AddedIs
<1> HIDE DEF h
<1>6. /\ Typed(h) /\ Led(h) /\ LiveIn(h) = LiveIn(g) \cup {o} /\ h[o] = c
      /\ \A q \in LiveIn(g) : q # o /\ q \in Objs /\ h[q] = g[q]
  BY <1>5 DEF Added
<1> HIDE DEF c
<1>11. \A i \in DOMAIN c : ~ IsPtr(c[i])
  BY <1>4, ValueIs
<1>14. M[o] = a.at /\ \A q \in LiveIn(g) : M[q] = L[q]
  BY <1>6 DEF With
<1> HIDE DEF M
<1>15. /\ HeapOk(r) /\ Busy(r) = Busy(a.segs) /\ SameBut(r, a.segs, a.at)
       /\ Item(r, a.at) = Block(Item(a.segs, a.at), Item(a.segs, a.at).usize, c)
  BY <1>3, SetCellsIs
<1> HIDE DEF r
<1>16. \A q \in Busy(sg) : q # a.at /\ Item(r, q) = Item(sg, q) /\ q \in Busy(r)
  BY <1>3, <1>15 DEF SameBut
<1>17. ASSUME NEW q \in LiveIn(h)
       PROVE  M[q] \in Busy(r) /\ Shows(Item(r, M[q]), h[q], M, "open")
  <2>1. CASE q = o
    <3>1. Item(r, a.at).usize = n /\ Item(r, a.at).cells = c
      BY <1>3, <1>15 DEF Block
    <3>2. \A k \in DOMAIN c : c[k] = Seen(c[k], M, "open")
      BY <1>11 DEF Seen
    <3>3. Shows(Item(r, a.at), c, M, "open")
      BY <1>4, <3>1, <3>2 DEF Shows
    <3> QED
      BY <1>3, <1>6, <1>14, <1>15, <2>1, <3>3
  <2>2. CASE q # o
    <3>1. q \in LiveIn(g) /\ h[q] = g[q] /\ M[q] = L[q]
      BY <1>6, <1>14, <2>2
    <3>2. L[q] \in Busy(sg) /\ Shows(Item(sg, L[q]), g[q], L, "open")
      BY <1>1, <3>1 DEF Shown
    <3>3. \A k \in DOMAIN g[q] : IsPtr(g[q][k]) => M[g[q][k][1]] = L[g[q][k][1]]
      BY <1>1, <1>14, <3>1 DEF Led, Leads
    <3>4. Shows(Item(sg, L[q]), g[q], M, "open")
      BY <3>2, <3>3, ShowsSame
    <3> QED
      BY <1>16, <3>1, <3>2, <3>4
  <2> QED
    BY <2>1, <2>2
<1>18. ASSUME NEW p \in Busy(r), \A q \in LiveIn(h) : M[q] # p
       PROVE  Forgotten(Item(r, p))
  <2>1. p # a.at /\ \A q \in LiveIn(g) : L[q] # p
    BY <1>6, <1>14, <1>18
  <2>2. p \in Busy(sg)
    BY <1>3, <1>15, <2>1
  <2> QED
    BY <1>1, <1>16, <2>1, <2>2 DEF Shown
<1>19. Shown(r, h, M, "open")
  BY <1>17, <1>18 DEF Shown
<1>20. State(r, h, M)
  BY <1>6, <1>15, <1>19 DEF State
<1> QED
  BY <1>20 DEF r, h, M, a, c

\* no other object points to o
Unheld(g, o) ==
  \A q \in LiveIn(g) : q # o => \A k \in DOMAIN g[q] : IsPtr(g[q][k]) => g[q][k][1] # o

\* a graph without o
Without(g, o, h) ==
  Typed(h) /\ Led(h) /\ LiveIn(h) = LiveIn(g) \ {o} /\ \A q \in LiveIn(h) : h[q] = g[q]

LEMMA GraphLess ==
  ASSUME NEW g, Typed(g), Led(g), NEW o \in LiveIn(g), o # Root, Unheld(g, o)
  PROVE  Without(g, o, [g EXCEPT ![o] = None])
<1> DEFINE h == [g EXCEPT ![o] = None]
<1>1. /\ h = [q \in Objs |-> h[q]] /\ o \in Objs /\ h[o] = None
      /\ \A q \in Objs : q # o => h[q] = g[q]
  BY DEF Typed, LiveIn
<1>2. LiveIn(h) = LiveIn(g) \ {o}
  BY <1>1 DEF LiveIn
<1>3. \A q \in LiveIn(h) : h[q] = g[q] /\ q \in LiveIn(g) /\ q # o
  BY <1>1, <1>2 DEF LiveIn
<1>4. Typed(h)
  <2>1. Root \in LiveIn(h)
    BY <1>2 DEF Typed
  <2>2. \A q \in LiveIn(h) : CellsOk(q, h[q])
    BY <1>3 DEF Typed
  <2> QED
    BY <1>1, <2>1, <2>2 DEF Typed
<1>5. Led(h)
  <2> SUFFICES ASSUME NEW q \in LiveIn(h), NEW j \in DOMAIN h[q], IsPtr(h[q][j])
               PROVE  Leads(h, h[q][j])
    BY DEF Led
  <2>1. q \in LiveIn(g) /\ h[q] = g[q] /\ q # o
    BY <1>3
  <2>2. Leads(g, g[q][j]) /\ g[q][j][1] # o
    BY <2>1 DEF Led, Unheld
  <2> QED
    BY <1>2, <1>3, <2>1, <2>2 DEF Leads
<1> QED
  BY <1>2, <1>3, <1>4, <1>5 DEF Without

\* An object is gone when its block is free, or says so.
LEMMA LessIs ==
  ASSUME NEW sg, NEW g, NEW L, State(sg, g, L), NEW o \in LiveIn(g), o # Root, Unheld(g, o),
         NEW r, HeapOk(r), SameBut(r, sg, L[o]),
         \/ Busy(r) = Busy(sg) \ {L[o]}
         \/ Busy(r) = Busy(sg) /\ Forgotten(Item(r, L[o]))
  PROVE  State(r, [g EXCEPT ![o] = None], L)
<1> DEFINE h == [g EXCEPT ![o] = None]
<1>1. HeapOk(sg) /\ Typed(g) /\ Led(g) /\ Shown(sg, g, L, "open")
  BY DEF State
<1>2. /\ Typed(h) /\ Led(h) /\ LiveIn(h) = LiveIn(g) \ {o}
      /\ \A q \in LiveIn(h) : h[q] = g[q]
  BY <1>1, GraphLess DEF Without
<1> HIDE DEF h
<1>3. \A q \in LiveIn(g) : Item(sg, L[q]).cells[0] = q
  BY <1>1, PlaceOf
<1>4. ASSUME NEW q \in LiveIn(h)
      PROVE  L[q] \in Busy(r) /\ Shows(Item(r, L[q]), h[q], L, "open")
  <2>1. q \in LiveIn(g) /\ q # o /\ h[q] = g[q]
    BY <1>2
  <2>2. L[q] \in Busy(sg) /\ Shows(Item(sg, L[q]), g[q], L, "open") /\ L[q] # L[o]
    BY <1>1, <1>3, <2>1 DEF Shown
  <2> QED
    BY <2>1, <2>2 DEF SameBut
<1>5. ASSUME NEW p \in Busy(r), \A q \in LiveIn(h) : L[q] # p
      PROVE  Forgotten(Item(r, p))
  <2>1. p \in Busy(sg)
    OBVIOUS
  <2>2. CASE p = L[o]
    BY <2>2
  <2>3. CASE p # L[o]
    BY <1>1, <1>2, <1>5, <2>1, <2>3 DEF Shown, SameBut
  <2> QED
    BY <2>2, <2>3
<1>6. Shown(r, h, L, "open")
  BY <1>4, <1>5 DEF Shown
<1> QED
  BY <1>2, <1>6 DEF State, h

LEMMA RemoveIs ==
  ASSUME NEW sg, NEW g, NEW L, State(sg, g, L), NEW o \in LiveIn(g), o # Root, Unheld(g, o)
  PROVE  /\ State(PMfree(sg, L[o]), [g EXCEPT ![o] = None], L)
         /\ State(SetCell(sg, L[o], 0, None), [g EXCEPT ![o] = None], L)
<1>1. HeapOk(sg) /\ Typed(g) /\ Led(g) /\ Shown(sg, g, L, "open")
  BY DEF State
<1>2. L[o] \in Busy(sg) /\ Shows(Item(sg, L[o]), g[o], L, "open")
  BY <1>1 DEF Shown
<1> DEFINE h == [g EXCEPT ![o] = None]
           r == PMfree(sg, L[o])
           c == [Item(sg, L[o]).cells EXCEPT ![0] = None]
           s == SetCells(sg, L[o], c)
<1>3. HeapOk(r) /\ Busy(r) = Busy(sg) \ {L[o]} /\ SameBut(r, sg, L[o])
  BY <1>1, <1>2, FreeIs
<1>4. 0 \in DOMAIN c /\ c[0] = None
  <2>1. o \in Objs /\ CellsOk(o, g[o])
    BY <1>1, TypedIs
  <2>2. 0 \in DOMAIN g[o]
    BY <2>1, CellsAre
  <2> QED
    BY <1>2, <2>2 DEF Shows
<1>5. SetCell(sg, L[o], 0, None) = s
  BY SetCellIs
<1> HIDE DEF c, r, h
<1>6. /\ HeapOk(s) /\ Busy(s) = Busy(sg) /\ SameBut(s, sg, L[o])
      /\ Item(s, L[o]) = Block(Item(sg, L[o]), Item(sg, L[o]).usize, c)
  BY <1>1, <1>2, SetCellsIs
<1>7. Forgotten(Item(s, L[o]))
  BY <1>4, <1>6 DEF Block, Forgotten
<1> HIDE DEF s
<1>8. State(r, h, L)
  BY <1>3, LessIs DEF h
<1>9. State(s, h, L)
  BY <1>6, <1>7, LessIs DEF h
<1> QED
  BY <1>5, <1>8, <1>9 DEF h, r

Longer(c, n) == [k \in 0..n - 1 |-> IF k \in DOMAIN c THEN c[k] ELSE Null]

\* a graph where o has n cells
WithLonger(g, o, n, h) ==
  /\ Typed(h) /\ Led(h) /\ LiveIn(h) = LiveIn(g)
  /\ h[o] = Longer(g[o], n) /\ \A q \in LiveIn(h) : q # o => h[q] = g[q]

LEMMA GraphLonger ==
  ASSUME NEW g, Typed(g), Led(g), NEW o \in LiveIn(g), NEW n \in Sizes,
         NEW m \in Nat, m < n, DOMAIN g[o] = 0..m - 1
  PROVE  WithLonger(g, o, n, [g EXCEPT ![o] = Longer(g[o], n)])
<1> DEFINE c == Longer(g[o], n)
           h == [g EXCEPT ![o] = c]
<1>1. /\ h = [q \in Objs |-> h[q]] /\ o \in Objs /\ h[o] = c
      /\ \A q \in Objs : q # o => h[q] = g[q]
  BY DEF Typed, LiveIn
<1>2. CellsOk(o, g[o]) /\ o \in Objs
  BY TypedIs
<1>3. /\ 0 \in DOMAIN g[o] /\ g[o][0] = o /\ g[o] # None
      /\ \A k \in DOMAIN g[o] : k # 0 => g[o][k] \in {Null} \cup (Objs \X Nat)
  BY <1>2, CellsAre
<1>4. n \in Nat \ {0} /\ n \in Sizes \cup {RootN}
  BY SizesAssumption
<1>5. /\ c = [k \in 0..n - 1 |-> c[k]] /\ DOMAIN c = 0..n - 1
      /\ \A k \in 0..n - 1 : c[k] = IF k \in DOMAIN g[o] THEN g[o][k] ELSE Null
  BY DEF Longer
<1>6. DOMAIN g[o] \subseteq 0..n - 1
  BY <1>4
<1> HIDE DEF c
<1>7. CellsOk(o, c)
  <2>1. c[0] = o
    BY <1>3, <1>5, <1>6
  <2>2. \A k \in 1..n - 1 : c[k] \in {Null} \cup (Objs \X Nat)
    <3> SUFFICES ASSUME NEW k \in 1..n - 1 PROVE c[k] \in {Null} \cup (Objs \X Nat)
      OBVIOUS
    <3>1. k \in 0..n - 1 /\ k # 0
      BY <1>4
    <3> QED
      BY <1>3, <1>5, <3>1
  <2> QED
    BY <1>4, <1>5, <2>1, <2>2 DEF CellsOk
<1>8. c # None
  BY <1>2, <1>7, CellsAre
<1>9. LiveIn(h) = LiveIn(g)
  BY <1>1, <1>3, <1>8 DEF LiveIn
<1>10. \A q \in LiveIn(h) : q # o => h[q] = g[q]
  BY <1>1 DEF LiveIn
<1>11. Typed(h)
  <2>1. \A q \in LiveIn(h) : CellsOk(q, h[q])
    BY <1>1, <1>7, <1>9, <1>10 DEF Typed
  <2> QED
    BY <1>1, <1>9, <2>1 DEF Typed
<1>12. \A q \in LiveIn(g) : DOMAIN g[q] \subseteq DOMAIN h[q]
  BY <1>1, <1>5, <1>6, <1>9, <1>10
<1>13. \A w : Leads(g, w) => Leads(h, w)
  BY <1>9, <1>12 DEF Leads
<1>14. Led(h)
  <2> SUFFICES ASSUME NEW q \in LiveIn(h), NEW j \in DOMAIN h[q], IsPtr(h[q][j])
               PROVE  Leads(h, h[q][j])
    BY DEF Led
  <2>1. j \in DOMAIN g[q] /\ h[q][j] = g[q][j]
    <3>1. CASE q = o
      BY <1>1, <1>5, <3>1, ValueIs
    <3>2. CASE q # o
      BY <1>10, <3>2
    <3> QED
      BY <3>1, <3>2
  <2> QED
    BY <1>9, <1>13, <2>1 DEF Led
<1> QED
  BY <1>1, <1>9, <1>10, <1>11, <1>14 DEF c, WithLonger

\* An object gets more cells where it is.
LEMMA GrowIs ==
  ASSUME NEW sg, NEW g, NEW L, State(sg, g, L), NEW o \in LiveIn(g), NEW n \in Sizes,
         n > Item(sg, L[o]).usize, n <= Item(sg, L[o]).size
  PROVE  State(Grown(sg, L[o], n), [g EXCEPT ![o] = Longer(g[o], n)], L)
<1> DEFINE h == [g EXCEPT ![o] = Longer(g[o], n)]
           b == Item(sg, L[o])
           r == Grown(sg, L[o], n)
           x == [k \in 0..n - 1 |-> IF k < b.usize THEN b.cells[k] ELSE Null]
<1>1. HeapOk(sg) /\ Typed(g) /\ Led(g) /\ Shown(sg, g, L, "open")
  BY DEF State
<1>2. L[o] \in Busy(sg) /\ Shows(b, g[o], L, "open")
  BY <1>1 DEF Shown
<1>3. b.usize \in Nat /\ n \in Nat
  <2>1. L[o] \in Headers(sg)
    BY <1>1, <1>2, BusyHeader
  <2> QED
    BY <1>1, <2>1, HeaderIs, SizesAssumption
<1>4. HeapOk(r) /\ Busy(r) = Busy(sg) /\ SameBut(r, sg, L[o]) /\ Item(r, L[o]) = Block(b, n, x)
  BY <1>1, <1>2, <1>3, GrownIs
<1> HIDE DEF r
<1>5. /\ DOMAIN g[o] = 0..b.usize - 1
      /\ \A k \in DOMAIN g[o] : b.cells[k] = Seen(g[o][k], L, "open")
  BY <1>2 DEF Shows
<1>6. WithLonger(g, o, n, h)
  BY <1>1, <1>3, <1>5, GraphLonger
<1> HIDE DEF h, b
<1>7. /\ Typed(h) /\ Led(h) /\ LiveIn(h) = LiveIn(g)
      /\ h[o] = Longer(g[o], n) /\ \A q \in LiveIn(h) : q # o => h[q] = g[q]
  BY <1>6 DEF WithLonger
<1>8. Item(r, L[o]).usize = n /\ Item(r, L[o]).cells = x
  BY <1>4 DEF Block
<1>9. /\ x = [k \in 0..n - 1 |-> x[k]] /\ DOMAIN h[o] = 0..n - 1
      /\ \A k \in 0..n - 1 : x[k] = Seen(h[o][k], L, "open")
  <2>1. DOMAIN h[o] = 0..n - 1
        /\ \A k \in 0..n - 1 : h[o][k] = IF k \in DOMAIN g[o] THEN g[o][k] ELSE Null
    BY <1>7 DEF Longer
  <2>2. \A k \in 0..n - 1 : k \in DOMAIN g[o] <=> k < b.usize
    BY <1>3, <1>5
  <2>3. Seen(Null, L, "open") = Null
    BY ValueIs DEF Seen
  <2> QED
    BY <1>5, <2>1, <2>2, <2>3
<1> HIDE DEF x
<1>10. Shows(Item(r, L[o]), h[o], L, "open")
  BY <1>8, <1>9 DEF Shows
<1>11. \A q \in LiveIn(g) : Item(sg, L[q]).cells[0] = q
  BY <1>1, PlaceOf
<1>12. ASSUME NEW q \in LiveIn(h)
       PROVE  L[q] \in Busy(r) /\ Shows(Item(r, L[q]), h[q], L, "open")
  <2>1. CASE q = o
    BY <1>2, <1>4, <1>10, <2>1
  <2>2. CASE q # o
    <3>1. L[q] \in Busy(sg) /\ Shows(Item(sg, L[q]), g[q], L, "open") /\ L[q] # L[o]
      BY <1>1, <1>7, <1>11, <2>2 DEF Shown
    <3> QED
      BY <1>4, <1>7, <2>2, <3>1 DEF SameBut
  <2> QED
    BY <2>1, <2>2
<1>13. ASSUME NEW p \in Busy(r), \A q \in LiveIn(h) : L[q] # p
       PROVE  Forgotten(Item(r, p))
  <2>1. p \in Busy(sg) /\ p # L[o] /\ \A q \in LiveIn(g) : L[q] # p
    BY <1>4, <1>7, <1>13
  <2> QED
    BY <1>1, <1>4, <2>1 DEF Shown, SameBut
<1>14. Shown(r, h, L, "open")
  BY <1>12, <1>13 DEF Shown
<1> QED
  BY <1>4, <1>7, <1>14 DEF State, h, r

\* cell e[2] of e[1] alone points to o, at its beginning
HeldOnce(g, o, e) ==
  /\ e[1] \in LiveIn(g) \ {o} /\ e[2] \in DOMAIN g[e[1]] /\ g[e[1]][e[2]] = <<o, 0>>
  /\ \A q \in LiveIn(g) : \A k \in DOMAIN g[q] :
       IsPtr(g[q][k]) /\ g[q][k][1] = o => q = e[1] /\ k = e[2]

\* An object gets more cells elsewhere, and the one pointer to it is put right.
LEMMA MoveIs ==
  ASSUME NEW sg, NEW g, NEW L, State(sg, g, L), NEW o \in LiveIn(g), o # Root,
         NEW n \in Sizes, n > Item(sg, L[o]).usize, NEW e, HeldOnce(g, o, e),
         NEW c, c = [k \in 0..n - 1 |-> IF k \in DOMAIN g[o] THEN Item(sg, L[o]).cells[k] ELSE Null]
  PROVE  LET a == PMalloc(sg, n) IN
         State(SetCell(PMfree(SetCells(a.segs, a.at, c), L[o]), L[e[1]], e[2], a.at),
               [g EXCEPT ![o] = Longer(g[o], n)], With(L, g, o, a.at))
<1> DEFINE a == PMalloc(sg, n)
           h == [g EXCEPT ![o] = Longer(g[o], n)]
           M == With(L, g, o, a.at)
           b == Item(sg, L[o])
           f == L[e[1]]
           r1 == SetCells(a.segs, a.at, c)
           r2 == PMfree(r1, L[o])
           x == [Item(sg, f).cells EXCEPT ![e[2]] = a.at]
           r3 == SetCells(r2, f, x)
<1>1. HeapOk(sg) /\ Typed(g) /\ Led(g) /\ Shown(sg, g, L, "open")
  BY DEF State
<1>2. /\ e[1] \in LiveIn(g) /\ e[1] # o /\ e[2] \in DOMAIN g[e[1]] /\ g[e[1]][e[2]] = <<o, 0>>
      /\ \A q \in LiveIn(g) : \A k \in DOMAIN g[q] :
           IsPtr(g[q][k]) /\ g[q][k][1] = o => q = e[1] /\ k = e[2]
  BY DEF HeldOnce
<1>3. \A q \in LiveIn(g) : /\ Item(sg, L[q]).cells[0] = q /\ L[q] \in Busy(sg)
                           /\ Shows(Item(sg, L[q]), g[q], L, "open")
  <2>1. \A q \in LiveIn(g) : Item(sg, L[q]).cells[0] = q
    BY <1>1, PlaceOf
  <2>2. \A q \in LiveIn(g) : L[q] \in Busy(sg) /\ Shows(Item(sg, L[q]), g[q], L, "open")
    BY <1>1 DEF Shown
  <2> QED
    BY <2>1, <2>2
<1>4. L[o] \in Busy(sg) /\ f \in Busy(sg) /\ f # L[o]
  BY <1>2, <1>3
<1>5. b.usize \in Nat /\ n \in Nat \ {0} /\ n + Hdr + Unit <= SegSize
  <2>1. L[o] \in Headers(sg)
    BY <1>1, <1>4, BusyHeader
  <2> QED
    BY <1>1, <2>1, HeaderIs, SizesAssumption
<1>6. /\ HeapOk(a.segs) /\ a.at \notin Busy(sg) /\ Busy(a.segs) = Busy(sg) \cup {a.at}
      /\ SameBut(a.segs, sg, a.at) /\ Item(a.segs, a.at).usize = n
  BY <1>1, <1>5, PMallocIs DEF Allocated
<1> HIDE DEF a
<1>7. /\ HeapOk(r1) /\ Busy(r1) = Busy(a.segs) /\ SameBut(r1, a.segs, a.at)
      /\ Item(r1, a.at) = Block(Item(a.segs, a.at), n, c)
  BY <1>6, SetCellsIs
<1> HIDE DEF r1
<1>8. HeapOk(r2) /\ Busy(r2) = Busy(r1) \ {L[o]} /\ SameBut(r2, r1, L[o])
  BY <1>4, <1>6, <1>7, FreeIs
<1> HIDE DEF r2
<1>9. /\ Busy(r2) = (Busy(sg) \cup {a.at}) \ {L[o]} /\ a.at # L[o] /\ a.at # f
      /\ Item(r2, a.at).usize = n /\ Item(r2, a.at).cells = c
      /\ \A p \in Busy(sg) : p # L[o] => Item(r2, p) = Item(sg, p)
  <2>1. Busy(r2) = (Busy(sg) \cup {a.at}) \ {L[o]} /\ a.at # L[o] /\ a.at # f
    BY <1>4, <1>6, <1>7, <1>8
  <2>2. Item(r2, a.at) = Item(r1, a.at)
    BY <1>6, <1>7, <1>8, <2>1 DEF SameBut
  <2>3. \A p \in Busy(sg) : p # L[o] => Item(r2, p) = Item(sg, p)
    BY <1>6, <1>7, <1>8 DEF SameBut
  <2> QED
    BY <1>7, <2>1, <2>2, <2>3 DEF Block
<1>10. SetCell(r2, f, e[2], a.at) = r3
  <2>1. Item(r2, f) = Item(sg, f)
    BY <1>4, <1>9
  <2> QED
    BY <2>1, SetCellIs
<1>11. /\ HeapOk(r3) /\ Busy(r3) = Busy(r2) /\ SameBut(r3, r2, f)
       /\ Item(r3, f) = Block(Item(sg, f), Item(sg, f).usize, x)
  <2>1. f \in Busy(r2) /\ Item(r2, f) = Item(sg, f)
    BY <1>4, <1>9
  <2> HIDE DEF x
  <2> QED
    BY <1>8, <2>1, SetCellsIs
<1>12. /\ DOMAIN g[o] = 0..b.usize - 1
       /\ \A k \in DOMAIN g[o] : b.cells[k] = Seen(g[o][k], L, "open")
  BY <1>3 DEF Shows
<1>13. WithLonger(g, o, n, h)
  BY <1>1, <1>5, <1>12, GraphLonger
<1> HIDE DEF h, b, r3, x
<1>14. /\ Typed(h) /\ Led(h) /\ LiveIn(h) = LiveIn(g)
       /\ h[o] = Longer(g[o], n) /\ \A q \in LiveIn(h) : q # o => h[q] = g[q]
  BY <1>13 DEF WithLonger
<1>15. M[o] = a.at /\ \A q \in LiveIn(g) : q # o => M[q] = L[q]
  BY DEF With
<1> HIDE DEF M, f
<1>16. Shows(Item(r3, a.at), h[o], M, "open")
  <2>1. DOMAIN h[o] = 0..n - 1
        /\ \A k \in 0..n - 1 : h[o][k] = IF k \in DOMAIN g[o] THEN g[o][k] ELSE Null
    BY <1>14 DEF Longer
  <2>2. /\ c = [k \in 0..n - 1 |-> c[k]]
        /\ \A k \in 0..n - 1 : c[k] = IF k \in DOMAIN g[o] THEN b.cells[k] ELSE Null
    BY DEF b
  <2>3. Seen(Null, M, "open") = Null
    BY ValueIs DEF Seen
  <2>4. ASSUME NEW k \in DOMAIN g[o] PROVE Seen(g[o][k], M, "open") = Seen(g[o][k], L, "open")
    <3>1. IsPtr(g[o][k]) => g[o][k][1] # o /\ g[o][k][1] \in LiveIn(g)
      BY <1>1, <1>2 DEF Led, Leads
    <3> QED
      BY <1>15, <3>1, SeenSame
  <2>5. \A k \in 0..n - 1 : c[k] = Seen(h[o][k], M, "open")
    BY <1>12, <2>1, <2>2, <2>3, <2>4
  <2>6. Item(r3, a.at).usize = n /\ Item(r3, a.at).cells = c
    BY <1>4, <1>6, <1>9, <1>11 DEF SameBut
  <2> QED
    BY <2>1, <2>2, <2>5, <2>6 DEF Shows
<1>17. Shows(Item(r3, f), g[e[1]], M, "open")
  <2> DEFINE d == g[e[1]]
  <2>1. Shows(Item(sg, f), d, L, "open")
    BY <1>2, <1>3 DEF f
  <2>2. /\ DOMAIN d = 0..Item(sg, f).usize - 1
        /\ Item(sg, f).cells = [k \in DOMAIN d |-> Item(sg, f).cells[k]]
        /\ \A k \in DOMAIN d : Item(sg, f).cells[k] = Seen(d[k], L, "open")
    BY <2>1 DEF Shows
  <2>3. /\ x = [k \in DOMAIN d |-> x[k]]
        /\ \A k \in DOMAIN d : x[k] = IF k = e[2] THEN a.at ELSE Item(sg, f).cells[k]
    BY <2>2 DEF x
  <2>4. Seen(<<o, 0>>, M, "open") = a.at
    <3>1. o \in Objs
      BY DEF LiveIn
    <3>2. IsPtr(<<o, 0>>)
      BY <3>1, ValueIs
    <3>3. a.at \in Headers(a.segs)
      BY <1>6, BusyHeader
    <3>4. a.at = <<a.at[1], a.at[2]>> /\ a.at[2] \in Nat
      BY <1>6, <3>3, HeaderIs
    <3>5. a.at[2] + 0 = a.at[2]
      BY <3>4
    <3> QED
      BY <1>15, <3>2, <3>4, <3>5 DEF Seen, Plus
  <2>5. ASSUME NEW k \in DOMAIN d PROVE x[k] = Seen(d[k], M, "open")
    <3>1. CASE k = e[2]
      BY <1>2, <2>3, <2>4, <3>1
    <3>2. CASE k # e[2]
      <4>1. IsPtr(d[k]) => d[k][1] # o /\ d[k][1] \in LiveIn(g)
        BY <1>1, <1>2, <3>2 DEF Led, Leads
      <4>2. Seen(d[k], M, "open") = Seen(d[k], L, "open")
        BY <1>15, <4>1, SeenSame
      <4> QED
        BY <2>2, <2>3, <3>2, <4>2
    <3> QED
      BY <3>1, <3>2
  <2>6. Item(r3, f).usize = Item(sg, f).usize /\ Item(r3, f).cells = x
    BY <1>11 DEF Block
  <2> HIDE DEF d
  <2>7. Shows(Item(r3, f), d, M, "open")
    BY <2>2, <2>3, <2>5, <2>6 DEF Shows
  <2> QED
    BY <2>7 DEF d
<1>18. ASSUME NEW q \in LiveIn(h)
       PROVE  M[q] \in Busy(r3) /\ Shows(Item(r3, M[q]), h[q], M, "open")
  <2>1. CASE q = o
    BY <1>9, <1>11, <1>15, <1>16, <2>1
  <2>2. CASE q # o
    <3>1. /\ q \in LiveIn(g) /\ h[q] = g[q] /\ M[q] = L[q] /\ L[q] \in Busy(sg) /\ L[q] # L[o]
          /\ L[q] \in Busy(r3)
      BY <1>3, <1>9, <1>11, <1>14, <1>15, <2>2
    <3>2. CASE q = e[1]
      BY <1>17, <3>1, <3>2 DEF f
    <3>3. CASE q # e[1]
      <4>1. L[q] # f
        BY <1>2, <1>3, <3>1, <3>3 DEF f
      <4>2. Item(r3, L[q]) = Item(sg, L[q])
        BY <1>9, <1>11, <3>1, <4>1 DEF SameBut
      <4>3. \A k \in DOMAIN g[q] : IsPtr(g[q][k]) => M[g[q][k][1]] = L[g[q][k][1]]
        BY <1>1, <1>2, <1>15, <3>1, <3>3 DEF Led, Leads
      <4>4. Shows(Item(sg, L[q]), g[q], L, "open")
        BY <1>3, <3>1
      <4>5. Shows(Item(sg, L[q]), g[q], M, "open")
        BY <4>3, <4>4, ShowsSame
      <4> QED
        BY <3>1, <4>2, <4>5
    <3> QED
      BY <3>2, <3>3
  <2> QED
    BY <2>1, <2>2
<1>19. ASSUME NEW p \in Busy(r3), \A q \in LiveIn(h) : M[q] # p
       PROVE  Forgotten(Item(r3, p))
  <2>1. p # a.at /\ p # L[o] /\ p \in Busy(sg)
    BY <1>9, <1>11, <1>14, <1>15, <1>19
  <2>2. \A q \in LiveIn(g) : L[q] # p
    BY <1>14, <1>15, <1>19, <2>1
  <2>3. p # f
    BY <1>2, <2>2 DEF f
  <2>4. Item(r3, p) = Item(sg, p)
    BY <1>9, <1>11, <2>1, <2>3 DEF SameBut
  <2> QED
    BY <1>1, <2>1, <2>2, <2>4 DEF Shown
<1>20. Shown(r3, h, M, "open")
  BY <1>18, <1>19 DEF Shown
<1>21. State(r3, h, M)
  BY <1>11, <1>14, <1>20 DEF State
<1> QED
  BY <1>10, <1>21 DEF h, M, a, f, r1, r2

---------------------------------------------------------------------------
(* The pointers of the graph *)

LEMMA MaxIs ==
  ASSUME NEW S \in SUBSET Nat, S # {}, NEW b \in Nat, \A n \in S : n <= b
  PROVE  Max(S) \in S /\ \A n \in S : n <= Max(S)
<1> DEFINE D == {n \in Nat : b - n \in S}
<1>1. D \in SUBSET Nat /\ D # {}
  <2>1. PICK x \in S : TRUE
    OBVIOUS
  <2>2. x \in Nat /\ b - x \in Nat /\ b - (b - x) = x
    BY <2>1
  <2>3. b - x \in D
    BY <2>1, <2>2
  <2> QED
    BY <2>3
<1>2. PICK m \in D : \A n \in D : m <= n
  <2> HIDE DEF D
  <2> QED
    BY <1>1, MinIs
<1>3. b - m \in S /\ \A n \in S : n <= b - m
  <2>1. ASSUME NEW n \in S PROVE n <= b - m
    <3>1. n \in Nat /\ b - n \in Nat /\ b - (b - n) = n
      OBVIOUS
    <3>2. b - n \in D
      BY <3>1
    <3>3. m <= b - n
      BY <1>2, <3>2
    <3> QED
      BY <3>1, <3>3
  <2> QED
    BY <2>1
<1> QED
  BY <1>3 DEF Max

LEMMA EdgesIs ==
  ASSUME NEW g, Typed(g)
  PROVE  /\ \A e \in Edges(g) : /\ e = <<e[1], e[2]>> /\ e[1] \in LiveIn(g)
                                /\ e[2] \in DOMAIN g[e[1]] /\ IsPtr(g[e[1]][e[2]])
         /\ \A o \in LiveIn(g) : \A k \in DOMAIN g[o] : IsPtr(g[o][k]) => <<o, k>> \in Edges(g)
<1> DEFINE N == Sizes \cup {RootN}
<1>1. \A n \in N : n \in Nat /\ n <= Max(N)
  <2>1. N \in SUBSET Nat /\ N # {} /\ SegSize \in Nat
    BY SizesAssumption
  <2>2. \A n \in N : n <= SegSize
    BY <2>1, SizesAssumption DEF Hdr, Unit
  <2> HIDE DEF N
  <2> QED
    BY <2>1, <2>2, MaxIs
<1>2. ASSUME NEW e \in Edges(g)
      PROVE  /\ e = <<e[1], e[2]>> /\ e[1] \in LiveIn(g)
             /\ e[2] \in DOMAIN g[e[1]] /\ IsPtr(g[e[1]][e[2]])
  BY <1>2 DEF Edges, LiveIn
<1>3. ASSUME NEW o \in LiveIn(g), NEW k \in DOMAIN g[o], IsPtr(g[o][k])
      PROVE  <<o, k>> \in Edges(g)
  <2>1. o \in Objs /\ CellsOk(o, g[o]) /\ g[o] # None
    BY TypedIs DEF LiveIn
  <2>2. PICK n \in N : g[o] = [i \in 0..n - 1 |-> g[o][i]] /\ g[o][0] = o
    BY <2>1 DEF CellsOk
  <2>3. k \in 0..n - 1 /\ k # 0
    <3>1. ~ IsPtr(o)
      BY <2>1, ValueIs
    <3> QED
      BY <1>3, <2>2, <3>1
  <2>4. n \in Nat /\ n <= Max(N) /\ Max(N) \in Nat
    <3>1. N \in SUBSET Nat /\ N # {} /\ SegSize \in Nat /\ \A i \in N : i <= SegSize
      BY SizesAssumption DEF Hdr, Unit
    <3> HIDE DEF N
    <3>2. Max(N) \in N
      BY <3>1, MaxIs
    <3> QED
      BY <1>1, <3>1, <3>2
  <2>5. k \in 1..Max(N)
    <3> HIDE DEF N
    <3> QED
      BY <2>3, <2>4
  <2> HIDE DEF N
  <2>6. <<o, k>> \in Objs \X (1..Max(N))
    BY <2>1, <2>5
  <2> QED
    BY <1>3, <2>1, <2>6 DEF Edges, N
<1> QED
  BY <1>2, <1>3

\* A recursive function that gives the next value from the last one exists.
Iterates(F, N, a, T) == F = [n \in 0..N |-> IF n = 0 THEN a ELSE T[n][F[n - 1]]]
LEMMA RecursionIs ==
  ASSUME NEW N \in Nat, NEW D, NEW a \in D, NEW T \in [1..N -> [D -> D]]
  PROVE  \E F \in [0..N -> D] : Iterates(F, N, a, T)
<1> DEFINE Ok(m) == \E F \in [0..m -> D] :
                      F = [n \in 0..m |-> IF n = 0 THEN a ELSE T[n][F[n - 1]]]
           B == {m \in 0..N : ~ Ok(m)}
<1> SUFFICES Ok(N)
  BY DEF Iterates
<1> SUFFICES ASSUME ~ Ok(N) PROVE FALSE
  OBVIOUS
<1>1. PICK m \in B : \A n \in B : m <= n
  <2>1. B \in SUBSET Nat /\ B # {}
    <3> HIDE DEF Ok
    <3>1. N \in B
      OBVIOUS
    <3> QED
      BY <3>1
  <2> HIDE DEF B
  <2> QED
    BY <2>1, MinIs
<1>2. Ok(m)
  <2>1. CASE m = 0
    <3> DEFINE F == [n \in 0..0 |-> a]
    <3>1. F \in [0..m -> D]
      BY <2>1
    <3>2. F = [n \in 0..m |-> IF n = 0 THEN a ELSE T[n][F[n - 1]]]
      BY <2>1
    <3> QED
      BY <3>1, <3>2
  <2>2. CASE m # 0
    <3>1. m - 1 \in 0..N /\ m \in 1..N /\ m - 1 < m
      BY <2>2
    <3>2. Ok(m - 1)
      <4> HIDE DEF Ok
      <4>1. m - 1 \notin B
        BY <1>1, <3>1
      <4> QED
        BY <3>1, <4>1
    <3>3. PICK F \in [0..m - 1 -> D] :
            F = [n \in 0..m - 1 |-> IF n = 0 THEN a ELSE T[n][F[n - 1]]]
      BY <3>2
    <3> DEFINE G == [n \in 0..m |-> IF n = m THEN T[m][F[m - 1]] ELSE F[n]]
    <3>4. T[m][F[m - 1]] \in D
      <4>1. T[m] \in [D -> D]
        BY <3>1
      <4>2. F[m - 1] \in D
        BY <3>1
      <4> QED
        BY <4>1, <4>2
    <3>5. G \in [0..m -> D]
      <4> HIDE DEF Ok, B
      <4> QED
        BY <3>1, <3>4
    <3>6. ASSUME NEW n \in 0..m
          PROVE  G[n] = IF n = 0 THEN a ELSE T[n][G[n - 1]]
      <4> HIDE DEF Ok, B
      <4>1. CASE n = m
        <5>1. n # 0 /\ n - 1 \in 0..m /\ n - 1 # m
          BY <3>1, <4>1
        <5>2. G[n - 1] = F[m - 1]
          BY <4>1, <5>1
        <5>3. G[n] = T[m][F[m - 1]]
          BY <4>1
        <5> QED
          BY <4>1, <5>1, <5>2, <5>3
      <4>2. CASE n # m
        <5>1. n \in 0..m - 1 /\ (n # 0 => n - 1 \in 0..m /\ n - 1 # m)
          BY <3>1, <4>2
        <5>2. G[n] = F[n]
          BY <4>2
        <5>3. F[n] = IF n = 0 THEN a ELSE T[n][F[n - 1]]
          BY <3>3, <5>1
        <5>4. n # 0 => G[n - 1] = F[n - 1]
          BY <5>1
        <5> QED
          BY <5>2, <5>3, <5>4
      <4> QED
        BY <4>1, <4>2
    <3>7. G = [n \in 0..m |-> IF n = 0 THEN a ELSE T[n][G[n - 1]]]
      <4>1. G = [n \in 0..m |-> G[n]]
        OBVIOUS
      <4> HIDE DEF G
      <4> QED
        BY <3>6, <4>1
    <3> QED
      <4> HIDE DEF G
      <4> QED
        BY <3>5, <3>7
  <2> QED
    BY <2>1, <2>2
<1> QED
  BY <1>1, <1>2

\* Where every object is reached, every one but the first has a pointer to it.
LEMMA KeptIs ==
  ASSUME NEW g, Typed(g), Kept(g)
  PROVE  Pointed(g)
<1> DEFINE all == {o \in Objs : g[o] # None}
           N == Cardinality(Objs)
           Next1(S) == S \cup {q \in all : \E o \in S : \E k \in DOMAIN g[o] : g[o][k] = <<q, 0>>}
           Body(F) == [n \in 0..N |-> IF n = 0 THEN {Root} ELSE F[n - 1] \cup
             {q \in all : \E o \in F[n - 1] : \E k \in DOMAIN g[o] : g[o][k] = <<q, 0>>}]
           Reach == CHOOSE F : F = Body(F)
<1>1. all = LiveIn(g) /\ Root \in all /\ N \in Nat
  BY SizesAssumption, FS_CardinalityType DEF Typed, LiveIn
<1>2. Reach[N] = all
  BY DEF Kept
<1>3. Reach = Body(Reach) /\ \A n \in 0..N : Reach[n] \subseteq all
  <2> DEFINE T == [n \in 1..N |-> [S \in SUBSET all |-> Next1(S)]]
  <2>1. {Root} \in SUBSET all /\ T \in [1..N -> [SUBSET all -> SUBSET all]]
    BY <1>1
  <2>2. PICK F \in [0..N -> SUBSET all] :
          F = [n \in 0..N |-> IF n = 0 THEN {Root} ELSE T[n][F[n - 1]]]
    <3> DEFINE D == SUBSET all
               a == {Root}
    <3>1. a \in D /\ T \in [1..N -> [D -> D]]
      BY <2>1
    <3> HIDE DEF T, N, D, a
    <3>2. \E F \in [0..N -> D] : Iterates(F, N, a, T)
      BY <1>1, <3>1, RecursionIs, Zenon
    <3> QED
      BY <3>2 DEF D, a, Iterates
  <2>3. F = Body(F)
    <3>1. ASSUME NEW n \in 0..N, n # 0 PROVE T[n][F[n - 1]] = Next1(F[n - 1])
      <4>1. n \in 1..N /\ F[n - 1] \in SUBSET all
        BY <1>1, <3>1
      <4> HIDE DEF all, N
      <4> QED
        BY <4>1
    <3>2. F = [n \in 0..N |-> IF n = 0 THEN {Root} ELSE Next1(F[n - 1])]
      <4> HIDE DEF T, Next1, all, N
      <4> QED
        BY <2>2, <3>1
    <3> QED
      BY <3>2
  <2>4. Reach = Body(Reach)
    <3> HIDE DEF Body
    <3> QED
      BY <2>3
  <2>5. ASSUME NEW x \in 0..N PROVE Reach[x] \subseteq all
    <3> DEFINE B == {m \in 0..N : ~ (Reach[m] \subseteq all)}
    <3> SUFFICES ASSUME B # {} PROVE FALSE
      OBVIOUS
    <3>1. PICK m \in B : \A i \in B : m <= i
      <4>1. B \in SUBSET Nat
        BY <1>1
      <4> HIDE DEF B
      <4> QED
        BY <4>1, MinIs
    <3> HIDE DEF Reach
    <3>2. m \in 0..N /\ ~ (Reach[m] \subseteq all) /\ \A i \in 0..m - 1 : Reach[i] \subseteq all
      <4>1. m \in 0..N /\ ~ (Reach[m] \subseteq all)
        OBVIOUS
      <4>2. ASSUME NEW i \in 0..m - 1 PROVE Reach[i] \subseteq all
        <5>1. i \in 0..N /\ i < m
          BY <1>1, <4>1
        <5>2. i \notin B
          BY <1>1, <3>1, <5>1
        <5> QED
          BY <5>1, <5>2
      <4> QED
        BY <4>1, <4>2
    <3>3. m = 0 => Reach[m] = {Root}
      BY <2>4, <3>2
    <3>4. m # 0 => m - 1 \in 0..m - 1 /\ Reach[m] = Next1(Reach[m - 1])
      <4>1. \A n \in 0..N : Reach[n] = IF n = 0 THEN {Root} ELSE Next1(Reach[n - 1])
        BY <2>4
      <4> HIDE DEF Next1, all, N, B, Body
      <4> QED
        BY <1>1, <3>2, <4>1
    <3> QED
      BY <1>1, <3>2, <3>3, <3>4
  <2> QED
    BY <2>4, <2>5
<1> HIDE DEF Reach
<1>4. 0 \in 0..N /\ Reach[0] = {Root} /\ \A n \in 1..N : Reach[n] = Next1(Reach[n - 1])
  <2>1. \A n \in 0..N : Reach[n] = IF n = 0 THEN {Root} ELSE Next1(Reach[n - 1])
    BY <1>3
  <2> HIDE DEF Next1, N, all
  <2>2. 0 \in 0..N /\ \A n \in 1..N : n \in 0..N /\ n # 0
    BY <1>1
  <2> QED
    BY <2>1, <2>2
<1>5. ASSUME NEW q \in LiveIn(g) \ {Root}
      PROVE  \E h \in LiveIn(g) : \E k \in DOMAIN g[h] : g[h][k] = <<q, 0>>
  <2> DEFINE S == {n \in 0..N : q \in Reach[n]}
  <2>1. PICK n \in S : \A m \in S : n <= m
    <3>1. S \in SUBSET Nat /\ N \in S
      BY <1>1, <1>2
    <3> HIDE DEF S
    <3> QED
      BY <3>1, MinIs
  <2>2. n # 0 /\ n \in 1..N /\ n - 1 \in 0..N /\ q \in Reach[n]
    BY <1>1, <1>4, <2>1
  <2>3. q \notin Reach[n - 1]
    <3>1. n - 1 \notin S
      BY <2>1, <2>2
    <3> QED
      BY <2>2, <3>1
  <2>4. PICK o \in Reach[n - 1] : \E k \in DOMAIN g[o] : g[o][k] = <<q, 0>>
    <3>1. q \in Next1(Reach[n - 1])
      BY <1>4, <2>2
    <3> QED
      BY <2>3, <3>1
  <2>5. o \in LiveIn(g)
    BY <1>1, <1>3, <2>2
  <2> QED
    BY <2>4, <2>5
<1> QED
  BY <1>5 DEF Pointed

---------------------------------------------------------------------------
(* The inductive invariant: the objects have places, the first one that of the *)
(* anchor, and the blocks there show them; the blocks left over are forgotten.  *)

\* what the state file says of the pointers of g, the objects being at L
Recs(g, L) ==
  {[from |-> None, to |-> L[Root]]} \cup
  {[from |-> Plus(L[e[1]], e[2]), to |-> Seen(g[e[1]][e[2]], L, "open")] : e \in Edges(g)}

Saved(sg, g, L) == HeapOk(sg) /\ Typed(g) /\ Led(g) /\ Shown(sg, g, L, "saved")

Inv ==
  /\ ~ lost /\ Pointed(graph)
  /\ \E L : /\ L[Root] = <<1, Unit>>
            /\ \/ up = TRUE /\ State(segs, graph, L) /\ anchor = <<1, Unit>>
               \/ up = FALSE /\ Saved(segs, graph, L) /\ records = Recs(graph, L)

\* The cells of h hold at least the pointers of g.
KeepsPtrs(g, h) ==
  \A q \in LiveIn(g) : q \in LiveIn(h) /\ \A i \in DOMAIN g[q] :
    IsPtr(g[q][i]) => i \in DOMAIN h[q] /\ h[q][i] = g[q][i]
PointedIn(h, o) == \E f \in LiveIn(h) : \E i \in DOMAIN h[f] : h[f][i] = <<o, 0>>

LEMMA PointedMore ==
  ASSUME NEW g, Pointed(g), NEW h, KeepsPtrs(g, h)
  PROVE  \A q \in LiveIn(g) \ {Root} : PointedIn(h, q)
<1>1. ASSUME NEW q \in LiveIn(g) \ {Root}
      PROVE  PointedIn(h, q)
  <2>1. PICK f \in LiveIn(g) : \E i \in DOMAIN g[f] : g[f][i] = <<q, 0>>
    BY DEF Pointed
  <2>2. PICK i \in DOMAIN g[f] : g[f][i] = <<q, 0>>
    BY <2>1
  <2>3. IsPtr(<<q, 0>>)
    <3>1. q \in Objs
      BY DEF LiveIn
    <3> QED
      BY <3>1, ValueIs
  <2> QED
    BY <2>2, <2>3 DEF KeepsPtrs, PointedIn
<1> QED
  BY <1>1

LEMMA PointedSame ==
  ASSUME NEW g, Pointed(g), NEW h, KeepsPtrs(g, h), LiveIn(h) = LiveIn(g)
  PROVE  Pointed(h)
<1>1. \A q \in LiveIn(g) \ {Root} : PointedIn(h, q)
  BY PointedMore, Zenon
<1> QED
  BY <1>1 DEF PointedIn, Pointed

LEMMA PointedWritten ==
  ASSUME NEW g, Pointed(g), NEW p, NEW k, NEW v, NEW h, Written(g, p, k, v, h),
         Typed(g), k \in DOMAIN g[p], p \in LiveIn(g), g[p][k] = Null
  PROVE  Pointed(h)
<1>1. /\ LiveIn(h) = LiveIn(g)
      /\ h[p] = [g[p] EXCEPT ![k] = v] /\ \A q \in LiveIn(g) : q # p => h[q] = g[q]
  BY DEF Written
<1>2. g[p] = [i \in DOMAIN g[p] |-> g[p][i]]
  <2>1. p \in Objs /\ CellsOk(p, g[p])
    BY TypedIs
  <2> QED
    BY <2>1, CellsAre
<1>3. ~ IsPtr(Null)
  BY ValueIs
<1>4. KeepsPtrs(g, h)
  BY <1>1, <1>2, <1>3 DEF KeepsPtrs
<1> QED
  BY <1>1, <1>4, PointedSame

\* While the engine runs.
RunsWith(L) ==
  /\ L[Root] = <<1, Unit>> /\ anchor = <<1, Unit>> /\ State(segs, graph, L)
  /\ \A o \in LiveIn(graph) : At(o) = L[o]

LEMMA RunningIs ==
  ASSUME Inv, up
  PROVE  /\ ~ lost /\ Pointed(graph) /\ Typed(graph) /\ Led(graph) /\ Live = LiveIn(graph)
         /\ \E L : RunsWith(L)
<1>1. PICK L : L[Root] = <<1, Unit>> /\ State(segs, graph, L) /\ anchor = <<1, Unit>>
  BY DEF Inv
<1>2. Typed(graph) /\ Led(graph) /\ Shown(segs, graph, L, "open")
  BY <1>1 DEF State
<1>3. \A o \in LiveIn(graph) : At(o) = L[o]
  BY <1>2, AtIs
<1>4. RunsWith(L)
  BY <1>1, <1>3 DEF RunsWith
<1> QED
  BY <1>2, <1>4 DEF Inv, Live, LiveIn

LEMMA PointerCell ==
  ASSUME NEW g, Typed(g), NEW p \in LiveIn(g), NEW k \in DOMAIN g[p],
         g[p][k] = Null \/ IsPtr(g[p][k])
  PROVE  k # 0 /\ k \in Nat
<1>1. p \in Objs /\ CellsOk(p, g[p])
  BY TypedIs
<1> QED
  BY <1>1, CellsAre, ValueIs

LEMMA LinkKeeps ==
  ASSUME Inv, NEW p, NEW k, NEW o, NEW j, Link(p, k, o, j)
  PROVE  Inv'
<1>1. up
  BY DEF Link
<1>2. /\ ~ lost /\ Pointed(graph) /\ Typed(graph) /\ Led(graph) /\ Live = LiveIn(graph)
  BY <1>1, RunningIs
<1>3. PICK L : RunsWith(L)
  BY <1>1, RunningIs
<1>4. /\ p \in LiveIn(graph) /\ k \in DOMAIN graph[p] /\ graph[p][k] = Null
      /\ o \in LiveIn(graph) \ {Root} /\ j \in DOMAIN graph[o]
      /\ segs' = SetCell(segs, At(p), k, Addr(o, j))
      /\ graph' = [graph EXCEPT ![p][k] = <<o, j>>]
      /\ anchor' = anchor /\ up' = up /\ lost' = lost
  BY <1>2 DEF Link, Empty
<1>5. /\ L[Root] = <<1, Unit>> /\ anchor = <<1, Unit>> /\ State(segs, graph, L) /\ up = TRUE
      /\ At(p) = L[p] /\ At(o) = L[o]
  BY <1>1, <1>3, <1>4 DEF RunsWith, Inv
<1>6. k # 0
  BY <1>2, <1>4, PointerCell
<1>7. Pointer(graph, <<o, j>>) /\ Seen(<<o, j>>, L, "open") = Addr(o, j)
  <2>1. o \in Objs /\ j \in Nat
    BY <1>2, <1>4, TypedIs, CellsAre
  <2>2. Pointer(graph, <<o, j>>) /\ IsPtr(<<o, j>>)
    BY <1>4, <2>1, ValueIs DEF Pointer, Leads
  <2> QED
    BY <1>5, <2>2 DEF Seen, Plus, Addr
<1>8. State(segs', graph', L)
  <2>1. State(SetCell(segs, L[p], k, Seen(<<o, j>>, L, "open")), [graph EXCEPT ![p][k] = <<o, j>>], L)
    BY <1>4, <1>5, <1>6, <1>7, WriteIs
  <2> QED
    BY <1>4, <1>5, <1>7, <2>1
<1>9. Pointed(graph')
  <2>1. Written(graph, p, k, <<o, j>>, graph')
    BY <1>2, <1>4, <1>6, <1>7, WrittenIs
  <2> QED
    BY <1>2, <1>4, <2>1, PointedWritten
<1> QED
  BY <1>2, <1>4, <1>5, <1>8, <1>9 DEF Inv

LEMMA UnlinkKeeps ==
  ASSUME Inv, NEW p, NEW k, Unlink(p, k)
  PROVE  Inv'
<1>1. up
  BY DEF Unlink
<1>2. /\ ~ lost /\ Pointed(graph) /\ Typed(graph) /\ Led(graph) /\ Live = LiveIn(graph)
  BY <1>1, RunningIs
<1>3. PICK L : RunsWith(L)
  BY <1>1, RunningIs
<1>4. /\ p \in LiveIn(graph) /\ k \in DOMAIN graph[p] /\ IsPtr(graph[p][k])
      /\ segs' = SetCell(segs, At(p), k, Null)
      /\ graph' = [graph EXCEPT ![p][k] = Null] /\ Kept(graph')
      /\ anchor' = anchor /\ up' = up /\ lost' = lost
  BY <1>2 DEF Unlink
<1>5. /\ L[Root] = <<1, Unit>> /\ anchor = <<1, Unit>> /\ State(segs, graph, L) /\ up = TRUE
      /\ At(p) = L[p]
  BY <1>1, <1>3, <1>4 DEF RunsWith, Inv
<1>6. k # 0
  BY <1>2, <1>4, PointerCell
<1>7. Seen(Null, L, "open") = Null
  BY ValueIs DEF Seen
<1>8. State(segs', graph', L)
  <2>1. State(SetCell(segs, L[p], k, Seen(Null, L, "open")), [graph EXCEPT ![p][k] = Null], L)
    BY <1>4, <1>5, <1>6, WriteIs
  <2> QED
    BY <1>4, <1>5, <1>7, <2>1
<1>9. Pointed(graph')
  <2>1. Typed(graph')
    BY <1>8 DEF State
  <2> QED
    BY <1>4, <2>1, KeptIs
<1> QED
  BY <1>2, <1>4, <1>5, <1>8, <1>9 DEF Inv

\* The one pointer to an object.
HeldBy(g, o, h) ==
  /\ h[1] \in LiveIn(g) /\ h[2] \in DOMAIN g[h[1]] /\ IsPtr(g[h[1]][h[2]])
  /\ \A q \in LiveIn(g) : \A k \in DOMAIN g[q] :
       IsPtr(g[q][k]) /\ g[q][k][1] = o => q = h[1] /\ k = h[2]

LEMMA HoldersAre ==
  ASSUME NEW g, Typed(g), NEW o, NEW h, Holders(g, o) = {h}
  PROVE  HeldBy(g, o, h)
<1>1. h \in Edges(g) /\ g[h[1]][h[2]][1] = o
  BY DEF Holders
<1>2. ASSUME NEW q \in LiveIn(g), NEW k \in DOMAIN g[q], IsPtr(g[q][k]), g[q][k][1] = o
      PROVE  q = h[1] /\ k = h[2]
  <2>1. <<q, k>> \in Edges(g)
    BY <1>2, EdgesIs
  <2>2. <<q, k>> \in Holders(g, o)
    BY <1>2, <2>1 DEF Holders
  <2> QED
    BY <2>2
<1> QED
  BY <1>1, <1>2, EdgesIs DEF HeldBy

LEMMA DropKeeps ==
  ASSUME Inv, NEW o, NEW h, NEW freed, Drop(o, h, freed)
  PROVE  Inv'
<1>1. up
  BY DEF Drop
<1>2. /\ ~ lost /\ Pointed(graph) /\ Typed(graph) /\ Led(graph) /\ Live = LiveIn(graph)
  BY <1>1, RunningIs
<1>3. PICK L : RunsWith(L)
  BY <1>1, RunningIs
<1> DEFINE sg == SetCell(segs, At(h[1]), h[2], Null)
           g == [graph EXCEPT ![h[1]][h[2]] = Null]
<1>4. /\ o \in LiveIn(graph) /\ o # Root /\ Holders(graph, o) = {h} /\ h[1] # o
      /\ segs' = PMfree(sg, At(o)) \/ segs' = SetCell(sg, At(o), 0, None)
      /\ graph' = [graph EXCEPT ![o] = None, ![h[1]][h[2]] = Null] /\ Kept(graph')
      /\ anchor' = anchor /\ up' = up /\ lost' = lost
  BY <1>2 DEF Drop
<1>5. /\ h[1] \in LiveIn(graph) /\ h[2] \in DOMAIN graph[h[1]] /\ IsPtr(graph[h[1]][h[2]])
      /\ \A q \in LiveIn(graph) : \A k \in DOMAIN graph[q] :
           IsPtr(graph[q][k]) /\ graph[q][k][1] = o => q = h[1] /\ k = h[2]
  <2>1. Typed(graph) /\ Holders(graph, o) = {h}
    BY <1>2, <1>4
  <2>2. HeldBy(graph, o, h)
    BY <2>1, HoldersAre, Zenon
  <2> QED
    BY <2>2 DEF HeldBy
<1>6. /\ L[Root] = <<1, Unit>> /\ anchor = <<1, Unit>> /\ State(segs, graph, L) /\ up = TRUE
      /\ At(h[1]) = L[h[1]] /\ At(o) = L[o]
  BY <1>1, <1>3, <1>4, <1>5 DEF RunsWith, Inv
<1>7. h[2] # 0
  BY <1>2, <1>5, PointerCell
<1>8. Written(graph, h[1], h[2], Null, g)
  BY <1>2, <1>5, <1>7, WrittenIs
<1>9. State(sg, g, L)
  <2>1. Seen(Null, L, "open") = Null
    BY ValueIs DEF Seen
  <2>2. State(SetCell(segs, L[h[1]], h[2], Seen(Null, L, "open")), g, L)
    BY <1>5, <1>6, <1>7, WriteIs
  <2> QED
    BY <1>6, <2>1, <2>2
<1> HIDE DEF sg
<1>10. graph' = [g EXCEPT ![o] = None]
  <2>1. graph = [q \in Objs |-> graph[q]] /\ h[1] \in Objs
    BY <1>2, <1>5 DEF Typed, LiveIn
  <2> QED
    BY <1>4, <2>1
<1> HIDE DEF g
<1>11. /\ LiveIn(g) = LiveIn(graph) /\ g[h[1]] = [graph[h[1]] EXCEPT ![h[2]] = Null]
       /\ \A q \in LiveIn(graph) : q # h[1] => g[q] = graph[q]
  BY <1>8 DEF Written
<1>12. Unheld(g, o)
  <2> SUFFICES ASSUME NEW q \in LiveIn(graph), NEW k \in DOMAIN g[q], IsPtr(g[q][k])
               PROVE  g[q][k][1] # o
    BY <1>11 DEF Unheld
  <2>1. ~ IsPtr(Null)
    BY ValueIs
  <2>2. k \in DOMAIN graph[q] /\ ~ (q = h[1] /\ k = h[2]) /\ g[q][k] = graph[q][k]
    <3>1. CASE q = h[1]
      <4>1. graph[q] = [i \in DOMAIN graph[q] |-> graph[q][i]]
        BY <1>2, TypedIs, CellsAre
      <4> QED
        BY <1>11, <2>1, <3>1, <4>1
    <3>2. CASE q # h[1]
      BY <1>11, <3>2
    <3> QED
      BY <3>1, <3>2
  <2> QED
    BY <1>5, <2>2
<1>13. State(segs', graph', L)
  <2>1. o \in LiveIn(g)
    BY <1>4, <1>11
  <2>2. /\ State(PMfree(sg, L[o]), [g EXCEPT ![o] = None], L)
        /\ State(SetCell(sg, L[o], 0, None), [g EXCEPT ![o] = None], L)
    BY <1>4, <1>9, <1>12, <2>1, RemoveIs, Zenon
  <2> QED
    BY <1>4, <1>6, <1>10, <2>2, Zenon
<1>14. Pointed(graph')
  <2>1. Typed(graph')
    BY <1>13 DEF State
  <2> QED
    BY <1>4, <2>1, KeptIs
<1> QED
  BY <1>2, <1>4, <1>6, <1>13, <1>14 DEF Inv

LEMMA CountBelow ==
  ASSUME NEW n \in Nat
  PROVE  Cardinality(0..n - 1) = n
<1>1. 0 \in Int /\ n - 1 \in Int
  OBVIOUS
<1>2. Cardinality(0..n - 1) = IF 0 > n - 1 THEN 0 ELSE (n - 1) - 0 + 1
  BY <1>1, FS_Interval, Zenon
<1> QED
  BY <1>2

LEMMA ResizeKeeps ==
  ASSUME Inv, NEW o, NEW h, NEW n \in Sizes, Resize(o, h, n)
  PROVE  Inv'
<1>1. up
  BY DEF Resize
<1>2. /\ ~ lost /\ Pointed(graph) /\ Typed(graph) /\ Led(graph) /\ Live = LiveIn(graph)
  BY <1>1, RunningIs
<1>3. PICK L : RunsWith(L)
  BY <1>1, RunningIs
<1> DEFINE b == Item(segs, At(o))
           cells == [k \in 0..n - 1 |-> IF k \in DOMAIN graph[o] THEN b.cells[k] ELSE Null]
           a == PMalloc(segs, n)
           g == [graph EXCEPT ![o] = Longer(graph[o], n)]
<1>4. /\ o \in LiveIn(graph) /\ o # Root /\ n > Cardinality(DOMAIN graph[o])
      /\ Holders(graph, o) = {h} /\ h[1] # o /\ graph[h[1]][h[2]] = <<o, 0>>
      /\ segs' = IF n <= b.size THEN Grown(segs, At(o), n)
                 ELSE SetCell(PMfree(SetCells(a.segs, a.at, cells), At(o)), At(h[1]), h[2], a.at)
      /\ anchor' = anchor /\ up' = up /\ lost' = lost
  BY <1>2 DEF Resize
<1>5. graph' = g
  BY DEF Resize, Longer
<1>6. HeldBy(graph, o, h)
  <2>1. Typed(graph) /\ Holders(graph, o) = {h}
    BY <1>2, <1>4
  <2> QED
    BY <2>1, HoldersAre, Zenon
<1>7. /\ L[Root] = <<1, Unit>> /\ anchor = <<1, Unit>> /\ State(segs, graph, L) /\ up = TRUE
      /\ At(h[1]) = L[h[1]] /\ At(o) = L[o]
  BY <1>1, <1>3, <1>4, <1>6 DEF RunsWith, Inv, HeldBy
<1>8. HeapOk(segs) /\ L[o] \in Busy(segs) /\ Shows(Item(segs, L[o]), graph[o], L, "open")
  BY <1>4, <1>7 DEF State, Shown
<1>9. b.usize \in Nat /\ n \in Nat /\ DOMAIN graph[o] = 0..b.usize - 1 /\ n > b.usize
  <2>1. L[o] \in Headers(segs)
    BY <1>8, BusyHeader
  <2>2. b.usize \in Nat /\ n \in Nat
    BY <1>7, <1>8, <2>1, HeaderIs, SizesAssumption
  <2>3. DOMAIN graph[o] = 0..b.usize - 1
    BY <1>7, <1>8 DEF Shows
  <2>4. Cardinality(0..b.usize - 1) = b.usize
    <3> HIDE DEF b
    <3> QED
      BY <2>2, CountBelow
  <2> HIDE DEF b
  <2> QED
    BY <1>4, <2>2, <2>3, <2>4
<1>10. Pointed(graph')
  <2>1. WithLonger(graph, o, n, g)
    BY <1>2, <1>4, <1>9, GraphLonger
  <2> HIDE DEF g, b
  <2>2. /\ Typed(g) /\ LiveIn(g) = LiveIn(graph)
        /\ g[o] = Longer(graph[o], n) /\ \A q \in LiveIn(graph) : q # o => g[q] = graph[q]
    BY <2>1 DEF WithLonger
  <2>3. \A i \in DOMAIN graph[o] : i \in DOMAIN g[o] /\ g[o][i] = graph[o][i]
    BY <1>9, <2>2 DEF Longer
  <2>4. KeepsPtrs(graph, g)
    BY <2>2, <2>3 DEF KeepsPtrs
  <2> QED
    BY <1>2, <1>5, <2>2, <2>4, PointedSame
<1>11. CASE n <= b.size
  <2>1. State(Grown(segs, L[o], n), g, L)
    <3>1. n > Item(segs, L[o]).usize /\ n <= Item(segs, L[o]).size
      BY <1>7, <1>9, <1>11
    <3> QED
      BY <1>4, <1>7, <3>1, GrowIs, Zenon
  <2> HIDE DEF g, b
  <2>2. State(segs', graph', L)
    BY <1>4, <1>5, <1>7, <1>11, <2>1
  <2> QED
    BY <1>2, <1>4, <1>7, <1>10, <2>2 DEF Inv
<1>12. CASE ~ (n <= b.size)
  <2> DEFINE M == With(L, graph, o, a.at)
             r == SetCell(PMfree(SetCells(a.segs, a.at, cells), L[o]), L[h[1]], h[2], a.at)
  <2>1. HeldOnce(graph, o, h)
    BY <1>4, <1>6 DEF HeldOnce, HeldBy
  <2>2. State(r, g, M)
    <3>1. n > Item(segs, L[o]).usize
      BY <1>7, <1>9
    <3>2. cells = [k \in 0..n - 1 |->
                    IF k \in DOMAIN graph[o] THEN Item(segs, L[o]).cells[k] ELSE Null]
      BY <1>7
    <3> HIDE DEF cells
    <3> QED
      BY <1>4, <1>7, <2>1, <3>1, <3>2, MoveIs, Zenon
  <2>3. M[Root] = <<1, Unit>>
    BY <1>2, <1>4, <1>7 DEF With, Typed
  <2> HIDE DEF M, g, b, a, cells
  <2>4. State(segs', graph', M)
    BY <1>4, <1>5, <1>7, <1>12, <2>2
  <2> QED
    BY <1>2, <1>4, <1>7, <1>10, <2>3, <2>4 DEF Inv
<1> QED
  BY <1>11, <1>12

LEMMA NewKeeps ==
  ASSUME Inv, NEW o \in Objs, NEW n \in Sizes, NEW p, NEW k, New(o, n, p, k)
  PROVE  Inv'
<1>1. up
  BY DEF New
<1>2. /\ ~ lost /\ Pointed(graph) /\ Typed(graph) /\ Led(graph) /\ Live = LiveIn(graph)
  BY <1>1, RunningIs
<1>3. PICK L : RunsWith(L)
  BY <1>1, RunningIs
<1> DEFINE a == PMalloc(segs, n)
           r == SetCells(a.segs, a.at, NewCells(o, n))
           g == [graph EXCEPT ![o] = NewCells(o, n)]
           M == With(L, graph, o, a.at)
<1>4. /\ o \notin LiveIn(graph)
      /\ p \in LiveIn(graph) /\ k \in DOMAIN graph[p] /\ graph[p][k] = Null
      /\ segs' = SetCell(r, At(p), k, a.at)
      /\ graph' = [graph EXCEPT ![o] = NewCells(o, n), ![p][k] = <<o, 0>>]
      /\ anchor' = anchor /\ up' = up /\ lost' = lost
  BY <1>2 DEF New, Empty, NewCells
<1>5. /\ L[Root] = <<1, Unit>> /\ anchor = <<1, Unit>> /\ State(segs, graph, L) /\ up = TRUE
      /\ At(p) = L[p]
  BY <1>1, <1>3, <1>4 DEF RunsWith, Inv
<1>6. k # 0
  BY <1>2, <1>4, PointerCell
<1>7. State(r, g, M)
  BY <1>4, <1>5, AddIs, Zenon
<1>8. /\ p # o /\ o # Root /\ graph' = [g EXCEPT ![p][k] = <<o, 0>>]
      /\ g[p] = graph[p] /\ g[o] = NewCells(o, n) /\ LiveIn(g) = LiveIn(graph) \cup {o}
      /\ \A q \in LiveIn(graph) : g[q] = graph[q]
  <2>1. p # o /\ o # Root
    BY <1>2, <1>4 DEF Typed
  <2>2. graph = [q \in Objs |-> graph[q]] /\ p \in Objs
    BY <1>2, <1>4 DEF Typed, LiveIn
  <2>3. Added(graph, o, n, g)
    BY <1>2, <1>4, AddedIs
  <2> QED
    BY <1>4, <2>1, <2>2, <2>3 DEF Added
<1>9. a.at = Plus(a.at, 0) /\ M[o] = a.at /\ M[p] = L[p] /\ M[Root] = L[Root]
  <2>1. n \in Nat \ {0} /\ n + Hdr + Unit <= SegSize /\ HeapOk(segs)
    BY <1>5, SizesAssumption DEF State
  <2>2. HeapOk(a.segs) /\ a.at \in Busy(a.segs)
    BY <2>1, PMallocIs DEF Allocated
  <2> HIDE DEF a
  <2>3. a.at = <<a.at[1], a.at[2]>> /\ a.at[2] \in Nat
    BY <2>2, BusyHeader, HeaderIs
  <2>4. a.at = Plus(a.at, 0)
    BY <2>3 DEF Plus
  <2> QED
    BY <1>2, <1>4, <2>4 DEF With, Typed
<1>10. Pointer(g, <<o, 0>>) /\ Seen(<<o, 0>>, M, "open") = a.at
  <2>1. n \in Nat \ {0}
    BY SizesAssumption
  <2> HIDE DEF g
  <2>2. o \in LiveIn(g) \ {Root} /\ 0 \in DOMAIN g[o] /\ <<o, 0>> \in Objs \X Nat
    BY <1>8, <2>1 DEF NewCells
  <2>3. Pointer(g, <<o, 0>>)
    BY <2>2 DEF Pointer, Leads
  <2>4. IsPtr(<<o, 0>>)
    BY <2>2, ValueIs
  <2> QED
    BY <1>9, <2>3, <2>4 DEF Seen
<1> HIDE DEF a, M, g, r
<1>11. State(segs', graph', M)
  <2>1. p \in LiveIn(g) /\ k \in DOMAIN g[p]
    BY <1>4, <1>8
  <2>2. State(SetCell(r, M[p], k, Seen(<<o, 0>>, M, "open")), [g EXCEPT ![p][k] = <<o, 0>>], M)
    BY <1>6, <1>7, <1>10, <2>1, WriteIs, Zenon
  <2> QED
    BY <1>4, <1>5, <1>8, <1>9, <1>10, <2>2
<1>12. Pointed(graph')
  <2>1. Typed(g) /\ Led(g) /\ p \in LiveIn(g) /\ k \in DOMAIN g[p]
    BY <1>4, <1>7, <1>8 DEF State
  <2>2. Written(g, p, k, <<o, 0>>, graph')
    BY <1>6, <1>8, <1>10, <2>1, WrittenIs
  <2>3. /\ LiveIn(graph') = LiveIn(g) /\ graph'[p] = [graph[p] EXCEPT ![k] = <<o, 0>>]
        /\ \A q \in LiveIn(graph) : q # p => graph'[q] = graph[q]
    BY <1>4, <1>8, <2>2 DEF Written
  <2>4. graph[p] = [i \in DOMAIN graph[p] |-> graph[p][i]]
    BY <1>2, <1>4, TypedIs, CellsAre
  <2>5. KeepsPtrs(graph, graph')
    BY <1>4, <1>8, <2>3, <2>4, ValueIs DEF KeepsPtrs
  <2>6. \A q \in LiveIn(graph) \ {Root} : PointedIn(graph', q)
    BY <1>2, <2>5, PointedMore
  <2>7. PointedIn(graph', o)
    <3>1. p \in LiveIn(graph') /\ k \in DOMAIN graph'[p] /\ graph'[p][k] = <<o, 0>>
      BY <1>4, <1>8, <2>3, <2>4
    <3> QED
      BY <3>1, Zenon DEF PointedIn
  <2>8. \A q \in LiveIn(graph') \ {Root} : PointedIn(graph', q)
    BY <1>8, <2>3, <2>6, <2>7, Zenon
  <2> QED
    BY <2>8, Zenon DEF PointedIn, Pointed
<1> QED
  BY <1>2, <1>4, <1>5, <1>9, <1>11, <1>12 DEF Inv

\* At first there is the object of the anchor, in the first block.
LEMMA InitIs ==
  ASSUME Init
  PROVE  Inv
<1> DEFINE c == NewCells(Root, RootN)
           g == [o \in Objs |-> IF o = Root THEN c ELSE None]
           r == <<Carved(NewSegment, RootN)>>
           L == [o \in {Root} |-> <<1, Unit>>]
           z == <<>>
<1>1. segs = SetCells(r, <<1, Unit>>, c) /\ graph = g
  BY DEF Init, NewCells
<1>2. RootN \in Nat \ {0} /\ RootN + Hdr + Unit <= SegSize /\ SegSize \in Nat /\ Root \in Objs
  BY SizesAssumption
<1>3. CellsOk(Root, c) /\ \A k \in DOMAIN c : k # 0 => c[k] = Null
  <2>1. /\ c = [i \in 0..RootN - 1 |-> c[i]] /\ c[0] = Root
        /\ \A i \in 0..RootN - 1 : i # 0 => c[i] = Null
    BY <1>2 DEF NewCells
  <2>2. \A i \in 1..RootN - 1 : c[i] = Null
    BY <1>2, <2>1
  <2>3. DOMAIN c = 0..RootN - 1
    BY DEF NewCells
  <2> HIDE DEF c
  <2> QED
    BY <2>1, <2>2, <2>3 DEF CellsOk
<1> HIDE DEF c
<1>4. c # None /\ c[0] = Root /\ DOMAIN c = 0..RootN - 1 /\ \A k \in DOMAIN c : ~ IsPtr(c[k])
  <2>1. DOMAIN c = 0..RootN - 1
    BY DEF c, NewCells
  <2> QED
    BY <1>2, <1>3, <2>1, CellsAre, ValueIs
<1>5. LiveIn(g) = {Root} /\ g[Root] = c
  BY <1>2, <1>4 DEF LiveIn
<1>6. Typed(g) /\ Led(g) /\ Pointed(g)
  <2>1. g = [o \in Objs |-> g[o]]
    OBVIOUS
  <2> HIDE DEF g
  <2> QED
    BY <1>3, <1>4, <1>5, <2>1 DEF Typed, Led, Pointed
<1>7. /\ HeapOk(r) /\ Busy(r) = {<<1, Unit>>} /\ Item(r, <<1, Unit>>).usize = RootN
  <2>1. Len(z) = 0 /\ HeapOk(z) /\ Busy(z) = {}
    <3>1. Len(z) = 0 /\ z = [s \in 1..0 |-> z[s]]
      OBVIOUS
    <3>2. HeapOk(z)
      BY <3>1 DEF HeapOk
    <3> QED
      BY <3>1, <3>2, BusyIs DEF Headers
  <2>2. SegmentOk(NewSegment) /\ NewSegment.end = Unit
    BY NewSegmentIs
  <2>3. Room(NewSegment, RootN)
    BY <1>2, <2>2 DEF Room, Hdr, Unit
  <2>4. Len(r) = 1 /\ r = [x \in 1..1 |-> r[x]] /\ r[1] = Carved(NewSegment, RootN)
    OBVIOUS
  <2> HIDE DEF r, z
  <2>5. SegmentGrown(z, 1, NewSegment, RootN, r)
    BY <1>2, <2>1, <2>2, <2>3, <2>4 DEF SegmentGrown
  <2>6. Allocated(z, RootN, [segs |-> r, at |-> <<1, NewSegment.end>>])
    BY <2>5, SegmentGrows, Zenon
  <2> QED
    BY <2>1, <2>2, <2>6 DEF Allocated
<1> HIDE DEF r
<1>8. /\ HeapOk(segs) /\ Busy(segs) = {<<1, Unit>>}
      /\ Item(segs, <<1, Unit>>).usize = RootN /\ Item(segs, <<1, Unit>>).cells = c
  <2>1. <<1, Unit>> \in Busy(r)
    BY <1>7
  <2>2. /\ HeapOk(SetCells(r, <<1, Unit>>, c)) /\ Busy(SetCells(r, <<1, Unit>>, c)) = Busy(r)
        /\ Item(SetCells(r, <<1, Unit>>, c), <<1, Unit>>)
             = Block(Item(r, <<1, Unit>>), Item(r, <<1, Unit>>).usize, c)
    BY <1>7, <2>1, SetCellsIs
  <2> QED
    BY <1>1, <1>7, <2>2 DEF Block
<1> HIDE DEF g
<1>9. Shown(segs, g, L, "open")
  <2>1. c = [k \in DOMAIN c |-> c[k]] /\ \A k \in DOMAIN c : c[k] = Seen(c[k], L, "open")
    BY <1>2, <1>3, <1>4, CellsAre DEF Seen
  <2>2. Shows(Item(segs, <<1, Unit>>), c, L, "open")
    BY <1>4, <1>8, <2>1 DEF Shows
  <2>3. L[Root] = <<1, Unit>>
    OBVIOUS
  <2> HIDE DEF L
  <2> QED
    BY <1>5, <1>8, <2>2, <2>3 DEF Shown
<1>10. State(segs, graph, L)
  BY <1>1, <1>6, <1>8, <1>9 DEF State
<1> QED
  BY <1>1, <1>6, <1>10 DEF Init, Inv

---------------------------------------------------------------------------
(* Saving and reopening: every cell is written *)

\* r is sg with other cells in its blocks
Rewritten(sg, r) ==
  /\ r = [s \in DOMAIN sg |-> r[s]]
  /\ \A s \in DOMAIN sg :
       /\ r[s] = [end |-> sg[s].end, items |-> r[s].items, slots |-> sg[s].slots]
       /\ r[s].items = [off \in DOMAIN sg[s].items |-> r[s].items[off]]
       /\ \A off \in DOMAIN sg[s].items :
            r[s].items[off] =
              Block(sg[s].items[off], sg[s].items[off].usize, r[s].items[off].cells)

LEMMA RewrittenIs ==
  ASSUME NEW sg, HeapOk(sg), NEW r, Rewritten(sg, r)
  PROVE  /\ HeapOk(r) /\ Busy(r) = Busy(sg)
         /\ \A p \in Busy(sg) : Item(r, p).usize = Item(sg, p).usize
<1>1. /\ DOMAIN r = DOMAIN sg /\ DOMAIN sg = 1..Len(sg) /\ Len(sg) \in Nat
      /\ r = [s \in 1..Len(sg) |-> r[s]]
  BY DEF HeapOk, Rewritten
<1>2. Len(r) = Len(sg)
  BY <1>1
<1>3. ASSUME NEW s \in DOMAIN sg
      PROVE  /\ SegmentOk(r[s]) /\ r[s].slots = sg[s].slots
             /\ DOMAIN r[s].items = DOMAIN sg[s].items
             /\ \A off \in DOMAIN sg[s].items : r[s].items[off].usize = sg[s].items[off].usize
  <2> DEFINE g == sg[s]
             h == r[s]
  <2>1. SegmentOk(g)
    BY HeapSegment
  <2>2. /\ h = [end |-> g.end, items |-> h.items, slots |-> g.slots]
        /\ h.items = [off \in DOMAIN g.items |-> h.items[off]]
        /\ \A off \in DOMAIN g.items :
             h.items[off] = Block(g.items[off], g.items[off].usize, h.items[off].cells)
    BY DEF Rewritten
  <2> HIDE DEF g, h
  <2>3. h.end = g.end /\ h.slots = g.slots /\ DOMAIN h.items = DOMAIN g.items
    BY <2>2
  <2>4. \A off \in DOMAIN g.items :
          /\ h.items[off].size = g.items[off].size /\ h.items[off].usize = g.items[off].usize
          /\ BlockOk(g.items[off]) => BlockOk(h.items[off])
    <3> SUFFICES ASSUME NEW off \in DOMAIN g.items
                 PROVE  /\ h.items[off].size = g.items[off].size
                        /\ h.items[off].usize = g.items[off].usize
                        /\ BlockOk(g.items[off]) => BlockOk(h.items[off])
      OBVIOUS
    <3>1. h.items[off] = Block(g.items[off], g.items[off].usize, h.items[off].cells)
      BY <2>2
    <3>2. /\ h.items[off].size = g.items[off].size /\ h.items[off].usize = g.items[off].usize
          /\ h.items[off] = [size |-> h.items[off].size, usize |-> h.items[off].usize,
                             cells |-> h.items[off].cells]
      BY <3>1 DEF Block
    <3> QED
      BY <3>2 DEF BlockOk
  <2>5. Tiled(h.end, h.items)
    <3> DEFINE D == DOMAIN g.items
    <3>1. Tiled(g.end, g.items)
      BY <2>1 DEF SegmentOk
    <3>2. \A off \in D :
            /\ off \in Unit..h.end - 1 /\ BlockOk(h.items[off])
            /\ off + h.items[off].size + Hdr \in D \cup {h.end}
            /\ \A q \in D \cup {h.end} : q > off => q >= off + h.items[off].size + Hdr
      BY <2>3, <2>4, <3>1 DEF Tiled
    <3>3. \A off \in D \cup {h.end} :
            off = Unit \/ \E q \in D : q + h.items[q].size + Hdr = off
      BY <2>3, <2>4, <3>1 DEF Tiled
    <3>4. h.end \in Unit..SegSize /\ h.items = [off \in D |-> h.items[off]] /\ DOMAIN h.items = D
      BY <2>2, <2>3, <3>1 DEF Tiled
    <3> HIDE DEF D
    <3> QED
      BY <3>2, <3>3, <3>4 DEF Tiled
  <2>6. Listed(h.items, h.slots)
    BY <2>1, <2>3, <2>4 DEF SegmentOk, Listed
  <2>7. SegmentOk(h)
    BY <2>2, <2>3, <2>5, <2>6 DEF SegmentOk
  <2> QED
    BY <2>3, <2>4, <2>7 DEF g, h
<1>4. HeapOk(r)
  BY <1>1, <1>2, <1>3 DEF HeapOk
<1>5. \A p : p \in Headers(r) <=> p \in Headers(sg)
  BY <1>1, <1>3 DEF Headers
<1>6. \A p \in Headers(sg) : r[p[1]].slots = sg[p[1]].slots /\ Item(r, p).usize = Item(sg, p).usize
  BY <1>3 DEF Headers, Item
<1>7. Busy(r) = Busy(sg)
  <2>1. \A p : p \in Busy(r) <=> p \in Headers(r) /\ p[2] \notin FreedIn(r[p[1]].slots)
    BY <1>4, BusyIs
  <2>2. \A p : p \in Busy(sg) <=> p \in Headers(sg) /\ p[2] \notin FreedIn(sg[p[1]].slots)
    BY BusyIs
  <2>3. \A p : p \in Busy(r) <=> p \in Busy(sg)
    BY <1>5, <1>6, <2>1, <2>2
  <2> QED
    BY <2>3
<1> QED
  BY <1>4, <1>6, <1>7, BusyHeader

\* c[s][off] are the new cells of the block at <<s, off>>
WithCells(sg, c) ==
  [s \in DOMAIN sg |->
    [sg[s] EXCEPT !.items = [off \in DOMAIN sg[s].items |->
      [sg[s].items[off] EXCEPT !.cells = c[s][off]]]]]

LEMMA WithCellsIs ==
  ASSUME NEW sg, HeapOk(sg), NEW c
  PROVE  /\ Rewritten(sg, WithCells(sg, c))
         /\ \A p \in Headers(sg) : Item(WithCells(sg, c), p).cells = c[p[1]][p[2]]
<1> DEFINE r == WithCells(sg, c)
<1>1. ASSUME NEW s \in DOMAIN sg
      PROVE  /\ r[s] = [end |-> sg[s].end, items |-> r[s].items, slots |-> sg[s].slots]
             /\ r[s].items = [off \in DOMAIN sg[s].items |-> r[s].items[off]]
             /\ \A off \in DOMAIN sg[s].items :
                  /\ r[s].items[off] =
                      Block(sg[s].items[off], sg[s].items[off].usize, r[s].items[off].cells)
                  /\ r[s].items[off].cells = c[s][off]
  <2> DEFINE g == sg[s]
             m == [off \in DOMAIN g.items |-> [g.items[off] EXCEPT !.cells = c[s][off]]]
  <2>1. SegmentOk(g) /\ Tiled(g.end, g.items)
    BY HeapSegment DEF SegmentOk
  <2>2. r[s] = [g EXCEPT !.items = m]
    BY DEF WithCells
  <2>3. ASSUME NEW off \in DOMAIN g.items
        PROVE  /\ m[off] = Block(g.items[off], g.items[off].usize, m[off].cells)
               /\ m[off].cells = c[s][off]
    <3> DEFINE b == g.items[off]
    <3>1. b = [size |-> b.size, usize |-> b.usize, cells |-> b.cells]
      BY <2>1, TiledIs DEF BlockOk
    <3>2. m[off] = [b EXCEPT !.cells = c[s][off]]
      OBVIOUS
    <3> HIDE DEF b, m
    <3>3. m[off] = [size |-> b.size, usize |-> b.usize, cells |-> c[s][off]]
      BY <3>1, <3>2
    <3>4. m[off].cells = c[s][off]
      BY <3>3
    <3>5. m[off] = Block(b, b.usize, m[off].cells)
      BY <3>3, <3>4 DEF Block
    <3> QED
      BY <3>4, <3>5 DEF b
  <2>4. m = [off \in DOMAIN g.items |-> m[off]]
    OBVIOUS
  <2>5. g = [end |-> g.end, items |-> g.items, slots |-> g.slots]
    BY <2>1 DEF SegmentOk
  <2> HIDE DEF m, g, r
  <2>6. r[s] = [end |-> g.end, items |-> m, slots |-> g.slots]
    BY <2>2, <2>5
  <2>7. r[s].items = m
    BY <2>6
  <2> QED
    BY <2>3, <2>4, <2>6, <2>7 DEF g
<1>2. r = [s \in DOMAIN sg |-> r[s]]
  BY DEF WithCells
<1> HIDE DEF r
<1>3. Rewritten(sg, r)
  BY <1>1, <1>2 DEF Rewritten
<1>4. \A p \in Headers(sg) : Item(r, p).cells = c[p[1]][p[2]]
  BY <1>1 DEF Headers, Item
<1> QED
  BY <1>3, <1>4 DEF r

\* The cells of the blocks when every pointer is a mark, and when every one is read.
Marked(sg) ==
  [s \in DOMAIN sg |-> [off \in DOMAIN sg[s].items |->
    [k \in DOMAIN sg[s].items[off].cells |->
      IF IsPtr(sg[s].items[off].cells[k]) THEN Stale ELSE sg[s].items[off].cells[k]]]]
Reread(sg) ==
  [s \in DOMAIN sg |-> [off \in DOMAIN sg[s].items |->
    [k \in DOMAIN sg[s].items[off].cells |->
      PtrRead(s, off + k, sg[s].items[off].cells[k])]]]

LEMMA EachCellIs ==
  ASSUME NEW sg
  PROVE  /\ EachCell(sg, LAMBDA s, a, v : IF IsPtr(v) THEN Stale ELSE v) = WithCells(sg, Marked(sg))
         /\ EachCell(sg, PtrRead) = WithCells(sg, Reread(sg))
<1>1. WithCells(sg, Marked(sg)) =
        [s \in DOMAIN sg |->
          [sg[s] EXCEPT !.items = [off \in DOMAIN sg[s].items |->
            [sg[s].items[off] EXCEPT !.cells =
              [k \in DOMAIN sg[s].items[off].cells |->
                IF IsPtr(sg[s].items[off].cells[k]) THEN Stale ELSE sg[s].items[off].cells[k]]]]]]
  BY DEF WithCells, Marked
<1>2. WithCells(sg, Reread(sg)) =
        [s \in DOMAIN sg |->
          [sg[s] EXCEPT !.items = [off \in DOMAIN sg[s].items |->
            [sg[s].items[off] EXCEPT !.cells =
              [k \in DOMAIN sg[s].items[off].cells |->
                PtrRead(s, off + k, sg[s].items[off].cells[k])]]]]]
  BY DEF WithCells, Reread
<1>3. EachCell(sg, LAMBDA s, a, v : IF IsPtr(v) THEN Stale ELSE v) = WithCells(sg, Marked(sg))
  BY <1>1 DEF EachCell
<1>4. EachCell(sg, PtrRead) = WithCells(sg, Reread(sg))
  BY <1>2 DEF EachCell
<1> QED
  BY <1>3, <1>4

\* Where pointers lead.
LEMMA SeenIs ==
  ASSUME NEW sg, NEW g, NEW L, NEW u, HeapOk(sg), Typed(g), Led(g), Shown(sg, g, L, u),
         NEW o \in LiveIn(g), NEW k \in DOMAIN g[o]
  PROVE  /\ IsPtr(g[o][k]) => /\ g[o][k][1] \in LiveIn(g) /\ g[o][k][2] \in Nat
                              /\ g[o][k][2] \in DOMAIN g[g[o][k][1]]
                              /\ L[g[o][k][1]] \in Places
                              /\ Seen(g[o][k], L, "open") = Plus(L[g[o][k][1]], g[o][k][2])
                              /\ IsPtr(Seen(g[o][k], L, "open"))
         /\ ~ IsPtr(g[o][k]) => \A w : Seen(g[o][k], L, w) = g[o][k]
<1> DEFINE v == g[o][k]
<1>1. ASSUME IsPtr(v)
      PROVE  /\ v[1] \in LiveIn(g) /\ v[2] \in Nat /\ v[2] \in DOMAIN g[v[1]]
             /\ L[v[1]] \in Places /\ Seen(v, L, "open") = Plus(L[v[1]], v[2])
             /\ IsPtr(Seen(v, L, "open"))
  <2>1. v[1] \in LiveIn(g) /\ v[2] \in DOMAIN g[v[1]]
    BY <1>1 DEF Led, Leads
  <2> HIDE DEF v
  <2>2. v[2] \in Nat
    BY <2>1, TypedIs, CellsAre
  <2>3. L[v[1]] \in Places
    BY <2>1, BusyHeader, HeaderIs DEF Shown
  <2>4. Seen(v, L, "open") = Plus(L[v[1]], v[2])
    BY <1>1 DEF Seen
  <2>5. Plus(L[v[1]], v[2]) \in Nat \X Nat
    BY <2>2, <2>3, PlaceIs DEF Plus
  <2> QED
    BY <2>1, <2>2, <2>3, <2>4, <2>5, ValueIs
<1>2. ASSUME ~ IsPtr(v) PROVE \A w : Seen(v, L, w) = v
  BY <1>2 DEF Seen
<1> QED
  BY <1>1, <1>2

LEMMA RecsAre ==
  ASSUME NEW L, State(segs, graph, L), anchor = L[Root], \A o \in LiveIn(graph) : At(o) = L[o]
  PROVE  Pointers = Recs(graph, L)
<1>1. Typed(graph) /\ Shown(segs, graph, L, "open")
  BY DEF State
<1>2. ASSUME NEW e \in Edges(graph)
      PROVE  /\ Addr(e[1], e[2]) = Plus(L[e[1]], e[2])
             /\ Item(segs, At(e[1])).cells[e[2]] = Seen(graph[e[1]][e[2]], L, "open")
  <2>1. e[1] \in LiveIn(graph) /\ e[2] \in DOMAIN graph[e[1]]
    BY <1>1, EdgesIs
  <2>2. At(e[1]) = L[e[1]]
    BY <2>1
  <2>3. Shows(Item(segs, L[e[1]]), graph[e[1]], L, "open")
    BY <1>1, <2>1 DEF Shown
  <2>4. Item(segs, L[e[1]]).cells[e[2]] = Seen(graph[e[1]][e[2]], L, "open")
    BY <2>1, <2>3 DEF Shows
  <2> QED
    BY <2>2, <2>4 DEF Addr, Plus
<1> QED
  BY <1>2 DEF Pointers, Recs

LEMMA SaveKeeps ==
  ASSUME Inv, Save
  PROVE  Inv'
<1>1. /\ up /\ up' = FALSE /\ lost' = lost /\ graph' = graph /\ records' = Pointers
      /\ segs' = EachCell(segs, LAMBDA s, a, v : IF IsPtr(v) THEN Stale ELSE v)
  BY DEF Save
<1>2. segs' = WithCells(segs, Marked(segs))
  BY <1>1, EachCellIs, Zenon
<1>3. /\ up /\ up' = FALSE /\ lost' = lost /\ graph' = graph /\ records' = Pointers
  BY <1>1, Zenon
<1>4. /\ ~ lost /\ Pointed(graph) /\ Typed(graph) /\ Led(graph) /\ Live = LiveIn(graph)
  BY <1>3, RunningIs, Zenon
<1>5. PICK L : RunsWith(L)
  BY <1>3, RunningIs, Zenon
<1>6. /\ L[Root] = <<1, Unit>> /\ anchor = <<1, Unit>> /\ State(segs, graph, L)
      /\ \A o \in LiveIn(graph) : At(o) = L[o]
  BY <1>5, Zenon DEF RunsWith
<1>7. HeapOk(segs) /\ Shown(segs, graph, L, "open")
  BY <1>6, Zenon DEF State
<1> DEFINE r == WithCells(segs, Marked(segs))
<1>8. /\ HeapOk(r) /\ Busy(r) = Busy(segs)
      /\ \A p \in Busy(segs) : /\ Item(r, p).usize = Item(segs, p).usize
                               /\ Item(r, p).cells = Marked(segs)[p[1]][p[2]]
  BY <1>7, WithCellsIs, RewrittenIs, BusyHeader
<1> HIDE DEF r
<1>9. ASSUME NEW p \in Busy(segs)
      PROVE  Item(r, p).cells = [k \in DOMAIN Item(segs, p).cells |->
               IF IsPtr(Item(segs, p).cells[k]) THEN Stale ELSE Item(segs, p).cells[k]]
  <2>1. p[1] \in DOMAIN segs /\ p[2] \in DOMAIN segs[p[1]].items
        /\ Item(segs, p) = segs[p[1]].items[p[2]]
    BY <1>7, BusyHeader, HeaderIs
  <2>2. Marked(segs)[p[1]][p[2]] = [k \in DOMAIN Item(segs, p).cells |->
          IF IsPtr(Item(segs, p).cells[k]) THEN Stale ELSE Item(segs, p).cells[k]]
    BY <2>1 DEF Marked
  <2> QED
    BY <1>8, <2>2
<1>10. ASSUME NEW o \in LiveIn(graph)
       PROVE  L[o] \in Busy(r) /\ Shows(Item(r, L[o]), graph[o], L, "saved")
  <2> DEFINE b == Item(segs, L[o])
             d == Item(r, L[o])
             c == graph[o]
  <2>1. L[o] \in Busy(segs) /\ Shows(b, c, L, "open")
    BY <1>7 DEF Shown
  <2>2. /\ d.usize = b.usize
        /\ d.cells = [k \in DOMAIN b.cells |-> IF IsPtr(b.cells[k]) THEN Stale ELSE b.cells[k]]
    BY <1>8, <1>9, <2>1
  <2>3. ASSUME NEW k \in DOMAIN c PROVE d.cells[k] = Seen(c[k], L, "saved")
    <3>1. b.cells[k] = Seen(c[k], L, "open") /\ k \in DOMAIN b.cells
      BY <2>1 DEF Shows
    <3>2. IsPtr(b.cells[k]) <=> IsPtr(c[k])
      BY <1>4, <1>7, <3>1, SeenIs
    <3> HIDE DEF b, d, c
    <3> QED
      BY <2>2, <3>1, <3>2 DEF Seen
  <2>4. DOMAIN c = 0..b.usize - 1 /\ DOMAIN b.cells = DOMAIN c
    BY <2>1 DEF Shows
  <2> HIDE DEF b, d, c
  <2>5. DOMAIN c = 0..d.usize - 1 /\ d.cells = [k \in DOMAIN c |-> d.cells[k]]
    BY <2>2, <2>4
  <2>6. Shows(d, c, L, "saved")
    BY <2>3, <2>5 DEF Shows
  <2> QED
    BY <1>8, <2>1, <2>6 DEF d, c
<1>11. ASSUME NEW p \in Busy(r), \A o \in LiveIn(graph) : L[o] # p
       PROVE  Forgotten(Item(r, p))
  <2>1. p \in Busy(segs) /\ Forgotten(Item(segs, p))
    BY <1>7, <1>8, <1>11 DEF Shown
  <2> QED
    BY <1>9, <2>1, ValueIs DEF Forgotten
<1>12. Shown(r, graph, L, "saved")
  BY <1>10, <1>11 DEF Shown
<1>13. Saved(segs', graph', L)
  BY <1>2, <1>3, <1>4, <1>8, <1>12 DEF Saved, r
<1>14. records' = Recs(graph', L)
  BY <1>3, <1>6, RecsAre
<1> QED
  BY <1>3, <1>4, <1>6, <1>13, <1>14 DEF Inv

\* What the state file says of the cell at k of a block.
Noted(g, L, p, k) ==
  \E o \in LiveIn(g) : L[o] = p /\ k \in DOMAIN g[o] /\ IsPtr(g[o][k])

LEMMA RecordIs ==
  ASSUME NEW L, Saved(segs, graph, L), records = Recs(graph, L),
         NEW p \in Headers(segs), NEW k \in Nat, k <= Item(segs, p).size + 1,
         NEW r \in records, r.from = <<p[1], p[2] + k>>
  PROVE  \E o \in LiveIn(graph) : /\ L[o] = p /\ k \in DOMAIN graph[o] /\ IsPtr(graph[o][k])
                                  /\ r.to = Seen(graph[o][k], L, "open")
<1>1. /\ HeapOk(segs) /\ Typed(graph) /\ Led(graph) /\ Shown(segs, graph, L, "saved")
  BY DEF Saved
<1>2. p[1] \in Nat /\ p[2] \in Nat
  BY <1>1, HeaderIs
<1>3. r.from # None
  BY <1>2, NamesAssumption
<1>4. PICK e \in Edges(graph) :
        r = [from |-> Plus(L[e[1]], e[2]), to |-> Seen(graph[e[1]][e[2]], L, "open")]
  <2> DEFINE Of(e) == [from |-> Plus(L[e[1]], e[2]), to |-> Seen(graph[e[1]][e[2]], L, "open")]
  <2>1. r = [from |-> None, to |-> L[Root]] \/ \E e \in Edges(graph) : r = Of(e)
    BY Zenon DEF Recs
  <2>2. r # [from |-> None, to |-> L[Root]]
    BY <1>3
  <2> QED
    BY <2>1, <2>2
<1>5. /\ e[1] \in LiveIn(graph) /\ e[2] \in DOMAIN graph[e[1]] /\ IsPtr(graph[e[1]][e[2]])
  BY <1>1, EdgesIs
<1> DEFINE q == L[e[1]]
           b == Item(segs, q)
<1>6. q \in Headers(segs) /\ DOMAIN graph[e[1]] = 0..b.usize - 1
  BY <1>1, <1>5, BusyHeader DEF Shown, Shows
<1>7. e[2] \in Nat /\ e[2] <= b.size + 1
  <2>1. b.usize \in Nat /\ b.size \in Nat /\ b.usize <= b.size
    BY <1>1, <1>6, HeaderIs
  <2> HIDE DEF b, q
  <2> QED
    BY <1>5, <1>6, <2>1
<1>8. q[1] = p[1] /\ q[2] + e[2] = p[2] + k
  <2> HIDE DEF q
  <2>1. r.from = <<q[1], q[2] + e[2]>>
    BY <1>4 DEF Plus, q
  <2> QED
    BY <2>1
<1>9. q = p /\ e[2] = k
  <2> HIDE DEF b, q
  <2>1. e[2] <= Item(segs, q).size + 1
    BY <1>7 DEF b
  <2> QED
    BY <1>1, <1>6, <1>7, <1>8, <2>1, Apart
<1> QED
  BY <1>4, <1>5, <1>9

LEMMA PtrReadIs ==
  ASSUME NEW L, Saved(segs, graph, L), records = Recs(graph, L),
         NEW p \in Headers(segs), NEW k \in Nat, k <= Item(segs, p).size + 1, NEW v
  PROVE  /\ \A o \in LiveIn(graph) : L[o] = p /\ k \in DOMAIN graph[o] /\ IsPtr(graph[o][k]) =>
              PtrRead(p[1], p[2] + k, v) = Seen(graph[o][k], L, "open")
         /\ ~ Noted(graph, L, p, k) => PtrRead(p[1], p[2] + k, v) = v
<1>1. /\ HeapOk(segs) /\ Typed(graph) /\ Led(graph) /\ Shown(segs, graph, L, "saved")
  BY DEF Saved
<1> DEFINE a == <<p[1], p[2] + k>>
<1>2. \A r \in records : r.from = a =>
        \E o \in LiveIn(graph) : /\ L[o] = p /\ k \in DOMAIN graph[o] /\ IsPtr(graph[o][k])
                                 /\ r.to = Seen(graph[o][k], L, "open")
  BY RecordIs
<1>3. ~ Noted(graph, L, p, k) => PtrRead(p[1], p[2] + k, v) = v
  BY <1>2 DEF PtrRead, Noted
<1>4. ASSUME NEW o \in LiveIn(graph), L[o] = p, k \in DOMAIN graph[o], IsPtr(graph[o][k])
      PROVE  PtrRead(p[1], p[2] + k, v) = Seen(graph[o][k], L, "open")
  <2> DEFINE t == Seen(graph[o][k], L, "open")
  <2>1. \A q \in LiveIn(graph) : L[q] = L[o] => q = o
    BY <1>1, PlaceOf
  <2>2. \A r \in records : r.from = a => r.to = t
    BY <1>2, <1>4, <2>1
  <2>3. <<o, k>> \in Edges(graph)
    BY <1>1, <1>4, EdgesIs
  <2>4. [from |-> Plus(L[o], k), to |-> t] \in records
    <3> DEFINE e == <<o, k>>
    <3>1. e[1] = o /\ e[2] = k /\ e \in Edges(graph)
      BY <2>3
    <3> HIDE DEF e
    <3> QED
      BY <3>1 DEF Recs
  <2>5. [from |-> Plus(L[o], k), to |-> t].from = a
    BY <1>4 DEF Plus
  <2> HIDE DEF t, a
  <2>6. \E r \in records : r.from = a
    BY <2>4, <2>5
  <2>7. (CHOOSE r \in records : r.from = a).to = t
    BY <2>2, <2>6
  <2> QED
    BY <2>6, <2>7 DEF PtrRead, a, t
<1> QED
  BY <1>3, <1>4

\* A cell of an object, when it is read.
LEMMA CellReadIs ==
  ASSUME NEW L, Saved(segs, graph, L), records = Recs(graph, L),
         NEW o \in LiveIn(graph), NEW k \in DOMAIN graph[o]
  PROVE  PtrRead(L[o][1], L[o][2] + k, Item(segs, L[o]).cells[k]) = Seen(graph[o][k], L, "open")
<1>1. /\ HeapOk(segs) /\ Typed(graph) /\ Led(graph) /\ Shown(segs, graph, L, "saved")
  BY DEF Saved
<1> DEFINE p == L[o]
           b == Item(segs, p)
<1>2. p \in Headers(segs) /\ DOMAIN graph[o] = 0..b.usize - 1
      /\ b.cells[k] = Seen(graph[o][k], L, "saved")
  BY <1>1, BusyHeader DEF Shown, Shows
<1>3. b.usize \in Nat /\ b.size \in Nat /\ b.usize <= b.size
  BY <1>1, <1>2, HeaderIs
<1>4. k \in Nat /\ k <= b.size + 1
  <2> HIDE DEF b
  <2> QED
    BY <1>2, <1>3
<1>5. CASE IsPtr(graph[o][k])
  <2> QED
    BY <1>2, <1>4, <1>5, PtrReadIs
<1>6. CASE ~ IsPtr(graph[o][k])
  <2>1. \A q \in LiveIn(graph) : L[q] = L[o] => q = o
    BY <1>1, PlaceOf
  <2>2. ~ Noted(graph, L, p, k)
    BY <1>6, <2>1 DEF Noted
  <2>3. PtrRead(p[1], p[2] + k, b.cells[k]) = b.cells[k]
    BY <1>2, <1>4, <2>2, PtrReadIs
  <2> HIDE DEF b, p
  <2> QED
    BY <1>2, <1>6, <2>3 DEF Seen, b, p
<1> QED
  BY <1>5, <1>6

LEMMA AnchorIs ==
  ASSUME NEW L, records = Recs(graph, L), Saved(segs, graph, L)
  PROVE  (CHOOSE r \in records : r.from = None).to = L[Root]
<1> DEFINE Of(e) == [from |-> Plus(L[e[1]], e[2]), to |-> Seen(graph[e[1]][e[2]], L, "open")]
           x == [from |-> None, to |-> L[Root]]
<1>1. \A r \in records : r = x \/ \E e \in Edges(graph) : r = Of(e)
  BY Zenon DEF Recs
<1>2. ASSUME NEW e \in Edges(graph) PROVE Of(e).from # None
  <2>1. Typed(graph) /\ HeapOk(segs) /\ Shown(segs, graph, L, "saved")
    BY DEF Saved
  <2>2. e[1] \in LiveIn(graph) /\ e[2] \in DOMAIN graph[e[1]]
    BY <2>1, EdgesIs
  <2>3. e[2] \in Nat
    BY <2>1, <2>2, TypedIs, CellsAre
  <2>4. L[e[1]] \in Places
    BY <2>1, <2>2, BusyHeader, HeaderIs DEF Shown
  <2>5. Plus(L[e[1]], e[2]) \in Nat \X Nat
    BY <2>3, <2>4, PlaceIs DEF Plus
  <2> QED
    BY <2>5, NamesAssumption
<1>3. x \in records /\ x.from = None /\ x.to = L[Root]
  BY DEF Recs
<1> HIDE DEF Of, x
<1>4. \A r \in records : r.from = None => r = x
  BY <1>1, <1>2
<1>5. (CHOOSE r \in records : r.from = None) = x
  BY <1>3, <1>4
<1> QED
  BY <1>3, <1>5

LEMMA OpenKeeps ==
  ASSUME Inv, Open
  PROVE  Inv'
<1>1. /\ ~ up /\ up' = TRUE /\ lost' = lost /\ graph' = graph
      /\ segs' = EachCell(segs, PtrRead) /\ anchor' = (CHOOSE r \in records : r.from = None).to
  BY DEF Open
<1>2. segs' = WithCells(segs, Reread(segs))
  BY <1>1, EachCellIs, Zenon
<1>3. PICK L : L[Root] = <<1, Unit>> /\ Saved(segs, graph, L) /\ records = Recs(graph, L)
  BY <1>1 DEF Inv
<1>4. ~ lost /\ Pointed(graph)
  BY DEF Inv
<1>5. /\ HeapOk(segs) /\ Typed(graph) /\ Led(graph) /\ Shown(segs, graph, L, "saved")
  BY <1>3 DEF Saved
<1> DEFINE r == WithCells(segs, Reread(segs))
<1>6. /\ HeapOk(r) /\ Busy(r) = Busy(segs)
      /\ \A p \in Busy(segs) : /\ Item(r, p).usize = Item(segs, p).usize
                               /\ Item(r, p).cells = Reread(segs)[p[1]][p[2]]
  BY <1>5, WithCellsIs, RewrittenIs, BusyHeader
<1> HIDE DEF r
<1>7. ASSUME NEW p \in Busy(segs)
      PROVE  Item(r, p).cells = [k \in DOMAIN Item(segs, p).cells |->
               PtrRead(p[1], p[2] + k, Item(segs, p).cells[k])]
  <2>1. p[1] \in DOMAIN segs /\ p[2] \in DOMAIN segs[p[1]].items
        /\ Item(segs, p) = segs[p[1]].items[p[2]]
    BY <1>5, BusyHeader, HeaderIs
  <2>2. Reread(segs)[p[1]][p[2]] = [k \in DOMAIN Item(segs, p).cells |->
          PtrRead(p[1], p[2] + k, Item(segs, p).cells[k])]
    BY <2>1 DEF Reread
  <2> QED
    BY <1>6, <2>2
<1>8. ASSUME NEW o \in LiveIn(graph)
      PROVE  L[o] \in Busy(r) /\ Shows(Item(r, L[o]), graph[o], L, "open")
  <2> DEFINE b == Item(segs, L[o])
             d == Item(r, L[o])
             c == graph[o]
  <2>1. L[o] \in Busy(segs) /\ Shows(b, c, L, "saved")
    BY <1>5 DEF Shown
  <2>2. /\ d.usize = b.usize
        /\ d.cells = [k \in DOMAIN b.cells |-> PtrRead(L[o][1], L[o][2] + k, b.cells[k])]
    BY <1>6, <1>7, <2>1
  <2>3. ASSUME NEW k \in DOMAIN c PROVE d.cells[k] = Seen(c[k], L, "open")
    <3>1. PtrRead(L[o][1], L[o][2] + k, b.cells[k]) = Seen(c[k], L, "open")
      BY <1>3, CellReadIs
    <3>2. k \in DOMAIN b.cells
      BY <2>1 DEF Shows
    <3> HIDE DEF b, d, c
    <3> QED
      BY <2>2, <3>1, <3>2
  <2>4. DOMAIN c = 0..b.usize - 1 /\ DOMAIN b.cells = DOMAIN c
    BY <2>1 DEF Shows
  <2> HIDE DEF b, d, c
  <2>5. DOMAIN c = 0..d.usize - 1 /\ d.cells = [k \in DOMAIN c |-> d.cells[k]]
    BY <2>2, <2>4
  <2>6. Shows(d, c, L, "open")
    BY <2>3, <2>5 DEF Shows
  <2> QED
    BY <1>6, <2>1, <2>6 DEF d, c
<1>9. ASSUME NEW p \in Busy(r), \A o \in LiveIn(graph) : L[o] # p
      PROVE  Forgotten(Item(r, p))
  <2>1. p \in Busy(segs) /\ Forgotten(Item(segs, p))
    BY <1>5, <1>6, <1>9 DEF Shown
  <2>2. ~ Noted(graph, L, p, 0)
    BY <1>9 DEF Noted
  <2>3. p \in Headers(segs) /\ 0 <= Item(segs, p).size + 1
    BY <1>5, <2>1, BusyHeader, HeaderIs
  <2>4. PtrRead(p[1], p[2] + 0, None) = None
    BY <1>3, <2>2, <2>3, PtrReadIs
  <2>5. 0 \in DOMAIN Item(r, p).cells
        /\ Item(r, p).cells[0] = PtrRead(p[1], p[2] + 0, Item(segs, p).cells[0])
    BY <1>7, <2>1 DEF Forgotten
  <2> QED
    BY <2>1, <2>4, <2>5 DEF Forgotten
<1>10. Shown(r, graph, L, "open")
  BY <1>8, <1>9 DEF Shown
<1>11. State(segs', graph', L)
  BY <1>1, <1>2, <1>5, <1>6, <1>10 DEF State, r
<1>12. anchor' = L[Root]
  BY <1>1, <1>3, AnchorIs
<1> QED
  BY <1>1, <1>3, <1>4, <1>11, <1>12 DEF Inv

---------------------------------------------------------------------------
(* Compaction: blocks laid out one after the other, in segments *)

\* Block i is from x[i] to y[i] of segment a[i]: after the one before, or in the
\* next segment.
Rows(N, a, x, y) ==
  /\ N \in Nat \ {0} /\ a[0] = 1 /\ a[1] = 1 /\ x[1] = Unit
  /\ \A i \in 0..N : a[i] \in Nat \ {0} /\ y[i] \in Unit..SegSize
  /\ \A i \in 1..N :
       /\ x[i] \in Nat /\ Unit <= x[i] /\ x[i] < y[i]
       /\ \/ a[i] = a[i - 1] /\ x[i] = y[i - 1]
          \/ a[i] = a[i - 1] + 1 /\ x[i] = Unit

LEMMA RowsRise ==
  ASSUME NEW N, NEW a, NEW x, NEW y, Rows(N, a, x, y)
  PROVE  \A i, j \in 1..N : i < j => a[i] <= a[j] /\ (a[i] = a[j] => y[i] <= x[j])
<1> SUFFICES ASSUME NEW i \in 1..N, NEW j0 \in 1..N, i < j0,
                    ~ (a[i] <= a[j0] /\ (a[i] = a[j0] => y[i] <= x[j0]))
             PROVE  FALSE
  OBVIOUS
<1> DEFINE B == {j \in 1..N : i < j /\ ~ (a[i] <= a[j] /\ (a[i] = a[j] => y[i] <= x[j]))}
<1>1. PICK j \in B : \A m \in B : j <= m
  <2>1. B \in SUBSET Nat /\ j0 \in B
    BY DEF Rows
  <2> HIDE DEF B
  <2> QED
    BY <2>1, MinIs
<1>2. /\ N \in Nat /\ j \in 1..N /\ i < j /\ j - 1 \in 1..N /\ j - 1 < j /\ i <= j - 1
      /\ ~ (a[i] <= a[j] /\ (a[i] = a[j] => y[i] <= x[j]))
  BY DEF Rows
<1>3. i < j - 1 => a[i] <= a[j - 1] /\ (a[i] = a[j - 1] => y[i] <= x[j - 1])
  <2>1. j - 1 \notin B
    BY <1>1, <1>2
  <2> QED
    BY <1>2, <2>1
<1> HIDE DEF B
<1>4. /\ a[i] \in Nat /\ a[j] \in Nat /\ a[j - 1] \in Nat
      /\ y[i] \in Nat /\ y[j - 1] \in Nat /\ x[j] \in Nat /\ x[j - 1] \in Nat
      /\ x[j - 1] < y[j - 1]
      /\ \/ a[j] = a[j - 1] /\ x[j] = y[j - 1]
         \/ a[j] = a[j - 1] + 1 /\ x[j] = Unit
  BY <1>2 DEF Rows, Unit
<1>5. a[i] <= a[j - 1] /\ (a[i] = a[j - 1] => y[i] <= y[j - 1])
  <2>1. CASE i = j - 1
    BY <1>4, <2>1
  <2>2. CASE i < j - 1
    BY <1>3, <1>4, <2>2
  <2> QED
    BY <1>2, <2>1, <2>2
<1> QED
  BY <1>2, <1>4, <1>5

LEMMA RowsReach ==
  ASSUME NEW N, NEW a, NEW x, NEW y, Rows(N, a, x, y)
  PROVE  /\ \A i \in 1..N : a[i] \in 1..a[N]
         /\ \A s \in 1..a[N] : \E i \in 1..N : a[i] = s
<1>1. N \in Nat \ {0} /\ N \in 1..N /\ a[1] = 1 /\ \A i \in 0..N : a[i] \in Nat \ {0}
  BY DEF Rows
<1>2. ASSUME NEW i \in 1..N PROVE a[i] \in 1..a[N]
  <2>1. a[i] <= a[N]
    BY <1>1, RowsRise
  <2> QED
    BY <1>1, <2>1
<1>3. ASSUME NEW s \in 1..a[N] PROVE \E i \in 1..N : a[i] = s
  <2> DEFINE B == {i \in 1..N : a[i] >= s}
  <2>1. PICK i \in B : \A m \in B : i <= m
    <3>1. a[N] >= s
      BY <1>1
    <3>2. B \in SUBSET Nat /\ N \in B
      BY <1>1, <3>1
    <3> HIDE DEF B
    <3> QED
      BY <3>2, MinIs
  <2>2. CASE i = 1
    BY <1>1, <2>1, <2>2
  <2>3. CASE i # 1
    <3>1. i \in 1..N /\ a[i] >= s /\ i - 1 \in 1..N /\ i - 1 < i /\ i - 1 \in 0..N
      BY <1>1, <2>3
    <3>2. a[i - 1] < s
      <4>1. i - 1 \notin B
        BY <1>1, <2>1, <3>1
      <4> QED
        BY <1>1, <3>1, <4>1
    <3>3. a[i] = a[i - 1] \/ a[i] = a[i - 1] + 1
      BY <3>1 DEF Rows
    <3> HIDE DEF B
    <3> QED
      BY <1>1, <3>1, <3>2, <3>3
  <2> QED
    BY <2>2, <2>3
<1> QED
  BY <1>2, <1>3

\* The blocks of a segment are laid out without a gap.
LEMMA RowTiled ==
  ASSUME NEW N, NEW a, NEW x, NEW y, Rows(N, a, x, y), NEW s \in 1..a[N],
         NEW end, end = Max({y[i] : i \in {m \in 1..N : a[m] = s}}),
         NEW items, items = [off \in {x[i] : i \in {m \in 1..N : a[m] = s}} |-> items[off]],
         \A i \in 1..N : a[i] = s =>
           BlockOk(items[x[i]]) /\ items[x[i]].size = y[i] - x[i] - Hdr
  PROVE  Tiled(end, items)
<1> DEFINE here == {m \in 1..N : a[m] = s}
           Y == {y[i] : i \in here}
           D == {x[i] : i \in here}
<1>1. /\ N \in Nat \ {0} /\ SegSize \in Nat
      /\ \A i \in 1..N : /\ x[i] \in Nat /\ Unit <= x[i] /\ x[i] < y[i] /\ y[i] \in Nat
                         /\ y[i] <= SegSize /\ a[i] \in Nat
  BY SizesAssumption DEF Rows, Unit
<1>2. PICK b \in here : end = y[b] /\ \A i \in here : y[i] <= end
  <2>1. Y \in SUBSET Nat /\ Y # {} /\ \A n \in Y : n <= SegSize
    BY <1>1, RowsReach
  <2>2. end = Max(Y)
    OBVIOUS
  <2> HIDE DEF Y
  <2>3. end \in Y /\ \A n \in Y : n <= end
    BY <1>1, <2>1, <2>2, MaxIs
  <2> QED
    BY <2>3 DEF Y
<1>3. \A i, j \in here : i < j => y[i] <= x[j]
  BY RowsRise
<1>4. \A i \in here :
        \/ i - 1 \in here /\ x[i] = y[i - 1]
        \/ x[i] = Unit
  <2> SUFFICES ASSUME NEW i \in here, x[i] # Unit PROVE i - 1 \in here /\ x[i] = y[i - 1]
    OBVIOUS
  <2>1. a[i] = a[i - 1] /\ x[i] = y[i - 1] /\ i # 1
    BY DEF Rows
  <2> QED
    BY <1>1, <2>1
<1>5. ASSUME NEW i \in here PROVE y[i] = end \/ \E j \in here : x[j] = y[i]
  <2>1. CASE i + 1 \in here
    <3>1. \/ a[i + 1] = a[i] /\ x[i + 1] = y[i]
          \/ a[i + 1] = a[i] + 1
      <4>1. (i + 1) - 1 = i /\ i + 1 \in 1..N
        BY <1>1, <2>1
      <4> QED
        BY <4>1 DEF Rows
    <3>2. a[i + 1] = s /\ a[i] = s /\ a[i] \in Nat
      BY <1>1, <2>1
    <3> QED
      BY <2>1, <3>1, <3>2
  <2>2. CASE i + 1 \notin here
    <3>1. \A j \in here : j <= i
      <4> SUFFICES ASSUME NEW j \in here, i < j PROVE FALSE
        BY <1>1
      <4>1. i + 1 \in 1..N /\ i + 1 # j /\ i + 1 < j /\ i < i + 1
        BY <1>1, <2>2
      <4>2. a[i] <= a[i + 1] /\ a[i + 1] <= a[j]
        BY <4>1, RowsRise
      <4>3. a[i + 1] = s
        <5>1. a[i] = s /\ a[j] = s /\ a[i + 1] \in Nat /\ a[i] \in Nat
          BY <1>1, <4>1
        <5> QED
          BY <4>2, <5>1
      <4> QED
        BY <2>2, <4>1, <4>3
    <3>2. b = i \/ y[b] <= x[i]
      BY <1>1, <1>3, <3>1
    <3> QED
      BY <1>1, <1>2, <3>2
  <2> QED
    BY <2>1, <2>2
<1>6. DOMAIN items = D
  OBVIOUS
<1>7. \A i \in here : BlockOk(items[x[i]]) /\ x[i] + items[x[i]].size + Hdr = y[i]
  BY <1>1 DEF Hdr
<1>8. ASSUME NEW i \in here
      PROVE  /\ x[i] \in Unit..end - 1
             /\ \A q \in D \cup {end} : q > x[i] => q >= y[i]
             /\ y[i] \in D \cup {end}
  <2>1. x[i] \in Unit..end - 1
    BY <1>1, <1>2 DEF Unit
  <2>2. y[i] \in D \cup {end}
    BY <1>5
  <2>3. ASSUME NEW j \in here, x[j] > x[i] PROVE x[j] >= y[i]
    <3>1. ~ (j < i) /\ j # i
      BY <1>1, <1>3, <2>3
    <3> QED
      BY <1>1, <1>3, <3>1
  <2> QED
    BY <1>2, <2>1, <2>2, <2>3
<1>9. \A off \in D : off = Unit \/ \E q \in D : q + items[q].size + Hdr = off
  BY <1>4, <1>7
<1>10. \E q \in D : q + items[q].size + Hdr = end
  BY <1>2, <1>7
<1>11. end \in Unit..SegSize
  BY <1>1, <1>2 DEF Unit
<1>12. items = [off \in D |-> items[off]]
  OBVIOUS
<1> HIDE DEF here
<1>13. \A off \in D :
         /\ off \in Unit..end - 1 /\ BlockOk(items[off])
         /\ off + items[off].size + Hdr \in D \cup {end}
         /\ \A q \in D \cup {end} : q > off => q >= off + items[off].size + Hdr
  <2> SUFFICES ASSUME NEW i \in here
               PROVE  /\ x[i] \in Unit..end - 1 /\ BlockOk(items[x[i]])
                      /\ x[i] + items[x[i]].size + Hdr \in D \cup {end}
                      /\ \A q \in D \cup {end} :
                           q > x[i] => q >= x[i] + items[x[i]].size + Hdr
    OBVIOUS
  <2>1. BlockOk(items[x[i]]) /\ x[i] + items[x[i]].size + Hdr = y[i]
    BY <1>7
  <2> HIDE DEF D
  <2> QED
    BY <1>8, <2>1
<1>14. DOMAIN items = D
  BY <1>6
<1> HIDE DEF D
<1>15. \A off \in D \cup {end} : off = Unit \/ \E q \in D : q + items[q].size + Hdr = off
  BY <1>9, <1>10, Zenon
<1> QED
  BY <1>11, <1>12, <1>13, <1>14, <1>15, Zenon DEF Tiled

\* The state file of a graph with the objects at L.
Filed(L) ==
  /\ Saved(segs, graph, L) /\ records = Recs(graph, L) /\ Pointed(graph)
  /\ L[Root] = <<1, Unit>>

\* An object and its block.
LEMMA ObjectIs ==
  ASSUME NEW L, Filed(L), NEW o \in LiveIn(graph)
  PROVE  /\ L[o] \in Headers(segs) /\ L[o] \in Places /\ L[o] = Plus(L[o], 0)
         /\ L[o][1] \in Nat \ {0} /\ L[o][2] \in Nat \ {0}
         /\ 0 \in DOMAIN graph[o] /\ DOMAIN graph[o] = 0..Item(segs, L[o]).usize - 1
         /\ Item(segs, L[o]).usize \in Nat \ {0} /\ Item(segs, L[o]).size \in Nat
         /\ Item(segs, L[o]).usize <= Item(segs, L[o]).size
         /\ Item(segs, L[o]).usize + Hdr + Unit <= SegSize
         /\ Item(segs, L[o]).cells = [k \in DOMAIN graph[o] |-> Item(segs, L[o]).cells[k]]
<1>1. /\ HeapOk(segs) /\ Typed(graph) /\ Shown(segs, graph, L, "saved")
  BY DEF Filed, Saved
<1> DEFINE p == L[o]
           b == Item(segs, p)
<1>2. p \in Busy(segs) /\ Shows(b, graph[o], L, "saved")
  BY <1>1 DEF Shown
<1>3. p \in Headers(segs)
  BY <1>1, <1>2, BusyHeader
<1>4. /\ p = <<p[1], p[2]>> /\ p \in Places /\ p[1] \in Nat \ {0} /\ p[2] \in Nat \ {0}
      /\ b.usize \in Nat /\ b.size \in Nat /\ b.usize <= b.size
  <2>1. /\ p = <<p[1], p[2]>> /\ p \in Places /\ p[1] \in 1..Len(segs) /\ p[2] \in Nat
        /\ SegmentOk(segs[p[1]]) /\ p[2] \in DOMAIN segs[p[1]].items
        /\ b.usize \in Nat /\ b.size \in Nat /\ b.usize <= b.size
    BY <1>1, <1>3, HeaderIs
  <2>2. p[2] >= Unit
    <3>1. Tiled(segs[p[1]].end, segs[p[1]].items)
      BY <2>1 DEF SegmentOk
    <3>2. p[2] \in Unit..segs[p[1]].end - 1
      BY <2>1, <3>1 DEF Tiled
    <3> HIDE DEF p
    <3> QED
      BY <2>1, <3>2 DEF Unit
  <2>3. Len(segs) \in Nat
    BY <1>1 DEF HeapOk
  <2> HIDE DEF b, p
  <2> QED
    BY <2>1, <2>2, <2>3 DEF Unit
<1>5. p = Plus(p, 0)
  <2> HIDE DEF p
  <2> QED
    BY <1>4 DEF Plus
<1>6. 0 \in DOMAIN graph[o] /\ DOMAIN graph[o] = 0..b.usize - 1
      /\ b.cells = [k \in DOMAIN graph[o] |-> b.cells[k]]
  BY <1>1, <1>2, TypedIs, CellsAre DEF Shows
<1>7. b.usize \in Nat \ {0} /\ b.usize + Hdr + Unit <= SegSize
  <2>1. PICK n \in Sizes \cup {RootN} : graph[o] = [k \in 0..n - 1 |-> graph[o][k]]
    BY <1>1, TypedIs DEF CellsOk
  <2>2. n \in Nat \ {0} /\ n + Hdr + Unit <= SegSize
    BY SizesAssumption
  <2>3. 0..n - 1 = 0..b.usize - 1
    BY <1>6, <2>1
  <2> HIDE DEF b
  <2>4. n - 1 \in 0..b.usize - 1 /\ (b.usize # 0 => b.usize - 1 \in 0..n - 1)
    BY <1>4, <2>2, <2>3
  <2>5. b.usize = n
    BY <1>4, <2>2, <2>4
  <2> QED
    BY <2>2, <2>5
<1> QED
  BY <1>3, <1>4, <1>5, <1>6, <1>7

LEMMA TargetsAre ==
  ASSUME NEW L, Filed(L)
  PROVE  /\ \A t \in Targets : \E o \in LiveIn(graph) : \E j \in DOMAIN graph[o] : t = Plus(L[o], j)
         /\ \A o \in LiveIn(graph) : L[o] \in Targets
         /\ \A r \in records : r.from # None =>
              \E o \in LiveIn(graph) : \E j \in DOMAIN graph[o] : r.from = Plus(L[o], j)
<1> DEFINE Of(e) == [from |-> Plus(L[e[1]], e[2]), to |-> Seen(graph[e[1]][e[2]], L, "open")]
           x == [from |-> None, to |-> L[Root]]
<1>1. /\ HeapOk(segs) /\ Typed(graph) /\ Led(graph) /\ Shown(segs, graph, L, "saved")
      /\ Root \in LiveIn(graph) /\ records = Recs(graph, L)
  BY DEF Filed, Saved, Typed
<1>2. \A r \in records : r = x \/ \E e \in Edges(graph) : r = Of(e)
  BY <1>1, Zenon DEF Recs
<1>3. x \in records /\ \A e \in Edges(graph) : Of(e) \in records
  BY <1>1, Zenon DEF Recs
<1>4. x.to = L[Root] /\ x.from = None
      /\ \A e : Of(e).to = Seen(graph[e[1]][e[2]], L, "open") /\ Of(e).from = Plus(L[e[1]], e[2])
  OBVIOUS
<1> HIDE DEF Of, x
<1>5. ASSUME NEW t \in Targets
      PROVE  \E o \in LiveIn(graph) : \E j \in DOMAIN graph[o] : t = Plus(L[o], j)
  <2>1. PICK r \in records : t = r.to
    BY DEF Targets
  <2>2. CASE r = x
    <3>1. t = Plus(L[Root], 0) /\ 0 \in DOMAIN graph[Root]
      BY <1>1, <1>4, <2>1, <2>2, ObjectIs
    <3> QED
      BY <1>1, <3>1
  <2>3. ASSUME NEW e \in Edges(graph), r = Of(e)
        PROVE  \E o \in LiveIn(graph) : \E j \in DOMAIN graph[o] : t = Plus(L[o], j)
    <3> DEFINE v == graph[e[1]][e[2]]
    <3>1. e[1] \in LiveIn(graph) /\ e[2] \in DOMAIN graph[e[1]] /\ IsPtr(v)
      BY <1>1, EdgesIs
    <3>2. /\ v[1] \in LiveIn(graph) /\ v[2] \in DOMAIN graph[v[1]]
          /\ Seen(v, L, "open") = Plus(L[v[1]], v[2])
      BY <1>1, <3>1, SeenIs
    <3>3. t = Seen(v, L, "open")
      BY <1>4, <2>1, <2>3
    <3> QED
      BY <3>2, <3>3
  <2> QED
    BY <1>2, <2>2, <2>3
<1>6. ASSUME NEW o \in LiveIn(graph) PROVE L[o] \in Targets
  <2>1. CASE o = Root
    BY <1>3, <1>4, <2>1 DEF Targets
  <2>2. CASE o # Root
    <3>1. PICK h \in LiveIn(graph) : \E k \in DOMAIN graph[h] : graph[h][k] = <<o, 0>>
      BY <2>2 DEF Filed, Pointed
    <3>2. PICK k \in DOMAIN graph[h] : graph[h][k] = <<o, 0>>
      BY <3>1
    <3>3. IsPtr(<<o, 0>>)
      <4>1. o \in Objs
        BY DEF LiveIn
      <4> QED
        BY <4>1, ValueIs
    <3>4. <<h, k>> \in Edges(graph)
      BY <1>1, <3>2, <3>3, EdgesIs
    <3> DEFINE e == <<h, k>>
    <3>5. Of(e) \in records /\ Of(e).to = Seen(<<o, 0>>, L, "open")
      BY <1>3, <1>4, <3>2, <3>4
    <3>6. Seen(<<o, 0>>, L, "open") = L[o]
      BY <3>3, ObjectIs DEF Seen
    <3> QED
      BY <3>5, <3>6 DEF Targets
  <2> QED
    BY <2>1, <2>2
<1>7. ASSUME NEW r \in records, r.from # None
      PROVE  \E o \in LiveIn(graph) : \E j \in DOMAIN graph[o] : r.from = Plus(L[o], j)
  <2>1. PICK e \in Edges(graph) : r = Of(e)
    BY <1>2, <1>4, <1>7
  <2>2. e[1] \in LiveIn(graph) /\ e[2] \in DOMAIN graph[e[1]]
    BY <1>1, EdgesIs
  <2> QED
    BY <1>4, <2>1, <2>2
<1> QED
  BY <1>5, <1>6, <1>7

\* An address in an object, and no other object has it.
LEMMA InOneObject ==
  ASSUME NEW L, Filed(L), NEW o \in LiveIn(graph), NEW j \in DOMAIN graph[o],
         NEW p \in Headers(segs), NEW i \in Nat, i <= Item(segs, p).size + 1,
         Plus(L[o], j) = Plus(p, i)
  PROVE  L[o] = p /\ j = i
<1> DEFINE q == L[o]
           b == Item(segs, q)
<1>1. /\ q \in Headers(segs) /\ DOMAIN graph[o] = 0..b.usize - 1
      /\ b.usize \in Nat /\ b.size \in Nat /\ b.usize <= b.size
  BY ObjectIs
<1>2. j \in Nat /\ j <= b.size + 1
  <2> HIDE DEF b
  <2> QED
    BY <1>1
<1>3. q[1] = p[1] /\ q[2] + j = p[2] + i
  <2> HIDE DEF q
  <2>1. <<q[1], q[2] + j>> = <<p[1], p[2] + i>>
    BY DEF Plus, q
  <2> QED
    BY <2>1
<1>4. HeapOk(segs)
  BY DEF Filed, Saved
<1> HIDE DEF q, b
<1>5. j <= Item(segs, q).size + 1
  BY <1>2 DEF b
<1> QED
  BY <1>1, <1>2, <1>3, <1>4, <1>5, Apart DEF q

LEMMA SameCount ==
  ASSUME NEW S, IsFiniteSet(S), NEW T, NEW f \in [S -> T],
         \A p, q \in S : f[p] = f[q] => p = q, \A t \in T : \E p \in S : f[p] = t
  PROVE  IsFiniteSet(T) /\ Cardinality(T) = Cardinality(S)
<1>1. f \in Injection(S, T) /\ f \in Surjection(S, T)
  BY DEF Injection, Surjection, IsInjective
<1>2. ExistsBijection(S, T)
  BY <1>1 DEF ExistsBijection, Bijection
<1> QED
  BY <1>2, FS_Bijection

\* The blocks that are moved: those of the objects.
Heads == {t \in Targets : t[2] \in DOMAIN segs[t[1]].items}

LEMMA HeadsAre ==
  ASSUME NEW L, Filed(L)
  PROVE  /\ \A t \in Heads : \E o \in LiveIn(graph) : t = L[o]
         /\ \A o \in LiveIn(graph) : L[o] \in Heads
         /\ \A o, q \in LiveIn(graph) : L[o] = L[q] => o = q
         /\ Heads \in SUBSET Places /\ IsFiniteSet(Heads)
         /\ Cardinality(Heads) = Cardinality(LiveIn(graph))
<1>1. /\ HeapOk(segs) /\ Typed(graph) /\ Shown(segs, graph, L, "saved")
  BY DEF Filed, Saved
<1>2. ASSUME NEW t \in Heads PROVE \E o \in LiveIn(graph) : t = L[o]
  <2>1. t \in Targets /\ t[2] \in DOMAIN segs[t[1]].items
    BY DEF Heads
  <2>2. PICK o \in LiveIn(graph) : \E j \in DOMAIN graph[o] : t = Plus(L[o], j)
    BY <2>1, TargetsAre
  <2>3. PICK j \in DOMAIN graph[o] : t = Plus(L[o], j)
    BY <2>2
  <2>4. L[o] \in Headers(segs) /\ L[o] \in Places /\ L[o][2] \in Nat /\ j \in Nat
    <3>1. DOMAIN graph[o] \subseteq Nat
      BY <1>1, TypedIs, CellsAre
    <3> QED
      BY <3>1, ObjectIs
  <2>5. t = <<L[o][1], L[o][2] + j>> /\ t[1] = L[o][1] /\ L[o][1] \in Nat /\ L[o][1] \in DOMAIN segs
    BY <2>3, <2>4 DEF Plus, Headers, Places
  <2>6. t \in Headers(segs)
    BY <2>1, <2>4, <2>5 DEF Headers, Places
  <2>7. Item(segs, t).size \in Nat /\ t = <<t[1], t[2]>> /\ t[2] \in Nat
    BY <1>1, <2>6, HeaderIs
  <2>8. t = Plus(t, 0) /\ 0 <= Item(segs, t).size + 1
    BY <2>7 DEF Plus
  <2>9. L[o] = t
    BY <2>3, <2>6, <2>8, InOneObject
  <2> QED
    BY <2>9
<1>3. ASSUME NEW o \in LiveIn(graph) PROVE L[o] \in Heads /\ L[o] \in Places
  <2>1. L[o] \in Targets
    BY TargetsAre
  <2>2. L[o] \in Headers(segs) /\ L[o] \in Places
    BY ObjectIs
  <2> QED
    BY <2>1, <2>2 DEF Heads, Headers
<1>4. \A o, q \in LiveIn(graph) : L[o] = L[q] => o = q
  BY <1>1, PlaceOf
<1>5. IsFiniteSet(LiveIn(graph))
  <2>1. LiveIn(graph) \subseteq Objs
    BY DEF LiveIn
  <2> QED
    BY <2>1, SizesAssumption, FS_Subset
<1>6. IsFiniteSet(Heads) /\ Cardinality(Heads) = Cardinality(LiveIn(graph))
  <2> DEFINE f == [o \in LiveIn(graph) |-> L[o]]
  <2>1. f \in [LiveIn(graph) -> Heads]
    BY <1>3
  <2>2. \A o, q \in LiveIn(graph) : f[o] = f[q] => o = q
    BY <1>4
  <2>3. \A t \in Heads : \E o \in LiveIn(graph) : f[o] = t
    BY <1>2
  <2> HIDE DEF f
  <2> QED
    BY <1>5, <2>1, <2>2, <2>3, SameCount, Zenon
<1> QED
  BY <1>2, <1>3, <1>4, <1>6

\* The objects in the order of their blocks.
LEMMA BlocksAre ==
  ASSUME NEW L, Filed(L)
  PROVE  /\ Len(Blocks) = Cardinality(LiveIn(graph)) /\ Len(Blocks) \in Nat \ {0}
         /\ DOMAIN Blocks = 1..Len(Blocks) /\ Blocks[1] = <<1, Unit>>
         /\ \A i \in 1..Len(Blocks) : \E o \in LiveIn(graph) : Blocks[i] = L[o]
         /\ \A o \in LiveIn(graph) : \E i \in 1..Len(Blocks) : Blocks[i] = L[o]
         /\ \A i, j \in 1..Len(Blocks) : Blocks[i] = Blocks[j] => i = j
<1> DEFINE n == Cardinality(Heads)
           q == Ordered(Heads)
<1>1. Blocks = q
  BY DEF Blocks, Heads
<1>2. /\ \A t \in Heads : \E o \in LiveIn(graph) : t = L[o]
      /\ \A o \in LiveIn(graph) : L[o] \in Heads
      /\ Heads \in SUBSET Places /\ IsFiniteSet(Heads) /\ n = Cardinality(LiveIn(graph))
  BY HeadsAre
<1>3. /\ n \in Nat /\ q = [i \in 1..n |-> q[i]] /\ Len(q) = n
      /\ \A i \in 1..n : q[i] \in Heads
      /\ \A i, j \in 1..n : i < j => Lower(q[i], q[j])
      /\ \A p \in Heads : \E i \in 1..n : q[i] = p
  BY <1>2, OrderedIs
<1> HIDE DEF q, n
<1>4. Root \in LiveIn(graph) /\ L[Root] = <<1, Unit>>
  BY DEF Filed, Saved, Typed
<1>5. n # 0
  <2>1. \E i \in 1..n : q[i] = L[Root]
    BY <1>2, <1>3, <1>4
  <2> QED
    BY <1>3, <2>1
<1>6. \A i, j \in 1..n : q[i] = q[j] => i = j
  <2> SUFFICES ASSUME NEW i \in 1..n, NEW j \in 1..n, q[i] = q[j], i # j PROVE FALSE
    OBVIOUS
  <2>1. q[i] \in Places
    BY <1>2, <1>3
  <2>2. ~ Lower(q[i], q[i])
    BY <2>1, LowerIs
  <2>3. i < j \/ j < i
    BY <1>3
  <2> QED
    BY <1>3, <2>2, <2>3
<1>7. q[1] = <<1, Unit>>
  <2>1. PICK i \in 1..n : q[i] = <<1, Unit>>
    BY <1>2, <1>3, <1>4
  <2>2. 1 \in 1..n /\ i \in Nat /\ i >= 1
    BY <1>3, <1>5
  <2>3. CASE i = 1
    BY <2>1, <2>3
  <2>4. CASE i # 1
    <3>1. Lower(q[1], <<1, Unit>>)
      BY <1>3, <2>1, <2>2, <2>4
    <3>2. PICK o \in LiveIn(graph) : q[1] = L[o]
      BY <1>2, <1>3, <2>2
    <3>3. q[1][1] \in Nat \ {0} /\ q[1][2] \in Nat \ {0}
      <4>1. L[o][1] \in Nat \ {0} /\ L[o][2] \in Nat \ {0}
        BY ObjectIs
      <4> QED
        BY <3>2, <4>1
    <3> QED
      BY <3>1, <3>3 DEF Lower, Unit
  <2> QED
    BY <2>3, <2>4
<1> QED
  BY <1>1, <1>2, <1>3, <1>5, <1>6, <1>7

Taken(i) == FullSize(Blocks[i])

LEMMA TakenIs ==
  ASSUME NEW L, Filed(L), NEW i \in 1..Len(Blocks)
  PROVE  /\ Taken(i) \in Nat /\ Taken(i) > Hdr /\ Taken(i) + Unit <= SegSize
         /\ Taken(i) = Item(segs, Blocks[i]).usize + Hdr
         /\ Item(segs, Blocks[i]).usize \in Nat \ {0}
<1>1. PICK o \in LiveIn(graph) : Blocks[i] = L[o]
  BY BlocksAre
<1>2. Item(segs, L[o]).usize \in Nat \ {0} /\ Item(segs, L[o]).usize + Hdr + Unit <= SegSize
  BY ObjectIs
<1> QED
  BY <1>1, <1>2 DEF Taken, FullSize, Hdr, Unit

\* The end after the blocks so far, one block at a time.
After(e, n) == IF SegSize - e[2] >= n THEN <<e[1], e[2] + n>> ELSE <<e[1] + 1, Unit + n>>

LEMMA EndIs ==
  ASSUME NEW L, Filed(L)
  PROVE  /\ End[0] = <<1, Unit>>
         /\ \A i \in 1..Len(Blocks) : End[i] = After(End[i - 1], Taken(i))
<1> DEFINE N == Len(Blocks)
           Step(F, i) == IF i = 0 THEN <<1, Unit>>
                         ELSE LET e == F[i - 1]
                                  n == FullSize(Blocks[i])
                              IN IF SegSize - e[2] >= n THEN <<e[1], e[2] + n>>
                                 ELSE <<e[1] + 1, Unit + n>>
           D == Nat \X Nat
           T == [i \in 1..N |-> [e \in D |-> After(e, Taken(i))]]
           a == <<1, Unit>>
<1>1. End = CHOOSE F : F = [i \in 0..N |-> Step(F, i)]
  BY DEF End
<1>2. N \in Nat
  BY BlocksAre
<1>3. a \in D /\ T \in [1..N -> [D -> D]]
  <2>1. a \in D
    BY DEF Unit
  <2>2. ASSUME NEW i \in 1..N, NEW e \in D PROVE After(e, Taken(i)) \in D
    <3>1. Taken(i) \in Nat /\ e[1] \in Nat /\ e[2] \in Nat
      BY TakenIs
    <3> QED
      BY <3>1 DEF After, Unit
  <2> HIDE DEF N, D
  <2> QED
    BY <2>1, <2>2
<1>4. PICK F \in [0..N -> D] : Iterates(F, N, a, T)
  <2> HIDE DEF N, D, T, a
  <2> QED
    BY <1>2, <1>3, RecursionIs, Zenon
<1>5. F = [i \in 0..N |-> Step(F, i)]
  <2>1. F = [i \in 0..N |-> IF i = 0 THEN a ELSE T[i][F[i - 1]]]
    BY <1>4 DEF Iterates
  <2>2. ASSUME NEW i \in 0..N PROVE (IF i = 0 THEN a ELSE T[i][F[i - 1]]) = Step(F, i)
    <3>1. CASE i = 0
      BY <3>1
    <3>2. CASE i # 0
      <4>1. i \in 1..N /\ F[i - 1] \in D
        <5>1. i \in 1..N /\ i - 1 \in 0..N
          BY <1>2, <3>2
        <5> HIDE DEF N, D
        <5> QED
          BY <5>1
      <4>2. T[i][F[i - 1]] = After(F[i - 1], Taken(i))
        <5> HIDE DEF N, D
        <5> QED
          BY <4>1
      <4> QED
        BY <3>2, <4>2 DEF After, Taken
    <3> QED
      BY <3>1, <3>2
  <2> HIDE DEF T, Step, N, D, a
  <2> QED
    BY <2>1, <2>2
<1>6. End = [i \in 0..N |-> Step(End, i)]
  <2> HIDE DEF Step, N
  <2> QED
    BY <1>1, <1>5
<1>7. 0 \in 0..N /\ \A i \in 1..N : i \in 0..N /\ i # 0
  BY <1>2
<1>8. \A i \in 0..N : End[i] = Step(End, i)
  <2> HIDE DEF Step, N
  <2> QED
    BY <1>6
<1>9. ASSUME NEW i \in 1..N PROVE End[i] = After(End[i - 1], Taken(i))
  BY <1>7, <1>8 DEF After, Taken
<1> QED
  BY <1>7, <1>8, <1>9

\* The new places of the blocks.
Segment == [i \in 0..Len(Blocks) |-> End[i][1]]
First == [i \in 1..Len(Blocks) |-> NewAt(i)[2]]
Upto == [i \in 0..Len(Blocks) |-> End[i][2]]

LEMMA PlacesAre ==
  ASSUME NEW L, Filed(L)
  PROVE  /\ Rows(Len(Blocks), Segment, First, Upto)
         /\ \A i \in 1..Len(Blocks) : /\ NewAt(i) = <<Segment[i], First[i]>>
                                      /\ Upto[i] = First[i] + Taken(i)
<1> DEFINE N == Len(Blocks)
<1>1. N \in Nat \ {0} /\ SegSize \in Nat /\ Unit \in Nat /\ Unit = 1
  BY BlocksAre, SizesAssumption DEF Unit
<1>2. \A i \in 1..N : Taken(i) \in Nat /\ Taken(i) > Hdr /\ Taken(i) + Unit <= SegSize
  BY TakenIs
<1>3. End[0] = <<1, Unit>> /\ \A i \in 1..N : End[i] = After(End[i - 1], Taken(i))
  BY EndIs
<1>4. /\ \A i \in 0..N : Segment[i] = End[i][1] /\ Upto[i] = End[i][2]
      /\ \A i \in 1..N : First[i] = End[i][2] - Taken(i) /\ NewAt(i) = <<End[i][1], First[i]>>
  BY DEF Segment, Upto, First, NewAt, Taken
<1>5. ASSUME NEW i \in 1..N
      PROVE  \/ Segment[i] = Segment[i - 1] /\ Upto[i] = Upto[i - 1] + Taken(i)
                /\ SegSize - Upto[i - 1] >= Taken(i)
             \/ Segment[i] = Segment[i - 1] + 1 /\ Upto[i] = Unit + Taken(i)
                /\ ~ (SegSize - Upto[i - 1] >= Taken(i))
  <2>1. i \in 0..N /\ i - 1 \in 0..N
    BY <1>1
  <2> DEFINE e == End[i - 1]
             n == Taken(i)
  <2>2. End[i] = IF SegSize - e[2] >= n THEN <<e[1], e[2] + n>> ELSE <<e[1] + 1, Unit + n>>
    BY <1>3 DEF After
  <2>3. /\ Segment[i] = End[i][1] /\ Upto[i] = End[i][2]
        /\ Segment[i - 1] = e[1] /\ Upto[i - 1] = e[2]
    BY <1>4, <2>1
  <2> HIDE DEF e, n
  <2>4. CASE SegSize - e[2] >= n
    <3>1. End[i][1] = e[1] /\ End[i][2] = e[2] + n
      BY <2>2, <2>4
    <3> QED
      BY <2>3, <2>4, <3>1 DEF n
  <2>5. CASE ~ (SegSize - e[2] >= n)
    <3>1. End[i][1] = e[1] + 1 /\ End[i][2] = Unit + n
      BY <2>2, <2>5
    <3> QED
      BY <2>3, <2>5, <3>1 DEF n
  <2> QED
    BY <2>4, <2>5
<1>6. \A i \in 0..N : Segment[i] \in Nat \ {0} /\ Upto[i] \in Unit..SegSize
  <2> DEFINE B == {i \in 0..N : ~ (Segment[i] \in Nat \ {0} /\ Upto[i] \in Unit..SegSize)}
  <2> SUFFICES ASSUME B # {} PROVE FALSE
    OBVIOUS
  <2>1. PICK i \in B : \A m \in B : i <= m
    <3>1. B \in SUBSET Nat
      BY <1>1
    <3> HIDE DEF B
    <3> QED
      BY <3>1, MinIs
  <2>2. i # 0
    <3>1. Segment[0] = 1 /\ Upto[0] = Unit /\ Unit <= SegSize
      <4>1. 0 \in 0..N /\ 1 \in 1..N
        BY <1>1
      <4>2. Unit <= SegSize
        BY <1>1, <1>2, <4>1 DEF Hdr
      <4> QED
        BY <1>3, <1>4, <4>1, <4>2
    <3> QED
      BY <1>1, <3>1
  <2>3. i \in 1..N /\ i - 1 \in 0..N /\ i - 1 < i
    BY <1>1, <2>2
  <2>4. Segment[i - 1] \in Nat \ {0} /\ Upto[i - 1] \in Unit..SegSize
    <3>1. i - 1 \notin B
      BY <1>1, <2>1, <2>3
    <3> QED
      BY <2>3, <3>1
  <2>5. Taken(i) \in Nat /\ Taken(i) + Unit <= SegSize
    BY <1>2, <2>3
  <2>6. Segment[i] \in Nat \ {0} /\ Upto[i] \in Unit..SegSize
    <3> HIDE DEF B
    <3>1. CASE Segment[i] = Segment[i - 1] /\ Upto[i] = Upto[i - 1] + Taken(i)
               /\ SegSize - Upto[i - 1] >= Taken(i)
      BY <1>1, <2>4, <2>5, <3>1
    <3>2. CASE Segment[i] = Segment[i - 1] + 1 /\ Upto[i] = Unit + Taken(i)
      BY <1>1, <2>4, <2>5, <3>2
    <3> QED
      BY <1>5, <2>3, <3>1, <3>2
  <2> QED
    BY <2>6
<1>7. \A i \in 1..N : Upto[i] = First[i] + Taken(i) /\ NewAt(i) = <<Segment[i], First[i]>>
  BY <1>1, <1>2, <1>4, <1>6
<1>8. ASSUME NEW i \in 1..N
      PROVE  /\ First[i] \in Nat /\ Unit <= First[i] /\ First[i] < Upto[i]
             /\ \/ Segment[i] = Segment[i - 1] /\ First[i] = Upto[i - 1]
                \/ Segment[i] = Segment[i - 1] + 1 /\ First[i] = Unit
  <2>1. Taken(i) \in Nat /\ Taken(i) > Hdr
    BY <1>2
  <2>2. i - 1 \in 0..N /\ Upto[i - 1] \in Nat /\ Upto[i - 1] >= Unit /\ Upto[i] \in Nat
    BY <1>1, <1>6
  <2>3. First[i] = Upto[i] - Taken(i)
    BY <1>1, <1>4
  <2>4. \/ Segment[i] = Segment[i - 1] /\ First[i] = Upto[i - 1]
        \/ Segment[i] = Segment[i - 1] + 1 /\ First[i] = Unit
    BY <1>1, <1>5, <2>1, <2>2, <2>3
  <2> QED
    BY <1>1, <2>1, <2>2, <2>3, <2>4 DEF Hdr
<1>9. Segment[0] = 1 /\ Segment[1] = 1 /\ First[1] = Unit
  <2>1. 0 \in 0..N /\ 1 \in 1..N /\ 1 - 1 = 0
    BY <1>1
  <2>2. Segment[0] = 1 /\ Upto[0] = Unit
    BY <1>3, <1>4, <2>1
  <2>3. SegSize - Unit >= Taken(1)
    BY <1>1, <1>2, <2>1
  <2>4. Segment[1] = 1 /\ Upto[1] = Unit + Taken(1)
    BY <1>5, <2>1, <2>2, <2>3
  <2>5. First[1] = Upto[1] - Taken(1) /\ Taken(1) \in Nat
    BY <1>1, <1>2, <1>4, <2>1
  <2> QED
    BY <1>1, <2>2, <2>4, <2>5
<1>10. Rows(N, Segment, First, Upto)
  BY <1>1, <1>6, <1>8, <1>9 DEF Rows
<1> QED
  BY <1>7, <1>10

\* An address in an object is in its block only, and moves with it.
LEMMA MovedIs ==
  ASSUME NEW L, Filed(L), NEW o \in LiveIn(graph), NEW j \in DOMAIN graph[o],
         NEW i \in 1..Len(Blocks), Blocks[i] = L[o]
  PROVE  /\ BlockOf(Plus(L[o], j)) = i
         /\ Moved(Plus(L[o], j)) = Plus(NewAt(i), j)
<1> DEFINE t == Plus(L[o], j)
           I == {m \in 1..Len(Blocks) : Covers(Blocks[m], t)}
<1>1. /\ L[o] \in Headers(segs) /\ L[o][1] \in Nat /\ L[o][2] \in Nat
      /\ Item(segs, L[o]).usize \in Nat \ {0}
      /\ DOMAIN graph[o] = 0..Item(segs, L[o]).usize - 1
  BY ObjectIs
<1>2. j \in Nat /\ j <= Item(segs, L[o]).usize - 1
  BY <1>1
<1>3. t[1] = L[o][1] /\ t[2] = L[o][2] + j /\ t = <<t[1], t[2]>>
  BY DEF Plus
<1> HIDE DEF t
<1>4. Covers(Blocks[i], t)
  <2> DEFINE u == Item(segs, L[o]).usize
  <2>1. FullSize(Blocks[i]) = u + Hdr
    BY DEF FullSize
  <2>2. u \in Nat /\ j <= u - 1
    BY <1>1, <1>2
  <2> HIDE DEF u
  <2>3. L[o][2] + j \in L[o][2]..L[o][2] + (u + Hdr) - 1
    BY <1>1, <1>2, <2>2 DEF Hdr
  <2> QED
    BY <1>3, <2>1, <2>3 DEF Covers
<1>5. ASSUME NEW m \in 1..Len(Blocks), Covers(Blocks[m], t) PROVE m = i
  <2>1. PICK q \in LiveIn(graph) : Blocks[m] = L[q]
    BY BlocksAre
  <2> DEFINE b == L[q]
             d == t[2] - b[2]
             u == Item(segs, b).usize
  <2>2. /\ b \in Headers(segs) /\ b[1] \in Nat /\ b[2] \in Nat
        /\ u \in Nat \ {0} /\ Item(segs, b).size \in Nat /\ u <= Item(segs, b).size
    BY ObjectIs
  <2>3. t[1] = b[1] /\ t[2] \in b[2]..b[2] + (u + Hdr) - 1
    BY <1>5, <2>1 DEF Covers, FullSize
  <2> HIDE DEF u, b
  <2>4. d \in Nat /\ d <= Item(segs, b).size + 1 /\ t[2] = b[2] + d
    <3>1. t[2] \in Nat
      BY <1>1, <1>2, <1>3
    <3>2. t[2] >= b[2] /\ t[2] <= b[2] + u + 1
      BY <2>2, <2>3, <3>1 DEF Hdr
    <3>3. u <= Item(segs, b).size
      BY <2>2 DEF u
    <3> DEFINE x == t[2]
               y == b[2]
               z == Item(segs, b).size
    <3>4. x \in Nat /\ y \in Nat /\ z \in Nat /\ u \in Nat /\ u <= z
          /\ x >= y /\ x <= y + u + 1 /\ d = x - y
      BY <2>2, <3>1, <3>2, <3>3 DEF u
    <3> HIDE DEF x, y, z, d
    <3>5. d \in Nat /\ d <= z + 1 /\ x = y + d
      BY <3>4
    <3> QED
      BY <3>5 DEF x, y, z
  <2> HIDE DEF d
  <2>5. t = Plus(b, d)
    BY <1>3, <2>3, <2>4 DEF Plus
  <2>6. L[o] = b
    BY <2>2, <2>4, <2>5, InOneObject DEF t
  <2>7. Blocks[m] = Blocks[i]
    BY <2>1, <2>6 DEF b
  <2> QED
    BY <2>7, BlocksAre
<1>6. I = {i}
  BY <1>4, <1>5
<1>7. BlockOf(t) = i
  <2>1. BlockOf(t) = IF I # {} THEN Min(I) ELSE 0
    BY DEF BlockOf, SelectInSeq
  <2>2. i \in Nat
    OBVIOUS
  <2> HIDE DEF I
  <2>3. Min(I) \in I
    BY <1>6, <2>2, MinIs
  <2> QED
    BY <1>6, <2>1, <2>3
<1>8. Moved(t) = Plus(NewAt(i), j)
  <2>1. Moved(t) = <<NewAt(i)[1], NewAt(i)[2] + t[2] - Blocks[i][2]>>
    BY <1>7 DEF Moved
  <2>2. NewAt(i)[2] \in Nat
    <3>1. /\ NewAt(i) = <<Segment[i], First[i]>>
      BY PlacesAre
    <3>2. First[i] \in Nat
      BY PlacesAre DEF Rows
    <3> QED
      BY <3>1, <3>2
  <2>3. NewAt(i)[2] + t[2] - Blocks[i][2] = NewAt(i)[2] + j
    BY <1>1, <1>2, <1>3, <2>2
  <2> QED
    BY <2>1, <2>3 DEF Plus
<1> QED
  BY <1>7, <1>8 DEF t

\* No target and no pointer is left over.
LEMMA HandledIs ==
  ASSUME NEW L, Filed(L)
  PROVE  Handled
<1>1. ASSUME NEW t, NEW o \in LiveIn(graph), NEW j \in DOMAIN graph[o], t = Plus(L[o], j)
      PROVE  BlockOf(t) # 0
  <2>1. PICK i \in 1..Len(Blocks) : Blocks[i] = L[o]
    BY BlocksAre
  <2>2. BlockOf(t) = i
    BY <1>1, <2>1, MovedIs
  <2> QED
    BY <2>2
<1>2. \A t \in Targets : BlockOf(t) # 0
  BY <1>1, TargetsAre
<1>3. \A r \in records : r.from # None => BlockOf(r.from) # 0
  BY <1>1, TargetsAre
<1> QED
  BY <1>2, <1>3 DEF Handled

\* Where the objects are after compaction.
IndexOf(L, o) == CHOOSE i \in 1..Len(Blocks) : Blocks[i] = L[o]
NewPlaces(L) == [o \in LiveIn(graph) |-> NewAt(IndexOf(L, o))]

LEMMA IndexIs ==
  ASSUME NEW L, Filed(L)
  PROVE  /\ \A o \in LiveIn(graph) :
              /\ IndexOf(L, o) \in 1..Len(Blocks) /\ Blocks[IndexOf(L, o)] = L[o]
              /\ NewPlaces(L)[o] = NewAt(IndexOf(L, o))
         /\ \A o, q \in LiveIn(graph) : IndexOf(L, o) = IndexOf(L, q) => o = q
         /\ \A i \in 1..Len(Blocks) : \E o \in LiveIn(graph) : IndexOf(L, o) = i
<1>1. ASSUME NEW o \in LiveIn(graph)
      PROVE  IndexOf(L, o) \in 1..Len(Blocks) /\ Blocks[IndexOf(L, o)] = L[o]
  <2>1. \E i \in 1..Len(Blocks) : Blocks[i] = L[o]
    BY BlocksAre
  <2> QED
    BY <2>1 DEF IndexOf
<1>2. \A o \in LiveIn(graph) : NewPlaces(L)[o] = NewAt(IndexOf(L, o))
  BY DEF NewPlaces
<1>3. \A o, q \in LiveIn(graph) : IndexOf(L, o) = IndexOf(L, q) => o = q
  BY <1>1, HeadsAre
<1>4. ASSUME NEW i \in 1..Len(Blocks) PROVE \E o \in LiveIn(graph) : IndexOf(L, o) = i
  <2>1. PICK o \in LiveIn(graph) : Blocks[i] = L[o]
    BY BlocksAre
  <2>2. IndexOf(L, o) = i
    BY <1>1, <2>1, BlocksAre
  <2> QED
    BY <2>2
<1> QED
  BY <1>1, <1>2, <1>3, <1>4

\* The first one is first again.
LEMMA FirstIs ==
  ASSUME NEW L, Filed(L)
  PROVE  /\ NewPlaces(L)[Root] = <<1, Unit>>
         /\ Moved(CHOOSE t \in Targets : \A u \in Targets : ~ Lower(u, t)) = <<1, Unit>>
<1>1. Root \in LiveIn(graph) /\ L[Root] = <<1, Unit>>
  BY DEF Filed, Saved, Typed
<1>2. /\ Rows(Len(Blocks), Segment, First, Upto) /\ 1 \in 1..Len(Blocks)
      /\ NewAt(1) = <<Segment[1], First[1]>> /\ Blocks[1] = L[Root]
  BY <1>1, BlocksAre, PlacesAre
<1>3. NewAt(1) = <<1, Unit>>
  BY <1>2 DEF Rows
<1>4. NewPlaces(L)[Root] = <<1, Unit>>
  <2>1. IndexOf(L, Root) = 1
    <3>1. IndexOf(L, Root) \in 1..Len(Blocks) /\ Blocks[IndexOf(L, Root)] = L[Root]
      BY <1>1, IndexIs
    <3>2. \A i, j \in 1..Len(Blocks) : Blocks[i] = Blocks[j] => i = j
      BY BlocksAre
    <3> QED
      BY <1>2, <3>1, <3>2
  <2> QED
    BY <1>1, <1>3, <2>1, IndexIs
<1>5. \A t \in Targets : t \in Places /\ t[1] \in Nat \ {0} /\ t[2] \in Nat \ {0}
  <2> SUFFICES ASSUME NEW t \in Targets
               PROVE  t \in Places /\ t[1] \in Nat \ {0} /\ t[2] \in Nat \ {0}
    OBVIOUS
  <2>1. PICK o \in LiveIn(graph) : \E j \in DOMAIN graph[o] : t = Plus(L[o], j)
    BY TargetsAre
  <2>2. PICK j \in DOMAIN graph[o] : t = Plus(L[o], j)
    BY <2>1
  <2>3. L[o][1] \in Nat \ {0} /\ L[o][2] \in Nat \ {0}
        /\ DOMAIN graph[o] = 0..Item(segs, L[o]).usize - 1
    BY ObjectIs
  <2>4. j \in Nat
    BY <2>3
  <2> QED
    BY <2>2, <2>3, <2>4 DEF Plus, Places
<1> DEFINE z == <<1, Unit>>
<1>6. z \in Targets
  BY <1>1, TargetsAre
<1>7. \A u \in Targets : ~ Lower(u, z)
  BY <1>5 DEF Lower, Unit
<1>8. ASSUME NEW t \in Targets, \A u \in Targets : ~ Lower(u, t) PROVE t = z
  <2>1. t \in Places /\ z \in Places /\ ~ Lower(t, z) /\ ~ Lower(z, t)
    BY <1>5, <1>6, <1>7, <1>8
  <2> QED
    BY <2>1, LowerIs
<1> HIDE DEF z
<1>9. (CHOOSE t \in Targets : \A u \in Targets : ~ Lower(u, t)) = z
  BY <1>6, <1>7, <1>8
<1>10. Moved(z) = z
  <2>1. z = Plus(L[Root], 0) /\ 0 \in DOMAIN graph[Root]
    BY <1>1, ObjectIs DEF z
  <2>2. Moved(z) = Plus(NewAt(1), 0)
    BY <1>1, <1>2, <2>1, MovedIs
  <2>3. Plus(NewAt(1), 0) = z
    BY <1>1, <1>3, <2>1
  <2> QED
    BY <2>2, <2>3
<1> QED
  BY <1>4, <1>9, <1>10 DEF z

\* The segments compaction makes.
Here(s) == {m \in 1..Len(Blocks) : Segment[m] = s}
OldHere(s) == {i \in DOMAIN Blocks : NewAt(i)[1] = s}
OldItems(s) ==
  [off \in {NewAt(i)[2] : i \in OldHere(s)} |-> Copy(CHOOSE i \in OldHere(s) : NewAt(i)[2] = off)]
Laid(s) ==
  [NewSegment EXCEPT !.end = Max({End[i][2] : i \in OldHere(s)}), !.items = OldItems(s)]

LEMMA EndItems ==
  ASSUME NEW g, g = [end |-> g.end, items |-> g.items, slots |-> g.slots], NEW x, NEW y
  PROVE  [g EXCEPT !.end = x, !.items = y] = [end |-> x, items |-> y, slots |-> g.slots]
<1> DEFINE h == [g EXCEPT !.end = x, !.items = y]
<1>1. DOMAIN g = {"end", "items", "slots"}
  OBVIOUS
<1>2. h = [f \in {"end", "items", "slots"} |-> IF f = "items" THEN y ELSE IF f = "end" THEN x ELSE g[f]]
  BY <1>1
<1> QED
  BY <1>2

LEMMA LaidIs ==
  ASSUME NEW L, Filed(L), NEW s
  PROVE  /\ Laid(s) = [end |-> Laid(s).end, items |-> Laid(s).items, slots |-> NewSegment.slots]
         /\ Laid(s).slots = NewSegment.slots
         /\ Laid(s).end = Max({Upto[i] : i \in Here(s)})
         /\ Laid(s).items = [off \in {First[i] : i \in Here(s)} |-> Laid(s).items[off]]
         /\ \A i \in Here(s) : Laid(s).items[First[i]] = Copy(i)
<1> DEFINE N == Len(Blocks)
<1>1. N \in Nat \ {0} /\ DOMAIN Blocks = 1..N
  BY BlocksAre
<1>2. \A i \in 1..N : First[i] = NewAt(i)[2]
  BY DEF First
<1>3. \A i \in 1..N : Upto[i] = End[i][2] /\ Segment[i] = End[i][1]
  <2>1. \A i \in 1..N : i \in 0..N
    BY <1>1
  <2> QED
    BY <2>1 DEF Upto, Segment
<1>4. \A i : NewAt(i)[1] = End[i][1]
  BY DEF NewAt
<1>5. OldHere(s) = Here(s) /\ Here(s) \subseteq 1..N
  BY <1>1, <1>3, <1>4 DEF OldHere, Here
<1> DEFINE H == Here(s)
           E == {End[i][2] : i \in OldHere(s)}
           U == {Upto[i] : i \in H}
           D == {First[i] : i \in H}
<1>6. E = U
  BY <1>3, <1>5
<1>7. {NewAt(i)[2] : i \in OldHere(s)} = D
  BY <1>2, <1>5
<1>8. \A i, j \in H : First[i] = First[j] => i = j
  <2>1. Rows(N, Segment, First, Upto)
    BY PlacesAre
  <2>2. \A i, j \in 1..N : i < j => (Segment[i] = Segment[j] => Upto[i] <= First[j])
    BY <2>1, RowsRise
  <2>3. \A i \in 1..N : First[i] \in Nat /\ First[i] < Upto[i] /\ Upto[i] \in Nat
    BY <1>1, <2>1 DEF Rows, Unit
  <2>4. \A i, j \in H : i \in 1..N /\ j \in 1..N /\ Segment[i] = Segment[j]
    BY DEF Here
  <2> SUFFICES ASSUME NEW i \in H, NEW j \in H, First[i] = First[j], i # j PROVE FALSE
    OBVIOUS
  <2>5. i < j \/ j < i
    BY <1>1, <2>4
  <2> HIDE DEF H
  <2> QED
    BY <2>2, <2>3, <2>4, <2>5
<1>9. NewSegment = [end |-> NewSegment.end, items |-> NewSegment.items, slots |-> NewSegment.slots]
  BY NewSegmentIs DEF SegmentOk
<1>10. Laid(s) = [end |-> Max(E), items |-> OldItems(s), slots |-> NewSegment.slots]
  <2> HIDE DEF E
  <2>1. \A x, y : [NewSegment EXCEPT !.end = x, !.items = y] = [end |-> x, items |-> y, slots |-> NewSegment.slots]
    <3> SUFFICES ASSUME NEW x, NEW y
                 PROVE  [NewSegment EXCEPT !.end = x, !.items = y]
                        = [end |-> x, items |-> y, slots |-> NewSegment.slots]
      OBVIOUS
    <3> QED
      BY <1>9, EndItems
  <2> QED
    BY <2>1, Zenon DEF Laid, E
<1>11. Laid(s).end = Max(E) /\ Laid(s).items = OldItems(s) /\ Laid(s).slots = NewSegment.slots
  <2> HIDE DEF E
  <2> QED
    BY <1>10
<1>12. DOMAIN OldItems(s) = D /\ OldItems(s) = [off \in D |-> OldItems(s)[off]]
  <2>1. OldItems(s) = [off \in D |-> Copy(CHOOSE i \in OldHere(s) : NewAt(i)[2] = off)]
    BY <1>7, Zenon DEF OldItems
  <2> HIDE DEF D
  <2> QED
    BY <2>1
<1>13. ASSUME NEW i \in H PROVE OldItems(s)[First[i]] = Copy(i)
  <2>1. i \in OldHere(s) /\ NewAt(i)[2] = First[i]
    BY <1>2, <1>5
  <2>2. \A j \in OldHere(s) : NewAt(j)[2] = First[i] => j = i
    BY <1>2, <1>5, <1>8
  <2>3. (CHOOSE j \in OldHere(s) : NewAt(j)[2] = First[i]) = i
    BY <2>1, <2>2
  <2>4. OldItems(s)[First[i]] = Copy(CHOOSE j \in OldHere(s) : NewAt(j)[2] = First[i])
    BY <2>1 DEF OldItems
  <2> QED
    BY <2>3, <2>4, Zenon
<1> HIDE DEF E, D, U
<1> QED
  BY <1>6, <1>10, <1>11, <1>12, <1>13 DEF U, D

LEMMA CopyIs ==
  ASSUME NEW L, Filed(L), NEW i \in 1..Len(Blocks)
  PROVE  /\ BlockOk(Copy(i)) /\ Copy(i).size = Taken(i) - Hdr
         /\ Copy(i).usize = Item(segs, Blocks[i]).usize
<1> DEFINE n == Item(segs, Blocks[i]).usize
           c == Copy(i).cells
<1>1. n \in Nat \ {0} /\ Taken(i) = n + Hdr
  BY TakenIs
<1>2. Copy(i).size = n /\ Copy(i).usize = n /\ Copy(i) = [size |-> n, usize |-> n, cells |-> c]
  BY DEF Copy
<1> HIDE DEF n, c
<1>3. n = Taken(i) - Hdr
  BY <1>1 DEF Hdr
<1>4. BlockOk(Copy(i))
  BY <1>1, <1>2 DEF BlockOk, c
<1> QED
  BY <1>2, <1>3, <1>4 DEF n

\* They hold the blocks that are moved, and nothing else.
LEMMA CompactedIs ==
  ASSUME NEW L, Filed(L)
  PROVE  /\ HeapOk(Compacted) /\ \A s \in DOMAIN Compacted : Freed(Compacted[s]) = {}
         /\ \A p \in Busy(Compacted) : \E i \in 1..Len(Blocks) : p = NewAt(i)
         /\ \A i \in 1..Len(Blocks) : NewAt(i) \in Busy(Compacted) /\ Item(Compacted, NewAt(i)) = Copy(i)
         /\ \A i, j \in 1..Len(Blocks) : NewAt(i) = NewAt(j) => i = j
<1> DEFINE N == Len(Blocks)
           r == Compacted
           M == Segment[N]
<1>1. N \in Nat \ {0} /\ N \in 0..N /\ DOMAIN Blocks = 1..N
  BY BlocksAre
<1>2. /\ Rows(N, Segment, First, Upto)
      /\ \A i \in 1..N : NewAt(i) = <<Segment[i], First[i]>> /\ Upto[i] = First[i] + Taken(i)
  BY PlacesAre
<1>3. /\ \A i \in 1..N : Segment[i] \in 1..M
      /\ \A i \in 1..N : First[i] \in Nat /\ Segment[i] \in Nat /\ Taken(i) \in Nat
      /\ M \in Nat \ {0}
  <2>1. \A i \in 1..N : Segment[i] \in 1..M
    BY <1>2, RowsReach
  <2>2. \A i \in 1..N : First[i] \in Nat
    BY <1>2 DEF Rows
  <2>3. M \in Nat \ {0}
    BY <1>1, <1>2 DEF Rows
  <2>4. \A i \in 1..N : Taken(i) \in Nat
    BY TakenIs
  <2> HIDE DEF M, N
  <2> QED
    BY <2>1, <2>2, <2>3, <2>4
<1>4. r = [s \in 1..M |-> Laid(s)]
  <2>1. M = End[N][1]
    BY <1>1 DEF Segment
  <2>2. r = [s \in 1..End[N][1] |-> Laid(s)]
    BY Zenon DEF Compacted, Laid, OldItems, OldHere
  <2> QED
    BY <2>1, <2>2, Zenon
<1> HIDE DEF r
<1>5. DOMAIN r = 1..M /\ Len(r) = M /\ \A s \in 1..M : r[s] = Laid(s)
  BY <1>3, <1>4
<1>6. ASSUME NEW s \in 1..M
      PROVE  /\ SegmentOk(r[s]) /\ Freed(r[s]) = {}
             /\ DOMAIN r[s].items = {First[i] : i \in Here(s)}
             /\ \A i \in Here(s) : r[s].items[First[i]] = Copy(i)
  <2> DEFINE g == Laid(s)
  <2>1. /\ g = [end |-> g.end, items |-> g.items, slots |-> NewSegment.slots]
        /\ g.slots = NewSegment.slots
        /\ g.end = Max({Upto[i] : i \in Here(s)})
        /\ g.items = [off \in {First[i] : i \in Here(s)} |-> g.items[off]]
        /\ \A i \in Here(s) : g.items[First[i]] = Copy(i)
    BY LaidIs
  <2> HIDE DEF g
  <2>2. \A i \in 1..N : Segment[i] = s =>
          BlockOk(g.items[First[i]]) /\ g.items[First[i]].size = Upto[i] - First[i] - Hdr
    <3> SUFFICES ASSUME NEW i \in 1..N, Segment[i] = s
                 PROVE  BlockOk(g.items[First[i]]) /\ g.items[First[i]].size = Upto[i] - First[i] - Hdr
      OBVIOUS
    <3>1. g.items[First[i]] = Copy(i)
      BY <2>1 DEF Here
    <3>2. BlockOk(Copy(i)) /\ Copy(i).size = Taken(i) - Hdr
      BY CopyIs
    <3>3. Taken(i) = Upto[i] - First[i]
      BY <1>2, <1>3
    <3> QED
      BY <3>1, <3>2, <3>3
  <2>3. Tiled(g.end, g.items)
    <3>1. g.end = Max({Upto[i] : i \in {m \in 1..N : Segment[m] = s}})
          /\ g.items = [off \in {First[i] : i \in {m \in 1..N : Segment[m] = s}} |-> g.items[off]]
      BY <2>1, Zenon DEF Here
    <3> QED
      BY <1>2, <2>2, <3>1, RowTiled
  <2>4. Listed(g.items, g.slots) /\ Freed(g) = {}
    <3>1. /\ \A k \in Slots : g.slots[k] = <<>>
          /\ g.slots = [k \in Slots |-> g.slots[k]]
      BY <2>1, NewSegmentIs DEF SegmentOk, Listed
    <3>2. <<>> \in Seq(Nat) /\ DOMAIN <<>> = {}
      OBVIOUS
    <3>3. ToSet(<<>>) = {} /\ IsInjective(<<>>)
      BY <3>2 DEF ToSet, IsInjective
    <3> QED
      BY <3>1, <3>2, <3>3 DEF Listed, Freed
  <2>5. g = [end |-> g.end, items |-> g.items, slots |-> g.slots]
    BY <2>1
  <2>6. DOMAIN g.items = {First[i] : i \in Here(s)}
    <3> DEFINE D == {First[i] : i \in Here(s)}
    <3>1. g.items = [off \in D |-> g.items[off]]
      BY <2>1
    <3> HIDE DEF D
    <3> QED
      BY <3>1 DEF D
  <2>7. SegmentOk(g)
    BY <2>3, <2>4, <2>5 DEF SegmentOk
  <2>8. r[s] = g
    BY <1>5 DEF g
  <2> QED
    BY <2>1, <2>4, <2>6, <2>7, <2>8, Zenon
<1>7. HeapOk(r)
  <2>1. r = [s \in 1..M |-> r[s]]
    <3> HIDE DEF M
    <3> QED
      BY <1>4
  <2>2. \A s \in 1..M : SegmentOk(r[s])
    BY <1>6
  <2>3. M \in Nat /\ Len(r) = M
    BY <1>3, <1>5
  <2> HIDE DEF M
  <2> QED
    BY <2>1, <2>2, <2>3 DEF HeapOk
<1>8. Busy(r) = UNION {{s} \X DOMAIN r[s].items : s \in DOMAIN r}
  <2>1. \A s \in DOMAIN r : Freed(r[s]) = {}
    BY <1>5, <1>6
  <2>2. \A s \in DOMAIN r : {s} \X (DOMAIN r[s].items \ Freed(r[s])) = {s} \X DOMAIN r[s].items
    BY <2>1
  <2> QED
    BY <2>2 DEF Busy
<1>9. ASSUME NEW p \in Busy(r) PROVE \E i \in 1..N : p = NewAt(i)
  <2>1. PICK s \in 1..M : p \in {s} \X DOMAIN r[s].items
    BY <1>5, <1>8
  <2>2. PICK off \in DOMAIN r[s].items : p = <<s, off>>
    BY <2>1
  <2>3. PICK i \in Here(s) : off = First[i]
    BY <1>6, <2>2
  <2>4. i \in 1..N /\ Segment[i] = s
    BY DEF Here
  <2> QED
    BY <1>2, <2>2, <2>3, <2>4
<1>10. ASSUME NEW i \in 1..N PROVE NewAt(i) \in Busy(r) /\ Item(r, NewAt(i)) = Copy(i)
  <2> DEFINE s == Segment[i]
             off == First[i]
  <2>1. s \in 1..M /\ i \in Here(s) /\ NewAt(i) = <<s, off>>
    BY <1>2, <1>3 DEF Here
  <2> HIDE DEF s, off
  <2>2. off \in DOMAIN r[s].items /\ r[s].items[off] = Copy(i)
    BY <1>6, <2>1 DEF off
  <2>3. <<s, off>> \in Busy(r)
    BY <1>5, <1>8, <2>1, <2>2
  <2>4. Item(r, <<s, off>>) = r[s].items[off]
    BY DEF Item
  <2> QED
    BY <2>1, <2>2, <2>3, <2>4
<1>11. ASSUME NEW i \in 1..N, NEW j \in 1..N, NewAt(i) = NewAt(j) PROVE i = j
  <2>1. Segment[i] = Segment[j] /\ First[i] = First[j]
    BY <1>2, <1>11
  <2>2. \A a, b \in 1..N : a < b => (Segment[a] = Segment[b] => Upto[a] <= First[b])
    BY <1>2, RowsRise
  <2>3. \A a \in 1..N : First[a] < Upto[a] /\ First[a] \in Nat /\ Upto[a] \in Nat
    BY <1>1, <1>2, <1>3 DEF Rows
  <2>4. i < j \/ j < i \/ i = j
    BY <1>1
  <2> QED
    BY <2>1, <2>2, <2>3, <2>4
<1>12. \A s \in DOMAIN r : Freed(r[s]) = {}
  BY <1>5, <1>6
<1> HIDE DEF N, M
<1> QED
  BY <1>7, <1>9, <1>10, <1>11, <1>12 DEF r, N

\* A block that is moved shows its object there.
LEMMA CopyShows ==
  ASSUME NEW L, Filed(L), NEW o \in LiveIn(graph)
  PROVE  Shows(Copy(IndexOf(L, o)), graph[o], NewPlaces(L), "open")
<1> DEFINE M == NewPlaces(L)
           i == IndexOf(L, o)
           p == L[o]
           b == Item(segs, p)
           c == graph[o]
           d == Copy(i)
           Value(k) == PtrRead(p[1], p[2] + k, b.cells[k])
<1>1. /\ HeapOk(segs) /\ Typed(graph) /\ Led(graph) /\ Shown(segs, graph, L, "saved")
      /\ Saved(segs, graph, L) /\ records = Recs(graph, L)
  BY DEF Filed, Saved
<1>2. i \in 1..Len(Blocks) /\ Blocks[i] = p
  BY IndexIs
<1>3. /\ DOMAIN c = 0..b.usize - 1 /\ b.cells = [k \in DOMAIN c |-> b.cells[k]]
  BY ObjectIs
<1>4. d.usize = b.usize
      /\ d.cells = [k \in DOMAIN b.cells \cap 0..b.usize - 1 |->
                      IF IsPtr(Value(k)) THEN Moved(Value(k)) ELSE Value(k)]
  BY <1>2 DEF Copy
<1>5. DOMAIN b.cells \cap 0..b.usize - 1 = DOMAIN c
  <2>1. DOMAIN b.cells = DOMAIN c
    <3> HIDE DEF b, c
    <3> QED
      BY <1>3
  <2> HIDE DEF b, c
  <2> QED
    BY <1>3, <2>1
<1>6. \A k \in DOMAIN c : Value(k) = Seen(c[k], L, "open")
  BY <1>1, CellReadIs
<1> HIDE DEF Value
<1>7. ASSUME NEW k \in DOMAIN c
      PROVE  (IF IsPtr(Value(k)) THEN Moved(Value(k)) ELSE Value(k)) = Seen(c[k], M, "open")
  <2>1. CASE IsPtr(c[k])
    <3> DEFINE q == c[k][1]
               j == c[k][2]
    <3>1. /\ q \in LiveIn(graph) /\ j \in DOMAIN graph[q]
          /\ Value(k) = Plus(L[q], j) /\ IsPtr(Value(k))
      BY <1>1, <1>6, <2>1, SeenIs
    <3>2. IndexOf(L, q) \in 1..Len(Blocks) /\ Blocks[IndexOf(L, q)] = L[q]
          /\ M[q] = NewAt(IndexOf(L, q))
      BY <3>1, IndexIs
    <3>3. Moved(Plus(L[q], j)) = Plus(NewAt(IndexOf(L, q)), j)
      BY <3>1, <3>2, MovedIs
    <3>4. Seen(c[k], M, "open") = Plus(M[q], j)
      BY <2>1 DEF Seen
    <3> HIDE DEF q, j, M
    <3> QED
      BY <3>1, <3>2, <3>3, <3>4
  <2>2. CASE ~ IsPtr(c[k])
    <3>1. Value(k) = c[k]
      BY <1>6, <2>2 DEF Seen
    <3> HIDE DEF M, c
    <3> QED
      BY <2>2, <3>1 DEF Seen
  <2> QED
    BY <2>1, <2>2
<1> HIDE DEF M, i, p, b, c, d
<1>8. d.cells = [k \in DOMAIN c |-> IF IsPtr(Value(k)) THEN Moved(Value(k)) ELSE Value(k)]
  BY <1>4, <1>5, Zenon
<1>9. DOMAIN c = 0..d.usize - 1
  BY <1>3, <1>4
<1>10. d.cells = [k \in DOMAIN c |-> d.cells[k]] /\ \A k \in DOMAIN c : d.cells[k] = Seen(c[k], M, "open")
  BY <1>7, <1>8
<1>11. Shows(d, c, M, "open")
  BY <1>9, <1>10 DEF Shows
<1> QED
  BY <1>11 DEF d, c, M, i

\* What there is after compaction.
LEMMA CompactedShows ==
  ASSUME NEW L, Filed(L)
  PROVE  /\ State(Compacted, graph, NewPlaces(L))
         /\ IsFiniteSet(Busy(Compacted)) /\ Cardinality(Busy(Compacted)) = Cardinality(LiveIn(graph))
<1> DEFINE M == NewPlaces(L)
           r == Compacted
<1>1. Typed(graph) /\ Led(graph)
  BY DEF Filed, Saved
<1>2. /\ HeapOk(r)
      /\ \A p \in Busy(r) : \E i \in 1..Len(Blocks) : p = NewAt(i)
      /\ \A i \in 1..Len(Blocks) : NewAt(i) \in Busy(r) /\ Item(r, NewAt(i)) = Copy(i)
      /\ \A i, j \in 1..Len(Blocks) : NewAt(i) = NewAt(j) => i = j
  BY CompactedIs
<1>3. /\ \A o \in LiveIn(graph) : IndexOf(L, o) \in 1..Len(Blocks) /\ M[o] = NewAt(IndexOf(L, o))
      /\ \A o, q \in LiveIn(graph) : IndexOf(L, o) = IndexOf(L, q) => o = q
      /\ \A i \in 1..Len(Blocks) : \E o \in LiveIn(graph) : IndexOf(L, o) = i
  BY IndexIs
<1>4. M = [o \in LiveIn(graph) |-> M[o]]
  BY DEF NewPlaces
<1> HIDE DEF r
<1>5. \A o \in LiveIn(graph) : M[o] \in Busy(r) /\ Shows(Item(r, M[o]), graph[o], M, "open")
  <2> SUFFICES ASSUME NEW o \in LiveIn(graph)
               PROVE  M[o] \in Busy(r) /\ Shows(Item(r, M[o]), graph[o], M, "open")
    OBVIOUS
  <2>1. Shows(Copy(IndexOf(L, o)), graph[o], M, "open")
    BY CopyShows
  <2> HIDE DEF M
  <2> QED
    BY <1>2, <1>3, <2>1
<1> HIDE DEF M
<1>6. \A p \in Busy(r) : \E o \in LiveIn(graph) : M[o] = p
  BY <1>2, <1>3
<1>7. Shown(r, graph, M, "open")
  BY <1>5, <1>6 DEF Shown
<1>8. IsFiniteSet(Busy(r)) /\ Cardinality(Busy(r)) = Cardinality(LiveIn(graph))
  <2>1. IsFiniteSet(LiveIn(graph))
    <3>1. LiveIn(graph) \subseteq Objs
      BY DEF LiveIn
    <3> QED
      BY <3>1, SizesAssumption, FS_Subset
  <2>2. M \in [LiveIn(graph) -> Busy(r)]
    BY <1>4, <1>5
  <2>3. \A o, q \in LiveIn(graph) : M[o] = M[q] => o = q
    BY <1>2, <1>3
  <2> QED
    BY <1>6, <2>1, <2>2, <2>3, SameCount, Zenon
<1> QED
  BY <1>1, <1>2, <1>7, <1>8 DEF State, M, r

\* The state file is there when the engine is not running.
LEMMA FiledIs ==
  ASSUME Inv, ~ up
  PROVE  \E L : Filed(L)
BY DEF Inv, Filed

LEMMA CompactKeeps ==
  ASSUME Inv, Compact
  PROVE  /\ Inv'
         /\ Cardinality(Busy(segs')) = Cardinality(Live)
         /\ \A s \in DOMAIN segs' : Freed(segs'[s]) = {}
<1>1. ~ up
  BY DEF Compact
<1>2. PICK L : Filed(L)
  BY <1>1, FiledIs
<1>3. Handled
  BY <1>2, HandledIs
<1>4. /\ up' = TRUE /\ segs' = Compacted /\ lost' = FALSE /\ graph' = graph
      /\ anchor' = Moved(CHOOSE t \in Targets : \A u \in Targets : ~ Lower(u, t))
  BY <1>3 DEF Compact
<1> DEFINE M == NewPlaces(L)
<1>5. /\ State(segs', graph', M)
      /\ Cardinality(Busy(segs')) = Cardinality(LiveIn(graph))
  BY <1>2, <1>4, CompactedShows
<1>6. anchor' = <<1, Unit>> /\ M[Root] = <<1, Unit>>
  BY <1>2, <1>4, FirstIs
<1>7. \A s \in DOMAIN segs' : Freed(segs'[s]) = {}
  BY <1>2, <1>4, CompactedIs
<1>8. Pointed(graph')
  BY <1>2, <1>4 DEF Filed
<1>9. Live = LiveIn(graph)
  BY DEF Live, LiveIn
<1> HIDE DEF M
<1>10. Inv'
  BY <1>4, <1>5, <1>6, <1>8 DEF Inv
<1> QED
  BY <1>5, <1>7, <1>9, <1>10

---------------------------------------------------------------------------
(* The invariant holds *)

LEMMA StutterKeeps ==
  ASSUME Inv, UNCHANGED vars
  PROVE  Inv'
<1>1. /\ segs' = segs /\ graph' = graph /\ anchor' = anchor
      /\ records' = records /\ up' = up /\ lost' = lost
  BY DEF vars
<1> QED
  BY <1>1 DEF Inv

LEMMA InvKeeps ==
  ASSUME Inv, [Next]_vars
  PROVE  Inv'
<1>1. ASSUME NEW o \in Objs, NEW p \in Objs, NEW k \in Cells, NEW n \in Sizes, New(o, n, p, k)
      PROVE  Inv'
  BY <1>1, NewKeeps
<1>2. ASSUME NEW o \in Objs, NEW p \in Objs, NEW k \in Cells, NEW j \in Cells \cup {0}, Link(p, k, o, j)
      PROVE  Inv'
  BY <1>2, LinkKeeps
<1>3. ASSUME NEW o \in Objs, NEW p \in Objs, NEW k \in Cells, NEW freed \in BOOLEAN,
             Drop(o, <<p, k>>, freed)
      PROVE  Inv'
  BY <1>3, DropKeeps
<1>4. ASSUME NEW o \in Objs, NEW p \in Objs, NEW k \in Cells, NEW n \in Sizes, Resize(o, <<p, k>>, n)
      PROVE  Inv'
  BY <1>4, ResizeKeeps
<1>5. ASSUME NEW p \in Objs, NEW k \in Cells, Unlink(p, k)
      PROVE  Inv'
  BY <1>5, UnlinkKeeps
<1>6. CASE Save
  BY <1>6, SaveKeeps
<1>7. CASE Open
  BY <1>7, OpenKeeps
<1>8. CASE Compact
  BY <1>8, CompactKeeps
<1>9. CASE UNCHANGED vars
  BY <1>9, StutterKeeps
<1> QED
  BY <1>1, <1>2, <1>3, <1>4, <1>5, <1>6, <1>7, <1>8, <1>9, Zenon DEF Next

\* Whatever the engine does, its objects are where the places say.
THEOREM InvHolds ==
  Spec => []Inv
<1>1. Init => Inv
  BY InitIs
<1>2. Inv /\ [Next]_vars => Inv'
  BY InvKeeps
<1> QED
  BY <1>1, <1>2, PTL DEF Spec

---------------------------------------------------------------------------
(* What the runs check, for any objects, sizes and segments *)

LEMMA GraphKeptIs ==
  ASSUME Inv
  PROVE  GraphKept
<1>1. ~ lost
  BY DEF Inv
<1>2. ASSUME up, NEW o \in Live
      PROVE  /\ anchor = At(Root)
             /\ Cardinality({p \in Busy(segs) : Item(segs, p).cells[0] = o}) = 1
             /\ Item(segs, At(o)).cells = [k \in DOMAIN graph[o] |->
                  IF IsPtr(graph[o][k]) THEN Addr(graph[o][k][1], graph[o][k][2])
                  ELSE graph[o][k]]
  <2>1. Typed(graph) /\ Led(graph) /\ Live = LiveIn(graph)
    BY <1>2, RunningIs
  <2>2. PICK L : RunsWith(L)
    BY <1>2, RunningIs
  <2>3. /\ L[Root] = anchor /\ HeapOk(segs) /\ Shown(segs, graph, L, "open")
        /\ \A q \in LiveIn(graph) : At(q) = L[q]
    BY <2>2 DEF RunsWith, State
  <2>4. Root \in LiveIn(graph) /\ o \in LiveIn(graph)
    BY <1>2, <2>1 DEF Typed
  <2>5. anchor = At(Root)
    BY <2>3, <2>4
  <2>6. {p \in Busy(segs) : Item(segs, p).cells[0] = o} = {L[o]}
    BY <2>1, <2>3, <2>4, PlaceOf
  <2>7. Cardinality({p \in Busy(segs) : Item(segs, p).cells[0] = o}) = 1
    BY <2>6, FS_Singleton
  <2> DEFINE b == Item(segs, At(o))
             c == graph[o]
             Is(k) == IF IsPtr(c[k]) THEN Addr(c[k][1], c[k][2]) ELSE c[k]
  <2>8. b.cells = [k \in DOMAIN c |-> b.cells[k]]
        /\ \A k \in DOMAIN c : b.cells[k] = Seen(c[k], L, "open")
    BY <2>3, <2>4 DEF Shown, Shows
  <2>9. ASSUME NEW k \in DOMAIN c PROVE Seen(c[k], L, "open") = Is(k)
    <3>1. CASE IsPtr(c[k])
      <4>1. c[k][1] \in LiveIn(graph)
        BY <2>1, <2>3, <2>4, <3>1, SeenIs
      <4>2. At(c[k][1]) = L[c[k][1]]
        BY <2>3, <4>1
      <4> HIDE DEF c
      <4> QED
        BY <3>1, <4>2 DEF Seen, Plus, Addr
    <3>2. CASE ~ IsPtr(c[k])
      BY <3>2 DEF Seen
    <3> QED
      BY <3>1, <3>2
  <2> HIDE DEF b, Is
  <2>10. b.cells = [k \in DOMAIN c |-> Is(k)]
    BY <2>8, <2>9
  <2> QED
    BY <2>5, <2>7, <2>10 DEF b, Is
<1>3. up => Live # {}
  <2> SUFFICES ASSUME up PROVE Live # {}
    OBVIOUS
  <2> QED
    BY RunningIs DEF Typed
<1> QED
  BY <1>1, <1>2, <1>3 DEF GraphKept

LEMMA BlocksSoundIs ==
  ASSUME Inv
  PROVE  BlocksSound
<1>1. HeapOk(segs)
  BY DEF Inv, State, Saved
<1>2. ASSUME NEW s \in DOMAIN segs
      PROVE  LET g == segs[s] IN
             /\ g.end <= SegSize
             /\ \A off \in DOMAIN g.items :
                  /\ g.items[off].usize <= g.items[off].size
                  /\ off + g.items[off].size + Hdr \in DOMAIN g.items \cup {g.end}
                  /\ off = Unit \/ \E q \in DOMAIN g.items : q + g.items[q].size + Hdr = off
             /\ \A k \in Slots :
                  /\ IsInjective(g.slots[k])
                  /\ \A off \in ToSet(g.slots[k]) : SlotOf(g.items[off].size) = k
  <2> DEFINE g == segs[s]
  <2>1. Tiled(g.end, g.items) /\ Listed(g.items, g.slots)
    BY <1>1, HeapSegment DEF SegmentOk
  <2> HIDE DEF g
  <2>2. g.end <= SegSize
    BY <2>1, SizesAssumption DEF Tiled, Unit
  <2>3. \A off \in DOMAIN g.items : g.items[off].usize <= g.items[off].size
    BY <2>1, TiledIs
  <2>4. \A off \in DOMAIN g.items :
          /\ off + g.items[off].size + Hdr \in DOMAIN g.items \cup {g.end}
          /\ off = Unit \/ \E q \in DOMAIN g.items : q + g.items[q].size + Hdr = off
    BY <2>1 DEF Tiled
  <2>5. \A k \in Slots :
          /\ IsInjective(g.slots[k])
          /\ \A off \in ToSet(g.slots[k]) : SlotOf(g.items[off].size) = k
    BY <2>1 DEF Listed
  <2> QED
    BY <2>2, <2>3, <2>4, <2>5 DEF g
<1> QED
  BY <1>2 DEF BlocksSound

\* The engine finds its objects again, in their blocks and with their pointers,
\* whatever it allocated, freed, resized, saved, reopened and compacted before
\* (PMalloc, PMfree, PMresize, PMptrwrite, PMptrread and PMcompact of pmem.c).
THEOREM GraphKeptHolds ==
  Spec => []GraphKept
<1>1. Inv => GraphKept
  BY GraphKeptIs
<1> QED
  BY <1>1, InvHolds, PTL

\* The blocks of a segment follow each other without a gap, none uses more than it
\* has, and a freed one is once in the list for its size and in no other (PMalloc,
\* PMfree and PMcompact).
THEOREM BlocksSoundHolds ==
  Spec => []BlocksSound
<1>1. Inv => BlocksSound
  BY BlocksSoundIs
<1> QED
  BY <1>1, InvHolds, PTL

\* Compaction keeps a block for each object of the engine and no other: what was
\* freed or forgotten is gone, and so are the lists of freed blocks (PMcompact).
THEOREM CompactionIsTightHolds ==
  Spec => CompactionIsTight
<1>1. ASSUME Inv, [Next]_vars
      PROVE  [Compact => Cardinality(Busy(segs')) = Cardinality(Live)
                         /\ \A s \in DOMAIN segs' : Freed(segs'[s]) = {}]_vars
  BY <1>1, CompactKeeps
<1> QED
  BY <1>1, InvHolds, PTL DEF Spec, CompactionIsTight
=============================================================================
