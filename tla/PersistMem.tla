----------------------------- MODULE PersistMem -----------------------------
(***************************************************************************)
(* The memory the correlation engine keeps between its runs,               *)
(* src/src/cmd/vizgems/dp/alarm/ce/pm/pmem.c: blocks in segments, freed    *)
(* blocks in lists by size, and a state file of the segments with a record *)
(* for every pointer in them (misc.c, phelper). Reopening puts the         *)
(* pointers right, and compaction moves the blocks pointers lead to into   *)
(* new segments. The engine is any program that keeps a graph of objects   *)
(* there, with pointers to the beginning and into the middle of objects.   *)
(* Sizes are in units of PM_ALIGN_UNIT, and an object is its cells.        *)
(***************************************************************************)
EXTENDS Integers, FiniteSets, Sequences, SequencesExt

CONSTANTS
  Objs, Root,   \* the objects, and the one of the anchor
  Sizes, RootN, \* the lengths of objects, and of Root
  SegSize,      \* newsegmentsize
  SlotN,        \* PM_SLOT_N: the last slot is for its size and all above
  None, Null, Stale,
  MaxPtrs, MaxLeaks \* bounds: pointers, objects forgotten without PMfree

Hdr == 2        \* sizeof (PMhdr_t)
Unit == 1

ASSUME SizesAssumption ==
  /\ Sizes \subseteq Nat \ {0} /\ RootN \in Nat \ {0} /\ SlotN \in Nat \ {0, 1}
  /\ SegSize \in Nat /\ \A n \in Sizes \cup {RootN} : n + Hdr + Unit <= SegSize
  /\ Root \in Objs /\ IsFiniteSet(Objs)
\* what a cell may hold: an object, a mark, or a pointer, of the model's graph or of
\* memory; no two of these are the same, and no function is a mark
ASSUME NamesAssumption ==
  /\ None # Null /\ None # Stale /\ Null # Stale
  /\ \A x \in {None, Null, Stale} : x \notin Objs
  /\ \A x \in {None, Null, Stale} \cup Objs : x \notin Nat \X Nat /\ x \notin Objs \X Nat
  /\ \A n \in Sizes \cup {RootN} :
       None \notin [0..n - 1 -> Objs \cup {Null} \cup (Objs \X Nat)]

VARIABLES
  segs,     \* segs[s]: the end of its blocks, its blocks by offset, its slots
  anchor,
  records,  \* of the state file: where each pointer is and what it points to
  up,       \* the engine is running, with the state in memory
  lost,     \* it could not be read or compacted
  graph,    \* history: the objects the engine has; graph[o][0] is o, the
            \* other cells are Null or <<q, j>>: a pointer to cell j of q
  leaks

vars == <<segs, anchor, records, up, lost, graph, leaks>>

Slots == 1..SlotN - 1
SlotOf(n) == IF n < SlotN THEN n ELSE SlotN - 1
NewSegment ==
  [end |-> Unit, items |-> [off \in {} |-> None], slots |-> [k \in Slots |-> <<>>]]
Freed(g) == UNION {ToSet(g.slots[k]) : k \in Slots}
Busy(sg) == UNION {{s} \X (DOMAIN sg[s].items \ Freed(sg[s])) : s \in DOMAIN sg}
Item(sg, p) == sg[p[1]].items[p[2]]

Live == {o \in Objs : graph[o] # None}
IsPtr(v) == v \notin {Null, Stale, None} \cup Objs
\* where an object is: the engine's pointers to it say the same (GraphKept)
At(o) == CHOOSE p \in Busy(segs) : Item(segs, p).cells[0] = o
Addr(o, j) == <<At(o)[1], At(o)[2] + j>>

SetCell(sg, p, k, v) == [sg EXCEPT ![p[1]].items[p[2]].cells[k] = v]
SetCells(sg, p, cells) == [sg EXCEPT ![p[1]].items[p[2]].cells = cells]

---------------------------------------------------------------------------
(* PMalloc, PMfree, PMresize *)

Room(g, n) == SegSize - g.end >= n + Hdr
\* mutant: the first one is as good as any in the last slot, too
FitFirst(g, n) == IF g.slots[SlotOf(n)] = <<>> THEN 0 ELSE 1
\* first fit; in all slots but the last the first one is as good as any
Fit(g, n) == SelectInSeq(g.slots[SlotOf(n)], LAMBDA off : g.items[off].size >= n)

Carved(g, n) ==
  [g EXCEPT !.end = @ + n + Hdr,
            !.items = [off \in DOMAIN @ \cup {g.end} |->
              IF off = g.end THEN [size |-> n, usize |-> n, cells |-> <<>>] ELSE @[off]]]
Reused(g, n) ==
  [g EXCEPT !.slots[SlotOf(n)] = RemoveAt(@, Fit(g, n)),
            !.items[g.slots[SlotOf(n)][Fit(g, n)]].usize = n]

\* The first segment with room, or with a block of the slot that is large enough
PMalloc(sg, n) ==
  LET able == {s \in DOMAIN sg : Room(sg[s], n) \/ Fit(sg[s], n) # 0}
      s == Min(able)
  IN IF able = {}
     THEN [segs |-> Append(sg, Carved(NewSegment, n)), at |-> <<Len(sg) + 1, Unit>>]
     ELSE IF Room(sg[s], n)
     THEN [segs |-> [sg EXCEPT ![s] = Carved(sg[s], n)], at |-> <<s, sg[s].end>>]
     ELSE [segs |-> [sg EXCEPT ![s] = Reused(sg[s], n)],
           at |-> <<s, sg[s].slots[SlotOf(n)][Fit(sg[s], n)]>>]

PMfree(sg, p) ==
  [sg EXCEPT ![p[1]].slots[SlotOf(Item(sg, p).size)] = <<p[2]>> \o @,
             ![p[1]].items[p[2]].usize = 0, ![p[1]].items[p[2]].cells = <<>>]

\* mutant: a block that is large enough keeps its size in use
GrownInSize(sg, p, n) == SetCells(sg, p,
  [k \in 0..n - 1 |-> IF k < Item(sg, p).usize THEN Item(sg, p).cells[k] ELSE Null])
\* PMresize of a block that is large enough; the engine clears what it gains
Grown(sg, p, n) == [SetCells(sg, p,
  [k \in 0..n - 1 |-> IF k < Item(sg, p).usize THEN Item(sg, p).cells[k] ELSE Null])
     EXCEPT ![p[1]].items[p[2]].usize = n]

---------------------------------------------------------------------------
(* The engine *)

Edges(g) == {h \in Objs \X (1..Max(Sizes \cup {RootN})) :
               g[h[1]] # None /\ h[2] \in DOMAIN g[h[1]] /\ IsPtr(g[h[1]][h[2]])}
Holders(g, o) == {e \in Edges(g) : g[e[1]][e[2]][1] = o}

\* every object is reached from the anchor by pointers to beginnings
Kept(g) ==
  LET all == {o \in Objs : g[o] # None}
      Reach[n \in 0..Cardinality(Objs)] ==
        IF n = 0 THEN {Root}
        ELSE Reach[n - 1] \cup
             {q \in all : \E o \in Reach[n - 1] : \E k \in DOMAIN g[o] : g[o][k] = <<q, 0>>}
  IN Reach[Cardinality(Objs)] = all

Init ==
  /\ LET cells == [k \in 0..RootN - 1 |-> IF k = 0 THEN Root ELSE Null] IN
     /\ segs = SetCells(<<Carved(NewSegment, RootN)>>, <<1, Unit>>, cells)
     /\ graph = [o \in Objs |-> IF o = Root THEN cells ELSE None]
  /\ anchor = <<1, Unit>> /\ records = {}
  /\ up = TRUE /\ lost = FALSE /\ leaks = 0

\* cell k of p is free for a pointer
Empty(p, k) == p \in Live /\ k \in DOMAIN graph[p] /\ graph[p][k] = Null

\* a new object, cleared, and the pointer to it
New(o, n, p, k) ==
  LET a == PMalloc(segs, n)
      cells == [i \in 0..n - 1 |-> IF i = 0 THEN o ELSE Null]
  IN
  /\ up /\ o \notin Live /\ Empty(p, k) /\ Cardinality(Edges(graph)) < MaxPtrs
  /\ segs' = SetCell(SetCells(a.segs, a.at, cells), At(p), k, a.at)
  /\ graph' = [graph EXCEPT ![o] = cells, ![p][k] = <<o, 0>>]
  /\ UNCHANGED <<anchor, records, up, lost, leaks>>

Link(p, k, o, j) ==
  /\ up /\ Empty(p, k) /\ o \in Live \ {Root} /\ j \in DOMAIN graph[o]
  /\ Cardinality(Edges(graph)) < MaxPtrs
  /\ segs' = SetCell(segs, At(p), k, Addr(o, j))
  /\ graph' = [graph EXCEPT ![p][k] = <<o, j>>]
  /\ UNCHANGED <<anchor, records, up, lost, leaks>>

Unlink(p, k) ==
  /\ up /\ p \in Live /\ k \in DOMAIN graph[p] /\ IsPtr(graph[p][k])
  /\ graph' = [graph EXCEPT ![p][k] = Null] /\ Kept(graph')
  /\ segs' = SetCell(segs, At(p), k, Null)
  /\ UNCHANGED <<anchor, records, up, lost, leaks>>

\* The last pointer to o goes, and o is freed; or it is forgotten, as the
\* names of a rule are (removerule)
Drop(o, h, freed) ==
  /\ up /\ o \in Live \ {Root} /\ Holders(graph, o) = {h} /\ h[1] # o
  /\ freed \/ leaks < MaxLeaks
  /\ graph' = [graph EXCEPT ![o] = None, ![h[1]][h[2]] = Null] /\ Kept(graph')
  /\ LET sg == SetCell(segs, At(h[1]), h[2], Null) IN
     segs' = IF freed THEN PMfree(sg, At(o)) ELSE SetCell(sg, At(o), 0, None)
  /\ leaks' = IF freed THEN leaks ELSE leaks + 1
  /\ UNCHANGED <<anchor, records, up, lost>>

\* An array grows in place, or moves with its one pointer
Resize(o, h, n) ==
  LET at == At(o)
      cells == [k \in 0..n - 1 |-> IF k \in DOMAIN graph[o] THEN Item(segs, at).cells[k] ELSE Null]
      a == PMalloc(segs, n)
  IN
  /\ up /\ o \in Live \ {Root} /\ n > Cardinality(DOMAIN graph[o])
  /\ Holders(graph, o) = {h} /\ h[1] # o /\ graph[h[1]][h[2]] = <<o, 0>>
  /\ segs' = IF n <= Item(segs, at).size THEN Grown(segs, at, n)
             ELSE SetCell(PMfree(SetCells(a.segs, a.at, cells), at), At(h[1]), h[2], a.at)
  /\ graph' = [graph EXCEPT ![o] = [k \in 0..n - 1 |-> IF k \in DOMAIN @ THEN @[k] ELSE Null]]
  /\ UNCHANGED <<anchor, records, up, lost, leaks>>

---------------------------------------------------------------------------
(* PMterm, PMptrwrite and PMinit, PMptrread *)

\* the pointers phelper walks over, and the anchor's
Pointers ==
  {[from |-> None, to |-> anchor]} \cup
  {[from |-> Addr(e[1], e[2]), to |-> Item(segs, At(e[1])).cells[e[2]]] :
     e \in Edges(graph)}

EachCell(sg, F(_, _, _)) ==
  [s \in DOMAIN sg |->
    [sg[s] EXCEPT !.items = [off \in DOMAIN sg[s].items |->
      LET b == sg[s].items[off] IN
      [b EXCEPT !.cells = [k \in DOMAIN b.cells |-> F(s, off + k, b.cells[k])]]]]]

\* the segments will be elsewhere when they are read again
Save ==
  /\ up /\ ~lost /\ up' = FALSE
  /\ records' = Pointers
  /\ segs' = EachCell(segs, LAMBDA s, a, v : IF IsPtr(v) THEN Stale ELSE v)
  /\ anchor' = None
  /\ UNCHANGED <<lost, graph, leaks>>

\* what the file says of the pointer at an address
PtrRead(s, a, v) ==
  IF \E r \in records : r.from = <<s, a>>
  THEN (CHOOSE r \in records : r.from = <<s, a>>).to ELSE v

Open ==
  /\ ~up /\ ~lost /\ up' = TRUE
  /\ segs' = EachCell(segs, PtrRead)
  /\ anchor' = (CHOOSE r \in records : r.from = None).to
  /\ records' = {}
  /\ UNCHANGED <<lost, graph, leaks>>

---------------------------------------------------------------------------
(* PMcompact *)

Lower(p, q) == p[1] < q[1] \/ (p[1] = q[1] /\ p[2] < q[2])
Ordered(S) == [i \in 1..Cardinality(S) |->
                 CHOOSE p \in S : Cardinality({q \in S : Lower(q, p)}) = i - 1]
Targets == {r.to : r \in records}
\* mutant: all blocks with a header are moved; a freed one has its header still
BlocksAll ==
  Ordered(UNION {{s} \X DOMAIN segs[s].items : s \in DOMAIN segs})
\* the targets with a header, lowest first: the blocks that are moved
Blocks == Ordered({t \in Targets : t[2] \in DOMAIN segs[t[1]].items})
FullSize(b) == Item(segs, b).usize + Hdr

Covers(b, t) == t[1] = b[1] /\ t[2] \in b[2]..b[2] + FullSize(b) - 1

\* the segment and its end after the first i blocks
End[i \in 0..Len(Blocks)] ==
  IF i = 0 THEN <<1, Unit>>
  ELSE LET e == End[i - 1]
           n == FullSize(Blocks[i])
       IN IF SegSize - e[2] >= n THEN <<e[1], e[2] + n>> ELSE <<e[1] + 1, Unit + n>>
NewAt(i) == <<End[i][1], End[i][2] - FullSize(Blocks[i])>>

BlockOf(t) == SelectInSeq(Blocks, LAMBDA b : Covers(b, t))
Moved(t) == <<NewAt(BlockOf(t))[1], NewAt(BlockOf(t))[2] + t[2] - Blocks[BlockOf(t)][2]>>

\* the block at i, with the pointers in it
Copy(i) ==
  LET b == Blocks[i]
      n == Item(segs, b).usize
      Cell(k) == LET v == PtrRead(b[1], b[2] + k, Item(segs, b).cells[k])
                 IN IF IsPtr(v) THEN Moved(v) ELSE v
  IN [size |-> n, usize |-> n,
      cells |-> [k \in DOMAIN Item(segs, b).cells \cap 0..n - 1 |-> Cell(k)]]

Compacted ==
  [s \in 1..End[Len(Blocks)][1] |->
    LET here == {i \in DOMAIN Blocks : NewAt(i)[1] = s} IN
    [NewSegment EXCEPT
       !.end = Max({End[i][2] : i \in here}),
       !.items = [off \in {NewAt(i)[2] : i \in here} |->
                    Copy(CHOOSE i \in here : NewAt(i)[2] = off)]]]

\* no target is left over (abort), no pointer is outside the blocks moved
Handled ==
  /\ \A t \in Targets : BlockOf(t) # 0
  /\ \A r \in records : r.from # None => BlockOf(r.from) # 0

\* the anchor is taken to be the first pointer in the order of the targets; a
\* pointer that cannot be handled ends the engine
Compact ==
  /\ ~up /\ ~lost
  /\ up' = TRUE
  /\ segs' = IF Handled THEN Compacted ELSE segs
  /\ anchor' = IF Handled
               THEN Moved(CHOOSE t \in Targets : \A u \in Targets : ~Lower(u, t))
               ELSE anchor
  /\ lost' = ~Handled
  /\ records' = {}
  /\ leaks' = 0
  /\ UNCHANGED graph

---------------------------------------------------------------------------

Cells == 1..Max(Sizes \cup {RootN}) - 1

Next ==
  \/ \E o, p \in Objs, k \in Cells :
       \/ \E n \in Sizes : New(o, n, p, k)
       \/ \E j \in Cells \cup {0} : Link(p, k, o, j)
       \/ \E freed \in BOOLEAN : Drop(o, <<p, k>>, freed)
       \/ \E n \in Sizes : Resize(o, <<p, k>>, n)
  \/ \E p \in Objs, k \in Cells : Unlink(p, k)
  \/ Save \/ Open \/ Compact

Spec == Init /\ [][Next]_vars

---------------------------------------------------------------------------
(* Properties *)

\* The engine finds its objects again: each is in one block, with its cells and
\* its pointers to and into other objects, and the anchor leads to the first of
\* them, whatever was freed, resized, saved, reopened and compacted before.
GraphKept ==
  /\ ~lost
  /\ up =>
      /\ anchor = At(Root)
      /\ \A o \in Live :
           /\ Cardinality({p \in Busy(segs) : Item(segs, p).cells[0] = o}) = 1
           /\ Item(segs, At(o)).cells = [k \in DOMAIN graph[o] |->
                IF IsPtr(graph[o][k]) THEN Addr(graph[o][k][1], graph[o][k][2])
                ELSE graph[o][k]]

\* The blocks of a segment follow each other without a gap, none uses more than
\* it has, and a freed one is once in the list for its size and in no other.
BlocksSound ==
  \A s \in DOMAIN segs : LET g == segs[s] IN
    /\ g.end <= SegSize
    /\ \A off \in DOMAIN g.items :
         /\ g.items[off].usize <= g.items[off].size
         /\ off + g.items[off].size + Hdr \in DOMAIN g.items \cup {g.end}
         /\ off = Unit \/ \E q \in DOMAIN g.items : q + g.items[q].size + Hdr = off
    /\ \A k \in Slots :
         /\ IsInjective(g.slots[k])
         /\ \A off \in ToSet(g.slots[k]) : SlotOf(g.items[off].size) = k

\* Compaction takes along what the engine has and nothing else: what was freed
\* or forgotten before is gone.
CompactionIsTight ==
  [][Compact => Cardinality(Busy(segs')) = Cardinality(Live)
                  /\ \A s \in DOMAIN segs' : Freed(segs'[s]) = {}]_vars
=============================================================================
