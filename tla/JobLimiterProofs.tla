-------------------------- MODULE JobLimiterProofs --------------------------
(***************************************************************************)
(* JobLimiter keeps its limit, keeps a process at work in the table, and   *)
(* implements JobSlots, for all processes and limits, kills and races for  *)
(* the lock: a race costs those it touches their slots, and nobody else.   *)
(***************************************************************************)
EXTENDS JobLimiter, FiniteSetTheorems, TLAPS

\* The variables of JobLimiter always have their types.
THEOREM TypeCorrect == Spec => []TypeOK
<1>1. Init => TypeOK
  <2> SUFFICES ASSUME Init PROVE TypeOK
    OBVIOUS
  <2>1. tab \in [Procs -> SUBSET Procs] /\ pc \in [Procs -> {"new"}] /\ phase \in [Procs -> {"start"}]
    BY DEF Init
  <2> QED
    BY <2>1 DEF Init, TypeOK
<1>2. TypeOK /\ [Next]_vars => TypeOK'
  <2> SUFFICES ASSUME TypeOK, [Next]_vars PROVE TypeOK'
    OBVIOUS
  <2> USE DEF TypeOK, Goto, procs, lock, table, race, CloseFile
  <2>1. CASE UNCHANGED vars
    BY <2>1 DEF vars
  <2>2. ASSUME NEW p \in Procs, Locking(p) PROVE TypeOK'
    <3>1. CASE Create(p)
      BY <3>1 DEF Create, PastLock
    <3>2. CASE Remove(p)
      BY <3>2 DEF Remove, NoLock
    <3>3. CASE Unlock(p)
      BY <3>3 DEF Unlock, NoLock
    <3>4. CASE Blocked(p) \/ Probe(p) \/ PrintPid(p)
      BY <3>4 DEF Blocked, Probe, PrintPid
    <3> QED
      BY <2>2, <3>1, <3>2, <3>3, <3>4 DEF Locking
  <2>3. ASSUME NEW p \in Procs, Limiting(p) PROVE TypeOK'
    <3>1. CASE Check(p) \/ Register(p) \/ Full(p)
      BY <3>1 DEF Check, Register, Full, Kept
    <3>2. CASE Unregister(p)
      BY <3>2 DEF Unregister, Kept
    <3>3. CASE Write(p) \/ Close(p)
      BY <3>3 DEF Write, Close
    <3> QED
      BY <2>3, <3>1, <3>2, <3>3 DEF Limiting
  <2>4. ASSUME NEW p \in Procs, Job(p) \/ Kill(p) PROVE TypeOK'
    <3>1. CASE Job(p)
      BY <3>1 DEF Job, Finish, LeaveEarly
    <3>2. CASE Kill(p)
      <4>1. stolen' \in BOOLEAN /\ late' \subseteq Procs
        BY <3>2 DEF Kill
      <4>2. open' \subseteq Procs /\ hurt' \subseteq Procs /\ kills' \in Nat
        BY <3>2 DEF Kill
      <4> QED
        BY <3>2, <4>1, <4>2 DEF Kill
    <3> QED
      BY <2>4, <3>1, <3>2
  <2>5. ASSUME NEW p \in Procs, ChildrenEnd(p) \/ Age(p) PROVE TypeOK'
    BY <2>5 DEF ChildrenEnd, Age
  <2>6. CASE CreateExit
    BY <2>6 DEF CreateExit
  <2> QED
    BY <2>1, <2>2, <2>3, <2>4, <2>5, <2>6 DEF Next, Step
<1> QED
  BY <1>1, <1>2, PTL DEF Spec

---------------------------------------------------------------------------
(* The lock *)

\* Unless the lock of somebody past it was stolen, who is past the lock owns the
\* lock file; the pid in the file is that of its owner; and who is about to remove a
\* lock file, of which none was made since his probe, robs nobody.
LockInv ==
  /\ ~ stolen => \A p \in Procs : Critical(p) => lockBy = p
  /\ lockPid \in {None, lockBy}
  /\ ~ stolen => \A q \in Procs : pc[q] = "rm" /\ q \notin late =>
                   \A p \in Procs : ~Critical(p)
  /\ stolen => \E p \in Procs : Critical(p)

\* Of two that are past the lock, both have been in a race (but for one that is
\* done with its slot).
RaceInv == \A p, q \in Procs : p # q /\ Critical(p) /\ Critical(q) =>
                              p \in hurt \/ pc[p] = "unlock"

LEMMA CreateStep ==
  ASSUME TypeOK, LockInv, RaceInv, NEW p \in Procs, Create(p)
  PROVE  LockInv' /\ RaceInv'
<1> USE ProcsAssumption DEF TypeOK, Create, Goto
<1>1. /\ pc' = [pc EXCEPT ![p] = "print"] /\ lockBy = None /\ lockBy' = p /\ lockPid' = None
      /\ stolen' = stolen /\ late' = {q \in Procs : pc[q] = "rm"}
  OBVIOUS
<1>2. ~ stolen => \A q \in Procs : ~ Critical(q)
  BY <1>1 DEF LockInv
<1>3. LockInv'
  BY <1>1, <1>2 DEF LockInv, Critical
<1>4. CASE stolen
  <2>1. hurt' = hurt \cup open \cup PastLock \cup {p}
    BY <1>4
  <2>2. \A q \in Procs : Critical(q)' => q = p \/ Critical(q)
    BY <1>1 DEF Critical
  <2>3. \A q \in Procs : Critical(q)' => q \in hurt'
    BY <2>1, <2>2 DEF PastLock
  <2> QED
    BY <1>3, <2>3 DEF RaceInv, Critical
<1>5. CASE ~ stolen
  <2>1. \A q \in Procs : Critical(q)' => q = p
    BY <1>1, <1>2, <1>5 DEF Critical
  <2> QED
    BY <1>3, <2>1 DEF RaceInv, Critical
<1> QED
  BY <1>3, <1>4, <1>5

LEMMA RemoveStep ==
  ASSUME TypeOK, LockInv, RaceInv, NEW p \in Procs, Remove(p)
  PROVE  LockInv' /\ RaceInv'
<1> USE ProcsAssumption DEF TypeOK, Remove, Goto, NoLock
<1>1. /\ pc' = [pc EXCEPT ![p] = "try"] /\ hurt' = hurt /\ late' = late \ {p}
      /\ lockBy' = None /\ lockPid' = None
      /\ stolen' = (stolen \/ (p \in late /\ lockBy \in PastLock))
  OBVIOUS
<1>2. \A q \in Procs : Critical(q)' <=> Critical(q)
  BY <1>1 DEF Critical
<1>3. RaceInv'
  BY <1>1, <1>2 DEF RaceInv, Critical
<1>4. CASE stolen'
  <2>1. \E q \in Procs : Critical(q)
    BY <1>1, <1>4 DEF LockInv, PastLock
  <2> QED
    BY <1>3, <1>1, <1>2, <1>4, <2>1 DEF LockInv, Critical
<1>5. CASE ~ stolen'
  <2>1. ~ stolen /\ \A q \in Procs : ~ Critical(q)
    <3>1. ~ stolen /\ ~ (p \in late /\ lockBy \in PastLock)
      BY <1>1, <1>5
    <3>2. CASE p \in late
      BY <3>1, <3>2 DEF LockInv, PastLock
    <3>3. CASE p \notin late
      BY <3>1, <3>3 DEF LockInv
    <3> QED
      BY <3>1, <3>2, <3>3
  <2> QED
    BY <1>3, <1>1, <1>2, <1>5, <2>1 DEF LockInv, Critical
<1> QED
  BY <1>3, <1>4, <1>5

\* A process leaves what it had past the lock: it unlocks, or it is killed.
LEMMA LeaveStep ==
  ASSUME TypeOK, LockInv, RaceInv, NEW p \in Procs, Unlock(p) \/ Kill(p)
  PROVE  LockInv' /\ RaceInv'
<1> USE ProcsAssumption DEF TypeOK, Goto
<1>1. /\ \E l \in {"work", "check", "gone"} : pc' = [pc EXCEPT ![p] = l]
      /\ stolen' = (stolen /\ PastLock \ {p} # {})
      /\ \/ lockBy' = lockBy /\ lockPid' = lockPid
         \/ Critical(p) /\ lockBy' = None /\ lockPid' = None
      /\ hurt' \in {hurt, hurt \ {p}} /\ late' \in {late, late \ {p}}
  <2>1. CASE Unlock(p)
    BY <2>1 DEF Unlock, NoLock, Critical
  <2>2. CASE Kill(p)
    BY <2>2 DEF Kill, CloseFile, lock
  <2> QED
    BY <2>1, <2>2
<1>2. PICK l \in {"work", "check", "gone"} : pc' = [pc EXCEPT ![p] = l]
  BY <1>1
<1>3. \A q \in Procs : Critical(q)' <=> Critical(q) /\ q # p
  BY <1>2 DEF Critical
<1>4. \A q \in Procs : q # p => pc'[q] = pc[q] /\ (q \in late' <=> q \in late) /\ (q \in hurt' <=> q \in hurt)
  BY <1>1, <1>2
<1>5. pc'[p] # "rm"
  BY <1>2
<1>6. RaceInv'
  BY <1>3, <1>4 DEF RaceInv
<1>7. stolen' => \E q \in Procs : Critical(q)'
  BY <1>1, <1>3 DEF PastLock
<1>8. ~ stolen' /\ stolen => \A q \in Procs : ~ Critical(q)'
  BY <1>1, <1>3 DEF PastLock
<1>9. lockPid' \in {None, lockBy'}
  BY <1>1 DEF LockInv
<1>10. ~ stolen => \A q \in Procs : Critical(q)' => lockBy' = q
  BY <1>1, <1>3 DEF LockInv
<1>11. ~ stolen => \A q \in Procs : pc'[q] = "rm" /\ q \notin late' =>
                     \A r \in Procs : ~Critical(r)'
  BY <1>3, <1>4, <1>5 DEF LockInv
<1>12. ~ stolen' => \A q \in Procs : Critical(q)' => lockBy' = q
  BY <1>8, <1>10
<1>13. ~ stolen' => \A q \in Procs : pc'[q] = "rm" /\ q \notin late' =>
                     \A r \in Procs : ~Critical(r)'
  BY <1>8, <1>11
<1> QED
  BY <1>6, <1>7, <1>9, <1>12, <1>13 DEF LockInv

LEMMA LockStep ==
  ASSUME TypeOK, LockInv, RaceInv, [Next]_vars
  PROVE  LockInv' /\ RaceInv'
<1> USE ProcsAssumption DEF TypeOK, Critical, Goto, procs, lock, race
<1>1. CASE UNCHANGED vars
  BY <1>1 DEF vars, LockInv, RaceInv
<1>2. ASSUME NEW p \in Procs, Create(p) \/ Remove(p) \/ Unlock(p) \/ Kill(p)
      PROVE  LockInv' /\ RaceInv'
  BY <1>2, CreateStep, RemoveStep, LeaveStep
<1>3. ASSUME NEW p \in Procs, Probe(p) \/ Blocked(p) PROVE LockInv' /\ RaceInv'
  BY <1>3 DEF Probe, Blocked, Held, Alive, LockInv, RaceInv
<1>4. ASSUME NEW p \in Procs, PrintPid(p) PROVE LockInv' /\ RaceInv'
  BY <1>4 DEF PrintPid, LockInv, RaceInv
<1>5. ASSUME NEW p \in Procs, Check(p) \/ Register(p) \/ Full(p) \/ Unregister(p) \/ Write(p)
      PROVE  LockInv' /\ RaceInv'
  BY <1>5 DEF Check, Register, Full, Unregister, Write, LockInv, RaceInv
<1>6. ASSUME NEW p \in Procs, Close(p) PROVE LockInv' /\ RaceInv'
  BY <1>6 DEF Close, CloseFile, LockInv, RaceInv
<1>7. ASSUME NEW p \in Procs, Job(p) \/ ChildrenEnd(p) \/ Age(p) PROVE LockInv' /\ RaceInv'
  BY <1>7 DEF Job, Finish, LeaveEarly, ChildrenEnd, Age, CloseFile, LockInv, RaceInv
<1>8. CASE CreateExit
  BY <1>8 DEF CreateExit, LockInv, RaceInv
<1> QED
  BY <1>1, <1>2, <1>3, <1>4, <1>5, <1>6, <1>7, <1>8 DEF Next, Step, Locking, Limiting

---------------------------------------------------------------------------
(* The table *)

\* p has not taken a slot yet
Outside(p) ==
  \/ pc[p] \in {"new", "check"}
  \/ phase[p] = "start" /\ pc[p] \in {"try", "probe", "rm", "print", "read"}
  \/ phase[p] = "again" /\ pc[p] = "unlock"

\* p has a slot and will not give it up before it is scheduled again
Inside(p) ==
  \/ pc[p] = "work"
  \/ phase[p] = "start" /\ pc[p] \in {"write", "unlock"}

\* Every open file that no race has touched is in the table, but for that of the
\* process that is about to write itself into it and of the one that has just written
\* itself out; a table about to be written misses no other such file; and no table is
\* longer than the limit.
TableInv ==
  /\ \A p \in Procs : Outside(p) => p \notin open
  /\ \A p \in Procs : Inside(p) => p \in open
  /\ \A p \in open \ hurt : p \in state \/ pc[p] = "close"
                                 \/ (pc[p] = "write" /\ phase[p] = "start")
  /\ \A p \in Procs : pc[p] = "write" =>
       /\ phase[p] # "again"
       /\ (open \ hurt) \ {p} \subseteq tab[p]
       /\ phase[p] = "start" => p \in tab[p]
       /\ Cardinality(tab[p]) <= JobMax
  /\ \A p \in Procs : pc[p] = "close" => phase[p] = "end"
  /\ Cardinality(state) <= JobMax
  /\ Cardinality(open \ hurt) <= JobMax

LEMMA SmallerSet ==
  ASSUME NEW A, NEW B \in SUBSET Procs, A \subseteq B
  PROVE /\ IsFiniteSet(A) /\ Cardinality(A) \in Nat
        /\ Cardinality(B) \in Nat /\ Cardinality(A) <= Cardinality(B)
<1>1. IsFiniteSet(B)
  BY ProcsAssumption, FS_Subset
<1> QED
  BY <1>1, FS_Subset, FS_CardinalityType

LEMMA FewerOpen ==
  ASSUME TypeOK, TableInv, open' \ hurt' \subseteq open \ hurt
  PROVE Cardinality(open' \ hurt') <= JobMax
BY SmallerSet, LimitAssumption DEF TypeOK, TableInv

\* While p reads the table nobody else with an open file that no race has touched is
\* about to write it or has just left it.
LEMMA ReadsAll ==
  ASSUME TypeOK, RaceInv, TableInv, NEW p \in Procs, pc[p] = "read"
  PROVE  (open \ hurt) \ {p} \subseteq Kept
<1> SUFFICES ASSUME NEW q \in open \ hurt, q # p PROVE q \in Kept
  OBVIOUS
<1>1. q \in Procs /\ Critical(p)
  BY DEF TypeOK, Critical
<1>2. pc[q] \notin {"write", "close"}
  BY <1>1 DEF RaceInv, Critical
<1>3. q \in state
  BY <1>2 DEF TableInv
<1> QED
  BY <1>3 DEF Kept

LEMMA RegisterStep ==
  ASSUME TypeOK, RaceInv, TableInv, NEW p \in Procs, Register(p)
  PROVE  TableInv' /\ hurt' = hurt /\ p \notin open /\ Cardinality(open \ hurt) < JobMax
<1> USE DEF TypeOK, Register, race
<1>1. p \notin open
  BY DEF TableInv, Outside
<1>2. open \ hurt \subseteq Kept
  BY <1>1, ReadsAll
<1>3. Kept \subseteq state /\ Kept \in SUBSET Procs
  BY DEF Kept
<1>4. Cardinality(open \ hurt) < JobMax /\ Cardinality(Kept) < JobMax /\ Cardinality(Kept) \in Nat
  BY <1>2, <1>3, SmallerSet, LimitAssumption DEF HasRoom
<1>5. /\ Cardinality(Kept \cup {p}) <= JobMax
      /\ Cardinality((open \cup {p}) \ hurt) <= JobMax
  <2>1. /\ IsFiniteSet(Kept) /\ Kept \cup {p} \in SUBSET Procs
        /\ (open \cup {p}) \ hurt \subseteq Kept \cup {p}
    BY <1>2, <1>3, SmallerSet
  <2>2. Cardinality(Kept \cup {p}) <= JobMax
    <3>1. Cardinality(Kept \cup {p}) = IF p \in Kept THEN Cardinality(Kept) ELSE Cardinality(Kept) + 1
      BY <2>1, FS_AddElement
    <3> HIDE DEF Kept
    <3> QED
      BY <3>1, <1>4, LimitAssumption
  <2> QED
    BY <2>1, <2>2, SmallerSet, LimitAssumption
<1>6. TableInv'
  <2>1. /\ pc' = [pc EXCEPT ![p] = "write"] /\ phase' = phase /\ state' = state /\ hurt' = hurt
        /\ tab' = [tab EXCEPT ![p] = Kept \cup {p}] /\ open' = open \cup {p}
        /\ phase[p] = "start" /\ pc[p] = "read"
    BY DEF Goto
  <2>2. \A q \in Procs : (Outside(q)' => q \notin open') /\ (Inside(q)' => q \in open')
    BY <2>1 DEF TableInv, Outside, Inside
  <2>3. \A q \in open' \ hurt' : q \in state' \/ pc'[q] = "close"
                                              \/ (pc'[q] = "write" /\ phase'[q] = "start")
    BY <2>1 DEF TableInv
  <2>4. ASSUME NEW q \in Procs, pc'[q] = "write"
        PROVE  /\ phase'[q] # "again"
               /\ (open' \ hurt') \ {q} \subseteq tab'[q]
               /\ phase'[q] = "start" => q \in tab'[q]
               /\ Cardinality(tab'[q]) <= JobMax
    <3>1. CASE q = p
      BY <1>2, <1>5, <2>1, <3>1
    <3>2. CASE q # p
      <4>1. pc[q] = "write" /\ tab'[q] = tab[q]
        BY <2>1, <2>4, <3>2
      <4>2. p \in hurt
        BY <2>1, <3>2, <4>1 DEF RaceInv, Critical
      <4> QED
        BY <2>1, <4>1, <4>2 DEF TableInv
    <3> QED
      BY <3>1, <3>2
  <2>5. \A q \in Procs : pc'[q] = "close" => phase'[q] = "end"
    BY <2>1 DEF TableInv
  <2>6. Cardinality(state') <= JobMax /\ Cardinality(open' \ hurt') <= JobMax
    BY <2>1, <1>5 DEF TableInv
  <2> QED
    BY <2>2, <2>3, <2>4, <2>5, <2>6 DEF TableInv
<1> QED
  BY <1>1, <1>4, <1>6

LEMMA UnregisterStep ==
  ASSUME TypeOK, RaceInv, TableInv, NEW p \in Procs, Unregister(p)
  PROVE TableInv'
<1> USE DEF TypeOK, Unregister, race
<1>1. (open \ hurt) \ {p} \subseteq Kept
  BY ReadsAll
<1>2. Cardinality(Kept \ {p}) <= JobMax
  <2>1. Kept \ {p} \subseteq state
    BY DEF Kept
  <2> QED
    BY <2>1, SmallerSet, LimitAssumption DEF TableInv
<1>3. /\ pc' = [pc EXCEPT ![p] = "write"] /\ phase' = phase /\ state' = state /\ open' = open
      /\ hurt' = hurt /\ tab' = [tab EXCEPT ![p] = Kept \ {p}] /\ phase[p] = "end" /\ pc[p] = "read"
  BY DEF Goto
<1>4. \A q \in Procs : (Outside(q)' => q \notin open') /\ (Inside(q)' => q \in open')
  BY <1>3 DEF TableInv, Outside, Inside
<1>5. \A q \in open' \ hurt' : q \in state' \/ pc'[q] = "close"
                                            \/ (pc'[q] = "write" /\ phase'[q] = "start")
  BY <1>3 DEF TableInv
<1>6. ASSUME NEW q \in Procs, pc'[q] = "write"
      PROVE  /\ phase'[q] # "again"
             /\ (open' \ hurt') \ {q} \subseteq tab'[q]
             /\ phase'[q] = "start" => q \in tab'[q]
             /\ Cardinality(tab'[q]) <= JobMax
  <2>1. CASE q = p
    BY <1>1, <1>2, <1>3, <2>1
  <2>2. CASE q # p
    BY <1>3, <1>6, <2>2 DEF TableInv
  <2> QED
    BY <2>1, <2>2
<1>7. \A q \in Procs : pc'[q] = "close" => phase'[q] = "end"
  BY <1>3 DEF TableInv
<1>8. Cardinality(state') <= JobMax /\ Cardinality(open' \ hurt') <= JobMax
  BY <1>3 DEF TableInv
<1> QED
  BY <1>4, <1>5, <1>6, <1>7, <1>8 DEF TableInv

LEMMA WriteStep ==
  ASSUME TypeOK, RaceInv, TableInv, NEW p \in Procs, Write(p)
  PROVE TableInv'
<1> USE DEF TypeOK, Write, race
<1>1. \A q \in open \ hurt : q # p => pc[q] # "write"
  BY DEF RaceInv, Critical
<1>2. /\ pc' = [pc EXCEPT ![p] = IF phase[p] = "end" THEN "close" ELSE "unlock"]
      /\ phase' = phase /\ open' = open /\ state' = tab[p] /\ hurt' = hurt
      /\ tab' = [tab EXCEPT ![p] = {}] /\ pc[p] = "write"
  BY DEF Goto
<1>3. phase[p] \in {"start", "end"}
  BY <1>2 DEF TableInv
<1>4. \A q \in Procs : (Outside(q)' => q \notin open') /\ (Inside(q)' => q \in open')
  BY <1>2, <1>3 DEF TableInv, Outside, Inside
<1>5. ASSUME NEW q \in open' \ hurt'
      PROVE q \in state' \/ pc'[q] = "close" \/ (pc'[q] = "write" /\ phase'[q] = "start")
  <2>1. CASE q = p
    BY <1>2, <1>3, <2>1 DEF TableInv
  <2>2. CASE q # p
    BY <1>2, <2>2 DEF TableInv
  <2> QED
    BY <2>1, <2>2
<1>6. \A q \in Procs : pc'[q] = "write" =>
        /\ phase'[q] # "again"
        /\ (open' \ hurt') \ {q} \subseteq tab'[q]
        /\ phase'[q] = "start" => q \in tab'[q]
        /\ Cardinality(tab'[q]) <= JobMax
  BY <1>2 DEF TableInv
<1>7. \A q \in Procs : pc'[q] = "close" => phase'[q] = "end"
  BY <1>2, <1>3 DEF TableInv
<1>8. Cardinality(state') <= JobMax /\ Cardinality(open' \ hurt') <= JobMax
  BY <1>2 DEF TableInv
<1> QED
  BY <1>4, <1>5, <1>6, <1>7, <1>8 DEF TableInv

LEMMA TableStep ==
  ASSUME TypeOK, RaceInv, TableInv, [Next]_vars
  PROVE TableInv'
<1>1. CASE UNCHANGED vars
  BY <1>1 DEF vars, procs, table, race, TableInv, Outside, Inside
<1>2. ASSUME NEW p \in Procs, Register(p) \/ Unregister(p) \/ Write(p) PROVE TableInv'
  BY <1>2, RegisterStep, UnregisterStep, WriteStep
<1> USE DEF TypeOK, TableInv, Goto, procs, lock, table, race, Outside, Inside
<1>3. ASSUME NEW p \in Procs, Create(p) PROVE TableInv'
  <2>1. open' \ hurt' \subseteq open \ hurt
    BY <1>3 DEF Create
  <2> QED
    BY <1>3, <2>1, FewerOpen DEF Create
<1>4. ASSUME NEW p \in Procs, Blocked(p) \/ Probe(p) PROVE TableInv'
  <2>1. open' \ hurt' \subseteq open \ hurt
    BY <1>4 DEF Blocked, Probe
  <2> QED
    BY <1>4, <2>1, FewerOpen DEF Blocked, Probe
<1>5. ASSUME NEW p \in Procs, Remove(p) \/ PrintPid(p) PROVE TableInv'
  <2>1. open' \ hurt' \subseteq open \ hurt
    BY <1>5 DEF Remove, PrintPid
  <2> QED
    BY <1>5, <2>1, FewerOpen DEF Remove, PrintPid
<1>6. ASSUME NEW p \in Procs, Unlock(p) \/ Check(p) PROVE TableInv'
  <2>1. open' \ hurt' \subseteq open \ hurt
    BY <1>6 DEF Unlock, Check
  <2> QED
    BY <1>6, <2>1, FewerOpen DEF Unlock, Check
<1>7. ASSUME NEW p \in Procs, Full(p) \/ Close(p) PROVE TableInv'
  <2>1. open' \ hurt' \subseteq open \ hurt
    BY <1>7 DEF Full, Close, CloseFile
  <2> QED
    BY <1>7, <2>1, FewerOpen DEF Full, Close, CloseFile
<1>8. ASSUME NEW p \in Procs, Job(p) PROVE TableInv'
  <2>1. open' \ hurt' \subseteq open \ hurt
    BY <1>8 DEF Job, Finish, LeaveEarly, CloseFile
  <2> QED
    BY <1>8, <2>1, FewerOpen DEF Job, Finish, LeaveEarly, CloseFile
<1>9. ASSUME NEW p \in Procs, Kill(p) PROVE TableInv'
  <2>1. open' \ hurt' \subseteq open \ hurt
    BY <1>9 DEF Kill, CloseFile
  <2> QED
    BY <1>9, <2>1, FewerOpen DEF Kill, CloseFile
<1>10. ASSUME NEW p \in Procs, ChildrenEnd(p) \/ Age(p) PROVE TableInv'
  <2>1. open' \ hurt' \subseteq open \ hurt
    BY <1>10 DEF ChildrenEnd, Age, CloseFile
  <2> QED
    BY <1>10, <2>1, FewerOpen DEF ChildrenEnd, Age, CloseFile
<1>11. CASE CreateExit
  BY <1>11 DEF CreateExit
<1> QED
  BY <1>1, <1>2, <1>3, <1>4, <1>5, <1>6, <1>7, <1>8, <1>9, <1>10, <1>11
  DEF Next, Step, Locking, Limiting

LEMMA InvHolds == Spec => [](TypeOK /\ LockInv /\ RaceInv /\ TableInv)
<1>1. Init => LockInv /\ RaceInv /\ TableInv
  BY FS_EmptySet, LimitAssumption
  DEF Init, LockInv, RaceInv, Critical, TableInv, Outside, Inside
<1>2. TypeOK /\ LockInv /\ RaceInv /\ TableInv /\ [Next]_vars => LockInv' /\ RaceInv' /\ TableInv'
  BY LockStep, TableStep
<1> QED
  BY <1>1, <1>2, TypeCorrect, PTL DEF Spec

---------------------------------------------------------------------------
(* The properties *)

\* Of processes no race has touched, never more than sdpmpjobmax have a job.
THEOREM JobLimitHolds == Spec => []JobLimit
<1>1. TableInv => JobLimit
  BY DEF TableInv, JobLimit
<1> QED
  BY <1>1, InvHolds, PTL

\* A process at work stays in the table, unless a race has touched it.
THEOREM WorkerIsRegisteredHolds == Spec => []WorkerIsRegistered
<1>1. TypeOK /\ TableInv => WorkerIsRegistered
  BY DEF TypeOK, TableInv, Inside, WorkerIsRegistered
<1> QED
  BY <1>1, InvHolds, PTL

\* Every step is one of JobSlots or leaves its jobs alone: a process enters when it
\* registers and leaves when its file is closed, or when a race touches it.
THEOREM ImplementsJobSlots == Spec => IsJobSlots
<1> DEFINE held == open \ hurt
<1>1. Init => Slots!SlotsInit
  BY DEF Init, Slots!SlotsInit
<1>2. TypeOK /\ RaceInv /\ TableInv /\ [Next]_vars => [Slots!SlotsNext]_held
  <2> SUFFICES ASSUME TypeOK, RaceInv, TableInv, [Next]_vars, held' # held
               PROVE Slots!SlotsNext
    OBVIOUS
  <2>0. ASSUME held' \subseteq held PROVE Slots!SlotsNext
    <3> DEFINE P == held \ held'
    <3>1. P \in SUBSET held /\ P # {} /\ held' = held \ P
      BY <2>0
    <3> HIDE DEF P
    <3>2. Slots!Leave(P)
      BY <3>1 DEF Slots!Leave
    <3> QED
      BY <3>1, <3>2 DEF Slots!SlotsNext
  <2>1. ASSUME NEW p \in Procs, Register(p) PROVE Slots!SlotsNext
    <3>1. p \in Procs \ open /\ Cardinality(held) < JobMax /\ open' = open \cup {p} /\ hurt' = hurt
      BY <2>1, RegisterStep DEF Register
    <3>2. Slots!Cardinality(held) = Cardinality(held)
      BY DEF Cardinality, Slots!Cardinality
    <3>3. CASE p \in hurt
      BY <3>1, <3>3
    <3>4. CASE p \notin hurt
      <4>1. held' = held \cup {p} /\ p \in Procs \ held
        BY <3>1, <3>4
      <4>2. Slots!Enter(p)
        BY <3>1, <3>2, <4>1 DEF Slots!Enter
      <4> QED
        BY <4>2 DEF Slots!SlotsNext
    <3> QED
      BY <3>3, <3>4
  <2>2. ASSUME NEW p \in Procs, Close(p) \/ Job(p) \/ Kill(p) \/ ChildrenEnd(p)
        PROVE Slots!SlotsNext
    <3>1. held' \subseteq held
      BY <2>2 DEF Close, Job, Finish, LeaveEarly, Kill, ChildrenEnd, CloseFile, table, race
    <3> QED
      BY <3>1, <2>0
  <2>3. ASSUME NEW p \in Procs, Locking(p) PROVE Slots!SlotsNext
    <3>1. held' \subseteq held
      BY <2>3 DEF Locking, Create, Blocked, Probe, Remove, PrintPid, Unlock, table, race
    <3> QED
      BY <3>1, <2>0
  <2>4. ASSUME NEW p \in Procs, Check(p) \/ Full(p) \/ Unregister(p) \/ Write(p) \/ Age(p)
        PROVE FALSE
    BY <2>4 DEF Check, Full, Unregister, Write, Age, table, race
  <2>5. CASE UNCHANGED vars
    BY <2>5 DEF vars, table, race
  <2>6. CASE CreateExit
    BY <2>6 DEF CreateExit, table, race
  <2> QED
    BY <2>1, <2>2, <2>3, <2>4, <2>5, <2>6 DEF Next, Step, Limiting
<1> QED
  BY <1>1, <1>2, InvHolds, PTL DEF Spec, IsJobSlots, Slots!SlotsSpec
=============================================================================
