---------------------------- MODULE VgSchedProofs ----------------------------
(***************************************************************************)
(* Invariants of VgSched, for all jobs, groups, schedule files, times,     *)
(* limits and pids. First the type invariant and, when there is no         *)
(* reloading or every <group> tag validates, the limit on the jobs the     *)
(* daemon believes to be running. The limit is not inductive: it rests on  *)
(* the counter curjobn, which is only exact while scheduleexec runs        *)
(* (CountInv says what it is before). Then the properties that relate what *)
(* the daemon believes to the processes there are. They rest on invariants *)
(* of the table of exits (TableInv, MarkInv, StaleInv), of the pids of the *)
(* schedules (PidInv), of their times (TimeInv) and of the group counters  *)
(* (GroupInv), and, without reloading, on KnownInv: every child that is    *)
(* there or waits to be reported is named by a schedule that runs.         *)
(***************************************************************************)
EXTENDS VgSched, FiniteSetTheorems, WellFoundedInduction, TLAPS

\* A set of naturals that is not empty has a least element. (The initial
\* segments 0..n of its elements are finite sets: one of them is minimal.)
LEMMA LeastOfNat ==
  ASSUME NEW S \in SUBSET Nat, S # {}
  PROVE  LeastOf(S) \in S /\ \A m \in S : LeastOf(S) <= m
<1> DEFINE Segments == {0..n : n \in S}
<1>1. IsWellFoundedOn(StrictSubsetOrdering(Nat), FiniteSubsetsOf(Nat))
  BY FS_StrictSubsetOrderingWellFounded
<1>2. Segments \subseteq FiniteSubsetsOf(Nat) /\ Segments # {}
  <2>1. ASSUME NEW n \in S PROVE 0..n \in FiniteSubsetsOf(Nat)
    <3>1. IsFiniteSet(0..n)
      BY FS_Interval
    <3>2. 0..n \subseteq Nat
      OBVIOUS
    <3> QED
      BY <3>1, <3>2 DEF FiniteSubsetsOf
  <2> QED
    BY <2>1, Zenon
<1>3. PICK T \in Segments :
        \A U \in Segments : ~ (<<U, T>> \in StrictSubsetOrdering(Nat))
  <2> HIDE DEF Segments
  <2> QED
    BY <1>1, <1>2, WFMin, Zenon
<1>4. PICK n \in S : T = 0..n
  OBVIOUS
<1>5. \A m \in S : n <= m
  <2> SUFFICES ASSUME NEW m \in S, m < n PROVE FALSE
    OBVIOUS
  <2>1. 0..m \subseteq 0..n /\ n \in 0..n /\ n \notin 0..m
    OBVIOUS
  <2>2. <<0..m, 0..n>> \in StrictSubsetOrdering(Nat)
    BY <2>1 DEF StrictSubsetOrdering
  <2> QED
    BY <1>3, <1>4, <2>2
<1> QED
  BY <1>5 DEF LeastOf
---------------------------------------------------------------------------
(* The type invariant *)

LEMMA ScheduleOfJob ==
  ASSUME TypeOK, NEW j \in Jobs
  PROVE  sched[j] \in Schedule
BY DEF TypeOK

LEMMA EntriesOfFile ==
  ASSUME NEW f \in Files, NEW i \in DOMAIN f
  PROVE  /\ f[i] \in Entry /\ i \in Nat
         /\ \A k \in DOMAIN f : f[i].job = f[k].job => i = k
<1>1. f \in Seq(Entry)
  BY FilesAssumption
<1> QED
  BY <1>1, FilesAssumption

LEMMA JobsOfFile ==
  ASSUME NEW f \in Files
  PROVE  JobsOf(f) \subseteq Jobs
BY EntriesOfFile DEF JobsOf, Valid, Entry

LEMMA LoadedJobs == TypeOK => Loaded \subseteq Jobs
BY JobsOfFile DEF TypeOK, Loaded

LEMMA TypeUpdate == ASSUME TypeOK, Update PROVE TypeOK'
<1>1. ASSUME NEW j \in Jobs PROVE Updated(j) \in Schedule
  <2>1. sched[j] \in Schedule
    BY ScheduleOfJob
  <2>2. CASE Upcoming(j) # {}
    <3>1. LeastOf(Upcoming(j)) \in Nat
      BY <2>2, LeastOfNat, TimesAssumption DEF Upcoming
    <3> QED
      BY <2>1, <3>1 DEF Updated, Schedule
  <2> QED
    BY <2>1, <2>2 DEF Updated, Schedule
<1>2. sched' \in [Jobs -> Schedule]
  BY <1>1, ScheduleOfJob DEF Update
<1> QED
  BY <1>2 DEF Update, TypeOK, author, kernel

LEMMA LastInUse ==
  ASSUME TypeOK, InUse # {}
  PROVE  LET n == CHOOSE i \in InUse : \A k \in InUse : k <= i IN
         n \in 1..SigDataN /\ \A k \in InUse : k <= n
<1> DEFINE Back == {SigDataN - i : i \in InUse}
<1>1. Back \in SUBSET Nat /\ Back # {}
  BY ParamsAssumption DEF InUse, Slot
<1>2. LeastOf(Back) \in Back /\ \A m \in Back : LeastOf(Back) <= m
  BY <1>1, LeastOfNat
<1>3. PICK i \in InUse : LeastOf(Back) = SigDataN - i
  BY <1>2
<1>4. ASSUME NEW k \in InUse PROVE k <= i
  <2>1. SigDataN - i <= SigDataN - k
    BY <1>2, <1>3
  <2> QED
    BY <2>1, ParamsAssumption DEF InUse, Slot
<1> QED
  BY <1>4 DEF InUse, Slot

LEMMA TypeMark == ASSUME TypeOK, ReapMark PROVE TypeOK'
<1>1. sdm' \in 0..SigDataN
  BY LastInUse, ParamsAssumption DEF ReapMark
<1>2. sigdata' \in [Slot -> Exits]
  <2>1. ASSUME NEW i \in Slot
        PROVE  [sigdata[i] EXCEPT !.marked = i \in InUse] \in Exits
    <3>1. sigdata[i] \in Exits
      BY DEF TypeOK
    <3>2. (i \in InUse) \in BOOLEAN
      OBVIOUS
    <3> QED
      BY <3>1, <3>2 DEF Exits
  <2> QED
    BY <2>1 DEF ReapMark
<1> QED
  BY <1>1, <1>2, LoadedJobs DEF ReapMark, TypeOK, author, kernel

LEMMA TypeReap == ASSUME TypeOK, NEW j \in Jobs, Reap(j) PROVE TypeOK'
<1>1. Reaped(j) \in [Jobs -> Schedule]
  <2> DEFINE s == [sched[j] EXCEPT !.running = FALSE, !.late = FALSE, !.pid = NoPid]
  <2>1. s \in Schedule
    BY ScheduleOfJob DEF Schedule
  <2>2. Reaped(j) = [sched EXCEPT ![j] = s]
    BY DEF Reaped
  <2>3. sched \in [Jobs -> Schedule]
    BY DEF TypeOK
  <2> HIDE DEF s
  <2> QED
    BY <2>1, <2>2, <2>3
<1>2. cur \in [Groups -> Nat] /\ CountRunning(j)
        => curjobn' \in Nat /\ cur' \in [Groups -> Nat]
  BY DEF TypeOK, CountRunning
<1>3. CASE SkipIdle(j)
  BY <1>3 DEF SkipIdle, TypeOK, author, kernel
<1>4. CASE ReapExited(j)
  <2>1. FreeSlot \in Exits
    BY DEF FreeSlot, Exits
  <2>2. PICK i \in Matches(j) : sigdata' = [sigdata EXCEPT ![i] = FreeSlot]
    BY <1>4 DEF ReapExited
  <2>3. sigdata' \in [Slot -> Exits]
    BY <2>1, <2>2 DEF TypeOK
  <2> QED
    BY <1>1, <1>4, <2>3 DEF ReapExited, TypeOK, author, kernel
<1>5. CASE NoExitSeen(j)
  BY <1>5 DEF NoExitSeen, TypeOK, author, kernel
<1>6. CASE StillRunning(j)
  BY <1>2, <1>6 DEF StillRunning, TypeOK, author, kernel
<1>7. CASE KillLate(j)
  <2>1. sched' \in [Jobs -> Schedule]
    BY <1>7, ScheduleOfJob DEF KillLate, TypeOK, Schedule
  <2>2. proc' \in [Pids -> Process]
    <3>1. \A i \in Pids : \A x \in {"zombie", proc[i].st} : [proc[i] EXCEPT !.st = x] \in Process
      BY DEF TypeOK, Process
    <3>2. proc \in [Pids -> Process]
      BY DEF TypeOK
    <3> DEFINE p == sched[j].pid
               x == IF proc[p].st = "alive" THEN "zombie" ELSE proc[p].st
    <3>3. proc' = [proc EXCEPT ![p] = [proc[p] EXCEPT !.st = x]]
      BY <1>7 DEF KillLate
    <3>4. x \in {"zombie", proc[p].st}
      OBVIOUS
    <3> HIDE DEF p, x
    <3> QED
      BY <3>1, <3>2, <3>3, <3>4
  <2> QED
    BY <1>2, <1>7, <2>1, <2>2 DEF KillLate, TypeOK, author
<1>8. CASE ReapVanished(j)
  BY <1>1, <1>8 DEF ReapVanished, TypeOK, author, kernel
<1> QED
  BY <1>3, <1>4, <1>5, <1>6, <1>7, <1>8 DEF Reap

LEMMA TypeLaunch ==
  ASSUME TypeOK, NEW j \in Jobs, NEW p \in Pids, Launch(j, p) PROVE TypeOK'
<1> DEFINE s == [sched[j] EXCEPT !.scheduled = FALSE, !.running = TRUE,
                              !.late = FALSE, !.nt = ct, !.pid = p]
<1>1. sched' \in [Jobs -> Schedule]
  <2>1. s \in Schedule
    BY ScheduleOfJob DEF TypeOK, Schedule
  <2>2. sched' = [sched EXCEPT ![j] = s]
    BY DEF Launch, TypeOK
  <2> QED
    BY <2>1, <2>2 DEF TypeOK
<1>2. proc' \in [Pids -> Process]
  BY DEF Launch, TypeOK, Process
<1>3. curjobn' \in Nat /\ cur' \in [Groups -> Nat]
  BY DEF Launch, CountRunning, TypeOK
<1> QED
  BY <1>1, <1>2, <1>3 DEF Launch, TypeOK, author

LEMMA TypeExec ==
  ASSUME TypeOK, NEW j \in Jobs, Exec(j) \/ LaunchFails(j) \/ LaunchFatal(j)
  PROVE  TypeOK'
<1>1. CASE SkipJob(j)
  BY <1>1 DEF SkipJob, TypeOK, author, kernel
<1>2. CASE Incomplete(j)
  BY <1>2 DEF Incomplete, TypeOK, author, kernel
<1>3. CASE LaunchFails(j)
  BY <1>3 DEF LaunchFails, TypeOK, author, kernel
<1>4. CASE LaunchFatal(j)
  BY <1>4 DEF LaunchFatal, TypeOK, author, kernel
<1> QED
  BY <1>1, <1>2, <1>3, <1>4, TypeLaunch DEF Exec

LEMMA NoScheduleType == NoSchedule \in Schedule
BY DEF NoSchedule, Schedule

\* Every entry of the dictionary points at a slot of the table.
LEMMA DictSlotType ==
  ASSUME NEW f \in Files, NEW j, DictSlot(f, j) # {}
  PROVE  LET k == CHOOSE k \in DictSlot(f, j) : TRUE IN
         k \in Valid(f) /\ f[k].job \in Jobs
BY EntriesOfFile DEF DictSlot, Valid, Entry

LEMMA TypeReload == ASSUME TypeOK, Reload PROVE TypeOK'
<1>1. sched' \in [Jobs -> Schedule]
  BY ScheduleOfJob, NoScheduleType, DictSlotType DEF Reload, Carried, TypeOK
<1>2. cur' \in [Groups -> Nat]
  BY DEF Reload, TypeOK
<1> QED
  BY <1>1, <1>2 DEF Reload, TypeOK, kernel

LEMMA TypeRestart == ASSUME TypeOK, Restart PROVE TypeOK'
<1>1. sched' \in [Jobs -> Schedule]
  BY NoScheduleType DEF Restart
<1>2. sigdata' \in [Slot -> Exits]
  BY DEF Restart, FreeSlot, Exits
<1>3. proc' \in [Pids -> Process]
  <2>1. ASSUME NEW p \in Pids PROVE Orphaned(proc[p]) \in Process
    <3>1. proc[p] \in Process
      BY DEF TypeOK
    <3>2. NoProc \in Process
      BY DEF NoProc, Process
    <3>3. CASE proc[p].st = "alive"
      BY <3>1, <3>3 DEF Orphaned, Process
    <3>4. CASE proc[p].st = "zombie"
      BY <3>2, <3>4 DEF Orphaned
    <3>5. CASE proc[p].st \notin {"alive", "zombie"}
      BY <3>1, <3>5 DEF Orphaned
    <3> QED
      BY <3>3, <3>4, <3>5
  <2> QED
    BY <2>1 DEF Restart
<1>4. sdm' \in 0..SigDataN
  BY ParamsAssumption DEF Restart
<1>5. cur' \in [Groups -> Nat]
  BY DEF Restart
<1>6. /\ pc' = "update" /\ ct' \in Nat /\ st' \in Nat /\ starts' \in Nat
      /\ todo' = {} /\ curjobn' = 0 /\ launchfailures' = 0
  BY DEF Restart, TypeOK
<1>7. loaded' \in Files /\ disk' \in Files /\ desc' \subseteq Pids
  BY DEF Restart, TypeOK
<1>8. newer' \in BOOLEAN
  BY Zenon DEF Restart
<1> QED
  BY <1>1, <1>2, <1>3, <1>4, <1>5, <1>6, <1>7, <1>8 DEF TypeOK

LEMMA TypeOther ==
  ASSUME TypeOK,
         \/ ReapSweep \/ Clock \/ ClockBack \/ ExecEnd \/ Exit \/ NoReload
         \/ ReloadFails
  PROVE  TypeOK'
<1>1. CASE ReapSweep
  <2>1. sigdata' \in [Slot -> Exits]
    BY <1>1 DEF ReapSweep, TypeOK, Exits, FreeSlot
  <2>2. sdm' \in 0..SigDataN
    BY <1>1, ParamsAssumption DEF ReapSweep
  <2> QED
    BY <1>1, <2>1, <2>2 DEF ReapSweep, TypeOK, author, kernel
<1>2. CASE Clock
  <2>1. ct' \in Nat
    BY <1>2, ParamsAssumption DEF Clock, TypeOK
  <2> QED
    BY <1>2, <2>1, LoadedJobs DEF Clock, TypeOK, author, kernel
<1>3. CASE ClockBack
  BY <1>3 DEF ClockBack, TypeOK, author, kernel
<1>4. CASE ExecEnd
  BY <1>4 DEF ExecEnd, TypeOK, author, kernel
<1>5. CASE Exit
  BY <1>5 DEF Exit, TypeOK, author, kernel
<1>6. CASE NoReload
  BY <1>6 DEF NoReload, TypeOK, author, kernel
<1>7. CASE ReloadFails
  BY <1>7 DEF ReloadFails, TypeOK, author, kernel
<1> QED
  BY <1>1, <1>2, <1>3, <1>4, <1>5, <1>6, <1>7

LEMMA TypeAround ==
  ASSUME TypeOK, Environment \/ \E p \in Pids : SigChld(p)
  PROVE  TypeOK'
<1> USE DEF TypeOK, Process, NoProc
<1>1. ASSUME NEW p \in Pids, SigChld(p) PROVE TypeOK'
  <2>1. sigdata' \in [Slot -> Exits]
    BY <1>1 DEF SigChld, Exits
  <2> QED
    BY <1>1, <2>1 DEF SigChld, daemon, author
<1>2. ASSUME NEW p \in Pids, JobExits(p) PROVE TypeOK'
  BY <1>2 DEF JobExits, daemon, author
<1>3. ASSUME NEW p \in Pids, GroupEnds(p) PROVE TypeOK'
  BY <1>3 DEF GroupEnds, daemon, author
<1>4. ASSUME NEW f \in Files, Edit(f) PROVE TypeOK'
  BY <1>4 DEF Edit, daemon, kernel
<1> QED
  BY <1>1, <1>2, <1>3, <1>4 DEF Environment

\* The variables of the daemon and of its surroundings always have their types.
THEOREM TypeCorrect == Spec => []TypeOK
<1>1. Init => TypeOK
  <2> SUFFICES ASSUME Init PROVE TypeOK
    OBVIOUS
  <2>1. sched \in [Jobs -> Schedule]
    BY NoScheduleType DEF Init
  <2>2. sigdata \in [Slot -> Exits] /\ proc \in [Pids -> Process]
    BY DEF Init, Exits, FreeSlot, Process, NoProc
  <2>3. sdm \in 0..SigDataN
    BY ParamsAssumption DEF Init
  <2>4. cur \in [Groups -> Nat]
    BY DEF Init
  <2> QED
    BY <2>1, <2>2, <2>3, <2>4 DEF Init, TypeOK
<1>2. TypeOK /\ [Next]_vars => TypeOK'
  <2> SUFFICES ASSUME TypeOK, [Next]_vars PROVE TypeOK'
    OBVIOUS
  <2>1. CASE UNCHANGED vars
    BY <2>1 DEF vars, daemon, kernel, author, TypeOK
  <2>2. CASE Loop
    BY <2>2, TypeUpdate, TypeMark, TypeReap, TypeExec, TypeReload, TypeOther
       DEF Loop
  <2>3. CASE Trouble
    BY <2>3, TypeExec, TypeOther DEF Trouble
  <2>4. CASE Restart
    BY <2>4, TypeRestart
  <2>5. CASE Environment \/ \E p \in Pids : SigChld(p)
    BY <2>5, TypeAround
  <2> QED
    BY <2>1, <2>2, <2>3, <2>4, <2>5 DEF Next
<1> QED
  BY <1>1, <1>2, PTL DEF Spec

---------------------------------------------------------------------------
(* The job limit *)

\* Every <group> tag of the schedule files validates. When one does not, an
\* entry can come by the state of another job (see VgSched!OwnProcess), and so
\* be believed to run without having been launched.
GroupsValidate == \A f \in Files : \A i \in DOMAIN f : f[i].grp # BadGroup
\* Then, or without reloading, no state is carried over to another job
Trusted == Sc = 0 \/ GroupsValidate

\* The counter of the daemon is exact when launches are decided, and on the way
\* there while the schedules are counted one by one.
CountInv ==
  /\ JobLimit
  /\ pc \in {"reap", "late", "exec"} => todo \subseteq Loaded
  /\ pc \in {"reap", "late"} => curjobn = Cardinality(Running \ todo)
  /\ pc = "late" => \A j \in todo : FirstInFile(j) => sched[j].running
  /\ pc \in {"clock", "exec", "check"} => curjobn = Cardinality(Running)

LEMMA RunningFinite ==
  ASSUME TypeOK
  PROVE  /\ IsFiniteSet(Running) /\ Cardinality(Running) \in Nat
         /\ \A T \in SUBSET Running :
              /\ IsFiniteSet(T) /\ Cardinality(T) \in Nat
              /\ Cardinality(T) <= Cardinality(Running)
<1>1. Running \in SUBSET Jobs
  BY LoadedJobs DEF Running
<1>2. IsFiniteSet(Running)
  BY <1>1, FS_Subset, IdsAssumption
<1> QED
  BY <1>2, FS_Subset, FS_CardinalityType

\* The place of a job in the file that is loaded is its own.
LEMMA PosIsOwn ==
  ASSUME TypeOK, NEW j \in Loaded
  PROVE  Pos(j) \in DOMAIN loaded /\ Pos(j) \in Nat /\ loaded[Pos(j)].job = j
<1>1. PICK i \in DOMAIN loaded : loaded[i].job = j
  BY DEF Loaded, JobsOf, Valid
<1>2. Pos(j) \in DOMAIN loaded /\ loaded[Pos(j)].job = j
  BY <1>1 DEF Pos
<1> QED
  BY <1>2, EntriesOfFile DEF TypeOK

LEMMA OneIsFirst ==
  ASSUME TypeOK, todo \subseteq Loaded, NEW j, NEW k, FirstInFile(j), FirstInFile(k)
  PROVE  j = k
<1>1. j \in Loaded /\ k \in Loaded /\ Pos(j) <= Pos(k) /\ Pos(k) <= Pos(j)
  BY DEF FirstInFile
<1>2. Pos(j) = Pos(k)
  BY <1>1, PosIsOwn
<1> QED
  BY <1>1, <1>2, PosIsOwn

\* A step that leaves schedules, counter and loop alone leaves the count right.
LEMMA CountUnchanged ==
  ASSUME CountInv, UNCHANGED <<pc, sched, loaded, todo, curjobn>>
  PROVE  CountInv'
BY DEF CountInv, JobLimit, Running, Loaded, FirstInFile, Pos

LEMMA CountReap ==
  ASSUME TypeOK, CountInv, NEW j \in Jobs, Reap(j)
  PROVE  CountInv'
<1>1. j \in todo /\ todo \subseteq Loaded /\ curjobn = Cardinality(Running \ todo)
      /\ loaded' = loaded /\ FirstInFile(j)
  BY DEF Reap, SkipIdle, ReapExited, NoExitSeen, StillRunning, KillLate,
         ReapVanished, FirstInFile, CountInv
<1>2. CASE SkipIdle(j)
  <2>1. Running' = Running /\ Running \ todo' = Running \ todo
    BY <1>1, <1>2 DEF SkipIdle, Running, Loaded
  <2> QED
    BY <1>1, <1>2, <2>1 DEF SkipIdle, CountInv, JobLimit, Loaded
<1>3. CASE ReapExited(j) \/ ReapVanished(j)
  <2> /\ sched' = Reaped(j) /\ todo' = todo \ {j}
    BY <1>3 DEF ReapExited, ReapVanished
  <2>1. Running' = Running \ {j} /\ todo' = todo \ {j}
    <3>1. \A k \in Loaded \ {j} : sched'[k].running = sched[k].running
      BY LoadedJobs DEF Reaped, TypeOK
    <3>2. ~sched'[j].running
      BY ScheduleOfJob DEF Reaped, TypeOK, Schedule
    <3> QED
      BY <1>1, <3>1, <3>2 DEF Running, Loaded
  <2>2. Running' \ todo' = Running \ todo
    BY <1>1, <2>1
  <2>3. Cardinality(Running') <= Cardinality(Running)
        /\ Cardinality(Running') \in Nat /\ Cardinality(Running) \in Nat
    BY <2>1, RunningFinite
  <2>4. JobLimit'
    BY <2>3, ParamsAssumption DEF CountInv, JobLimit
  <2> QED
    BY <1>1, <1>3, <2>1, <2>2, <2>4
       DEF ReapExited, ReapVanished, CountInv, Loaded
<1>4. CASE NoExitSeen(j)
  <2>1. Running' = Running /\ todo' = todo
    BY <1>4 DEF NoExitSeen, Running, Loaded
  <2>2. \A k \in todo : FirstInFile(k) => sched[k].running
    BY <1>1, <1>4, OneIsFirst DEF NoExitSeen
  <2> QED
    BY <1>1, <1>4, <2>1, <2>2
       DEF NoExitSeen, CountInv, JobLimit, Loaded, FirstInFile, Pos
<1>5. CASE StillRunning(j) \/ KillLate(j)
  <2>1. j \in Running
    BY <1>1, <1>5 DEF StillRunning, KillLate, CountInv, Running
  <2>2. Running' = Running /\ todo' = todo \ {j} /\ curjobn' = curjobn + 1
    <3>1. todo' = todo \ {j} /\ curjobn' = curjobn + 1
      BY <1>5 DEF StillRunning, KillLate, CountRunning
    <3>2. sched' = sched \/ sched' = [sched EXCEPT ![j].late = TRUE]
      BY <1>5 DEF StillRunning, KillLate
    <3>3. \A k \in Loaded : sched'[k].running = sched[k].running
      BY <3>2, ScheduleOfJob, LoadedJobs DEF TypeOK, Schedule
    <3> QED
      BY <1>1, <3>1, <3>3 DEF Running, Loaded
  <2>3. Running \ todo' = (Running \ todo) \cup {j}
    BY <1>1, <2>1, <2>2
  <2>4. Cardinality(Running \ todo') = curjobn + 1
    BY <1>1, <2>3, FS_AddElement, RunningFinite
  <2> QED
    BY <1>1, <1>5, <2>2, <2>4 DEF StillRunning, KillLate, CountInv, JobLimit, Loaded
<1> QED
  BY <1>2, <1>3, <1>4, <1>5 DEF Reap

LEMMA CountLaunch ==
  ASSUME TypeOK, CountInv, NEW j \in Jobs, NEW p \in Pids, Launch(j, p)
  PROVE  CountInv'
<1>1. pc = "exec" /\ j \in todo /\ ~sched[j].running /\ ~Full
  BY DEF Launch, MayLaunch, FirstInOrder, Due
<1>2. j \in Loaded /\ j \notin Running /\ curjobn = Cardinality(Running)
  BY <1>1 DEF CountInv, Running
<1>3. Running' = Running \cup {j}
  BY <1>2 DEF Launch, Running, Loaded, TypeOK, Schedule
<1>4. Cardinality(Running') = curjobn + 1
  BY <1>2, <1>3, RunningFinite, FS_AddElement
<1>5. curjobn <= MaxJobN
  BY <1>1, ParamsAssumption DEF Full, TypeOK
<1>6. JobLimit'
  BY <1>4, <1>5, ParamsAssumption DEF JobLimit, TypeOK
<1> QED
  BY <1>1, <1>4, <1>6 DEF Launch, CountRunning, CountInv, Loaded

LEMMA CountExec ==
  ASSUME TypeOK, CountInv, NEW j \in Jobs, Exec(j) \/ LaunchFails(j) \/ LaunchFatal(j)
  PROVE  CountInv'
<1> USE DEF CountInv, JobLimit, Running, Loaded
<1>1. CASE SkipJob(j)
  BY <1>1 DEF SkipJob
<1>2. CASE Incomplete(j)
  BY <1>2 DEF Incomplete
<1>3. CASE LaunchFails(j)
  <2>1. pc = "exec" /\ (pc' = "exec" \/ pc' = "done")
    BY <1>3 DEF LaunchFails, MayLaunch
  <2>2. Running' = Running /\ UNCHANGED <<loaded, sched, curjobn>> /\ todo' = {}
    BY <1>3 DEF LaunchFails
  <2> QED
    BY <2>1, <2>2
<1>4. CASE LaunchFatal(j)
  BY <1>4 DEF LaunchFatal
<1> QED
  BY <1>1, <1>2, <1>3, <1>4, CountLaunch DEF Exec

\* Without refused entries a job's dictionary slot is its place in the file.
LEMMA CarriedIsOwn ==
  ASSUME GroupsValidate, NEW f \in Files, NEW was \in Files, NEW old,
         NEW j \in Jobs, Carried(f, was, old)[j].running
  PROVE  j \in JobsOf(f) /\ j \in JobsOf(was) /\ old[j].running
<1>1. j \in JobsOf(f) /\ DictSlot(was, j) # {}
  BY DEF Carried, NoSchedule
<1> DEFINE k == CHOOSE k \in DictSlot(was, j) : TRUE
<1>2. k \in DictSlot(was, j) /\ old[was[k].job].running
  BY <1>1 DEF Carried
<1>3. PICK i \in DOMAIN was : i <= k /\ was[i].job = j
  BY <1>2 DEF DictSlot
<1>4. i \in Valid(was) /\ k \in Valid(was) /\ i \in Nat /\ k \in Nat
  BY <1>2, <1>3, EntriesOfFile DEF GroupsValidate, Valid, DictSlot
<1>5. k <= i
  BY <1>2, <1>3, <1>4 DEF DictSlot
<1>6. was[k].job = j
  BY <1>3, <1>4, <1>5
<1> QED
  BY <1>1, <1>2, <1>3, <1>4, <1>6 DEF JobsOf

LEMMA ReloadTrusted == ASSUME Trusted, Reload PROVE GroupsValidate
BY ParamsAssumption DEF Trusted, Reload, LoadDue

LEMMA CountReload ==
  ASSUME Trusted, TypeOK, CountInv, Reload
  PROVE  CountInv'
<1>1. Running' \in SUBSET Running
  BY ReloadTrusted, CarriedIsOwn, LoadedJobs, JobsOfFile DEF Reload, Running, Loaded, TypeOK
<1>2. Cardinality(Running') <= Cardinality(Running)
      /\ Cardinality(Running') \in Nat /\ Cardinality(Running) \in Nat
  BY <1>1, RunningFinite
<1> QED
  BY <1>2, ParamsAssumption DEF Reload, CountInv, JobLimit

LEMMA CountOther ==
  ASSUME TypeOK, CountInv,
         \/ Update \/ ReapMark \/ ReapSweep \/ Clock \/ ClockBack \/ ExecEnd
         \/ Exit \/ NoReload \/ ReloadFails \/ Restart
  PROVE  CountInv'
<1>1. CASE Update
  <2>1. \A j \in Loaded : sched'[j].running = sched[j].running
    BY <1>1, ScheduleOfJob, LoadedJobs DEF Update, Updated, Schedule
  <2>2. Running' = Running
    BY <1>1, <2>1 DEF Update, Running, Loaded
  <2> QED
    BY <1>1, <2>2 DEF Update, CountInv, JobLimit
<1>2. CASE ReapMark
  <2>1. Running' = Running /\ Running \ todo' = {} /\ Loaded' = Loaded
    BY <1>2 DEF ReapMark, Running, Loaded
  <2>2. Cardinality({}) = 0
    BY FS_EmptySet
  <2> QED
    BY <1>2, <2>1, <2>2 DEF ReapMark, CountInv, JobLimit
<1>3. CASE ReapSweep
  <2>1. Running' = Running /\ Running \ todo = Running
    BY <1>3 DEF ReapSweep, Running, Loaded
  <2> QED
    BY <1>3, <2>1 DEF ReapSweep, CountInv, JobLimit
<1>4. CASE Clock \/ ClockBack \/ ExecEnd \/ Exit \/ NoReload \/ ReloadFails
  BY <1>4 DEF Clock, ClockBack, ExecEnd, Exit, NoReload, ReloadFails,
              CountInv, JobLimit, Running, Loaded
<1>5. CASE Restart
  <2>1. Running' = {}
    BY <1>5, LoadedJobs, JobsOfFile
       DEF Restart, Running, Loaded, NoSchedule, TypeOK
  <2>2. Cardinality({}) = 0
    BY FS_EmptySet
  <2> QED
    BY <1>5, <2>1, <2>2, ParamsAssumption DEF Restart, CountInv, JobLimit
<1> QED
  BY <1>1, <1>2, <1>3, <1>4, <1>5

LEMMA CountHolds == Trusted => (Spec => [](TypeOK /\ CountInv))
<1> SUFFICES ASSUME Trusted PROVE Spec => [](TypeOK /\ CountInv)
  OBVIOUS
<1>1. Init => CountInv
  <2> SUFFICES ASSUME Init PROVE CountInv
    OBVIOUS
  <2>1. Running = {}
    BY JobsOfFile DEF Init, Running, Loaded, NoSchedule
  <2>2. Cardinality({}) = 0
    BY FS_EmptySet
  <2> QED
    BY <2>1, <2>2, ParamsAssumption DEF Init, CountInv, JobLimit
<1>2. TypeOK /\ CountInv /\ [Next]_vars => CountInv'
  <2> SUFFICES ASSUME TypeOK, CountInv, [Next]_vars PROVE CountInv'
    OBVIOUS
  <2>1. CASE UNCHANGED vars
    BY <2>1, CountUnchanged DEF vars, daemon
  <2>2. CASE Loop
    BY <2>2, CountReap, CountExec, CountReload, CountOther DEF Loop
  <2>3. CASE Trouble \/ Restart
    BY <2>3, CountExec, CountOther DEF Trouble
  <2>4. CASE Environment
    BY <2>4, CountUnchanged DEF Environment, JobExits, GroupEnds, Edit, daemon
  <2>5. CASE \E p \in Pids : SigChld(p)
    BY <2>5, CountUnchanged DEF SigChld, daemon
  <2> QED
    BY <2>1, <2>2, <2>3, <2>4, <2>5 DEF Next
<1> QED
  BY <1>1, <1>2, TypeCorrect, PTL DEF Spec

\* The daemon never believes more than MaxJobN + 1 jobs to be running, however
\* many jobs, groups, exits, kills, reloads and restarts there are.
THEOREM JobLimitHolds == Trusted => (Spec => []JobLimit)
<1>1. CountInv => JobLimit
  BY DEF CountInv
<1> QED
  BY <1>1, CountHolds, PTL

---------------------------------------------------------------------------
(* The steps, by what they do to schedules, processes and table *)

\* Nothing that tells which job runs as which process changes
Quiet ==
  /\ \A j \in Jobs : sched'[j].running = sched[j].running /\ sched'[j].pid = sched[j].pid
  /\ loaded' = loaded /\ proc' = proc
  /\ \A i \in Slot : sigdata'[i].pid = sigdata[i].pid

LEMMA QuietUpdate == ASSUME TypeOK, Update PROVE Quiet
<1>1. ASSUME NEW j \in Jobs
      PROVE  sched'[j].running = sched[j].running /\ sched'[j].pid = sched[j].pid
  <2>1. sched[j] \in Schedule
    BY ScheduleOfJob
  <2>2. Updated(j).running = sched[j].running /\ Updated(j).pid = sched[j].pid
    BY <2>1 DEF Updated, Schedule
  <2>3. sched'[j] = Updated(j) \/ sched'[j] = sched[j]
    BY DEF Update
  <2> QED
    BY <2>2, <2>3
<1> QED
  BY <1>1 DEF Update, Quiet, kernel

LEMMA QuietMark == ASSUME TypeOK, ReapMark PROVE Quiet
<1>1. ASSUME NEW i \in Slot PROVE sigdata'[i].pid = sigdata[i].pid
  <2>1. sigdata[i] \in Exits /\ sigdata'[i] = [sigdata[i] EXCEPT !.marked = i \in InUse]
    BY DEF TypeOK, ReapMark
  <2> QED
    BY <2>1 DEF Exits
<1> QED
  BY <1>1 DEF ReapMark, Quiet, kernel

\* What one step may do.
LEMMA StepsOf ==
  ASSUME TypeOK, [Next]_vars
  PROVE  \/ Quiet /\ starts' = starts
         \/ \E j \in Jobs : \/ ReapExited(j) \/ ReapVanished(j) \/ KillLate(j)
                            \/ \E p \in Pids : Launch(j, p)
         \/ ReapSweep \/ Reload \/ Restart
         \/ \E p \in Pids : SigChld(p) \/ JobExits(p)
<1> USE DEF kernel, daemon, author
<1>1. CASE UNCHANGED vars
  BY <1>1 DEF vars, Quiet
<1>2. CASE Loop
  <2>1. CASE Update
    BY <2>1, QuietUpdate DEF Update
  <2>2. CASE ReapMark
    BY <2>2, QuietMark DEF ReapMark
  <2>3. CASE Clock \/ ExecEnd \/ NoReload
    BY <2>3 DEF Clock, ExecEnd, NoReload, Quiet
  <2>4. ASSUME NEW j \in Jobs, SkipIdle(j) \/ NoExitSeen(j) \/ StillRunning(j)
        PROVE  Quiet /\ starts' = starts
    BY <2>4 DEF SkipIdle, NoExitSeen, StillRunning, Quiet
  <2>5. ASSUME NEW j \in Jobs, SkipJob(j) \/ Incomplete(j) PROVE Quiet /\ starts' = starts
    BY <2>5 DEF SkipJob, Incomplete, Quiet
  <2> QED
    BY <1>2, <2>1, <2>2, <2>3, <2>4, <2>5 DEF Loop, Reap, Exec
<1>3. CASE Trouble
  BY <1>3 DEF Trouble, ClockBack, Exit, ReloadFails, LaunchFails, LaunchFatal, Quiet
<1>4. CASE Environment
  <2>1. ASSUME NEW p \in Pids, GroupEnds(p) PROVE Quiet /\ starts' = starts
    BY <2>1 DEF GroupEnds, Quiet
  <2>2. ASSUME NEW f \in Files, Edit(f) PROVE Quiet /\ starts' = starts
    BY <2>2 DEF Edit, Quiet
  <2> QED
    BY <1>4, <2>1, <2>2 DEF Environment
<1>5. CASE Restart \/ \E p \in Pids : SigChld(p)
  BY <1>5
<1> QED
  BY <1>1, <1>2, <1>3, <1>4, <1>5 DEF Next

\* A reload that can be trusted gives each job its own state, or none.
LEMMA CarriedState ==
  ASSUME Trusted, TypeOK, Reload, NEW j \in Jobs
  PROVE  /\ j \in Loaded /\ j \in Loaded' => sched'[j] = sched[j]
         /\ ~(j \in Loaded /\ j \in Loaded') => sched'[j] = NoSchedule
<1>1. GroupsValidate
  BY ReloadTrusted
<1>2. sched' = Carried(disk, loaded, sched) /\ Loaded' = JobsOf(disk)
  BY DEF Reload, Loaded
<1>3. loaded \in Files /\ disk \in Files
  BY DEF TypeOK
<1>4. ASSUME DictSlot(loaded, j) # {}
      PROVE  /\ j \in Loaded
             /\ loaded[CHOOSE k \in DictSlot(loaded, j) : TRUE].job = j
  <2> DEFINE k == CHOOSE k \in DictSlot(loaded, j) : TRUE
  <2>1. k \in DictSlot(loaded, j)
    BY <1>4
  <2>2. PICK i \in DOMAIN loaded : i <= k /\ loaded[i].job = j
    BY <2>1 DEF DictSlot
  <2>3. i \in Valid(loaded) /\ k \in Valid(loaded) /\ i \in Nat /\ k \in Nat
    BY <1>1, <1>3, <2>1, <2>2, EntriesOfFile DEF GroupsValidate, Valid, DictSlot
  <2>4. k <= i
    BY <2>1, <2>2, <2>3 DEF DictSlot
  <2> QED
    BY <2>2, <2>3, <2>4 DEF Loaded, JobsOf
<1>5. ASSUME j \in Loaded PROVE DictSlot(loaded, j) # {}
  <2>1. PICK i \in Valid(loaded) : loaded[i].job = j
    BY <1>5 DEF Loaded, JobsOf
  <2>2. \A n \in DOMAIN loaded : loaded[n].job = j => n = i
    BY <1>3, <2>1, EntriesOfFile DEF Valid
  <2>3. i \in Nat /\ i <= i
    BY <1>3, <2>1, EntriesOfFile DEF Valid
  <2>4. i \in DictSlot(loaded, j)
    BY <2>1, <2>2, <2>3 DEF DictSlot, Valid
  <2> QED
    BY <2>4
<1>6. CASE j \in Loaded /\ j \in Loaded'
  BY <1>2, <1>4, <1>5, <1>6 DEF Carried
<1>7. CASE ~(j \in Loaded /\ j \in Loaded')
  BY <1>2, <1>4, <1>7 DEF Carried
<1> QED
  BY <1>6, <1>7

\* What a pass does to the schedule of a job that has ended.
LEMMA ReapedJob ==
  ASSUME TypeOK, NEW j \in Jobs, sched' = Reaped(j)
  PROVE  /\ ~sched'[j].running /\ sched'[j].pid = NoPid /\ sched'[j].nt = sched[j].nt
         /\ \A k \in Jobs \ {j} : sched'[k] = sched[k]
BY ScheduleOfJob DEF Reaped, Schedule, TypeOK

---------------------------------------------------------------------------
(* The table of exits *)

\* An entry names a process that is gone, and no two the same
TableInv ==
  /\ \A i \in InUse : proc[sigdata[i].pid].st = "none" /\ sigdata[i].pid \in Pids
  /\ \A i, k \in InUse : sigdata[i].pid = sigdata[k].pid => i = k

LEMMA InUseSlot == InUse \subseteq Slot
BY DEF InUse

\* A slot is free when SigChld finds one.
LEMMA FreeSlotFound ==
  ASSUME FreeSlots # {}
  PROVE  LeastOf(FreeSlots) \in Slot /\ LeastOf(FreeSlots) \notin InUse
<1>1. FreeSlots \in SUBSET Nat
  BY ParamsAssumption DEF FreeSlots, Slot
<1> QED
  BY <1>1, LeastOfNat DEF FreeSlots

LEMMA NextTable == TypeOK /\ TableInv /\ [Next]_vars => TableInv'
<1> SUFFICES ASSUME TypeOK, TableInv, [Next]_vars PROVE TableInv'
  OBVIOUS
<1>1. CASE Quiet
  BY <1>1 DEF Quiet, TableInv, InUse
<1>2. ASSUME NEW j \in Jobs, ReapExited(j) \/ ReapVanished(j) PROVE TableInv'
  <2>1. /\ \A i \in Slot : sigdata'[i] = sigdata[i] \/ sigdata'[i].pid = NoPid
        /\ proc' = proc
    BY <1>2 DEF ReapExited, ReapVanished, kernel, TypeOK, FreeSlot
  <2> QED
    BY <2>1 DEF TableInv, InUse
<1>3. ASSUME NEW j \in Jobs, KillLate(j) PROVE TableInv'
  <2>1. sigdata' = sigdata /\ \A p \in Pids : proc[p].st = "none" => proc'[p].st = "none"
    BY <1>3 DEF KillLate, TypeOK, Process
  <2> QED
    BY <2>1 DEF TableInv, InUse
<1>4. ASSUME NEW j \in Jobs, NEW p \in Pids, Launch(j, p) PROVE TableInv'
  <2>1. \A i \in InUse : sigdata[i].pid # p
    BY <1>4 DEF Launch, FreshPid
  <2>2. sigdata' = sigdata /\ \A q \in Pids \ {p} : proc'[q] = proc[q]
    BY <1>4 DEF Launch, TypeOK
  <2> QED
    BY <2>1, <2>2 DEF TableInv, InUse
<1>5. CASE ReapSweep
  <2>1. /\ \A i \in Slot : sigdata'[i] = sigdata[i] \/ sigdata'[i].pid = NoPid
        /\ proc' = proc
    BY <1>5 DEF ReapSweep, kernel, TypeOK, FreeSlot
  <2> QED
    BY <2>1 DEF TableInv, InUse
<1>6. CASE Reload
  BY <1>6 DEF Reload, kernel, TableInv, InUse
<1>7. CASE Restart
  <2>1. InUse' = {}
    BY <1>7 DEF Restart, InUse, FreeSlot
  <2> QED
    BY <2>1 DEF TableInv
<1>8. ASSUME NEW p \in Pids, SigChld(p) PROVE TableInv'
  <2>1. /\ \A i \in InUse : sigdata[i].pid # p
        /\ proc' = [proc EXCEPT ![p] = NoProc]
    BY <1>8 DEF SigChld, TableInv
  <2>2. \A q \in Pids : proc[q].st = "none" \/ q = p => proc'[q].st = "none"
    BY <2>1 DEF NoProc, TypeOK
  <2>3. CASE FreeSlots = {}
    BY <1>8, <2>2, <2>3 DEF SigChld, TableInv, InUse
  <2>4. CASE FreeSlots # {}
    <3> DEFINE n == LeastOf(FreeSlots)
    <3>1. n \in Slot /\ n \notin InUse
      BY <2>4, FreeSlotFound
    <3>2. sigdata'[n].pid = p /\ \A i \in Slot \ {n} : sigdata'[i] = sigdata[i]
      BY <1>8, <2>4, <3>1 DEF SigChld, TypeOK
    <3>3. InUse' = InUse \cup {n}
      BY <3>1, <3>2, IdsAssumption DEF InUse
    <3> HIDE DEF n
    <3> QED
      BY <2>1, <2>2, <3>1, <3>2, <3>3, InUseSlot DEF TableInv
  <2> QED
    BY <2>3, <2>4
<1>9. ASSUME NEW p \in Pids, JobExits(p) PROVE TableInv'
  <2>1. sigdata' = sigdata /\ \A q \in Pids : proc[q].st = "none" => proc'[q].st = "none"
    BY <1>9 DEF JobExits, TypeOK, Process, NoProc
  <2> QED
    BY <2>1 DEF TableInv, InUse
<1> QED
  BY <1>1, <1>2, <1>3, <1>4, <1>5, <1>6, <1>7, <1>8, <1>9, StepsOf

LEMMA TableHolds == Spec => [](TypeOK /\ TableInv)
<1>1. Init => TableInv
  BY DEF Init, TableInv, InUse, FreeSlot
<1> QED
  BY <1>1, NextTable, TypeCorrect, PTL DEF Spec

\* A job is reaped with the process it names: it is in the table, or vanished.
LEMMA ReapedIsGone ==
  ASSUME TypeOK, TableInv, NEW j \in Jobs, ReapExited(j) \/ ReapVanished(j)
  PROVE  proc[sched[j].pid].st = "none"
<1>1. CASE ReapExited(j)
  <2>1. PICK i \in Matches(j) : TRUE
    BY <1>1 DEF ReapExited
  <2>2. i \in 1..sdm /\ sigdata[i].pid # NoPid /\ sigdata[i].pid = sched[j].pid
    BY <2>1 DEF Matches
  <2>3. i \in InUse
    BY <2>2, ParamsAssumption DEF InUse, Slot, TypeOK
  <2> QED
    BY <2>2, <2>3 DEF TableInv
<1>2. CASE ReapVanished(j)
  BY <1>2 DEF ReapVanished, GroupExists
<1> QED
  BY <1>1, <1>2

\* A job is only taken off the running ones when its process is gone: its exit is
\* in the table, or the kernel knows neither it nor its group. A reload gives every
\* job its own state.
THEOREM ReapedOnlyWhenGoneHolds == Trusted => (Spec => ReapedOnlyWhenGone)
<1> DEFINE Stops(j) == ~sched'[j].running /\ loaded' = loaded /\ starts' = starts
           Gone == \A j \in Running : Stops(j) => proc[sched[j].pid].st = "none"
<1> SUFFICES ASSUME Trusted PROVE Spec => ReapedOnlyWhenGone
  OBVIOUS
<1>1. TypeOK /\ TableInv /\ [Next]_vars => [Gone]_vars
  <2> SUFFICES ASSUME TypeOK, TableInv, [Next]_vars, NEW j \in Running, Stops(j)
               PROVE  proc[sched[j].pid].st = "none"
    OBVIOUS
  <2>1. j \in Jobs /\ sched[j].running /\ j \in Loaded
    BY LoadedJobs DEF Running
  <2>2. CASE Quiet
    BY <2>1, <2>2 DEF Quiet
  <2>3. ASSUME NEW k \in Jobs, ReapExited(k) \/ ReapVanished(k)
        PROVE  proc[sched[j].pid].st = "none"
    BY <2>1, <2>3, ReapedJob, ReapedIsGone DEF ReapExited, ReapVanished
  <2>4. ASSUME NEW k \in Jobs, KillLate(k) PROVE FALSE
    BY <2>1, <2>4, ScheduleOfJob DEF KillLate, TypeOK, Schedule
  <2>5. ASSUME NEW k \in Jobs, NEW p \in Pids, Launch(k, p) PROVE FALSE
    BY <2>1, <2>5, ScheduleOfJob DEF Launch, TypeOK, Schedule
  <2>6. CASE Reload
    BY <2>1, <2>6, CarriedState DEF Loaded
  <2>7. CASE Restart
    BY <2>7 DEF Restart, TypeOK
  <2>8. CASE ReapSweep \/ \E p \in Pids : SigChld(p) \/ JobExits(p)
    BY <2>1, <2>8 DEF ReapSweep, SigChld, JobExits, daemon
  <2> QED
    BY <2>2, <2>3, <2>4, <2>5, <2>6, <2>7, <2>8, StepsOf
<1> QED
  BY <1>1, TableHolds, PTL DEF Spec, ReapedOnlyWhenGone

\* Only scheduleupdate, a launch and a reload change the time of a schedule.
Untouched(j) ==
  /\ sched'[j].nt = sched[j].nt /\ sched'[j].scheduled = sched[j].scheduled
  /\ sched'[j].running => sched[j].running

LEMMA TimeKept ==
  ASSUME TypeOK, [Next]_vars, NEW j \in Jobs
  PROVE  \/ Untouched(j)
         \/ Update \/ (\E p \in Pids : Launch(j, p)) \/ Reload \/ Restart
<1>1. ASSUME NEW k \in Jobs, ReapExited(k) \/ ReapVanished(k)
      PROVE  Untouched(j)
  <2>1. sched' = Reaped(k)
    BY <1>1 DEF ReapExited, ReapVanished
  <2> QED
    BY <2>1, ScheduleOfJob DEF Reaped, TypeOK, Schedule, Untouched
<1>2. ASSUME NEW k \in Jobs, KillLate(k) PROVE Untouched(j)
  BY <1>2, ScheduleOfJob DEF KillLate, TypeOK, Schedule, Untouched
<1>3. ASSUME NEW k \in Jobs \ {j}, NEW p \in Pids, Launch(k, p)
      PROVE  Untouched(j)
  BY <1>3 DEF Launch, TypeOK, Untouched
<1>4. UNCHANGED sched => Untouched(j)
  BY DEF Untouched
<1>5. ASSUME NEW k \in Jobs, \/ SkipIdle(k) \/ NoExitSeen(k) \/ StillRunning(k)
                             \/ SkipJob(k) \/ Incomplete(k)
      PROVE  UNCHANGED sched
  BY <1>5 DEF SkipIdle, NoExitSeen, StillRunning, SkipJob, Incomplete
<1>6. ReapMark \/ ReapSweep \/ Clock \/ ExecEnd \/ NoReload \/ Trouble
        => UNCHANGED sched
  BY DEF ReapMark, ReapSweep, Clock, ExecEnd, NoReload, Trouble, ClockBack, Exit,
         ReloadFails, LaunchFails, LaunchFatal
<1>7. UNCHANGED vars \/ Environment \/ (\E p \in Pids : SigChld(p)) => UNCHANGED sched
  BY DEF vars, daemon, Environment, JobExits, GroupEnds, Edit, SigChld
<1> QED
  BY <1>1, <1>2, <1>3, <1>4, <1>5, <1>6, <1>7 DEF Next, Loop, Reap, Exec

\* The time of a schedule only moves on: a slot that was used, or passed over by a
\* launch, is not chosen again, not even after the file was loaded anew.
THEOREM NeverASlotTwiceHolds == Trusted => (Spec => NeverASlotTwice)
<1> DEFINE Later == starts' = starts =>
                      \A j \in Loaded \cap Loaded' : sched'[j].nt >= sched[j].nt
<1> SUFFICES ASSUME Trusted PROVE Spec => NeverASlotTwice
  OBVIOUS
<1>1. TypeOK /\ [Next]_vars => [Later]_vars
  <2> SUFFICES ASSUME TypeOK, [Next]_vars, starts' = starts,
                      NEW j \in Loaded \cap Loaded'
               PROVE  sched'[j].nt >= sched[j].nt
    OBVIOUS
  <2>1. j \in Jobs /\ sched[j] \in Schedule /\ sched[j].nt \in Nat
    BY LoadedJobs, ScheduleOfJob DEF Schedule
  <2>2. CASE Untouched(j)
    BY <2>1, <2>2 DEF Untouched
  <2>3. CASE Update
    <3>1. sched'[j] = Updated(j)
      BY <2>1, <2>3 DEF Update
    <3>2. CASE Upcoming(j) # {}
      <4>1. LeastOf(Upcoming(j)) \in Upcoming(j)
        BY <2>1, <3>2, LeastOfNat, TimesAssumption DEF Upcoming
      <4>2. LeastOf(Upcoming(j)) \in Nat /\ LeastOf(Upcoming(j)) > sched[j].nt
        BY <2>1, <4>1, TimesAssumption DEF Upcoming
      <4> QED
        BY <2>1, <3>1, <4>2 DEF Updated, Schedule
    <3>3. CASE Upcoming(j) = {}
      BY <2>1, <3>1, <3>3 DEF Updated, Schedule
    <3> QED
      BY <3>2, <3>3
  <2>4. ASSUME NEW p \in Pids, Launch(j, p) PROVE sched'[j].nt >= sched[j].nt
    <3>1. ct >= sched[j].nt
      BY <2>4 DEF Launch, MayLaunch, Due
    <3>2. sched'[j].nt = ct
      BY <2>1, <2>4 DEF Launch, TypeOK, Schedule
    <3> QED
      BY <3>1, <3>2
  <2>5. CASE Reload
    BY <2>1, <2>5, CarriedState
  <2>6. CASE Restart
    BY <2>6 DEF Restart, TypeOK
  <2> QED
    BY <2>1, <2>2, <2>3, <2>4, <2>5, <2>6, TimeKept
<1> QED
  BY <1>1, TypeCorrect, PTL DEF Spec, NeverASlotTwice

---------------------------------------------------------------------------
(* The pids of the schedules *)

\* A schedule has a pid exactly while it runs, no two the same, and the process
\* with that pid, if there is one, is its own
PidInv ==
  /\ \A j \in Jobs : sched[j].running => j \in Loaded /\ sched[j].pid \in Pids
  /\ \A j \in Jobs : sched[j].pid # NoPid => sched[j].running
  /\ \A j, k \in Running : sched[j].pid = sched[k].pid => j = k
  /\ \A j \in Running : proc[sched[j].pid].st # "none" => proc[sched[j].pid].job = j

LEMMA RunningJobs == TypeOK => Running \subseteq Jobs /\ \A j \in Running : sched[j].running
BY LoadedJobs DEF Running

LEMMA NextPid == Trusted /\ TypeOK /\ CountInv /\ PidInv /\ [Next]_vars => PidInv'
<1> SUFFICES ASSUME Trusted, TypeOK, CountInv, PidInv, [Next]_vars PROVE PidInv'
  OBVIOUS
<1> Running \subseteq Jobs /\ \A j \in Running : sched[j].running
  BY RunningJobs
<1>1. CASE Quiet
  <2>1. /\ \A j \in Jobs : sched'[j].running = sched[j].running /\ sched'[j].pid = sched[j].pid
        /\ loaded' = loaded /\ proc' = proc
    BY <1>1 DEF Quiet
  <2>2. Running' = Running
    BY <2>1, LoadedJobs DEF Running, Loaded
  <2> QED
    BY <2>1, <2>2 DEF PidInv, Loaded
<1>2. ASSUME NEW j \in Jobs, ReapExited(j) \/ ReapVanished(j) PROVE PidInv'
  <2>1. /\ ~sched'[j].running /\ sched'[j].pid = NoPid
        /\ \A k \in Jobs \ {j} : sched'[k] = sched[k]
    BY <1>2, ReapedJob DEF ReapExited, ReapVanished
  <2>2. loaded' = loaded /\ proc' = proc
    BY <1>2 DEF ReapExited, ReapVanished, kernel
  <2>3. Running' = Running \ {j}
    BY <2>1, <2>2, LoadedJobs DEF Running, Loaded
  <2> QED
    BY <2>1, <2>2, <2>3 DEF PidInv, Loaded
<1>3. ASSUME NEW j \in Jobs, KillLate(j) PROVE PidInv'
  <2>1. \A k \in Jobs : sched'[k].running = sched[k].running /\ sched'[k].pid = sched[k].pid
    BY <1>3, ScheduleOfJob DEF KillLate, TypeOK, Schedule
  <2>2. /\ loaded' = loaded
        /\ \A p \in Pids : /\ proc'[p].job = proc[p].job
                           /\ proc'[p].st # "none" => proc[p].st # "none"
    BY <1>3 DEF KillLate, TypeOK, Process
  <2>3. Running' = Running
    BY <2>1, <2>2, LoadedJobs DEF Running, Loaded
  <2> QED
    BY <2>1, <2>2, <2>3 DEF PidInv, Loaded
<1>4. ASSUME NEW j \in Jobs, NEW p \in Pids, Launch(j, p) PROVE PidInv'
  <2>1. \A k \in Loaded : sched[k].pid # p
    BY <1>4 DEF Launch, FreshPid
  <2>2. /\ sched'[j].running /\ sched'[j].pid = p
        /\ \A k \in Jobs \ {j} : sched'[k] = sched[k]
    BY <1>4, ScheduleOfJob DEF Launch, TypeOK, Schedule
  <2>3. /\ loaded' = loaded /\ proc'[p].job = j
        /\ \A q \in Pids \ {p} : proc'[q] = proc[q]
    BY <1>4 DEF Launch, TypeOK
  <2>4. j \in Loaded
    BY <1>4 DEF Launch, MayLaunch, FirstInOrder, CountInv
  <2>5. Running' = Running \cup {j}
    BY <2>2, <2>3, <2>4, LoadedJobs DEF Running, Loaded
  <2>6. Running \subseteq Loaded
    BY DEF Running
  <2> QED
    BY <2>1, <2>2, <2>3, <2>4, <2>5, <2>6, IdsAssumption DEF PidInv, Loaded
<1>5. CASE ReapSweep
  BY <1>5 DEF ReapSweep, kernel, PidInv, Running, Loaded
<1>6. CASE Reload
  <2>1. \A j \in Jobs : sched'[j] = NoSchedule \/ (sched'[j] = sched[j] /\ j \in Loaded')
    BY <1>6, CarriedState
  <2>2. proc' = proc
    BY <1>6 DEF Reload, kernel
  <2>3. ASSUME NEW j \in Running' PROVE j \in Running /\ sched'[j] = sched[j]
    <3>1. j \in Jobs /\ sched'[j].running
      BY <1>6, <2>3, JobsOfFile DEF Running, Loaded, TypeOK, Reload
    <3>2. sched'[j] # NoSchedule
      BY <3>1 DEF NoSchedule
    <3> QED
      BY <1>6, <3>1, <3>2, CarriedState DEF Running
  <2> QED
    BY <2>1, <2>2, <2>3 DEF PidInv, NoSchedule
<1>7. CASE Restart
  <2>1. \A j \in Jobs : sched'[j] = NoSchedule
    BY <1>7 DEF Restart
  <2>2. Running' = {}
    BY <1>7, <2>1, JobsOfFile DEF Restart, Running, Loaded, NoSchedule, TypeOK
  <2> QED
    BY <2>1, <2>2 DEF PidInv, NoSchedule
<1>8. ASSUME NEW p \in Pids, SigChld(p) \/ JobExits(p) PROVE PidInv'
  <2>1. sched' = sched /\ loaded' = loaded
    BY <1>8 DEF SigChld, JobExits, daemon
  <2>2. \A q \in Pids : proc'[q].st # "none" => proc[q].st # "none" /\ proc'[q].job = proc[q].job
    BY <1>8 DEF SigChld, JobExits, TypeOK, Process, NoProc
  <2>3. Running' = Running
    BY <2>1 DEF Running, Loaded
  <2> QED
    BY <2>1, <2>2, <2>3 DEF PidInv, Loaded
<1> QED
  BY <1>1, <1>2, <1>3, <1>4, <1>5, <1>6, <1>7, <1>8, StepsOf

LEMMA PidHolds == Trusted => (Spec => [](TypeOK /\ CountInv /\ TableInv /\ PidInv))
<1> SUFFICES ASSUME Trusted PROVE Spec => [](TypeOK /\ CountInv /\ TableInv /\ PidInv)
  OBVIOUS
<1>1. Init => PidInv
  <2> SUFFICES ASSUME Init PROVE PidInv
    OBVIOUS
  <2>1. \A j \in Jobs : sched[j] = NoSchedule
    BY DEF Init
  <2>2. Running = {}
    BY <2>1, JobsOfFile DEF Init, Running, Loaded, NoSchedule
  <2> QED
    BY <2>1, <2>2 DEF PidInv, NoSchedule
<1>2. TypeOK /\ CountInv /\ PidInv /\ [Next]_vars => PidInv'
  BY NextPid
<1> QED
  BY <1>1, <1>2, CountHolds, TableHolds, PTL DEF Spec

\* However often the file is loaded anew, and jobs come, go and change places in it,
\* a job that runs names a process of its own.
THEOREM OwnProcessHolds == Trusted => (Spec => []OwnProcess)
<1>1. PidInv => OwnProcess
  BY DEF PidInv, OwnProcess
<1> QED
  BY <1>1, PidHolds, PTL

---------------------------------------------------------------------------
(* No child is forgotten *)

\* A child that is there, or waits to be reported, is that of a job that runs. (With
\* reloading this is false: a job deleted while it runs is forgotten.)
Waiting == {p \in Pids : proc[p].st \in {"alive", "zombie"}}
KnownInv == \A p \in Waiting : \E j \in Running : sched[j].pid = p

LEMMA NoReloading == Sc = 0 => Trusted /\ ~Reload
BY DEF Trusted, Reload, LoadDue

LEMMA NextKnown ==
  Sc = 0 /\ TypeOK /\ CountInv /\ TableInv /\ PidInv /\ KnownInv /\ [Next]_vars => KnownInv'
<1> SUFFICES ASSUME Sc = 0, TypeOK, CountInv, TableInv, PidInv, KnownInv, [Next]_vars
             PROVE  KnownInv'
  OBVIOUS
<1>1. CASE Quiet
  <2>1. Running' = Running /\ Waiting' = Waiting
        /\ \A j \in Running : sched'[j].pid = sched[j].pid
    BY <1>1, LoadedJobs DEF Quiet, Running, Loaded, Waiting
  <2> QED
    BY <2>1 DEF KnownInv
<1>2. ASSUME NEW j \in Jobs, ReapExited(j) \/ ReapVanished(j) PROVE KnownInv'
  <2>1. proc[sched[j].pid].st = "none"
    BY <1>2, ReapedIsGone
  <2>2. proc' = proc /\ loaded' = loaded /\ \A k \in Jobs \ {j} : sched'[k] = sched[k]
    BY <1>2, ReapedJob DEF ReapExited, ReapVanished, kernel
  <2>3. Waiting' = Waiting /\ \A p \in Waiting : p # sched[j].pid
    BY <2>1, <2>2 DEF Waiting
  <2>4. \A k \in Running \ {j} : k \in Running' /\ sched'[k].pid = sched[k].pid
    BY <2>2, LoadedJobs DEF Running, Loaded
  <2> QED
    BY <2>3, <2>4 DEF KnownInv
<1>3. ASSUME NEW j \in Jobs, KillLate(j) PROVE KnownInv'
  <2>1. \A k \in Jobs : sched'[k].running = sched[k].running /\ sched'[k].pid = sched[k].pid
    BY <1>3, ScheduleOfJob DEF KillLate, TypeOK, Schedule
  <2>2. loaded' = loaded /\ Waiting' = Waiting
    BY <1>3 DEF KillLate, TypeOK, Process, Waiting
  <2>3. Running' = Running /\ \A k \in Running : sched'[k].pid = sched[k].pid
    BY <2>1, <2>2, LoadedJobs DEF Running, Loaded
  <2> QED
    BY <2>2, <2>3 DEF KnownInv
<1>4. ASSUME NEW j \in Jobs, NEW p \in Pids, Launch(j, p) PROVE KnownInv'
  <2>1. /\ sched'[j].running /\ sched'[j].pid = p
        /\ \A k \in Jobs \ {j} : sched'[k] = sched[k]
    BY <1>4, ScheduleOfJob DEF Launch, TypeOK, Schedule
  <2>2. loaded' = loaded /\ Waiting' \subseteq Waiting \cup {p}
    BY <1>4 DEF Launch, TypeOK, Waiting
  <2>3. j \in Loaded /\ ~sched[j].running
    BY <1>4 DEF Launch, MayLaunch, FirstInOrder, CountInv, Due
  <2>4. j \in Running' /\ \A k \in Running : k \in Running' /\ sched'[k].pid = sched[k].pid
    BY <2>1, <2>2, <2>3, LoadedJobs DEF Running, Loaded
  <2> QED
    BY <2>1, <2>2, <2>4 DEF KnownInv
<1>5. CASE ReapSweep
  BY <1>5 DEF ReapSweep, kernel, KnownInv, Waiting, Running, Loaded
<1>6. CASE Restart
  <2>1. Waiting' = {}
    BY <1>6 DEF Restart, Orphaned, Waiting, TypeOK, Process, NoProc
  <2> QED
    BY <2>1 DEF KnownInv
<1>7. ASSUME NEW p \in Pids, SigChld(p) \/ JobExits(p) PROVE KnownInv'
  <2>1. Running' = Running /\ sched' = sched
    BY <1>7 DEF SigChld, JobExits, daemon, Running, Loaded
  <2>2. Waiting' \subseteq Waiting
    BY <1>7 DEF SigChld, JobExits, TypeOK, Process, NoProc, Waiting
  <2> QED
    BY <2>1, <2>2 DEF KnownInv
<1> QED
  BY <1>1, <1>2, <1>3, <1>4, <1>5, <1>6, <1>7, StepsOf, NoReloading

LEMMA KnownHolds ==
  Sc = 0 => (Spec => [](TypeOK /\ CountInv /\ TableInv /\ PidInv /\ KnownInv))
<1> SUFFICES ASSUME Sc = 0
             PROVE  Spec => [](TypeOK /\ CountInv /\ TableInv /\ PidInv /\ KnownInv)
  OBVIOUS
<1>1. Init => KnownInv
  BY DEF Init, KnownInv, Waiting, NoProc
<1>2. TypeOK /\ CountInv /\ TableInv /\ PidInv /\ KnownInv /\ [Next]_vars => KnownInv'
  BY NextKnown
<1> QED
  BY <1>1, <1>2, PidHolds, NoReloading, PTL DEF Spec

\* Without reloading no job has two processes at once: it is launched again only
\* when the exit of its process was seen, or the process was found to be gone.
THEOREM OneProcessPerJobHolds == Sc = 0 => (Spec => []OneProcessPerJob)
<1>1. PidInv /\ KnownInv => OneProcessPerJob
  <2> SUFFICES ASSUME PidInv, KnownInv, NEW p \in Alive, NEW q \in Alive,
                      proc[p].job = proc[q].job
               PROVE  p = q
    BY DEF OneProcessPerJob
  <2>1. PICK j \in Running : sched[j].pid = p
    BY DEF KnownInv, Alive, Waiting
  <2>2. PICK k \in Running : sched[k].pid = q
    BY DEF KnownInv, Alive, Waiting
  <2>3. proc[p].job = j /\ proc[q].job = k
    BY <2>1, <2>2 DEF PidInv, Alive
  <2> QED
    BY <2>1, <2>2, <2>3
<1> QED
  BY <1>1, KnownHolds, PTL

\* The children alive are no more than the jobs believed to run.
LEMMA AliveBound ==
  ASSUME TypeOK, KnownInv
  PROVE  /\ IsFiniteSet(Alive) /\ Cardinality(Alive) \in Nat
         /\ Cardinality(Alive) <= Cardinality(Running)
<1> DEFINE f == [p \in Alive |-> CHOOSE j \in Running : sched[j].pid = p]
<1>1. \A p \in Alive : f[p] \in Running /\ sched[f[p]].pid = p
  BY DEF KnownInv, Alive, Waiting
<1>2. f \in Injection(Alive, Running)
  <2>1. f \in [Alive -> Running]
    BY <1>1
  <2>2. \A p, q \in Alive : f[p] = f[q] => p = q
    BY <1>1
  <2> HIDE DEF f
  <2> QED
    BY <2>1, <2>2 DEF Injection, IsInjective
<1>3. IsFiniteSet(Running)
  BY RunningFinite
<1> HIDE DEF f
<1> QED
  BY <1>2, <1>3, FS_Injection, FS_CardinalityType

\* The limit on real processes: without reloading, in one life of the daemon, the
\* children alive are slots of JobSlots, of which there are MaxJobN + 1.
THEOREM ImplementsJobSlots == Sc = 0 /\ MaxStarts = 1 => (Spec => IsJobSlots)
<1> SUFFICES ASSUME Sc = 0, MaxStarts = 1 PROVE Spec => IsJobSlots
  OBVIOUS
<1>1. Init => Limit!SlotsInit
  BY DEF Init, Alive, NoProc, Limit!SlotsInit
<1>2. Init => starts >= 1
  BY DEF Init
<1>3. TypeOK /\ starts >= 1 /\ [Next]_vars => (starts >= 1)'
  <2> SUFFICES ASSUME TypeOK, starts >= 1, [Next]_vars PROVE starts' >= 1
    OBVIOUS
  <2>1. starts' = starts \/ starts' = starts + 1
    <3>1. \A j \in Jobs : ReapExited(j) \/ ReapVanished(j) \/ KillLate(j) => starts' = starts
      BY DEF ReapExited, ReapVanished, KillLate
    <3>2. \A j \in Jobs, p \in Pids : Launch(j, p) => starts' = starts
      BY DEF Launch
    <3>3. ReapSweep \/ Reload \/ (\E p \in Pids : SigChld(p) \/ JobExits(p)) => starts' = starts
      BY DEF ReapSweep, Reload, SigChld, JobExits
    <3>4. Restart => starts' = starts + 1
      BY DEF Restart
    <3> QED
      BY <3>1, <3>2, <3>3, <3>4, StepsOf
  <2> QED
    BY <2>1 DEF TypeOK
<1>4. TypeOK /\ CountInv /\ KnownInv /\ starts >= 1 /\ [Next]_vars
        => [Limit!SlotsNext]_Alive
  <2> SUFFICES ASSUME TypeOK, CountInv, KnownInv, starts >= 1, [Next]_vars, Alive' # Alive
               PROVE  Limit!SlotsNext
    OBVIOUS
  <2>0. ASSUME NEW p, Alive' = Alive \ {p} PROVE Limit!SlotsNext
    <3>1. Alive \cap {p} \in SUBSET Alive /\ Alive \cap {p} # {}
      BY <2>0
    <3>2. Alive' = Alive \ (Alive \cap {p})
      BY <2>0
    <3>3. Limit!Leave(Alive \cap {p})
      BY <3>1, <3>2, Zenon DEF Limit!Leave
    <3> QED
      BY <3>1, <3>3, Zenon DEF Limit!SlotsNext
  <2>1. ASSUME NEW j \in Jobs, NEW p \in Pids, Launch(j, p) PROVE Limit!SlotsNext
    <3>1. Alive' = Alive \cup {p} /\ p \notin Alive
      BY <2>1 DEF Launch, FreshPid, GroupExists, Alive, TypeOK
    <3>2. curjobn = Cardinality(Running) /\ curjobn <= MaxJobN
      BY <2>1, ParamsAssumption DEF Launch, MayLaunch, Full, CountInv, TypeOK
    <3>3. Cardinality(Alive) < MaxJobN + 1
      BY <3>2, AliveBound, RunningFinite, ParamsAssumption
    <3>4. Limit!Cardinality(Alive) = Cardinality(Alive)
      BY DEF Cardinality, Limit!Cardinality
    <3> QED
      BY <3>1, <3>3, <3>4 DEF Limit!SlotsNext, Limit!Enter
  <2>2. ASSUME NEW p \in Pids, JobExits(p) PROVE Limit!SlotsNext
    <3>1. Alive' = Alive \ {p}
      BY <2>2 DEF JobExits, Alive, TypeOK, Process, NoProc
    <3> QED
      BY <2>0, <3>1
  <2>3. ASSUME NEW j \in Jobs, KillLate(j) PROVE Limit!SlotsNext
    <3> DEFINE p == sched[j].pid
    <3>1. Alive' = Alive \ {p}
      BY <2>3 DEF KillLate, Alive, TypeOK, Process
    <3> QED
      BY <2>0, <3>1
  <2>4. ASSUME NEW p \in Pids, SigChld(p) PROVE FALSE
    BY <2>4 DEF SigChld, Alive, TypeOK, NoProc
  <2>5. Quiet \/ ReapSweep \/ (\E j \in Jobs : ReapExited(j) \/ ReapVanished(j)) => FALSE
    BY DEF Quiet, ReapSweep, ReapExited, ReapVanished, kernel, Alive
  <2>6. ~Restart
    BY DEF Restart, TypeOK
  <2> QED
    BY <2>1, <2>2, <2>3, <2>4, <2>5, <2>6, StepsOf, NoReloading
<1> QED
  BY <1>1, <1>2, <1>3, <1>4, KnownHolds, PTL DEF Spec, IsJobSlots, Limit!SlotsSpec

---------------------------------------------------------------------------
(* No exit is lost *)

\* The table has room for the exits of all jobs and for as many left over from
\* the pass before: max (100, 2 * MaxJobN) in the code, so up to -j 49
RoomyTable == SigDataN >= 2 * (MaxJobN + 1)

Passing == pc \in {"reap", "late"}
Marked(i) == sigdata[i].marked
\* the exit is that of a job that runs; those of others are stale
Named(i) == \E j \in Running : sched[j].pid = sigdata[i].pid
StaleMarked == {i \in InUse : Marked(i) /\ ~Named(i)}
StaleUnmarked == {i \in InUse : ~Marked(i) /\ ~Named(i)}

\* Marked entries are there during a pass only, and none is that of a job the
\* pass has visited and left running
MarkInv ==
  /\ \A i \in InUse : Marked(i) => Passing /\ i <= sdm
  /\ Passing => \A j \in Running \ todo : \A i \in InUse :
                  Marked(i) => sigdata[i].pid # sched[j].pid
  /\ pc = "late" => \A j \in todo : FirstInFile(j) =>
                      \A i \in InUse : Marked(i) => sigdata[i].pid # sched[j].pid

\* A job found to have vanished leaves an unmarked entry, which the next pass marks
\* and sweeps
StaleInv ==
  /\ Cardinality(StaleMarked) <= MaxJobN + 1
  /\ Cardinality(StaleUnmarked) <= MaxJobN + 1
  /\ Passing => Cardinality(StaleUnmarked) + Cardinality(Running) <= MaxJobN + 1

\* A step that has no part in a pass and changes none of these
Calm ==
  /\ Quiet /\ UNCHANGED <<sigdata, sdm>>
  /\ Passing \/ Passing' => UNCHANGED <<pc, todo>>

LEMMA CalmOf ==
  ASSUME TypeOK, [Next]_vars
  PROVE  \/ Calm \/ ReapMark \/ ReapSweep \/ Reload \/ Restart
         \/ \E j \in Jobs : \/ SkipIdle(j) \/ NoExitSeen(j) \/ StillRunning(j)
                            \/ ReapExited(j) \/ ReapVanished(j) \/ KillLate(j)
                            \/ \E p \in Pids : Launch(j, p)
         \/ \E p \in Pids : SigChld(p) \/ JobExits(p)
<1> USE DEF kernel, daemon, author, Passing
<1>1. CASE UNCHANGED vars
  BY <1>1 DEF vars, Quiet, Calm
<1>2. CASE Loop
  <2>1. CASE Update
    BY <2>1, QuietUpdate DEF Update, Calm
  <2>2. CASE Clock \/ ExecEnd \/ NoReload
    BY <2>2 DEF Clock, ExecEnd, NoReload, Quiet, Calm
  <2>3. ASSUME NEW j \in Jobs, SkipJob(j) \/ Incomplete(j) PROVE Calm
    BY <2>3 DEF SkipJob, Incomplete, Quiet, Calm
  <2> QED
    BY <1>2, <2>1, <2>2, <2>3 DEF Loop, Reap, Exec
<1>3. CASE Trouble
  BY <1>3 DEF Trouble, ClockBack, Exit, ReloadFails, LaunchFails, LaunchFatal, MayLaunch,
              Quiet, Calm
<1>4. CASE Environment
  <2>1. ASSUME NEW p \in Pids, GroupEnds(p) PROVE Calm
    BY <2>1 DEF GroupEnds, Quiet, Calm
  <2>2. ASSUME NEW f \in Files, Edit(f) PROVE Calm
    BY <2>2 DEF Edit, Quiet, Calm
  <2> QED
    BY <1>4, <2>1, <2>2 DEF Environment
<1>5. CASE Restart \/ \E p \in Pids : SigChld(p)
  BY <1>5
<1> QED
  BY <1>1, <1>2, <1>3, <1>4, <1>5 DEF Next

\* Schedules and table as the invariants see them, where only pc and todo move.
SameView ==
  /\ Running' = Running /\ InUse' = InUse
  /\ \A j \in Running : sched'[j].pid = sched[j].pid
  /\ \A i \in InUse : sigdata'[i].pid = sigdata[i].pid

LEMMA QuietView == ASSUME TypeOK, Quiet PROVE SameView
<1>1. Running' = Running
  BY LoadedJobs DEF Quiet, Running, Loaded
<1>2. InUse' = InUse
  BY DEF Quiet, InUse
<1> QED
  BY <1>1, <1>2, RunningJobs, InUseSlot DEF Quiet, SameView

\* A step of the pass over one job, and what it leaves in the table.
LEMMA PassView ==
  ASSUME TypeOK, NEW j \in Jobs, SkipIdle(j) \/ NoExitSeen(j) \/ StillRunning(j) \/ KillLate(j)
  PROVE  SameView /\ sigdata' = sigdata /\ sdm' = sdm /\ loaded' = loaded
<1>1. \A k \in Jobs : sched'[k].running = sched[k].running /\ sched'[k].pid = sched[k].pid
  BY ScheduleOfJob DEF SkipIdle, NoExitSeen, StillRunning, KillLate, TypeOK, Schedule
<1>2. sigdata' = sigdata /\ sdm' = sdm /\ loaded' = loaded
  BY DEF SkipIdle, NoExitSeen, StillRunning, KillLate
<1>3. Running' = Running
  BY <1>1, <1>2, LoadedJobs DEF Running, Loaded
<1> QED
  BY <1>1, <1>2, <1>3, RunningJobs DEF SameView, InUse

\* The entry of a job that is reaped goes, or stays when the job has vanished.
LEMMA ReapView ==
  ASSUME TypeOK, TableInv, PidInv, CountInv, NEW j \in Jobs, ReapExited(j) \/ ReapVanished(j)
  PROVE  /\ j \in Running /\ Running' = Running \ {j} /\ loaded' = loaded /\ sdm' = sdm
         /\ todo' = todo \ {j} /\ pc' = "reap" /\ Passing
         /\ \A k \in Running \ {j} : sched'[k].pid = sched[k].pid
         /\ InUse' \subseteq InUse /\ \A i \in InUse' : sigdata'[i] = sigdata[i]
         /\ ReapExited(j) => \A i \in InUse' : sigdata[i].pid # sched[j].pid
         /\ ReapVanished(j) => InUse' = InUse /\ pc = "late"
         /\ \A i \in InUse \ InUse' : sigdata[i].pid = sched[j].pid
<1>1. j \in todo /\ j \in Loaded /\ todo' = todo \ {j} /\ pc' = "reap" /\ Passing
      /\ loaded' = loaded /\ sdm' = sdm
  BY DEF ReapExited, ReapVanished, FirstInFile, CountInv, Passing
<1>2. sched[j].running
  BY <1>1 DEF ReapExited, ReapVanished, CountInv
<1>3. /\ ~sched'[j].running /\ \A k \in Jobs \ {j} : sched'[k] = sched[k]
  BY ReapedJob DEF ReapExited, ReapVanished
<1>4. j \in Running /\ Running' = Running \ {j}
  BY <1>1, <1>2, <1>3, LoadedJobs DEF Running, Loaded
<1>5. \A k \in Running \ {j} : sched'[k].pid = sched[k].pid
  BY <1>3, RunningJobs
<1>6. CASE ReapExited(j)
  <2>1. PICK i \in Matches(j) : sigdata' = [sigdata EXCEPT ![i] = FreeSlot]
    BY <1>6 DEF ReapExited
  <2>2. i \in InUse /\ sigdata[i].pid = sched[j].pid
    BY <2>1, ParamsAssumption DEF Matches, InUse, Slot, TypeOK
  <2>3. /\ sigdata'[i].pid = NoPid
        /\ \A k \in Slot \ {i} : sigdata'[k] = sigdata[k]
    BY <2>1, <2>2 DEF FreeSlot, InUse, TypeOK
  <2>4. InUse' = InUse \ {i}
    BY <2>2, <2>3 DEF InUse
  <2>5. \A k \in InUse \ {i} : sigdata[k].pid # sched[j].pid
    BY <2>2 DEF TableInv
  <2>6. ~ReapVanished(j)
    BY <1>6 DEF ReapExited, ReapVanished
  <2> QED
    BY <1>1, <1>4, <1>5, <2>2, <2>3, <2>4, <2>5, <2>6, InUseSlot
<1>7. CASE ReapVanished(j)
  <2>1. sigdata' = sigdata /\ pc = "late"
    BY <1>7 DEF ReapVanished
  <2>2. InUse' = InUse
    BY <2>1 DEF InUse
  <2>3. ~ReapExited(j)
    BY <2>1 DEF ReapExited
  <2> QED
    BY <1>1, <1>4, <1>5, <1>7, <2>1, <2>2, <2>3
<1> QED
  BY <1>6, <1>7

\* The handler adds an entry for a job that runs, if it finds a place.
LEMMA ChildView ==
  ASSUME TypeOK, TableInv, KnownInv, NEW p \in Pids, SigChld(p)
  PROVE  /\ UNCHANGED <<pc, todo, sched, loaded, sdm>>
         /\ FreeSlots = {} => sigdata' = sigdata
         /\ FreeSlots # {} =>
              \E n \in Slot \ InUse :
                /\ InUse' = InUse \cup {n} /\ sigdata'[n] = [pid |-> p, marked |-> FALSE]
                /\ \A i \in InUse : sigdata'[i] = sigdata[i]
<1>1. UNCHANGED <<pc, todo, sched, loaded, sdm>> /\ (FreeSlots = {} => sigdata' = sigdata)
  BY DEF SigChld, daemon
<1>2. ASSUME FreeSlots # {}
      PROVE  \E n \in Slot \ InUse :
                /\ InUse' = InUse \cup {n} /\ sigdata'[n] = [pid |-> p, marked |-> FALSE]
                /\ \A i \in InUse : sigdata'[i] = sigdata[i]
  <2> DEFINE n == LeastOf(FreeSlots)
  <2>1. n \in Slot \ InUse
    BY <1>2, FreeSlotFound
  <2>2. /\ sigdata'[n] = [pid |-> p, marked |-> FALSE]
        /\ \A i \in Slot \ {n} : sigdata'[i] = sigdata[i]
    BY <1>2, <2>1 DEF SigChld, TypeOK
  <2>3. InUse' = InUse \cup {n}
    BY <2>1, <2>2, IdsAssumption DEF InUse
  <2> HIDE DEF n
  <2> QED
    BY <2>1, <2>2, <2>3, InUseSlot
<1> QED
  BY <1>1, <1>2

LEMMA NextMark ==
  Sc = 0 /\ TypeOK /\ CountInv /\ TableInv /\ PidInv /\ KnownInv /\ MarkInv /\ [Next]_vars
    => MarkInv'
<1> SUFFICES ASSUME Sc = 0, TypeOK, CountInv, TableInv, PidInv, KnownInv, MarkInv, [Next]_vars
             PROVE  MarkInv'
  OBVIOUS
<1>1. CASE Calm
  <2>1. SameView /\ sigdata' = sigdata /\ sdm' = sdm /\ loaded' = loaded
    BY <1>1, QuietView DEF Calm, Quiet
  <2>2. CASE Passing \/ Passing'
    <3>1. pc' = pc /\ todo' = todo /\ (\A j : FirstInFile(j)' <=> FirstInFile(j))
      BY <1>1, <2>1, <2>2 DEF Calm, FirstInFile, Pos
    <3>2. \A i \in InUse' : Marked(i)' => Passing' /\ i <= sdm'
      BY <2>1, <3>1 DEF SameView, MarkInv, Marked, Passing
    <3>3. Passing' => \A j \in Running' \ todo' : \A i \in InUse' :
                        Marked(i)' => sigdata'[i].pid # sched'[j].pid
      BY <2>1, <3>1 DEF SameView, MarkInv, Marked, Passing
    <3>4. pc' = "late" => \A j \in todo' : FirstInFile(j)' => \A i \in InUse' :
                            Marked(i)' => sigdata'[i].pid # sched'[j].pid
      <4>1. \A j \in todo : pc = "late" /\ FirstInFile(j) => j \in Running
        BY LoadedJobs DEF CountInv, Running
      <4> QED
        BY <2>1, <3>1, <4>1 DEF SameView, MarkInv, Marked
    <3> QED
      BY <3>2, <3>3, <3>4 DEF MarkInv
  <2>3. CASE ~Passing /\ ~Passing'
    BY <2>1, <2>3 DEF SameView, MarkInv, Marked, Passing
  <2> QED
    BY <2>2, <2>3
<1>2. CASE ReapMark
  <2>1. InUse' = InUse /\ pc' = "reap" /\ Running' \ todo' = {}
    BY <1>2, QuietMark, QuietView DEF SameView, ReapMark, Running, Loaded
  <2>2. \A i \in InUse : i <= sdm'
    BY <1>2, LastInUse DEF ReapMark
  <2> QED
    BY <2>1, <2>2 DEF MarkInv, Passing
<1>3. CASE ReapSweep
  <2>1. pc' = "clock"
    BY <1>3 DEF ReapSweep
  <2>2. ASSUME NEW i \in InUse' PROVE i \in InUse /\ ~Marked(i)'
    <3>1. i \in Slot /\ sigdata'[i].pid # NoPid
      BY <2>2 DEF InUse
    <3>2. ~Swept(i) /\ sigdata'[i] = sigdata[i]
      BY <1>3, <3>1 DEF ReapSweep, FreeSlot
    <3>3. i \in InUse
      BY <3>1, <3>2 DEF InUse
    <3> QED
      BY <3>2, <3>3 DEF Swept, Marked, MarkInv
  <2> QED
    BY <2>1, <2>2 DEF MarkInv, Passing
<1>4. ASSUME NEW j \in Jobs, SkipIdle(j) PROVE MarkInv'
  <2>1. SameView /\ sigdata' = sigdata /\ sdm' = sdm
    BY <1>4, PassView
  <2>2. pc = "reap" /\ pc' = "reap" /\ todo' = todo \ {j} /\ j \notin Running
    BY <1>4 DEF SkipIdle, Running
  <2> QED
    BY <2>1, <2>2 DEF SameView, MarkInv, Marked, Passing
<1>5. ASSUME NEW j \in Jobs, NoExitSeen(j) PROVE MarkInv'
  <2>1. SameView /\ sigdata' = sigdata /\ sdm' = sdm /\ loaded' = loaded
    BY <1>5, PassView
  <2>2. /\ pc = "reap" /\ pc' = "late" /\ todo' = todo /\ FirstInFile(j) /\ Matches(j) = {}
        /\ todo \subseteq Loaded /\ sched' = sched
    BY <1>5 DEF NoExitSeen, CountInv
  <2>3. ASSUME NEW i \in InUse, Marked(i) PROVE sigdata[i].pid # sched[j].pid
    <3>1. i \in 1..sdm /\ sigdata[i].pid # NoPid
      BY <2>2, <2>3 DEF MarkInv, InUse, Slot, TypeOK
    <3> QED
      BY <2>2, <3>1 DEF Matches
  <2>4. \A k \in todo : FirstInFile(k) => k = j
    BY <2>2, OneIsFirst
  <2>5. \A k \in todo' : FirstInFile(k)' => k = j
    BY <2>1, <2>2, <2>4 DEF FirstInFile, Pos
  <2> QED
    BY <2>1, <2>2, <2>3, <2>5 DEF SameView, MarkInv, Marked, Passing
<1>6. ASSUME NEW j \in Jobs, StillRunning(j) \/ KillLate(j) PROVE MarkInv'
  <2>1. SameView /\ sigdata' = sigdata /\ sdm' = sdm
    BY <1>6, PassView
  <2>2. pc = "late" /\ pc' = "reap" /\ todo' = todo \ {j} /\ FirstInFile(j) /\ j \in todo
    BY <1>6 DEF StillRunning, KillLate, FirstInFile
  <2>3. \A i \in InUse : Marked(i) => sigdata[i].pid # sched[j].pid
    BY <2>2 DEF MarkInv
  <2> QED
    BY <2>1, <2>2, <2>3 DEF SameView, MarkInv, Marked, Passing
<1>7. ASSUME NEW j \in Jobs, ReapExited(j) \/ ReapVanished(j) PROVE MarkInv'
  <2>1. /\ Running' = Running \ {j} /\ todo' = todo \ {j} /\ pc' = "reap" /\ Passing
        /\ \A k \in Running \ {j} : sched'[k].pid = sched[k].pid
        /\ InUse' \subseteq InUse /\ (\A i \in InUse' : sigdata'[i] = sigdata[i])
        /\ sdm' = sdm
    BY <1>7, ReapView
  <2>2. Running' \ todo' \subseteq Running \ todo
    BY <2>1
  <2>3. \A i \in InUse' : Marked(i)' => Passing' /\ i <= sdm'
    BY <2>1 DEF MarkInv, Marked, Passing
  <2>4. \A k \in Running' \ todo' : \A i \in InUse' : Marked(i)' => sigdata'[i].pid # sched'[k].pid
    BY <2>1, <2>2 DEF MarkInv, Marked
  <2> QED
    BY <2>1, <2>3, <2>4 DEF MarkInv
<1>8. ASSUME NEW j \in Jobs, NEW p \in Pids, Launch(j, p) PROVE MarkInv'
  <2>1. ~Passing /\ ~Passing' /\ sigdata' = sigdata
    BY <1>8 DEF Launch, MayLaunch, Passing
  <2> QED
    BY <2>1 DEF MarkInv, Marked, InUse, Passing
<1>9. CASE Restart
  <2>1. InUse' = {}
    BY <1>9 DEF Restart, InUse, FreeSlot
  <2> QED
    BY <2>1 DEF MarkInv
<1>10. ASSUME NEW p \in Pids, SigChld(p) PROVE MarkInv'
  <2>1. UNCHANGED <<pc, todo, sched, loaded, sdm>>
    BY <1>10, ChildView
  <2>2. ASSUME NEW i \in InUse', Marked(i)' PROVE i \in InUse /\ sigdata'[i] = sigdata[i]
    <3>1. CASE FreeSlots = {}
      BY <1>10, <2>2, <3>1, ChildView DEF InUse
    <3>2. CASE FreeSlots # {}
      <4>1. PICK n \in Slot \ InUse :
              /\ InUse' = InUse \cup {n} /\ sigdata'[n] = [pid |-> p, marked |-> FALSE]
              /\ \A k \in InUse : sigdata'[k] = sigdata[k]
        BY <1>10, <3>2, ChildView
      <4>2. i # n
        BY <2>2, <4>1 DEF Marked
      <4> QED
        BY <2>2, <4>1, <4>2
    <3> QED
      BY <3>1, <3>2
  <2> QED
    BY <2>1, <2>2 DEF MarkInv, Marked, Running, Loaded, FirstInFile, Pos, Passing
<1>11. ASSUME NEW p \in Pids, JobExits(p) PROVE MarkInv'
  BY <1>11 DEF JobExits, daemon, MarkInv, Marked, InUse, Running, Loaded, FirstInFile, Pos, Passing
<1> QED
  BY <1>1, <1>2, <1>3, <1>4, <1>5, <1>6, <1>7, <1>8, <1>9, <1>10, <1>11, CalmOf, NoReloading

LEMMA SlotsFinite ==
  ASSUME NEW T \in SUBSET Slot
  PROVE  /\ IsFiniteSet(T) /\ Cardinality(T) \in Nat
         /\ \A U \in SUBSET T : Cardinality(U) <= Cardinality(T) /\ Cardinality(U) \in Nat
<1>1. IsFiniteSet(Slot)
  BY FS_Interval, ParamsAssumption DEF Slot
<1> QED
  BY <1>1, FS_Subset, FS_CardinalityType

LEMMA StaleFinite ==
  TypeOK => /\ Cardinality(StaleMarked) \in Nat /\ Cardinality(StaleUnmarked) \in Nat
            /\ StaleMarked \in SUBSET Slot /\ StaleUnmarked \in SUBSET Slot
BY SlotsFinite, InUseSlot DEF StaleMarked, StaleUnmarked

\* Most steps make no entry stale.
LEMMA StaleShrinks ==
  ASSUME TypeOK, TypeOK', StaleInv,
         StaleMarked' \subseteq StaleMarked, StaleUnmarked' \subseteq StaleUnmarked,
         Passing' => Passing /\ Running' \subseteq Running
  PROVE  StaleInv'
<1>1. /\ Cardinality(StaleMarked') <= Cardinality(StaleMarked)
      /\ Cardinality(StaleUnmarked') <= Cardinality(StaleUnmarked)
      /\ Cardinality(StaleMarked) \in Nat /\ Cardinality(StaleUnmarked) \in Nat
      /\ Cardinality(StaleMarked') \in Nat /\ Cardinality(StaleUnmarked') \in Nat
  BY StaleFinite, SlotsFinite
<1>2. /\ Cardinality(Running) \in Nat
      /\ Passing' => Cardinality(Running') <= Cardinality(Running) /\ Cardinality(Running') \in Nat
  BY RunningFinite
<1>3. /\ Cardinality(StaleMarked') <= MaxJobN + 1
      /\ Cardinality(StaleUnmarked') <= MaxJobN + 1
  BY <1>1, ParamsAssumption DEF StaleInv
<1>4. ASSUME Passing' PROVE Cardinality(StaleUnmarked') + Cardinality(Running') <= MaxJobN + 1
  BY <1>1, <1>2, <1>4, ParamsAssumption DEF StaleInv
<1> QED
  BY <1>3, <1>4 DEF StaleInv

\* The job that vanished may leave an entry, and is one less that runs.
LEMMA StaleVanished ==
  ASSUME TypeOK, CountInv, TableInv, PidInv, MarkInv, StaleInv,
         NEW j \in Jobs, ReapVanished(j)
  PROVE  StaleInv'
<1>1. /\ j \in Running /\ Running' = Running \ {j} /\ pc = "late"
      /\ \A k \in Running \ {j} : sched'[k].pid = sched[k].pid
      /\ InUse' = InUse /\ \A i \in InUse : sigdata'[i] = sigdata[i]
  BY ReapView
<1>2. FirstInFile(j) /\ j \in todo
  BY DEF ReapVanished, FirstInFile
<1>3. \A i \in InUse : Marked(i) => sigdata[i].pid # sched[j].pid
  BY <1>1, <1>2 DEF MarkInv
<1>4. \A i \in InUse : Named(i) /\ sigdata[i].pid # sched[j].pid => Named(i)'
  BY <1>1 DEF Named
<1>5. StaleMarked' \subseteq StaleMarked
  BY <1>1, <1>3, <1>4 DEF StaleMarked, Marked
<1>6. PICK k \in Slot : StaleUnmarked' \subseteq StaleUnmarked \cup {k}
  <2>1. CASE \E i \in InUse : sigdata[i].pid = sched[j].pid
    <3>1. PICK i \in InUse : sigdata[i].pid = sched[j].pid
      BY <2>1
    <3>2. \A n \in InUse \ {i} : sigdata[n].pid # sched[j].pid
      BY <3>1 DEF TableInv
    <3>3. StaleUnmarked' \subseteq StaleUnmarked \cup {i}
      BY <1>1, <1>4, <3>2 DEF StaleUnmarked, Marked
    <3> QED
      BY <3>1, <3>3, InUseSlot
  <2>2. CASE \A i \in InUse : sigdata[i].pid # sched[j].pid
    <3>1. StaleUnmarked' \subseteq StaleUnmarked
      BY <1>1, <1>4, <2>2 DEF StaleUnmarked, Marked
    <3>2. 1 \in Slot
      BY ParamsAssumption DEF Slot
    <3> QED
      BY <3>1, <3>2
  <2> QED
    BY <2>1, <2>2
<1>7. /\ Cardinality(StaleUnmarked) \in Nat /\ Cardinality(StaleUnmarked') \in Nat
      /\ Cardinality(StaleUnmarked') <= Cardinality(StaleUnmarked) + 1
  <2>1. IsFiniteSet(StaleUnmarked) /\ StaleUnmarked \cup {k} \in SUBSET Slot
        /\ Cardinality(StaleUnmarked) \in Nat
    BY <1>6, StaleFinite, SlotsFinite
  <2>2. Cardinality(StaleUnmarked \cup {k}) <= Cardinality(StaleUnmarked) + 1
    BY <2>1, FS_AddElement
  <2>3. /\ Cardinality(StaleUnmarked') <= Cardinality(StaleUnmarked \cup {k})
        /\ Cardinality(StaleUnmarked') \in Nat /\ Cardinality(StaleUnmarked \cup {k}) \in Nat
    BY <1>6, <2>1, SlotsFinite
  <2> QED
    BY <2>1, <2>2, <2>3
<1>8. Cardinality(Running) \in Nat /\ Cardinality(Running') = Cardinality(Running) - 1
      /\ Cardinality(Running') \in Nat
  BY <1>1, RunningFinite, FS_RemoveElement
<1>9. Cardinality(StaleUnmarked') + Cardinality(Running') <= MaxJobN + 1
  BY <1>1, <1>7, <1>8, ParamsAssumption DEF StaleInv, Passing
<1>10. Cardinality(StaleMarked') <= MaxJobN + 1
  <2>1. /\ Cardinality(StaleMarked') <= Cardinality(StaleMarked)
        /\ Cardinality(StaleMarked) \in Nat /\ Cardinality(StaleMarked') \in Nat
    BY <1>5, StaleFinite, SlotsFinite
  <2> QED
    BY <2>1, ParamsAssumption DEF StaleInv
<1>11. Cardinality(StaleUnmarked') <= MaxJobN + 1
  BY <1>7, <1>8, <1>9, ParamsAssumption
<1> QED
  BY <1>9, <1>10, <1>11 DEF StaleInv

LEMMA NextStale ==
  Sc = 0 /\ TypeOK /\ CountInv /\ TableInv /\ PidInv /\ KnownInv /\ MarkInv /\ StaleInv
    /\ TypeOK' /\ [Next]_vars => StaleInv'
<1> SUFFICES ASSUME Sc = 0, TypeOK, CountInv, TableInv, PidInv, KnownInv, MarkInv, StaleInv,
                    TypeOK', [Next]_vars
             PROVE  StaleInv'
  OBVIOUS
<1>1. CASE Calm
  <2>1. SameView /\ sigdata' = sigdata
    BY <1>1, QuietView DEF Calm
  <2>2. Passing' => Passing
    BY <1>1 DEF Calm, Passing
  <2>3. StaleMarked' = StaleMarked /\ StaleUnmarked' = StaleUnmarked /\ Running' = Running
    BY <2>1 DEF SameView, StaleMarked, StaleUnmarked, Marked, Named
  <2> QED
    BY <2>2, <2>3, StaleShrinks
<1>2. CASE ReapMark
  <2>1. SameView
    BY <1>2, QuietMark, QuietView
  <2>2. \A i \in InUse : Marked(i)'
    BY <1>2, InUseSlot DEF ReapMark, Marked, TypeOK, Exits
  <2>3. \A i \in InUse : ~Marked(i)
    BY <1>2 DEF ReapMark, MarkInv, Passing
  <2>4. \A i \in InUse : Named(i)' <=> Named(i)
    BY <2>1 DEF SameView, Named
  <2>5. StaleUnmarked' = {} /\ StaleMarked' = StaleUnmarked
    BY <2>1, <2>2, <2>3, <2>4 DEF SameView, StaleMarked, StaleUnmarked
  <2>6. Cardinality({}) = 0
    BY FS_EmptySet
  <2>7. Running' = Running /\ Cardinality(Running) \in Nat /\ Cardinality(Running) <= MaxJobN + 1
    BY <2>1, RunningFinite DEF SameView, CountInv, JobLimit
  <2> QED
    BY <2>5, <2>6, <2>7, ParamsAssumption DEF StaleInv
<1>3. CASE ReapSweep
  <2>1. Running' = Running /\ sched' = sched /\ ~Passing'
    BY <1>3 DEF ReapSweep, Running, Loaded, Passing
  <2>2. ASSUME NEW i \in InUse' PROVE i \in InUse /\ sigdata'[i] = sigdata[i]
    BY <1>3, <2>2 DEF ReapSweep, InUse, FreeSlot
  <2>3. StaleMarked' \subseteq StaleMarked /\ StaleUnmarked' \subseteq StaleUnmarked
    BY <2>1, <2>2 DEF StaleMarked, StaleUnmarked, Marked, Named
  <2> QED
    BY <2>1, <2>3, StaleShrinks
<1>4. ASSUME NEW j \in Jobs, SkipIdle(j) \/ NoExitSeen(j) \/ StillRunning(j) \/ KillLate(j)
      PROVE  StaleInv'
  <2>1. SameView /\ sigdata' = sigdata
    BY <1>4, PassView
  <2>2. Passing
    BY <1>4 DEF SkipIdle, NoExitSeen, StillRunning, KillLate, Passing
  <2>3. StaleMarked' = StaleMarked /\ StaleUnmarked' = StaleUnmarked /\ Running' = Running
    BY <2>1 DEF SameView, StaleMarked, StaleUnmarked, Marked, Named
  <2> QED
    BY <2>2, <2>3, StaleShrinks
<1>5. ASSUME NEW j \in Jobs, ReapExited(j) PROVE StaleInv'
  <2>1. /\ Running' = Running \ {j} /\ Passing
        /\ \A k \in Running \ {j} : sched'[k].pid = sched[k].pid
        /\ InUse' \subseteq InUse /\ (\A i \in InUse' : sigdata'[i] = sigdata[i])
        /\ \A i \in InUse' : sigdata[i].pid # sched[j].pid
    BY <1>5, ReapView
  <2>2. \A i \in InUse' : Named(i) => Named(i)'
    BY <2>1 DEF Named
  <2>3. StaleMarked' \subseteq StaleMarked /\ StaleUnmarked' \subseteq StaleUnmarked
    BY <2>1, <2>2 DEF StaleMarked, StaleUnmarked, Marked
  <2> QED
    BY <2>1, <2>3, StaleShrinks
<1>6. ASSUME NEW j \in Jobs, ReapVanished(j) PROVE StaleInv'
  BY <1>6, StaleVanished
<1>7. ASSUME NEW j \in Jobs, NEW p \in Pids, Launch(j, p) PROVE StaleInv'
  <2>1. ~Passing' /\ sigdata' = sigdata /\ loaded' = loaded
        /\ \A k \in Jobs \ {j} : sched'[k] = sched[k]
    BY <1>7 DEF Launch, MayLaunch, Passing, TypeOK
  <2>2. j \notin Running
    BY <1>7 DEF Launch, MayLaunch, Due, Running
  <2>3. \A k \in Running : k \in Running' /\ sched'[k].pid = sched[k].pid
    BY <2>1, <2>2, LoadedJobs DEF Running, Loaded
  <2>4. InUse' = InUse /\ \A i \in InUse : Named(i) => Named(i)'
    BY <2>1, <2>3 DEF Named, InUse
  <2>5. StaleMarked' \subseteq StaleMarked /\ StaleUnmarked' \subseteq StaleUnmarked
    BY <2>1, <2>4 DEF StaleMarked, StaleUnmarked, Marked
  <2> QED
    BY <2>1, <2>5, StaleShrinks
<1>8. CASE Restart
  <2>1. InUse' = {} /\ ~Passing'
    BY <1>8 DEF Restart, InUse, FreeSlot, Passing
  <2>2. StaleMarked' = {} /\ StaleUnmarked' = {}
    BY <2>1 DEF StaleMarked, StaleUnmarked
  <2> QED
    BY <2>1, <2>2, StaleShrinks
<1>9. ASSUME NEW p \in Pids, SigChld(p) PROVE StaleInv'
  <2>1. UNCHANGED <<pc, todo, sched, loaded, sdm>> /\ Running' = Running
    BY <1>9, ChildView DEF Running, Loaded
  <2>2. PICK j \in Running : sched[j].pid = p
    BY <1>9 DEF SigChld, KnownInv, Waiting
  <2>3. ASSUME NEW i \in InUse', ~Named(i)' PROVE i \in InUse /\ sigdata'[i] = sigdata[i]
    <3>1. CASE FreeSlots = {}
      BY <1>9, <2>3, <3>1, ChildView DEF InUse
    <3>2. CASE FreeSlots # {}
      <4>1. PICK n \in Slot \ InUse :
              /\ InUse' = InUse \cup {n} /\ sigdata'[n] = [pid |-> p, marked |-> FALSE]
              /\ \A k \in InUse : sigdata'[k] = sigdata[k]
        BY <1>9, <3>2, ChildView
      <4>2. i # n
        BY <2>1, <2>2, <2>3, <4>1 DEF Named
      <4> QED
        BY <2>3, <4>1, <4>2
    <3> QED
      BY <3>1, <3>2
  <2>4. \A i \in InUse' : sigdata'[i] = sigdata[i] => (Named(i)' <=> Named(i))
    BY <2>1 DEF Named
  <2>5. StaleMarked' \subseteq StaleMarked /\ StaleUnmarked' \subseteq StaleUnmarked
    BY <2>3, <2>4 DEF StaleMarked, StaleUnmarked, Marked
  <2>6. Passing' => Passing
    BY <2>1 DEF Passing
  <2> QED
    BY <2>1, <2>5, <2>6, StaleShrinks
<1>10. ASSUME NEW p \in Pids, JobExits(p) PROVE StaleInv'
  BY <1>10 DEF JobExits, daemon, StaleInv, StaleMarked, StaleUnmarked, Marked, Named, InUse,
               Running, Loaded, Passing
<1> QED
  BY <1>1, <1>2, <1>3, <1>4, <1>5, <1>6, <1>7, <1>8, <1>9, <1>10, CalmOf, NoReloading

\* When an exit is to be stored there is a free slot: the entries of the table are
\* stale ones, of which there are so many, or those of other jobs that run.
LEMMA RoomForExit ==
  ASSUME RoomyTable, TypeOK, CountInv, TableInv, PidInv, KnownInv, MarkInv, StaleInv,
         NEW p \in Pids, proc[p].st = "zombie"
  PROVE  FreeSlots # {}
<1> DEFINE NE == {i \in InUse : Named(i)}
           f == [i \in NE |-> CHOOSE j \in Running : sched[j].pid = sigdata[i].pid]
<1>1. PICK jp \in Running : sched[jp].pid = p
  BY DEF KnownInv, Waiting
<1>2. \A i \in NE : f[i] \in Running /\ sched[f[i]].pid = sigdata[i].pid
  BY DEF Named
<1>3. \A i \in NE : sigdata[i].pid # p
  BY DEF TableInv
<1>4. f \in Injection(NE, Running \ {jp})
  <2>1. f \in [NE -> Running \ {jp}]
    BY <1>1, <1>2, <1>3
  <2>2. \A i, k \in NE : f[i] = f[k] => i = k
    BY <1>2 DEF TableInv
  <2> HIDE DEF f
  <2> QED
    BY <2>1, <2>2 DEF Injection, IsInjective
<1>5. IsFiniteSet(Running) /\ Cardinality(Running) \in Nat /\ Cardinality(Running) <= MaxJobN + 1
  BY RunningFinite DEF CountInv, JobLimit
<1>6. /\ IsFiniteSet(Running \ {jp}) /\ Cardinality(Running \ {jp}) = Cardinality(Running) - 1
  BY <1>1, <1>5, FS_RemoveElement
<1>7. Cardinality(NE) <= Cardinality(Running) - 1
  <2> HIDE DEF f, NE
  <2> QED
    BY <1>4, <1>6, FS_Injection
<1>8. /\ IsFiniteSet(NE) /\ Cardinality(NE) \in Nat
      /\ IsFiniteSet(StaleMarked) /\ Cardinality(StaleMarked) \in Nat
      /\ IsFiniteSet(StaleUnmarked) /\ Cardinality(StaleUnmarked) \in Nat
  <2>1. NE \in SUBSET Slot /\ StaleMarked \in SUBSET Slot /\ StaleUnmarked \in SUBSET Slot
    BY InUseSlot DEF StaleMarked, StaleUnmarked
  <2> HIDE DEF NE
  <2> QED
    BY <2>1, SlotsFinite
<1>9. Cardinality(StaleMarked) + Cardinality(StaleUnmarked) + Cardinality(Running)
        <= 2 * (MaxJobN + 1)
  <2>1. CASE Passing
    BY <1>5, <1>8, <2>1, ParamsAssumption DEF StaleInv
  <2>2. CASE ~Passing
    <3>1. StaleMarked = {}
      BY <2>2 DEF StaleMarked, MarkInv
    <3>2. Cardinality(StaleMarked) = 0
      BY <3>1, FS_EmptySet
    <3> QED
      BY <1>5, <1>8, <3>2, ParamsAssumption DEF StaleInv
  <2> QED
    BY <2>1, <2>2
<1>10. InUse = (StaleMarked \cup StaleUnmarked) \cup NE
  BY DEF StaleMarked, StaleUnmarked
<1>11. Cardinality(InUse) <= Cardinality(StaleMarked) + Cardinality(StaleUnmarked) + Cardinality(NE)
  <2> HIDE DEF NE
  <2>1. /\ StaleMarked \cup StaleUnmarked \in SUBSET Slot
        /\ StaleMarked \cap StaleUnmarked \in SUBSET Slot
        /\ (StaleMarked \cup StaleUnmarked) \cap NE \in SUBSET Slot
    BY InUseSlot DEF StaleMarked, StaleUnmarked
  <2>2. /\ IsFiniteSet(StaleMarked \cup StaleUnmarked)
        /\ Cardinality(StaleMarked \cup StaleUnmarked) \in Nat
        /\ Cardinality(StaleMarked \cap StaleUnmarked) \in Nat
        /\ Cardinality((StaleMarked \cup StaleUnmarked) \cap NE) \in Nat
    BY <2>1, SlotsFinite
  <2>3. Cardinality(StaleMarked \cup StaleUnmarked)
          = Cardinality(StaleMarked) + Cardinality(StaleUnmarked)
              - Cardinality(StaleMarked \cap StaleUnmarked)
    BY <1>8, FS_Union
  <2>4. Cardinality((StaleMarked \cup StaleUnmarked) \cup NE)
          = Cardinality(StaleMarked \cup StaleUnmarked) + Cardinality(NE)
              - Cardinality((StaleMarked \cup StaleUnmarked) \cap NE)
    BY <1>8, <2>2, FS_Union
  <2> QED
    BY <1>8, <1>10, <2>2, <2>3, <2>4
<1>12. Cardinality(Slot) = SigDataN
  BY FS_Interval, ParamsAssumption DEF Slot
<1>13. Cardinality(InUse) < SigDataN
  <2> HIDE DEF NE
  <2> QED
    BY <1>5, <1>7, <1>8, <1>9, <1>11, SlotsFinite, InUseSlot, ParamsAssumption DEF RoomyTable
<1> QED
  BY <1>12, <1>13, InUseSlot, ParamsAssumption DEF FreeSlots

LEMMA NextFound ==
  RoomyTable /\ Sc = 0 /\ TypeOK /\ CountInv /\ TableInv /\ PidInv /\ KnownInv /\ MarkInv
    /\ StaleInv /\ NoExitLost /\ [Next]_vars => NoExitLost'
<1> DEFINE StoredNext(p) == \E i \in InUse' : sigdata'[i].pid = p
<1> SUFFICES ASSUME RoomyTable, Sc = 0, TypeOK, CountInv, TableInv, PidInv, KnownInv, MarkInv,
                    StaleInv, NoExitLost, [Next]_vars, NEW k \in Running'
             PROVE  /\ sched'[k].pid # NoPid
                    /\ proc'[sched'[k].pid].st \in {"alive", "zombie"} \/ StoredNext(sched'[k].pid)
  BY Zenon DEF NoExitLost, Stored
<1> DEFINE q == sched[k].pid
           Found == proc[q].st \in {"alive", "zombie"} \/ Stored(q)
           Goal == /\ sched'[k].pid # NoPid
                   /\ proc'[sched'[k].pid].st \in {"alive", "zombie"} \/ StoredNext(sched'[k].pid)
<1>0. k \in Running => q # NoPid /\ q \in Pids /\ Found
  BY RunningJobs, IdsAssumption DEF NoExitLost, PidInv
<1>1. CASE Quiet
  <2>1. k \in Running /\ sched'[k].pid = q /\ proc' = proc
    BY <1>1, LoadedJobs DEF Quiet, Running, Loaded
  <2>2. Stored(q) => StoredNext(q)
    BY <1>1, InUseSlot DEF Quiet, Stored, InUse
  <2> QED
    BY <1>0, <2>1, <2>2 DEF Stored
<1>2. ASSUME NEW j \in Jobs, ReapExited(j) \/ ReapVanished(j) PROVE Goal
  <2>1. /\ j \in Running /\ k \in Running \ {j} /\ sched'[k].pid = q
        /\ InUse' \subseteq InUse /\ (\A i \in InUse' : sigdata'[i] = sigdata[i])
        /\ \A i \in InUse \ InUse' : sigdata[i].pid = sched[j].pid
    BY <1>2, ReapView
  <2>2. proc' = proc
    BY <1>2 DEF ReapExited, ReapVanished, kernel
  <2>3. q # sched[j].pid
    BY <2>1 DEF PidInv
  <2>4. Stored(q) => StoredNext(q)
    BY <2>1, <2>3 DEF Stored
  <2> QED
    BY <1>0, <2>1, <2>2, <2>4 DEF Stored
<1>3. ASSUME NEW j \in Jobs, KillLate(j) PROVE Goal
  <2>1. SameView /\ sigdata' = sigdata
    BY <1>3, PassView
  <2>2. k \in Running /\ sched'[k].pid = q /\ (Stored(q) => StoredNext(q))
    BY <2>1 DEF SameView, Stored
  <2>3. proc[q].st \in {"alive", "zombie"} => proc'[q].st \in {"alive", "zombie"}
    BY <1>0, <1>3, <2>2 DEF KillLate, TypeOK, Process
  <2> QED
    BY <1>0, <2>2, <2>3 DEF Stored
<1>4. ASSUME NEW j \in Jobs, NEW p \in Pids, Launch(j, p) PROVE Goal
  <2>1. /\ sched'[j].pid = p /\ \A i \in Jobs \ {j} : sched'[i] = sched[i]
        /\ loaded' = loaded /\ sigdata' = sigdata
    BY <1>4, ScheduleOfJob DEF Launch, TypeOK, Schedule
  <2>2. proc'[p].st = "alive" /\ \A i \in Pids \ {p} : proc'[i] = proc[i]
    BY <1>4 DEF Launch, TypeOK
  <2>3. CASE k = j
    BY <2>1, <2>2, <2>3, IdsAssumption
  <2>4. CASE k # j
    <3>1. k \in Jobs /\ k \in Running /\ sched'[k].pid = q
      BY <2>1, <2>4, LoadedJobs DEF Running, Loaded
    <3>2. q # p
      BY <1>4, <3>1 DEF Launch, FreshPid, Running
    <3>3. Stored(q) => StoredNext(q)
      BY <2>1 DEF Stored, InUse
    <3> QED
      BY <1>0, <2>2, <3>1, <3>2, <3>3 DEF Stored
  <2> QED
    BY <2>3, <2>4
<1>5. CASE ReapSweep
  <2>1. k \in Running /\ sched' = sched /\ proc' = proc
    BY <1>5 DEF ReapSweep, Running, Loaded, kernel
  <2>2. ASSUME NEW i \in InUse, sigdata[i].pid = q PROVE i \in InUse' /\ sigdata'[i].pid = q
    <3>1. ~Marked(i)
      BY <1>5, <2>1, <2>2 DEF ReapSweep, MarkInv, Passing
    <3>2. sigdata'[i] = sigdata[i]
      BY <1>5, <3>1, InUseSlot DEF ReapSweep, Swept, Marked
    <3> QED
      BY <2>2, <3>2 DEF InUse
  <2> QED
    BY <1>0, <2>1, <2>2 DEF Stored
<1>6. CASE Restart
  BY <1>6, JobsOfFile DEF Restart, Running, Loaded, NoSchedule, TypeOK
<1>7. ASSUME NEW p \in Pids, SigChld(p) PROVE Goal
  <2>1. k \in Running /\ sched' = sched
    BY <1>7 DEF SigChld, daemon, Running, Loaded
  <2>2. FreeSlots # {}
    BY <1>7, RoomForExit DEF SigChld
  <2>3. PICK n \in Slot \ InUse :
              /\ InUse' = InUse \cup {n} /\ sigdata'[n] = [pid |-> p, marked |-> FALSE]
              /\ \A i \in InUse : sigdata'[i] = sigdata[i]
    BY <1>7, <2>2, ChildView
  <2>4. CASE q = p
    BY <1>0, <2>1, <2>3, <2>4 DEF Stored
  <2>5. CASE q # p
    <3>1. proc'[q] = proc[q]
      BY <1>0, <1>7, <2>1, <2>5 DEF SigChld, TypeOK
    <3>2. Stored(q) => StoredNext(q)
      BY <2>3 DEF Stored
    <3> QED
      BY <1>0, <2>1, <3>1, <3>2 DEF Stored
  <2> QED
    BY <2>4, <2>5
<1>8. ASSUME NEW p \in Pids, JobExits(p) PROVE Goal
  <2>1. k \in Running /\ sched' = sched /\ sigdata' = sigdata
    BY <1>8 DEF JobExits, daemon, Running, Loaded
  <2>2. proc[q].st \in {"alive", "zombie"} => proc'[q].st \in {"alive", "zombie"}
    BY <1>0, <1>8, <2>1 DEF JobExits, TypeOK, Process
  <2>3. Stored(q) => StoredNext(q)
    BY <2>1 DEF Stored, InUse
  <2> QED
    BY <1>0, <2>1, <2>2, <2>3 DEF Stored
<1> QED
  BY <1>1, <1>2, <1>3, <1>4, <1>5, <1>6, <1>7, <1>8, StepsOf, NoReloading

\* However the handler, the children, the kills and the passes over the table
\* interleave, with a table as large as the code makes it the exit of a job that runs
\* is not lost. (The handler drops an exit when the table is full, so this is also a
\* bound on the stale entries there can be.)
THEOREM NoExitLostHolds == Sc = 0 /\ RoomyTable => (Spec => []NoExitLost)
<1> SUFFICES ASSUME Sc = 0, RoomyTable PROVE Spec => []NoExitLost
  OBVIOUS
<1>1. TypeOK /\ Init => MarkInv /\ StaleInv /\ NoExitLost
  <2> SUFFICES ASSUME TypeOK, Init PROVE MarkInv /\ StaleInv /\ NoExitLost
    OBVIOUS
  <2>1. InUse = {} /\ Running = {} /\ ~Passing
    BY LoadedJobs DEF Init, InUse, FreeSlot, Running, NoSchedule, Passing
  <2>2. StaleMarked = {} /\ StaleUnmarked = {} /\ Cardinality({}) = 0
    BY <2>1, FS_EmptySet DEF StaleMarked, StaleUnmarked
  <2> QED
    BY <2>1, <2>2, ParamsAssumption DEF MarkInv, StaleInv, NoExitLost, Passing
<1>2. TypeOK /\ CountInv /\ TableInv /\ PidInv /\ KnownInv /\ MarkInv /\ StaleInv
        /\ NoExitLost /\ TypeOK' /\ [Next]_vars => MarkInv' /\ StaleInv' /\ NoExitLost'
  BY NextMark, NextStale, NextFound
<1> QED
  BY <1>1, <1>2, KnownHolds, PTL DEF Spec

---------------------------------------------------------------------------
(* The group limit *)

\* A group that a loaded entry names has a largest <max>.
LEMMA GroupMaxType ==
  ASSUME TypeOK, NEW j \in Loaded
  PROVE  GroupMax(GroupOf(j)) \in Nat
<1> DEFINE g == GroupOf(j)
           I == {i \in DOMAIN loaded : loaded[i].grp = g}
           AtLeast(i) == {k \in I : loaded[k].max >= loaded[i].max}
           Tops == {AtLeast(i) : i \in I}
<1>1. Pos(j) \in I
  BY PosIsOwn DEF GroupOf
<1>2. \A i \in DOMAIN loaded : loaded[i].max \in Nat
  BY EntriesOfFile DEF TypeOK, Entry
<1>3. IsFiniteSet(I)
  <2>1. loaded \in Seq(Entry)
    BY FilesAssumption DEF TypeOK
  <2>2. DOMAIN loaded = 1..Len(loaded) /\ Len(loaded) \in Nat
    BY <2>1
  <2>3. IsFiniteSet(DOMAIN loaded)
    BY <2>2, FS_Interval
  <2> QED
    BY <2>3, FS_Subset
<1>4. Tops \subseteq FiniteSubsetsOf(I) /\ Tops # {}
  <2>1. ASSUME NEW i \in I PROVE AtLeast(i) \in FiniteSubsetsOf(I)
    <3>1. AtLeast(i) \in SUBSET I
      OBVIOUS
    <3> QED
      BY <1>3, <3>1, FS_Subset DEF FiniteSubsetsOf
  <2>2. I # {}
    BY <1>1
  <2> HIDE DEF AtLeast, I
  <2> QED
    BY <2>1, <2>2, Zenon
<1>5. PICK T \in Tops : \A U \in Tops : ~ (<<U, T>> \in StrictSubsetOrdering(I))
  <2>1. IsWellFoundedOn(StrictSubsetOrdering(I), FiniteSubsetsOf(I))
    BY FS_StrictSubsetOrderingWellFounded
  <2> HIDE DEF Tops, I
  <2> QED
    BY <1>4, <2>1, WFMin, Zenon
<1>6. PICK n \in I : T = AtLeast(n)
  OBVIOUS
<1>7. \A k \in I : loaded[k].max <= loaded[n].max
  <2> SUFFICES ASSUME NEW k \in I, ~(loaded[k].max <= loaded[n].max) PROVE FALSE
    OBVIOUS
  <2>1. loaded[k].max \in Nat /\ loaded[n].max \in Nat
    BY <1>2
  <2>2. AtLeast(k) \subseteq AtLeast(n) /\ n \in AtLeast(n) /\ n \notin AtLeast(k)
    BY <1>2, <2>1
  <2>3. <<AtLeast(k), AtLeast(n)>> \in StrictSubsetOrdering(I)
    BY <2>2 DEF StrictSubsetOrdering
  <2> QED
    BY <1>5, <1>6, <2>3
<1>8. /\ loaded[n].max \in {loaded[i].max : i \in DOMAIN loaded}
      /\ \E i \in DOMAIN loaded : loaded[i].grp = g /\ loaded[i].max = loaded[n].max
      /\ \A i \in DOMAIN loaded : loaded[i].grp = g => loaded[i].max <= loaded[n].max
  BY <1>7
<1>9. GroupMax(g) \in {loaded[i].max : i \in DOMAIN loaded}
  <2> HIDE DEF g
  <2> QED
    BY <1>8, Zenon DEF GroupMax
<1> QED
  BY <1>2, <1>9

LEMMA GroupsHaveMax == TypeOK => \A j \in Loaded : GroupMax(GroupOf(j)) \in Nat
BY GroupMaxType

RunningIn(g) == {j \in Running : GroupOf(j) = g}
SeenIn(g) == {j \in Running \ todo : GroupOf(j) = g}
LoadedGroups == Groups \cap {GroupOf(j) : j \in Loaded}

\* The counter of a group is exact when launches are decided, and on the way there
\* while the schedules are counted one by one
GroupInv ==
  \A g \in Groups :
    /\ pc \in {"reap", "late"} => cur[g] = Cardinality(SeenIn(g))
    /\ pc \in {"clock", "exec", "check"} => cur[g] = Cardinality(RunningIn(g))
    /\ g \in LoadedGroups => Cardinality(RunningIn(g)) <= GroupMax(g)

LEMMA GroupFinite ==
  ASSUME TypeOK, NEW g
  PROVE  /\ IsFiniteSet(RunningIn(g)) /\ Cardinality(RunningIn(g)) \in Nat
         /\ IsFiniteSet(SeenIn(g)) /\ Cardinality(SeenIn(g)) \in Nat
         /\ \A T \in SUBSET RunningIn(g) :
              Cardinality(T) <= Cardinality(RunningIn(g)) /\ Cardinality(T) \in Nat
<1>1. RunningIn(g) \in SUBSET Running /\ SeenIn(g) \in SUBSET Running
  BY DEF RunningIn, SeenIn
<1>2. IsFiniteSet(RunningIn(g)) /\ IsFiniteSet(SeenIn(g))
  BY <1>1, RunningFinite
<1> QED
  BY <1>2, FS_Subset, FS_CardinalityType

\* A step that leaves who runs, and the counters, alone.
LEMMA GroupKept ==
  ASSUME TypeOK, GroupInv, loaded' = loaded, Running' = Running, cur' = cur,
         pc' \in {"reap", "late"} =>
           pc \in {"reap", "late"} /\ Running \ todo' = Running \ todo,
         pc' \in {"clock", "exec", "check"} => pc \in {"clock", "exec", "check"}
  PROVE  GroupInv'
<1>1. \A j : GroupOf(j)' = GroupOf(j)
  BY DEF GroupOf, Pos
<1>2. \A g : GroupMax(g)' = GroupMax(g)
  BY DEF GroupMax
<1>3. LoadedGroups' = LoadedGroups
  BY <1>1 DEF LoadedGroups, Loaded
<1>4. \A g : RunningIn(g)' = RunningIn(g)
  BY <1>1 DEF RunningIn
<1>5. \A g : pc' \in {"reap", "late"} => SeenIn(g)' = SeenIn(g)
  BY <1>1 DEF SeenIn
<1> QED
  BY <1>2, <1>3, <1>4, <1>5 DEF GroupInv

LEMMA GroupReap ==
  ASSUME TypeOK, CountInv, GroupInv, NEW j \in Jobs, Reap(j)
  PROVE  GroupInv'
<1>1. j \in todo /\ todo \subseteq Loaded /\ loaded' = loaded /\ FirstInFile(j)
      /\ pc \in {"reap", "late"}
  BY DEF Reap, SkipIdle, ReapExited, NoExitSeen, StillRunning, KillLate,
         ReapVanished, FirstInFile, CountInv
<1>2. \A k : GroupOf(k)' = GroupOf(k)
  BY <1>1 DEF GroupOf, Pos
<1>3. (\A g : GroupMax(g)' = GroupMax(g)) /\ LoadedGroups' = LoadedGroups
  BY <1>1, <1>2 DEF GroupMax, LoadedGroups, Loaded
<1>4. CASE SkipIdle(j)
  <2>1. Running' = Running /\ Running \ todo' = Running \ todo
    BY <1>1, <1>4 DEF SkipIdle, Running, Loaded
  <2> QED
    BY <1>1, <1>4, <2>1, GroupKept DEF SkipIdle
<1>5. CASE NoExitSeen(j)
  <2>1. Running' = Running
    BY <1>1, <1>5 DEF NoExitSeen, Running, Loaded
  <2> QED
    BY <1>1, <1>5, <2>1, GroupKept DEF NoExitSeen
<1>6. CASE ReapExited(j) \/ ReapVanished(j)
  <2>1. /\ Running' = Running \ {j} /\ todo' = todo \ {j} /\ cur' = cur /\ pc' = "reap"
    <3>1. /\ ~sched'[j].running /\ \A k \in Jobs \ {j} : sched'[k] = sched[k]
      BY <1>6, ReapedJob DEF ReapExited, ReapVanished
    <3> QED
      BY <1>1, <1>6, <3>1, LoadedJobs DEF Running, Loaded, ReapExited, ReapVanished
  <2>2. Running' \ todo' = Running \ todo
    BY <1>1, <2>1
  <2>3. \A g : SeenIn(g)' = SeenIn(g)
    BY <1>2, <2>2 DEF SeenIn
  <2>4. ASSUME NEW g \in Groups, g \in LoadedGroups
        PROVE  Cardinality(RunningIn(g)') <= GroupMax(g)
    <3>1. RunningIn(g)' \in SUBSET RunningIn(g)
      BY <1>2, <2>1 DEF RunningIn
    <3>2. Cardinality(RunningIn(g)') <= Cardinality(RunningIn(g))
          /\ Cardinality(RunningIn(g)') \in Nat /\ Cardinality(RunningIn(g)) \in Nat
      BY <3>1, GroupFinite
    <3>3. GroupMax(g) \in Nat
      BY <2>4, GroupMaxType DEF LoadedGroups
    <3> QED
      BY <2>4, <3>2, <3>3 DEF GroupInv
  <2> QED
    BY <1>1, <1>3, <2>1, <2>3, <2>4 DEF GroupInv
<1>7. CASE StillRunning(j) \/ KillLate(j)
  <2>1. j \in Running \ (Running \ todo) /\ pc' = "reap" /\ todo' = todo \ {j} /\ CountRunning(j)
    BY <1>1, <1>7 DEF StillRunning, KillLate, CountInv, Running
  <2>2. Running' = Running
    BY <1>7, PassView DEF SameView
  <2>3. \A g : RunningIn(g)' = RunningIn(g)
    BY <1>2, <2>2 DEF RunningIn
  <2>4. ASSUME NEW g \in Groups PROVE cur'[g] = Cardinality(SeenIn(g)')
    <3>1. cur[g] = Cardinality(SeenIn(g))
      BY <1>1 DEF GroupInv
    <3>2. CASE GroupOf(j) = g
      <4>1. SeenIn(g)' = SeenIn(g) \cup {j} /\ j \notin SeenIn(g)
        BY <1>1, <1>2, <2>1, <2>2, <3>2 DEF SeenIn
      <4>2. Cardinality(SeenIn(g)') = Cardinality(SeenIn(g)) + 1
        BY <4>1, GroupFinite, FS_AddElement
      <4>3. cur'[g] = cur[g] + 1
        BY <2>1, <3>2 DEF CountRunning, TypeOK
      <4> QED
        BY <3>1, <4>2, <4>3
    <3>3. CASE GroupOf(j) # g
      <4>1. SeenIn(g)' = SeenIn(g)
        BY <1>1, <1>2, <2>1, <2>2, <3>3 DEF SeenIn
      <4>2. cur'[g] = cur[g]
        BY <2>1, <3>3 DEF CountRunning, TypeOK
      <4> QED
        BY <3>1, <4>1, <4>2
    <3> QED
      BY <3>2, <3>3
  <2> QED
    BY <1>3, <2>1, <2>3, <2>4 DEF GroupInv
<1> QED
  BY <1>4, <1>5, <1>6, <1>7 DEF Reap

LEMMA GroupLaunch ==
  ASSUME TypeOK, CountInv, GroupInv, NEW j \in Jobs, NEW p \in Pids, Launch(j, p)
  PROVE  GroupInv'
<1>1. /\ pc = "exec" /\ pc' = "exec" /\ loaded' = loaded /\ j \in Loaded /\ j \notin Running
      /\ ~GroupFull(j) /\ CountRunning(j)
  BY DEF Launch, MayLaunch, FirstInOrder, Due, CountInv, Running
<1>2. \A k : GroupOf(k)' = GroupOf(k)
  BY <1>1 DEF GroupOf, Pos
<1>3. (\A g : GroupMax(g)' = GroupMax(g)) /\ LoadedGroups' = LoadedGroups
  BY <1>1, <1>2 DEF GroupMax, LoadedGroups, Loaded
<1>4. Running' = Running \cup {j}
  BY <1>1 DEF Launch, Running, Loaded, TypeOK, Schedule
<1>5. ASSUME NEW g \in Groups
      PROVE  /\ cur'[g] = Cardinality(RunningIn(g)')
             /\ g \in LoadedGroups => Cardinality(RunningIn(g)') <= GroupMax(g)
  <2>1. /\ cur[g] = Cardinality(RunningIn(g)) /\ cur[g] \in Nat
        /\ g \in LoadedGroups => Cardinality(RunningIn(g)) <= GroupMax(g)
    BY <1>1, GroupFinite DEF GroupInv, TypeOK
  <2>2. CASE GroupOf(j) = g
    <3>1. RunningIn(g)' = RunningIn(g) \cup {j} /\ j \notin RunningIn(g)
      BY <1>1, <1>2, <1>4, <2>2 DEF RunningIn
    <3>2. Cardinality(RunningIn(g)') = cur[g] + 1
      BY <2>1, <3>1, GroupFinite, FS_AddElement
    <3>3. cur'[g] = cur[g] + 1
      BY <1>1, <2>2 DEF CountRunning, TypeOK
    <3>4. cur[g] + 1 <= GroupMax(g)
      BY <1>1, <2>1, <2>2, GroupMaxType DEF GroupFull
    <3> QED
      BY <3>2, <3>3, <3>4
  <2>3. CASE GroupOf(j) # g
    <3>1. RunningIn(g)' = RunningIn(g)
      BY <1>1, <1>2, <1>4, <2>3 DEF RunningIn
    <3>2. cur'[g] = cur[g]
      BY <1>1, <2>3 DEF CountRunning, TypeOK
    <3> QED
      BY <2>1, <3>1, <3>2
  <2> QED
    BY <2>2, <2>3
<1> QED
  BY <1>1, <1>3, <1>5 DEF GroupInv

LEMMA NextGroup ==
  Sc = 0 /\ TypeOK /\ CountInv /\ GroupInv /\ TypeOK' /\ [Next]_vars => GroupInv'
<1> SUFFICES ASSUME Sc = 0, TypeOK, CountInv, GroupInv, TypeOK', [Next]_vars PROVE GroupInv'
  OBVIOUS
<1> USE DEF daemon
<1>1. CASE UNCHANGED vars
  BY <1>1, GroupKept DEF vars, Running, Loaded
<1>2. CASE Update
  <2>1. Running' = Running
    BY <1>2, QuietUpdate, QuietView DEF SameView
  <2> QED
    BY <1>2, <2>1, GroupKept DEF Update
<1>3. CASE ReapMark
  <2>1. Running' = Running /\ loaded' = loaded /\ pc' = "reap"
    BY <1>3, QuietMark, QuietView DEF SameView, ReapMark
  <2>2. \A k : GroupOf(k)' = GroupOf(k)
    BY <2>1 DEF GroupOf, Pos
  <2>3. (\A g : GroupMax(g)' = GroupMax(g)) /\ LoadedGroups' = LoadedGroups
    BY <2>1, <2>2 DEF GroupMax, LoadedGroups, Loaded
  <2>4. \A g : SeenIn(g)' = {} /\ RunningIn(g)' = RunningIn(g)
    BY <1>3, <2>1, <2>2 DEF SeenIn, RunningIn, ReapMark, Running
  <2>5. \A g \in Groups : cur'[g] = 0
    BY <1>3 DEF ReapMark
  <2>6. Cardinality({}) = 0
    BY FS_EmptySet
  <2> QED
    BY <2>1, <2>3, <2>4, <2>5, <2>6 DEF GroupInv
<1>4. CASE ReapSweep
  <2>1. Running' = Running /\ loaded' = loaded /\ pc = "reap" /\ pc' = "clock" /\ cur' = cur
        /\ todo = {}
    BY <1>4 DEF ReapSweep, Running, Loaded
  <2>2. \A k : GroupOf(k)' = GroupOf(k)
    BY <2>1 DEF GroupOf, Pos
  <2>3. (\A g : GroupMax(g)' = GroupMax(g)) /\ LoadedGroups' = LoadedGroups
    BY <2>1, <2>2 DEF GroupMax, LoadedGroups, Loaded
  <2>4. \A g : RunningIn(g)' = RunningIn(g) /\ SeenIn(g) = RunningIn(g)
    BY <2>1, <2>2 DEF SeenIn, RunningIn
  <2> QED
    BY <2>1, <2>3, <2>4 DEF GroupInv
<1>5. ASSUME NEW j \in Jobs, SkipJob(j) \/ Incomplete(j) \/ LaunchFails(j) \/ LaunchFatal(j)
      PROVE  GroupInv'
  <2>1. pc = "exec" /\ pc' \in {"exec", "done"}
    BY <1>5 DEF SkipJob, Incomplete, LaunchFails, LaunchFatal, MayLaunch
  <2>2. UNCHANGED <<loaded, sched, cur>>
    BY <1>5 DEF SkipJob, Incomplete, LaunchFails, LaunchFatal
  <2> QED
    BY <2>1, <2>2, GroupKept DEF Running, Loaded
<1>6. CASE Clock \/ ClockBack \/ ExecEnd \/ Exit \/ NoReload \/ ReloadFails
  <2>1. /\ pc \in {"clock", "exec", "check"} /\ pc' \in {"exec", "check", "done", "update"}
        /\ UNCHANGED <<loaded, sched, cur>>
    BY <1>6 DEF Clock, ClockBack, ExecEnd, Exit, NoReload, ReloadFails
  <2> QED
    BY <2>1, GroupKept DEF Running, Loaded
<1>7. CASE Environment \/ \E p \in Pids : SigChld(p)
  <2>1. UNCHANGED <<pc, loaded, sched, todo, cur>>
    BY <1>7 DEF Environment, JobExits, GroupEnds, Edit, SigChld
  <2> QED
    BY <2>1, GroupKept DEF Running, Loaded
<1>8. CASE Restart
  <2>1. Running' = {} /\ pc' = "update"
    BY <1>8, JobsOfFile DEF Restart, Running, Loaded, NoSchedule, TypeOK
  <2>2. \A g : RunningIn(g)' = {}
    BY <2>1 DEF RunningIn
  <2>3. \A g \in LoadedGroups' : GroupMax(g)' \in Nat
    <3>1. \A j \in Loaded' : GroupMax(GroupOf(j))' \in Nat
      <4>1. TypeOK' => (\A j \in Loaded : GroupMax(GroupOf(j)) \in Nat)'
        BY GroupsHaveMax, PTL
      <4> QED
        BY <4>1
    <3> QED
      BY <3>1 DEF LoadedGroups
  <2>4. Cardinality({}) = 0
    BY FS_EmptySet
  <2> QED
    BY <2>1, <2>2, <2>3, <2>4 DEF GroupInv
<1> QED
  BY <1>1, <1>2, <1>3, <1>4, <1>5, <1>6, <1>7, <1>8, GroupReap, GroupLaunch, NoReloading
     DEF Next, Loop, Trouble, Exec

LEMMA GroupHolds == Sc = 0 => (Spec => [](TypeOK /\ GroupInv))
<1> SUFFICES ASSUME Sc = 0 PROVE Spec => [](TypeOK /\ GroupInv)
  OBVIOUS
<1>1. TypeOK /\ Init => GroupInv
  <2> SUFFICES ASSUME TypeOK, Init, NEW g \in Groups
               PROVE  g \in LoadedGroups => Cardinality(RunningIn(g)) <= GroupMax(g)
    BY DEF Init, GroupInv
  <2>1. RunningIn(g) = {} /\ Cardinality({}) = 0
    BY LoadedJobs, FS_EmptySet DEF Init, RunningIn, Running, NoSchedule
  <2> QED
    BY <2>1, GroupsHaveMax DEF LoadedGroups
<1>2. TypeOK /\ CountInv /\ GroupInv /\ TypeOK' /\ [Next]_vars => GroupInv'
  BY NextGroup
<1> QED
  BY <1>1, <1>2, CountHolds, TypeCorrect, NoReloading, PTL DEF Spec

\* Without reloading a group never has more processes than its largest <max>: the
\* daemon's count of the group bounds them, also while exits wait to be reported.
THEOREM GroupLimitHolds == Sc = 0 => (Spec => []GroupLimit)
<1>1. TypeOK /\ GroupInv /\ PidInv /\ KnownInv => GroupLimit
  <2> SUFFICES ASSUME TypeOK, GroupInv, PidInv, KnownInv, NEW g \in LoadedGroups
               PROVE  Cardinality({p \in Alive : /\ proc[p].job \in Loaded
                                                 /\ GroupOf(proc[p].job) = g}) <= GroupMax(g)
    BY DEF GroupLimit, LoadedGroups
  <2> DEFINE A == {p \in Alive : proc[p].job \in Loaded /\ GroupOf(proc[p].job) = g}
             f == [p \in A |-> CHOOSE j \in Running : sched[j].pid = p]
  <2>1. ASSUME NEW p \in A
        PROVE  f[p] \in Running /\ sched[f[p]].pid = p /\ GroupOf(f[p]) = g
    <3>1. f[p] \in Running /\ sched[f[p]].pid = p
      BY DEF KnownInv, Alive, Waiting
    <3>2. proc[p].job = f[p]
      <4> HIDE DEF f
      <4> QED
        BY <3>1 DEF PidInv, Alive
    <3> QED
      BY <3>1, <3>2
  <2>2. f \in Injection(A, RunningIn(g))
    <3>1. f \in [A -> RunningIn(g)]
      BY <2>1 DEF RunningIn
    <3>2. \A p, q \in A : f[p] = f[q] => p = q
      BY <2>1
    <3> HIDE DEF f, A
    <3> QED
      BY <3>1, <3>2 DEF Injection, IsInjective
  <2>3. IsFiniteSet(A) /\ Cardinality(A) <= Cardinality(RunningIn(g))
    <3> HIDE DEF f, A
    <3> QED
      BY <2>2, GroupFinite, FS_Injection
  <2>4. Cardinality(A) \in Nat
    <3> HIDE DEF A
    <3> QED
      BY <2>3, FS_CardinalityType
  <2>5. Cardinality(RunningIn(g)) <= GroupMax(g) /\ GroupMax(g) \in Nat
        /\ Cardinality(RunningIn(g)) \in Nat
    BY GroupFinite, GroupsHaveMax DEF GroupInv, LoadedGroups
  <2> HIDE DEF A
  <2>6. Cardinality(A) <= GroupMax(g)
    BY <2>3, <2>4, <2>5
  <2> QED
    BY <2>6 DEF A
<1> QED
  BY <1>1, GroupHolds, KnownHolds, PTL

---------------------------------------------------------------------------
(* Jobs that run too long *)

\* No two consecutive slots of a job are farther apart than its interval. So it is
\* for a schedule without daily windows, which is due every interval from its begin
\* to its end; with windows the time to the next one counts instead.
Dense ==
  \A j \in Jobs : \A a, n \in Slots[j] : \A t \in Nat :
    a <= t /\ t < n => \E m \in Slots[j] : t < m /\ m <= t + Ival[j]

Grace(j) == (Li + 1) * Ival[j]

\* A schedule that waits names one of its slots, one that runs is past its first
SlotInv ==
  \A j \in Jobs :
    /\ sched[j].scheduled => sched[j].nt \in Slots[j]
    /\ sched[j].running => \E a \in Slots[j] : a <= sched[j].nt

Launched == {"exec", "check", "update"}
\* The time of a job that is alive is at most an interval after its launch: that of
\* the launch until the loop comes by scheduleupdate, that of a slot afterwards
Timed(j) ==
  LET r == proc[sched[j].pid] IN
  pc # "done" /\ r.st = "alive" =>
    /\ ~sched[j].late /\ sched[j].nt <= r.born + Ival[j]
    /\ sched[j].scheduled \/ sched[j].expired
       \/ (pc \in Launched /\ sched[j].nt = ct /\ r.born = ct)
\* A job the pass has left alive is in time
InTime(j) ==
  LET r == proc[sched[j].pid] IN
  r.st = "alive" /\ (pc = "clock" \/ (Passing /\ j \notin todo)) => ct <= r.born + Grace(j)
TimeInv == SlotInv /\ \A j \in Running : Timed(j) /\ InTime(j)

LEMMA GraceIs ==
  ASSUME NEW j \in Jobs
  PROVE  Grace(j) \in Nat /\ Li * Ival[j] \in Nat /\ Grace(j) = Li * Ival[j] + Ival[j]
<1>1. Li \in Nat /\ Ival[j] \in Nat
  BY ParamsAssumption, TimesAssumption
<1>2. \A a, b \in Nat : a * b \in Nat /\ (a + 1) * b \in Nat /\ (a + 1) * b = a * b + b
  OBVIOUS
<1> QED
  BY <1>1, <1>2 DEF Grace

\* A job whose schedule and process a step leaves alone.
LEMMA TimeStays ==
  ASSUME TypeOK, NEW j \in Running, Timed(j), InTime(j), sched'[j] = sched[j],
         proc'[sched[j].pid].st = "alive" => proc'[sched[j].pid] = proc[sched[j].pid],
         pc' # "done" => pc # "done",
         pc \in Launched => ct' = ct /\ pc' \in Launched \cup {"done"},
         Passing' \/ pc' = "clock" => ct' = ct,
         Passing' /\ j \notin todo' => Passing /\ j \notin todo,
         pc' = "clock" => pc = "clock" \/ (Passing /\ j \notin todo)
  PROVE  Timed(j)' /\ InTime(j)'
<1>1. Timed(j)'
  BY DEF Timed
<1>2. InTime(j)'
  BY DEF InTime, Grace
<1> QED
  BY <1>1, <1>2

LEMMA NextSlot == Trusted /\ TypeOK /\ SlotInv /\ [Next]_vars => SlotInv'
<1> SUFFICES ASSUME Trusted, TypeOK, SlotInv, [Next]_vars, NEW j \in Jobs
             PROVE  /\ sched'[j].scheduled => sched'[j].nt \in Slots[j]
                    /\ sched'[j].running => \E a \in Slots[j] : a <= sched'[j].nt
  BY DEF SlotInv
<1> DEFINE Goal == /\ sched'[j].scheduled => sched'[j].nt \in Slots[j]
                   /\ sched'[j].running => \E a \in Slots[j] : a <= sched'[j].nt
<1>0. sched[j] \in Schedule /\ Slots[j] \in SUBSET Nat /\ ct \in Nat
  BY ScheduleOfJob, TimesAssumption DEF TypeOK
<1>1. CASE Untouched(j)
  BY <1>1 DEF SlotInv, Untouched
<1>2. CASE Update
  <2>1. sched'[j] = Updated(j) \/ sched'[j] = sched[j]
    BY <1>2 DEF Update
  <2>2. CASE Upcoming(j) # {} /\ sched'[j] # sched[j] /\ ~sched[j].expired /\ ~sched[j].scheduled
    <3>1. LeastOf(Upcoming(j)) \in Upcoming(j)
      BY <1>0, <2>2, LeastOfNat DEF Upcoming
    <3>2. LeastOf(Upcoming(j)) \in Slots[j] /\ LeastOf(Upcoming(j)) \in Nat
          /\ LeastOf(Upcoming(j)) > sched[j].nt
      BY <1>0, <3>1 DEF Upcoming
    <3>3. /\ sched'[j].nt = LeastOf(Upcoming(j)) /\ sched'[j].running = sched[j].running
      BY <1>0, <2>1, <2>2 DEF Updated, Schedule
    <3>4. sched[j].nt \in Nat
      BY <1>0 DEF Schedule
    <3>5. ASSUME sched[j].running PROVE \E a \in Slots[j] : a <= sched'[j].nt
      BY <3>2, <3>3
    <3> QED
      BY <3>2, <3>3, <3>5
  <2>3. CASE ~(Upcoming(j) # {} /\ ~sched[j].expired /\ ~sched[j].scheduled)
    BY <1>0, <1>1, <2>1, <2>3 DEF Updated, Schedule, Untouched
  <2>4. CASE sched'[j] = sched[j]
    BY <1>1, <2>4 DEF Untouched
  <2> QED
    BY <2>2, <2>3, <2>4
<1>3. ASSUME NEW p \in Pids, Launch(j, p) PROVE Goal
  <2>1. sched[j].scheduled /\ ct >= sched[j].nt
    BY <1>3 DEF Launch, MayLaunch, Due
  <2>2. ~sched'[j].scheduled /\ sched'[j].nt = ct
    BY <1>0, <1>3 DEF Launch, TypeOK, Schedule
  <2>3. sched[j].nt \in Slots[j] /\ sched[j].nt <= ct
    BY <1>0, <2>1 DEF SlotInv, Schedule
  <2> QED
    BY <2>2, <2>3
<1>4. CASE Reload \/ Restart
  <2>1. sched'[j] = sched[j] \/ sched'[j] = NoSchedule
    BY <1>4, CarriedState DEF Restart
  <2> QED
    BY <1>1, <2>1 DEF NoSchedule, Untouched
<1> QED
  BY <1>1, <1>2, <1>3, <1>4, TimeKept

\* scheduleupdate moves the time of a job just launched to its next slot, which is at
\* most an interval away.
LEMMA TimedUpdate ==
  ASSUME Dense, TypeOK, SlotInv, Update, NEW j \in Running, Timed(j), proc' = proc,
         sched'[j].pid = sched[j].pid
  PROVE  Timed(j)'
<1> DEFINE r == proc[sched[j].pid]
<1>0. j \in Jobs /\ sched[j].running /\ sched[j] \in Schedule /\ Slots[j] \in SUBSET Nat
      /\ ct \in Nat /\ Ival[j] \in Nat /\ pc = "update" /\ sched'[j] = Updated(j) /\ ct' = ct
  BY RunningJobs, ScheduleOfJob, TimesAssumption DEF TypeOK, Update, Running
<1> SUFFICES ASSUME r.st = "alive"
             PROVE  /\ ~sched'[j].late /\ sched'[j].nt <= r.born + Ival[j]
                    /\ sched'[j].scheduled \/ sched'[j].expired
  BY DEF Timed
<1>1. /\ ~sched[j].late /\ sched[j].nt <= r.born + Ival[j]
      /\ sched[j].scheduled \/ sched[j].expired \/ (sched[j].nt = ct /\ r.born = ct)
  BY <1>0 DEF Timed
<1>2. CASE sched[j].scheduled \/ sched[j].expired
  BY <1>0, <1>1, <1>2 DEF Updated
<1>3. CASE ~(sched[j].scheduled \/ sched[j].expired) /\ Upcoming(j) = {}
  BY <1>0, <1>1, <1>3 DEF Updated, Schedule
<1>4. CASE ~(sched[j].scheduled \/ sched[j].expired) /\ Upcoming(j) # {}
  <2>1. LeastOf(Upcoming(j)) \in Nat /\ \A n \in Upcoming(j) : LeastOf(Upcoming(j)) <= n
    BY <1>0, <1>4, LeastOfNat DEF Upcoming
  <2>2. PICK n \in Upcoming(j) : TRUE
    BY <1>4
  <2>3. PICK a \in Slots[j] : a <= sched[j].nt
    BY <1>0 DEF SlotInv
  <2>4. PICK m \in Slots[j] : ct < m /\ m <= ct + Ival[j]
    BY <1>0, <1>1, <1>4, <2>2, <2>3 DEF Dense, Upcoming
  <2>5. m \in Upcoming(j)
    BY <1>0, <1>1, <1>4, <2>4 DEF Upcoming
  <2>6. LeastOf(Upcoming(j)) <= ct + Ival[j]
    BY <1>0, <2>1, <2>4, <2>5
  <2>7. sched'[j] = [sched[j] EXCEPT !.scheduled = TRUE, !.nt = LeastOf(Upcoming(j))]
    BY <1>0, <1>4 DEF Updated
  <2>8. sched'[j].nt = LeastOf(Upcoming(j)) /\ sched'[j].scheduled /\ sched'[j].late = sched[j].late
    BY <1>0, <2>7 DEF Schedule
  <2> QED
    BY <1>1, <1>4, <2>6, <2>8
<1> QED
  BY <1>2, <1>3, <1>4

LEMMA NextTimed ==
  Trusted /\ Dense /\ TypeOK /\ CountInv /\ PidInv /\ TimeInv /\ [Next]_vars
    => \A j \in Running' : Timed(j)' /\ InTime(j)'
<1> SUFFICES ASSUME Trusted, Dense, TypeOK, CountInv, PidInv, TimeInv, [Next]_vars,
                    NEW j \in Running'
             PROVE  Timed(j)' /\ InTime(j)'
  OBVIOUS
<1> USE DEF Passing, Launched
<1> DEFINE Goal == Timed(j)' /\ InTime(j)'
<1>0. j \in Running => j \in Jobs /\ Timed(j) /\ InTime(j) /\ sched[j].pid \in Pids
  BY RunningJobs DEF TimeInv, PidInv
<1>1. ASSUME UNCHANGED <<sched, loaded, ct>>,
             \A p \in Pids : proc'[p].st = "alive" => proc'[p] = proc[p],
             pc' # "done" => pc # "done",
             pc \in Launched => pc' \in Launched \cup {"done"},
             Passing' => Passing /\ Running \ todo' = Running \ todo,
             pc' = "clock" => pc = "clock" \/ (Passing /\ todo = {})
      PROVE  Goal
  <2>1. j \in Running
    BY <1>1 DEF Running, Loaded
  <2>2. Passing' /\ j \notin todo' => Passing /\ j \notin todo
    BY <1>1, <2>1
  <2> QED
    BY <1>0, <1>1, <2>1, <2>2, TimeStays
<1>2. CASE UNCHANGED vars
  BY <1>1, <1>2 DEF vars, daemon, kernel
<1>3. CASE Update
  <2>1. j \in Running /\ sched'[j].pid = sched[j].pid /\ proc' = proc /\ pc' \in {"mark", "done"}
    BY <1>3, RunningJobs, QuietUpdate, QuietView DEF SameView, Quiet, Update
  <2>2. Timed(j)'
    BY <1>0, <1>3, <2>1, TimedUpdate DEF TimeInv
  <2> QED
    BY <2>1, <2>2 DEF InTime
<1>4. CASE ReapMark
  <2>1. UNCHANGED <<sched, loaded, ct, proc>> /\ pc = "mark" /\ pc' = "reap" /\ todo' = Loaded
    BY <1>4 DEF ReapMark, kernel
  <2>2. j \in Running /\ j \in todo'
    BY <2>1 DEF Running, Loaded
  <2>3. Timed(j)'
    BY <1>0, <2>1, <2>2 DEF Timed
  <2>4. InTime(j)'
    BY <2>1, <2>2 DEF InTime
  <2> QED
    BY <2>3, <2>4
<1>5. CASE ReapSweep
  <2>1. /\ UNCHANGED <<sched, loaded, ct, proc>> /\ pc = "reap" /\ pc' = "clock" /\ todo = {}
    BY <1>5 DEF ReapSweep, kernel
  <2> QED
    BY <1>1, <2>1
<1>6. CASE Clock
  <2>1. UNCHANGED <<sched, loaded, proc>> /\ pc = "clock" /\ pc' = "exec"
    BY <1>6 DEF Clock, kernel
  <2>2. j \in Running
    BY <2>1 DEF Running, Loaded
  <2> QED
    BY <1>0, <2>1, <2>2, TimeStays
<1>7. CASE ClockBack
  BY <1>7 DEF ClockBack, Timed, InTime
<1>8. CASE ExecEnd \/ NoReload \/ Exit \/ ReloadFails
  <2>1. UNCHANGED <<sched, loaded, ct, proc>> /\ pc \in Launched /\ pc' \in Launched \cup {"done"}
    BY <1>8 DEF ExecEnd, NoReload, Exit, ReloadFails, kernel
  <2> QED
    BY <1>1, <2>1
<1>9. ASSUME NEW k \in Jobs, SkipJob(k) \/ Incomplete(k) \/ LaunchFails(k) \/ LaunchFatal(k)
      PROVE  Goal
  <2>1. pc = "exec" /\ pc' \in {"exec", "done"}
    BY <1>9 DEF SkipJob, Incomplete, LaunchFails, LaunchFatal, MayLaunch
  <2>2. UNCHANGED <<sched, loaded, ct, proc>>
    BY <1>9 DEF SkipJob, Incomplete, LaunchFails, LaunchFatal, kernel
  <2> QED
    BY <1>1, <2>1, <2>2
<1>10. ASSUME NEW k \in Jobs, SkipIdle(k) \/ NoExitSeen(k) PROVE Goal
  <2>1. /\ UNCHANGED <<sched, loaded, ct, proc>> /\ pc = "reap" /\ pc' \in {"reap", "late"}
        /\ todo' = todo \/ (todo' = todo \ {k} /\ k \notin Running)
    BY <1>10 DEF SkipIdle, NoExitSeen, kernel, Running
  <2> QED
    BY <1>1, <2>1
<1>11. ASSUME NEW k \in Jobs, ReapExited(k) \/ ReapVanished(k) PROVE Goal
  <2>1. /\ UNCHANGED <<loaded, ct, proc>> /\ Passing /\ pc' = "reap" /\ todo' = todo \ {k}
        /\ sched' = Reaped(k)
    BY <1>11 DEF ReapExited, ReapVanished, kernel
  <2>2. j \in Running /\ sched'[j] = sched[j] /\ j # k
    BY <2>1, ReapedJob, LoadedJobs DEF Running, Loaded
  <2> QED
    BY <1>0, <2>1, <2>2, TimeStays
<1>12. ASSUME NEW k \in Jobs, StillRunning(k) PROVE Goal
  <2>1. /\ UNCHANGED <<sched, loaded, ct, proc>> /\ pc = "late" /\ pc' = "reap"
        /\ todo' = todo \ {k} /\ ~IsLate(k)
    BY <1>12 DEF StillRunning, kernel
  <2>2. j \in Running
    BY <2>1 DEF Running, Loaded
  <2>3. CASE j # k
    BY <1>0, <2>1, <2>2, <2>3, TimeStays
  <2>4. CASE j = k
    <3> DEFINE r == proc[sched[j].pid]
    <3>1. Timed(j)'
      BY <1>0, <2>1, <2>2 DEF Timed
    <3>2. ASSUME r.st = "alive" PROVE ct <= r.born + Grace(j)
      <4>1. ~sched[j].late /\ sched[j].nt <= r.born + Ival[j]
        BY <1>0, <2>1, <2>2, <3>2 DEF Timed
      <4>2. ~(ct > sched[j].nt + Li * Ival[j])
        BY <2>1, <2>4, <4>1 DEF IsLate
      <4>3. ct \in Nat /\ sched[j].nt \in Nat /\ r.born \in Nat /\ Ival[j] \in Nat
        BY <1>0, <2>2, ScheduleOfJob, TimesAssumption DEF TypeOK, Schedule, Process
      <4> HIDE DEF r
      <4>4. ct <= sched[j].nt + Li * Ival[j]
        BY <1>0, <2>2, <4>2, <4>3, GraceIs
      <4> QED
        BY <1>0, <2>2, <4>1, <4>3, <4>4, GraceIs
    <3>3. InTime(j)'
      BY <2>1, <3>2 DEF InTime, Grace
    <3> QED
      BY <3>1, <3>3
  <2> QED
    BY <2>3, <2>4
<1>13. ASSUME NEW k \in Jobs, KillLate(k) PROVE Goal
  <2>1. /\ UNCHANGED <<loaded, ct>> /\ pc = "late" /\ pc' = "reap" /\ todo' = todo \ {k}
        /\ sched' = [sched EXCEPT ![k].late = TRUE] /\ FirstInFile(k)
    BY <1>13 DEF KillLate
  <2>2. j \in Running /\ sched'[j].pid = sched[j].pid
    BY <1>13, RunningJobs, PassView DEF SameView
  <2>3. k \in Running /\ sched[k].pid \in Pids
    BY <2>1 DEF CountInv, FirstInFile, Running, PidInv
  <2>4. /\ proc'[sched[k].pid].st # "alive"
        /\ \A p \in Pids : proc'[p].st = "alive" => proc'[p] = proc[p]
    BY <1>13, <2>3 DEF KillLate, TypeOK, Process
  <2>5. CASE j = k
    BY <2>2, <2>4, <2>5 DEF Timed, InTime
  <2>6. CASE j # k
    <3>1. sched'[j] = sched[j]
      BY <1>0, <2>1, <2>2, <2>6 DEF TypeOK
    <3> QED
      BY <1>0, <2>1, <2>2, <2>4, <2>6, <3>1, TimeStays
  <2> QED
    BY <2>5, <2>6
<1>14. ASSUME NEW k \in Jobs, NEW p \in Pids, Launch(k, p) PROVE Goal
  <2>1. /\ UNCHANGED <<loaded, ct>> /\ pc = "exec" /\ pc' = "exec"
        /\ \A i \in Jobs \ {k} : sched'[i] = sched[i]
        /\ \A q \in Pids \ {p} : proc'[q] = proc[q]
    BY <1>14 DEF Launch, MayLaunch, TypeOK
  <2>2. CASE j = k
    <3>1. /\ ~sched'[k].late /\ sched'[k].nt = ct /\ sched'[k].pid = p
          /\ proc'[p].born = ct
      BY <1>14, ScheduleOfJob DEF Launch, TypeOK, Schedule
    <3>2. ct \in Nat /\ Ival[k] \in Nat
      BY TimesAssumption DEF TypeOK
    <3>3. Timed(j)'
      BY <2>1, <2>2, <3>1, <3>2 DEF Timed
    <3>4. InTime(j)'
      BY <2>1 DEF InTime
    <3> QED
      BY <3>3, <3>4
  <2>3. CASE j # k
    <3>1. j \in Running /\ sched'[j] = sched[j]
      BY <2>1, <2>3, LoadedJobs DEF Running, Loaded
    <3>2. sched[j].pid # p
      BY <1>14, <3>1 DEF Launch, FreshPid, Running
    <3> QED
      BY <1>0, <2>1, <3>1, <3>2, TimeStays
  <2> QED
    BY <2>2, <2>3
<1>15. CASE Reload
  <2>1. UNCHANGED <<ct, proc>> /\ pc = "check" /\ pc' = "update"
    BY <1>15 DEF Reload, kernel
  <2>2. j \in Jobs /\ j \in Loaded' /\ sched'[j].running
    BY <1>15, JobsOfFile DEF Running, Loaded, TypeOK, Reload
  <2>3. j \in Running /\ sched'[j] = sched[j]
    BY <1>15, <2>2, CarriedState DEF Running, NoSchedule
  <2> QED
    BY <1>0, <2>1, <2>3, TimeStays
<1>16. CASE Restart
  BY <1>16, JobsOfFile DEF Restart, Running, Loaded, NoSchedule, TypeOK
<1>17. CASE Environment \/ \E p \in Pids : SigChld(p)
  <2>1. UNCHANGED <<pc, todo, sched, loaded, ct>>
    BY <1>17 DEF Environment, JobExits, GroupEnds, Edit, SigChld, daemon
  <2>2. \A p \in Pids : proc'[p].st = "alive" => proc'[p] = proc[p]
    BY <1>17 DEF Environment, JobExits, GroupEnds, Edit, SigChld, kernel, TypeOK, Process, NoProc
  <2> QED
    BY <1>1, <2>1, <2>2
<1> QED
  BY <1>2, <1>3, <1>4, <1>5, <1>6, <1>7, <1>8, <1>9, <1>10, <1>11, <1>12, <1>13, <1>14, <1>15,
     <1>16, <1>17 DEF Next, Loop, Trouble, Reap, Exec

\* A pass leaves a job alive only within Li + 1 intervals of its launch, also when
\* passes are far apart in time, exits are late and files loaded anew: at its end no
\* job that is alive is later than that.
THEOREM KilledInTimeHolds == Trusted /\ Dense => (Spec => []KilledInTime)
<1> SUFFICES ASSUME Trusted, Dense PROVE Spec => []KilledInTime
  OBVIOUS
<1>1. TypeOK /\ Init => TimeInv
  <2> SUFFICES ASSUME TypeOK, Init PROVE TimeInv
    OBVIOUS
  <2>1. Running = {}
    BY LoadedJobs DEF Init, Running, NoSchedule
  <2> QED
    BY <2>1 DEF Init, TimeInv, SlotInv, NoSchedule
<1>2. TypeOK /\ CountInv /\ PidInv /\ TimeInv /\ [Next]_vars => TimeInv'
  <2> SUFFICES ASSUME TypeOK, CountInv, PidInv, TimeInv, [Next]_vars PROVE TimeInv'
    OBVIOUS
  <2>1. SlotInv'
    BY NextSlot DEF TimeInv
  <2>2. \A j \in Running' : Timed(j)' /\ InTime(j)'
    BY NextTimed
  <2> QED
    BY <2>1, <2>2 DEF TimeInv
<1>3. TypeOK /\ TimeInv => KilledInTime
  BY DEF TimeInv, InTime, KilledInTime, Grace, Alive
<1> QED
  BY <1>1, <1>2, <1>3, PidHolds, PTL DEF Spec
=============================================================================
