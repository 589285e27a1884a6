------------------------------- MODULE VgSched -------------------------------
(***************************************************************************)
(* The collection scheduler vgsched (src/cmd/vizgems/dc/sched): one        *)
(* process that reads a schedule file, launches a vg_collector child per   *)
(* due job, learns of exits through a SIGCHLD handler that fills a fixed   *)
(* table, kills jobs that run too long, and reloads the schedule while     *)
(* children are running.                                                   *)
(*                                                                         *)
(* The main loop (schedmain.c) is cut at every point where the handler, a  *)
(* child or the author of the schedule file can be noticed; everything     *)
(* between two such points is one action.  The calendar arithmetic of      *)
(* scheduleupdate is a set of slot times per job here; VgSchedTimes models *)
(* the arithmetic itself.                                                  *)
(***************************************************************************)
EXTENDS Integers, Sequences, FiniteSets

CONSTANTS
  Jobs,            \* job ids that may appear in a schedule file
  Groups,          \* group ids
  NoGroup,         \* an entry without a <group> tag
  BadGroup,        \* an entry whose <group> tag does not validate
  Files,           \* contents a schedule file may have: sequences of entries
  Ival,            \* Ival[j]: the collection interval of job j
  Slots,           \* Slots[j]: the times at which job j is due
  Pids,            \* process ids the kernel may hand out
  NoPid,
  MaxJobN,         \* -j
  SigDataN,        \* size of the table the SIGCHLD handler fills
  Li,              \* -li
  Sc,              \* -sc, 0 disables reloading
  MaxLaunchFails,  \* consecutive failed launches tolerated (100 in the code)
  MaxTime,         \* bound: the clock stops here
  MaxStarts        \* bound: how often the daemon is started

Entry == [job : Jobs, grp : Groups \cup {NoGroup, BadGroup}, max : Nat \ {0}]

ASSUME ParamsAssumption ==
  /\ MaxJobN \in Nat /\ SigDataN \in Nat \ {0}
  /\ Li \in Nat /\ Sc \in Nat /\ MaxTime \in Nat /\ MaxStarts \in Nat \ {0}
  /\ MaxLaunchFails \in Nat
ASSUME TimesAssumption ==
  /\ Ival \in [Jobs -> Nat]
  /\ \A j \in Jobs : Slots[j] \subseteq Nat
ASSUME IdsAssumption ==
  /\ IsFiniteSet(Jobs) /\ NoPid \notin Pids
  /\ NoGroup # BadGroup /\ NoGroup \notin Groups /\ BadGroup \notin Groups
ASSUME FilesAssumption ==
  \A f \in Files : /\ f \in Seq(Entry)
                   /\ \A i, k \in DOMAIN f : f[i].job = f[k].job => i = k

VARIABLES
  pc,              \* where the main loop is
  ct,              \* its idea of the current time
  st,              \* when it last looked at the schedule file
  sched,           \* sched[j]: the schedule_t of job j
  loaded,          \* the contents schedrootp was built from
  todo,            \* jobs the loop in progress has not visited
  curjobn,         \* running jobs, as counted
  cur,             \* cur[g]: running jobs of group g, as counted
  launchfailures,
  sigdata,         \* the table of exits
  sdm,             \* one past the last slot in use when the reap began
  proc,            \* proc[p]: the process with id p
  desc,            \* process groups with live members other than the leader
  disk,            \* contents of the schedule file
  newer,           \* its mtime is later than that of the contents loaded
  starts           \* how often the daemon was started

daemon == <<pc, ct, st, sched, loaded, todo, curjobn, cur, launchfailures, sdm>>
kernel == <<proc, desc>>
author == <<disk, newer>>
vars == <<daemon, sigdata, kernel, author, starts>>

NoSchedule == [nt |-> 0, expired |-> FALSE, scheduled |-> FALSE,
               running |-> FALSE, late |-> FALSE, pid |-> NoPid]
\* a table slot not in use is one that names no process
FreeSlot == [pid |-> NoPid, marked |-> FALSE]
NoProc == [st |-> "none", job |-> NoPid, born |-> 0]

Slot == 1..SigDataN
InUse == {i \in Slot : sigdata[i].pid # NoPid}
LeastOf(S) == CHOOSE n \in S : \A m \in S : n <= m
ASSUME NoPidIsNoJob == NoPid \notin Jobs

---------------------------------------------------------------------------
(* The loaded schedule file *)

Valid(f) == {i \in DOMAIN f : f[i].grp # BadGroup}
JobsOf(f) == {f[i].job : i \in Valid(f)}
Loaded == JobsOf(loaded)
Pos(j) == CHOOSE i \in DOMAIN loaded : loaded[i].job = j
GroupOf(j) == loaded[Pos(j)].grp
\* gp->max: the largest <max> among the entries of the group
GroupMax(g) ==
  CHOOSE m \in {loaded[i].max : i \in DOMAIN loaded} :
    /\ \E i \in DOMAIN loaded : loaded[i].grp = g /\ loaded[i].max = m
    /\ \A i \in DOMAIN loaded : loaded[i].grp = g => loaded[i].max <= m

Running == {j \in Loaded : sched[j].running}

\* schedules[] is in file order, sorder[] is sorted by cmp()
FirstInFile(j) == j \in todo /\ \A k \in todo : Pos(j) <= Pos(k)
Before(j, k) ==
  \/ Ival[j] < Ival[k]
  \/ /\ Ival[j] = Ival[k]
     /\ \/ GroupOf(j) # NoGroup /\ GroupOf(k) = NoGroup
        \/ /\ GroupOf(j) # NoGroup /\ GroupOf(k) # NoGroup
           /\ GroupMax(GroupOf(j)) > GroupMax(GroupOf(k))
FirstInOrder(j) == j \in todo /\ \A k \in todo : ~Before(k, j)

\* The slot a job id maps to in jobdict: an entry refused for its group stays
\* in the dictionary, its slot is reused by the next entry that is accepted.
DictSlot(f, j) ==
  {k \in Valid(f) : /\ \E i \in DOMAIN f : i <= k /\ f[i].job = j
                    /\ \A n \in Valid(f) :
                         (\E i \in DOMAIN f : i <= n /\ f[i].job = j) => k <= n}

\* mutants: state is carried over by place, or without the time last used
CarriedByPlace(f, was, old) ==
  [j \in Jobs |-> IF \E i \in DOMAIN f \cap DOMAIN was : f[i].job = j
                  THEN old[was[CHOOSE i \in DOMAIN f : f[i].job = j].job]
                  ELSE NoSchedule]
CarriedWithoutTime(f, was, old) ==
  [j \in Jobs |-> IF j \in JobsOf(f) \cap JobsOf(was)
                  THEN [old[j] EXCEPT !.nt = 0] ELSE NoSchedule]

\* the state scheduleload gives job j of contents f, "old" being the state of
\* the schedules built from contents "was"
Carried(f, was, old) ==
  [j \in Jobs |->
     IF j \in JobsOf(f) /\ DictSlot(was, j) # {}
     THEN old[was[CHOOSE k \in DictSlot(was, j) : TRUE].job]
     ELSE NoSchedule]

---------------------------------------------------------------------------
(* The main loop *)

Init ==
  /\ pc = "update" /\ ct = 0 /\ st = 0
  /\ disk \in Files /\ newer = FALSE
  /\ loaded = disk
  /\ sched = [j \in Jobs |-> NoSchedule]
  /\ todo = {} /\ curjobn = 0 /\ cur = [g \in Groups |-> 0]
  /\ launchfailures = 0
  /\ sigdata = [i \in Slot |-> FreeSlot] /\ sdm = 0
  /\ proc = [p \in Pids |-> NoProc] /\ desc = {}
  /\ starts = 1

\* scheduleupdate picks the first slot that is neither past nor already used,
\* also for a job that is still running
Upcoming(j) == {n \in Slots[j] : n >= ct /\ n > sched[j].nt}
Updated(j) ==
  IF sched[j].expired \/ sched[j].scheduled THEN sched[j]
  ELSE IF Upcoming(j) = {} THEN [sched[j] EXCEPT !.expired = TRUE]
  ELSE [sched[j] EXCEPT !.scheduled = TRUE, !.nt = LeastOf(Upcoming(j))]

\* the loop ends, with jobs running or not, when every schedule has expired
Update ==
  /\ pc = "update"
  /\ sched' = [j \in Jobs |-> IF j \in Loaded THEN Updated(j) ELSE sched[j]]
  /\ pc' = IF \E j \in Loaded : ~sched'[j].expired THEN "mark" ELSE "done"
  /\ UNCHANGED <<ct, st, loaded, todo, curjobn, cur, launchfailures, sdm,
                 sigdata, kernel, author, starts>>

\* schedulereap: remember which exits were there when the pass began
ReapMark ==
  /\ pc = "mark"
  /\ curjobn' = 0 /\ cur' = [g \in Groups |-> 0]
  /\ sigdata' = [i \in Slot |-> [sigdata[i] EXCEPT !.marked = i \in InUse]]
  /\ sdm' = IF InUse = {} THEN 0 ELSE CHOOSE i \in InUse : \A k \in InUse : k <= i
  /\ todo' = Loaded /\ pc' = "reap"
  /\ UNCHANGED <<ct, st, sched, loaded, launchfailures, kernel, author, starts>>

Matches(j) == {i \in 1..sdm : sigdata[i].pid # NoPid /\ sigdata[i].pid = sched[j].pid}
Reaped(j) == [sched EXCEPT ![j].running = FALSE, ![j].late = FALSE, ![j].pid = NoPid]

SkipIdle(j) ==
  /\ pc = "reap" /\ FirstInFile(j) /\ ~sched[j].running
  /\ todo' = todo \ {j}
  /\ UNCHANGED <<pc, ct, st, sched, loaded, curjobn, cur, launchfailures, sdm,
                 sigdata, kernel, author, starts>>

ReapExited(j) ==
  /\ pc = "reap" /\ FirstInFile(j) /\ sched[j].running
  /\ \E i \in Matches(j) :
       /\ \A k \in Matches(j) : i <= k
       /\ sigdata' = [sigdata EXCEPT ![i] = FreeSlot]
  /\ sched' = Reaped(j)
  /\ todo' = todo \ {j}
  /\ UNCHANGED <<pc, ct, st, loaded, curjobn, cur, launchfailures, sdm,
                 kernel, author, starts>>

\* the handler may run between the search of the table and the kill
NoExitSeen(j) ==
  /\ pc = "reap" /\ FirstInFile(j) /\ sched[j].running /\ Matches(j) = {}
  /\ pc' = "late"
  /\ UNCHANGED <<ct, st, sched, loaded, todo, curjobn, cur, launchfailures, sdm,
                 sigdata, kernel, author, starts>>

\* mutants: one interval more, and only at the very second
LateOneMore(j) == ~sched[j].late /\ ct > sched[j].nt + (Li + 1) * Ival[j]
LateExactly(j) == ~sched[j].late /\ ct = sched[j].nt + Li * Ival[j]
IsLate(j) == ~sched[j].late /\ ct > sched[j].nt + Li * Ival[j]
GroupExists(p) == proc[p].st # "none" \/ p \in desc

\* mutant: the group is not counted
CountUngrouped(j) == curjobn' = curjobn + 1 /\ cur' = cur
\* a job that stays running is counted again, for the daemon and its group
CountRunning(j) ==
  /\ curjobn' = curjobn + 1
  /\ cur' = IF GroupOf(j) \in Groups
            THEN [cur EXCEPT ![GroupOf(j)] = @ + 1] ELSE cur

StillRunning(j) ==
  /\ pc = "late" /\ FirstInFile(j) /\ ~IsLate(j)
  /\ CountRunning(j)
  /\ todo' = todo \ {j} /\ pc' = "reap"
  /\ UNCHANGED <<ct, st, sched, loaded, launchfailures, sdm, sigdata,
                 kernel, author, starts>>

\* mutant: a job is reaped as soon as the signal is sent
KillAndReap(j) ==
  LET p == sched[j].pid IN
  /\ pc = "late" /\ FirstInFile(j) /\ IsLate(j) /\ GroupExists(p)
  /\ sched' = Reaped(j)
  /\ proc' = [proc EXCEPT ![p].st = IF @ = "alive" THEN "zombie" ELSE @]
  /\ desc' = desc \ {p}
  /\ todo' = todo \ {j} /\ pc' = "reap"
  /\ UNCHANGED <<ct, st, loaded, curjobn, cur, launchfailures, sdm, sigdata,
                 author, starts>>

\* SIGKILL takes down the leader and what is left of its group
KillLate(j) ==
  LET p == sched[j].pid IN
  /\ pc = "late" /\ FirstInFile(j) /\ IsLate(j) /\ GroupExists(p)
  /\ sched' = [sched EXCEPT ![j].late = TRUE]
  /\ proc' = [proc EXCEPT ![p].st = IF @ = "alive" THEN "zombie" ELSE @]
  /\ desc' = desc \ {p}
  /\ CountRunning(j)
  /\ todo' = todo \ {j} /\ pc' = "reap"
  /\ UNCHANGED <<ct, st, loaded, launchfailures, sdm, sigdata, author, starts>>

\* kill() fails: nothing is left of the job, its exit is never matched
ReapVanished(j) ==
  /\ pc = "late" /\ FirstInFile(j) /\ IsLate(j) /\ ~GroupExists(sched[j].pid)
  /\ sched' = Reaped(j)
  /\ todo' = todo \ {j} /\ pc' = "reap"
  /\ UNCHANGED <<ct, st, loaded, curjobn, cur, launchfailures, sdm, sigdata,
                 kernel, author, starts>>

\* mutant: the mark is not looked at
SweptUnmarked(i) == i <= sdm
Swept(i) == i <= sdm /\ sigdata[i].marked
\* exits seen when the pass began that no job claimed are forgotten
ReapSweep ==
  /\ pc = "reap" /\ todo = {}
  /\ sigdata' = [i \in Slot |-> IF Swept(i) THEN FreeSlot ELSE sigdata[i]]
  /\ sdm' = 0
  /\ pc' = "clock"
  /\ UNCHANGED <<ct, st, sched, loaded, todo, curjobn, cur, launchfailures,
                 kernel, author, starts>>

\* ct = time (NULL); sleeping and running take any amount of time
Clock ==
  /\ pc = "clock"
  /\ ct' \in ct..MaxTime
  /\ todo' = Loaded /\ pc' = "exec"
  /\ UNCHANGED <<st, sched, loaded, curjobn, cur, launchfailures, sdm, sigdata,
                 kernel, author, starts>>

\* the clock was set back
ClockBack ==
  /\ pc = "clock" /\ pc' = "done"
  /\ ct' \in 0..(ct - 1)
  /\ UNCHANGED <<st, sched, loaded, todo, curjobn, cur, launchfailures, sdm,
                 sigdata, kernel, author, starts>>

---------------------------------------------------------------------------
(* scheduleexec *)

\* mutant: a job that runs is due again
DueAgain(j) == ~sched[j].expired /\ sched[j].scheduled /\ ct >= sched[j].nt
Due(j) == /\ ~sched[j].running /\ ~sched[j].expired
          /\ sched[j].scheduled /\ ct >= sched[j].nt
GroupFull(j) == GroupOf(j) \in Groups /\ cur[GroupOf(j)] >= GroupMax(GroupOf(j))
\* mutant: one more than there may be
FullTooLate == curjobn > MaxJobN + 1
Full == curjobn > MaxJobN
Overdue(j) == sched[j].nt + Ival[j] < ct

\* passed over: not due, or its group is full, or the daemon is and it can wait
SkipJob(j) ==
  /\ pc = "exec" /\ FirstInOrder(j)
  /\ ~Due(j) \/ GroupFull(j) \/ (Full /\ ~Overdue(j))
  /\ todo' = todo \ {j}
  /\ UNCHANGED <<pc, ct, st, sched, loaded, curjobn, cur, launchfailures, sdm,
                 sigdata, kernel, author, starts>>

\* the daemon is full and a job has missed a whole interval: the pass ends
Incomplete(j) ==
  /\ pc = "exec" /\ FirstInOrder(j)
  /\ Due(j) /\ ~GroupFull(j) /\ Full /\ Overdue(j)
  /\ todo' = {}
  /\ UNCHANGED <<pc, ct, st, sched, loaded, curjobn, cur, launchfailures, sdm,
                 sigdata, kernel, author, starts>>

MayLaunch(j) == pc = "exec" /\ FirstInOrder(j) /\ Due(j) /\ ~GroupFull(j) /\ ~Full

\* Pids the kernel may reuse. A pid still named by the table or by a schedule
\* is taken not to come round again that soon.
FreshPid(p) == /\ ~GroupExists(p)
               /\ \A i \in InUse : sigdata[i].pid # p
               /\ \A j \in Loaded : sched[j].pid # p

Launch(j, p) ==
  /\ MayLaunch(j) /\ FreshPid(p)
  /\ proc' = [proc EXCEPT ![p] = [st |-> "alive", job |-> j, born |-> ct]]
  /\ sched' = [sched EXCEPT ![j].scheduled = FALSE, ![j].running = TRUE,
                            ![j].late = FALSE, ![j].nt = ct, ![j].pid = p]
  /\ CountRunning(j)
  /\ launchfailures' = 0
  /\ todo' = todo \ {j}
  /\ UNCHANGED <<pc, ct, st, loaded, sdm, sigdata, desc, author, starts>>

\* no file descriptor or no process to be had: the pass ends, and the daemon
\* gives up when that happened too often in a row. (The -1 a failed spawn leaves
\* in the schedule's pid is not read: the schedule is not running.)
LaunchFails(j) ==
  /\ MayLaunch(j)
  /\ launchfailures' = launchfailures + 1
  /\ IF launchfailures > MaxLaunchFails
     THEN pc' = "done"
     ELSE UNCHANGED pc
  /\ todo' = {}
  /\ UNCHANGED <<ct, st, sched, loaded, curjobn, cur, sdm, sigdata,
                 kernel, author, starts>>

\* the job's directory or specification cannot be written
LaunchFatal(j) ==
  /\ MayLaunch(j) /\ pc' = "done"
  /\ UNCHANGED <<ct, st, sched, loaded, todo, curjobn, cur, launchfailures, sdm,
                 sigdata, kernel, author, starts>>

ExecEnd ==
  /\ pc = "exec" /\ todo = {} /\ pc' = "check"
  /\ UNCHANGED <<ct, st, sched, loaded, todo, curjobn, cur, launchfailures, sdm,
                 sigdata, kernel, author, starts>>

---------------------------------------------------------------------------
(* the rest of the loop *)

\* the exit file is there; when it is looked for is left open
Exit ==
  /\ pc = "check" /\ pc' = "done"
  /\ UNCHANGED <<ct, st, sched, loaded, todo, curjobn, cur, launchfailures, sdm,
                 sigdata, kernel, author, starts>>

LoadDue == Sc > 0 /\ ct > st + Sc

\* nothing to load, or the file is not there to be looked at
NoReload ==
  /\ pc = "check"
  /\ st' = IF LoadDue THEN ct ELSE st
  /\ pc' = "update"
  /\ UNCHANGED <<ct, sched, loaded, todo, curjobn, cur, launchfailures, sdm,
                 sigdata, kernel, author, starts>>

\* scheduleload. The group counters carried over are those of groups that
\* the new contents still use; the others start from zero.
GroupsOf(f) == {f[i].grp : i \in Valid(f)} \cap Groups
Reload ==
  /\ pc = "check" /\ LoadDue /\ newer
  /\ sched' = Carried(disk, loaded, sched)
  /\ cur' = [g \in Groups |->
       IF g \in GroupsOf(disk) /\ g \in GroupsOf(loaded) THEN cur[g] ELSE 0]
  /\ loaded' = disk /\ newer' = FALSE
  /\ st' = ct /\ pc' = "update"
  /\ UNCHANGED <<ct, todo, curjobn, launchfailures, sdm, sigdata, kernel, disk,
                 starts>>

\* the file cannot be opened or parsed
ReloadFails ==
  /\ pc = "check" /\ LoadDue /\ newer /\ pc' = "done"
  /\ UNCHANGED <<ct, st, sched, loaded, todo, curjobn, cur, launchfailures, sdm,
                 sigdata, kernel, author, starts>>

\* vg_scheduler starts the daemon again. What it knew of its children is gone:
\* they run on, and nobody will report their exits.
Orphaned(r) == CASE r.st = "alive" -> [r EXCEPT !.st = "orphan"]
                 [] r.st = "zombie" -> NoProc
                 [] OTHER -> r
Restart ==
  /\ pc = "done" /\ starts < MaxStarts
  /\ starts' = starts + 1
  /\ pc' = "update" /\ st' = ct
  /\ loaded' = disk /\ newer' = FALSE
  /\ sched' = [j \in Jobs |-> NoSchedule]
  /\ todo' = {} /\ curjobn' = 0 /\ cur' = [g \in Groups |-> 0]
  /\ launchfailures' = 0
  /\ sigdata' = [i \in Slot |-> FreeSlot] /\ sdm' = 0
  /\ proc' = [p \in Pids |-> Orphaned(proc[p])]
  /\ UNCHANGED <<ct, desc, disk>>

---------------------------------------------------------------------------
(* The SIGCHLD handler, the children, and whoever writes the schedule file *)

\* The handler waits for one exited child and stores its exit in the first
\* free slot. When the table is full the exit is reported and dropped.
FreeSlots == Slot \ InUse
SigChld(p) ==
  /\ pc # "done" /\ proc[p].st = "zombie"
  /\ proc' = [proc EXCEPT ![p] = NoProc]
  /\ sigdata' = IF FreeSlots = {} THEN sigdata
                ELSE [sigdata EXCEPT ![LeastOf(FreeSlots)] =
                        [pid |-> p, marked |-> FALSE]]
  /\ UNCHANGED <<daemon, desc, author, starts>>

\* a job ends, possibly leaving processes of its group behind
JobExits(p) ==
  /\ proc[p].st \in {"alive", "orphan"}
  /\ proc' = [proc EXCEPT ![p] =
       IF @.st = "alive" THEN [@ EXCEPT !.st = "zombie"] ELSE NoProc]
  /\ desc' \in {desc, desc \cup {p}}
  /\ UNCHANGED <<daemon, sigdata, author, starts>>

GroupEnds(p) ==
  /\ p \in desc /\ desc' = desc \ {p}
  /\ UNCHANGED <<daemon, sigdata, proc, author, starts>>

\* a new file is put in place, in a later second than the one loaded
Edit(f) ==
  /\ Sc > 0 /\ f # disk
  /\ disk' = f /\ newer' = TRUE
  /\ UNCHANGED <<daemon, sigdata, kernel, starts>>

---------------------------------------------------------------------------

Reap(j) == SkipIdle(j) \/ ReapExited(j) \/ NoExitSeen(j) \/ StillRunning(j)
           \/ KillLate(j) \/ ReapVanished(j)
Exec(j) == SkipJob(j) \/ Incomplete(j) \/ \E p \in Pids : Launch(j, p)
\* the steps the daemon is bound to take
Loop == \/ Update \/ ReapMark \/ ReapSweep \/ Clock \/ ExecEnd
        \/ NoReload \/ Reload
        \/ \E j \in Jobs : Reap(j) \/ Exec(j)
\* what may go wrong in it
Trouble == \/ ClockBack \/ Exit \/ ReloadFails
           \/ \E j \in Jobs : LaunchFails(j) \/ LaunchFatal(j)
Environment == \/ \E p \in Pids : JobExits(p) \/ GroupEnds(p)
               \/ \E f \in Files : Edit(f)

Next == Loop \/ Trouble \/ Restart \/ Environment \/ \E p \in Pids : SigChld(p)

Spec == Init /\ [][Next]_vars

\* The daemon keeps running, time passes (a pass that finds nothing to do, and
\* every second pass in a row that does, sleeps), and signals are delivered.
\* Nothing makes a job end, or a launch succeed.
Fairness == /\ WF_vars(Loop \/ Trouble)
            /\ SF_vars(Clock /\ ct' > ct)
            /\ WF_vars(\E p \in Pids : SigChld(p))
FairSpec == Spec /\ Fairness

---------------------------------------------------------------------------
(* Properties *)

Schedule == [nt : Nat, expired : BOOLEAN, scheduled : BOOLEAN,
             running : BOOLEAN, late : BOOLEAN, pid : Pids \cup {NoPid}]
Exits == [pid : Pids \cup {NoPid}, marked : BOOLEAN]
Process == [st : {"none", "alive", "zombie", "orphan"},
            job : Jobs \cup {NoPid}, born : Nat]

\* Every variable of the daemon and of its surroundings has its type.
TypeOK ==
  /\ pc \in {"update", "mark", "reap", "late", "clock", "exec", "check", "done"}
  /\ ct \in Nat /\ st \in Nat
  /\ sched \in [Jobs -> Schedule]
  /\ loaded \in Files /\ disk \in Files /\ newer \in BOOLEAN
  /\ todo \subseteq Jobs
  /\ curjobn \in Nat /\ cur \in [Groups -> Nat] /\ launchfailures \in Nat
  /\ sigdata \in [Slot -> Exits] /\ sdm \in 0..SigDataN
  /\ proc \in [Pids -> Process] /\ desc \subseteq Pids
  /\ starts \in Nat

Alive == {p \in Pids : proc[p].st = "alive"}
Stored(p) == \E i \in InUse : sigdata[i].pid = p

\* However exits, signals, kills and passes over the table interleave, the exit
\* of a job believed to run is never lost: its process is there, or waits to be
\* reported, or is named by the table (sigchldhandler, schedulereap).
NoExitLost ==
  \A j \in Running : LET p == sched[j].pid IN
    /\ p # NoPid
    /\ proc[p].st \in {"alive", "zombie"} \/ Stored(p)

\* The daemon never believes more than MaxJobN + 1 jobs to be running, across
\* reloads and restarts (scheduleexec, scheduleload); -j says MaxJobN.
JobLimit == Cardinality(Running) <= MaxJobN + 1

\* While the schedule is not reloaded, what the daemon believes bounds what there
\* is: children keep the promise of JobSlots, in spite of kills, of late signals
\* and of exits not seen yet. One more than -j says.
Limit == INSTANCE JobSlots WITH Procs <- Pids, Max <- MaxJobN + 1, held <- Alive
IsJobSlots == Limit!SlotsSpec

\* No job has two processes at once, so no two collectors write the same
\* directory (launch runs each job in $datadir/data/<jobid>).
OneProcessPerJob == \A p, q \in Alive : proc[p].job = proc[q].job => p = q

\* A group never has more live processes than the <max> of its entries.
GroupLimit ==
  \A g \in Groups \cap {GroupOf(j) : j \in Loaded} :
    Cardinality({p \in Alive : proc[p].job \in Loaded /\ GroupOf(proc[p].job) = g})
      <= GroupMax(g)

\* A schedule that runs names a process of its own job: no exit is credited to,
\* no signal sent for, another job.
OwnProcess ==
  \A j \in Running :
    sched[j].pid # NoPid /\ proc[sched[j].pid].st # "none"
      => proc[sched[j].pid].job = j

\* A pass over the table leaves a job alive only within Li + 1 intervals of its
\* launch, one more than -li says: lateness counts from the slot that follows
\* it (schedulereap, scheduleupdate).
KilledInTime ==
  pc = "clock" => \A p \in Alive : \A j \in Running :
    sched[j].pid = p => ct <= proc[p].born + (Li + 1) * Ival[j]

\* A job stops being believed to run only when its process is gone, for good
\* if it went unseen.
ReapedOnlyWhenGone ==
  [][\A j \in Running :
       ~sched'[j].running /\ loaded' = loaded /\ starts' = starts
         => proc[sched[j].pid].st = "none"]_vars

\* Outside a restart no job that stays in the schedule goes back in time, also
\* when it moves to another place of a new file: no slot is run twice.
NeverASlotTwice ==
  [][starts' = starts =>
       \A j \in Loaded \cap Loaded' : sched'[j].nt >= sched[j].nt]_vars

\* A launched job is reaped in the end, even one that never ends by itself.
EveryJobIsReaped ==
  \A j \in Jobs :
    (j \in Running /\ ct + (Li + 1) * Ival[j] < MaxTime)
      ~> (j \notin Running \/ pc = "done")
=============================================================================
