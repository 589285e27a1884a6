----------------------------- MODULE JobLimiter -----------------------------
(***************************************************************************)
(* The limiter of jobs in unrelated processes,                             *)
(* src/src/cmd/swift/dp/sdpmpjobcntl.sh, as the REST scripts of            *)
(* src/src/cmd/vizgems/ui/rest use it: a process registers itself in a     *)
(* table (the file "state") and holds a file of its own open (fd 4) while  *)
(* it works. The table is read and rewritten under a lock file. An entry   *)
(* older than a minute whose file nobody holds open is dropped, so that    *)
(* processes that were killed, or left without sdpmpendjob, give their     *)
(* slot back. Every process registers once.                                *)
(***************************************************************************)
EXTENDS Integers, FiniteSets

CONSTANTS
  Procs, None,
  JobMax,        \* sdpmpjobmax
  MaxKills       \* bound: processes killed

ASSUME ProcsAssumption == IsFiniteSet(Procs) /\ None \notin Procs
ASSUME LimitAssumption == JobMax \in Nat \ {0} /\ MaxKills \in Nat

VARIABLES
  pc,        \* where each process is
  phase,     \* what it wants the lock for: "start", "end", or, full, "again"
  lockBy,    \* who created the lock file, None if there is none
  lockPid,   \* the pid in it, None while it is empty
  state,     \* the processes named in the table
  tab,       \* tab[p]: the table in the memory of p
  aged,      \* processes that registered more than a minute ago
  open,      \* processes whose own file is held open, by them or their children
  exitFile,  \* the file "exit" tells processes not to start
  kills,
  late,      \* history: processes whose probe is older than the lock file
  stolen,    \* history: the lock of a process past it was removed by a late one
  hurt       \* history: processes that had a slot, or were past the lock, when
             \* another came past it because of that

procs == <<pc, phase>>
lock == <<lockBy, lockPid>>
table == <<state, tab, aged, open>>
race == <<late, stolen, hurt>>
vars == <<procs, lock, table, exitFile, kills, race>>

Alive(p) == pc[p] \notin {"new", "gone"}
Goto(p, l) == pc' = [pc EXCEPT ![p] = l]

Init ==
  /\ pc = [p \in Procs |-> "new"] /\ phase = [p \in Procs |-> "start"]
  /\ lockBy = None /\ lockPid = None
  /\ state = {} /\ tab = [p \in Procs |-> {}] /\ aged = {} /\ open = {}
  /\ exitFile = FALSE /\ kills = 0
  /\ late = {} /\ stolen = FALSE /\ hurt = {}

---------------------------------------------------------------------------
(* sdpmplock and sdpmpunlock *)

\* between the creation of the lock file and its removal
Critical(p) == pc[p] \in {"print", "read", "write", "close", "unlock"}
PastLock == {p \in Procs : Critical(p)}

\* exec 3> with noclobber, whoever else is past the lock or about to remove one
Create(p) ==
  /\ pc[p] = "try" /\ lockBy = None
  /\ lockBy' = p /\ lockPid' = None
  /\ Goto(p, "print")
  /\ late' = {q \in Procs : pc[q] = "rm"}
  /\ hurt' = IF stolen THEN hurt \cup open \cup PastLock \cup {p} ELSE hurt
  /\ UNCHANGED <<phase, table, exitFile, kills, stolen>>

Blocked(p) ==
  /\ pc[p] = "try" /\ lockBy # None
  /\ Goto(p, "probe")
  /\ UNCHANGED <<phase, lock, table, exitFile, kills, race>>

\* mutant: a lock file that is still empty is taken for a stale one
HeldByPid == lockBy # None /\ lockPid # None /\ Alive(lockPid)
\* kill -0 of the pid in the file, else fuser: its creator has it open
Held == \/ lockPid # None /\ Alive(lockPid)
        \/ lockBy # None /\ Alive(lockBy)

NoLock == lockBy' = None /\ lockPid' = None

Probe(p) ==
  /\ pc[p] = "probe"
  /\ Goto(p, IF Held THEN "try" ELSE "rm")
  /\ UNCHANGED <<phase, lock, table, exitFile, kills, race>>

\* rm of whatever file has the name by now
Remove(p) ==
  /\ pc[p] = "rm"
  /\ NoLock /\ Goto(p, "try")
  /\ late' = late \ {p}
  /\ stolen' = (stolen \/ (p \in late /\ lockBy \in PastLock))
  /\ UNCHANGED <<phase, table, exitFile, kills, hurt>>

\* the pid goes to the file p created
PrintPid(p) ==
  /\ pc[p] = "print"
  /\ lockPid' = IF lockBy = p THEN p ELSE lockPid
  /\ Goto(p, "read")
  /\ UNCHANGED <<phase, lockBy, table, exitFile, kills, race>>

Unlock(p) ==
  /\ pc[p] = "unlock"
  /\ NoLock
  /\ Goto(p, CASE phase[p] = "start" -> "work" [] phase[p] = "again" -> "check"
               [] phase[p] = "end" -> "gone")
  /\ stolen' = (stolen /\ PastLock \ {p} # {})
  /\ UNCHANGED <<phase, table, exitFile, kills, late, hurt>>

---------------------------------------------------------------------------
(* sdpmpreadstate, sdpmpwritestate, sdpmpstartjob, sdpmpendjob *)

\* the head of the loop of sdpmpstartjob
Check(p) ==
  /\ pc[p] \in {"new", "check"}
  /\ Goto(p, IF exitFile THEN "gone" ELSE "try")
  /\ phase' = [phase EXCEPT ![p] = "start"]
  /\ UNCHANGED <<lock, table, exitFile, kills, race>>

\* mutants: every entry of more than a minute is dropped; none is
KeptYoung == state \ aged
KeptAll == state
\* what sdpmpreadstate leaves of the table
Kept == {q \in state : q \notin aged \/ q \in open}

HasRoom == Cardinality(Kept) < JobMax

Register(p) ==
  /\ pc[p] = "read" /\ phase[p] = "start" /\ HasRoom
  /\ tab' = [tab EXCEPT ![p] = Kept \cup {p}]
  /\ open' = open \cup {p}
  /\ Goto(p, "write")
  /\ UNCHANGED <<phase, lock, state, aged, exitFile, kills, race>>

\* sleep 1 and another round; what was dropped from the table is not written
Full(p) ==
  /\ pc[p] = "read" /\ phase[p] = "start" /\ ~HasRoom
  /\ phase' = [phase EXCEPT ![p] = "again"]
  /\ Goto(p, "unlock")
  /\ UNCHANGED <<lock, table, exitFile, kills, race>>

Unregister(p) ==
  /\ pc[p] = "read" /\ phase[p] = "end"
  /\ tab' = [tab EXCEPT ![p] = Kept \ {p}]
  /\ Goto(p, "write")
  /\ UNCHANGED <<phase, lock, state, aged, open, exitFile, kills, race>>

\* state.tmp is renamed to state; a table is read afresh before it is used again
Write(p) ==
  /\ pc[p] = "write"
  /\ state' = tab[p] /\ aged' = aged \cap tab[p]
  /\ tab' = [tab EXCEPT ![p] = {}]
  /\ Goto(p, IF phase[p] = "end" THEN "close" ELSE "unlock")
  /\ UNCHANGED <<phase, lock, open, exitFile, kills, race>>

\* p's file is closed, and what a race did to its slot no longer matters
CloseFile(p) == open' = open \ {p} /\ hurt' = hurt \ {p}

Close(p) ==
  /\ pc[p] = "close"
  /\ CloseFile(p)
  /\ Goto(p, "unlock")
  /\ UNCHANGED <<phase, lock, state, tab, aged, exitFile, kills, late, stolen>>

---------------------------------------------------------------------------
(* The job, and what happens to processes *)

Finish(p) ==
  /\ pc[p] = "work"
  /\ phase' = [phase EXCEPT ![p] = "end"]
  /\ Goto(p, "try")
  /\ UNCHANGED <<lock, table, exitFile, kills, race>>

\* a script ends without sdpmpendjob, as for a query with illegal characters
LeaveEarly(p) ==
  /\ pc[p] = "work"
  /\ Goto(p, "gone")
  /\ CloseFile(p)
  /\ UNCHANGED <<phase, lock, state, tab, aged, exitFile, kills, late, stolen>>

\* the web server kills a script; subshells of its job may run on
Kill(p) ==
  /\ Alive(p) /\ kills < MaxKills
  /\ kills' = kills + 1
  /\ Goto(p, "gone")
  /\ \/ CloseFile(p)
     \/ pc[p] = "work" /\ UNCHANGED <<open, hurt>>
  /\ late' = late \ {p} /\ stolen' = (stolen /\ PastLock \ {p} # {})
  /\ UNCHANGED <<phase, lock, state, tab, aged, exitFile>>

ChildrenEnd(p) ==
  /\ pc[p] = "gone" /\ p \in open
  /\ CloseFile(p)
  /\ UNCHANGED <<procs, lock, state, tab, aged, exitFile, kills, late, stolen>>

\* a minute has passed since p registered
Age(p) ==
  /\ p \in state \ aged
  /\ aged' = aged \cup {p}
  /\ UNCHANGED <<procs, lock, state, tab, open, exitFile, kills, race>>

CreateExit ==
  /\ ~exitFile /\ exitFile' = TRUE
  /\ UNCHANGED <<procs, lock, table, kills, race>>

---------------------------------------------------------------------------

Locking(p) == Create(p) \/ Blocked(p) \/ Probe(p) \/ Remove(p) \/ PrintPid(p) \/ Unlock(p)
Limiting(p) == Check(p) \/ Register(p) \/ Full(p) \/ Unregister(p) \/ Write(p) \/ Close(p)
Job(p) == Finish(p) \/ LeaveEarly(p)
Step(p) == Locking(p) \/ Limiting(p) \/ Job(p)

Next == \/ \E p \in Procs : Step(p) \/ Kill(p) \/ ChildrenEnd(p) \/ Age(p)
        \/ CreateExit

Spec == Init /\ [][Next]_vars

\* Processes that are not killed go on and their jobs end; time passes (each process
\* ages once, and each job that was left alone ends once). A process
\* that waits sleeps for a random time, so its wait does not always end, nor does
\* it always come, while the lock is held: strong fairness of these two.
Fairness ==
  /\ WF_vars(\E p \in Procs : ChildrenEnd(p) \/ Age(p))
  /\ \A p \in Procs : /\ WF_vars(Step(p))
                      /\ SF_vars(Create(p)) /\ SF_vars(Probe(p) /\ lockBy = None)
FairSpec == Spec /\ Fairness

---------------------------------------------------------------------------
(* Properties *)

\* Processes, lock and tables have their types.
TypeOK ==
  /\ pc \in [Procs -> {"new", "check", "try", "probe", "rm", "print", "read", "write",
                       "close", "unlock", "work", "gone"}]
  /\ phase \in [Procs -> {"start", "again", "end"}]
  /\ lockBy \in Procs \cup {None} /\ lockPid \in Procs \cup {None}
  /\ state \subseteq Procs /\ tab \in [Procs -> SUBSET Procs]
  /\ aged \subseteq Procs /\ open \subseteq Procs
  /\ exitFile \in BOOLEAN /\ kills \in Nat
  /\ late \subseteq Procs /\ stolen \in BOOLEAN /\ hurt \subseteq Procs

\* What one process does to the others when it removes a lock file made after its
\* probe (sdpmplock, no kill is needed): a second one gets past the lock and the
\* tables of the two overwrite each other. Nothing is promised to those that had a
\* slot or were past the lock then. What follows is promised to all others, also
\* after such a race; and it is the only way to lose it.

\* No more jobs of processes that no race has touched run, with those whose script
\* was killed under them, than sdpmpjobmax (sdpmpstartjob).
JobLimit == Cardinality(open \ hurt) <= JobMax

\* A process at work is in the table, however long it works and whoever rewrites
\* the table meanwhile (sdpmpreadstate, sdpmpwritestate).
WorkerIsRegistered == \A p \in Procs : pc[p] = "work" => p \in state \/ p \in hurt

\* The limiter keeps the promise of JobSlots, for the jobs whose file is open; a
\* race makes several leave at once.
Slots == INSTANCE JobSlots WITH Max <- JobMax, held <- open \ hurt
IsJobSlots == Slots!SlotsSpec

\* Slots and locks of processes that are killed or leave early come back, and a race
\* for the lock stops nobody: every process that asks gets its slot, or is told to go
\* (or killed), and comes to its end.
EveryoneServed == <>(\A p \in Procs : pc[p] = "gone")
=============================================================================
