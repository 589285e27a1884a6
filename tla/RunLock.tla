------------------------------- MODULE RunLock -------------------------------
(***************************************************************************)
(* The lock file that keeps two instances of a periodic script from running*)
(* at once. The same block opens sdpincoming, sdpprocessing, sdpcomplete   *)
(* and sdpcleanup (src/cmd/swift/dp), strincoming, stroutgoing, strcleanup *)
(* and strreport (src/cmd/swift/tr), and, without fuser, vg_scheduler      *)
(* (src/cmd/vizgems/dc/scopes).                                            *)
(*                                                                         *)
(* Every run of the script is one process, started once. It creates the    *)
(* lock file with noclobber set and then prints its pid to it; a run that  *)
(* finds a file there exits, but first removes the file when it looks      *)
(* stale. Background jobs of a run inherit the open lock file and may      *)
(* outlive a script that is killed.                                        *)
(***************************************************************************)
EXTENDS Integers, FiniteSets

CONSTANTS
  Runs,            \* the runs of the script
  None,
  UsesFuser,       \* the block also asks fuser who has the file open
  OneStarter,      \* runs do not decide at the same time
  AwaitsJobs,      \* the script waits for its jobs before it exits
  MaxKills,        \* bound: how many scripts are killed
  MaxTerms         \* bound: how many HUP, QUIT and TERM signals are sent

ASSUME ParamsAssumption ==
  /\ None \notin Runs
  /\ UsesFuser \in BOOLEAN /\ OneStarter \in BOOLEAN /\ AwaitsJobs \in BOOLEAN
  /\ MaxKills \in Nat /\ MaxTerms \in Nat

VARIABLES
  pc,              \* pc[r]: where run r is
  lock,            \* the run whose file is in place, or None
  pid,             \* the run that file names, None while it is empty
  jobs,            \* runs that have background jobs
  kills, terms

vars == <<pc, lock, pid, jobs, kills, terms>>

\* a script that has not created its file decides whether to run
Deciding(r) == pc[r] \in {"open", "probe", "fuser", "remove", "print"}
\* it runs once it has created its file
Script(r) == pc[r] \in {"print", "run"}
Alive(r) == pc[r] \notin {"new", "over"}

Init ==
  /\ pc = [r \in Runs |-> "new"]
  /\ lock = None /\ pid = None /\ jobs = {}
  /\ kills = 0 /\ terms = 0

Start(r) ==
  /\ pc[r] = "new"
  /\ OneStarter => \A q \in Runs : ~Deciding(q)
  /\ pc' = [pc EXCEPT ![r] = "open"]
  /\ UNCHANGED <<lock, pid, jobs, kills, terms>>

\* exec 3> lockfile creates the file or fails
Create(r) ==
  /\ pc[r] = "open" /\ lock = None
  /\ lock' = r /\ pid' = None
  /\ pc' = [pc EXCEPT ![r] = "print"]
  /\ UNCHANGED <<jobs, kills, terms>>

AlreadyThere(r) ==
  /\ pc[r] = "open" /\ lock # None
  /\ pc' = [pc EXCEPT ![r] = "probe"]
  /\ UNCHANGED <<lock, pid, jobs, kills, terms>>

\* kill -0 $(< lockfile), which fails when the file is gone or still empty
NamesALiveRun == pid # None /\ Alive(pid)
Probe(r) ==
  /\ pc[r] = "probe"
  /\ pc' = [pc EXCEPT ![r] = IF NamesALiveRun THEN "over"
                             ELSE IF UsesFuser THEN "fuser" ELSE "remove"]
  /\ UNCHANGED <<lock, pid, jobs, kills, terms>>

\* mutants: any file is taken to be in use; the jobs of a run do not hold it open
HeldAlways == lock # None
HeldByScript == lock # None /\ Script(lock)
HeldOpen == lock # None /\ (Script(lock) \/ lock \in jobs)
Fuser(r) ==
  /\ pc[r] = "fuser"
  /\ pc' = [pc EXCEPT ![r] = IF HeldOpen THEN "over" ELSE "remove"]
  /\ UNCHANGED <<lock, pid, jobs, kills, terms>>

\* rm takes whatever file is in place by now
Remove(r) ==
  /\ pc[r] = "remove"
  /\ lock' = None /\ pid' = None
  /\ pc' = [pc EXCEPT ![r] = "over"]
  /\ UNCHANGED <<jobs, kills, terms>>

\* print -u3 $$ goes to the file that was opened, in place or not
PrintPid(r) ==
  /\ pc[r] = "print"
  /\ pid' = IF lock = r THEN r ELSE pid
  /\ pc' = [pc EXCEPT ![r] = "run"]
  /\ UNCHANGED <<lock, jobs, kills, terms>>

SpawnJobs(r) ==
  /\ pc[r] = "run" /\ r \notin jobs
  /\ jobs' = jobs \cup {r}
  /\ UNCHANGED <<pc, lock, pid, kills, terms>>

JobsEnd(r) ==
  /\ r \in jobs
  /\ jobs' = jobs \ {r}
  /\ UNCHANGED <<pc, lock, pid, kills, terms>>

\* mutant: the jobs are not waited for
FinishEarly(r) ==
  /\ pc[r] = "run"
  /\ lock' = None /\ pid' = None
  /\ pc' = [pc EXCEPT ![r] = "over"]
  /\ UNCHANGED <<jobs, kills, terms>>
\* the EXIT trap removes the file in place; sdpincoming waits for its jobs at the
\* end of its work, but not when it finds the exit file or no space at the start
Finish(r) ==
  /\ pc[r] = "run" /\ (AwaitsJobs => r \notin jobs)
  /\ lock' = None /\ pid' = None
  /\ pc' = [pc EXCEPT ![r] = "over"]
  /\ UNCHANGED <<jobs, kills, terms>>

\* the script dies where it is, its jobs do not
Kill(r) ==
  /\ Alive(r) /\ kills < MaxKills
  /\ kills' = kills + 1
  /\ pc' = [pc EXCEPT ![r] = "over"]
  /\ UNCHANGED <<lock, pid, jobs, terms>>

\* the trap of HUP, QUIT and TERM removes the file, and the script goes on
Term(r) ==
  /\ pc[r] = "run" /\ terms < MaxTerms
  /\ terms' = terms + 1
  /\ lock' = None /\ pid' = None
  /\ UNCHANGED <<pc, jobs, kills>>

Decide(r) == Create(r) \/ AlreadyThere(r) \/ Probe(r) \/ Fuser(r) \/ Remove(r)
             \/ PrintPid(r)
Work(r) == SpawnJobs(r) \/ JobsEnd(r) \/ Finish(r)
Next == \E r \in Runs : Start(r) \/ Decide(r) \/ Work(r) \/ Kill(r) \/ Term(r)

Spec == Init /\ [][Next]_vars

\* The script is started again and again, its runs are scheduled and come to an
\* end, and so do their jobs.
Fairness == /\ WF_vars(\E r \in Runs : Start(r))
            /\ \A r \in Runs : /\ WF_vars(Decide(r))
                               /\ WF_vars(JobsEnd(r))
                               /\ SF_vars(Finish(r))
FairSpec == Spec /\ Fairness

---------------------------------------------------------------------------
(* Properties *)

\* Every variable has its type.
TypeOK ==
  /\ pc \in [Runs -> {"new", "open", "probe", "fuser", "remove", "print", "run", "over"}]
  /\ lock \in Runs \cup {None} /\ pid \in Runs \cup {None}
  /\ jobs \subseteq Runs
  /\ kills \in Nat /\ terms \in Nat

\* Whenever scripts are killed, no two are past the lock at once, as long as
\* none was told to terminate (its trap removes the file and it runs on).
OneScript ==
  terms = 0 => \A q, r \in Runs : Script(q) /\ Script(r) => q = r

\* With fuser this goes for what a killed script left running, too: a run works
\* alone, and no file is touched by the jobs of two runs.
AtWork(r) == Script(r) \/ r \in jobs
OneAtWork ==
  terms = 0 => \A q, r \in Runs : AtWork(q) /\ AtWork(r) => q = r

\* The file of a run at work is never taken away from under it, though it is
\* empty for a moment and every other run that finds it means to remove it.
OwnLockInPlace == terms = 0 => \A r \in Runs : AtWork(r) => lock = r

\* A lock file that a dead run left behind does not keep the script from running
\* for good: when more runs are to come than can be killed, it goes.
ToCome == {r \in Runs : pc[r] = "new"}
Stale(r) == lock = r /\ pc[r] = "over" /\ r \notin jobs
StaleLockGoes ==
  \A r \in Runs :
    (Stale(r) /\ Cardinality(ToCome) > MaxKills - kills) ~> lock # r
=============================================================================
