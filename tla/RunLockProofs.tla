---------------------------- MODULE RunLockProofs ----------------------------
(***************************************************************************)
(* The lock of RunLock excludes two runs for every number of runs, kills   *)
(* and signals, provided that runs do not decide at the same time: two     *)
(* scripts with or without fuser, and two runs with all their jobs when    *)
(* fuser is asked and scripts wait for their jobs.                         *)
(***************************************************************************)
EXTENDS RunLock, TLAPS

---------------------------------------------------------------------------
(* The type invariant *)

\* The variables of RunLock always have their types.
THEOREM TypeCorrect == Spec => []TypeOK
<1>1. Init => TypeOK
  BY ParamsAssumption DEF Init, TypeOK
<1>2. TypeOK /\ [Next]_vars => TypeOK'
  <2> SUFFICES ASSUME TypeOK, [Next]_vars PROVE TypeOK'
    OBVIOUS
  <2> USE DEF TypeOK
  <2>1. CASE UNCHANGED vars
    BY <2>1 DEF vars
  <2>2. ASSUME NEW r \in Runs, Start(r) PROVE TypeOK'
    BY <2>2 DEF Start
  <2>3. ASSUME NEW r \in Runs, Decide(r) PROVE TypeOK'
    BY <2>3 DEF Decide, Create, AlreadyThere, Probe, Fuser, Remove, PrintPid
  <2>4. ASSUME NEW r \in Runs, Work(r) PROVE TypeOK'
    BY <2>4 DEF Work, SpawnJobs, JobsEnd, Finish
  <2>5. ASSUME NEW r \in Runs, Kill(r) \/ Term(r) PROVE TypeOK'
    BY <2>5 DEF Kill, Term
  <2> QED
    BY <2>1, <2>2, <2>3, <2>4, <2>5 DEF Next
<1> QED
  BY <1>1, <1>2, PTL DEF Spec

---------------------------------------------------------------------------
(* One run decides at a time *)

OneDecides == \A q, r \in Runs : Deciding(q) /\ Deciding(r) => q = r

LEMMA OneDecidesHolds == OneStarter => (Spec => []OneDecides)
<1> SUFFICES ASSUME OneStarter PROVE Spec => []OneDecides
  OBVIOUS
<1>1. Init => OneDecides
  BY DEF Init, OneDecides, Deciding
<1>2. TypeOK /\ OneDecides /\ [Next]_vars => OneDecides'
  <2> SUFFICES ASSUME TypeOK, OneDecides, [Next]_vars PROVE OneDecides'
    OBVIOUS
  <2> USE DEF TypeOK, OneDecides, Deciding
  <2>1. CASE UNCHANGED vars
    BY <2>1 DEF vars
  <2>2. ASSUME NEW r \in Runs, Start(r) PROVE OneDecides'
    BY <2>2 DEF Start
  <2>3. ASSUME NEW r \in Runs, Decide(r) PROVE OneDecides'
    BY <2>3 DEF Decide, Create, AlreadyThere, Probe, Fuser, Remove, PrintPid
  <2>4. ASSUME NEW r \in Runs, Work(r) PROVE OneDecides'
    BY <2>4 DEF Work, SpawnJobs, JobsEnd, Finish
  <2>5. ASSUME NEW r \in Runs, Kill(r) \/ Term(r) PROVE OneDecides'
    BY <2>5 DEF Kill, Term
  <2> QED
    BY <2>1, <2>2, <2>3, <2>4, <2>5 DEF Next
<1> QED
  BY <1>1, <1>2, TypeCorrect, PTL DEF Spec

---------------------------------------------------------------------------
(* Scripts exclude each other *)

\* A script past the lock has its own file in place, with its pid in it once it
\* has printed that; and when a run is about to remove the file there is none.
ScriptInv ==
  terms = 0 =>
    /\ \A r \in Runs : Script(r) => lock = r
    /\ \A r \in Runs : pc[r] = "run" => pid = r
    /\ \A r \in Runs : pc[r] = "remove" => \A q \in Runs : ~Script(q)

LEMMA ScriptStep ==
  ASSUME TypeOK, OneDecides, ScriptInv, [Next]_vars
  PROVE ScriptInv'
<1> SUFFICES ASSUME terms' = 0 PROVE ScriptInv'
  BY DEF ScriptInv
<1> USE ParamsAssumption DEF TypeOK, Script
<1>1. CASE UNCHANGED vars
  BY <1>1 DEF vars, ScriptInv
<1>2. ASSUME NEW r \in Runs, Start(r) PROVE ScriptInv'
  BY <1>2 DEF Start, ScriptInv
<1>3. ASSUME NEW r \in Runs, Decide(r) PROVE ScriptInv'
  <2>1. CASE Create(r)
    \* no run removes a file while this one decides
    <3>1. \A q \in Runs : pc[q] # "remove"
      BY <2>1 DEF Create, OneDecides, Deciding
    <3> QED
      BY <2>1, <3>1 DEF Create, ScriptInv
  <2>2. CASE AlreadyThere(r)
    BY <2>2 DEF AlreadyThere, ScriptInv
  <2>3. CASE Probe(r)
    \* without fuser the pid decides: whoever runs has printed it by now
    <3>1. ASSUME NEW q \in Runs, Script(q) PROVE NamesALiveRun
      <4>1. pc[q] = "run"
        BY <2>3, <3>1 DEF Probe, OneDecides, Deciding
      <4> QED
        BY <2>3, <3>1, <4>1 DEF Probe, ScriptInv, NamesALiveRun, Alive
    <3> QED
      BY <2>3, <3>1 DEF Probe, ScriptInv
  <2>4. CASE Fuser(r)
    <3>1. ASSUME NEW q \in Runs, Script(q) PROVE HeldOpen
      BY <2>4, <3>1 DEF Fuser, ScriptInv, HeldOpen
    <3> QED
      BY <2>4, <3>1 DEF Fuser, ScriptInv
  <2>5. CASE Remove(r)
    BY <2>5 DEF Remove, ScriptInv
  <2>6. CASE PrintPid(r)
    BY <2>6 DEF PrintPid, ScriptInv
  <2> QED
    BY <1>3, <2>1, <2>2, <2>3, <2>4, <2>5, <2>6 DEF Decide
<1>4. ASSUME NEW r \in Runs, Work(r) PROVE ScriptInv'
  BY <1>4 DEF Work, SpawnJobs, JobsEnd, Finish, ScriptInv
<1>5. ASSUME NEW r \in Runs, Kill(r) PROVE ScriptInv'
  BY <1>5 DEF Kill, ScriptInv
<1>6. ASSUME NEW r \in Runs, Term(r) PROVE ScriptInv'
  BY <1>6 DEF Term
<1> QED
  BY <1>1, <1>2, <1>3, <1>4, <1>5, <1>6 DEF Next

\* No two scripts are past the lock at once, with or without fuser, as long as
\* runs decide one at a time and none was told to terminate.
THEOREM OneScriptHolds == OneStarter => (Spec => []OneScript)
<1> SUFFICES ASSUME OneStarter PROVE Spec => []OneScript
  OBVIOUS
<1>1. Init => ScriptInv
  BY DEF Init, ScriptInv, Script
<1>2. ScriptInv => OneScript
  BY DEF ScriptInv, OneScript
<1> QED
  BY <1>1, <1>2, ScriptStep, TypeCorrect, OneDecidesHolds, PTL DEF Spec

---------------------------------------------------------------------------
(* Runs, with their jobs, exclude each other *)

\* The same of everything a run has left running: fuser sees the jobs of a
\* killed script as well.
WorkInv ==
  terms = 0 =>
    /\ \A r \in Runs : AtWork(r) => lock = r
    /\ \A r \in Runs : pc[r] = "remove" => \A q \in Runs : ~AtWork(q)

LEMMA WorkStep ==
  ASSUME UsesFuser, AwaitsJobs, TypeOK, OneDecides, WorkInv, [Next]_vars
  PROVE WorkInv'
<1> SUFFICES ASSUME terms' = 0 PROVE WorkInv'
  BY DEF WorkInv
<1> USE ParamsAssumption DEF TypeOK, AtWork, Script
<1>1. CASE UNCHANGED vars
  BY <1>1 DEF vars, WorkInv
<1>2. ASSUME NEW r \in Runs, Start(r) PROVE WorkInv'
  BY <1>2 DEF Start, WorkInv
<1>3. ASSUME NEW r \in Runs, Decide(r) PROVE WorkInv'
  <2>1. CASE Create(r)
    <3>1. \A q \in Runs : pc[q] # "remove"
      BY <2>1 DEF Create, OneDecides, Deciding
    <3> QED
      BY <2>1, <3>1 DEF Create, WorkInv
  <2>2. CASE AlreadyThere(r)
    BY <2>2 DEF AlreadyThere, WorkInv
  <2>3. CASE Probe(r)
    BY <2>3 DEF Probe, WorkInv
  <2>4. CASE Fuser(r)
    <3>1. ASSUME NEW q \in Runs, AtWork(q) PROVE HeldOpen
      BY <2>4, <3>1 DEF Fuser, WorkInv, HeldOpen
    <3> QED
      BY <2>4, <3>1 DEF Fuser, WorkInv
  <2>5. CASE Remove(r)
    BY <2>5 DEF Remove, WorkInv
  <2>6. CASE PrintPid(r)
    BY <2>6 DEF PrintPid, WorkInv
  <2> QED
    BY <1>3, <2>1, <2>2, <2>3, <2>4, <2>5, <2>6 DEF Decide
<1>4. ASSUME NEW r \in Runs, Work(r) PROVE WorkInv'
  BY <1>4 DEF Work, SpawnJobs, JobsEnd, Finish, WorkInv
<1>5. ASSUME NEW r \in Runs, Kill(r) PROVE WorkInv'
  BY <1>5 DEF Kill, WorkInv
<1>6. ASSUME NEW r \in Runs, Term(r) PROVE WorkInv'
  BY <1>6 DEF Term
<1> QED
  BY <1>1, <1>2, <1>3, <1>4, <1>5, <1>6 DEF Next

LEMMA WorkInvHolds ==
  OneStarter /\ UsesFuser /\ AwaitsJobs => (Spec => []WorkInv)
<1> SUFFICES ASSUME OneStarter, UsesFuser, AwaitsJobs PROVE Spec => []WorkInv
  OBVIOUS
<1>1. Init => WorkInv
  BY DEF Init, WorkInv, AtWork, Script
<1>2. TypeOK /\ OneDecides /\ WorkInv /\ [Next]_vars => WorkInv'
  BY WorkStep
<1> QED
  BY <1>1, <1>2, TypeCorrect, OneDecidesHolds, PTL DEF Spec

\* When fuser is asked and scripts wait for their jobs, a run works alone: no
\* script and no job of one run is there beside a script or a job of another.
THEOREM OneAtWorkHolds ==
  OneStarter /\ UsesFuser /\ AwaitsJobs => (Spec => []OneAtWork)
<1>1. WorkInv => OneAtWork
  BY DEF WorkInv, OneAtWork
<1> QED
  BY <1>1, WorkInvHolds, PTL

\* Under the same conditions the file of a run at work stays in place until the
\* run itself removes it.
THEOREM OwnLockHolds ==
  OneStarter /\ UsesFuser /\ AwaitsJobs => (Spec => []OwnLockInPlace)
<1>1. WorkInv => OwnLockInPlace
  BY DEF WorkInv, OwnLockInPlace
<1> QED
  BY <1>1, WorkInvHolds, PTL
=============================================================================
