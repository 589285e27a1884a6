------------------------------ MODULE JobSlots ------------------------------
(***************************************************************************)
(* What every limiter of parallel jobs promises: jobs enter one at a time, *)
(* only while fewer than Max are in, and each leaves once for each time it *)
(* entered, several together when a limiter loses sight of them.           *)
(* JobLimiter and VgSched implement it.                                    *)
(***************************************************************************)
EXTENDS Integers, FiniteSets

CONSTANTS Procs, Max

VARIABLE held     \* the processes that run a job

SlotsInit == held = {}

Enter(p) ==
  /\ p \in Procs \ held
  /\ Cardinality(held) < Max
  /\ held' = held \cup {p}

Leave(P) == P # {} /\ held' = held \ P

SlotsNext == (\E p \in Procs : Enter(p)) \/ (\E P \in SUBSET held : Leave(P))

SlotsSpec == SlotsInit /\ [][SlotsNext]_held
=============================================================================
