\* three scripts for one slot, one script killed at any step, races for the lock
SPECIFICATION FairSpec
CONSTANTS
  Procs = {p1, p2, p3}
  None = None
  JobMax = 1
  MaxKills = 1
INVARIANTS WorkerIsRegistered
PROPERTIES IsJobSlots EveryoneServed
CHECK_DEADLOCK FALSE
