\* sdpincoming and the others: killed runs, jobs that outlive them, stale locks
CONSTANTS
  r1 = r1 r2 = r2 r3 = r3 r4 = r4 r5 = r5
  Runs = {r1, r2, r3, r4, r5}
  None = None
  UsesFuser = TRUE
  OneStarter = TRUE
  AwaitsJobs = TRUE
  MaxKills = 3
  MaxTerms = 1
SPECIFICATION FairSpec
INVARIANTS OneAtWork OwnLockInPlace
PROPERTIES StaleLockGoes
CHECK_DEADLOCK FALSE
