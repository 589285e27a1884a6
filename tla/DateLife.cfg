SPECIFICATION FairSpec
CONSTANTS
  f1 = f1
  None = None
  Days = {1, 2}
  Files = {f1}
  Day <- MCDay
  StatDays = {1}
  AcceptAge = 2
  MaxCrashes = 1
INVARIANTS
  FinalIsProcessed
  MonthIsFinal
PROPERTIES
  EveryDateCloses
