SPECIFICATION Spec
CONSTANTS
  Day = 4  Week = 3
  MonthLens <- MCMonthLens
  Specs <- WeeklySpecs
  MaxTime = 26  MaxStep = 5
INVARIANTS WeeklyIsNeverLost
CHECK_DEADLOCK FALSE
