SPECIFICATION Spec
CONSTANTS
  Day = 4  Week = 3
  MonthLens <- MCMonthLens
  Specs <- MCSpecs
  MaxTime = 26  MaxStep = 5
INVARIANTS TypeOK OnceIsExact DailyIsExact ChosenIsASlot DailyIsNeverLost
CHECK_DEADLOCK FALSE
