SPECIFICATION FairSpec
CONSTANTS
  a = a  b = b  c = c  g = g
  Jobs = {a, b}
  Groups = {}
  NoGroup = NoGroup  BadGroup = BadGroup
  Files <- ReloadFiles
  Ival <- EveryUnit
  Slots <- EverySlot
  Pids = {p1, p2}
  NoPid = NoPid
  MaxJobN = 0  SigDataN = 4
  Li = 0  Sc = 1
  MaxLaunchFails = 0
  MaxTime = 3  MaxStarts = 2
INVARIANTS JobLimit OwnProcess
PROPERTIES NeverASlotTwice EveryJobIsReaped
CHECK_DEADLOCK FALSE
