SPECIFICATION Spec
CONSTANTS
  a = a  b = b  c = c  g = g
  Jobs = {a, b, c}
  Groups = {g}
  NoGroup = NoGroup  BadGroup = BadGroup
  Files <- TripleFiles
  Ival <- EveryUnit
  Slots <- EverySlot
  Pids = {p1, p2, p3, p4}
  NoPid = NoPid
  MaxJobN = 1  SigDataN = 4
  Li = 1  Sc = 0
  MaxLaunchFails = 0
  MaxTime = 4  MaxStarts = 1
SYMMETRY ProcessSymmetry
INVARIANTS OneProcessPerJob GroupLimit KilledInTime NoExitLost
PROPERTIES IsJobSlots ReapedOnlyWhenGone
CHECK_DEADLOCK FALSE
