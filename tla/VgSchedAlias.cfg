SPECIFICATION Spec
CONSTANTS
  a = a  b = b  c = c  g = g
  Jobs = {a, b}
  Groups = {}
  NoGroup = NoGroup  BadGroup = BadGroup
  Files <- BadFiles
  Ival <- EveryUnit
  Slots <- EverySlot
  Pids = {p1, p2, p3, p4}
  NoPid = NoPid
  MaxJobN = 1  SigDataN = 4
  Li = 1  Sc = 1
  MaxLaunchFails = 0
  MaxTime = 4  MaxStarts = 1
SYMMETRY ProcessSymmetry
INVARIANTS OwnProcess
CHECK_DEADLOCK FALSE
