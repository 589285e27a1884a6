SPECIFICATION Spec
CONSTANTS
  o1 = o1
  o2 = o2
  Root = Root
  Objs = {Root, o1, o2}
  Sizes = {1, 2, 3}
  RootN = 2
  SegSize = 8
  SlotN = 3
  None = None
  Null = Null
  Stale = Stale
  MaxPtrs = 3
  MaxLeaks = 1
SYMMETRY Symm
INVARIANTS GraphKept BlocksSound
PROPERTIES CompactionIsTight
