SPECIFICATION Spec
CONSTANTS
  Files = {f1, f2}
  Settings <- MCShipped
  MaxFailures = 0
  Movers = {1, 2}
  MaxCrashes = 0
SYMMETRY FileSymmetry
INVARIANTS RaceIsHarmless
