SPECIFICATION Spec
CONSTANTS
  r1 = r1  r2 = r2
  None = None
  OpenLoad = OpenLoad
  GapLoads <- TwoRecoveries
  MaxGen = 2
  MaxSeq = 2
  MaxHeld = 2
SYMMETRY Symmetry
CHECK_DEADLOCK FALSE
INVARIANT TypeOK
INVARIANT DispatchedOnce
INVARIANT NothingMissed
PROPERTY CursorForward
