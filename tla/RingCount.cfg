SPECIFICATION Spec
CONSTANTS
  NMAX = 2
  MaxFrames = 5
INVARIANTS CountIsOccupancy
CHECK_DEADLOCK FALSE
