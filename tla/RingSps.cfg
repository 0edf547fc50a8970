SPECIFICATION Spec
CONSTANTS
  NMAX = 2
  MaxFrames = 4
INVARIANTS ParameterSetsCurrent
CHECK_DEADLOCK FALSE
