CONSTANTS
  p1 = p1
  p2 = p2
  p3 = p3
  Processes <- MCProcesses
SYMMETRY Symmetry
SPECIFICATION CreateSpec
INVARIANTS
  OneStore
  LeftoverIsMarked
CHECK_DEADLOCK FALSE
