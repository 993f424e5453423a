CONSTANTS
  run = run
  f1 = f1
  f2 = f2
  Runner = run
  Finalizers <- MCFinalizers
SYMMETRY Symmetry
SPECIFICATION Spec
INVARIANTS
  ExitZeroMeansAccepted
  OneFinalizer
  ClosedRunStands
CHECK_DEADLOCK FALSE
