CONSTANTS
  p1 = p1
  p2 = p2
  p3 = p3
  Processes <- MCProcesses
SYMMETRY Symmetry
SPECIFICATION Spec
INVARIANTS
  OneHolder
  OnlyMakerMarks
  FailureLeavesRecord
  ExitZeroOwnsRun
CHECK_DEADLOCK FALSE
