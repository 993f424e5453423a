CONSTANTS
  PipeCapacity = 2
  RetainLimit = 2
  ReadSize = 2
  MaxWritten = 4
SPECIFICATION CaptureSpec
INVARIANTS
  CommitWasSilent
  TerminalIsGuarded
PROPERTIES
  CaptureEnds
CHECK_DEADLOCK FALSE
