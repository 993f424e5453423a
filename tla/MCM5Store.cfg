CONSTANTS
  k1 = k1
  k2 = k2
  Keys <- MCKeys
  PartFiles <- MCPartFiles
  PartNumber <- MCPartNumber
  Expected <- MCExpected
SPECIFICATION Spec
INVARIANTS
  CommitSound
  AcceptedIsComplete
  ParityPrecedesMetrics
PROPERTIES
  FailureIsPermanent
  ImplementsRunVerdict
CHECK_DEADLOCK FALSE
