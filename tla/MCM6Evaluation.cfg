SPECIFICATION OfficialSpec
CONSTANTS
  Ego = 0
  World = {1, 2}
  Vehicles = {1, 2}
  MaxAcceleration = 2
  MaxDeceleration = 2
  MaxSpeed = 3
  AgentLength = 4
  DesiredSpeed = 3
  MinimumGap = 1
  HardBraking = 3
  Cases = {1, 2}
  Sources <- MCSources
  Alternates <- MCAlternates
  MaxChanges = 2
  Current = 1
  Window = 3
  LastFrame = 5
  Pulse = 1
  PrimaryDose = 1
  SecondaryDose = 2
  MinimumPairs = 1
  MinimumEgoSpeed = 2
  MinimumFollowerGap = 4
  MaximumFollowerGap = 40
  ResponseThreshold = 1
  Persistence = 1
  HardBrakingLimit = 2
  SparseEvents = 1
  SparseResponders = 1
  SmallSample = 2
INVARIANTS
  GatesRefuseNoHonestRun
  SegmentsStartFromTheLog
  RowsAreOfTheCaller
  TablesAgree
CHECK_DEADLOCK FALSE
