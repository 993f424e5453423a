CONSTANTS
  k1 = k1
  k2 = k2
  Keys <- MCKeys
  PartFiles <- MCPartFiles
  PartNumber <- MCPartNumber
  Expected <- MCExpected
  CaseKeys <- MCCaseKeys
  Ego = 0
  World = {1, 2, 3}
  Vehicles = {1, 2}
  MaxAcceleration = 2
  MaxDeceleration = 2
  MaxSpeed = 3
  AgentLength = 4
  DesiredSpeed = 3
  MinimumGap = 1
  HardBraking = 3
  Current = 1
  LastFrame = 5
  InfeasibleChange = 1
  CrowdedNow = 2
  CrowdedEver = 3
  HistoryFrames = 2
  LowTime = 720
  TimeCap = 1200
  MinimumPaired = 1
  DescriptivePaired = 2
  Cohorts <- MCCohorts
  ShardMembers <- MCShardMembers
  ParityMembers = {0}
  OtherScene <- Other
SPECIFICATION RunSpec
INVARIANTS
  ExitZeroMeansAccepted
  FailureIsRecorded
  HonestCohortIsEvaluated
  EveryCellIsPaired
  EvaluationIsWitnessed
PROPERTIES
  CommandEnds
CHECK_DEADLOCK FALSE
