CONSTANTS
  Runs <- MCRuns
  Mode <- MCMode
  Named <- MCNamed
  Members <- MCMembers
  Shards <- MCShards
  ShardOf <- MCShardOf
  Codes = {"c1", "c2"}
  Contents = {"x", "y"}
  Facts <- MCFacts
  Rank <- MCRank
  MaxScenes = 3
  MinScenes = 2
  EligibleFloor = 3
  TicksPerMs = 7
  Measured = {1, 7}
  MaxDrift = 2
SPECIFICATION Spec
INVARIANTS
  ResidentsAreBest
  SealedIsAccepted
  OutcomesHaveChain
  GenuineTimingsAccepted
CHECK_DEADLOCK FALSE
