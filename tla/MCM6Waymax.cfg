SPECIFICATION Spec
CONSTANTS
  Source <- MCSource
  Cohorts <- MCCohorts
  Agents <- MCAgents
  Ego = "ego"
  Target = "target"
  Transitions = 4
  MinScenes = 1
  MaxScenes = 2
  Persistence = 2
  Holders <- MCHolders
  MaxFaults = 1
  Reach = 2
CHECK_DEADLOCK FALSE
INVARIANTS
  OneRun
  EvidenceIsWitnessed
  HonestRunIsIssued
