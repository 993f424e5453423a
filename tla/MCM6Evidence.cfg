SPECIFICATION Spec
CONSTANTS
  Scenes <- MCScenes
  Evaluations <- MCEvaluations
  Facts <- MCFacts
  Hands <- MCHands
  Gates <- MCGates
  NestedDose = "nested_dose_monotonicity"
  Roles = {methods, privacy}
  Rank <- MCRank
  MinSelected = 2
  MaxSelected = 3
  ClaimFloor = 3
CHECK_DEADLOCK FALSE
INVARIANTS
  SealedIsOneEvaluation
  ReleaseIsEarned
  ReviewsDecide
