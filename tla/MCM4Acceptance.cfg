SPECIFICATION Spec
CONSTANTS
  NumShards = 2
  Ordinals <- MCOrdinals
  Contents <- MCContents
  EligibleIn <- MCEligibleIn
  Rank <- MCRank
  SecondRank <- MCSecondRank
  IDMRank <- MCIDMRank
  Qualifying <- MCQualifying
  Quota <- MCQuota
  Target = 3
  Floor = 2
  IDMTarget = 2
  IDMFloor = 1
  Sources = {"s1", "s2"}
  MaxDrift = 1
  MaxOutput = 1
INVARIANTS
  CohortIsExact
  ReportIsEarned
PROPERTY CommandEnds
CHECK_DEADLOCK FALSE
