SPECIFICATION FairSpec
CONSTANTS
  Agents = {1, 2, 3}
  Me = 2
  Plans = {10, 20, 30}
  EntryPoints <- mcEntryPoints
  StatePlans <- mcStatePlans
  Inputs <- mcInputs
  SimilarityWeight = 0
  PoolSize = 4
INVARIANTS
  PoolFillsPlans
  OthersKeepTheirTask
PROPERTIES
  ImplementsChoice
  Answered
