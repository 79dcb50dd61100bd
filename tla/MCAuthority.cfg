SPECIFICATION FairSpec
CONSTANTS
  NumRobots = 2
  Agents = {3}
  EntryPoints = {e1, e2}
  HistorySize = 4
  MaxCycles = 1
  MaxDetections = 2
  Deciders = {1}
INVARIANTS
  BuffersShowCycles
PROPERTIES
  ImplementsContest
  AuthorityEnds
CHECK_DEADLOCK FALSE
