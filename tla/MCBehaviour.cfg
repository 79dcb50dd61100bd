SPECIFICATION FairSpec
CONSTANTS
  MaxContexts = 2
INVARIANTS
  RestsWhenStopped
  RunsInitialised
  ReportsBelongToContext
PROPERTIES
  ImplementsLife
  StartedRuns
  ContextsLeft
  TerminateReturns
CHECK_DEADLOCK FALSE
