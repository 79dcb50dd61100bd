SPECIFICATION FairSpec
CONSTANTS
  M = M  P = P  Q = Q  B = B
  m0 = m0  m1 = m1  p0 = p0  p1 = p1  q0 = q0
  Plans = {M, P, Q}
  Behaviours = {}
  States = {m0, m1, p0, p1, q0}
  EntryStates <- MCEntryStates
  StatePlans <- LineStatePlans
  Transitions <- LineTransitions
  SuccessStates = {m1}
  FailureStates = {}
  EventDriven = {}
  Master = M
  SyncTransitions = {}
  IdlePlans = {}
  MaxRuleApplications = 2
  NumInsts = 4
  NoState = NoState
PROPERTIES
  EngineResponds
  FailuresHandled
