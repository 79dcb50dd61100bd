SPECIFICATION Spec
CONSTANTS
  M = M  P = P  Q = Q  B = B
  m0 = m0  m1 = m1  p0 = p0  p1 = p1  q0 = q0
  Plans = {M, P, Q}
  Behaviours = {B}
  States = {m0, m1, p0, p1, q0}
  EntryStates <- MCEntryStates
  StatePlans <- MixStatePlans
  Transitions <- MixTransitions
  SuccessStates = {m1}
  FailureStates = {p1}
  EventDriven = {}
  Master = M
  SyncTransitions <- MasterTransitions
  IdlePlans = {}
  MaxRuleApplications = 2
  NumInsts = 5
  NoState = NoState
INVARIANTS
  TreeInv
  SubPlansFitState
  BehavioursFollowTree
  
CONSTRAINT NotDoubled
