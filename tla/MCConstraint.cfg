SPECIFICATION Spec
CONSTANTS
  Top = 3
  Vars <- MCVars
  Conds <- MCConds
  States <- MCStates
  Agents <- MCAgents
  Me = "me"
  CondVars <- MCCondVars
  Quantifiers <- MCQuantifiers
  PlanConds <- MCPlanConds
  MoveConds <- MCMoveConds
  TypeBinding <- MCTypeBinding
  StateBinding <- MCStateBinding
  NoType <- MCNoType
  Questions <- MCQuestions
  MaxQueries = 2
  MaxChanges = 2
INVARIANTS
  
  PosesTheProblem
  PartsHaveSolverVariables
  
PROPERTY
  QueriesEnd
CHECK_DEADLOCK FALSE
