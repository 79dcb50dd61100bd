SPECIFICATION FairSpec
CONSTANTS
  Me = "me"
  Others = {"a"}
  Plans = {"M", "P"}
  Master = "M"
  States <- mcStates
  PlanOf <- mcPlanOf
  EntryOf <- mcEntryOf
  EntryPoints = {"e", "e1", "e2"}
  InitialState <- mcInitial
  PlansIn <- mcPlansIn
  Behaving = {"p1"}
  SuccessStates = {"p2"}
  MaxDisturbances = 2
  MaxQueue = 1
 
PROPERTIES MarksKept  AssignmentsConverge SilentAgentsLeave
