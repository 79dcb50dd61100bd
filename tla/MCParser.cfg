SPECIFICATION Spec
CONSTANTS
  Files <- PlanFileNames
  Extension <- FileKinds
  MasterFile = "M"
  RoleFile = "R"
  Projects <- MCProjects
INVARIANTS
  FilesReadOnce
  

  
CHECK_DEADLOCK FALSE
