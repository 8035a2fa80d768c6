SPECIFICATION Spec
CONSTANTS
  Options <- AllOptions
  UpperCase <- Capitals
  Modules <- AllModules
  Paths <- AllPaths
  ParentOf <- Parents
  Tags <- AllTags
  Functions <- AllFunctions
  Methods <- AllMethods
  Projects <- AllProjects
  Versions <- AllVersions
INVARIANTS
  TypesCoverRuns
  NoFalseErrors
  UnusedIsUnread
  NewCallsAreWarned
CHECK_DEADLOCK FALSE
