SPECIFICATION Spec
CONSTANTS
  Options <- AllOptions
  UpperCase <- Capitals
  Modules <- AllModules
  Paths <- AllPaths
  ParentOf <- Parents
  Tags <- AllTags
  Functions <- AllFunctions
  Methods <- AllMethods
  Projects <- LoopProjects
  Versions <- AllVersions
INVARIANT LoopIdsReported
CHECK_DEADLOCK FALSE
