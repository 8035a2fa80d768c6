SPECIFICATION Spec
CONSTANTS
  Options <- AllOptions
  UpperCase <- Capitals
  Programs <- AllPrograms
  Paths <- NoPaths
INVARIANTS
  GuessesCoverRuns
  NoPhantoms
CHECK_DEADLOCK FALSE
