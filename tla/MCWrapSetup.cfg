SPECIFICATION FairSpec
CONSTANTS
  Setters = {s1}
  Wraps <- MCWraps
  MaxAttempts = 3
  MaxCrashes = 2
INVARIANTS
  TypeOK
  MarkedIsComplete
  FaultlessAttemptSucceeds
PROPERTIES
  MarkedUntouched
  AttemptsEnd
