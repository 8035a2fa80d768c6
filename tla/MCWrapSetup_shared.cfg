SPECIFICATION Spec
CONSTANTS
  Setters = {s1, s2}
  Wraps <- MCPatchedWraps
  MaxAttempts = 2
  MaxCrashes = 0
INVARIANTS
  UnfinishedDetected
