SPECIFICATION Spec
CONSTANTS
  Programs <- AllPrograms
  Edited <- EditedPrograms
  Layouts = {"plain", "broken"}
  Characters <- AllCharacters
  MaxEdits = 1
INVARIANTS
  SuccessEndsInEof
  RoundTrip
  CleanTreeSpellsText
  EarlierStatementsSurvive
CHECK_DEADLOCK FALSE
