SPECIFICATION FairSpec
CONSTANTS
  Bodies <- MCBodies
  Chars <- MCChars
  Kind <- MCKind
  Sessions <- MCSessions
  LengthOf <- MCLengthOf
  Loop = Loop
  Drain = 2
  Junk = "0xFF"
  IllFormed = {"0xFF", "0xE9"}
  BadLengths = {"length x"}
  MayQuote = {"hover"}
  CR = "CR"
  LF = "LF"
  None = None
INVARIANTS
  TypeOK
  OutputWellFormed
  AtMostOneResponse
  FuturesBounded
  AnsweredWhenDone
  HandledAsSent
PROPERTIES
  Terminates
