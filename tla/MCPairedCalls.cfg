SPECIFICATION EitherSpec
CONSTANTS
  Openers = {"begin", "open"}
  Closers = {"end", "close"}
  ClosersOf <- SharedCloser
  Roblox = {"begin"}
  AllowConditionalClosers = FALSE
  MaxNodes = 3
  MaxCases = 2
  MaxOpeners = 3
CHECK_DEADLOCK FALSE
INVARIANTS TypeOK EveryLeakReported EveryWarningJustified
