SPECIFICATION PlainSpec
CONSTANTS
  Openers = {"begin"}
  Closers = {"end"}
  ClosersOf <- EachClosedByEnd
  Roblox = {"begin"}
  AllowConditionalClosers = FALSE
  MaxNodes = 2
  MaxCases = 1
  MaxOpeners = 1
CHECK_DEADLOCK FALSE
INVARIANTS ScopesAreSeparate
