SPECIFICATION Spec
CONSTANTS
  RuleIds <- MCRuleIds
  All = All
  Open = Open
  IdLists <- MCLists
  MaxLine = 3
  MaxColumn = 0
  MaxComments = 3
CHECK_DEADLOCK FALSE
INVARIANTS DuplicatesRedundant
