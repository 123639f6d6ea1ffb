SPECIFICATION FairSpec
CONSTANTS
  Rules <- MCRules
  Input <- MCInput
  BatchSize = 2
  Texts = {v1,v2}
  NoCard = NoCard
  Verdicts = {good, bad}
  Unknown = Unknown
  Torn = Torn
  MaxRuns = 3
  MaxEdits = 1
  MaxFaults = 1
INVARIANTS TypeOK ProgressExact Repeatable NothingMissing AsksOnlyUnknown
PROPERTIES VerdictsAreFinal ImplementsLedger EventuallyDone
