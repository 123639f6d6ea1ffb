SPECIFICATION EverySpec
CONSTANTS
  Tags = {1, 2}
  Options <- MCOptions
  MaxRuns = 1
  MaxEdits = 1
  All = All
  Open = Open
  MaxColumn = 1
  Directories = {1, 2}
  Parent <- MCParent
  JudgmentThresholds <- MCThresholds
  MaxRelationsPerRule = 1
  Paths = {"global", "project"}
  ComponentFiles = {"portal", "innerPortal"}
  DirectoryOf <- MCDirectoryOf
  Notes = {n1, n2}
SYMMETRY Symmetry
CHECK_DEADLOCK FALSE
INVARIANTS
  EveryTypeOK ScoredCapIsGreedy AreasAreExact BlockDuplicatesRedundant EnableReportsAreExact WrongOnlyIfOutdated
  OutcomesHold ReportsAreTrue DiffIsRight VtslsTakesOver BindsLikeTheLanguageHere
  TestsAreJudged RenamesKeepBindings
PROPERTIES DoubtNeverPublishes
