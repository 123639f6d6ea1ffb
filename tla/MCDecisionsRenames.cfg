SPECIFICATION RenamingSpec
CONSTANTS
  Tags = {1, 2}
  Options <- MCOptions
  MaxRuns = 1
  MaxEdits = 1
  All = All
  Open = Open
  MaxColumn = 1
  Directories = {1, 2}
  Parent <- MCParent
  JudgmentThresholds <- MCThresholds
  MaxRelationsPerRule = 1
  Paths = {"global", "project"}
  ComponentFiles = {"portal", "innerPortal"}
  DirectoryOf <- MCDirectoryOf
  Notes = {n1, n2}
SYMMETRY Symmetry
CHECK_DEADLOCK FALSE
INVARIANTS RenamedEverywhere
