SPECIFICATION EverySpec
CONSTANTS
  Variables = {"p", "q"}
  KindsOf <- MCKinds
  Uses <- MCUses
  Entries <- MCEntries
  Options <- MCOptions
  MaxUses = 2
  MaxEntries = 2
  MaxPasses = 6
  NoName = NoName
  OnlyHooks = {}
  IgnoreHooks = {}
  ImportSources <- MCImportSources
  Names = {a, b, c}
  Locals = {"a", "b"}
SYMMETRY Symmetry
CHECK_DEADLOCK FALSE
INVARIANTS
  EveryTypeOK EveryReportJustified EveryMisplacedReported RecursionIsReported SentBackIsReported
  ReportsAreDead OnlyReportedYield FixesSettle SettledNamesAll
