SPECIFICATION Spec
CONSTANTS
  Variables = {"p"}
  KindsOf <- MCKinds
  Uses <- MCUses
  Entries <- MCEntries
  Options <- MCOptions
  MaxUses = 2
  MaxEntries = 2
  MaxPasses = 6
CHECK_DEADLOCK FALSE
INVARIANTS CompleteStaysComplete
