SPECIFICATION Spec
CONSTANTS
  Functions <- MCFunctions
  NoName = NoName
  Hooks <- MCHooks
  OnlyHooks <- MCNone
  IgnoreHooks <- MCNone
  ImportSources <- MCNoSources
  Imports <- MCNone
  Namespaces <- MCNone
  MaxDepth = 5
  MaxFunctions = 3
  MaxSameKind = 1
INVARIANTS ConditionalReported
