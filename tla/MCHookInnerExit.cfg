SPECIFICATION Spec
CONSTANTS
  Functions <- MCFunctions
  NoName = NoName
  Hooks <- MCHooks
  OnlyHooks <- MCNone
  IgnoreHooks <- MCNone
  ImportSources <- MCNoSources
  Imports <- MCNone
  Namespaces <- MCNone
  MaxDepth = 4
  MaxFunctions = 1
  MaxSameKind = 2
INVARIANTS ConditionalReported
