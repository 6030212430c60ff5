CONSTANTS
  Vars = {a, b, c}
  NULL = NULL
  Lifo = TRUE
SPECIFICATION Spec
INVARIANTS
  NoDeadRootInChain
PROPERTIES
  ImplementsRootStack
