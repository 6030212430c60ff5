CONSTANTS
  Vars = {a, b}
  NULL = NULL
  Lifo = FALSE
SPECIFICATION Spec
PROPERTIES
  ImplementsRootStack
