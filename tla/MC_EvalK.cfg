\* The evaluator below the collection threshold, as test_eval runs it:
\* maru_init's symbol table and every constructor, over enough calls to
\* intern a name twice and to grow an array.
CONSTANTS
  Objs = {o1, o2, o3, o4, o5, o6, o7, o8, o9}
  Globals = {"symbols"}
  Locals <- MC_Locals
  Names = {"t", "quote"}
  Lens = {1}
  Sizes = {0}
  Indices = {0}
  Levels = {0}
  ArgLongs <- MC_ArgLongs
  Ops <- MC_AllOps
  MaxCalls = 3
  Threshold = 32768
  StartCounts = {0}
SPECIFICATION Spec
PROPERTIES
  ImplementsSymbolTable
  ArraySetStores
\* The program makes MaxCalls calls and ends.
CHECK_DEADLOCK FALSE
