\* A symbol kept in a rooted global across a collection: its MValue is
\* allocated atomic, so the MSymbol it points to is not marked.
CONSTANTS
  Objs = {o1, o2, o3, o4, o5}
  Globals = {"symbols", "s_t"}
  Locals <- MC_Locals
  Names = {"t", "quote"}
  Lens = {1}
  Sizes = {0}
  Indices = {0}
  Levels = {0}
  ArgLongs <- MC_ArgLongs
  Ops = {"symbol"}
  MaxCalls = 2
  Threshold = 2
  StartCounts = {0}
SPECIFICATION Spec
INVARIANT
  RootedReachableLive
CHECK_DEADLOCK FALSE
