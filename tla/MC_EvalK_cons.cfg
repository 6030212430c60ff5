\* maru_cons with the collection due at its second gc_malloc: the MValue
\* just allocated is held only in the local val.
CONSTANTS
  Objs = {o1, o2, o3, o4}
  Globals = {"symbols"}
  Locals <- MC_Locals
  Names = {"t", "quote"}
  Lens = {1}
  Sizes = {0}
  Indices = {0}
  Levels = {0}
  ArgLongs <- MC_ArgLongs
  Ops = {"cons"}
  MaxCalls = 1
  Threshold = 1
  StartCounts = {0}
SPECIFICATION Spec
INVARIANT
  NoDanglingReference
CHECK_DEADLOCK FALSE
