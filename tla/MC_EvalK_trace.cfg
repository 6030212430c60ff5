\* maru_init roots symbols after maru_make_array; the next collection
\* traces the MValue whose first slot is the int32 tag.
CONSTANTS
  Objs = {o1, o2, o3, o4, o5, o6, o7}
  Globals = {"symbols"}
  Locals <- MC_Locals
  Names = {"t", "quote"}
  Lens = {1}
  Sizes = {0}
  Indices = {0}
  Levels = {0}
  ArgLongs <- MC_ArgLongs
  Ops = {"array"}
  MaxCalls = 2
  Threshold = 3
  StartCounts = {0}
SPECIFICATION Spec
INVARIANT
  TraceFollowsAddresses
CHECK_DEADLOCK FALSE
