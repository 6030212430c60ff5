\* maru_make_env and maru_make_variable below the collection threshold:
\* what maru_type_of answers for the objects they return.
CONSTANTS
  Objs = {o1, o2, o3, o4, o5, o6}
  Globals = {"symbols"}
  Locals <- MC_Locals
  Names = {"t", "quote"}
  Lens = {1}
  Sizes = {0}
  Indices = {0}
  Levels = {0}
  ArgLongs <- MC_ArgLongs
  Ops = {"env", "variable"}
  MaxCalls = 1
  Threshold = 32768
  StartCounts = {0}
SPECIFICATION Spec
INVARIANT
  TypeTagsHold
CHECK_DEADLOCK FALSE
