\* The tables of test-utf8-simple.c, and no enumerated strings but "".
CONSTANTS
  Bytes = {65}
  MaxLen = 0
  Beyond = {0}
  BeyondLen = 1
  ValidOnly = TRUE
  Suite = "simple"
SPECIFICATION Spec
INVARIANTS
  MeetsTestExpectations
\* utf8_strlen returns; nothing runs after it.
CHECK_DEADLOCK FALSE
