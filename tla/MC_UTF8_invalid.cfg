\* Byte values: 'A', a continuation byte, and leads of 2, 3 and 4 bytes.
CONSTANTS
  Bytes = {65, 128, 195, 226, 240}
  MaxLen = 3
  Beyond = {0, 65}
  BeyondLen = 3
  ValidOnly = FALSE
  Suite = "none"
SPECIFICATION Spec
INVARIANTS
  NoReadPastTerminator
\* utf8_strlen returns; nothing runs after it.
CHECK_DEADLOCK FALSE
