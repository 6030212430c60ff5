\* Byte values: 'A', continuation bytes 0x80 and 0x90 (the least second
\* byte after 0xF0), and leads of 2, 3 and 4 bytes.
CONSTANTS
  Bytes = {65, 128, 144, 195, 226, 240}
  MaxLen = 5
  Beyond = {0, 65}
  BeyondLen = 3
  ValidOnly = TRUE
  Suite = "validation"
SPECIFICATION Spec
INVARIANTS
  NoReadPastTerminator
  DecodeRoundTrip
  IndexingFindsCharacters
  ByteOrderIsCodePointOrder
  CountsCodePoints
  MeetsTestExpectations
\* utf8_strlen returns; nothing runs after it.
CHECK_DEADLOCK FALSE
