\* malloc(1024) may return NULL; the pointers test stores through it
\* without a check.
CONSTANTS
    CharSigned = {TRUE}
    LittleEndian = {TRUE}
    MallocMayFail = TRUE
SPECIFICATION Spec
PROPERTIES MainReturnsZero
CHECK_DEADLOCK FALSE
