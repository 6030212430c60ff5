\* An AArch64 build: plain char is unsigned.
CONSTANTS
    CharSigned = {FALSE}
    LittleEndian = {TRUE}
    MallocMayFail = FALSE
SPECIFICATION Spec
INVARIANTS AssertionsHold
CHECK_DEADLOCK FALSE
