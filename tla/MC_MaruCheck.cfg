\* x86-64 as built: char is signed; both byte orders, which the pointers
\* test branches on; malloc succeeds.
CONSTANTS
    CharSigned = {TRUE}
    LittleEndian = {TRUE, FALSE}
    MallocMayFail = FALSE
SPECIFICATION Spec
INVARIANTS TypeOK AssertionsHold NoUninitialisedRead
PROPERTIES MainReturnsZero
CHECK_DEADLOCK FALSE
