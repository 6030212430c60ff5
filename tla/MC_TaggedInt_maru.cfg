\* Longs of 8 bits; the generated evaluator's encoding.
CONSTANTS
  W = 8
  \* A zeroing allocator, as gc_malloc_atomic of test-gc.c is.
  Leftover = {0}
  Addends = {1}
SPECIFICATION Spec
INVARIANT MaruLongRoundTrip
