\* Longs of 8 bits: every value, the range edges included, is tried.
CONSTANTS
  W = 8
  \* A zeroing allocator, as gc_malloc_atomic of test-gc.c is.
  Leftover = {0}
  \* test_add's second operand: 1 as in main, and 64 = 2^(W-2), the least
  \* long that needs a box.  With every x, sums cross from tagged to boxed
  \* (63 + 1), from boxed to tagged (-100 + 64), and add two boxes.
  Addends = {1, 64}
SPECIFICATION Spec
INVARIANT TypeOK
INVARIANT LongRoundTrip
INVARIANT BoxOnlyWhenNeeded
INVARIANT AddIsExact
