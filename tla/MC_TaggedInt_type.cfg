\* Longs of 8 bits; the box's type field holds what a zeroing allocator
\* (gc_malloc_atomic of test-gc.c) or a malloc-backed one leaves there.
CONSTANTS
  W = 8
  Leftover = {0, 7}
  Addends = {1}
SPECIFICATION Spec
INVARIANT LongsAreLongs
