\* Two iterations of make_list(2) on a 64-bit build; the first block at
\* either of two addresses malloc may return.  Threshold as in the code.
CONSTANTS
  BlockAddrs = {256, 400}
  MinBlock = 64
  Threshold = 32768
  ListLength = 2
  Iterations = 2
  MaxBlocks = 2
  MaxRoots = 3
SPECIFICATION Spec
INVARIANT ChainIsCycle
