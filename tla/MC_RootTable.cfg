\* 32-bit build: an entry is 4 bytes, as the malloc and memcpy sizes assume.
\* RootMin is scaled down from 32 to 2 so that three growths (0 -> 2 -> 4 -> 8)
\* happen within five pushes; the growth arithmetic is linear in it.
CONSTANTS
  Vars = {a, b}
  MaxRoots = 5
  PtrBytes = 4
  EntryBytes = 4
  RootMin = 2
  Garbage = Garbage
SPECIFICATION Spec
INVARIANT TypeOK
INVARIANT WithinBuffer
PROPERTY ImplementsRootStack
