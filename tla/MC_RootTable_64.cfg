\* 64-bit build: an entry is 8 bytes, the code still counts 4 per entry.
CONSTANTS
  Vars = {a, b}
  MaxRoots = 5
  PtrBytes = 8
  EntryBytes = 4
  RootMin = 2
  Garbage = Garbage
SPECIFICATION Spec
PROPERTY ImplementsRootStack
