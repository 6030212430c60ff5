-------------------------------- MODULE MC_GC --------------------------------
(* Model-checking instance of GC: the properties the code is checked      *)
(* against, stated for the bounds given in the .cfg files.                 *)
EXTENDS GC

(***************************************************************************)
(* The chunk chain is sound: from gc_memory_base, next leads through       *)
(* headers inside the blocks and back to the base, every block starts a    *)
(* chunk on it, and each chunk's size agrees with the gap to its           *)
(* successor (header plus size), or the chunk ends its block and next      *)
(* starts another.  gc_malloc's split (lines 195-201), its memset of       *)
(* csize bytes at chunk + 1 (lines 210-211) and make_cell's writes through *)
(* that address (lines 137-138) must all keep it.                          *)
(***************************************************************************)
BlockEnds == { b + blocks[b] : b \in DOMAIN blocks }
Tiles(c, n) ==
  LET e == c + HDR + SizeOf(mem, c)
  IN e = n \/ (e \in BlockEnds /\ n \in DOMAIN blocks)
RECURSIVE Walk(_, _)
Walk(c, seen) ==
  IF ~Mapped(c, HDR) \/ c \in seen \/ ~Tiles(c, NextOf(mem, c)) THEN {}
  ELSE IF NextOf(mem, c) = base THEN seen \cup {c}
  ELSE Walk(NextOf(mem, c), seen \cup {c})
ChainIsCycle ==
  base # 0 => LET chain == Walk(base, {})
              IN chain # {} /\ DOMAIN blocks \subseteq chain

(***************************************************************************)
(* The test program runs to its end: main's 10000 iterations of            *)
(* make_list(256), two collections and the return of 0, with no fatal()   *)
(* and no fault on the way.                                                *)
(***************************************************************************)
MainReturns == <>(pc = "done" /\ fatal = "none")
==============================================================================
