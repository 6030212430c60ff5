------------------------------ MODULE RootStack ------------------------------
(***************************************************************************)
(* What the root table promises its users (gc_push_root / gc_pop_root in  *)
(* src/test-gc.c): a LIFO stack of addresses of locals.  Popping an empty  *)
(* table, or popping an address other than the most recently pushed one,  *)
(* is fatal.  GC uses this module for its root table; RootTable models    *)
(* the growable array behind it and is checked to implement this module.  *)
(***************************************************************************)
EXTENDS Sequences, Naturals

CONSTANTS
  Vars,      \* addresses of the program's locals
  MaxRoots   \* bound on the depth of the table (model bound)

VARIABLES
  stack,     \* gc_roots[0 .. gc_root_count-1], oldest first
  fatal      \* "none", or the reason passed to fatal()

Top == stack[Len(stack)]

Init == stack = <<>> /\ fatal = "none"

Push(v) ==
  /\ fatal = "none"
  /\ Len(stack) < MaxRoots
  /\ stack' = Append(stack, v)
  /\ UNCHANGED fatal

Pop(v) ==
  /\ fatal = "none"
  /\ \/ stack = <<>> /\ fatal' = "root table underflow" /\ UNCHANGED stack
     \/ /\ stack # <<>>
        /\ stack' = SubSeq(stack, 1, Len(stack) - 1)
        /\ fatal' = IF Top = v THEN "none" ELSE "non-lifo root"

Next == \E v \in Vars : Push(v) \/ Pop(v)

Spec == Init /\ [][Next]_<<stack, fatal>>
==============================================================================
