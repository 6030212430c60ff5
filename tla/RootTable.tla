------------------------------ MODULE RootTable ------------------------------
(***************************************************************************)
(* The storage of the root table in src/test-gc.c: gc_roots is a malloc'd *)
(* array of gc_root_max entries, grown by gc_push_root when full to        *)
(* max(32, 2 * gc_root_max) entries.  The code sizes the array, and copies *)
(* the old one, counting 4 bytes per entry; an entry really occupies       *)
(* sizeof of a pointer, PtrBytes bytes.  The buffer therefore holds       *)
(* Cap(gc_root_max) entries, and memcpy carries over Copied(count) of      *)
(* them; the rest of the new buffer is uninitialised memory.               *)
(*                                                                         *)
(* table[i] is the word at index i of the current buffer, for the indices  *)
(* the model reaches; an index at or past Cap is memory beyond the buffer. *)
(***************************************************************************)
EXTENDS Naturals, Sequences

CONSTANTS
  Vars,        \* addresses of the program's locals
  MaxRoots,    \* bound on the depth of the table (model bound)
  PtrBytes,    \* bytes of a pointer: 4 or 8
  EntryBytes,  \* bytes per entry in the malloc and memcpy sizes: 4
  RootMin,     \* minimum capacity of a grown table: 32
  Garbage      \* a word of uninitialised memory that names no local

ASSUME PtrBytes \in {4, 8} /\ EntryBytes = 4 /\ RootMin \in Nat \ {0}
ASSUME Garbage \notin Vars

VARIABLES
  table,       \* index -> word
  count,       \* gc_root_count
  rootMax,     \* gc_root_max
  fatal        \* "none", or the reason passed to fatal()

vars == <<table, count, rootMax, fatal>>

Index == 0 .. MaxRoots - 1
Word  == Vars \cup {Garbage}
Cap(m)    == (EntryBytes * m) \div PtrBytes
(* Variant: memcpy carries one entry fewer than it should.                 *)
Copied_oneShort(n) == (EntryBytes * n) \div PtrBytes - 1
(* Entries the memcpy of 4 * gc_root_count bytes carries over.             *)
Copied(n) == (EntryBytes * n) \div PtrBytes
(* Variant: the table grows only once count has passed max.                *)
Full_late == count > rootMax
(* The table is full: gc_root_count == gc_root_max.                        *)
Full == count = rootMax
Max2(a, b) == IF a >= b THEN a ELSE b

(* main(): gc_roots = 0, gc_root_max = 0, gc_root_count = 0.               *)
Init ==
  /\ table \in [Index -> Word]
  /\ count = 0 /\ rootMax = 0 /\ fatal = "none"

(* gc_push_root: grow when count == max (malloc, memcpy, free), store the  *)
(* address at index count, increment count.  The new buffer's words past  *)
(* what memcpy copied are whatever malloc's memory held.                   *)
Push(v) ==
  /\ fatal = "none"
  /\ count < MaxRoots
  /\ IF Full
     THEN LET m == Max2(RootMin, 2 * rootMax)
          IN /\ rootMax' = m
             /\ \E fresh \in [Index -> Word] :
                  table' = [i \in Index |->
                              IF i = count THEN v
                              ELSE IF i < Copied(count) THEN table[i]
                              ELSE fresh[i]]
     ELSE /\ table' = [table EXCEPT ![count] = v]
          /\ UNCHANGED rootMax
  /\ count' = count + 1
  /\ UNCHANGED fatal

(* Variant: gc_pop_root without its underflow check.                       *)
Pop_noUnderflow(v) ==
  /\ fatal = "none"
  /\ count' = count - 1
  /\ LET top == IF count > 0 THEN table[count - 1] ELSE Garbage
     IN fatal' = IF top = v THEN "none" ELSE "non-lifo root"
  /\ UNCHANGED <<table, rootMax>>

(* gc_pop_root: underflow check, decrement, compare the top entry.         *)
Pop(v) ==
  /\ fatal = "none"
  /\ \/ count = 0 /\ fatal' = "root table underflow" /\ UNCHANGED count
     \/ /\ count > 0
        /\ count' = count - 1
        /\ fatal' = IF table[count - 1] = v THEN "none" ELSE "non-lifo root"
  /\ UNCHANGED <<table, rootMax>>

(* After fatal() the process has exited.                                    *)
Exited == fatal # "none" /\ UNCHANGED vars

Next == (\E v \in Vars : Push(v) \/ Pop(v)) \/ Exited

Spec == Init /\ [][Next]_vars

-----------------------------------------------------------------------------
TypeOK ==
  /\ table \in [Index -> Word]
  /\ count \in 0 .. MaxRoots
  /\ rootMax \in Nat
  /\ fatal \in {"none", "root table underflow", "non-lifo root"}

(***************************************************************************)
(* Every entry gc_push_root has stored lies inside the malloc'd buffer:   *)
(* no push writes past the end of gc_roots.                                *)
(***************************************************************************)
WithinBuffer == count <= Cap(rootMax)

(***************************************************************************)
(* The array implements the LIFO root stack: the entries below count, in  *)
(* order, are the stack of RootStack, across any number of growths.        *)
(***************************************************************************)
Stack == [i \in 1 .. count |-> table[i - 1]]
Abstract == INSTANCE RootStack WITH stack <- Stack, fatal <- fatal
ImplementsRootStack == Abstract!Spec
==============================================================================
