------------------------------ MODULE DemoRoots ------------------------------
(***************************************************************************)
(* The second root stack of the repository, in src/test-gc-demo.c: a       *)
(* linked list of struct GC_StackRoot records, one per GC_PROTECT(V),      *)
(* which declares _sr_V in the caller's frame and pushes its address.      *)
(* GC_push_root_simple links the record in front of gc_roots;              *)
(* GC_pop_root_simple unlinks it only if it is the head, and otherwise     *)
(* does nothing.                                                           *)
(*                                                                         *)
(* A record is named by its local V.  scope holds the locals whose         *)
(* _sr_V is alive: GC_PROTECT declares it, and the block ends right after  *)
(* GC_UNPROTECT (lines 98-105, 112-116, 135-143), which the model joins    *)
(* into one step.  The list read from gc_roots is checked against          *)
(* RootStack, the contract test-gc.c's table and the spec state.           *)
(***************************************************************************)
EXTENDS Naturals, Sequences, FiniteSets
LOCAL INSTANCE SequencesExt

CONSTANTS
  Vars,     \* the protected locals; _sr_V is the record of V
  NULL,     \* the null pointer
  Lifo      \* TRUE: the client unprotects the latest local only

ASSUME NULL \notin Vars /\ Lifo \in BOOLEAN

VARIABLES
  gc_roots, \* the head of the list
  next,     \* _sr_V.next for every record
  scope     \* the locals whose record is alive in some frame

vars == <<gc_roots, next, scope>>

Ptr == Vars \cup {NULL}
MaxRoots == Cardinality(Vars)

(* The records reached from p by following next, head first; the walk is  *)
(* cut after MaxRoots + 1 records so that a cycle still yields a value.    *)
RECURSIVE Walk(_, _)
Walk(p, fuel) ==
  IF p = NULL \/ fuel = 0 THEN <<>> ELSE <<p>> \o Walk(next[p], fuel - 1)
Chain == Walk(gc_roots, MaxRoots + 1)

(* A fresh record's next field is stack memory not yet written.            *)
Init ==
  /\ gc_roots = NULL
  /\ next \in [Vars -> Ptr]
  /\ scope = {}

(* Variant: the record is put at the head without linking the old head.    *)
Push_noLink(sr) ==
  /\ gc_roots' = sr
  /\ UNCHANGED next
(* GC_push_root_simple: sr->next = gc_roots; gc_roots = sr.                *)
Push(sr) ==
  /\ next' = [next EXCEPT ![sr] = gc_roots]
  /\ gc_roots' = sr

(* Variant: the pop never unlinks the record.                              *)
Pop_noUnlink(sr) == UNCHANGED <<gc_roots, next>>
(* GC_pop_root_simple: if (gc_roots == sr) gc_roots = sr->next.            *)
Pop(sr) ==
  /\ gc_roots' = IF gc_roots = sr THEN next[sr] ELSE gc_roots
  /\ UNCHANGED next

(* GC_PROTECT(V): declare _sr_V, set its root field, push it.              *)
Protect(v) ==
  /\ v \notin scope
  /\ Push(v)
  /\ scope' = scope \cup {v}

(* GC_UNPROTECT(V), then the end of the block that declared _sr_V.         *)
Unprotect(v) ==
  /\ v \in scope
  /\ Lifo => gc_roots = v
  /\ Pop(v)
  /\ scope' = scope \ {v}

Next == \E v \in Vars : Protect(v) \/ Unprotect(v)

Spec == Init /\ [][Next]_vars

-----------------------------------------------------------------------------
TypeOK ==
  /\ gc_roots \in Ptr
  /\ next \in [Vars -> Ptr]
  /\ scope \subseteq Vars

(***************************************************************************)
(* No record on the list from gc_roots belongs to a block that has ended:  *)
(* GC_pop_root_simple has unlinked every record whose frame is gone, so    *)
(* a collector walking gc_roots never reads a dead stack slot.             *)
(***************************************************************************)
NoDeadRootInChain == \A i \in DOMAIN Chain : Chain[i] \in scope

(***************************************************************************)
(* The list implements the LIFO root stack: read oldest first, it is the   *)
(* stack of RootStack, and every push and pop is a step of RootStack in    *)
(* which nothing is fatal (the demo has no fatal path).                    *)
(***************************************************************************)
Stack == Reverse(Chain)
Abstract == INSTANCE RootStack WITH stack <- Stack, fatal <- "none"
ImplementsRootStack == Abstract!Spec
==============================================================================
