------------------------------ MODULE EvalHeap ------------------------------
(***************************************************************************)
(* The collected heap as the generated evaluator of src/eval-k-generated.c *)
(* sees it: objects of whole 8-byte slots, the words they hold, and        *)
(* gc_malloc / gc_malloc_atomic with the collection they may run first.    *)
(* eval-k-generated.c declares these functions extern.  The repository    *)
(* links it only with the calloc stubs of src/test-eval-k-generated.c,     *)
(* which never collect.  src/test-gc.c is another program whose collector  *)
(* is static and hands out odd addresses.  The collector here is therefore *)
(* the one spec.md (sections 4.2 to 4.4) describes for this interface:     *)
(* the header before the object, size rounded to the pointer size, and     *)
(* marking that follows every word of a non-atomic object that is neither  *)
(* null nor odd.  Chunk placement is left out: an allocation takes any     *)
(* free object, a freed one included.                                      *)
(*                                                                         *)
(* A word is what a slot or a C variable holds:                            *)
(*   Raw(lo, hi)  integer bits, lo the low and hi the high 32 bits; nil is *)
(*                Raw(0, 0) and the tagged long n is Raw(2n+1, 0);         *)
(*   Ptr(o)       the address of object o;                                 *)
(*   Str(n)       a C string from strdup, outside the collected heap.      *)
(***************************************************************************)
EXTENDS Integers, Sequences, FiniteSets

CONSTANTS
  Objs,        \* the objects the heap can hold (model bound)
  Globals,     \* the evaluator's static variables
  Threshold    \* gc_alloc_count at which gc_malloc collects: 32768

VARIABLES
  free,        \* objects not allocated
  atomic,      \* object -> its chunk carries the atomic flag (2)
  mem,         \* object -> sequence of its slot words
  allocCount,  \* gc_alloc_count
  glob,        \* Globals -> word
  rooted,      \* the globals whose address is in the root table
  kind,        \* object -> tag its constructor gave it (0 until returned)
  fatal        \* "none", or how the process ended

heapVars == <<free, atomic, mem, allocCount, kind>>

Raw(lo, hi) == [lo |-> lo, hi |-> hi]
Nil == Raw(0, 0)
Long(n) == Raw(2 * n + 1, 0)
Ptr(o) == [obj |-> o]
Str(n) == [str |-> n]
IsPtr(w) == "obj" \in DOMAIN w
IsRaw(w) == "lo" \in DOMAIN w

(* Slots of an object of b bytes: allocate rounds b up to the pointer     *)
(* size, and the collector traces size / pointer-size slots.               *)
SlotsOf(b) == (b + 7) \div 8
Zeroed(b) == [i \in 1 .. SlotsOf(b) |-> Nil]

(* Tracing follows a word when it is neither null nor odd.                *)
Followed(w) == w # Nil /\ ~(IsRaw(w) /\ w.lo % 2 = 1)
(* A followed word that is no object's address: reading its header        *)
(* faults, the words being small integers or malloc'd strings.            *)
Wild(w) == Followed(w) /\ ~IsPtr(w)

(* The words the collector visits in object o: none when it is atomic.    *)
Traced(o) == IF atomic[o] \/ o \in free THEN {} ELSE {mem[o][i] : i \in DOMAIN mem[o]}

(* The words the program may read in o: all of its slots, as it follows  *)
(* pointers that atomic objects hold as well.                             *)
Held(o) == {mem[o][i] : i \in DOMAIN mem[o]}

(* The objects reached from the words ws beyond seen, following the words *)
(* the collector traces (byCollector) or those the program reads.         *)
RECURSIVE Reach(_, _, _)
Reach(ws, seen, byCollector) ==
  LET new == {w.obj : w \in {x \in ws : IsPtr(x)}} \ seen
      out(o) == IF byCollector THEN Traced(o) ELSE Held(o)
  IN IF new = {} THEN seen
     ELSE Reach(UNION {out(o) : o \in new}, seen \cup new, byCollector)

RootWords == {glob[g] : g \in rooted}
Marked == Reach(RootWords, {}, TRUE)
Visited == RootWords \cup UNION {Traced(o) : o \in Marked}

(* How gc_gcollect ends the process, if it does: marking a freed chunk is  *)
(* fatal("attempt to mark dead object"); following a wild word faults.    *)
(* Which comes first depends on the order of the trace.                    *)
CollectFaults ==
  (IF Marked \cap free # {} THEN {"attempt to mark dead object"} ELSE {})
  \cup (IF \E w \in Visited : Wild(w) THEN {"segfault in gc_mark_and_trace"} ELSE {})

(* gc_malloc collects when gc_alloc_count == Threshold.                    *)
Collects == allocCount = Threshold
(* The free objects once the collection, if any, has swept.                *)
FreeAfter == IF Collects THEN free \cup ((Objs \ free) \ Marked) ELSE free
(* The object gc_malloc returns.  Chunk placement is left out; here it is *)
(* one fixed object that was already free, or one fixed object the        *)
(* collection has just freed: a next-fit scan can reach either first.     *)
Pick(S) == IF S = {} THEN {} ELSE {CHOOSE o \in S : TRUE}
Returned == Pick(free) \cup Pick(FreeAfter \ free)
(* gc_gcollect resets the count; the allocation then counts itself.        *)
CountAfter == (IF Collects THEN 0 ELSE allocCount) + 1

(* gc_malloc(b) (or gc_malloc_atomic) returning o: the collection, then    *)
(* the zeroed object, flagged atomic or not.  The caller's own writes     *)
(* are applied to Mem1(o, b) and the kinds to Kind1(o) in the same step.   *)
Malloc(o, b, isAtomic) ==
  /\ o \in FreeAfter
  /\ free' = FreeAfter \ {o}
  /\ atomic' = [atomic EXCEPT ![o] = isAtomic]
  /\ allocCount' = CountAfter
Mem1(o, b) == [mem EXCEPT ![o] = Zeroed(b)]
Kind1(o) == [kind EXCEPT ![o] = 0]
(* The collection run by this call ends the process.                       *)
CollectDies == Collects /\ CollectFaults # {}

(* A heap with nothing allocated: gc_initialise.                           *)
HeapInit ==
  /\ free = Objs
  /\ atomic = [o \in Objs |-> FALSE]
  /\ mem = [o \in Objs |-> <<>>]
  /\ kind = [o \in Objs |-> 0]
==============================================================================
