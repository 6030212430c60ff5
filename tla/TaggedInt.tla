------------------------------ MODULE TaggedInt ------------------------------
(***************************************************************************)
(* The two encodings of a C long as an object reference.                   *)
(*                                                                         *)
(* src/eval.h (TAG_INT = 1): newLong stores x in the word as (x << 1) | 1  *)
(* when x ^ (x << 1) is not negative, i.e. when shifting loses no          *)
(* information, and otherwise allocates a boxed struct Long with           *)
(* GC_malloc_atomic; getLong shifts a tagged word right arithmetically or  *)
(* reads the box.  The box's type field (GC_APP_HEADER) is never written: *)
(* it holds what GC_malloc_atomic left there, and getType and isLong read  *)
(* it.                                                                     *)
(*                                                                         *)
(* src/test-gc-demo.c: the same newLong, getLong and isLong, but the box  *)
(* comes from newBits(Long), which writes the type into a header.        *)
(*                                                                         *)
(* src/eval-k-generated.c: maru_make_long always tags, (value << 1) | 1,   *)
(* and maru_long_value untags with >> 1 (0 for a word that is not tagged). *)
(*                                                                         *)
(* A word is [imm |-> n], n its W-bit two's complement value; the shifts  *)
(* wrap at W bits as the build's signed shifts do.  A boxed Long is a     *)
(* record holding its bits field.  W is 64 in the build; the arithmetic  *)
(* is the same at any width, and a small W lets TLC try every value.      *)
(***************************************************************************)
EXTENDS Integers

CONSTANTS
  W,          \* bits of a long
  Leftover,   \* values GC_malloc_atomic may leave in a fresh object's type
  Addends     \* second operands test_add is given

ASSUME W \in Nat /\ W >= 3 /\ Addends \subseteq Int

VARIABLES
  x,        \* the C long handed to the constructor
  oop,      \* the word newLong returned, or NoWord before the call
  dl,       \* the word test-gc-demo.c's newLong returned, or NoWord
  mv,       \* the word maru_make_long returned, or NoWord before the call
  y,        \* the long test_add adds to the demo's word
  sum       \* the word test_add returned, or NoWord before the call

vars == <<x, oop, dl, mv, y, sum>>

Longs  == -(2^(W-1)) .. 2^(W-1) - 1
NoWord == [none |-> TRUE]
Word(n) == [imm |-> n]                 \* a word holding the bits n
LONG   == 2                            \* Long in both type enums
Box(t, b) == [type |-> t, bits |-> b]  \* a struct Long: its type field, bits
IsBox(w) == "bits" \in DOMAIN w

(* Reduce an integer to a signed W-bit word.                               *)
Wrap(n) == ((n + 2^(W-1)) % 2^W) - 2^(W-1)
Shl1(n) == Wrap(2 * n)                 \* n << 1
(* Variant: a logical shift, as if the word were unsigned.                 *)
Sar1_logical(n) == (n % 2^W) \div 2
Sar1(n) == n \div 2                    \* n >> 1, arithmetic (floor)
(* Variant: the shift is taken as unbounded, ignoring the width.           *)
Tag_unbounded(n) == Word(2 * n + 1)
Tag(n)  == Word(Shl1(n) + 1)           \* (n << 1) | 1: bit 0 of n << 1 is 0
IsTagged(w) == "imm" \in DOMAIN w /\ w.imm % 2 = 1

(* (x ^ (x << 1)) < 0: the sign bit of the exclusive or is set exactly    *)
(* when the sign bits of x and x << 1 differ.                              *)
(* Variant: the test is <= 0, so that 0 is boxed as well.                   *)
Overflows_orZero(n) == (n < 0) # (Shl1(n) < 0) \/ n = 0
Overflows(n) == (n < 0) # (Shl1(n) < 0)

(* eval.h: the box gets bits only; t is what the allocator left.          *)
newLong(n, t) == IF Overflows(n) THEN Box(t, n) ELSE Tag(n)
getLong(w)  == IF IsTagged(w) THEN Sar1(w.imm) ELSE w.bits
getType(w)  == IF IsTagged(w) THEN LONG ELSE w.type
isLong(w)   == IsTagged(w) \/ getType(w) = LONG

(* test-gc-demo.c: _newBits(type, size) allocates, then setType.           *)
newBits(type, b) == Box(type, b)
demoNewLong(n) == IF Overflows(n) THEN newBits(LONG, n) ELSE Tag(n)
(* Variant: a fast path adds two tagged words directly, (a + b) - 1,      *)
(* without testing the sum for overflow.                                   *)
test_add_tagged(a, b) ==
  IF IsTagged(a) /\ IsTagged(b) THEN Word(Wrap(a.imm + b.imm - 1))
  ELSE demoNewLong(Wrap(getLong(a) + getLong(b)))
(* test_add: newLong(getLong(a) + getLong(b)).  A sum outside the long    *)
(* range is signed overflow; the build's add instruction wraps it.        *)
test_add(a, b) == demoNewLong(Wrap(getLong(a) + getLong(b)))

maru_tag_int(n)     == Tag(n)
maru_untag_int(w)   == Sar1(w.imm)
maru_make_long(n)   == maru_tag_int(n)
maru_long_value(w)  == IF IsTagged(w) THEN maru_untag_int(w) ELSE 0

-----------------------------------------------------------------------------
Init == x \in Longs /\ oop = NoWord /\ dl = NoWord /\ mv = NoWord
        /\ y \in Addends /\ sum = NoWord

(* The interpreter of eval.h boxes or tags x.                              *)
NewLong == oop = NoWord /\ \E t \in Leftover : oop' = newLong(x, t)
           /\ UNCHANGED <<x, dl, mv, y, sum>>

(* The demonstration program of test-gc-demo.c boxes or tags x.           *)
NewLongDemo == dl = NoWord /\ dl' = demoNewLong(x) /\ UNCHANGED <<x, oop, mv, y, sum>>

(* The generated evaluator tags x.                                         *)
MakeLong == mv = NoWord /\ mv' = maru_make_long(x) /\ UNCHANGED <<x, oop, dl, y, sum>>

(* The demonstration adds newLong(y) to its word: test_add(dl, newLong(y)), *)
(* as main does with big_num and newLong(1).                               *)
TestAdd == dl # NoWord /\ sum = NoWord /\ sum' = test_add(dl, demoNewLong(y))
           /\ UNCHANGED <<x, oop, dl, mv, y>>

(* Every word made: nothing more happens.                                  *)
Done == oop # NoWord /\ dl # NoWord /\ mv # NoWord /\ sum # NoWord /\ UNCHANGED vars

Next == NewLong \/ NewLongDemo \/ MakeLong \/ TestAdd \/ Done

Spec == Init /\ [][Next]_vars

-----------------------------------------------------------------------------
TypeOK == /\ x \in Longs
          /\ oop \in [imm : Longs] \cup [type : Leftover, bits : Longs] \cup {NoWord}
          /\ dl \in [imm : Longs] \cup [type : {LONG}, bits : Longs] \cup {NoWord}
          /\ mv \in [imm : Longs] \cup {NoWord}
          /\ sum \in [imm : Longs] \cup [type : {LONG}, bits : Longs] \cup {NoWord}

(***************************************************************************)
(* newLong / getLong round-trip every long, at the edges of the range     *)
(* included: what getLong reads back is what newLong was given, in eval.h  *)
(* and in test-gc-demo.c.                                                  *)
(***************************************************************************)
LongRoundTrip == /\ oop # NoWord => getLong(oop) = x
                 /\ dl # NoWord => getLong(dl) = x

(***************************************************************************)
(* Both copies of newLong box exactly the longs that do not fit in W-1    *)
(* bits (the reference range): the xor test allocates no box for a value *)
(* that tagging represents, and tags no value it would truncate.  With    *)
(* W = 64, 2^30 (test-gc-demo.c line 164) is tagged.                      *)
(***************************************************************************)
FitsTag(n) == -(2^(W-2)) <= n /\ n < 2^(W-2)
BoxOnlyWhenNeeded == /\ oop # NoWord => (IsBox(oop) <=> ~FitsTag(x))
                     /\ dl # NoWord => (IsBox(dl) <=> ~FitsTag(x))


(***************************************************************************)
(* maru_make_long / maru_long_value round-trip every long, as the         *)
(* generated evaluator's printer (print of a Long) relies on.             *)
(***************************************************************************)
MaruLongRoundTrip == mv # NoWord => maru_long_value(mv) = x

(***************************************************************************)
(* Every word newLong returns is a Long: isLong holds of it and getType    *)
(* answers Long, boxed or tagged, as the arithmetic primitives that test   *)
(* isLong before getLong rely on.                                          *)
(***************************************************************************)
LongsAreLongs == /\ oop # NoWord => isLong(oop)
                 /\ dl # NoWord => isLong(dl)

(***************************************************************************)
(* test_add of test-gc-demo.c is exact whenever the sum is a long: what    *)
(* getLong reads from its result is x + y, and the result is boxed exactly *)
(* when the sum does not fit in a tagged word, whichever forms the two     *)
(* operands had: tagged operands may need a boxed sum and boxed ones a     *)
(* tagged sum.                                                             *)
(***************************************************************************)
AddIsExact ==
  sum # NoWord /\ x + y \in Longs =>
    /\ getLong(sum) = x + y
    /\ IsBox(sum) <=> ~FitsTag(x + y)
==============================================================================
