-------------------------------- MODULE EvalK --------------------------------
(***************************************************************************)
(* The object constructors of src/eval-k-generated.c as clients of the    *)
(* collected heap of EvalHeap.  Each gc_malloc call of a constructor is   *)
(* one step, together with the constructor's code up to its next call;     *)
(* the collection gc_malloc may run first is part of that step.  A         *)
(* constructor's C locals (val, pair, str, arr, ...) live in fr and are    *)
(* not in the root table.  The program calls the constructors with words   *)
(* it holds in its locals and in the globals, and may push the address of  *)
(* a global (gc_push_root), as maru_init does for symbols and globals.     *)
(*                                                                         *)
(* Layout, 64-bit build: struct MValue is the tag (int32, padded) in slot  *)
(* 1 and data in slot 2; MPair, MString and MArray have two slots, with    *)
(* MString's length and MArray's size and capacity packed into slot 1.     *)
(***************************************************************************)
EXTENDS EvalHeap

CONSTANTS
  Locals,      \* the program's C locals
  Names,       \* C strings passed to maru_make_symbol and maru_intern
  Lens,        \* string lengths passed to maru_make_string
  Sizes,       \* sizes passed to maru_make_array
  Indices,     \* indices passed to maru_array_set and maru_make_variable
  Levels,      \* levels and offsets passed to maru_make_env
  ArgLongs,    \* tagged longs the program passes
  Ops,         \* the constructors the program calls
  MaxCalls,    \* bound on the calls the program makes (model bound)
  StartCounts  \* gc_alloc_count values the program may start from

ASSUME "symbols" \in Globals /\ Locals \cap Globals = {}

VARIABLES
  loc,         \* Locals -> word
  pc,          \* "idle", or the step of the call in progress
  fr,          \* the locals of the call in progress
  calls        \* calls made so far

vars == <<heapVars, glob, rooted, fatal, loc, pc, fr, calls>>

(* The type tags of eval-k-generated.c.                                    *)
MARU_UNDEFINED == 0
MARU_LONG == 2
MARU_STRING == 4
MARU_SYMBOL == 5
MARU_PAIR == 6
MARU_ARRAY == 8
MARU_VARIABLE == 13
MARU_ENV == 14

NoFrame == [h |-> Nil, t |-> Nil, e |-> Nil, n |-> 0, m |-> 0, nm |-> "",
            val |-> Nil, o2 |-> Nil, o3 |-> Nil, dest |-> "", k |-> "ret"]

(* Slot i of the object w points to.  A read through a word that is not   *)
(* an address reads 0 here: the model reaches such reads only in states   *)
(* that a property already rejects.                                        *)
SlotW(w, i) == IF IsPtr(w) /\ i \in DOMAIN mem[w.obj] THEN mem[w.obj][i] ELSE Nil
Lo(w) == IF IsRaw(w) THEN w.lo ELSE 4096   \* an address's low bits: no tag
Hi(w) == IF IsRaw(w) THEN w.hi ELSE 4096

(* maru_type_of: nil, a tagged integer, or the tag field of the MValue.   *)
TypeOf(w) ==
  CASE w = Nil -> MARU_UNDEFINED
    [] IsRaw(w) /\ w.lo % 2 = 1 -> MARU_LONG
    [] OTHER -> Lo(SlotW(w, 1))

(* maru_array_length, maru_array_at: through the MArray in data.          *)
ArrOf(a)  == SlotW(a, 2)
ArrSize(a) == IF TypeOf(a) = MARU_ARRAY THEN Lo(SlotW(ArrOf(a), 1)) ELSE 0
ArrCap(a)  == Hi(SlotW(ArrOf(a), 1))
ArrayAt(a, i) ==
  IF TypeOf(a) = MARU_ARRAY /\ i >= 0 /\ i < ArrSize(a)
  THEN SlotW(SlotW(ArrOf(a), 2), i + 1) ELSE Nil

(* maru_symbol_name: the C string of the MSymbol in data, or "".          *)
(* A word that is no string names nothing the program interns.            *)
SymbolName(w) ==
  IF TypeOf(w) = MARU_SYMBOL
  THEN LET s == SlotW(SlotW(w, 2), 1) IN IF "str" \in DOMAIN s THEN s.str ELSE "?"
  ELSE ""

(* The locals of the caller receive a constructor's result.                *)
Store(d, w) ==
  IF d \in Locals THEN loc' = [loc EXCEPT ![d] = w] /\ UNCHANGED glob
  ELSE glob' = [glob EXCEPT ![d] = w] /\ UNCHANGED loc

(* One gc_malloc call: when the collection it runs faults, the process    *)
(* ends there; otherwise the object o is allocated and Body, the caller's *)
(* code up to its next call, follows.                                      *)
GcCall(o, b, isAtomic, Body) ==
  IF CollectDies
  THEN /\ fatal' \in CollectFaults
       /\ UNCHANGED <<heapVars, glob, rooted, loc, pc, fr, calls>>
  ELSE /\ Malloc(o, b, isAtomic)
       /\ Body
       /\ UNCHANGED <<rooted, calls>>

(* The call is at step, and the process has not ended.                   *)
At(step) == pc = step /\ fatal = "none"

(* maru_alloc / maru_alloc_atomic: the object with its tag in slot 1.      *)
Tagged(o, b, tag) == [Mem1(o, b) EXCEPT ![o][1] = Raw(tag, 0)]

(* The constructor returns w, of type tag, with the heap m and kinds k.   *)
(* "ret": to the program; "env": the array is the new environment's      *)
(* bindings; "intern": the new symbol goes into symbols at index n.       *)
Finish(w, tag, m, k) ==
  /\ fatal' = fatal
  /\ CASE fr.k = "env" ->
            /\ mem' = [m EXCEPT ![fr.e.obj][3] = w]
            /\ kind' = [k EXCEPT ![w.obj] = tag, ![fr.e.obj] = MARU_ENV]
            /\ Store(fr.dest, fr.e)
            /\ pc' = "idle" /\ fr' = NoFrame
       [] fr.k = "intern" ->
            /\ mem' = m
            /\ kind' = [k EXCEPT ![w.obj] = tag]
            /\ pc' = "aset"
            /\ fr' = [fr EXCEPT !.h = glob["symbols"], !.t = w]
            /\ UNCHANGED <<glob, loc>>
       [] OTHER ->
            /\ mem' = m
            /\ kind' = [k EXCEPT ![w.obj] = tag]
            /\ Store(fr.dest, w)
            /\ pc' = "idle" /\ fr' = NoFrame

(* The next step of the call, with the new object in field f of fr.       *)
Then(f, o, m, step) ==
  /\ mem' = m /\ kind' = Kind1(o) /\ fatal' = fatal
  /\ fr' = [fr EXCEPT ![f] = Ptr(o)] /\ pc' = step
  /\ UNCHANGED <<glob, loc>>

-----------------------------------------------------------------------------
(* maru_cons: val = maru_alloc(MARU_PAIR, 16); pair = gc_malloc(16);      *)
(* val->data = pair; pair->head = head; pair->tail = tail.                *)
Cons1 == At("cons1") /\ \E o \in Returned :
  GcCall(o, 16, FALSE, Then("val", o, Tagged(o, 16, MARU_PAIR), "cons2"))
Cons2 == At("cons2") /\ \E o \in Returned :
  GcCall(o, 16, FALSE,
    Finish(fr.val, MARU_PAIR,
           [Mem1(o, 16) EXCEPT ![fr.val.obj][2] = Ptr(o),
                               ![o][1] = fr.h, ![o][2] = fr.t], Kind1(o)))

(* maru_make_string: val, then str = gc_malloc(16), then data =           *)
(* gc_malloc_atomic(len + 1); val->data = str; str->length = len;         *)
(* str->data = data; memcpy (the characters are not modelled).            *)
Str1 == At("str1") /\ \E o \in Returned :
  GcCall(o, 16, FALSE, Then("val", o, Tagged(o, 16, MARU_STRING), "str2"))
Str2 == At("str2") /\ \E o \in Returned :
  GcCall(o, 16, FALSE, Then("o2", o, Mem1(o, 16), "str3"))
Str3 == At("str3") /\ \E o \in Returned :
  GcCall(o, fr.n + 1, TRUE,
    Finish(fr.val, MARU_STRING,
           [Mem1(o, fr.n + 1) EXCEPT ![fr.val.obj][2] = fr.o2,
                                     ![fr.o2.obj][1] = Raw(fr.n, 0),
                                     ![fr.o2.obj][2] = Ptr(o)], Kind1(o)))

(* maru_make_symbol: val = maru_alloc_atomic(MARU_SYMBOL, 16); sym =      *)
(* gc_malloc_atomic(8); val->data = sym; sym->name = strdup(name).        *)
Sym1 == At("sym1") /\ \E o \in Returned :
  GcCall(o, 16, TRUE, Then("val", o, Tagged(o, 16, MARU_SYMBOL), "sym2"))
Sym2 == At("sym2") /\ \E o \in Returned :
  GcCall(o, 8, TRUE,
    Finish(fr.val, MARU_SYMBOL,
           [Mem1(o, 8) EXCEPT ![fr.val.obj][2] = Ptr(o), ![o][1] = Str(fr.nm)],
           Kind1(o)))

(* maru_make_array(size): val, arr = gc_malloc(16), elems =               *)
(* gc_malloc(8 * cap) with cap = size ? size : 1; val->data = arr;        *)
(* arr->size = size; arr->capacity = cap; arr->elements = elems; memset.  *)
Arr1 == At("arr1") /\ \E o \in Returned :
  GcCall(o, 16, FALSE, Then("val", o, Tagged(o, 16, MARU_ARRAY), "arr2"))
Arr2 == At("arr2") /\ \E o \in Returned :
  GcCall(o, 16, FALSE, Then("o2", o, Mem1(o, 16), "arr3"))
Arr3 == At("arr3") /\
  LET cap == IF fr.n # 0 THEN fr.n ELSE 1 IN
  \E o \in Returned :
    GcCall(o, 8 * cap, FALSE,
      Finish(fr.val, MARU_ARRAY,
             [Mem1(o, 8 * cap) EXCEPT ![fr.val.obj][2] = fr.o2,
                                      ![fr.o2.obj][1] = Raw(fr.n, cap),
                                      ![fr.o2.obj][2] = Ptr(o)], Kind1(o)))

(* maru_make_env(parent, level, offset): env = maru_alloc(MARU_ENV, 40);  *)
(* data = env; then the MEnv fields are written from the object's start:  *)
(* parent over the tag, level and offset over data.  A parent's level is  *)
(* read through its data as an MEnv; if data is not an address the read   *)
(* faults.  Then bindings = maru_make_array(0).                           *)
Env1 == At("env1") /\ \E o \in Returned :
  GcCall(o, 40, FALSE,
    LET p   == fr.h
        pd  == SlotW(p, 2)
        lvl == IF p # Nil THEN Lo(SlotW(pd, 2)) + fr.n ELSE 0
        m   == [Tagged(o, 40, MARU_ENV) EXCEPT ![o][2] = Ptr(o), ![o][1] = p,
                                              ![o][2] = Raw(lvl, fr.m)]
    IN IF p # Nil /\ ~IsPtr(pd)
       THEN /\ fatal' = "segfault" /\ mem' = m /\ kind' = Kind1(o)
            /\ UNCHANGED <<glob, loc, pc, fr>>
       ELSE /\ mem' = m /\ kind' = Kind1(o) /\ fatal' = fatal
            /\ fr' = [fr EXCEPT !.e = Ptr(o), !.k = "env", !.n = 0]
            /\ pc' = "arr1"
            /\ UNCHANGED <<glob, loc>>)

(* maru_make_variable(name, value, env, index): var =                      *)
(* maru_alloc(MARU_VARIABLE, 48); data = var; then name over the tag,     *)
(* value over data, env, index.                                            *)
Var1 == At("var1") /\ \E o \in Returned :
  GcCall(o, 48, FALSE,
    Finish(Ptr(o), MARU_VARIABLE,
           [Tagged(o, 48, MARU_VARIABLE) EXCEPT ![o][2] = Ptr(o), ![o][1] = fr.h,
                                               ![o][2] = fr.t, ![o][3] = fr.e,
                                               ![o][4] = Raw(fr.n, 0)],
           Kind1(o)))

(* Variant: the search stops one element short.                            *)
SearchRange_oneShort(len) == 0 .. len - 2
(* The indices maru_intern's loop compares: 0 <= i < len.                  *)
SearchRange(len) == 0 .. len - 1

(* maru_intern(name): search symbols for a symbol of that name and return  *)
(* the first; otherwise make one, then maru_array_set(symbols, len, sym).  *)
Intern == At("intern") /\
  LET sy   == glob["symbols"]
      len  == ArrSize(sy)
      hits == {i \in SearchRange(len) : SymbolName(ArrayAt(sy, i)) = fr.nm}
  IN /\ IF hits # {}
        THEN LET i == CHOOSE j \in hits : \A x \in hits : j <= x
             IN Store(fr.dest, ArrayAt(sy, i)) /\ pc' = "idle" /\ fr' = NoFrame
        ELSE /\ pc' = "sym1" /\ fr' = [fr EXCEPT !.n = len, !.k = "intern"]
             /\ UNCHANGED <<glob, loc>>
     /\ UNCHANGED <<heapVars, rooted, fatal, calls>>

(* Variant: memcpy carries one element fewer than arr->size.               *)
Copied_oneShort(size) == size - 1
(* The elements memcpy carries into the grown array: arr->size.            *)
Copied(size) == size

(* maru_array_set(obj, idx, val) for an array and idx >= 0, after any      *)
(* growth: the size grows to idx + 1 if needed and elements[idx] = val.    *)
(* The call returns to the program, or maru_intern returns the symbol.     *)
SetDone(m, k, arr, cap) ==
  LET size == Lo(m[arr.obj][1])
      els  == m[arr.obj][2]
      m2   == [m EXCEPT ![arr.obj][1] = Raw(IF fr.n >= size THEN fr.n + 1 ELSE size, cap)]
  IN /\ mem' = IF IsPtr(els) THEN [m2 EXCEPT ![els.obj][fr.n + 1] = fr.t] ELSE m2
     /\ kind' = k /\ fatal' = fatal
     /\ IF fr.k = "intern" THEN Store(fr.dest, fr.t) ELSE UNCHANGED <<glob, loc>>
     /\ pc' = "idle" /\ fr' = NoFrame

(* Variant: the capacity is not doubled.                                   *)
NewCap_noDouble(idx, cap) == IF idx > cap THEN idx ELSE cap
(* new_cap = (idx > capacity ? idx : capacity) * 2.                        *)
NewCap(idx, cap) == (IF idx > cap THEN idx ELSE cap) * 2

(* maru_array_set: when idx >= capacity, new_elems = gc_malloc(8 *         *)
(* new_cap), memcpy arr->size elements, memset the rest, then elements and *)
(* capacity are replaced.                                                  *)
ASet == At("aset") /\
  LET a == fr.h
      arr == ArrOf(a)
      cap == ArrCap(a)
      newCap == NewCap(fr.n, cap)
  IN IF ~(TypeOf(a) = MARU_ARRAY /\ fr.n >= 0)
     THEN /\ IF fr.k = "intern" THEN Store(fr.dest, fr.t) ELSE UNCHANGED <<glob, loc>>
          /\ pc' = "idle" /\ fr' = NoFrame
          /\ UNCHANGED <<heapVars, rooted, fatal, calls>>
     ELSE IF ~IsPtr(arr)
     THEN /\ fatal' = "segfault"
          /\ UNCHANGED <<heapVars, glob, rooted, loc, pc, fr, calls>>
     ELSE IF fr.n >= cap
     THEN \E o \in Returned :
            GcCall(o, 8 * newCap, FALSE,
              LET m1   == Mem1(o, 8 * newCap)
                  old  == m1[arr.obj][2]
                  size == Lo(m1[arr.obj][1])
                  els  == [i \in 1 .. newCap |->
                             IF i <= Copied(size) THEN SlotW(old, i) ELSE Nil]
              IN SetDone([m1 EXCEPT ![o] = els, ![arr.obj][2] = Ptr(o)],
                         Kind1(o), arr, newCap))
     ELSE SetDone(mem, kind, arr, cap) /\ UNCHANGED <<free, atomic, allocCount, rooted, calls>>

-----------------------------------------------------------------------------
(* The program.  Its arguments are words it holds, nil or small longs;    *)
(* results go to a local or a global.  The heap is bounded: a call starts *)
(* only when the free objects cover every allocation it can make, where   *)
(* the code would grow the pool instead.                                   *)
Args  == {Nil} \cup ArgLongs \cup {loc[l] : l \in Locals} \cup {glob[g] : g \in Globals}
(* symbols is assigned once, by maru_init, and changed only by maru_intern. *)
Dests == Locals \cup (Globals \ {"symbols"})
ArrayDests == Dests \cup (IF glob["symbols"] = Nil THEN {"symbols"} ELSE {})
Need  == [cons |-> 2, string |-> 3, symbol |-> 2, array |-> 3, set |-> 1,
          env |-> 4, variable |-> 1, intern |-> 3]

Call(op, f, step) ==
  /\ pc = "idle" /\ fatal = "none"
  /\ op \in Ops /\ calls < MaxCalls
  /\ Cardinality(free) >= Need[op]
  /\ pc' = step /\ fr' = f /\ calls' = calls + 1
  /\ UNCHANGED <<heapVars, glob, rooted, fatal, loc>>

CallCons == \E h, t \in Args, d \in Dests :
  Call("cons", [NoFrame EXCEPT !.h = h, !.t = t, !.dest = d], "cons1")
CallString == \E n \in Lens, d \in Dests :
  Call("string", [NoFrame EXCEPT !.n = n, !.dest = d], "str1")
CallSymbol == \E nm \in Names, d \in Dests :
  Call("symbol", [NoFrame EXCEPT !.nm = nm, !.dest = d], "sym1")
CallArray == \E n \in Sizes, d \in ArrayDests :
  Call("array", [NoFrame EXCEPT !.n = n, !.dest = d], "arr1")
CallSet == \E a \in Args \ {glob["symbols"]}, v \in Args, i \in Indices :
  Call("set", [NoFrame EXCEPT !.h = a, !.n = i, !.t = v, !.k = "void"], "aset")
CallEnv == \E p \in Args, l, off \in Levels, d \in Dests :
  Call("env", [NoFrame EXCEPT !.h = p, !.n = l, !.m = off, !.dest = d], "env1")
CallVariable == \E nm, v, e \in Args, i \in Indices, d \in Dests :
  Call("variable", [NoFrame EXCEPT !.h = nm, !.t = v, !.e = e, !.n = i, !.dest = d], "var1")
CallIntern == \E nm \in Names, d \in Dests :
  Call("intern", [NoFrame EXCEPT !.nm = nm, !.dest = d], "intern")

(* gc_push_root with the address of g, as maru_init does after assigning g. *)
PushRoot(g) ==
  /\ pc = "idle" /\ fatal = "none"
  /\ g \notin rooted
  /\ rooted' = rooted \cup {g}
  /\ UNCHANGED <<heapVars, glob, fatal, loc, pc, fr, calls>>

Init ==
  /\ HeapInit
  /\ allocCount \in StartCounts
  /\ glob = [g \in Globals |-> Nil]
  /\ rooted = {}
  /\ fatal = "none"
  /\ loc = [l \in Locals |-> Nil]
  /\ pc = "idle" /\ fr = NoFrame /\ calls = 0

Next ==
  \/ CallCons \/ CallString \/ CallSymbol \/ CallArray \/ CallSet
  \/ CallEnv \/ CallVariable \/ CallIntern \/ \E g \in Globals : PushRoot(g)
  \/ Cons1 \/ Cons2 \/ Str1 \/ Str2 \/ Str3 \/ Sym1 \/ Sym2
  \/ Arr1 \/ Arr2 \/ Arr3 \/ Env1 \/ Var1 \/ Intern \/ ASet

Spec == Init /\ [][Next]_vars

-----------------------------------------------------------------------------
Steps == {"idle", "cons1", "cons2", "str1", "str2", "str3", "sym1", "sym2",
          "arr1", "arr2", "arr3", "env1", "var1", "intern", "aset"}

TypeOK ==
  /\ free \subseteq Objs
  /\ atomic \in [Objs -> BOOLEAN]
  /\ \A o \in Objs : mem[o] \in Seq([lo : Int, hi : Int] \cup [obj : Objs] \cup [str : Names])
  /\ kind \in [Objs -> {0, MARU_STRING, MARU_SYMBOL, MARU_PAIR, MARU_ARRAY, MARU_VARIABLE, MARU_ENV}]
  /\ rooted \subseteq Globals
  /\ pc \in Steps /\ calls \in 0 .. MaxCalls
  /\ fatal \in {"none", "segfault", "attempt to mark dead object", "segfault in gc_mark_and_trace"}

(* The words the program holds: its locals, the globals, and while a call *)
(* runs, the constructor's arguments and locals.                           *)
ProgWords ==
  {loc[l] : l \in Locals} \cup {glob[g] : g \in Globals}
  \cup (IF pc = "idle" THEN {} ELSE {fr.h, fr.t, fr.e, fr.val, fr.o2, fr.o3})

(***************************************************************************)
(* No object the program can still reach, from any word it holds and     *)
(* through any slot, has been freed: a collection inside a constructor    *)
(* never frees what the constructor or its caller is about to use.        *)
(***************************************************************************)
NoDanglingReference ==
  fatal = "none" => Reach(ProgWords, {}, FALSE) \cap free = {}

(***************************************************************************)
(* Everything the program can read from a rooted global is allocated: the *)
(* collector keeps whatever the evaluator reaches from the root table,    *)
(* through the pointers atomic objects hold as well.                       *)
(***************************************************************************)
RootedReachableLive ==
  fatal = "none" => Reach(RootWords, {}, FALSE) \cap free = {}

(***************************************************************************)
(* The collector only follows addresses of objects: no slot of a traced   *)
(* object and no root holds an even, nonzero word that is not a pointer   *)
(* when gc_mark_and_trace reaches it.                                      *)
(***************************************************************************)
TraceFollowsAddresses == fatal # "segfault in gc_mark_and_trace"

(***************************************************************************)
(* Every value a constructor has returned answers maru_type_of with the   *)
(* tag its constructor gave it, as long as it is allocated: maru_pair_p,  *)
(* maru_variable_p and the others recognise what was built.                *)
(***************************************************************************)
TypeTagsHold ==
  \A o \in Objs : o \notin free /\ kind[o] # 0 => TypeOf(Ptr(o)) = kind[o]

(* The symbol table as SymbolTable sees it: the names and the symbols of  *)
(* the elements of symbols, in order.                                      *)
SymbolTableAbs == INSTANCE SymbolTable WITH
  names <- [i \in 1 .. ArrSize(glob["symbols"]) |->
              SymbolName(ArrayAt(glob["symbols"], i - 1))],
  syms  <- [i \in 1 .. ArrSize(glob["symbols"]) |-> ArrayAt(glob["symbols"], i - 1)],
  Syms  <- {Ptr(o) : o \in Objs}

(***************************************************************************)
(* maru_intern, with maru_make_symbol and maru_array_set under it,         *)
(* implements SymbolTable: the table only ever grows by one fresh symbol   *)
(* of a name it does not hold, and no entry is lost, moved or renamed,     *)
(* whatever the program calls in between.                                  *)
(***************************************************************************)
ImplementsSymbolTable == SymbolTableAbs!Spec

(***************************************************************************)
(* maru_array_set(obj, idx, val) on an array stores val at idx and keeps   *)
(* every other element below the old size, across growth of the elements.  *)
(***************************************************************************)
ArraySetStores ==
  [][ pc = "aset" /\ fatal' = "none" /\ TypeOf(fr.h) = MARU_ARRAY /\ fr.n >= 0 =>
      \A a \in {fr.h}, idx \in {fr.n}, v \in {fr.t}, size \in {ArrSize(fr.h)} :
        /\ ArrayAt(a, idx)' = v
        /\ \A i \in 0 .. size - 1 : i # idx => ArrayAt(a, i)' = ArrayAt(a, i) ]_vars
==============================================================================
