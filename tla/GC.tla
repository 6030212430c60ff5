--------------------------------- MODULE GC ---------------------------------
(***************************************************************************)
(* src/test-gc.c as it runs on a 64-bit little-endian build: the block     *)
(* pool and chunk chain, gc_malloc (scan, coalesce, split, grow), the      *)
(* collector gc_gcollect (gc_mark_and_trace, gc_sweep), the root table,    *)
(* and the host program main / make_list / make_cell that drives them.     *)
(*                                                                         *)
(* Memory is modelled byte by byte: mem maps every address of the blocks   *)
(* malloc has returned to the byte stored there.  A header is the struct   *)
(* _3cheader_3e laid out by the compiler: int32 size at offset 0, int32    *)
(* flags at 4, the 8-byte pointer next at 8.  The code adds and subtracts  *)
(* the header as 16 bytes in its size arithmetic, but forms the object     *)
(* address as the chunk address plus one byte and writes the object at    *)
(* that address, so the header fields and the object overlap.             *)
(*                                                                         *)
(* A read or a write of an address outside every block ends the process   *)
(* ("segfault"): the addresses it meets in practice are 0 and small        *)
(* offsets from it.  fatal() ends it with its reason.  The bytes of a new  *)
(* block are taken to be 0; no step reads a byte the program has not       *)
(* written before the process ends.                                        *)
(***************************************************************************)
EXTENDS Integers, Sequences, FiniteSets, Bitwise, TLC

CONSTANTS
  BlockAddrs,   \* addresses malloc may return for a block (16-aligned)
  MinBlock,     \* new_memory_block(59392) in gc_initialise; the grow minimum
  Threshold,    \* gc_alloc_count at which gc_malloc collects: 32768
  ListLength,   \* make_list(256) in main
  Iterations,   \* the 10000 iterations of main's loop
  MaxBlocks,    \* blocks malloc hands out before it returns NULL
  MaxRoots      \* depth of the root table (bound of RootStack)

ASSUME /\ BlockAddrs \subseteq Nat \ {0} /\ \A a \in BlockAddrs : a % 16 = 0
       /\ MinBlock \in Nat /\ MinBlock > 40 /\ Threshold \in Nat
       /\ ListLength \in Nat \ {0} /\ Iterations \in Nat
       /\ MaxBlocks \in Nat /\ MaxRoots \in Nat

VARIABLES
  mem,         \* address -> byte, over the blocks malloc has returned
  blocks,      \* block address -> size requested from malloc
  base,        \* gc_memory_base
  last,        \* gc_memory_last
  allocCount,  \* gc_alloc_count
  roots,       \* the root table: names of the locals whose address it holds
  fatal,       \* "none", or how the process ended
  pc,          \* where the program is
  i,           \* main's loop counter v_i
  k,           \* v_size of the make_list frame that is building its cell
  obj,         \* main's local v_obj
  list,        \* v_list of that make_list frame
  size,        \* gc_malloc's v_size once rounded
  first,       \* gc_malloc's v_first
  chunk,       \* gc_malloc's v_chunk
  ret          \* the object gc_malloc returned to make_cell

vars == <<mem, blocks, base, last, allocCount, roots, fatal, pc, i, k, obj,
          list, size, first, chunk, ret>>

HDR == 16                     \* the header size the code's arithmetic uses
SIZE == 0
FLAGS == 4
NEXT == 8
log2SizeofLong == 3           \* v_log2_2dsizeof_2dlong, set in main

-----------------------------------------------------------------------------
(* Bytes.  Integers and pointers are stored little-endian.  Every value   *)
(* the program stores is a non-negative number below 2^31, so only its    *)
(* four low bytes can be non-zero.                                         *)
Mapped(a, n) == \A x \in a .. a + n - 1 : x \in DOMAIN mem

RECURSIVE LE(_, _, _)
LE(m, a, n) == IF n = 0 THEN 0 ELSE m[a] + 256 * LE(m, a + 1, n - 1)

(* An int32 field: the fourth byte carries the sign.                       *)
I32(m, a) == LE(m, a, 3) + 2^24 * (IF m[a + 3] >= 128 THEN m[a + 3] - 256
                                                     ELSE m[a + 3])
ByteOf(v, j) == IF j >= 4 THEN 0 ELSE (v \div 2^(8 * j)) % 256
Put(m, a, n, v) ==
  [x \in DOMAIN m |-> IF x \in a .. a + n - 1 THEN ByteOf(v, x - a) ELSE m[x]]
(* memset(a, 0, n)                                                         *)
Zero(m, a, n) == [x \in DOMAIN m |-> IF x \in a .. a + n - 1 THEN 0 ELSE m[x]]

SizeOf(m, c)  == I32(m, c + SIZE)
FlagsOf(m, c) == I32(m, c + FLAGS)
NextOf(m, c)  == LE(m, c + NEXT, 8)

(* The result of a call that may end the process.                          *)
Ok(m) == [mem |-> m, fault |-> "none"]
Dies(m, why) == [mem |-> m, fault |-> why]

-----------------------------------------------------------------------------
(***************************************************************************)
(* gc_mark_and_trace, depth first.  todo holds the calls still to make,   *)
(* the next one first: [val |-> w] traces the word w; [slot |-> a] reads   *)
(* the word at a (slot i of the object) and traces it.  A word is followed *)
(* when it is neither 0 nor odd; its header is the byte before it.        *)
(***************************************************************************)
RECURSIVE Trace(_, _)
Trace(m, todo) ==
  IF todo = <<>> THEN Ok(m)
  ELSE LET t == Head(todo) IN
    IF "slot" \in DOMAIN t
    THEN IF Mapped(t.slot, 8)
         THEN Trace(m, <<[val |-> LE(m, t.slot, 8)]>> \o Tail(todo))
         ELSE Dies(m, "segfault")
    ELSE IF t.val = 0 \/ t.val % 2 = 1 THEN Trace(m, Tail(todo))
    ELSE LET p == t.val - 1 IN
      IF ~Mapped(p, 8) THEN Dies(m, "segfault")
      ELSE LET fl == FlagsOf(m, p) IN
        IF fl & 1 = 0 THEN Dies(m, "attempt to mark dead object")
        ELSE IF fl & 4 # 0 THEN Trace(m, Tail(todo))
        ELSE LET m2 == Put(m, p + FLAGS, 4, fl | 4)
                 n  == shiftR(SizeOf(m2, p), log2SizeofLong)
                 slots == [j \in 1 .. n |-> [slot |-> t.val + 8 * (n - j)]]
             IN IF fl & 2 # 0 THEN Trace(m2, Tail(todo))
                ELSE Trace(m2, slots \o Tail(todo))

(* The value of a local whose address is in the root table.               *)
Local(name) == IF name = "obj" THEN obj ELSE list

(* gc_sweep: from gc_memory_base, clear the mark of a marked chunk and     *)
(* free any other, until next leads back to the base or is 0.  Meeting a   *)
(* chunk a second time without passing the base is a loop that never ends. *)
RECURSIVE SweepFrom(_, _, _)
SweepFrom(m, p, seen) ==
  IF p = 0 THEN Ok(m)
  ELSE IF p \in seen THEN Dies(m, "gc_sweep never returns")
  ELSE IF ~Mapped(p, HDR) THEN Dies(m, "segfault")
  ELSE LET fl == FlagsOf(m, p)
           m2 == Put(m, p + FLAGS, 4, IF fl & 4 # 0 THEN fl ^^ 4 ELSE 0)
           nx == NextOf(m2, p)
       IN IF nx = base THEN Ok(m2) ELSE SweepFrom(m2, nx, seen \cup {p})

(* gc_gcollect: trace the value of every root, oldest first, then sweep.   *)
(* It resets gc_alloc_count; its statistics only feed printf.              *)
GCollect(m) ==
  LET marked == Trace(m, [j \in 1 .. Len(roots) |-> [val |-> Local(roots[j])]])
  IN IF marked.fault # "none" THEN marked ELSE SweepFrom(marked.mem, base, {})

-----------------------------------------------------------------------------
(***************************************************************************)
(* new_memory_block(n): malloc(n), fatal on NULL, then a single free chunk *)
(* of n - 16 bytes whose next is itself.  Malloc may place the block at    *)
(* any of BlockAddrs clear of the blocks it already handed out.            *)
(***************************************************************************)
FreeAddrs(n) ==
  { a \in BlockAddrs :
      \A b \in DOMAIN blocks : a + n <= b \/ b + blocks[b] <= a }
NewBlock(m, a, n) ==
  Put(Put(Put([x \in DOMAIN m \cup (a .. a + n - 1) |->
                 IF x \in DOMAIN m THEN m[x] ELSE 0],
              a + SIZE, 4, n - HDR), a + FLAGS, 4, 0), a + NEXT, 8, a)
MallocFails == Cardinality(DOMAIN blocks) = MaxBlocks

Running == fatal = "none"
Ends(why) == /\ fatal' = why
             /\ UNCHANGED <<mem, blocks, base, last, allocCount, roots, pc, i,
                            k, obj, list, size, first, chunk, ret>>

(* gc_initialise: the first block is gc_memory_base and gc_memory_last.    *)
Initialise ==
  /\ Running /\ pc = "init"
  /\ \/ MallocFails /\ Ends("out of memory")
     \/ /\ ~MallocFails
        /\ \E a \in FreeAddrs(MinBlock) :
             /\ mem' = NewBlock(mem, a, MinBlock)
             /\ blocks' = a :> MinBlock
             /\ base' = a /\ last' = a
        /\ pc' = "push_obj"
        /\ UNCHANGED <<allocCount, roots, fatal, i, k, obj, list, size, first,
                       chunk, ret>>

-----------------------------------------------------------------------------
(***************************************************************************)
(* gc_malloc(8), called by make_cell: round the size to 4, collect first   *)
(* when gc_alloc_count has reached the threshold, and start the scan at    *)
(* gc_memory_last->next.                                                   *)
(***************************************************************************)
RoundUp(n) == ((n + 3) \div 4) * 4
MallocEnter ==
  /\ Running /\ pc = "make_cell"
  /\ LET c == IF allocCount = Threshold THEN GCollect(mem) ELSE Ok(mem)
     IN \/ c.fault # "none" /\ Ends(c.fault)
        \/ c.fault = "none" /\ ~Mapped(last + NEXT, 8) /\ Ends("segfault")
        \/ /\ c.fault = "none" /\ Mapped(last + NEXT, 8)
           /\ mem' = c.mem
           /\ allocCount' = IF allocCount = Threshold THEN 0 ELSE allocCount
           /\ size' = RoundUp(8)
           /\ first' = NextOf(c.mem, last)
           /\ chunk' = NextOf(c.mem, last)
           /\ pc' = "scan"
           /\ UNCHANGED <<blocks, base, last, roots, fatal, i, k, obj, list,
                          ret>>

(* One pass of the scan at v_chunk reads its header, and for a free chunk  *)
(* the flags of its successor; any of them may lie outside the blocks.     *)
Succ == NextOf(mem, chunk)
ScanFaults ==
  IF ~Mapped(chunk, HDR) THEN TRUE
  ELSE FlagsOf(mem, chunk) = 0 /\ ~Mapped(Succ + FLAGS, 4)
IsFree == FlagsOf(mem, chunk) = 0
(* The coalescing test: the successor is free and starts one byte after   *)
(* the chunk.                                                              *)
CanCoalesce == IsFree /\ FlagsOf(mem, Succ) = 0 /\ Succ = chunk + 1
Fits == LET csize == SizeOf(mem, chunk) IN size + HDR < csize \/ size = csize
Passes == ~IsFree \/ (~CanCoalesce /\ ~Fits)

ScanFault ==
  /\ Running /\ pc = "scan" /\ ScanFaults
  /\ Ends("segfault")

(* Merge the successor into the chunk; gc_memory_last follows.             *)
Coalesce ==
  /\ Running /\ pc = "scan" /\ ~ScanFaults /\ CanCoalesce
  /\ mem' = Put(Put(mem, chunk + NEXT, 8, NextOf(mem, Succ)), chunk + SIZE, 4,
                SizeOf(mem, chunk) + HDR + SizeOf(mem, Succ))
  /\ last' = IF Succ = last THEN chunk ELSE last
  /\ UNCHANGED <<blocks, base, allocCount, roots, fatal, pc, i, k, obj, list,
                 size, first, chunk, ret>>

(* Split off the rest when the chunk is larger than size + 16, set the     *)
(* flags to 1, make the chunk gc_memory_last, and return chunk + 1 byte    *)
(* after memset(chunk + 1, 0, csize).                                      *)
Split(m) ==
  LET csize == SizeOf(m, chunk)
      split == chunk + size + HDR
  IN Put(Put(Put(Put(Put(m, split + SIZE, 4, csize - (size + HDR)),
                         split + FLAGS, 4, 0),
                     split + NEXT, 8, NextOf(m, chunk)),
                 chunk + SIZE, 4, size),
             chunk + NEXT, 8, split)
Splits == SizeOf(mem, chunk) > size + HDR
Allocate ==
  /\ Running /\ pc = "scan" /\ ~ScanFaults /\ IsFree /\ ~CanCoalesce /\ Fits
  /\ LET m1 == IF Splits THEN Split(mem) ELSE mem
         csize == SizeOf(m1, chunk)
         m2 == Put(m1, chunk + FLAGS, 4, 1)
     IN \/ /\ ~(Splits => Mapped(chunk + size + HDR, HDR))
           /\ Ends("segfault")
        \/ /\ Splits => Mapped(chunk + size + HDR, HDR)
           /\ ~Mapped(chunk + 1, csize) /\ Ends("segfault")
        \/ /\ Splits => Mapped(chunk + size + HDR, HDR)
           /\ Mapped(chunk + 1, csize)
           /\ mem' = Zero(m2, chunk + 1, csize)
           /\ last' = chunk
           /\ allocCount' = allocCount + 1
           /\ ret' = chunk + 1
           /\ pc' = "cell_fields"
           /\ UNCHANGED <<blocks, base, roots, fatal, i, k, obj, list, size,
                          first, chunk>>

(* Move on while the next chunk is not v_first.                            *)
Advance ==
  /\ Running /\ pc = "scan" /\ ~ScanFaults /\ Passes /\ Succ # first
  /\ chunk' = Succ
  /\ UNCHANGED <<mem, blocks, base, last, allocCount, roots, fatal, pc, i, k,
                 obj, list, size, first, ret>>

(* Back at v_first: gc_grow_memory(max(16 + size, 59392)) links a new      *)
(* block in after gc_memory_last, and the scan goes on at v_first.         *)
Max2(a, b) == IF a >= b THEN a ELSE b
Grow ==
  /\ Running /\ pc = "scan" /\ ~ScanFaults /\ Passes /\ Succ = first
  /\ LET n == Max2(HDR + size, MinBlock) IN
     \/ MallocFails /\ Ends("out of memory")
     \/ /\ ~MallocFails /\ ~Mapped(last + NEXT, 8)
        /\ \E a \in FreeAddrs(n) : Ends("segfault")
     \/ /\ ~MallocFails /\ Mapped(last + NEXT, 8)
        /\ \E a \in FreeAddrs(n) :
             LET m1 == NewBlock(mem, a, n)
                 m2 == Put(m1, a + NEXT, 8, NextOf(m1, last))
             IN /\ mem' = Put(m2, last + NEXT, 8, a)
                /\ blocks' = blocks @@ (a :> n)
        /\ chunk' = first
        /\ UNCHANGED <<base, last, allocCount, roots, fatal, pc, i, k, obj,
                       list, size, first, ret>>

-----------------------------------------------------------------------------
(***************************************************************************)
(* The host program.  main roots &obj and sets obj = make_list(256) in     *)
(* each iteration.  make_list(n) first returns down to make_list(0), which *)
(* returns 0 without a call into the collector; on the way back the frame  *)
(* of size k roots &list, sets list = make_cell(1 | k << 1, list), unroots *)
(* it and returns list to the frame of size k + 1.  One frame's list is    *)
(* live at a time, so one variable holds it.  make_cell writes the int32   *)
(* head at offset 0 and the tail pointer at offset 8 of the cell.          *)
(***************************************************************************)
Roots == INSTANCE RootStack WITH stack <- roots, Vars <- {"obj", "list"}

ProgramUnchanged == UNCHANGED <<mem, blocks, base, last, allocCount, size,
                                first, chunk, ret>>

PushObj ==
  /\ Running /\ pc = "push_obj"
  /\ Roots!Push("obj")
  /\ obj' = 0 /\ i' = 0 /\ pc' = "loop"
  /\ UNCHANGED <<k, list>> /\ ProgramUnchanged

(* The loop test; the info() call every tenth iteration only prints.       *)
LoopTest ==
  /\ Running /\ pc = "loop"
  /\ \/ i < Iterations /\ k' = 1 /\ list' = 0 /\ pc' = "push_list"
     \/ i >= Iterations /\ pc' = "collect_end" /\ UNCHANGED <<k, list>>
  /\ UNCHANGED <<i, obj, roots, fatal>> /\ ProgramUnchanged

PushList ==
  /\ Running /\ pc = "push_list"
  /\ Roots!Push("list")
  /\ pc' = "make_cell"
  /\ UNCHANGED <<i, k, obj, list>> /\ ProgramUnchanged

(* cell->head = 1 | k << 1; cell->tail = list; list = cell.                *)
CellFields ==
  /\ Running /\ pc = "cell_fields"
  /\ \/ ~Mapped(ret, 16) /\ Ends("segfault")
     \/ /\ Mapped(ret, 16)
        /\ mem' = Put(Put(mem, ret, 4, 1 + 2 * k), ret + 8, 8, list)
        /\ list' = ret
        /\ pc' = "pop_list"
        /\ UNCHANGED <<blocks, base, last, allocCount, roots, fatal, i, k,
                       obj, size, first, chunk, ret>>

(* gc_pop_root(&list), then return list to the frame above, or to main.    *)
PopList ==
  /\ Running /\ pc = "pop_list"
  /\ Roots!Pop("list")
  /\ \/ k < ListLength /\ k' = k + 1 /\ pc' = "push_list" /\ UNCHANGED <<i, obj>>
     \/ k = ListLength /\ obj' = list /\ i' = i + 1 /\ pc' = "loop"
        /\ UNCHANGED k
  /\ UNCHANGED list /\ ProgramUnchanged

(* gc_gcollect called by main after its loop and again before it returns. *)
Collect(at, then) ==
  /\ Running /\ pc = at
  /\ LET c == GCollect(mem) IN
     \/ c.fault # "none" /\ Ends(c.fault)
     \/ /\ c.fault = "none"
        /\ mem' = c.mem /\ allocCount' = 0 /\ pc' = then
        /\ UNCHANGED <<blocks, base, last, roots, fatal, i, k, obj, list,
                       size, first, chunk, ret>>

PopObj ==
  /\ Running /\ pc = "pop_obj"
  /\ Roots!Pop("obj")
  /\ pc' = "collect_exit"
  /\ UNCHANGED <<i, k, obj, list>> /\ ProgramUnchanged

(* main has returned 0, or the process has ended: nothing changes.         *)
Terminated ==
  /\ pc = "done" \/ fatal # "none"
  /\ UNCHANGED vars

-----------------------------------------------------------------------------
Init ==
  /\ mem = <<>> /\ blocks = <<>>
  /\ base = 0 /\ last = 0 /\ allocCount = 0 /\ roots = <<>>
  /\ fatal = "none" /\ pc = "init"
  /\ i = 0 /\ k = 0 /\ obj = 0 /\ list = 0
  /\ size = 0 /\ first = 0 /\ chunk = 0 /\ ret = 0

Next ==
  \/ Initialise \/ PushObj \/ LoopTest \/ PushList
  \/ MallocEnter \/ ScanFault \/ Coalesce \/ Allocate \/ Advance \/ Grow
  \/ CellFields \/ PopList
  \/ Collect("collect_end", "pop_obj") \/ PopObj
  \/ Collect("collect_exit", "done")
  \/ Terminated

(* One thread runs the program; it takes every step it can.                *)
Spec == Init /\ [][Next]_vars /\ WF_vars(Next)
==============================================================================
