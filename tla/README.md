# TLA+ models of the maru memory manager and value representation

This directory holds TLA+ specifications of the garbage-collected object
runtime in `src/`, together with the TLC configurations that check them. The
parts modelled are:

- the mark-and-sweep memory manager of `src/test-gc.c`: the block pool, the allocator, the collector and the root table. It is modelled byte by byte, as the 64-bit build lays it out;
- the test program of `src/test-gc.c` that drives it;
- the tagged-integer encodings of `src/eval.h` and `src/eval-k-generated.c`;
- the object constructors of `src/eval-k-generated.c` as clients of the collected heap that spec.md describes;
- the linked-list root stack of `src/test-gc-demo.c`;
- `utf8_strlen` of `src/utf8-minimal.c`, and the character helpers of `src/archive/experimental/utf8.c` that the UTF-8 tests include;
- the compiler self-test `src/maru-check.c`, interpreted statement by statement with C's integer semantics.

`PROJECT.json` lists every component, run, mutant, finding and hazard, and maps
each definition to the source lines it models.

## 1. The system

The runtime has five parts (spec.md, sections 2 to 4):

| Part | Code | State |
|---|---|---|
| Block pool | `gc_initialise`, `new_memory_block`, `gc_grow_memory` | malloc'd blocks; a circular chain of chunk headers (`size`, `flags`, `next`) through all of them; `gc_memory_base`, `gc_memory_last` |
| Allocator | `gc_malloc`, `gc_malloc_atomic` | the chain; `gc_alloc_count` |
| Collector | `gc_gcollect`, `gc_mark_and_trace`, `gc_sweep` | the mark bit (4) and the atomic bit (2) of the flags |
| Root table | `gc_push_root`, `gc_pop_root` | `gc_roots`, `gc_root_count`, `gc_root_max` |
| Tagged values | `newLong`/`getLong` (eval.h), `maru_make_long`/`maru_long_value` (eval-k-generated.c) | none: these are pure encodings |

The parts interact as follows:

- The program (in test-gc.c: `main`, `make_list`, `make_cell`) calls `gc_malloc`.
- When `gc_alloc_count` reaches the threshold (32768), `gc_malloc` first runs a whole collection.
- The collector marks everything reachable from the locals whose addresses are in the root table, then sweeps the chain.
- The program must push the address of every local that holds a heap reference across a call that may collect. It must pop it again in LIFO order.
- A failed check calls `fatal`, which exits the process.
- Everything runs on one thread, and nothing in it waits.

The hard behaviours are these:

- The allocator's scan changes the chain while it walks it. It merges chunks, splits them, and links in new blocks.
- A collection can run inside any allocation.
- The root protocol is a contract between the program and the collector that no single function checks.
- The byte arithmetic (header size, object offset, slot count, entry size) must agree with the layout of the build. In test-gc.c it does not: the object starts one byte after its chunk, and the header and the object overlap.

## 2. Modules

| Module | Models | Notes |
|---|---|---|
| `RootStack` | the contract of the root table: a LIFO of local addresses; pop fatals on underflow or on a non-LIFO pop | abstract |
| `RootTable` | `gc_push_root` / `gc_pop_root` over the malloc'd array, with the code's sizes of 4 bytes per entry | refines `RootStack` |
| `GC` | test-gc.c over byte-level memory: block pool, `gc_malloc`, collector, and the test program `main`/`make_list`/`make_cell`; it uses `RootStack` for the root table | |
| `MC_GC` | the properties of the GC runs | |
| `TaggedInt` | `newLong`/`getLong`/`getType`/`isLong` of eval.h, the `newLong` and `test_add` of test-gc-demo.c, and `maru_make_long`/`maru_long_value`, over W-bit words | pure operators, one-step machine |
| `DemoRoots` | `GC_push_root_simple`, `GC_pop_root_simple`, `GC_PROTECT`/`GC_UNPROTECT` of test-gc-demo.c | refines `RootStack` when clients are LIFO |
| `UTF8Codec` | `maru_utf8_char_length`, `maru_utf8_decode_char`, `maru_utf8_char_at`, `maru_utf8_char_to_codepoint`, `maru_get_script` and `strcmp` as operators, with reference definitions: well-formed UTF-8 (Unicode table 3-7), the encoder, code-point order | pure operators |
| `UTF8` | the loop of `utf8_strlen`, one iteration per step, over enumerated strings and the tables of the UTF-8 tests (test-utf8-validation.c, test-utf8.c, test-utf8-simple.c) | extends `UTF8Codec` |
| `MaruCheck` | `f_main` of maru-check.c and the tests it calls, as an interpreter of their statements over 8/16/32-bit C integers and a byte-addressed heap | |
| `EvalHeap` | the collected heap as eval-k-generated.c sees it: objects of 8-byte slots, `gc_malloc`/`gc_malloc_atomic` with the collection that spec.md (sections 4.2 to 4.4) describes | modelled from the spec |
| `EvalK` | the constructors and accessors of eval-k-generated.c, and the `gc_push_root` calls of `maru_init` | extends `EvalHeap`; refines `SymbolTable` |
| `SymbolTable` | the contract of `maru_intern`: a list of symbols, one per name, that only grows by a fresh symbol of a new name | abstract |
| `MC_EvalK` | constant definitions for the `EvalK` runs | |

### TaggedInt

- `x` is the long handed to the constructors. `oop`, `dl` and `mv` are the words that eval.h's `newLong`, test-gc-demo.c's `newLong` and `maru_make_long` return, or `NoWord` before the call. Each constructor is one action; `Done` is the state after all of them and `TestAdd`.
- A word is `[imm |-> n]` with `n` its W-bit signed value. `Shl1` wraps at W bits, and `Sar1` is the arithmetic shift of the build.
- A boxed `struct Long` is `Box(type, bits)`. eval.h's `newLong` writes only `bits`, so `NewLong` takes the type from `Leftover`, the values `GC_malloc_atomic` may leave there. test-gc-demo.c's `newBits(Long, ...)` writes `Long`.
- `getType` and `isLong` are the inline functions of eval.h, which read the type of a box.
- `TestAdd` is `test_add(big_num, newLong(1))` of `main`, generalised: the demo's word `dl` plus `newLong(y)` for `y` in `Addends`. The sum is computed on unboxed longs and wrapped at W bits. Past the long range the C addition is signed overflow, which is undefined; the build's add instruction wraps. `AddIsExact` only speaks of sums that are longs.

### DemoRoots

- `gc_roots` is the head of the list and `next` the `next` field of each `_sr_V` record. A record is named by its local.
- `Init` leaves `next` arbitrary: the records are uninitialised stack memory.
- `Protect(v)` is `GC_PROTECT(V)`, which calls `Push`. `Unprotect(v)` is `GC_UNPROTECT(V)` joined with the end of the block that declared `_sr_V`.
- `Pop` unlinks the record only if it is the head, as line 24 does.
- The list, read oldest first, is mapped to `RootStack`'s `stack`.

### UTF8

- `mem` is the string, its NUL, and `BeyondLen` bytes of whatever memory follows.
- `Iterate` is one pass of the `while (*s)` loop: `Skip` gives the step for the lead byte, and `len` goes up by one.
- `Return` is the loop test that reads the NUL.
- `Passed` is every string a run hands over: each enumerated string that is well formed, and the strings of the test tables of the suite `Suite` names.
  - `"validation"`: `test_vectors` (21 strings, with the edges U+007F to U+10FFFF and the lead 0xF4), `length_tests`, `collation_tests`, `norm_tests` and the string of `test_performance` of test-utf8-validation.c, and the strings test-utf8.c asserts on.
  - `"simple"`: the tables of test-utf8-simple.c, taken byte for byte from the file.
- `Tests` holds, for the suite, what each test function expects: the code point and length of `decode_char`, the count of `utf8_strlen`, the byte at `char_at`, the code point of `char_to_codepoint`, the sign of `compare_locale` and the script of `get_script`. Each test function's check of one row is an operator named after it (`test_utf8_decoding`, `test_string_length`, `test_collation`, `test_unicode_properties`, and `assert_char_at` and `assert_codepoint` for the asserts of test-utf8.c). `MeetsTestExpectations` is their conjunction over the suite's rows.
- The properties on `decode_char`, `char_at` and `strcmp` are invariants over `str` and `mem`. TLC evaluates them on every string passed.

### UTF8Codec

- `At(m, i)` reads a buffer and gives 0 past its end, like the NUL that follows a C string.
- `CharLength` and `DecodeChar` translate `maru_utf8_char_length` and the `switch` of `maru_utf8_decode_char`, including the `default` case (length 1, U+FFFD). A mask `& 0x3F` is written `% 64`, a shift `<< 6` is `* 64`, and `|` of disjoint fields is `+`. Every value involved is non-negative and below 2^21, so these are exact.
- `CharToCodepoint` is `maru_utf8_char_to_codepoint`. Unlike `decode_char` it has no invalid case: every lead from 0xF0 up is read as a four-byte one.
- `GetScript` is `maru_get_script`: the first of its half-open ranges that holds the code point, tried in the order of the code. Scripts are named by their enumerators without `SCRIPT_`.
- `CharAt(m, s, i, index)` is the `while (*s && i < index)` loop, with `s` and `i` as parameters. `StrCmp` is glibc `strcmp`, which compares bytes as `unsigned char` and returns a value whose sign is the order.
- `DecodeFrom` decodes a buffer up to its NUL, one `decode_char` at a time, as `test_utf8_decoding` does.
- `ValidUTF8` is the standard well-formedness, with no overlong forms, surrogates or values above U+10FFFF. `Encode`, `StartOf` and `SeqCmp` are the references the code is compared with.

### MaruCheck

maru-check.c is the C the maru compiler emits for its self-test. `f_main` calls nine test functions. Each of those is a straight sequence of integer assignments and `if (!(e)) { printf(...); exit(1); }` assertions, with a few loops, pointer stores and struct copies. The module interprets that code:

- The test bodies (`Conditionals`, `Calls`, `Bytes*`, `Words*`, `Ints*`, `Floats`, `Structs`, `Pointers`, `Forms`) are sequences of statement records. They are written one to one from the C: `Let` is an assignment with its declared type, `Assertion` an assertion with the `maru-check.k` line it reports, and `Store`/`Copy` are writes through a pointer. `Branch`/`Jump` are the loop and `if` edges.
- `pc` indexes the statement, `fn` the test `f_main` is running, `env` the locals, and `mem` the heap. `mem` is byte-addressed: a store of a `short` or an `int` writes 2 or 4 bytes in the order `LittleEndian` chooses.
- `Eval` evaluates an expression with C's semantics. `+ - *` wrap to 32 bits (`Add32`, `Mul32`), and the conversions to `char` and `short` wrap to 8 and 16 bits (`Conv`). `char` is signed or not according to `CharSigned`. `/` and `%` truncate toward zero (`Quot`, `Rem`), `<<` wraps and `>>` is arithmetic (`Shl`, `Sar`), and `& | ^` act on two's complement.
- TLC's integers are 32 bits, so every wrap is computed without leaving that range. A `long` literal above 2^31 is written `Wide(hi, lo)`.
- Recursive operators bind their arguments once, with `Pick({F(x) : x \in {e}})`. This keeps the evaluation of `ENABLED` under fairness linear.
- `DoAssert` either passes or ends the program with `status = "exit"` and the reported line. `DoStore` through the null pointer ends it with `"segv"`.
- `DoMalloc` returns a fresh object, or `Null` when `MallocMayFail`.

### EvalHeap and EvalK

- eval-k-generated.c declares `gc_malloc`, `gc_malloc_atomic`, `gc_push_root` and `gc_pop_root` extern. In this repository it is linked only with `src/test-eval-k-generated.c`, whose stubs are `calloc(1, size)` and no-ops. They never collect, and the pass run `evalk` (threshold 32768) sees the same heap.
- test-gc.c cannot stand in for them: its functions are `static` (`f_gc__malloc`, reached through `v_gc__malloc`), and it hands out odd addresses, which `maru_type_of` would read as tagged longs. So the collection in `EvalHeap` is the one spec.md describes for this interface, and `PROJECT.json` marks those definitions `spec_modelled`.
- A heap word is `Raw(lo, hi)`, `Ptr(o)` or `Str(n)` (a `strdup`'d C string).
- An object is a sequence of slots. `struct MValue` puts the int32 tag in slot 1 and `data` in slot 2.
- Marking (`Reach` with `byCollector`) follows what spec.md section 4.4 follows: words that are neither null nor odd, and not into atomic objects. `SlotsOf` rounds a size up to the pointer size.
- A collection that reaches a freed object or a word that is not an address ends the process (`CollectFaults`).
- Each `gc_malloc` call of a constructor is one step (`Cons1`, `Cons2`, `Str1`...`Str3`, `Sym1`, `Sym2`, `Arr1`...`Arr3`, `Env1`, `Var1`, `ASet`). The step includes the collection, when `gc_alloc_count` has reached the threshold, and the constructor's code up to its next call.
- The constructor's C locals (`val`, `pair`, `arr`, ...) are in `fr`. They are not roots.
- `Intern` is the search loop of `maru_intern`. It continues into `maru_make_symbol` and `maru_array_set`.
- The program calls any constructor (`Call*`) with words it holds, and may root a global (`PushRoot`) as `maru_init` does.
- `symbols` is assigned once, by `maru_make_array`, as in `maru_init`. After that, only `maru_intern` changes it.
- `SymbolTableAbs` is the refinement mapping to `SymbolTable`: `names` and `syms` are `maru_symbol_name` and `maru_array_at` of elements 0 .. len-1 of `symbols`. Every step of `EvalK` must be a stutter or one `SymbolTable!Intern`, so a lost, moved or renamed entry, or a second symbol of a name, is a violation.
- `gc_malloc` returns either a fixed object that was already free or one the collection has just freed. Chunk placement is left out.

### GC

`GC` is test-gc.c as it runs when built for x86-64 (LP64, little-endian), down to the byte.

State:

| Variable | Holds |
|---|---|
| `mem` | address ↦ byte, over the blocks malloc has returned |
| `blocks` | block address ↦ size asked of malloc |
| `base`, `last` | `gc_memory_base`, `gc_memory_last` |
| `allocCount` | `gc_alloc_count` |
| `roots` | the root table, as the sequence of the locals whose address it holds (`"obj"`, `"list"`) |
| `fatal` | `"none"`, the reason given to `fatal()`, `"segfault"`, or `"gc_sweep never returns"` |
| `pc`, `i`, `k`, `obj`, `list` | the program: where it is, main's `v_i` and `v_obj`, and the `v_size` and `v_list` of the `make_list` frame at work |
| `size`, `first`, `chunk`, `ret` | the `gc_malloc` call in progress, and the object it returned |

A header is read and written as the compiler lays out `struct _3cheader_3e`. The fields are `int32 size` at offset 0, `int32 flags` at 4 and the pointer `next` at 8, all little-endian (`SizeOf`, `FlagsOf`, `NextOf`, `Put`). The code adds and subtracts 16 for the header in its size arithmetic. But it forms the object as `(void *)chunk + 1`, one byte (line 210), and finds the header of an object one byte before it (lines 148, 285, 373). The model does exactly that, so the object's bytes overlap the header's.

An access outside every block ends the process as `"segfault"`. A fresh block's bytes start at 0. No step reads a byte that the program has not written before the process ends.

Actions:

- `Initialise` is `gc_initialise`, that is `new_memory_block(59392)` at an address malloc may return (`BlockAddrs`).
- `PushObj`, `LoopTest`, `PushList`, `CellFields`, `PopList`, `Collect(..)`, `PopObj` and `Terminated` are the statements of `main`, `make_list` and `make_cell`. `make_list(n)` first recurses down to `make_list(0)`, which returns 0 without touching the heap. On the way back, frame k roots `&list`, calls `make_cell(1 | k << 1, list)`, unroots and returns. `CellFields` writes `head` (4 bytes at the object) and `tail` (8 bytes at the object + 8).
- `MallocEnter` is the entry of `gc_malloc(8)`. It rounds the size, collects when `gc_alloc_count` equals the threshold, and reads `v_first = gc_memory_last->next`.
- Each pass of the scan loop is one step:
  - `Coalesce`: the successor is free and starts at the chunk + 1 byte (line 177);
  - `Allocate`: the fit test, the split (lines 193-203), flags 1, `gc_memory_last`, then `memset(chunk + 1, 0, csize)` (line 211), the count, and the return of chunk + 1;
  - `Advance`;
  - `Grow`: `gc_grow_memory(max(16 + size, 59392))`, with `new_memory_block`'s out-of-memory fatal;
  - `ScanFault`: the header to read lies outside the blocks.
- `GCollect` is a whole collection, computed in one step. `Trace` is `gc_mark_and_trace`, depth first in the code's order (slots from the last down), reading each slot when the code reads it. `SweepFrom` is `gc_sweep`'s walk from the base.

`Spec` is the program from `main`'s first statement, with `WF_vars(Next)`.

## 3. Runs

| Run | cfg | Result | What it shows |
|---|---|---|---|
| gc_chain | `MC_GC_chain.cfg` | violation | `ChainIsCycle`: the chain from the base is a cycle of headers inside the blocks, and each chunk's size agrees with the gap to its successor. The first `gc_malloc` breaks it. The memset from chunk + 1 byte clears the new chunk's flags (1 becomes 0) and the low byte of its `next` |
| gc_main | `MC_GC_main.cfg` | violation | `MainReturns`: the program runs to its `return 0`. It does not: `make_cell`'s `tail` (0) lands on bytes 9-16 of the header, so `next` becomes 0, and the second `gc_malloc` reads the header at address 0 |
| root_table | `MC_RootTable.cfg` | pass | `WithinBuffer` and `ImplementsRootStack`: with 4-byte pointers the array refines `RootStack` through three growths |
| root_table_64bit | `MC_RootTable_64.cfg` | violation | `ImplementsRootStack`: with 8-byte entries, growth copies half of the table |
| tagged_longs | `MC_TaggedInt.cfg` | pass (6144 states) | `LongRoundTrip` and `BoxOnlyWhenNeeded` for both copies of `newLong`, over every 8-bit long; `AddIsExact`: `test_add` gives the exact sum, boxed exactly when it needs a box, across tagged and boxed operands |
| demo_roots | `MC_DemoRoots.cfg` | pass (142 states) | `NoDeadRootInChain` and `ImplementsRootStack`: with LIFO clients the list is the abstract stack |
| utf8_valid | `MC_UTF8.cfg` | pass (5392 states, about 1.5 minutes) | Over every well-formed string of up to 5 bytes and the strings of test-utf8-validation.c and test-utf8.c: `NoReadPastTerminator` and `CountsCodePoints` for `utf8_strlen`; `DecodeRoundTrip`: `decode_char` inverts the encoding; `IndexingFindsCharacters`: `char_at(s, k)` is the k-th character's first byte, or the NUL, and `char_to_codepoint` there reads that character; `ByteOrderIsCodePointOrder`: `strcmp`'s sign is the code-point order; `MeetsTestExpectations`: every expectation of the two test files holds, `get_script`'s ten code points included |
| maru_check | `MC_MaruCheck.cfg` | pass (784 states) | `TypeOK`; `AssertionsHold`: on x86-64 (signed char), with either byte order, none of the 181 assertions fails; `NoUninitialisedRead`: every byte a statement loads was stored before; `MainReturnsZero`: `f_main` runs all nine tests and returns |
| evalk | `MC_EvalK.cfg` | pass (211k states) | `ImplementsSymbolTable` and `ArraySetStores` over any three calls of `maru_init`'s array and the constructors: the array behind `symbols`, read through `maru_array_at` and `maru_symbol_name`, is `SymbolTable`'s list, through the growth of its elements |
| evalk_cons_unrooted | `MC_EvalK_cons.cfg` | violation | `NoDanglingReference`: `maru_cons`'s `val` is freed by a collection at its second `gc_malloc` |
| evalk_tag_traced | `MC_EvalK_trace.cfg` | violation | `TraceFollowsAddresses`: the collector of spec.md section 4.4 follows the even int32 tag of the rooted symbols array, which eval-k keeps in a non-atomic object's first slot |

The compiled program agrees with the GC runs. Built with `gcc -O0` on x86-64 and run, test-gc.c prints its first allocation (`split 59376: ... + 8 -> ... + 59352`, `alloc chunk`), pushes its second root, and dies of SIGSEGV in the second `gc_malloc`.

With `ListLength = 1` and `Iterations = 1`, only one cell is ever allocated. The program then reaches `return 0` through both closing collections. Those collections mark nothing, because the rooted cell's address is odd. Even so, the sweep changes nothing, since the memset had already cleared the cell's flags.

The project lists eleven runs. These further cfgs reproduce other disagreements found while modelling. Each checks one property that TLC finds violated, and each can be run the same way:

| cfg | Module | Property | What it shows |
|---|---|---|---|
| `MC_TaggedInt_maru.cfg` | `TaggedInt` | `MaruLongRoundTrip` | `maru_make_long` has no overflow test |
| `MC_TaggedInt_type.cfg` | `TaggedInt` | `LongsAreLongs` | eval.h's `newLong` never writes the box's type field, so `isLong` of a boxed long reads whatever the allocator left there (Undefined with a zeroing allocator). test-gc-demo.c's copy, whose `newBits(Long)` sets the type, meets the property |
| `MC_DemoRoots_any.cfg` | `DemoRoots` | `ImplementsRootStack` | a non-LIFO unprotect is silently ignored, and the list later forms a cycle (spec.md line 68 wants it fatal) |
| `MC_EvalK_symbol.cfg` | `MC_EvalK` | `RootedReachableLive` | a symbol's MValue is atomic, so its MSymbol is swept although a rooted global holds the symbol. `NoDanglingReference`, the property of evalk_cons_unrooted, is violated by the same trace |
| `MC_EvalK_env.cfg` | `MC_EvalK` | `TypeTagsHold` | `maru_make_env` and `maru_make_variable` write their fields over the tag |
| `MC_UTF8_simple.cfg` | `UTF8` | `MeetsTestExpectations` | test-utf8-simple.c's expectations fail on its own strings. The file's non-ASCII literals are UTF-8 mojibake: UTF-8 text decoded as Mac OS Roman and saved again as UTF-8. So the "Euro sign" at line 24 is the bytes E2 80 9A C3 87 C2 A8. `decode_char` reads U+201A from them, correctly, where the test expects U+20AC. "café" at line 60 has 5 characters, where 4 are expected. The tables of test-utf8-validation.c meet every expectation (the same property holds with `Suite = "validation"`) |
| `MC_UTF8_invalid.cfg` | `UTF8` | `NoReadPastTerminator` | on arbitrary bytes, a stray continuation byte or a truncated sequence makes `utf8_strlen` skip the NUL and read past the buffer |
| `MC_MaruCheck_aarch64.cfg` | `MaruCheck` | `AssertionsHold` | where plain `char` is unsigned (AArch64 Linux), the bytes test exits at `maru-check.k` line 162: it expects `(char)160` to read back as -96 |
| `MC_MaruCheck_nomem.cfg` | `MaruCheck` | `MainReturnsZero` | if `malloc(1024)` fails, the pointer test stores through NULL and the program faults before `f_main` returns |

Each property of a passing run has a mutant in `PROJECT.json`. A mutant is a variant definition placed before the definition it replaces, and models a plausible slip in that code. TLC finds each mutant's property violated under the run's configuration. The mutants are:

- a missing underflow check;
- a late growth;
- a short copy;
- a logical shift;
- an unwrapped tag;
- an off-by-one overflow test;
- a tagged fast path in `test_add` with no overflow test;
- a push that does not link, and a pop that does not unlink;
- a 4-byte lead stepped over as 3, and a count of bytes instead of characters;
- a 4-byte decode shifted by 16 instead of 18, a `char_at` loop test of `<=`, and `strcmp` on signed chars;
- a store that does not truncate to a byte, a flooring division, a store that writes one byte too few, and an `f_main` that stops one test early;
- a symbol search one short (which `ImplementsSymbolTable` catches), and a capacity not doubled;
- a Han range that starts one code point late in `get_script`.

## 4. Bounds

All bounds are small so that TLC can explore them exhaustively.

**GC runs**

| Setting | Value | Stands for |
|---|---|---|
| `MinBlock` | 64 | 59392 in the code; the first split leaves a 24-byte free chunk |
| `BlockAddrs` | {256, 400} | addresses malloc may return. 400 puts the split remainder at 424, whose low byte the memset turns into 256, outside the block |
| `Threshold` | 32768 | as in the code; the program faults long before |
| `ListLength`, `Iterations` | 2, 2 | 256 and 10000 in the code: the fault comes at the second cell |
| `MaxBlocks`, `MaxRoots` | 2, 3 | never reached |

The program is deterministic once malloc has chosen an address. TLC follows it to the end, or to the fault, from each address.

**Build and root table**

- `RootMin` is scaled from 32 to 2. The growth arithmetic is linear in it, so three growths happen within five pushes.

**Tagged integers**

`W = 8` covers every value, including both edges of the tagged range and of the word. The passing run takes `Leftover = {0}`, the type a cleared object has; no property of that run reads the type. `MC_TaggedInt_type.cfg` adds 7, an arbitrary leftover value, and the violation needs only 0. `Addends = {1, 64}`: 1 is what `main` adds to `big_num`, and 64 = 2^(W-2) is the least boxed long. Over every `x`, sums cross from tagged to boxed (63 + 1) and from boxed to tagged (-100 + 64), and two boxes are added (-65 + 64). The cfg syntax has no negative literals; the negative side is covered by `x`.

**Demo roots, UTF-8 and eval-k**

- Three locals give every order of protect and unprotect that can leave a record behind a live one.
- UTF-8 strings of up to 5 bytes, over the bytes {0x41, 0x80, 0x90, 0xC3, 0xE2, 0xF0}, contain every lead length and two continuation bytes. 0x90 is needed because a well-formed sequence led by 0xF0 must continue with 0x90 to 0xBF. Three bytes past the NUL are enough for a 4-byte skip to land beyond it.
- The test strings add the leads that the enumerated bytes leave out (0xC2, 0xD0, 0xDF, 0xE0, 0xE3, 0xE4, 0xED, 0xEF, 0xF4). 0xF4 is the only lead whose payload bits reach the top shift of `decode_char`. Their longer strings (up to 53 bytes) give `char_at` indices past 5 and `strcmp` pairs that differ after a multi-byte prefix.
- `MaruCheck` has no bound to choose: the program is fixed, and the model runs it to the end. The configuration varies the build: byte order (both), char signedness, and whether malloc may fail.
- The pass runs of `EvalK` keep `Threshold` at 32768, where `test_eval` runs. No collection happens in them, so they check the constructors' data.
- The violation runs set the threshold to 1 to 3 so that a collection falls inside a constructor or right after a root is pushed.
- `MaxCalls` 3 and 9 objects bound the heap in the pass run: enough to intern a name twice and to grow an array. A call starts only when the free objects cover its allocations.

## 5. Fairness

`GC` assumes `WF_vars(Next)`. test-gc.c is one thread with no input, and nothing in it waits, so it takes a step whenever it can. `MainReturns` needs this. `DemoRoots`, `UTF8` and `EvalK` check only safety, and no fairness is assumed.

`MaruCheck` assumes `WF_vars(Next)`. maru-check.c is a single thread with no input, and at most one step is enabled in any state, except for the choice of malloc's result. So weak fairness says only that the program is not paused forever. `MainReturnsZero` needs it. `UTF8` and `EvalK` end after the string or the calls, so their runs do not check deadlock.

In `GC`, `Terminated` is the only step possible after the return from `main` or the end of the process. It is a stuttering step, so it does not make a deadlock.

## 6. What is not modelled, and why

- **Code the test program never reaches.**
  - `gc_malloc_atomic` is not modelled: nothing in test-gc.c calls it.
  - `Coalesce`, `Advance`, `Grow` and the marking of an even word are modelled as written, but no run fires them. The program faults before two chunks are free side by side, before a scan passes a chunk, and before any object address is even.
  - The adjacency test at line 177 compares with chunk + 1 byte, which no chunk address equals, so chunks would never be merged.
  - The real `struct _3cheader_3e` is 24 bytes on a 64-bit build (its `type` field at offset 16), while the code's arithmetic uses 16. Only `printf` reads `type`.
- **Statistics and printing.** `info`, the statistics counters and `print_list`'s output are read by nothing else.
- **Other parts of the repository.**
  - `EvalK` runs over `EvalHeap`, the collector that spec.md describes, rather than `GC`. eval-k-generated.c is never linked with test-gc.c.
  - `maru_eval`, `maru_apply` and `maru_print` of eval-k-generated.c are stubs or output only.
  - The object system of test-gc-demo.c allocates with plain malloc, and its collection only prints.
  - JIT glue, threaded demos and the other compiler-output tests have no state to check (see `PROJECT.json`).
- **In maru-check.c:** the `float` and `double` locals of `test-calls`, which hold 5.6 and 7.8 and are only printed (its integer locals are kept). The floats of `test-floats` hold small integers, which are exact in `float`, so they are modelled as integers, `printf` output, and the optimiser's freedom under strict aliasing (the test writes through `int16_t *` and reads through `int32_t *`; program order is assumed).
- **In utf8.c:** the static conversion buffers of `mbs_to_utf8` and `utf8_to_mbs`, which no code under `src/` holds across calls; `strcpy`/`strdup`, which are libc.

## 7. Plan for further work

1. If test-gc.c's object offset is corrected to one header, check the corrected allocator and collector: the chain invariant, exact collection and the root protocol.
2. eval2-recovered.c's interpreter fragment, if its missing parts can be pinned down.
