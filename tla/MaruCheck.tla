----------------------------- MODULE MaruCheck -----------------------------
(***************************************************************************)
(* src/maru-check.c: the C that the maru compiler emits for its own       *)
(* self-test.  f_main calls nine test functions in order; each declares   *)
(* locals of type char, int16_t, int32_t, float or struct <point>,        *)
(* assigns them, and asserts facts about C arithmetic, conversions,      *)
(* struct copies and byte-addressed memory.  A failed assertion prints    *)
(* its line and calls exit(1); otherwise main returns 0.                  *)
(*                                                                         *)
(* The program is straight-line code with two loops and one branch on    *)
(* the byte order, so it is modelled as an interpreter: every test body   *)
(* is a sequence of statements (the data below, one statement per C       *)
(* statement that changes state or checks something) and one action      *)
(* executes one statement.  printf calls are left out: nothing is read    *)
(* back from them.                                                         *)
(*                                                                         *)
(* What is left to the build is a constant: whether plain char is signed  *)
(* (x86-64: yes, AArch64: no), the byte order, and whether malloc may     *)
(* return NULL.  Arithmetic follows what gcc produces: signed results     *)
(* wrap modulo 2^32, / truncates toward zero, % takes the sign of the    *)
(* dividend, >> of a negative value is arithmetic, and a conversion to a  *)
(* narrower signed type keeps the low bits.  TLC's own integers are       *)
(* 32-bit, so the wrap is computed without leaving that range.            *)
(***************************************************************************)
EXTENDS Integers, Sequences, FiniteSets, TLC

CONSTANTS
    CharSigned,     \* the values plain char's signedness may take in the build
    LittleEndian,   \* the byte orders the build may have
    MallocMayFail   \* whether malloc(1024) may return NULL

VARIABLES
    build,   \* [charSigned, littleEndian]: fixed when the program starts
    fn,      \* index into MainCalls of the test f_main is running
    pc,      \* index of the next statement of that test's body
    env,     \* the test's scalar and pointer locals: name -> value
    mem,     \* addressable bytes: <<object, offset>> -> 0..255
    status,  \* "running", "returned", "exit" (exit(1) called) or "segv"
    exitLine \* the line the failed assertion reports, 0 while none has

vars == <<build, fn, pc, env, mem, status, exitLine>>

-----------------------------------------------------------------------------
(* C integer semantics as gcc implements them on a 32-bit int.            *)

IntMax == 2147483647

\* Conversion to a w-bit signed type keeps the low bits (m = 2^w).
Wrap(v, m) == LET r == v % m IN IF r >= m \div 2 THEN r - m ELSE r

\* Conversion of an int value to the type t of a variable or a cast.
Conv(t, v) ==
    CASE t = "char"  -> IF build.charSigned THEN Wrap(v, 256) ELSE v % 256
      [] t = "short" -> Wrap(v, 65536)
      [] t \in {"int", "long", "float", "ptr"} -> v

\* a + b modulo 2^32, without forming a value outside 32 bits.
Add32(a, b) ==
    IF b > 0 /\ a > IntMax - b THEN (a - IntMax - 1) + (b - IntMax - 1)
    ELSE IF b < 0 /\ a < -IntMax - 1 - b THEN (a + IntMax + 1) + (b + IntMax + 1)
    ELSE a + b

Neg32(a) == IF a = -IntMax - 1 THEN a ELSE -a

\* The element of a singleton.  {F(x) : x \in {e}} evaluates e once and
\* binds x to its value; TLC re-evaluates an operator's argument at every
\* use when it computes ENABLED, which the recursions below would make
\* exponential.
Pick(S) == CHOOSE r \in S : TRUE

\* a * b modulo 2^32, by doubling over the bits of b.
RECURSIVE Mul32(_, _)
Mul32(a, b) ==
    IF b < 0 THEN Neg32(Mul32(a, Neg32(b)))
    ELSE IF b = 0 THEN 0
    ELSE Pick({Add32(Add32(h, h), IF b % 2 = 1 THEN a ELSE 0) :
                  h \in {Mul32(a, b \div 2)}})

\* C's / truncates toward zero, its % takes the sign of the dividend.
AbsI(a) == IF a < 0 THEN -a ELSE a
\* (mutant) division that rounds toward minus infinity
Quot_floor(a, b) == a \div b
Quot(a, b) == LET q == AbsI(a) \div AbsI(b) IN IF (a < 0) = (b < 0) THEN q ELSE -q
Rem(a, b) == a - b * Quot(a, b)

RECURSIVE Shl(_, _), Sar(_, _)
Shl(a, n) == IF n = 0 THEN a ELSE Pick({Shl(d, n - 1) : d \in {Add32(a, a)}})
\* gcc shifts a negative int right arithmetically: floor division by 2.
Sar(a, n) == IF n = 0 THEN a ELSE Sar(a \div 2, n - 1)

\* Two's complement &, | and ^ on any integers, one bit at a time.
Bit(op, x, y) ==
    CASE op = "&" -> x * y
      [] op = "|" -> IF x + y > 0 THEN 1 ELSE 0
      [] op = "^" -> (x + y) % 2

RECURSIVE BitOp(_, _, _)
BitOp(op, a, b) ==
    IF a \in {0, -1} /\ b \in {0, -1} THEN -Bit(op, -a, -b)
    ELSE 2 * BitOp(op, a \div 2, b \div 2) + Bit(op, a % 2, b % 2)

Truth(c) == IF c THEN 1 ELSE 0

\* A binary operator of the generated code applied to promoted operands;
\* "p+" adds a byte offset to a (void *), "p-" subtracts two of them.
Apply(op, a, b) ==
    CASE op = "+"  -> Add32(a, b)
      [] op = "-"  -> Add32(a, Neg32(b))
      [] op = "*"  -> Mul32(a, b)
      [] op = "/"  -> Quot(a, b)
      [] op = "%"  -> Rem(a, b)
      [] op = "<<" -> Shl(a, b)
      [] op = ">>" -> Sar(a, b)
      [] op \in {"&", "|", "^"} -> BitOp(op, a, b)
      [] op = "==" -> Truth(a = b)
      [] op = "!=" -> Truth(a # b)
      [] op = "<"  -> Truth(a < b)
      [] op = "<=" -> Truth(a <= b)
      [] op = ">"  -> Truth(a > b)
      [] op = ">=" -> Truth(a >= b)
      [] op = "p+" -> [a EXCEPT !.off = @ + b]
      [] op = "p-" -> a.off - b.off
-----------------------------------------------------------------------------
(* Memory.  A pointer is a record [obj, off]: a byte offset into a named  *)
(* object (the struct locals p and q, make's local, or the malloc block). *)
(* A scalar of type t occupies Size[t] bytes; the byte at offset j holds  *)
(* the digit of significance Sig(t, j) of its two's complement value.     *)

Size == [char |-> 1, short |-> 2, int |-> 4]

\* struct <point> { int32_t x; int32_t y; }: byte offsets of the fields.
Offset == [x |-> 0, y |-> 4]
PointSize == 8

Null == [obj |-> "null", off |-> 0]

Addr(p, j) == <<p.obj, p.off + j>>
Sig(t, j) == IF build.littleEndian THEN j ELSE Size[t] - 1 - j
\* (mutant) a store that does not truncate the value to the byte it writes
Digit_noWrap(v, s) == v \div (256 ^ s)

Digit(v, s) == (v \div (256 ^ s)) % 256

\* (mutant) a store that writes one byte too few
Stored_short(t, p, v) == [a \in {Addr(p, j) : j \in 0 .. Size[t] - 2} |->
                              Digit(v, Sig(t, a[2] - p.off))]

\* The bytes a store of value v as a t at p writes.
Stored(t, p, v) == [a \in {Addr(p, j) : j \in 0 .. Size[t] - 1} |->
                        Digit(v, Sig(t, a[2] - p.off))]

\* The value a load of a t at p reads: the most significant byte carries
\* the sign, except for plain char on a build where char is unsigned.
RECURSIVE Horner(_, _, _)
Horner(t, p, s) ==
    LET b == mem[Addr(p, Sig(t, s))]
    IN  IF s = Size[t] - 1
        THEN IF t = "char" THEN Conv("char", b) ELSE Wrap(b, 256)
        ELSE Horner(t, p, s + 1) * 256 + b

LoadVal(t, p) == Horner(t, p, 0)

\* The bytes of object o, copied to pointer d: struct assignment.
Copied(m, o, d) == [a \in {Addr(d, k) : k \in 0 .. PointSize - 1} |->
                        m[<<o, a[2] - d.off>>]]

-----------------------------------------------------------------------------
(* Expressions of the generated code, as records.                        *)

N(n) == [lit |-> n]
V(x) == [var |-> x]
Cast(t, e) == [cast |-> t, arg |-> e]
Op(l, op, r) == [op |-> op, l |-> l, r |-> r]
\* A long literal hi * 2^16 + lo (2^31 or more) converted to int32_t.
Wide(hi, lo) == [wide |-> <<hi, lo>>]
Ref(o, k) == [ref |-> <<o, k>>]
Load(t, p) == [load |-> t, at |-> p]

RECURSIVE Eval(_)
Eval(e) ==
    CASE "lit" \in DOMAIN e  -> e.lit
      [] "var" \in DOMAIN e  -> env[e.var]
      [] "cast" \in DOMAIN e -> Pick({Conv(e.cast, v) : v \in {Eval(e.arg)}})
      [] "op" \in DOMAIN e   ->
            Pick({Apply(e.op, a, b) : a \in {Eval(e.l)}, b \in {Eval(e.r)}})
      [] "wide" \in DOMAIN e -> Wrap(e.wide[1], 65536) * 65536 + e.wide[2]
      [] "ref" \in DOMAIN e  -> [obj |-> e.ref[1], off |-> e.ref[2]]
      [] "load" \in DOMAIN e -> LoadVal(e.load, Eval(e.at))

\* The addresses evaluating e reads from memory.
RECURSIVE Reads(_)
Reads(e) ==
    CASE "cast" \in DOMAIN e -> Reads(e.arg)
      [] "op" \in DOMAIN e   -> Reads(e.l) \cup Reads(e.r)
      [] "load" \in DOMAIN e ->
            Reads(e.at) \cup {Addr(Eval(e.at), j) : j \in 0 .. Size[e.load] - 1}
      [] OTHER -> {}

-----------------------------------------------------------------------------
(* Statements.                                                            *)

Let(x, t, e) == [do |-> "let", x |-> x, t |-> t, e |-> e]      \* x = e
Assertion(line, e) == [do |-> "assert", line |-> line, e |-> e]
Store(t, p, e) == [do |-> "store", t |-> t, p |-> p, e |-> e]  \* p[0] = e
Copy(d, o) == [do |-> "copy", d |-> d, o |-> o]                \* *d = o
InitPoint(p, x, y) == [do |-> "init", p |-> p, x |-> x, y |-> y]
MakePoint(d, x, y) == [do |-> "make", d |-> d, x |-> x, y |-> y] \* *d = make(x, y)
Malloc(x) == [do |-> "malloc", x |-> x]
Free(x) == [do |-> "free", x |-> x]
Branch(c, k) == [do |-> "branch", e |-> c, by |-> k]  \* if (!c) skip k - 1
Jump(k) == [do |-> "jump", by |-> k]

\* if (!(c)) { printf(...); exit(1); } with c = (want == got)
Check(line, want, got) == Assertion(line, Op(N(want), "==", got))
\* the generated form (int32_t)(want == (int32_t)((t)(a op b)))
Arith(line, want, t, a, op, b) == Check(line, want, Cast(t, Op(V(a), op, V(b))))
\* the same assertion on the low byte: 255 & (int32_t)((char)(a op b))
Low(line, want, a, op, b) ==
    Check(line, want, Op(N(255), "&", Cast("char", Op(V(a), op, V(b)))))
Rel(line, l, op, r) == Assertion(line, Op(l, op, r))

\* p[i] for a pointer p to t: the address i * sizeof(t) bytes further.
Elem(t, p, i) == Op(p, "p+", N(i * Size[t]))
PX(o) == Load("int", Ref(o, Offset.x))    \* o.x
PY(o) == Load("int", Ref(o, Offset.y))    \* o.y

-----------------------------------------------------------------------------
(* The test bodies, statement by statement.                              *)

\* f_test_conditionals: two while loops, the second with an if inside.
Conditionals == <<
    Let("i", "int", N(0)),
    Let("x", "int", N(0)),
    Branch(Op(V("i"), "<", N(10)), 4),                  \* while (i < 10)
    Let("i", "int", Op(V("i"), "+", N(1))),             \*   x = x + (i = i + 1)
    Let("x", "int", Op(V("x"), "+", V("i"))),
    Jump(-3),
    Rel(97, V("x"), "==", N(55)),
    Let("x", "int", N(0)),
    Let("i", "int", N(0)),
    Let("i", "int", Op(V("i"), "+", N(1))),             \* while ((i = i + 1) < 10)
    Branch(Op(V("i"), "<", N(10)), 4),
    Branch(Op(V("i"), "<", N(5)), 2),                   \*   if (i < 5)
    Let("x", "int", Op(V("x"), "+", V("i"))),           \*     x = x + i
    Jump(-4),
    Rel(112, V("x"), "==", N(10)) >>

\* f_test_calls: the integer arguments of the call to f_test_calls_1; the
\* call itself and the two float arguments only reach printf.
Calls == <<
    Let("i64", "long", N(4)),
    Let("i32", "int", N(3)),
    Let("i16", "short", N(2)),
    Let("i8", "char", N(1)) >>

\* f_test_bytes: char arithmetic, shifts, bitwise operators, comparisons.
BytesArith == <<
    Let("e", "char", N(160)),
    Let("d", "char", N(80)),
    Let("c", "char", N(40)),
    Let("b", "char", N(20)),
    Let("a", "char", N(10)),
    Check(162, -96, Cast("int", V("e"))),
    Check(162, 160, Cast("int", Op(N(255), "&", Cast("int", V("e"))))),
    Arith(163, -16, "char", "d", "+", "e"),
    Low(163, 240, "d", "+", "e"),
    Arith(164, 64, "char", "e", "+", "e"),
    Low(165, 64, "e", "+", "e"),
    Arith(166, -10, "char", "a", "-", "b"),
    Low(166, 246, "a", "-", "b"),
    Arith(167, 116, "char", "b", "-", "e"),
    Low(167, 116, "b", "-", "e"),
    Arith(168, -56, "char", "a", "*", "b"),
    Low(168, 200, "a", "*", "b"),
    Arith(169, -112, "char", "a", "*", "c"),
    Low(169, 144, "a", "*", "c"),
    Arith(170, 32, "char", "a", "*", "d"),
    Low(170, 32, "a", "*", "d"),
    Arith(171, 2, "char", "b", "/", "a"),
    Arith(172, 2, "char", "c", "/", "b"),
    Arith(173, 4, "char", "d", "/", "b"),
    Arith(175, -1, "char", "e", "/", "d"),
    Arith(176, 10, "char", "a", "%", "b"),
    Arith(176, 0, "char", "b", "%", "a"),
    Arith(177, 20, "char", "b", "%", "c"),
    Arith(177, 0, "char", "c", "%", "b"),
    Arith(178, 40, "char", "c", "%", "d"),
    Arith(178, 0, "char", "d", "%", "c"),
    Arith(180, 80, "char", "d", "%", "e"),
    Arith(180, -16, "char", "e", "%", "d")
    >>

BytesShifts == <<
    Let("x80", "char", N(128)),
    Let("x0a", "char", N(10)),
    Check(183, 10, Cast("int", Cast("char", Op(V("x0a"), "<<", N(0))))),
    Check(184, 80, Cast("int", Cast("char", Op(V("x0a"), "<<", N(3))))),
    Check(185, -96, Cast("int", Cast("char", Op(V("x0a"), "<<", N(4))))),
    Check(186, -128, Cast("int", Cast("char", Op(V("x80"), ">>", N(0))))),
    Check(187, -64, Cast("int", Cast("char", Op(V("x80"), ">>", N(1))))),
    Check(188, -2, Cast("int", Cast("char", Op(V("x80"), ">>", N(6))))),
    Check(189, -1, Cast("int", Cast("char", Op(V("x80"), ">>", N(7)))))
    >>

BytesBits == <<
    Let("b8", "char", N(8)),
    Let("b7", "char", N(7)),
    Let("b2", "char", N(2)),
    Let("b1", "char", N(1)),
    Arith(192, 1, "char", "b1", "&", "b7"),
    Arith(192, 2, "char", "b2", "&", "b7"),
    Arith(192, 0, "char", "b8", "&", "b7"),
    Arith(193, 7, "char", "b1", "|", "b7"),
    Arith(193, 7, "char", "b2", "|", "b7"),
    Arith(193, 15, "char", "b8", "|", "b7"),
    Arith(194, 6, "char", "b1", "^", "b7"),
    Arith(194, 5, "char", "b2", "^", "b7"),
    Arith(194, 15, "char", "b8", "^", "b7")
    >>

BytesCompare == <<
    Let("b7", "char", N(7)),
    Let("b2", "char", N(2)),
    Let("b1", "char", N(-1)),
    Rel(197, V("b1"), "==", N(-1)),
    Check(197, 2, V("b2")),
    Rel(197, V("b7"), "==", N(7)),
    Rel(197, V("b1"), "!=", N(1)),
    Rel(198, V("b1"), "<", N(2)),
    Rel(198, V("b2"), "<=", N(2)),
    Rel(198, N(2), "<", V("b7")),
    Rel(199, N(2), ">", V("b1")),
    Rel(199, N(2), ">=", V("b2")),
    Rel(199, V("b7"), ">", N(2))
    >>

Bytes == BytesArith \o BytesShifts \o BytesBits \o BytesCompare

\* f_test_words: the same tests on int16_t.
WordsArith == <<
    Let("g", "short", N(1717)),
    Let("f", "short", N(32000)),
    Let("e", "short", N(16000)),
    Let("d", "short", N(8000)),
    Let("c", "short", N(4000)),
    Let("b", "short", N(200)),
    Let("a", "short", N(100)),
    Check(206, 16000, Cast("int", V("e"))),
    Arith(207, 24000, "short", "d", "+", "e"),
    Arith(208, 32000, "short", "e", "+", "e"),
    Arith(209, -17536, "short", "e", "+", "f"),
    Arith(210, -100, "short", "a", "-", "b"),
    Arith(211, -15800, "short", "b", "-", "e"),
    Arith(212, 20000, "short", "a", "*", "b"),
    Arith(213, 6784, "short", "a", "*", "c"),
    Arith(214, -32768, "short", "e", "*", "f"),
    Arith(215, 2, "short", "f", "/", "e"),
    Arith(216, 18, "short", "f", "/", "g"),
    Arith(217, 1094, "short", "f", "%", "g")
    >>

WordsShifts == <<
    Let("x8000", "short", N(32768)),
    Let("x0a00", "short", N(2560)),
    Check(220, 2560, Cast("int", Cast("short", Op(V("x0a00"), "<<", N(0))))),
    Check(221, 20480, Cast("int", Cast("short", Op(V("x0a00"), "<<", N(3))))),
    Check(222, 16384, Cast("int", Cast("short", Op(V("x0a00"), "<<", N(5))))),
    Check(223, -32768, Cast("int", Cast("short", Op(V("x8000"), ">>", N(0))))),
    Check(224, -16384, Cast("int", Cast("short", Op(V("x8000"), ">>", N(1))))),
    Check(225, -2, Cast("int", Cast("short", Op(V("x8000"), ">>", N(14))))),
    Check(226, -1, Cast("int", Cast("short", Op(V("x8000"), ">>", N(15)))))
    >>

WordsBits == <<
    Let("w8", "short", N(2056)),
    Let("w7", "short", N(1799)),
    Let("w2", "short", N(514)),
    Let("w1", "short", N(257)),
    Arith(229, 257, "short", "w1", "&", "w7"),
    Arith(229, 514, "short", "w2", "&", "w7"),
    Arith(229, 0, "short", "w8", "&", "w7"),
    Arith(230, 1799, "short", "w1", "|", "w7"),
    Arith(230, 1799, "short", "w2", "|", "w7"),
    Arith(230, 3855, "short", "w8", "|", "w7"),
    Arith(231, 1542, "short", "w1", "^", "w7"),
    Arith(231, 1285, "short", "w2", "^", "w7"),
    Arith(231, 3855, "short", "w8", "^", "w7")
    >>

WordsCompare == <<
    Let("w7", "short", N(7)),
    Let("w2", "short", N(2)),
    Let("w1", "short", N(-1)),
    Rel(234, V("w1"), "==", N(-1)),
    Check(234, 2, V("w2")),
    Rel(234, V("w7"), "==", N(7)),
    Rel(234, V("w1"), "!=", N(1)),
    Rel(235, V("w1"), "<", N(2)),
    Rel(235, V("w2"), "<=", N(2)),
    Rel(235, N(2), "<", V("w7")),
    Rel(236, N(2), ">", V("w1")),
    Rel(236, N(2), ">=", V("w2")),
    Rel(236, V("w7"), ">", N(2))
    >>

Words == WordsArith \o WordsShifts \o WordsBits \o WordsCompare
\* f_test_ints: int32_t arithmetic, including the products and shifts that
\* leave 32 bits, and a constant expression.
IntsArith == <<
    Let("g", "int", N(17171)),
    Let("f", "int", N(320000)),
    Let("e", "int", N(160000)),
    Let("d", "int", N(80000)),
    Let("c", "int", N(40000)),
    Let("b", "int", N(2000)),
    Let("a", "int", N(1000)),
    Check(243, 160000, Cast("int", V("e"))),
    Arith(244, 240000, "int", "d", "+", "e"),
    Arith(245, 320000, "int", "e", "+", "e"),
    Arith(246, -1000, "int", "a", "-", "b"),
    Arith(247, -158000, "int", "b", "-", "e"),
    Arith(248, 2000000, "int", "a", "*", "b"),
    Arith(249, 40000000, "int", "a", "*", "c"),
    Rel(250, Cast("int", Wide(60354, 0)), "==", Cast("int", Cast("int", Op(V("e"), "*", V("f"))))),
    Arith(251, 2, "int", "f", "/", "e"),
    Arith(252, 18, "int", "f", "/", "g"),
    Arith(253, 10922, "int", "f", "%", "g")
    >>

IntsShifts == <<
    Let("x80kk", "int", Wide(32768, 0)),
    Let("x0a00", "int", N(2560)),
    Check(255, 2560, Cast("int", Cast("int", Op(V("x0a00"), "<<", N(0))))),
    Check(256, 20480, Cast("int", Cast("int", Op(V("x0a00"), "<<", N(3))))),
    Check(257, 1342177280, Cast("int", Cast("int", Op(V("x0a00"), "<<", N(19))))),
    Check(258, -1610612736, Cast("int", Cast("int", Op(V("x0a00"), "<<", N(20))))),
    Check(259, 1073741824, Cast("int", Cast("int", Op(V("x0a00"), "<<", N(21))))),
    Check(260, -1, Cast("int", Cast("int", Op(V("x80kk"), ">>", N(31))))),
    Check(261, -2, Cast("int", Cast("int", Op(V("x80kk"), ">>", N(30))))),
    Check(262, -4, Cast("int", Cast("int", Op(V("x80kk"), ">>", N(29)))))
    >>

IntsBits == <<
    Let("l8", "int", N(526344)),
    Let("l7", "int", N(460551)),
    Let("l2", "int", N(131586)),
    Let("l1", "int", N(65793)),
    Check(265, 65793, Cast("int", Op(V("l1"), "&", V("l7")))),
    Check(265, 131586, Cast("int", Op(V("l2"), "&", V("l7")))),
    Check(265, 0, Cast("int", Op(V("l8"), "&", V("l7")))),
    Check(266, 460551, Cast("int", Op(V("l1"), "|", V("l7")))),
    Check(266, 460551, Cast("int", Op(V("l2"), "|", V("l7")))),
    Check(266, 986895, Cast("int", Op(V("l8"), "|", V("l7")))),
    Check(267, 394758, Cast("int", Op(V("l1"), "^", V("l7")))),
    Check(267, 328965, Cast("int", Op(V("l2"), "^", V("l7")))),
    Check(267, 986895, Cast("int", Op(V("l8"), "^", V("l7"))))
    >>

IntsCompare == <<
    Let("i7", "int", N(7)),
    Let("i2", "int", N(2)),
    Let("i1", "int", N(-1)),
    Rel(270, V("i1"), "==", N(-1)),
    Check(270, 2, V("i2")),
    Rel(270, V("i7"), "==", N(7)),
    Rel(270, V("i1"), "!=", N(1)),
    Rel(271, V("i1"), "<", N(2)),
    Rel(271, V("i2"), "<=", N(2)),
    Rel(271, N(2), "<", V("i7")),
    Rel(272, N(2), ">", V("i1")),
    Rel(272, N(2), ">=", V("i2")),
    Rel(272, V("i7"), ">", N(2)),
    Let("x", "int", N(305419896)),
    Check(277, 305419896, V("x")),
    Check(278, 120, Cast("int", Cast("char", V("x")))),
    Check(279, 22136, Cast("int", Cast("short", V("x")))),
    Let("l", "int", N(12)),
    Let("w", "short", N(12)),
    Let("b", "char", N(12)),
    Rel(283, V("b"), "==", N(12)),
    Rel(284, V("w"), "==", N(12)),
    Rel(285, V("l"), "==", N(12)),
    Check(290, 4, Cast("int", Op(Cast("int", Op(Cast("int", Op(Cast("int", Op(N(5), "*", N(6))), "-", Cast("int", Op(N(100), "/", N(5))))), "+", Cast("int", Op(Cast("int", Op(N(7), "*", N(8))), "-", Cast("int", Op(N(100), "/", N(2))))))), "%", Cast("int", Op(N(96), ">>", Cast("int", Op(N(1), "<<", N(2))))))))
    >>

Ints == IntsArith \o IntsShifts \o IntsBits \o IntsCompare

\* f_test_floats: comparisons of floats that hold small integers.
Floats == <<
    Let("f7", "float", N(7)),
    Let("f2", "float", N(2)),
    Let("f1", "float", N(-1)),
    Rel(296, V("f1"), "==", N(-1)),
    Check(296, 2, V("f2")),
    Rel(296, V("f7"), "==", N(7)),
    Rel(296, V("f1"), "!=", N(1)),
    Rel(297, V("f1"), "<", N(2)),
    Rel(297, V("f2"), "<=", N(2)),
    Rel(297, N(2), "<", V("f7")),
    Rel(298, N(2), ">", V("f1")),
    Rel(298, N(2), ">=", V("f2")),
    Rel(298, V("f7"), ">", N(2))
    >>

\* f_test_structs: field stores, pointers to fields, init, make and struct
\* assignment by value.  Most of its assertions report line 0.
Structs == <<
    Rel(344, Cast("int", Op(N(2), "*", N(4))), "==", N(8)),
    Store("int", Ref("p", Offset.x), N(42)),
    Store("int", Ref("p", Offset.y), N(666)),
    Check(0, 42, PX("p")),
    Check(0, 666, PY("p")),
    Let("py", "ptr", Ref("p", Offset.y)),
    Let("px", "ptr", Ref("p", Offset.x)),
    Check(355, 42, Load("int", V("px"))),
    Check(356, 666, Load("int", V("py"))),
    Let("pp", "ptr", Ref("p", 0)),
    Rel(358, Ref("p", 0), "==", Ref("p", Offset.x)),
    Check(360, 4, Cast("int", Op(Ref("p", Offset.y), "p-", Ref("p", 0)))),
    Check(363, 42, Load("int", Elem("int", V("pp"), 0))),
    Check(364, 666, Load("int", Elem("int", V("pp"), 1))),
    InitPoint(Ref("p", 0), N(123), N(456)),
    Check(0, 123, PX("p")),
    Check(0, 456, PY("p")),
    MakePoint(Ref("p", 0), N(777), N(888)),
    Check(0, 777, PX("p")),
    Check(0, 888, PY("p")),
    MakePoint(Ref("q", 0), N(111), N(222)),
    Check(0, 111, PX("q")),
    Check(0, 222, PY("q")),
    Check(0, 777, PX("p")),
    Check(0, 888, PY("p")),
    Copy(Ref("p", 0), "q"),                             \* p = q
    Check(0, 111, PX("p")),
    Check(0, 222, PY("p")),
    Check(0, 111, PX("p")),
    Check(0, 222, PY("p")),
    MakePoint(Ref("p", 0), N(34), N(56)),
    Check(0, 34, PX("p")),
    Check(0, 56, PY("p")),
    MakePoint(Ref("p", 0), N(78), N(90)),               \* (&p)[0] = make(78, 90)
    Check(0, 78, PX("p")),
    Check(0, 90, PY("p")) >>

\* f_test_pointers: struct layout, then the byte order seen through char,
\* int16_t and int32_t pointers into one malloc'd block.
Pointers == <<
    MakePoint(Ref("p", 0), N(1), N(2)),
    Check(389, 4, Cast("int", Op(Ref("p", Offset.y), "p-", Ref("p", Offset.x)))),
    Malloc("mem"),
    Let("pb", "ptr", V("mem")),
    Let("pw", "ptr", V("mem")),
    Let("pl", "ptr", V("mem")),
    Store("short", Elem("short", V("pw"), 0), N(258)),
    Branch(Op(N(2), "==", Load("char", Elem("char", V("pb"), 0))), 4),
    Store("short", Op(V("pw"), "p+", N(2)), N(772)),    \* little endian
    Check(406, 50594050, Load("int", Elem("int", V("pl"), 0))),
    Jump(4),
    Check(407, 1, Load("char", Elem("char", V("pb"), 0))), \* big endian
    Store("short", Op(V("pw"), "p+", N(2)), N(772)),
    Check(410, 16909060, Load("int", Elem("int", V("pl"), 0))),
    Store("char", Elem("char", V("pb"), 8), N(42)),
    Check(413, 42, Load("char", Op(V("pb"), "p+", Cast("int", Op(N(8), "*", N(1)))))),
    Store("short", Elem("short", V("pw"), 8), N(42)),
    Check(414, 42, Load("short", Op(V("pw"), "p+", Cast("int", Op(N(8), "*", N(2)))))),
    Store("int", Elem("int", V("pl"), 8), N(42)),
    Check(415, 42, Load("int", Op(V("pl"), "p+", Cast("int", Op(N(8), "*", N(4)))))),
    Free("mem") >>

\* f_test_forms: a counted loop and a statement expression.
Forms == <<
    Let("__limit__", "int", N(10)),
    Let("i", "int", N(0)),
    Branch(Op(V("i"), "<", V("__limit__")), 3),
    Let("i", "int", Op(V("i"), "+", N(1))),
    Jump(-2),
    Let("a", "int", N(1)),
    Let("b", "int", Op(V("a"), "+", N(1))) >>

\* f_main: the tests in the order it calls them.
MainCalls == <<"conditionals", "calls", "bytes", "words", "ints",
               "floats", "structs", "pointers", "forms">>

Body == [conditionals |-> Conditionals, calls |-> Calls, bytes |-> Bytes,
         words |-> Words, ints |-> Ints, floats |-> Floats,
         structs |-> Structs, pointers |-> Pointers, forms |-> Forms]

-----------------------------------------------------------------------------
(* The machine.                                                           *)

Stmt == Body[MainCalls[fn]][pc]
InBody == pc <= Len(Body[MainCalls[fn]])
Running == status = "running" /\ InBody

\* What the statement evaluates, and the bytes a struct copy reads.
Exprs(s) ==
    CASE s.do \in {"let", "assert", "branch"} -> {s.e}
      [] s.do = "store" -> {s.p, s.e}
      [] s.do = "init"  -> {s.p, s.x, s.y}
      [] s.do \in {"make", "copy"} -> {s.d} \cup (IF s.do = "make" THEN {s.x, s.y} ELSE {})
      [] OTHER -> {}

Copies(s) == IF s.do = "copy" THEN {<<s.o, k>> : k \in 0 .. PointSize - 1} ELSE {}

\* f_init_point(pp, x, y): pp->x = x; pp->y = y
PointStored(p, x, y) ==
    Stored("int", [p EXCEPT !.off = @ + Offset.y], y)
        @@ Stored("int", [p EXCEPT !.off = @ + Offset.x], x)

\* malloc(1024): the block, or NULL where the build lets it fail.
MallocResults == {[obj |-> "heap", off |-> 0]} \cup (IF MallocMayFail THEN {Null} ELSE {})

Init ==
    /\ build \in [charSigned : CharSigned, littleEndian : LittleEndian]
    /\ fn = 1
    /\ pc = 1
    /\ env = <<>>
    /\ mem = <<>>
    /\ status = "running"
    /\ exitLine = 0

\* x = e, converted to the declared type of x.
DoLet ==
    /\ Running /\ Stmt.do = "let"
    /\ env' = (Stmt.x :> Conv(Stmt.t, Eval(Stmt.e))) @@ env
    /\ pc' = pc + 1
    /\ UNCHANGED <<build, fn, mem, status, exitLine>>

\* if (!(e)) { printf("assertion failed at %s:%d\n", ...); exit(1); }
DoAssert ==
    /\ Running /\ Stmt.do = "assert"
    /\ IF Eval(Stmt.e) # 0
       THEN pc' = pc + 1 /\ UNCHANGED <<status, exitLine>>
       ELSE status' = "exit" /\ exitLine' = Stmt.line /\ UNCHANGED pc
    /\ UNCHANGED <<build, fn, env, mem>>

\* p[0] = e through a t pointer; a store through NULL faults.
DoStore ==
    /\ Running /\ Stmt.do = "store"
    /\ LET p == Eval(Stmt.p) IN
       IF p = Null
       THEN status' = "segv" /\ UNCHANGED <<pc, mem>>
       ELSE /\ mem' = Stored(Stmt.t, p, Conv(Stmt.t, Eval(Stmt.e))) @@ mem
            /\ pc' = pc + 1
            /\ UNCHANGED status
    /\ UNCHANGED <<build, fn, env, exitLine>>

\* init_point(p, x, y)
DoInit ==
    /\ Running /\ Stmt.do = "init"
    /\ mem' = PointStored(Eval(Stmt.p), Eval(Stmt.x), Eval(Stmt.y)) @@ mem
    /\ pc' = pc + 1
    /\ UNCHANGED <<build, fn, env, status, exitLine>>

\* *d = make_point(x, y): make initialises its local p and returns it by
\* value; the caller copies the 8 bytes into *d.
DoMake ==
    /\ Running /\ Stmt.do = "make"
    /\ LET local == PointStored([obj |-> "make", off |-> 0], Eval(Stmt.x), Eval(Stmt.y))
       IN  mem' = Copied(local @@ mem, "make", Eval(Stmt.d)) @@ mem
    /\ pc' = pc + 1
    /\ UNCHANGED <<build, fn, env, status, exitLine>>

\* *d = o: struct assignment copies the bytes of o.
DoCopy ==
    /\ Running /\ Stmt.do = "copy"
    /\ mem' = Copied(mem, Stmt.o, Eval(Stmt.d)) @@ mem
    /\ pc' = pc + 1
    /\ UNCHANGED <<build, fn, env, status, exitLine>>

\* x = malloc(1024), through the prototype void *(*)(int32_t).
DoMalloc ==
    /\ Running /\ Stmt.do = "malloc"
    /\ \E r \in MallocResults : env' = (Stmt.x :> r) @@ env
    /\ pc' = pc + 1
    /\ UNCHANGED <<build, fn, mem, status, exitLine>>

\* free(x): the block's bytes are gone.
DoFree ==
    /\ Running /\ Stmt.do = "free"
    /\ mem' = [a \in {b \in DOMAIN mem : b[1] # env[Stmt.x].obj} |-> mem[a]]
    /\ pc' = pc + 1
    /\ UNCHANGED <<build, fn, env, status, exitLine>>

\* The test of a while or an if: on false, go by statements forward.
DoBranch ==
    /\ Running /\ Stmt.do = "branch"
    /\ pc' = IF Eval(Stmt.e) # 0 THEN pc + 1 ELSE pc + Stmt.by
    /\ UNCHANGED <<build, fn, env, mem, status, exitLine>>

\* The end of a loop body, or of the then-part of an if.
DoJump ==
    /\ Running /\ Stmt.do = "jump"
    /\ pc' = pc + Stmt.by
    /\ UNCHANGED <<build, fn, env, mem, status, exitLine>>

\* (mutant) f_main stops one call short of the last test
CallNext_early ==
    /\ status = "running" /\ ~InBody
    /\ fn < Len(MainCalls) - 1
    /\ fn' = fn + 1
    /\ pc' = 1
    /\ env' = <<>>
    /\ mem' = [a \in {b \in DOMAIN mem : b[1] = "heap"} |-> mem[a]]
    /\ UNCHANGED <<build, status, exitLine>>

\* A test returns and f_main calls the next: the callee's locals and
\* stack objects are gone, the heap stays.
CallNext ==
    /\ status = "running" /\ ~InBody
    /\ fn < Len(MainCalls)
    /\ fn' = fn + 1
    /\ pc' = 1
    /\ env' = <<>>
    /\ mem' = [a \in {b \in DOMAIN mem : b[1] = "heap"} |-> mem[a]]
    /\ UNCHANGED <<build, status, exitLine>>

\* f_main returns 0 after the last test, and main returns 0.
MainReturn ==
    /\ status = "running" /\ ~InBody
    /\ fn = Len(MainCalls)
    /\ status' = "returned"
    /\ UNCHANGED <<build, fn, pc, env, mem, exitLine>>

Next ==
    \/ DoLet \/ DoAssert \/ DoStore \/ DoInit \/ DoMake \/ DoCopy
    \/ DoMalloc \/ DoFree \/ DoBranch \/ DoJump \/ CallNext \/ MainReturn

\* One thread runs the program; nothing it calls blocks forever.
Spec == Init /\ [][Next]_vars /\ WF_vars(Next)

-----------------------------------------------------------------------------
(* Properties.                                                            *)

TypeOK ==
    /\ build \in [charSigned : BOOLEAN, littleEndian : BOOLEAN]
    /\ fn \in 1 .. Len(MainCalls)
    /\ pc \in 1 .. Len(Body[MainCalls[fn]]) + 1
    /\ \A a \in DOMAIN mem : mem[a] \in 0 .. 255
    /\ status \in {"running", "returned", "exit", "segv"}

\* Every assertion of the self-test holds on the builds the configuration
\* allows: the arithmetic, conversion, struct-copy and byte-order facts
\* it checks are what C, as gcc compiles it, does.
AssertionsHold == status # "exit"

\* No statement reads a byte that nothing has written: every load and
\* every struct copy reads bytes an earlier store, init, make or copy set.
NoUninitialisedRead ==
    Running =>
        \A e \in Exprs(Stmt) : Reads(e) \cup Copies(Stmt) \subseteq DOMAIN mem

\* The program runs to the end: f_main calls all nine tests, every loop
\* ends, and main returns 0.
MainReturnsZero == <>(status = "returned")
=============================================================================
