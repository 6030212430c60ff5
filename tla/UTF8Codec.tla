------------------------------ MODULE UTF8Codec ------------------------------
(***************************************************************************)
(* The character-level UTF-8 helpers of the runtime, as operators on byte  *)
(* sequences, with the reference definitions they are checked against.    *)
(*                                                                         *)
(* Code: the lead-byte step shared by utf8_strlen (src/utf8-minimal.c)     *)
(* and maru_utf8_char_at; maru_utf8_char_length, maru_utf8_decode_char    *)
(* and maru_utf8_char_to_codepoint; maru_utf8_strcmp and                  *)
(* maru_utf8_compare_locale, which are strcmp; maru_get_script (all in    *)
(* src/archive/experimental/utf8.c).                                      *)
(*                                                                         *)
(* Reference: well-formed UTF-8 (Unicode 15, section 3.9, table 3-7), the  *)
(* encoder of a code point, and the order of code-point sequences.        *)
(*                                                                         *)
(* A buffer m is a sequence of bytes, 1-based; reading past its end reads  *)
(* 0.  Masks and shifts of non-negative values are written as % and *:    *)
(* b & 0x3F is b % 64, x << 6 is x * 64, and | of disjoint bit fields is +.*)
(***************************************************************************)
EXTENDS Integers, Sequences, FiniteSets

At(m, i) == IF i \in 1 .. Len(m) THEN m[i] ELSE 0

-----------------------------------------------------------------------------
(* Reference.                                                              *)

IsCont(b) == b \div 64 = 2                      \* 10xxxxxx

\* Continuation bytes a lead of b needs.
Need(b) == CASE b < 128 -> 0 [] b \div 32 = 6 -> 1 [] b \div 16 = 14 -> 2
             [] b \div 8 = 30 -> 3 [] OTHER -> -1

\* Table 3-7: the leads 0xC0, 0xC1 and 0xF5.. are never well formed, and
\* the second byte after E0, ED, F0 and F4 is narrowed to exclude overlong
\* forms, surrogates and code points above U+10FFFF.
LeadOK(b) == b < 128 \/ b \in 194 .. 244
SecondOK(b, c) ==
    CASE b = 224 -> c \in 160 .. 191
      [] b = 237 -> c \in 128 .. 159
      [] b = 240 -> c \in 144 .. 191
      [] b = 244 -> c \in 128 .. 143
      [] OTHER   -> IsCont(c)

RECURSIVE ValidUTF8(_)
ValidUTF8(t) ==
    t = <<>> \/
    LET k == Need(Head(t)) IN
        /\ LeadOK(Head(t)) /\ Len(t) > k
        /\ k > 0 => SecondOK(t[1], t[2])
        /\ \A i \in 3 .. k + 1 : IsCont(t[i])
        /\ ValidUTF8(SubSeq(t, k + 2, Len(t)))

\* The number of characters is the number of bytes that are not
\* continuation bytes.
CodePoints(t) == Cardinality({i \in DOMAIN t : ~IsCont(t[i])})

\* The index of the character k characters into t (0-based k), or the
\* index of the terminator when t has no more.
StartOf(t, k) ==
    IF k >= CodePoints(t) THEN Len(t) + 1
    ELSE CHOOSE i \in DOMAIN t :
            /\ ~IsCont(t[i])
            /\ Cardinality({j \in 1 .. i - 1 : ~IsCont(t[j])}) = k

\* The bytes of code point cp.
Encode(cp) ==
    CASE cp < 128   -> <<cp>>
      [] cp < 2048  -> <<192 + cp \div 64, 128 + (cp % 64)>>
      [] cp < 65536 -> <<224 + cp \div 4096, 128 + ((cp \div 64) % 64), 128 + (cp % 64)>>
      [] OTHER      -> <<240 + cp \div 262144, 128 + ((cp \div 4096) % 64),
                         128 + ((cp \div 64) % 64), 128 + (cp % 64)>>

RECURSIVE EncodeAll(_)
EncodeAll(cps) == IF cps = <<>> THEN <<>> ELSE Encode(Head(cps)) \o EncodeAll(Tail(cps))

Sign(n) == IF n < 0 THEN -1 ELSE IF n > 0 THEN 1 ELSE 0

\* Lexicographic order of code-point sequences: -1, 0 or 1.
RECURSIVE SeqCmp(_, _)
SeqCmp(a, b) ==
    CASE a = <<>> /\ b = <<>> -> 0
      [] a = <<>> -> -1
      [] b = <<>> -> 1
      [] Head(a) # Head(b) -> Sign(Head(a) - Head(b))
      [] OTHER -> SeqCmp(Tail(a), Tail(b))

-----------------------------------------------------------------------------
(* Code.                                                                   *)

(* Variant: a four-byte lead is stepped over as if it led three.           *)
Skip_lead4short(b) == CASE b < 128 -> 1 [] b < 224 -> 2 [] OTHER -> 3
(* The bytes one iteration of the strlen / char_at loop skips for lead b.  *)
Skip(b) == CASE b < 128 -> 1 [] b < 224 -> 2 [] b < 240 -> 3 [] OTHER -> 4

\* maru_utf8_char_length: the sequence length a lead announces, 0 when it
\* is 0xF8 or above.
CharLength(c) == CASE c < 128 -> 1 [] c < 224 -> 2 [] c < 240 -> 3
                   [] c < 248 -> 4 [] OTHER -> 0

(* Variant: the payload of a four-byte lead shifted by 16, not 18.      *)
DecodeChar_lead4shift16(m, i) ==
    LET n == CharLength(At(m, i))
        b(k) == At(m, i + k)
    IN  CASE n = 1 -> [cp |-> b(0), len |-> 1]
          [] n = 2 -> [cp |-> (b(0) % 32) * 64 + (b(1) % 64), len |-> 2]
          [] n = 3 -> [cp |-> (b(0) % 16) * 4096 + (b(1) % 64) * 64 + (b(2) % 64), len |-> 3]
          [] n = 4 -> [cp |-> (b(0) % 8) * 65536 + (b(1) % 64) * 4096
                              + (b(2) % 64) * 64 + (b(3) % 64), len |-> 4]
          [] OTHER -> [cp |-> 65533, len |-> 1]
\* maru_utf8_decode_char(s, &len) at index i: the code point and *len.
\* It reads the bytes the lead announces, whatever they are.
DecodeChar(m, i) ==
    LET n == CharLength(At(m, i))
        b(k) == At(m, i + k)
    IN  CASE n = 1 -> [cp |-> b(0), len |-> 1]
          [] n = 2 -> [cp |-> (b(0) % 32) * 64 + (b(1) % 64), len |-> 2]
          [] n = 3 -> [cp |-> (b(0) % 16) * 4096 + (b(1) % 64) * 64 + (b(2) % 64), len |-> 3]
          [] n = 4 -> [cp |-> (b(0) % 8) * 262144 + (b(1) % 64) * 4096
                              + (b(2) % 64) * 64 + (b(3) % 64), len |-> 4]
          [] OTHER -> [cp |-> 65533, len |-> 1]

\* Decoding a NUL-terminated buffer from index i, character by character,
\* as the validation test does: the code points up to the NUL.
RECURSIVE DecodeFrom(_, _)
DecodeFrom(m, i) ==
    IF At(m, i) = 0 THEN <<>>
    ELSE LET d == DecodeChar(m, i) IN <<d.cp>> \o DecodeFrom(m, i + d.len)

\* maru_utf8_char_to_codepoint at index i: the code point from as many
\* bytes as the lead's range announces; every lead from 0xF0 up is taken
\* as a four-byte one, and the bytes after it are read whatever they are.
CharToCodepoint(m, i) ==
  LET b(k) == At(m, i + k) IN
  CASE b(0) < 128 -> b(0)
    [] b(0) < 224 -> (b(0) % 32) * 64 + (b(1) % 64)
    [] b(0) < 240 -> (b(0) % 16) * 4096 + (b(1) % 64) * 64 + (b(2) % 64)
    [] OTHER      -> (b(0) % 8) * 262144 + (b(1) % 64) * 4096
                       + (b(2) % 64) * 64 + (b(3) % 64)

(* Variant: the loop runs while i <= index, one character too far.        *)
RECURSIVE CharAt_oneFar(_, _, _, _)
CharAt_oneFar(m, s, i, index) ==
    IF At(m, s) # 0 /\ i <= index THEN CharAt_oneFar(m, s + Skip(At(m, s)), i + 1, index)
    ELSE s
\* maru_utf8_char_at(str, index), from cursor s with i characters skipped:
\* the index of the character's first byte, or of the NUL.
RECURSIVE CharAt(_, _, _, _)
CharAt(m, s, i, index) ==
    IF At(m, s) # 0 /\ i < index THEN CharAt(m, s + Skip(At(m, s)), i + 1, index)
    ELSE s

(* Variant: bytes compared as signed char.                                *)
RECURSIVE StrCmp_signed(_, _, _)
StrCmp_signed(a, b, i) ==
    LET x == At(a, i) - (IF At(a, i) >= 128 THEN 256 ELSE 0)
        y == At(b, i) - (IF At(b, i) >= 128 THEN 256 ELSE 0)
    IN  IF x # y THEN Sign(x - y) ELSE IF x = 0 THEN 0 ELSE StrCmp_signed(a, b, i + 1)
\* strcmp, as maru_utf8_strcmp and maru_utf8_compare_locale call it: the
\* sign of the first difference, bytes compared as unsigned char.
RECURSIVE StrCmp(_, _, _)
StrCmp(a, b, i) ==
    LET x == At(a, i)
        y == At(b, i)
    IN  IF x # y THEN Sign(x - y) ELSE IF x = 0 THEN 0 ELSE StrCmp(a, b, i + 1)
(* Variant: the Han range excludes its first code point.                   *)
GetScript_hanOpen(cp) ==
  LET In(lo, hi) == cp >= lo /\ cp < hi IN
  CASE cp < \h80 -> "LATIN"
    [] In(\h370, \h400) -> "GREEK"     [] In(\h400, \h530) -> "CYRILLIC"
    [] In(\h590, \h600) -> "HEBREW"    [] In(\h600, \h700) -> "ARABIC"
    [] In(\h3040, \h30A0) -> "HIRAGANA" [] In(\h30A0, \h3100) -> "KATAKANA"
    [] In(\h4E01, \hA000) -> "HAN"     [] In(\hAC00, \hD7B0) -> "HANGUL"
    [] In(\h1F600, \h1F650) -> "EMOJI" [] OTHER -> "COMMON"
\* maru_get_script: the first range that holds cp, tried in the code's
\* order; the scripts are named by their enumerators without SCRIPT_.
GetScript(cp) ==
  LET In(lo, hi) == cp >= lo /\ cp < hi IN
  CASE cp < \h80 -> "LATIN"
    [] In(\h370, \h400) -> "GREEK"     [] In(\h400, \h530) -> "CYRILLIC"
    [] In(\h590, \h600) -> "HEBREW"    [] In(\h600, \h700) -> "ARABIC"
    [] In(\h3040, \h30A0) -> "HIRAGANA" [] In(\h30A0, \h3100) -> "KATAKANA"
    [] In(\h4E00, \hA000) -> "HAN"     [] In(\hAC00, \hD7B0) -> "HANGUL"
    [] In(\h1F600, \h1F650) -> "EMOJI" [] OTHER -> "COMMON"
==============================================================================
