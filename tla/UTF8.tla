-------------------------------- MODULE UTF8 --------------------------------
(***************************************************************************)
(* utf8_strlen of src/utf8-minimal.c, which the runtime uses as wcslen:    *)
(* walk a NUL-terminated byte string, skip 1, 2, 3 or 4 bytes according   *)
(* to the lead byte (< 0x80, < 0xE0, < 0xF0, otherwise), and count one    *)
(* character per lead.  One step of the model is one iteration of the     *)
(* while loop; Return is the loop test that finds the NUL.                 *)
(*                                                                         *)
(* mem is the string, its terminator, then Beyond, the bytes that follow   *)
(* the string's buffer in memory; a read past the terminator reads them.  *)
(* Bytes past mem read as 0.  The character helpers of utf8.c and the     *)
(* reference definitions come from UTF8Codec; the properties also apply   *)
(* decode_char, char_at and strcmp to the string passed.                   *)
(***************************************************************************)
EXTENDS UTF8Codec

CONSTANTS
  Bytes,       \* the nonzero byte values a string may hold
  MaxLen,      \* longest string tried (model bound)
  Beyond,      \* the byte values that may follow the buffer
  BeyondLen,   \* how many bytes past the terminator are modelled
  ValidOnly,   \* TRUE: only valid UTF-8 strings are enumerated
  Suite        \* "validation", "simple" or "none": whose test tables are passed

ASSUME 0 \notin Bytes /\ Bytes \subseteq 1 .. 255 /\ ValidOnly \in BOOLEAN
       /\ Suite \in {"validation", "simple", "none"}

VARIABLES
  str,         \* the string passed, without its terminator
  mem,         \* the bytes from str onwards
  s,           \* the cursor, an index into mem
  len,         \* the count so far
  ret          \* the value returned, or -1 while the loop runs

vars == <<str, mem, s, len, ret>>

Strings == UNION {[1 .. n -> Bytes] : n \in 0 .. MaxLen}
Inputs  == {t \in Strings : ValidOnly => ValidUTF8(t)}

\* test_vectors of test-utf8-validation.c: the bytes, and the code point
\* and length test_utf8_decoding expects utf8_decode_char to return.
VDecode ==
  { [utf8 |-> <<65>>, cp |-> \h41, len |-> 1],
    [utf8 |-> <<122>>, cp |-> \h7A, len |-> 1],
    [utf8 |-> <<48>>, cp |-> \h30, len |-> 1],
    [utf8 |-> <<32>>, cp |-> \h20, len |-> 1],
    [utf8 |-> <<194, 162>>, cp |-> \hA2, len |-> 2],
    [utf8 |-> <<195, 169>>, cp |-> \hE9, len |-> 2],
    [utf8 |-> <<208, 150>>, cp |-> \h416, len |-> 2],
    [utf8 |-> <<226, 130, 172>>, cp |-> \h20AC, len |-> 3],
    [utf8 |-> <<228, 184, 173>>, cp |-> \h4E2D, len |-> 3],
    [utf8 |-> <<227, 129, 130>>, cp |-> \h3042, len |-> 3],
    [utf8 |-> <<237, 149, 156>>, cp |-> \hD55C, len |-> 3],
    [utf8 |-> <<240, 159, 152, 128>>, cp |-> \h1F600, len |-> 4],
    [utf8 |-> <<240, 159, 140, 141>>, cp |-> \h1F30D, len |-> 4],
    [utf8 |-> <<240, 157, 132, 158>>, cp |-> \h1D11E, len |-> 4],
    [utf8 |-> <<127>>, cp |-> \h7F, len |-> 1],
    [utf8 |-> <<194, 128>>, cp |-> \h80, len |-> 2],
    [utf8 |-> <<223, 191>>, cp |-> \h7FF, len |-> 2],
    [utf8 |-> <<224, 160, 128>>, cp |-> \h800, len |-> 3],
    [utf8 |-> <<239, 191, 191>>, cp |-> \hFFFF, len |-> 3],
    [utf8 |-> <<240, 144, 128, 128>>, cp |-> \h10000, len |-> 4],
    [utf8 |-> <<244, 143, 191, 191>>, cp |-> \h10FFFF, len |-> 4] }

\* length_tests of test_string_length: a string and its expected count.
VLength ==
  { [str |-> <<72, 101, 108, 108, 111>>, chars |-> 5],
    [str |-> <<99, 97, 102, 195, 169>>, chars |-> 4],
    [str |-> <<228, 189, 160, 229, 165, 189>>, chars |-> 2],
    [str |-> <<240, 159, 145, 139, 240, 159, 140, 141>>, chars |-> 2],
    [str |-> <<72, 101, 108, 108, 111, 32, 228, 184, 150, 231, 149, 140>>,
      chars |-> 8],
    [str |-> <<217, 133, 216, 177, 216, 173, 216, 168, 216, 167>>, chars |->
      5] }

\* collation_tests: two strings and the sign test_collation expects of
\* utf8_compare_locale (all locales are ignored by the code).
VCollation ==
  { [s1 |-> <<97, 112, 112, 108, 101>>, s2 |-> <<65, 112, 112, 108, 101>>,
    sign |-> 1],
    [s1 |-> <<97, 98, 99>>, s2 |-> <<120, 121, 122>>, sign |-> -1],
    [s1 |-> <<99, 97, 102, 101>>, s2 |-> <<99, 97, 102, 195, 169>>, sign |->
      -1],
    [s1 |-> <<195, 169, 108, 195, 168, 118, 101>>, s2 |-> <<101, 108, 101,
      118, 101>>, sign |-> 1],
    [s1 |-> <<77, 195, 188, 108, 108, 101, 114>>, s2 |-> <<77, 117, 101,
      108, 108, 101, 114>>, sign |-> 1],
    [s1 |-> <<102, 105, 108, 101, 49>>, s2 |-> <<102, 105, 108, 101, 49,
      48>>, sign |-> -1],
    [s1 |-> <<76, 97, 116, 105, 110>>, s2 |-> <<206, 149, 206, 187, 206,
      187, 206, 183, 206, 189, 206, 185, 206, 186, 206, 172>>, sign |-> -1],
    [s1 |-> <<65, 66, 67>>, s2 |-> <<228, 184, 173, 230, 150, 135>>, sign
      |-> -1] }

\* norm_tests' strings and the string of test_performance: nothing is
\* expected of them but that the helpers handle them.
VNorm ==
  { <<99, 97, 102, 195, 169>>,
    <<195, 133, 115, 116, 114, 195, 182, 109>>,
    <<225, 187, 135>>,
    <<237, 149, 156, 234, 184, 128>> }

VPerf == <<72, 101, 108, 108, 111, 32, 228, 189, 160, 229, 165, 189, 32,
  217, 133, 216, 177, 216, 173, 216, 168, 216, 167, 32, 240, 159, 140, 141,
  32, 208, 151, 208, 180, 209, 128, 208, 176, 208, 178, 209, 129, 209, 130,
  208, 178, 209, 131, 208, 185, 209, 130, 208, 181>>

\* test-utf8.c: the strings whose length it asserts, the index and byte
\* of its char_at assertion, and the code point of U+4E16.
ULength ==
  { [str |-> <<72, 101, 108, 108, 111, 32, 87, 111, 114, 108, 100>>, chars |-> 11],
    [str |-> <<72, 101, 108, 108, 111, 32, 228, 184, 150, 231, 149, 140>>, chars |-> 8],
    [str |-> <<240, 159, 145, 139, 240, 159, 140, 141>>, chars |-> 2] }
UCharAt ==
  { [str |-> <<72, 101, 108, 108, 111, 32, 228, 184, 150, 231, 149, 140>>, index |-> 5,
     byte |-> 32] }
UCodepoint == { [utf8 |-> <<228, 184, 150>>, cp |-> \h4E16] }

\* test-utf8-simple.c's tables of test_utf8_decoding and test_string_length
\* and the strings of test_maru_integration, as the bytes of the file.
SDecode ==
  { [utf8 |-> <<65>>, cp |-> \h41, len |-> 1],
    [utf8 |-> <<226, 128, 154, 195, 135, 194, 168>>, cp |-> \h20AC, len |->
      3],
    [utf8 |-> <<226, 128, 176, 226, 136, 143, 226, 137, 160>>, cp |->
      \h4E2D, len |-> 3],
    [utf8 |-> <<239, 163, 191, 195, 185, 195, 145, 195, 187>>, cp |->
      \h1D11E, len |-> 4] }
SLength ==
  { [str |-> <<72, 101, 108, 108, 111>>, chars |-> 5],
    [str |-> <<99, 97, 102, 226, 136, 154, 194, 169>>, chars |-> 4],
    [str |-> <<226, 128, 176, 206, 169, 226, 128, 160, 195, 130, 226, 128,
      162, 206, 169>>, chars |-> 2],
    [str |-> <<239, 163, 191, 195, 188, 195, 171, 195, 163, 239, 163, 191,
      195, 188, 195, 165, 195, 167>>, chars |-> 2],
    [str |-> <<72, 101, 108, 108, 111, 32, 226, 128, 176, 226, 136, 143,
      195, 177, 195, 129, 195, 175, 195, 165>>, chars |-> 8],
    [str |-> <<197, 184, 195, 150, 195, 191, 194, 177, 195, 191, 226, 137,
      160, 195, 191, 194, 174, 195, 191, 195, 159>>, chars |-> 5] }
SIntegration ==
  { <<72, 101, 108, 108, 111, 32, 87, 111, 114, 108, 100>>,
    <<66, 111, 110, 106, 111, 117, 114, 32, 108, 101, 32, 109, 111, 110,
      100, 101>>,
    <<226, 128, 176, 206, 169, 226, 128, 160, 195, 130, 226, 128, 162, 206,
      169, 226, 128, 176, 226, 136, 143, 195, 177, 195, 129, 195, 175, 195,
      165>>,
    <<197, 184, 195, 150, 195, 191, 194, 177, 195, 191, 226, 137, 160, 195,
      191, 194, 174, 195, 191, 195, 159, 32, 195, 191, 194, 174, 195, 191,
      195, 159, 197, 184, 195, 145, 195, 191, 207, 128, 195, 191, 195, 159,
      197, 184, 195, 145, 197, 184, 195, 150>>,
    <<226, 128, 158, 195, 133, 195, 172, 226, 128, 158, 195, 135, 195, 172,
      226, 128, 158, 195, 133, 194, 180, 226, 128, 158, 195, 133, 194, 176,
      226, 128, 158, 195, 133, 195, 152, 226, 128, 176, 226, 136, 143, 195,
      177, 195, 129, 195, 175, 195, 165>>,
    <<239, 163, 191, 195, 188, 195, 165, 195, 167, 239, 163, 191, 195, 188,
      195, 165, 195, 169, 239, 163, 191, 195, 188, 195, 165, 195, 168>> }

\* property_tests of test_unicode_properties (the same ten cases as
\* test_unicode_scripts of test-utf8-simple.c): a code point and the script
\* get_script is expected to give it.
VScript ==
  { [cp |-> \h41, script |-> "LATIN"],     [cp |-> \h3B1, script |-> "GREEK"],
    [cp |-> \h410, script |-> "CYRILLIC"], [cp |-> \h5D0, script |-> "HEBREW"],
    [cp |-> \h627, script |-> "ARABIC"],   [cp |-> \h3042, script |-> "HIRAGANA"],
    [cp |-> \h30A2, script |-> "KATAKANA"], [cp |-> \h4E00, script |-> "HAN"],
    [cp |-> \hAC00, script |-> "HANGUL"],  [cp |-> \h1F600, script |-> "EMOJI"] }

\* The tables of the suite a run passes: what each test function feeds the
\* helpers and what it expects back.
Tests ==
  CASE Suite = "validation" ->
         [decode |-> VDecode, length |-> VLength \cup ULength, charAt |-> UCharAt,
          codepoint |-> UCodepoint, collation |-> VCollation, script |-> VScript,
          strings |-> VNorm \cup {VPerf}]
    [] Suite = "simple" ->
         [decode |-> SDecode, length |-> SLength, charAt |-> {}, codepoint |-> {},
          collation |-> {}, script |-> VScript, strings |-> SIntegration]
    [] OTHER ->
         [decode |-> {}, length |-> {}, charAt |-> {}, codepoint |-> {},
          collation |-> {}, script |-> {}, strings |-> {}]

TestStrings ==
  {d.utf8 : d \in Tests.decode} \cup {l.str : l \in Tests.length}
  \cup {a.str : a \in Tests.charAt} \cup {c.utf8 : c \in Tests.codepoint}
  \cup {c.s1 : c \in Tests.collation} \cup {c.s2 : c \in Tests.collation}
  \cup Tests.strings

\* Every string a run passes: the enumerated ones and the suite's.
Passed == Inputs \cup TestStrings

Byte(i) == IF i <= Len(mem) THEN mem[i] ELSE 0

Init ==
  /\ str \in Passed
  /\ \E tail \in [1 .. BeyondLen -> Beyond] : mem = str \o <<0>> \o tail
  /\ s = 1 /\ len = 0 /\ ret = -1

(* Variant: the count advances by the bytes skipped, as strlen would.      *)
Iterate_countBytes ==
  /\ ret = -1
  /\ Byte(s) # 0
  /\ s' = s + Skip(Byte(s))
  /\ len' = len + Skip(Byte(s))
  /\ UNCHANGED <<str, mem, ret>>

(* while the byte at s is not NUL: s += Skip(byte); len++.                  *)
Iterate ==
  /\ ret = -1
  /\ Byte(s) # 0
  /\ s' = s + Skip(Byte(s))
  /\ len' = len + 1
  /\ UNCHANGED <<str, mem, ret>>

(* The loop test reads the NUL: return len.                                *)
Return ==
  /\ ret = -1
  /\ Byte(s) = 0
  /\ ret' = len
  /\ UNCHANGED <<str, mem, s, len>>

Next == Iterate \/ Return

Spec == Init /\ [][Next]_vars

-----------------------------------------------------------------------------
TypeOK ==
  /\ str \in Seq(1 .. 255)
  /\ s \in 1 .. Len(mem) + 4
  /\ len \in 0 .. Len(mem)
  /\ ret \in {-1} \cup 0 .. Len(mem)

(***************************************************************************)
(* The loop never reads past the string's terminator: every byte           *)
(* utf8_strlen reads, *s, lies inside str or is its NUL.                   *)
(***************************************************************************)
NoReadPastTerminator == s <= Len(str) + 1

(***************************************************************************)
(* utf8_strlen returns the number of characters of the string: once it     *)
(* has returned, the count equals the reference count of code points, as   *)
(* the assertions of test-utf8.c expect.                                   *)
(***************************************************************************)
CountsCodePoints == ret # -1 => ret = CodePoints(str)

(***************************************************************************)
(* Decoding the string with maru_utf8_decode_char, character by character  *)
(* up to its NUL as test_utf8_decoding does, and encoding the code points  *)
(* again gives back the string's bytes: every mask, shift and *len of the  *)
(* decoder agrees with the encoding, and the walk stays on lead bytes.     *)
(***************************************************************************)
DecodeRoundTrip == EncodeAll(DecodeFrom(mem, 1)) = str

(***************************************************************************)
(* Indexing a string, as wcs code does with maru_utf8_char_at and then     *)
(* maru_utf8_char_to_codepoint: char_at(str, k) points at the first byte   *)
(* of the k-th character (0-based), or at the terminator when the string   *)
(* has k or fewer characters, and the code point read there encodes to     *)
(* exactly that character's bytes.                                         *)
(***************************************************************************)
IndexingFindsCharacters ==
  \A k \in 0 .. CodePoints(str) + 1 :
    LET p == CharAt(mem, 1, 0, k) IN
    /\ p = StartOf(str, k)
    /\ k < CodePoints(str) =>
         Encode(CharToCodepoint(mem, p)) = SubSeq(str, p, StartOf(str, k + 1) - 1)

(***************************************************************************)
(* maru_utf8_strcmp and maru_utf8_compare_locale are strcmp on the bytes;  *)
(* the comment at maru_utf8_strcmp says byte comparison is enough.  For   *)
(* well-formed strings the sign strcmp returns is the order of the code    *)
(* point sequences, against every other string a run passes.              *)
(***************************************************************************)
ByteOrderIsCodePointOrder ==
  LET cps == DecodeFrom(mem, 1) IN
  \A t \in Passed : StrCmp(mem, t \o <<0>>, 1) = SeqCmp(cps, DecodeFrom(t \o <<0>>, 1))

\* The check each test function makes of one row of its table, when the
\* row's string is the one passed.  test_utf8_decoding: decode_char's
\* code point and *len.
test_utf8_decoding(d) == d.utf8 = str => DecodeChar(mem, 1) = [cp |-> d.cp, len |-> d.len]
\* test_string_length: utf8_strlen's count, once it has returned.
test_string_length(l) == l.str = str /\ ret # -1 => ret = l.chars
\* test_collation: the sign of utf8_compare_locale against the second string.
test_collation(c) == c.s1 = str => StrCmp(mem, c.s2 \o <<0>>, 1) = c.sign
\* test_unicode_properties: get_script of the code point.
test_unicode_properties(p) == GetScript(p.cp) = p.script
\* The asserts of test-utf8.c: the byte utf8_char_at points at, and the
\* code point utf8_char_to_codepoint reads.
assert_char_at(a) == a.str = str => Byte(CharAt(mem, 1, 0, a.index)) = a.byte
assert_codepoint(c) == c.utf8 = str => CharToCodepoint(mem, 1) = c.cp

(***************************************************************************)
(* Every string the run passes meets what the suite's test functions      *)
(* expect of it: the code point and length test_utf8_decoding expects of  *)
(* decode_char, the count test_string_length expects of utf8_strlen, the  *)
(* sign test_collation expects of utf8_compare_locale, the script          *)
(* test_unicode_properties expects of get_script, and what test-utf8.c    *)
(* asserts of char_at and char_to_codepoint.  The tables' bytes are taken *)
(* from the files, so an expectation the bytes do not encode shows here.   *)
(***************************************************************************)
MeetsTestExpectations ==
  /\ \A d \in Tests.decode : test_utf8_decoding(d)
  /\ \A l \in Tests.length : test_string_length(l)
  /\ \A c \in Tests.collation : test_collation(c)
  /\ \A p \in Tests.script : test_unicode_properties(p)
  /\ \A a \in Tests.charAt : assert_char_at(a)
  /\ \A c \in Tests.codepoint : assert_codepoint(c)
==============================================================================
