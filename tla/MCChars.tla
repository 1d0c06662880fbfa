------------------------------ MODULE MCChars -------------------------------
(***************************************************************************)
(* Character set conversion on bounded texts.  A state is one case: a unit *)
(* and its input.                                                          *)
(***************************************************************************)
EXTENDS MCCases, CharConv

CONSTANTS MaxText,      \* characters of a text
          BufferSizes   \* bytes of the output buffer, 128 in the code: small ones put its end everywhere

-----------------------------------------------------------------------------
(* Texts over a few characters of each set.  A letter has at most two      *)
(* marks; in MARC-8 a script page is left for ASCII only, and no letter of *)
(* Latin-1 follows EACC.                                                   *)
IsMark(x) == x \in {\h300, \h301, \h308, \h327, \h360, \h361}
WellMarked(t) == \A i \in DOMAIN t : IsMark(t[i]) => \E k \in {1, 2} : k < i /\ ~IsMark(t[i - k])
Composable(t) == \A i \in DOMAIN t : IsMark(t[i]) => i > 1 /\ LookupX12(t[i - 1], t[i]) # {}

Alphabets ==
  [writes : {"marc8"}, reads : {"marc8", "marc8s"},
   chars : {{\h65, \he9, \h301, \h361, \h436}, {\h65, \he9, \h301, \hb2}, {\h65, \h301, \h4e00}}]
  \cup [writes : {"marc8c"}, reads : {"marc8c"}, chars : {{\h65, \he9, 10, \h436}}]
  \cup [writes : {"danmarc", "danmarc2"}, reads : {"danmarc"},
        chars : {{\h65, \h301, \h327, 64}, {\he9, \h436, \h308, \ha733}}]
  \cup [writes : {"latin1"}, reads : {"latin1"}, chars : {{\h65, \h63, \h301, \h327, 32, \hfe}}]
  \cup [writes : {"utf8"}, reads : {"utf8"}, chars : {{\h65, \he9, \h4e00, \h1f600}}]
  \cup [writes : {"ucs4le"}, reads : {"wchar_t"}, chars : {{\h65, \h1f600}}]
  \cup [writes : {"wchar_t"}, reads : {"ucs4le"}, chars : {{\h65, \h1f600}}]

TextCases == UNION {[unit : {"text"}, writes : {a.writes}, reads : {a.reads},
                     text : {t \in SeqsUpTo(a.chars, MaxText) : WellMarked(t) /\ (a.writes = "latin1" => Composable(t))},
                     size : BufferSizes] : a \in Alphabets}

Ucs4Text(t) == FoldLeft(LAMBDA a, x : a \o Ucs4Bytes(x), <<>>, t)
TextOf(bytes) == [i \in 1..(Len(bytes) \div 4) |-> Ucs4Value(SubSeq(bytes, 4 * i - 3, 4 * i))]
Decomposed(t) == FoldLeft(LAMBDA a, x : a \o (IF LookupY(x) = {} THEN <<x>> ELSE CHOOSE p \in LookupY(x) : TRUE), <<>>, t)

(* The text that is read from what was written.                            *)
BackAgain(writes, reads, text, size) ==
  LET there == Yaz.ConvertText[writes, "ucs4", Ucs4Text(text), size]
      back == Yaz.ConvertText["ucs4", reads, there.out, size]
  IN [ok |-> there.ok /\ back.ok, text |-> TextOf(back.out)]

(* A text is the same after conversion to a set and back, wherever the     *)
(* output buffer ends: within the bytes of a character, between a letter   *)
(* and its marks, or behind the escape that selects a page                 *)
(* (src/src/siconv.c:259).                                                 *)
TextsSurvive ==
  case.unit = "text" =>
    LET r == BackAgain(case.writes, case.reads, case.text, case.size)
    IN r.ok /\ Decomposed(r.text) = Decomposed(case.text)

-----------------------------------------------------------------------------
(* A character that the set does not have, somewhere in a text.            *)
Snowman == \h2603
LossCases == UNION {[unit : {"loss"}, set : {s}, size : {10, 12}, before : SeqsUpTo(cs, 2), after : SeqsUpTo(cs \ {\h301}, 2)] :
                      <<s, cs>> \in {<<"marc8", {\h65, \h301, \h436}>>, <<"marc8lossy", {\h65, \h301, \h436}>>,
                                     <<"marc8lossless", {\h65, \h301, \h436}>>, <<"latin1", {\h65, \hfe}>>,
                                     <<"advancegreek", {\h65, \h3ac}>>, <<"iso5428", {\h65, \h38a}>>}}
Substitute(set) == CASE set = "marc8lossy" -> <<124>>
                     [] set = "marc8lossless" -> <<38, 35, 120, 50, 54, 48, 51, 59>>
                     [] OTHER -> <<>>

(* A character that cannot be written costs no other: what is read back is *)
(* the text with the substitute of the set, or nothing, in its place       *)
(* (src/src/iconv_encode_marc8.c:282).                                     *)
LossIsLocal ==
  case.unit = "loss" /\ WellMarked(case.before) =>
    LET reads == IF case.set \in DOMAIN Marc8Losses THEN "marc8" ELSE case.set
    IN BackAgain(case.set, reads, case.before \o <<Snowman>> \o case.after, case.size)
         = [ok |-> TRUE, text |-> case.before \o Substitute(case.set) \o case.after]

-----------------------------------------------------------------------------
(* Bytes that may or may not be UTF-8, and code points at the limits of    *)
(* its forms.                                                              *)
ByteCases == [unit : {"bytes"}, bytes : SeqsUpTo({\h41, \h80, \h8f, \hbf, \hc1, \hc3, \he0, \hf0, \hfe}, 4) \ {<<>>}]
PointCases == [unit : {"point"}, x : UNION {{l - 1, l} : l \in {Utf8Limits[i] : i \in DOMAIN Utf8Limits}} \cup {1, \h7fffffff}]

(* UTF-8 is read strictly: bytes are taken only as the one form in which   *)
(* the code point is written, and a form cut short is incomplete, never    *)
(* wrong (src/src/utf8.c:41).                                              *)
Utf8IsStrict ==
  /\ case.unit = "bytes" =>
       LET r == ReadUtf8(case.bytes)
       IN IF r.err = NOERROR THEN SubSeq(case.bytes, 1, r.n) = Utf8Bytes(r.x) ELSE r.n = 0 /\ ~Utf8Check(case.bytes)
  /\ case.unit = "point" =>
       LET b == Utf8Bytes(case.x)
       IN /\ ReadUtf8(b) = Took(case.x, Len(b)) /\ WriteUtf8(case.x, Len(b) - 1).err = E2BIG
          /\ \A k \in 1..(Len(b) - 1) : ReadUtf8(SubSeq(b, 1, k)) = TookNone(EINVAL)

-----------------------------------------------------------------------------
GreekCases == [unit : {"greek"}, x : AllGreek, y : {\h3c2, \h3c3, \h390, \h3aa, \h65}]

(* Every Greek letter, with its accents and its case, is read from what    *)
(* either code writes for it, whatever letter follows                      *)
(* (src/src/iso5428.c:263).                                                *)
GreekSurvives ==
  case.unit = "greek" =>
    \A set \in {"advancegreek", "iso5428"} :
      BackAgain(set, set, <<case.x, case.y>>, 10) = [ok |-> TRUE, text |-> <<case.x, case.y>>]

-----------------------------------------------------------------------------
(* Letters behind their marks, with escapes to ASCII and ANSEL between.    *)
Pieces == {<<<<\he2>>, <<\h301>>>>, <<<<\he8>>, <<\h308>>>>, <<<<ESC, 41, 33, 69, \he1>>, <<\h300>>>>, <<<<ESC, 40, 66, \heb>>, <<\h361>>>>}
MarkCases == [unit : {"marks"}, from : {"marc8", "iso5426"}, marks : SeqsUpTo(Pieces, 3), letter : {\h65, \hb4}, next : {\h65, \hec}]

(* The marks read before a letter come behind it, in their order and once  *)
(* each, and the second half of a ligature is skipped                      *)
(* (src/src/iconv_decode_iso5426.c:92).                                    *)
MarksFollowLetters ==
  case.unit = "marks" =>
    LET in == FoldLeft(LAMBDA a, p : a \o p[1], <<>>, case.marks) \o <<case.letter, case.next>>
        r == Yaz.ConvertText["ucs4", case.from, in, 10]
    IN r = [ok |-> TRUE,
            out |-> Ucs4Text((IF case.letter = \hb4 THEN <<\hfe>> ELSE <<case.letter>>)
                             \o FoldLeft(LAMBDA a, p : a \o p[2], <<>>, case.marks)
                             \o (IF case.next = \hec THEN <<>> ELSE <<case.next>>))]

-----------------------------------------------------------------------------
TextUnit == case' \in TextCases
Loss == case' \in LossCases
Utf8 == case' \in ByteCases \cup PointCases
Greek == case' \in GreekCases
Marked == case' \in MarkCases
CharUnit == Utf8 \/ Greek \/ Marked \/ Loss
=============================================================================
