------------------------------ MODULE CharConv ------------------------------
(***************************************************************************)
(* Character set conversion: the sets without memory, those that remember  *)
(* what they read or wrote (MARC-8, ISO 5426, DanMARC and Latin-1), the    *)
(* loop of src/src/siconv.c that joins a decoder to an encoder, and the    *)
(* buffers of src/src/wrbuf.c that it is called with.                      *)
(*                                                                         *)
(* A decoder reads one code point at the head of "in" and gives            *)
(* [x, n, err, st]; an encoder gives [out, err, st].  The code tables made *)
(* from codetables.xml are cut down to a few characters of each page.      *)
(***************************************************************************)
EXTENDS YazTypes, TLC

-----------------------------------------------------------------------------
(* The codes without memory (src/src/utf8.c, ucs4.c, iconv_encode_wchar.c, *)
(* advancegreek.c and iso5428.c), and the letters of Latin-1 that          *)
(* iconv_encode_iso_8859_1.c takes apart.  Code points and bytes are       *)
(* numbers.  Reading at the head of "in" gives [x, n, err]: the code point,*)
(* 0 for none, and the bytes it took, 0 for an error.  Writing x with      *)
(* "room" bytes left gives [out, err].                                     *)
NOERROR == "none"
E2BIG   == "E2BIG"    \* no room for the output
EINVAL  == "EINVAL"   \* the input ends within a character
EILSEQ  == "EILSEQ"   \* not a character of this set

Took(x, n)     == [x |-> x, n |-> n, err |-> NOERROR]
TookNone(e)    == [x |-> 0, n |-> 0, err |-> e]
Wrote(bytes)  == [out |-> bytes, err |-> NOERROR]
WroteNone(e)  == [out |-> <<>>, err |-> e]

(* Bytes are written whole or not at all.                                  *)
Fits(bytes, room) == IF Len(bytes) <= room THEN Wrote(bytes) ELSE WroteNone(E2BIG)

-----------------------------------------------------------------------------
(* UTF-8, with the forms of five and six bytes.                            *)
Utf8Limits == <<\h80, \h800, \h10000, \h200000, \h4000000>>
Utf8Leads  == <<0, \hc0, \he0, \hf0, \hf8, \hfc>>

Utf8Bytes(x) ==
  LET n == 1 + Cardinality({i \in DOMAIN Utf8Limits : x >= Utf8Limits[i]})
  IN [i \in 1..n |-> IF i = 1 THEN Utf8Leads[n] + x \div 64^(n - 1)
                              ELSE \h80 + ((x \div 64^(n - i)) % 64)]

WriteUtf8(x, room) == Fits(Utf8Bytes(x), room)

(* A form may not be longer than its code point needs.                     *)
Shortest(x, n) == x >= Utf8Limits[n - 1]

ReadUtf8(in) ==
  LET lead == in[1]
      n == Cardinality({i \in DOMAIN Utf8Leads : lead >= Utf8Leads[i]})
      free == lead - Utf8Leads[n]      \* the bits of the lead byte
      x == FoldLeft(LAMBDA a, i : a * 64 + in[i] - \h80, free, [i \in 1..(n - 1) |-> i + 1])
  IN IF lead < \h80 THEN Took(lead, 1)
     ELSE IF lead < \hc0 \/ lead >= \hfe THEN TookNone(EILSEQ)
     ELSE IF Len(in) < n THEN TookNone(EINVAL)
     ELSE IF (\A i \in 2..n : in[i] \in \h80..\hbf) /\ Shortest(x, n) THEN Took(x, n)
     ELSE TookNone(EILSEQ)

(* What the decoder skips before the first character: meant for the byte   *)
(* order mark EF BB BF, the test takes EF, not BB, BF instead.             *)
InitUtf8(in) ==
  IF in = <<>> THEN Took(0, 0)
  ELSE IF in[1] # \hef THEN Took(0, 0)
  ELSE IF Len(in) < 3 THEN TookNone(EINVAL)
  ELSE Took(0, IF in[2] # \hbb /\ in[3] = \hbf THEN 3 ELSE 0)

(* yaz_utf8_check: the whole text is read without an error.                *)
RECURSIVE Utf8Check(_)
Utf8Check(in) ==
  \/ in = <<>>
  \/ LET r == ReadUtf8(in) IN r.err = NOERROR /\ Utf8Check(SubSeq(in, r.n + 1, Len(in)))

-----------------------------------------------------------------------------
(* UCS-4 in both byte orders, and wchar_t, which is the little-endian one  *)
(* on the builds modelled.                                                 *)
Ucs4Bytes(x) == <<x \div 256^3, (x \div 256^2) % 256, (x \div 256) % 256, x % 256>>
Ucs4Value(b) == ((b[1] * 256 + b[2]) * 256 + b[3]) * 256 + b[4]

WriteUcs4(x, room)   == Fits(Ucs4Bytes(x), room)
WriteUcs4LE(x, room) == Fits(Reverse(Ucs4Bytes(x)), room)
WriteWchar(x, room)  == Fits(Reverse(Ucs4Bytes(x)), room)

ReadUcs4(in)   == IF Len(in) < 4 THEN TookNone(EINVAL) ELSE Took(Ucs4Value(in), 4)
ReadUcs4LE(in) == IF Len(in) < 4 THEN TookNone(EINVAL) ELSE Took(Ucs4Value(Reverse(SubSeq(in, 1, 4))), 4)
ReadWchar(in)  == IF Len(in) < 4 THEN TookNone(EINVAL) ELSE Took(Ucs4Value(Reverse(SubSeq(in, 1, 4))), 4)

-----------------------------------------------------------------------------
(* Greek.  Both codes write a letter behind the bytes of its accents.      *)
Alpha == \h3b1
Omega == \h3c9
FinalSigma == \h3c2
Capital(x) == IF x = FinalSigma THEN x ELSE x - 32

(* The vowels with tonos, with dialytika and with both: what is read.      *)
Tonos == (\h3b1 :> \h3ac) @@ (\h3b5 :> \h3ad) @@ (\h3b7 :> \h3ae) @@ (\h3b9 :> \h3af)
         @@ (\h3bf :> \h3cc) @@ (\h3c5 :> \h3cd) @@ (\h3c9 :> \h3ce)
         @@ (\h391 :> \h386) @@ (\h395 :> \h388) @@ (\h397 :> \h389) @@ (\h399 :> \h38a)
         @@ (\h39f :> \h38c) @@ (\h3a5 :> \h38e) @@ (\h3a9 :> \h38f)
Dialytika == (\h3b9 :> \h3ca) @@ (\h3c5 :> \h3cb) @@ (\h399 :> \h3aa) @@ (\h3a5 :> \h3ab)
Both == (\h3b9 :> \h390) @@ (\h3c5 :> \h3b0)

GreekLetter(letter, tonos, dialytika) ==
  IF tonos /\ dialytika /\ letter \in DOMAIN Both THEN Both[letter]
  ELSE IF tonos /\ letter \in DOMAIN Tonos THEN Tonos[letter]
  ELSE IF dialytika /\ letter \in DOMAIN Dialytika THEN Dialytika[letter]
  ELSE letter

(* The rows of the writers' tables for accented letters: the accents, t    *)
(* and d, and the letter they are written with.                            *)
GreekRows ==
     (\h3ac :> <<"t", \h3b1>>) @@ (\h3ad :> <<"t", \h3b5>>) @@ (\h3ae :> <<"t", \h3b7>>)
  @@ (\h3af :> <<"t", \h3b9>>) @@ (\h3cc :> <<"t", \h3bf>>) @@ (\h3cd :> <<"t", \h3c5>>)
  @@ (\h3ce :> <<"t", \h3c9>>) @@ (\h390 :> <<"td", \h3b9>>) @@ (\h3b0 :> <<"td", \h3c5>>)
  @@ (\h386 :> <<"t", \h391>>) @@ (\h388 :> <<"t", \h395>>) @@ (\h389 :> <<"t", \h397>>)
  @@ (\h38a :> <<"t", \h399>>) @@ (\h38c :> <<"t", \h39f>>) @@ (\h38e :> <<"t", \h3a5>>)
  @@ (\h38f :> <<"t", \h3a9>>) @@ (\h3ca :> <<"d", \h3b9>>) @@ (\h3cb :> <<"d", \h3c5>>)
  @@ (\h3aa :> <<"d", \h399>>) @@ (\h3ab :> <<"d", \h3a5>>)
GreekRow(x) == IF x \in DOMAIN GreekRows THEN GreekRows[x] ELSE <<"", x>>

GreekLetters == Alpha..Omega \cup (\h391..\h3a9 \ {\h3a2})
AllGreek == GreekLetters \cup DOMAIN GreekRows

Accents(marks, tonos, dialytika) ==
  CASE marks = "t" -> <<tonos>> [] marks = "d" -> <<dialytika>> [] marks = "td" -> <<tonos, dialytika>> [] OTHER -> <<>>

(* How many of the bytes at the head of "in" are among the marks.          *)
MarksAhead(in, marks) == Lowest({i \in 1..Len(in) : in[i] \notin marks} \cup {Len(in) + 1}) - 1

(* advancegreek: capitals are small letters behind the shift mark.         *)
WriteAdvanceGreek(x, room) ==
  LET row == GreekRow(x)
      small == IF row[2] < Alpha THEN row[2] + 32 ELSE row[2]
  IN IF room < 3 THEN WroteNone(E2BIG)
     ELSE IF x \in AllGreek
            THEN Wrote(Accents(row[1], \h9d, \h9e) \o (IF small # row[2] THEN <<\h9f>> ELSE <<>>)
                       \o <<\h81 + small - Alpha>>)
     ELSE IF x > 255 THEN WroteNone(EILSEQ) ELSE Wrote(<<x>>)

ReadAdvanceGreek(in) ==
  LET k == MarksAhead(in, {\h9d, \h9e, \h9f})
      marks == {in[i] : i \in 1..k}
      b == in[k + 1]
      small == Alpha + b - \h81
  IN IF k = Len(in) THEN TookNone(EINVAL)
     ELSE Took(IF b \in \h81..\h99
                THEN GreekLetter(IF \h9f \in marks THEN Capital(small) ELSE small, \h9d \in marks, \h9e \in marks)
                ELSE b, k + 1)

(* ISO 5428: the codes of the small letters from alpha to omega, the       *)
(* capitals 32 below them; the final sigma has no capital.                 *)
Iso5428Codes == <<\he1, \he2, \he4, \he5, \he6, \he9, \hea, \heb, \hec, \hed, \hee, \hef, \hf0,
                  \hf1, \hf2, \hf3, \hf5, \hf7, \hf6, \hf8, \hf9, \hfa, \hfb, \hfc, \hfd>>

Iso5428Byte(x) == IF x < Alpha THEN Iso5428Codes[x + 32 - Alpha + 1] - 32 ELSE Iso5428Codes[x - Alpha + 1]

WriteIso5428(x, room) ==
  LET row == GreekRow(x)
  IN IF room < 3 THEN WroteNone(E2BIG)
     ELSE IF x \in AllGreek THEN Wrote(Accents(row[1], \ha2, \ha3) \o <<Iso5428Byte(row[2])>>)
     ELSE IF x > 255 THEN WroteNone(EILSEQ) ELSE Wrote(<<x>>)

ReadIso5428(in) ==
  LET k == MarksAhead(in, {\ha2, \ha3})
      marks == {in[i] : i \in 1..k}
      b == in[k + 1]
      smalls == {i \in DOMAIN Iso5428Codes : Iso5428Codes[i] = b}
      capitals == {i \in DOMAIN Iso5428Codes : Iso5428Codes[i] = b + 32 /\ Alpha + i - 1 # FinalSigma}
  IN IF k = Len(in) THEN TookNone(EINVAL)
     ELSE Took(IF smalls \cup capitals = {} THEN b
              ELSE GreekLetter(Alpha + Lowest(smalls \cup capitals) - 1 - (IF smalls = {} THEN 32 ELSE 0),
                               \ha2 \in marks, \ha3 \in marks), k + 1)

-----------------------------------------------------------------------------
(* Rows of latin1_comb: letter, combining mark, the letter of Latin-1.     *)
Latin1Comb == {<<\h41, \h300, \hc0>>, <<\h65, \h301, \he9>>, <<\h65, \h308, \heb>>, <<\h63, \h327, \he7>>}

LookupX12(x1, x2) == {r[3] : r \in {q \in Latin1Comb : q[1] = x1 /\ q[2] = x2}}
LookupY(y) == {<<r[1], r[2]>> : r \in {q \in Latin1Comb : q[3] = y}}

ReadLatin1(in) == Took(in[1], 1)

-----------------------------------------------------------------------------
(* The codes with memory.                                                  *)
Ligature == \h361
DoubleTilde == \h360

With(r, st) == [x \in DOMAIN r \cup {"st"} |-> IF x = "st" THEN st ELSE r[x]]
From(in, n) == SubSeq(in, n + 1, Len(in))

-----------------------------------------------------------------------------
(* The pages of MARC-8: the escape that selects each, its final character, *)
(* and the rows of its table as <<bytes, code point, combining>>.          *)
ESC == 27
ASCII == <<ESC, 40, 66>>
LeaveScript == <<ESC, 115>>
Scripts == {<<ESC, 112>>, <<ESC, 103>>, <<ESC, 98>>}

AsciiRows == {<<<<c>>, c, FALSE>> : c \in 32..126}
AnselRows == {<<<<\he1>>, \h300, TRUE>>, <<<<\he2>>, \h301, TRUE>>, <<<<\he8>>, \h308, TRUE>>,
              <<<<\hf0>>, \h327, TRUE>>, <<<<\heb>>, \h361, TRUE>>, <<<<\hfa>>, \h360, TRUE>>, <<<<\hb4>>, \hfe, FALSE>>}
Table(mode) ==
  CASE mode \in {66, 115} -> AsciiRows
    [] mode = 69  -> AnselRows
    [] mode = 98  -> {<<<<\h32>>, \h2082, FALSE>>}                \* subscripts
    [] mode = 112 -> {<<<<\h32>>, \hb2, FALSE>>}                  \* superscripts
    [] mode = 78  -> {<<<<\h56>>, \h436, FALSE>>}                 \* Cyrillic
    [] mode = 49  -> {<<<<\h21, \h30, \h21>>, \h4e00, FALSE>>}    \* EACC
    [] OTHER -> {}
Modes == {66, 115, 69, 98, 112, 78, 49}

(* lookup_marc8: the pages in the order in which they are tried.           *)
MarcPages == <<<<66, ASCII>>, <<69, ASCII>>, <<98, <<ESC, 98>>>>, <<112, <<ESC, 112>>>>,
               <<78, <<ESC, 40, 78>>>>, <<49, <<ESC, 36, 49>>>>>>
LookupMarc8(x) ==
  LET rows == {<<i, r>> \in (DOMAIN MarcPages) \X UNION {Table(m) : m \in Modes} :
                 r \in Table(MarcPages[i][1]) /\ r[2] = x}
      first == CHOOSE p \in rows : \A q \in rows : p[1] <= q[1]
  IN IF rows = {} THEN <<>>
     ELSE <<[y |-> first[2][1], comb |-> first[2][3], page |-> MarcPages[first[1]][2]]>>

-----------------------------------------------------------------------------
(* The MARC-8 encoder: a letter waits in "last" for the marks that follow  *)
(* it, since MARC-8 has them before it.  last is <<>> for none.            *)
InitMarc8 == [half |-> <<>>, last |-> <<>>, ncr |-> FALSE, lpage |-> <<>>, g0 |-> ASCII, g1 |-> <<>>]

Done(st, out) == [out |-> out, err |-> NOERROR, st |-> st]
Fails(st, out, e) == [out |-> out, err |-> e, st |-> st]

(* Leaving a script page costs an escape of its own.                       *)
PageEscape(old, page) ==
  IF old \in Scripts THEN LeaveScript \o (IF page # ASCII THEN ASCII ELSE <<>>) ELSE page

WritePage(w, page, room) ==
  LET g == IF page[2] = 41 THEN "g1" ELSE "g0"
  IN IF w[g] = page THEN Done(w, <<>>)
     ELSE IF room < 8 THEN Fails(w, <<>>, E2BIG)
     ELSE Done([w EXCEPT ![g] = page], PageEscape(w[g], page))

(* "&#x%04x;"                                                              *)
LowerHex(d) == IF d < 10 THEN 48 + d ELSE 87 + d

Ncr(x) == <<38, 35, 120>> \o [i \in 1..4 |-> LowerHex((x \div 16^(4 - i)) % 16)] \o <<59>>

Flushed(w) == [w EXCEPT !.last = <<>>, !.ncr = FALSE, !.lpage = <<>>, !.half = <<>>]

FlushCombos(w, room) ==
  LET p == WritePage(w, w.lpage, room)
      bytes == (IF w.ncr THEN Ncr(w.last[1]) ELSE w.last) \o w.half
  IN IF w.last = <<>> THEN Done(w, <<>>)
     ELSE IF p.err # NOERROR THEN p
     ELSE IF 9 >= room - Len(p.out) THEN Fails(p.st, p.out, E2BIG)
     ELSE Done(Flushed(p.st), p.out \o bytes)

(* What stands for a character that MARC-8 does not have.                  *)
Stand(x, loss) ==
  CASE loss = "lossy"    -> <<[y |-> <<124>>, ncr |-> FALSE]>>
    [] loss = "lossless" -> <<[y |-> <<x>>, ncr |-> TRUE]>>
    [] loss = "control" /\ x < 32 /\ x # ESC -> <<[y |-> <<x>>, ncr |-> FALSE]>>
    [] OTHER -> <<>>

WriteMarc8Char(w, x, room, loss) ==
  LET row == LookupMarc8(x)
      stand == Stand(x, loss)
      mark == row # <<>> /\ row[1].comb
      p == WritePage(w, row[1].page, room)
      half == [p.st EXCEPT !.half = CASE x = Ligature -> <<\hec>> [] x = DoubleTilde -> <<\hfb>> [] OTHER -> @]
      f == FlushCombos(w, room)
  IN IF row = <<>> /\ stand = <<>> THEN Fails(w, <<>>, EILSEQ)
     ELSE IF mark
       THEN IF p.err # NOERROR THEN p
            ELSE IF room - Len(p.out) <= 1 THEN Fails(half, p.out, E2BIG)
            ELSE Done(half, p.out \o row[1].y)
     ELSE IF f.err # NOERROR THEN f
     ELSE Done([f.st EXCEPT !.last = IF row # <<>> THEN row[1].y ELSE stand[1].y,
                            !.lpage = IF row # <<>> THEN row[1].page ELSE ASCII,
                            !.ncr = row = <<>> /\ stand[1].ncr], f.out)

(* A letter of Latin-1 is written as letter and mark; when the mark does   *)
(* not fit, output and letter are taken back, the page is not.             *)
WriteMarc8(w, x, room, loss) ==
  IF LookupY(x) = {} THEN WriteMarc8Char(w, x, room, loss)
  ELSE LET x12 == CHOOSE p \in LookupY(x) : TRUE
           a == WriteMarc8Char(w, x12[1], room, loss)
           b == WriteMarc8Char(a.st, x12[2], room - Len(a.out), loss)
       IN IF a.err # NOERROR THEN a
          ELSE IF b.err = E2BIG
            THEN Fails([b.st EXCEPT !.last = w.last, !.ncr = w.ncr, !.lpage = w.lpage], <<>>, E2BIG)
          ELSE [b EXCEPT !.out = a.out \o b.out]

FlushMarc8(w, room) ==
  LET f == FlushCombos(w, room)
      p == WritePage([f.st EXCEPT !.g1 = <<>>], ASCII, room - Len(f.out))
  IN IF f.err # NOERROR THEN f ELSE [p EXCEPT !.out = f.out \o p.out]

-----------------------------------------------------------------------------
(* The Latin-1 encoder: a letter waits in "compose" for a mark.            *)
WriteLatin1(w, x0, room) ==
  LET found == LookupX12(w.compose, x0)
      x == IF w.compose # 0 /\ found # {} THEN CHOOSE y \in found : TRUE ELSE x0
      out == IF w.compose # 0 /\ found = {} THEN <<w.compose>> ELSE <<>>
      free == [w EXCEPT !.compose = 0]
  IN IF w.compose # 0 /\ room < 1 THEN Fails(w, <<>>, E2BIG)
     ELSE IF x > 32 /\ x < 127 THEN Done([w EXCEPT !.compose = x], out)
     ELSE IF x > 255 \/ x < 1 THEN Fails(free, out, EILSEQ)
     ELSE IF room - Len(out) < 1 THEN Fails(free, out, E2BIG)
     ELSE Done(free, Append(out, x))

FlushLatin1(w, room) ==
  IF w.compose = 0 THEN Done(w, <<>>)
  ELSE IF room < 1 THEN Fails(w, <<>>, E2BIG)
  ELSE Done([w EXCEPT !.compose = 0], <<w.compose>>)

-----------------------------------------------------------------------------
(* DanMARC: marks are written backwards before their letter.               *)
MaxComp == 4
IsCombining(x) == \E r \in {<<\h300, \h36f>>, <<\h1ab0, \h1aff>>, <<\h1dc0, \h1dff>>, <<\h20d0, \h20ff>>, <<\hfe20, \hfe2f>>} :
                    x \in r[1]..r[2]

(* Rows of swap_seq: a spacing accent and the mark it stands for.          *)
SwapSeq == {<<\h5e, \h302>>, <<\h60, \h300>>, <<\ha8, \h308>>, <<\hb4, \h301>>, <<\hb8, \h327>>}
SwapToDanmarc(x) == IF \E r \in SwapSeq : r[2] = x THEN (CHOOSE r \in SwapSeq : r[2] = x)[1] ELSE x
SwapToUtf8(x) == IF \E r \in SwapSeq : r[1] = x THEN (CHOOSE r \in SwapSeq : r[1] = x)[2] ELSE x

HexDigit(d) == IF d < 10 THEN 48 + d ELSE 55 + d
HexValue(c) == IF c \in 48..57 THEN c - 48 ELSE IF c \in 65..70 THEN c - 55 ELSE c - 87
IsHex(c) == c \in 48..57 \cup 65..70 \cup 97..102

(* sscanf("%nlx"): the digits at the head; dflt when there is none.        *)
ScanHex(s, dflt) ==
  LET k == MarksAhead(s, {c \in 0..255 : IsHex(c)})
  IN IF k = 0 THEN dflt ELSE FoldLeft(LAMBDA a, i : a * 16 + HexValue(s[i]), 0, UpTo(k))

WriteDanmarc1(x, room) ==
  IF x \in {42, 64} THEN Fits(<<64, x>>, room)
  ELSE IF x <= 255 THEN Fits(<<x>>, room)
  ELSE IF x > \hffff THEN WroteNone(EILSEQ)
  ELSE IF room < 6 THEN WroteNone(E2BIG)
  ELSE Wrote(CASE x = \ha733 -> <<64, \he5>> [] x = \ha732 -> <<64, \hc5>>
               [] OTHER -> <<64>> \o [i \in 1..4 |-> HexDigit((x \div 16^(4 - i)) % 16)])

(* The marks still to be written, then the letter; stops at the first that *)
(* does not go, which stays.                                               *)
RECURSIVE DrainDanmarc(_, _, _)
DrainDanmarc(w, room, dia) ==
  LET mark == w.comp[Len(w.comp)]
      r == IF w.comp # <<>> THEN WriteDanmarc1(IF dia THEN SwapToDanmarc(mark) ELSE mark, room)
                            ELSE WriteDanmarc1(w.base, room)
      next == IF w.comp # <<>> THEN [w EXCEPT !.comp = Front(@)] ELSE [w EXCEPT !.base = 0]
      rest == DrainDanmarc(next, room - Len(r.out), dia)
  IN IF w.comp = <<>> /\ w.base = 0 THEN Done(w, <<>>)
     ELSE IF r.err # NOERROR THEN Fails(w, <<>>, r.err)
     ELSE [rest EXCEPT !.out = r.out \o rest.out]

FlushDanmarc(w, room, dia) ==
  LET y == IF Len(w.comp) = 1 THEN LookupX12(w.base, w.comp[1]) ELSE {}
  IN DrainDanmarc(IF y = {} THEN w ELSE [comp |-> <<>>, base |-> CHOOSE c \in y : TRUE], room, dia)

WriteDanmarc(w, x, room, dia) ==
  LET held == IF IsCombining(x) THEN [w EXCEPT !.comp = Append(@, x)] ELSE w
      f == FlushDanmarc(held, room, dia)
  IN IF IsCombining(x) /\ Len(held.comp) < MaxComp THEN Done(held, <<>>)
     ELSE IF f.err # NOERROR THEN f
     ELSE [f EXCEPT !.st = [f.st EXCEPT !.base = x]]

(* Rows of u_seq, the old two-digit form.                                  *)
USeq == {<<\hd8, \h2014>>, <<\he0, \h309>>, <<\hfc, \h308>>}
ReadUseq(in) ==
  LET x == ScanHex(SubSeq(in, 3, 4), 0)
  IN IF Len(in) < 4 THEN TookNone(EINVAL)
     ELSE Took(IF \E r \in USeq : r[1] = x THEN (CHOOSE r \in USeq : r[1] = x)[2] ELSE x, 4)

ReadDanmarc1(in) ==
  IF in = <<>> THEN TookNone(EINVAL)
  ELSE IF in[1] # 64 THEN Took(in[1], 1)
  ELSE IF Len(in) < 2 THEN TookNone(EINVAL)
  ELSE IF in[2] \in {64, 42, \ha4} THEN Took(in[2], 2)
  ELSE IF in[2] = \he5 THEN Took(\ha733, 2)
  ELSE IF in[2] = \hc5 THEN Took(\ha732, 2)
  ELSE IF in[2] = 85 THEN ReadUseq(in)
  ELSE IF Len(in) < 5 THEN TookNone(EINVAL)
  ELSE Took(ScanHex(SubSeq(in, 2, 5), 64), 5)

RECURSIVE GatherDanmarc(_, _)
GatherDanmarc(st, in) ==
  LET r == ReadDanmarc1(in)
      x == SwapToUtf8(r.x)
  IN IF Len(st) >= MaxComp \/ ~IsCombining(x) THEN With([r EXCEPT !.x = x], st)
     ELSE GatherDanmarc(Append(st, <<x, r.n>>), From(in, r.n))

(* Letters come first, the marks read before them last in, first out.      *)
ReadDanmarc(st, in) ==
  IF st = <<>> THEN GatherDanmarc(st, in)
  ELSE With(Took(Last(st)[1], Last(st)[2]), Front(st))

-----------------------------------------------------------------------------
(* The decoders of MARC-8 and ISO 5426: the marks before a letter are kept *)
(* in "combs" and follow it.                                               *)
MaxCombs == 8
InitReader(control) == [g0 |-> 66, g1 |-> 69, off |-> 0, combs |-> <<>>, control |-> control]

(* One escape at the head of "in": its length, 0 when incomplete, and what *)
(* it selects.                                                             *)
Escape(in) ==
  LET a == IF Len(in) >= 2 /\ in[2] = 36 THEN 3 ELSE 2
      toG1 == Len(in) >= a /\ in[a] \in {41, 45}
      b == IF toG1 \/ (Len(in) >= a /\ in[a] \in {40, 44}) THEN a + 1 ELSE a
      c == IF Len(in) >= b /\ in[b] = 33 THEN b + 1 ELSE b
  IN [n |-> IF Len(in) < c THEN 0 ELSE c, slot |-> IF toG1 THEN "g1" ELSE "g0", final |-> c]

(* The table's row at the head of "in"; a byte that matches none is        *)
(* skipped.                                                                *)
TableRow(mode, in) ==
  LET c(b) == IF mode = 69 THEN (b % 128) + 128 ELSE b % 128
      rows == {r \in Table(mode) : Len(r[1]) <= Len(in) /\ \A i \in DOMAIN r[1] : r[1][i] = c(in[i])}
      row == CHOOSE r \in rows : TRUE
  IN IF rows = {} THEN [x |-> 0, n |-> 1, err |-> NOERROR, comb |-> FALSE]
     ELSE [x |-> row[2], n |-> Len(row[1]), err |-> NOERROR, comb |-> row[3]]

RECURSIVE ReadComb(_, _, _, _)
ReadComb(st, in, n, modes) ==
  LET e == Escape(in)
      mode == IF in[1] < 128 THEN st.g0 ELSE st.g1
      r == TableRow(mode, in)
      plain(x, k) == [x |-> x, n |-> k, err |-> NOERROR, comb |-> FALSE, st |-> st]
      none(err) == [x |-> 0, n |-> 0, err |-> err, comb |-> FALSE, st |-> st]
  IN IF in = <<>> THEN plain(0, n)
     ELSE IF in[1] = ESC
       THEN IF e.n = 0 THEN none(EINVAL)
            ELSE ReadComb([st EXCEPT ![e.slot] = in[e.final]], From(in, e.n), n + e.n, modes)
     ELSE IF in[1] = 32 \/ (in[1] < 32 /\ st.control) THEN plain(in[1], n + 1)
     ELSE IF mode \notin modes THEN none(EILSEQ)
     ELSE [x |-> r.x, n |-> n + r.n, err |-> NOERROR, comb |-> r.comb, st |-> st]

ReadMarc8Comb(st, in)   == ReadComb(st, in, 0, Modes)
ReadIso5426Comb(st, in) == ReadComb(st, in, 0, {66, 115, 69})

(* A mark waits for its letter.                                            *)
Waits(r) == r.comb /\ r.x # 0

RECURSIVE Gather(_, _, _, _)
Gather(One(_, _), st, in, last) ==
  LET r == One(st, in)
  IN IF Len(st.combs) = MaxCombs THEN With(last, st)
     ELSE IF in = <<>> /\ st.combs # <<>> THEN With(TookNone(EINVAL), st)
     ELSE IF ~Waits(r) THEN r
     ELSE Gather(One, [r.st EXCEPT !.combs = Append(@, <<r.x, r.n>>)], From(in, r.n), Took(r.x, r.n))

ReadMarked(One(_, _), st, in) ==
  IF st.off < Len(st.combs)
    THEN With(Took(st.combs[st.off + 1][1], st.combs[st.off + 1][2]), [st EXCEPT !.off = @ + 1])
    ELSE Gather(One, [st EXCEPT !.off = 0, !.combs = <<>>], in, Took(0, 0))

ReadMarc8(st, in)   == ReadMarked(ReadMarc8Comb, st, in)
ReadIso5426(st, in) == ReadMarked(ReadIso5426Comb, st, in)

(* MARC8s: a letter with one mark becomes a letter of Latin-1.             *)
ReadMarc8s(st, in) ==
  LET r == ReadMarc8(st, in)
      y == IF Len(r.st.combs) = 1 /\ r.x # 0 THEN LookupX12(r.x, r.st.combs[1][1]) ELSE {}
  IN IF y = {} THEN r
     ELSE [r EXCEPT !.x = CHOOSE c \in y : TRUE, !.n = @ + r.st.combs[1][2], !.st = [r.st EXCEPT !.combs = <<>>]]

-----------------------------------------------------------------------------
(* The tables of src/src/siconv.c: what each name opens.                   *)
Marc8Losses == ("marc8" :> "normal") @@ ("marc8s" :> "normal") @@ ("marc8lossy" :> "lossy")
               @@ ("marc8lossless" :> "lossless") @@ ("marc8c" :> "control")

InitEncoder(to) ==
  CASE to \in DOMAIN Marc8Losses -> InitMarc8
    [] to = "latin1" -> [compose |-> 0]
    [] to \in {"danmarc", "danmarc2"} -> [comp |-> <<>>, base |-> 0]
    [] OTHER -> <<>>

Write(to, st, x, room) ==
  CASE to \in DOMAIN Marc8Losses -> WriteMarc8(st, x, room, Marc8Losses[to])
    [] to = "utf8" -> With(WriteUtf8(x, room), st)
    [] to = "ucs4" -> With(WriteUcs4(x, room), st)
    [] to = "ucs4le" -> With(WriteUcs4LE(x, room), st)
    [] to = "latin1" -> WriteLatin1(st, x, room)
    [] to = "iso5428" -> With(WriteIso5428(x, room), st)
    [] to = "advancegreek" -> With(WriteAdvanceGreek(x, room), st)
    [] to = "wchar_t" -> With(WriteWchar(x, room), st)
    [] to \in {"danmarc", "danmarc2"} -> WriteDanmarc(st, x, room, to = "danmarc2")

Flush(to, st, room) ==
  CASE to \in DOMAIN Marc8Losses -> FlushMarc8(st, room)
    [] to = "latin1" -> FlushLatin1(st, room)
    [] to \in {"danmarc", "danmarc2"} -> FlushDanmarc(st, room, to = "danmarc2")
    [] OTHER -> Done(st, <<>>)

InitDecoder(from) ==
  CASE from \in {"marc8", "marc8s", "iso5426"} -> InitReader(FALSE)
    [] from = "marc8c" -> InitReader(TRUE)
    [] OTHER -> <<>>

(* The bytes a decoder skips before the first character.                   *)
Lead(from, in) == IF from = "utf8" THEN InitUtf8(in) ELSE Took(0, 0)

Read(from, st, in) ==
  CASE from \in {"marc8", "marc8c"} -> ReadMarc8(st, in)
    [] from = "marc8s" -> ReadMarc8s(st, in)
    [] from = "iso5426" -> ReadIso5426(st, in)
    [] from = "utf8" -> With(ReadUtf8(in), st)
    [] from = "ucs4" -> With(ReadUcs4(in), st)
    [] from = "ucs4le" -> With(ReadUcs4LE(in), st)
    [] from = "latin1" -> With(ReadLatin1(in), st)
    [] from = "iso5428" -> With(ReadIso5428(in), st)
    [] from = "advancegreek" -> With(ReadAdvanceGreek(in), st)
    [] from = "wchar_t" -> With(ReadWchar(in), st)
    [] from \in {"danmarc", "danmarc2"} -> ReadDanmarc(st, in)

(* yaz_iconv_open: cd keeps the states of both sides and, when the output  *)
(* was full, the character that was read but not written.                  *)
IconvOpen(to, from) == [to |-> to, from |-> from, init |-> TRUE, unget |-> 0, noRead |-> 0,
                   enc |-> InitEncoder(to), dec |-> InitDecoder(from), err |-> NOERROR]

(* (mutant) The character that did not fit is forgotten.                   *)
Held_Forgotten(cd, w, got) == [cd EXCEPT !.enc = w.st, !.dec = got.st, !.err = E2BIG, !.unget = 0]

Held(cd, w, got) == [cd EXCEPT !.enc = w.st, !.dec = got.st, !.err = E2BIG, !.unget = got.x, !.noRead = got.n]

(* The loop of yaz_iconv: gives [cd, n, out, r], r = -1 for an error.  A   *)
(* character the encoder refuses is left out silently.                     *)
RECURSIVE Loop(_, _, _, _, _)
Loop(cd, in, room, n, out) ==
  LET got == IF cd.unget # 0 THEN With(Took(cd.unget, cd.noRead), cd.dec) ELSE Read(cd.from, cd.dec, in)
      w == IF got.x = 0 THEN Done(cd.enc, <<>>) ELSE Write(cd.to, cd.enc, got.x, room)
  IN IF cd.unget = 0 /\ in = <<>> THEN [cd |-> cd, n |-> n, out |-> out, r |-> n]
     ELSE IF got.n = 0 THEN [cd |-> [cd EXCEPT !.dec = got.st, !.err = got.err], n |-> n, out |-> out, r |-> -1]
     ELSE IF w.err = E2BIG THEN [cd |-> Held(cd, w, got), n |-> n, out |-> out \o w.out, r |-> -1]
     ELSE Loop([cd EXCEPT !.enc = w.st, !.dec = got.st, !.unget = 0], From(in, got.n), room - Len(w.out),
               n + got.n, out \o w.out)

(* The first call after opening or after a flush resets both sides.        *)
Started(cd) == IF cd.init THEN IconvOpen(cd.to, cd.from) ELSE cd

Iconv(cd0, in, room) ==
  LET cd == Started(cd0)
      lead == IF cd.init THEN Lead(cd.from, in) ELSE Took(0, 0)
  IN IF lead.err # NOERROR THEN [cd |-> [cd EXCEPT !.err = lead.err], n |-> 0, out |-> <<>>, r |-> -1]
     ELSE Loop([cd EXCEPT !.init = FALSE], From(in, lead.n), room, lead.n, <<>>)

(* Without input the held character and what the encoder waits with go     *)
(* out.                                                                    *)
IconvFlush(cd0, room) ==
  LET cd == Started(cd0)
      w == IF cd.unget # 0 THEN Write(cd.to, cd.enc, cd.unget, room) ELSE Done(cd.enc, <<>>)
      f == Flush(cd.to, w.st, room - Len(w.out))
  IN [cd |-> [cd EXCEPT !.enc = f.st, !.unget = 0, !.init = f.err = NOERROR, !.err = f.err],
      out |-> w.out \o f.out, r |-> IF f.err = NOERROR THEN 0 ELSE -1]

(* wrbuf_iconv_write2, with an output buffer of "size" bytes (128 in the   *)
(* code): again and again until the input is used up.  On an error other   *)
(* than a full buffer what the last call converted is lost.                *)
RECURSIVE WrbufWrite(_, _, _)
WrbufWrite(cd, in, size) ==
  LET r == Iconv(cd, in, size)
      rest == WrbufWrite(r.cd, From(in, r.n), size)
  IN IF in = <<>> THEN [cd |-> cd, out |-> <<>>, ok |-> TRUE]
     ELSE IF r.r = -1 /\ r.cd.err # E2BIG THEN [cd |-> r.cd, out |-> <<>>, ok |-> FALSE]
     ELSE [rest EXCEPT !.out = r.out \o rest.out]

ResetSize == 16
WrbufReset(cd) ==
  LET f == IconvFlush(cd, ResetSize) IN [cd |-> f.cd, out |-> IF f.r = -1 THEN <<>> ELSE f.out]

(* A text as its callers convert it: written, then reset.                  *)
ConvertText(to, from, in, size) ==
  LET w == WrbufWrite(IconvOpen(to, from), in, size)
  IN [out |-> w.out \o WrbufReset(w.cd).out, ok |-> w.ok]
=============================================================================
