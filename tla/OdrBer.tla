------------------------------- MODULE OdrBer -------------------------------
(***************************************************************************)
(* ODR, the BER library under every Z39.50 message (src/src/odr_*.c and    *)
(* ber_*.c): octets are numbers, a buffer is a sequence of them and at is  *)
(* the place of the next one.  A type says what an odr_ function of that   *)
(* name does with a value; an optional value is a sequence of at most one. *)
(* Integers are IntOctets long where the code's are 8.                     *)
(***************************************************************************)
EXTENDS YazTypes

IntOctets == 3
IntModulus == 256 ^ IntOctets

-----------------------------------------------------------------------------
(* The digits of n to the base, most significant first; at least one.      *)
RECURSIVE Digits(_, _)
Digits(n, base) == IF n < base THEN <<n>> ELSE Append(Digits(n \div base, base), n % base)

(* Septets, all but the last with the high bit.                            *)
Septets(n) == LET d == Digits(n, 128) IN [i \in DOMAIN d |-> IF i = Len(d) THEN d[i] ELSE d[i] + 128]

BerEnctag(id, cons) ==
  LET first == id[1] * 64 + cons * 32
  IN IF id[2] <= 30 THEN <<first + id[2]>> ELSE <<first + 31>> \o Septets(id[2])

(* The septets from at on: their number and value, no number when there    *)
(* are too few.                                                            *)
ReadSeptets(buf, at) ==
  LET last == Lowest({i \in at..Len(buf) : buf[i] < 128})
  IN IF last = 0 THEN [n |-> 0, v |-> 0]
     ELSE [n |-> last - at + 1,
           v |-> FoldLeft(LAMBDA v, i : v * 128 + (buf[at + i - 1] % 128), 0, UpTo(last - at + 1))]

BerDectag(buf, at) ==
  IF at > Len(buf) THEN [n |-> -1]
  ELSE LET b == buf[at]
           more == ReadSeptets(buf, at + 1)
           long == b % 32 = 31
       IN IF long /\ more.n = 0 THEN [n |-> -1]
          ELSE [n |-> IF long THEN 1 + more.n ELSE 1,
                id |-> <<b \div 64, IF long THEN more.v ELSE b % 32>>, cons |-> (b \div 32) % 2]

(* ber_enclen: a length that does not fit into one octet where one was     *)
(* reserved is indefinite.                                                 *)
BerEnclen(len, lenlen, exact) ==
  IF len <= 127 /\ (lenlen = 1 \/ ~exact) THEN <<len>>
  ELSE IF lenlen = 1 THEN <<128>>
  ELSE LET d == Digits(len, 256)
           pad == IF exact THEN [i \in 1..(lenlen - 1 - Len(d)) |-> 0] ELSE <<>>
       IN <<128 + Len(pad \o d)>> \o pad \o d

(* n: octets read, -1 too few of them, -2 no length; len -1: indefinite.   *)
BerDeclen(buf, at) ==
  IF at > Len(buf) THEN [n |-> -1, len |-> 0]
  ELSE LET b == buf[at]
           k == b - 128
       IN CASE b = 128 -> [n |-> 1, len |-> -1]
            [] b < 128 -> [n |-> 1, len |-> b]
            [] b = 255 -> [n |-> -2, len |-> 0]
            [] k >= Len(buf) - at + 1 -> [n |-> -1, len |-> 0]
            [] k > 3 -> [n |-> -2, len |-> 0]
            [] OTHER -> [n |-> k + 1, len |-> FoldLeft(LAMBDA v, i : v * 256 + buf[at + i], 0, UpTo(k))]

(* completeBER_n: the length of the element at a place, 0 when it is not   *)
(* all there, -1 for none; children of the element from c on.              *)
RECURSIVE CompleteBER(_, _), CompleteChildren(_, _)
CompleteBER(buf, at) ==
  LET left == Len(buf) - at + 1
      tag == BerDectag(buf, at)
      len == BerDeclen(buf, at + tag.n)
      head == tag.n + len.n
      rest == CompleteChildren(buf, at + head)
  IN CASE left < 2 -> 0
       [] buf[at] = 0 /\ buf[at + 1] = 0 -> -1
       [] tag.n <= 0 -> 0
       [] len.n = -2 -> -1
       [] len.n = -1 -> 0
       [] len.len >= 0 -> IF left - head < len.len THEN 0 ELSE head + len.len
       [] tag.cons = 0 -> -1
       [] OTHER -> IF rest <= 0 THEN rest ELSE head + rest
CompleteChildren(buf, c) ==
  IF Len(buf) - c + 1 < 2 THEN 0
  ELSE IF buf[c] = 0 /\ buf[c + 1] = 0 THEN 2
  ELSE LET k == CompleteBER(buf, c)
           rest == CompleteChildren(buf, c + k)
       IN IF k <= 0 THEN k ELSE IF rest <= 0 THEN rest ELSE k + rest

(* do_dumpBER: the length of the element at a place of a buffer that ends  *)
(* at end, 0 for none.  Unlike CompleteBER it looks into every constructed *)
(* element.                                                                *)
RECURSIVE DumpBER(_, _, _), DumpChildren(_, _, _, _)
DumpBER(buf, at, end) ==
  LET part == SubSeq(buf, 1, end)
      tag == BerDectag(part, at)
      len == BerDeclen(part, at + tag.n)
      head == tag.n + len.n
      fits == at + head + len.len - 1 <= end
      kids == DumpChildren(buf, at + head, IF len.len >= 0 THEN at + head + len.len - 1 ELSE end, len.len < 0)
  IN CASE at > end -> 0
       [] buf[at] = 0 /\ at < Len(buf) /\ buf[at + 1] = 0 -> 0
       [] tag.n <= 0 \/ len.n <= 0 -> 0
       [] tag.cons = 0 -> IF len.len < 0 \/ ~fits THEN 0 ELSE head + len.len
       [] len.len >= 0 /\ ~fits -> 0
       [] OTHER -> IF kids < 0 THEN 0 ELSE head + kids
DumpChildren(buf, c, end, indefinite) ==
  IF indefinite /\ c + 1 > end THEN -1
  ELSE IF indefinite /\ buf[c] = 0 /\ buf[c + 1] = 0 THEN 2
  ELSE IF ~indefinite /\ c > end THEN 0
  ELSE LET k == DumpBER(buf, c, end)
           rest == DumpChildren(buf, c + k, end, indefinite)
       IN IF k = 0 \/ rest < 0 THEN -1 ELSE k + rest

-----------------------------------------------------------------------------
(* Contents of primitive elements.                                         *)

(* ber_encinteger: two's complement, without the octets that only repeat   *)
(* the sign.                                                               *)
BerEncinteger(v) ==
  LET u == v % IntModulus
      tmp == [i \in 1..IntOctets |-> (u \div 256 ^ (IntOctets - i)) % 256]
      needed == {i \in 1..(IntOctets - 1) : ~(tmp[i] = 0 /\ tmp[i + 1] < 128)
                                         /\ ~(tmp[i] = 255 /\ tmp[i + 1] >= 128)}
  IN SubSeq(tmp, IF needed = {} THEN IntOctets ELSE Lowest(needed), IntOctets)

BerDecinteger(octs) ==
  LET u == FoldLeft(LAMBDA v, o : v * 256 + o, 0, octs)
  IN IF octs # <<>> /\ octs[1] >= 128 THEN u - 256 ^ Len(octs) ELSE u

(* ber_oidc: the first two numbers share one.                              *)
BerEncoid(oid) == Septets(oid[1] * 40 + oid[2]) \o FoldLeft(LAMBDA o, i : o \o Septets(oid[i + 2]), <<>>, UpTo(Len(oid) - 2))

RECURSIVE OidNumbers(_, _)
OidNumbers(octs, at) ==
  IF at > Len(octs) THEN [ok |-> TRUE, v |-> <<>>]
  ELSE LET s == ReadSeptets(octs, at)
           rest == OidNumbers(octs, at + s.n)
       IN IF s.n = 0 THEN [ok |-> FALSE, v |-> <<>>] ELSE [ok |-> rest.ok, v |-> <<s.v>> \o rest.v]

BerDecoid(octs) ==
  LET s == OidNumbers(octs, 1)
      first == Least(s.v[1] \div 40, 2)
  IN IF ~s.ok \/ s.v = <<>> THEN [ok |-> FALSE, v |-> <<>>]
     ELSE [ok |-> TRUE, v |-> <<first, s.v[1] - first * 40>> \o Tail(s.v)]

-----------------------------------------------------------------------------
(* The odr_ functions of primitive types: the universal tag, and what one  *)
(* does with an element that is constructed.                               *)
OdrBool == [k |-> "bool", univ |-> 1, cons |-> "error"]
OdrInteger == [k |-> "int", univ |-> 2, cons |-> "error"]
OdrEnum == [k |-> "enum", univ |-> 10, cons |-> "error"]
OdrNull == [k |-> "null", univ |-> 5, cons |-> "ignored"]
OdrOid == [k |-> "oid", univ |-> 6, cons |-> "error"]
OdrBitstring == [k |-> "bit", univ |-> 3, cons |-> "ignored"]
OdrOctetstring == [k |-> "oct", univ |-> 4, cons |-> "pieces"]
OdrCstring == [k |-> "cstring", univ |-> 4, cons |-> "pieces"]
(* ... and of constructed ones.                                            *)
OdrSequence(fields) == [k |-> "seq", univ |-> 16, f |-> fields]
OdrSet(fields) == [k |-> "seq", univ |-> 17, f |-> fields]
OdrSequenceOf(t) == [k |-> "seqof", univ |-> 16, of |-> t]
OdrExplicit(tag, t) == [k |-> "explicit", tag |-> tag, of |-> t]
OdrAny == [k |-> "any"]
OdrChoice(arms) == [k |-> "choice", arms |-> arms]

TagOf(t, tg) == IF tg # <<>> THEN tg ELSE IF t.k = "explicit" THEN t.tag ELSE <<0, t.univ>>

PutError == [ok |-> FALSE, b |-> <<>>]
Put(b) == [ok |-> TRUE, b |-> b]

(* odr_constructed_begin and _end around the contents: the length is       *)
(* filled into the lenlen octets left for it, or the end is marked.        *)
PutConstructed(id, contents, lenlen) ==
  LET len == BerEnclen(Len(contents), lenlen, TRUE)
  IN BerEnctag(id, 1) \o len \o contents \o (IF len = <<128>> THEN <<0, 0>> ELSE <<>>)

(* An odr_ function that encodes: type, implicit tag or <<>>, whether it   *)
(* is optional, the optional value.                                        *)
RECURSIVE OdrPut(_, _, _, _)
OdrPut(t, tg, opt, v) ==
  LET prim(octs, len) == Put(BerEnctag(TagOf(t, tg), 0) \o len \o octs)
      str(octs) == prim(octs, BerEnclen(Len(octs), 5, FALSE))
      parts == CASE t.k = "seq" -> [i \in DOMAIN t.f |-> OdrPut(t.f[i].t, t.f[i].tg, t.f[i].opt, v[1][i])]
                 [] t.k = "seqof" -> [i \in DOMAIN v[1] |-> OdrPut(t.of, <<>>, FALSE, <<v[1][i]>>)]
                 [] t.k = "explicit" -> <<OdrPut(t.of, <<>>, opt, v)>>
                 [] OTHER -> <<>>
      arm == t.arms[v[1].which]
  IN CASE v = <<>> -> IF opt THEN Put(<<>>) ELSE PutError
       [] t.k = "bool" -> prim(<<IF v[1] THEN 1 ELSE 0>>, <<1>>)
       [] t.k \in {"int", "enum"} -> LET o == BerEncinteger(v[1]) IN prim(o, BerEnclen(Len(o), 1, TRUE))
       [] t.k = "null" -> prim(<<>>, <<0>>)
       [] t.k = "oid" -> LET o == BerEncoid(v[1]) IN IF Len(o) > 127 THEN PutError ELSE prim(o, <<Len(o)>>)
       [] t.k = "bit" -> str(<<0>> \o v[1])
       [] t.k \in {"oct", "cstring"} -> str(v[1])
       [] t.k = "any" -> Put(v[1])
       [] t.k = "choice" ->
            (CASE arm.mode = "implicit" -> OdrPut(arm.of, arm.tag, FALSE, <<v[1].v>>)
               [] arm.mode = "explicit" -> OdrPut(OdrExplicit(arm.tag, arm.of), <<>>, FALSE, <<v[1].v>>)
               [] OTHER -> OdrPut(arm.of, <<>>, TRUE, <<v[1].v>>))
       [] OTHER ->
            IF \E i \in DOMAIN parts : ~parts[i].ok THEN PutError
            ELSE Put(PutConstructed(TagOf(t, tg), FoldLeft(LAMBDA b, p : b \o p.b, <<>>, parts), 1))

-----------------------------------------------------------------------------
(* The constructed element around a place: its first octet and length;     *)
(* NoFrame outside of any.                                                 *)
NoFrame == [base |-> 0, len |-> -2]
OdrMore(buf, at, fr) ==
  CASE fr.len = -2 -> FALSE
    [] fr.len >= 0 -> at - fr.base < fr.len
    [] OTHER -> ~(at < Len(buf) /\ buf[at] = 0 /\ buf[at + 1] = 0)

Got(v, at) == [st |-> "ok", v |-> v, at |-> at]
GetError == [st |-> "error", v |-> <<>>, at |-> 0]
Missing(opt, at) == IF opt THEN [st |-> "ok", v |-> <<>>, at |-> at] ELSE GetError

(* ber_tag while decoding: the tag that is there is the one that is meant. *)
BerTag(buf, at, fr, id) ==
  LET tag == BerDectag(buf, at)
  IN IF fr.len # -2 /\ ~OdrMore(buf, at, fr) THEN [st |-> "absent"]
     ELSE IF tag.n <= 0 THEN [st |-> "error"]
     ELSE IF tag.id # id THEN [st |-> "absent"]
     ELSE [st |-> "ok", at |-> at + tag.n, cons |-> tag.cons]

(* What a primitive element of a type has in its contents.                 *)
BooleanOf(octs) == IF Len(octs) = 1 THEN Got(<<octs[1] # 0>>, 0) ELSE GetError
IntegerOf(octs) == IF Len(octs) > IntOctets THEN GetError ELSE Got(<<BerDecinteger(octs)>>, 0)
NullOf(octs) == IF octs = <<>> THEN Got(<<TRUE>>, 0) ELSE GetError
OidOf(octs) == LET o == BerDecoid(octs) IN IF o.ok THEN Got(<<o.v>>, 0) ELSE GetError
BitsOf(octs) == Got(<<IF octs = <<>> THEN <<>> ELSE Tail(octs)>>, 0)
OctetsOf(octs) == Got(<<octs>>, 0)
Contents(t, octs) ==
  CASE t.k = "bool" -> BooleanOf(octs)
    [] t.k \in {"int", "enum"} -> IntegerOf(octs)
    [] t.k = "null" -> NullOf(octs)
    [] t.k = "oid" -> OidOf(octs)
    [] t.k = "bit" -> BitsOf(octs)
    [] OTHER -> OctetsOf(octs)

(* An odr_ function that decodes, at a place in a frame.  EndOf is         *)
(* odr_constructed_end: the contents must end where the element does.  The *)
(* pieces of a constructed string are read and lost.                       *)
RECURSIVE OdrGet(_, _, _, _, _, _), GetFields(_, _, _, _, _), GetItems(_, _, _, _), GetArm(_, _, _, _, _)
EndOf(buf, at, fr) ==
  IF fr.len >= 0 THEN IF at - fr.base = fr.len THEN at ELSE 0
  ELSE IF at < Len(buf) /\ buf[at] = 0 /\ buf[at + 1] = 0 THEN at + 2 ELSE 0
GetFields(fields, i, buf, at, fr) ==
  IF i > Len(fields) THEN Got(<<>>, at)
  ELSE LET g == OdrGet(fields[i].t, fields[i].tg, fields[i].opt, buf, at, fr)
           rest == GetFields(fields, i + 1, buf, g.at, fr)
       IN IF g.st # "ok" \/ rest.st # "ok" THEN GetError ELSE Got(<<g.v>> \o rest.v, rest.at)
GetItems(t, buf, at, fr) ==
  IF ~OdrMore(buf, at, fr) THEN Got(<<>>, at)
  ELSE LET g == OdrGet(t, <<>>, FALSE, buf, at, fr)
           rest == GetItems(t, buf, g.at, fr)
       IN IF g.st # "ok" \/ rest.st # "ok" THEN GetError ELSE Got(g.v \o rest.v, rest.at)
GetArm(arms, i, buf, at, fr) ==
  IF i > Len(arms) THEN GetError
  ELSE LET arm == arms[i]
           tag == BerDectag(buf, at)
           g == CASE arm.mode = "implicit" -> OdrGet(arm.of, arm.tag, FALSE, buf, at, fr)
                  [] arm.mode = "explicit" -> OdrGet(OdrExplicit(arm.tag, arm.of), <<>>, FALSE, buf, at, fr)
                  [] OTHER -> OdrGet(arm.of, <<>>, TRUE, buf, at, fr)
       IN IF arm.mode # "none" /\ (tag.n <= 0 \/ (fr.len # -2 /\ ~OdrMore(buf, at, fr))) THEN GetError
          ELSE IF arm.mode # "none" /\ tag.id # arm.tag THEN GetArm(arms, i + 1, buf, at, fr)
          ELSE IF arm.mode = "none" /\ (g.st # "ok" \/ g.v = <<>>) THEN GetArm(arms, i + 1, buf, at, fr)
          ELSE IF g.st # "ok" THEN GetError ELSE Got(<<[which |-> i, v |-> g.v[1]]>>, g.at)
OdrGet(t, tg, opt, buf, at, fr) ==
  IF t.k = "any" THEN LET n == CompleteBER(buf, at)
                      IN IF n <= 0 THEN GetError ELSE Got(<<SubSeq(buf, at, at + n - 1)>>, at + n)
  ELSE IF t.k = "choice" THEN LET g == GetArm(t.arms, 1, buf, at, fr)
                              IN IF g.st = "ok" THEN g ELSE Missing(opt, at)
  ELSE LET tag == BerTag(buf, at, fr, TagOf(t, tg))
           len == BerDeclen(buf, tag.at)
           start == tag.at + len.n
           inner == [base |-> start, len |-> len.len]
           body == CASE t.k = "seq" -> GetFields(t.f, 1, buf, start, inner)
                     [] t.k = "seqof" -> GetItems(t.of, buf, start, inner)
                     [] t.k = "explicit" -> OdrGet(t.of, <<>>, opt, buf, start, inner)
           pieces == GetItems(OdrOctetstring, buf, start, inner)
           octs == Contents(t, SubSeq(buf, start, start + len.len - 1))
       IN IF tag.st = "error" THEN GetError
          ELSE IF tag.st = "absent" THEN Missing(opt, at)
          ELSE IF t.k \in {"seq", "seqof", "explicit"}
          THEN IF tag.cons = 0 THEN Missing(opt, tag.at)
               ELSE IF len.n < 0 \/ len.len > Len(buf) - start + 1 \/ body.st # "ok" \/ EndOf(buf, body.at, inner) = 0
               THEN GetError
               ELSE Got(IF t.k = "explicit" THEN body.v ELSE <<body.v>>, EndOf(buf, body.at, inner))
          ELSE IF tag.cons = 1 /\ t.cons = "pieces"
          THEN IF len.n < 0 \/ pieces.st # "ok" THEN GetError
               ELSE Got(<<<<>>>>, pieces.at + (IF len.len < 0 THEN 2 ELSE 0))
          ELSE IF \/ tag.cons = 1 /\ t.cons = "error"
                  \/ len.n < 0 \/ len.len < 0 \/ len.len > Len(buf) - start + 1 \/ octs.st # "ok"
          THEN GetError
          ELSE Got(octs.v, start + len.len)

-----------------------------------------------------------------------------
(* odr_external, and the strings that are told apart by their tag.         *)
GraphicString == <<0, 25>>
OdrField(t, tg, opt) == [t |-> t, tg |-> tg, opt |-> opt]
OdrExternal ==
  OdrSequence(<<OdrField(OdrOid, <<>>, TRUE), OdrField(OdrInteger, <<>>, TRUE),
                OdrField(OdrCstring, GraphicString, TRUE),
                OdrField(OdrChoice(<<[mode |-> "explicit", tag |-> <<2, 0>>, of |-> OdrAny],
                                     [mode |-> "implicit", tag |-> <<2, 1>>, of |-> OdrOctetstring],
                                     [mode |-> "implicit", tag |-> <<2, 2>>, of |-> OdrBitstring]>>), <<>>, FALSE)>>)
ExternalTag == <<0, 8>>
=============================================================================
