------------------------------ MODULE PqfQuery ------------------------------
(***************************************************************************)
(* RPN queries and their prefix notation (src/src/pquery.c and             *)
(* querytowrbuf.c): the parser with its one token of look-ahead, and the   *)
(* printer.  A text is a sequence of symbols: blanks, quotes and the other *)
(* characters that mean something to the lexer, words, and numerals, each  *)
(* one symbol.  "any" stands for the words that differ from "and" in the   *)
(* last letter only, "on" for those of "or".                               *)
(***************************************************************************)
EXTENDS YazTypes

CONSTANT PqfMaxAttr   \* attributes in force at a time (512 in the code)

Numerals == {"0", "1", "2", "3", "4", "5", "6", "7", "8", "12", "100", "102", "104"}
IsNumber(text) == \A i \in DOMAIN text : text[i] \in Numerals
AttributeSets == {"bib-1", "gils"}

(* Z_RPNStructure: operands and operators, as in z3950v3.                  *)
Apt(attrs, term) == [k |-> "apt", attrs |-> attrs, term |-> term]
Term(type, text) == [type |-> type, text |-> text]
ResultSetId(id) == [k |-> "rset", id |-> id]
Complex(op, prox, s1, s2) == [k |-> "op", op |-> op, prox |-> prox, s1 |-> s1, s2 |-> s2]
Garbage == [k |-> "uninitialized"]
NumericAttr(set, type, v) == [set |-> set, type |-> type, num |-> TRUE, list |-> <<v>>]
ComplexAttr(set, type, list) == [set |-> set, type |-> type, num |-> FALSE, list |-> list]

RECURSIVE OperandsOf(_)
OperandsOf(s) == IF s.k = "op" THEN OperandsOf(s.s1) \o OperandsOf(s.s2) ELSE <<s>>
RECURSIVE OperatorsOf(_)
OperatorsOf(s) == IF s.k = "op" THEN <<[op |-> s.op, prox |-> s.prox]>> \o OperatorsOf(s.s1) \o OperatorsOf(s.s2) ELSE <<>>

-----------------------------------------------------------------------------
(* The printer.  yaz_encode_pqf_term: quotes only where they are needed.   *)
Escaped(term, chars) ==
  FoldLeft(LAMBDA out, c : out \o (IF c \in chars THEN <<"\\", c>> ELSE <<c>>), <<>>, term)

(* (mutant) A backslash in quotes is left as it is.                        *)
EncodePqfTerm_Backslash(term) ==
  IF Len(term) > 0 /\ \A i \in DOMAIN term : term[i] \notin {" ", "\"", "{"}
  THEN (IF term[1] = "@" THEN <<"\\">> ELSE <<>>) \o Escaped(term, {"\\"}) \o <<" ">>
  ELSE <<"\"">> \o Escaped(term, {"\""}) \o <<"\"", " ">>

EncodePqfTerm(term) ==
  IF Len(term) > 0 /\ \A i \in DOMAIN term : term[i] \notin {" ", "\"", "{"}
  THEN (IF term[1] = "@" THEN <<"\\">> ELSE <<>>) \o Escaped(term, {"\\"}) \o <<" ">>
  ELSE <<"\"">> \o Escaped(term, {"\"", "\\"}) \o <<"\"", " ">>

RECURSIVE Joined(_, _)
Joined(list, sep) ==
  IF list = <<>> THEN <<>>
  ELSE IF Len(list) = 1 THEN list[1] ELSE list[1] \o sep \o Joined(Tail(list), sep)

(* yaz_attribute_element_to_wrbuf: a string value is written as it is.     *)
AttributeText(a) ==
  <<"@", "attr", " ">> \o (IF a.set = NULL THEN <<>> ELSE <<a.set, " ">>)
  \o <<a.type, "=">> \o Joined(a.list, <<",">>) \o <<" ">>
AttributesText(attrs) == FoldLeft(LAMBDA out, a : out \o AttributeText(a), <<>>, attrs)

(* yaz_apt_to_wrbuf.                                                       *)
AptText(s) ==
  AttributesText(s.attrs)
  \o CASE s.term.type = "general" -> EncodePqfTerm(s.term.text)
       [] s.term.type = "string" -> <<"@", "term", " ", "string", " ">> \o EncodePqfTerm(s.term.text)
       [] s.term.type = "numeric" -> <<"@", "term", " ", "numeric", " ">> \o s.term.text \o <<" ">>
       [] s.term.type = "null" -> <<"@", "term", " ", "null", " ", "x">>
       [] OTHER -> <<"@", "term", " ", "null", " ", "unknown", " ">>

ProxText(p) ==
  <<IF p.exclusion = <<>> THEN "n" ELSE IF p.exclusion[1] THEN "1" ELSE "0", " ", p.distance, " ",
    IF p.ordered THEN "1" ELSE "0", " ", p.relation, " ", IF p.which = "known" THEN "k" ELSE "p",
    " ", p.unit, " ">>

(* yaz_rpnstructure_to_wrbuf, complex_op_name and yaz_rpnquery_to_wrbuf.   *)
RECURSIVE StructureText(_)
StructureText(s) ==
  CASE s.k = "op" -> <<"@", s.op, " ">> \o (IF s.op = "prox" THEN ProxText(s.prox[1]) ELSE <<>>)
                     \o StructureText(s.s1) \o StructureText(s.s2)
    [] s.k = "apt" -> AptText(s)
    [] s.k = "rset" -> <<"@", "set", " ">> \o EncodePqfTerm(s.id)
    [] OTHER -> <<"(unknown structure)">>
RECURSIVE ChopRight(_)
ChopRight(t) == IF t # <<>> /\ Last(t) = " " THEN ChopRight(Front(t)) ELSE t
QueryText(q) ==
  ChopRight((IF q.set = NULL THEN <<>> ELSE <<"@", "attrset", " ", q.set, " ">>) \o StructureText(q.s))

-----------------------------------------------------------------------------
(* The parser.  li.buf is where the last token begins, li.len its length;  *)
(* at the end of the text both stay as they are.                           *)
At(t, i) == IF i \in DOMAIN t THEN t[i] ELSE "NUL"
Lexeme(li) == SubSeq(li.t, li.buf, li.buf + li.len - 1)

RECURSIVE SkipChar(_, _, _)
SkipChar(t, i, c) == IF At(t, i) = c THEN SkipChar(t, i + 1, c) ELSE i
RECURSIVE TokenEnd(_, _, _)
TokenEnd(t, i, sep) ==
  IF At(t, i) \in {"NUL", sep} THEN i
  ELSE TokenEnd(t, i + (IF t[i] = "\\" /\ At(t, i + 1) # "NUL" THEN 2 ELSE 1), sep)

(* compare_term, which leaves out the last letter of the keyword.          *)
Keyword(lexeme) ==
  IF Len(lexeme) # 2 \/ lexeme[1] # "@" THEN "t"
  ELSE CASE lexeme[2] \in {"and", "any"} -> "a"
         [] lexeme[2] \in {"or", "on"} -> "o"
         [] lexeme[2] = "not" -> "n"
         [] lexeme[2] = "attr" -> "l"
         [] lexeme[2] = "set" -> "s"
         [] lexeme[2] = "attrset" -> "r"
         [] lexeme[2] = "prox" -> "p"
         [] lexeme[2] = "term" -> "y"
         [] OTHER -> "t"

(* query_token and lex.                                                    *)
Lex(li) ==
  LET s == SkipChar(li.t, li.p, " ")
      quoted == At(li.t, s) \in {"{", "\""}
      sep == CASE At(li.t, s) = "{" -> "}" [] At(li.t, s) = "\"" -> "\"" [] OTHER -> " "
      b == IF quoted THEN s + 1 ELSE s
      e == TokenEnd(li.t, b, sep)
  IN CASE At(li.t, s) = "NUL" -> [li EXCEPT !.p = s, !.look = "end"]
       [] At(li.t, s) # "NUL" /\ At(li.t, b) = "@" /\ At(li.t, b + 1) \in Numerals ->
            [li EXCEPT !.p = b + 1, !.buf = b, !.len = 1, !.look = "l"]
       [] OTHER -> [li EXCEPT !.p = IF At(li.t, e) = "NUL" THEN e ELSE e + 1, !.buf = b, !.len = e - b,
                              !.look = IF quoted THEN "t" ELSE Keyword(SubSeq(li.t, b, e - 1))]

(* escape_string.                                                          *)
RECURSIVE EscapeString(_)
EscapeString(s) ==
  IF s = <<>> THEN <<>>
  ELSE IF s[1] # "\\" \/ Len(s) = 1 THEN <<s[1]>> \o EscapeString(Tail(s))
  ELSE LET rest == SubSeq(s, 3, Len(s))
       IN CASE s[2] = "t" -> <<"TAB">> \o EscapeString(rest)
            [] s[2] \in {"n", "r", "f"} -> <<"NL">> \o EscapeString(rest)
            [] s[2] \in {"x", "0", "1", "2", "3"} ->
                 IF Len(rest) > 1 THEN <<"BYTE">> \o EscapeString(SubSeq(rest, 3, Len(rest)))
                 ELSE EscapeString(rest)
            [] OTHER -> <<s[2]>> \o EscapeString(rest)

Failed(li, error) == [ok |-> FALSE, li |-> [li EXCEPT !.error = error], v |-> Garbage]
Parsed(li, v) == [ok |-> TRUE, li |-> li, v |-> v]

(* query_oid_getvalbyname.                                                 *)
AttributeSetName(li) ==
  LET w == Lexeme(li) IN IF Len(w) = 1 /\ w[1] \in AttributeSets THEN w[1] ELSE NULL

(* p_query_parse_attr: "=" is looked for in all of the text after the      *)
(* token's beginning, and only without a set must it be in the token.      *)
ParseAttr(li, attrs) ==
  LET Eq(l) == Lowest({i \in DOMAIN l.t : i >= l.buf /\ l.t[i] = "="})
      bare == Eq(li) # 0 /\ Eq(li) - li.buf <= li.len
      set == IF bare THEN (IF attrs = <<>> THEN NULL ELSE Last(attrs).set) ELSE AttributeSetName(li)
      l == IF bare THEN li ELSE Lex(li)
      value == SubSeq(l.t, Eq(l) + 1, l.buf + l.len - 1)
      number == IF At(l.t, Eq(l) + 1) \in Numerals THEN At(l.t, Eq(l) + 1) ELSE "0"
  IN CASE ~bare /\ set = NULL -> Failed(li, "attset")
       [] ~bare /\ set # NULL /\ l.look = "end" -> Failed(l, "missing")
       [] (bare \/ (set # NULL /\ l.look # "end")) /\ Eq(l) = 0 -> Failed(l, "badattr")
       [] (bare \/ (set # NULL /\ l.look # "end")) /\ Eq(l) # 0 ->
            IF At(l.t, l.buf) \notin Numerals THEN Failed(l, "bad integer")
            ELSE Parsed(l, Append(attrs, IF IsNumber(value) THEN NumericAttr(set, l.t[l.buf], <<number>>)
                                         ELSE ComplexAttr(set, l.t[l.buf], <<EscapeString(value)>>)))

(* get_attributeList: from the last to the first, one of a type.           *)
GetAttributeList(attrs) ==
  LET last(i) == \A j \in (i + 1)..Len(attrs) : attrs[j].type # attrs[i].type
  IN FoldLeft(LAMBDA out, i : IF last(i) THEN <<attrs[i]>> \o out ELSE out, <<>>, UpTo(Len(attrs)))

(* z_Term_create.                                                          *)
TermCreate(type, text) ==
  CASE type \in {"general", "string"} -> Term(type, text)
    [] type = "numeric" -> Term(type, IF text # <<>> /\ text[1] \in Numerals THEN <<text[1]>> ELSE <<"0">>)
    [] OTHER -> Term("null", <<>>)

(* rpn_term and rpn_term_attributes.                                       *)
RpnTerm(li, list) == Apt(list, TermCreate(li.type, EscapeString(Lexeme(li))))

(* rpn_simple.                                                             *)
RpnSimple(li, attrs) ==
  IF li.look = "t" THEN Parsed(Lex(li), RpnTerm(li, GetAttributeList(attrs)))
  ELSE IF Lex(li).look = "end" THEN Failed(Lex(li), "missing")
  ELSE Parsed(Lex(Lex(li)), ResultSetId(Lexeme(Lex(li))))

(* rpn_proximity: six tokens, each checked by its first character.         *)
RpnProximity(li) ==
  LET l1 == Lex(li)
      l2 == Lex(l1)
      l3 == Lex(l2)
      l4 == Lex(l3)
      l5 == Lex(l4)
      l6 == Lex(l5)
      c(l) == At(l.t, l.buf)
      ls == <<l1, l2, l3, l4, l5, l6>>
      fine == <<{"0", "1", "v", "n"}, Numerals, {"0", "1"}, Numerals, {"k", "p", "1", "2"}, Numerals>>
      errors == <<"proximity", "bad integer", "proximity", "bad integer", "proximity", "bad integer">>
      bad == Lowest({i \in 1..6 : ls[i].look = "end" \/ c(ls[i]) \notin fine[i]})
  IN IF bad # 0 THEN Failed(ls[bad], IF ls[bad].look = "end" THEN "missing" ELSE errors[bad])
     ELSE Parsed(l6, <<[exclusion |-> IF c(l1) \in {"v", "n"} THEN <<>> ELSE <<c(l1) = "1">>, distance |-> c(l2),
                      ordered |-> c(l3) = "1", relation |-> c(l4),
                      which |-> IF c(l5) \in {"k", "1"} THEN "known" ELSE "private", unit |-> c(l6)]>>)

(* rpn_term_type: an unknown name leaves the type as it is.                *)
RpnTermType(li) ==
  LET w == Lexeme(li)
  IN IF li.look = "end" THEN li
     ELSE Lex(IF Len(w) = 1 /\ w[1] \in {"general", "numeric", "string", "oid", "datetime", "null"}
              THEN [li EXCEPT !.type = w[1]] ELSE li)

(* rpn_structure and rpn_complex.  The attributes in force are those of    *)
(* both operands; the term type that an operand sets is that of all the    *)
(* operands after it.  A second @attrset falls through every case.         *)
RECURSIVE RpnStructure(_, _)
RpnComplex(li, attrs) ==
  LET name == CASE li.look = "a" -> "and" [] li.look = "o" -> "or" [] li.look = "n" -> "not" [] OTHER -> "prox"
      prox == IF name = "prox" THEN RpnProximity(li) ELSE Parsed(li, <<>>)
      s1 == RpnStructure(Lex(prox.li), attrs)
      s2 == RpnStructure(s1.li, attrs)
  IN IF ~prox.ok THEN prox ELSE IF ~s1.ok THEN s1 ELSE IF ~s2.ok THEN s2
     ELSE Parsed(s2.li, Complex(name, prox.v, s1.v, s2.v))
RpnStructure(li, attrs) ==
  CASE li.look \in {"a", "o", "n", "p"} -> RpnComplex(li, attrs)
    [] li.look \in {"t", "s"} -> RpnSimple(li, attrs)
    [] li.look = "l" ->
         LET l == Lex(li)
             a == ParseAttr(l, attrs)
         IN IF l.look = "end" THEN Failed(l, "missing")
            ELSE IF Len(attrs) >= PqfMaxAttr THEN Failed(l, "toomany")
            ELSE IF ~a.ok THEN a ELSE RpnStructure(Lex(a.li), a.v)
    [] li.look = "y" -> RpnStructure(RpnTermType(Lex(li)), attrs)
    [] li.look = "end" -> Failed(li, "missing")
    [] OTHER -> Parsed(li, Garbage)

(* yaz_pqf_create and pqf_parser_begin.                                    *)
PqfBegin(text) == [t |-> text, p |-> 1, buf |-> 1, len |-> 0, look |-> "end", type |-> "general", error |-> "none"]

(* The @attrset at the head of a query, bib-1 for none.                    *)
TopSet(li) ==
  LET l == Lex(li)
      name == AttributeSetName(Lex(l))
  IN IF l.look # "r" THEN Parsed(l, "bib-1")
     ELSE IF name = NULL THEN Failed(Lex(l), "attset") ELSE Parsed(Lex(Lex(l)), name)

(* p_query_rpn_mk, p_query_rpn and yaz_pqf_parse.                          *)
PqfParse(text) ==
  LET top == TopSet(PqfBegin(text))
      s == RpnStructure(top.li, <<>>)
  IN IF ~top.ok THEN top ELSE IF ~s.ok THEN s
     ELSE IF s.li.look # "end" THEN Failed(s.li, "extra") ELSE Parsed(s.li, [set |-> top.v, s |-> s.v])

(* p_query_scan_attributes_mk.                                             *)
RECURSIVE ScanAttributeLoop(_, _)
ScanAttributeLoop(li, attrs) ==
  LET l == Lex(li)
      a == ParseAttr(l, attrs)
  IN CASE li.look = "l" ->
            IF l.look = "end" THEN Failed(l, "missing")
            ELSE IF Len(attrs) >= PqfMaxAttr THEN Failed(l, "toomany")
            ELSE IF ~a.ok THEN a ELSE ScanAttributeLoop(Lex(a.li), a.v)
       [] li.look = "y" -> ScanAttributeLoop(RpnTermType(l), attrs)
       [] OTHER -> Parsed(li, attrs)
ScanAttributes(li) ==
  LET top == TopSet(li)
      a == ScanAttributeLoop(top.li, <<>>)
  IN IF ~top.ok THEN top ELSE IF ~a.ok THEN a
     ELSE Parsed(a.li, [set |-> top.v, attrs |-> GetAttributeList(a.v)])

(* p_query_scan_mk and yaz_pqf_scan: a list that could not be read is not  *)
(* noticed unless the text ends there.                                     *)
PqfScan(text) ==
  LET a == ScanAttributes(PqfBegin(text))
      l == Lex(a.li)
  IN IF a.li.look = "end" THEN Failed(a.li, "missing")
     ELSE IF l.look # "end" THEN Failed(l, "extra")
     ELSE IF ~a.ok THEN Parsed(l, [set |-> NULL, s |-> RpnTerm(a.li, <<Garbage>>)])
     ELSE Parsed(l, [set |-> a.v.set, s |-> RpnTerm(a.li, a.v.attrs)])

(* parse_facet: at most ten terms are kept, the others are read over.      *)
RECURSIVE FacetTerms(_)
FacetTerms(li) ==
  IF li.look # "t" THEN <<>> ELSE <<TermCreate(li.type, EscapeString(Lexeme(li)))>> \o FacetTerms(Lex(li))
ParseFacet(text) ==
  LET a == ScanAttributes(PqfBegin(text))
      terms == FacetTerms(a.li)
  IN IF ~a.ok THEN [ok |-> FALSE, attrs |-> <<>>, terms |-> <<>>]
     ELSE [ok |-> TRUE, attrs |-> a.v.attrs, terms |-> SubSeq(terms, 1, Least(10, Len(terms)))]

(* yaz_pqf_parse_facet_list: split at every comma.                         *)
RECURSIVE SplitAt(_, _)
SplitAt(text, c) ==
  LET i == Lowest({j \in DOMAIN text : text[j] = c})
  IN IF i = 0 THEN <<text>> ELSE <<SubSeq(text, 1, i - 1)>> \o SplitAt(SubSeq(text, i + 1, Len(text)), c)
NonEmptyParts(text, c) == SelectSeq(SplitAt(text, c), LAMBDA p : p # <<>>)
PqfFacetList(text) ==
  LET fields == [i \in DOMAIN NonEmptyParts(text, ",") |-> ParseFacet(NonEmptyParts(text, ",")[i])]
  IN IF fields = <<>> \/ \E i \in DOMAIN fields : ~fields[i].ok THEN <<>> ELSE fields
=============================================================================
