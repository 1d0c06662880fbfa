----------------------------- MODULE CqlConvert -----------------------------
(***************************************************************************)
(* What CQL is converted to and from besides PQF: RPN to CQL               *)
(* (src/src/rpn2cql.c), XCQL (xcqlutil.c), the sort keys of SRU            *)
(* (cql_sortkeys.c) and CCL (cql2ccl.c).                                   *)
(***************************************************************************)
EXTENDS CqlQuery

-----------------------------------------------------------------------------
(* RPN to CQL.  lookup_index_from_string_attr: a string of a use attribute,*)
(* or no index when there are only numeric ones.                           *)
UseAttrs(attrs) == {i \in DOMAIN attrs : attrs[i].type = "1"}
IndexFromAttr(attrs) ==
  LET named == Lowest({i \in UseAttrs(attrs) : ~attrs[i].num})
  IN CASE named # 0 -> <<attrs[named].list[1]>>
       [] named = 0 /\ UseAttrs(attrs) = {} -> <<ServerChoice>>
       [] OTHER -> <<>>

(* lookup_relation_index_from_attr: an unknown number ends the search.     *)
NumericRelation(v) ==
  CASE v = "1" -> <<<<"<">>>> [] v = "2" -> <<<<"<", "=">>>> [] v = "3" -> <<<<"=">>>>
    [] v = "4" -> <<<<">", "=">>>> [] v = "5" -> <<<<">">>>> [] v = "6" -> <<<<"<", ">">>>> [] OTHER -> <<>>
RelationFromAttr(attrs) ==
  LET i == Lowest({j \in DOMAIN attrs : attrs[j].type = "2" /\ attrs[j].num})
  IN IF i = 0 THEN <<<<"=">>>> ELSE NumericRelation(attrs[i].list[1][1])

(* rpn2cql_attr.                                                           *)
RelationName(r) ==
  CASE r = <<>> -> <<"=">> [] r = <<<<"exact">>>> -> <<"=", "=">> [] r = <<<<"eq">>>> -> <<"=">>
    [] r = <<<<"le">>>> -> <<"<", "=">> [] r = <<<<"ge">>>> -> <<">", "=">> [] OTHER -> r[1]
Rpn2CqlAttr(ct, attrs) ==
  LET known(category) == LookupReverse(ct, <<category, ".">>, attrs)
      index == IF known("index") # <<>> THEN known("index") ELSE IndexFromAttr(attrs)
      rel == RelationName(IF known("relation") # <<>> THEN known("relation") ELSE RelationFromAttr(attrs))
      structure == IF known("structure") \in {<<>>, <<<<"*">>>>} THEN <<>> ELSE <<"/">> \o known("structure")[1] \o <<" ">>
  IN IF index = <<>> THEN Emit(<<>>, "use attribute")
     ELSE Emit(IF index[1] # ServerChoice \/ rel # <<"=">> \/ structure # <<>>
               THEN index[1] \o <<" ">> \o rel \o <<" ">> \o structure ELSE <<>>, NULL)

(* lookup_truncation.                                                      *)
TruncationOf(attrs) ==
  LET i == Lowest({j \in DOMAIN attrs : attrs[j].type = "5" /\ attrs[j].num}) IN IF i = 0 THEN "0" ELSE attrs[i].list[1][1]

(* The characters of a term: masks of the truncation become those of CQL,  *)
(* what would be a mask in CQL is escaped.                                 *)
RECURSIVE CqlTermText(_, _)
CqlTermText(t, trunc) ==
  IF t = <<>> THEN <<>>
  ELSE LET c == t[1]
           then(text, n) == text \o CqlTermText(Rest(t, n), trunc)
       IN CASE c = "\\" /\ Len(t) > 1 -> then((IF t[2] \in {"*", "?", "\"", "\\"} THEN <<"\\">> ELSE <<>>) \o <<t[2]>>, 2)
            [] trunc = "102" /\ c = "." /\ At(t, 2) = "*" -> then(<<"*">>, 2)
            [] trunc = "102" /\ c = "." /\ At(t, 2) # "*" -> then(<<"?">>, 1)
            [] trunc = "104" /\ c = "?" -> then(<<"*">>, 1)
            [] trunc = "104" /\ c = "#" -> then(<<"?">>, 1)
            [] OTHER -> then((IF c \in {"*", "?", "\""} THEN <<"\\">> ELSE <<>>) \o <<c>>, 1)

(* rpn2cql_simple.  A numeric term has its quotes after the number.        *)
Rpn2CqlSimple(ct, s) ==
  LET a == Rpn2CqlAttr(ct, s.attrs)
      trunc == TruncationOf(s.attrs)
      text == IF s.term.type \in {"general", "string"} THEN s.term.text ELSE <<>>
      number == IF s.term.type = "numeric" THEN s.term.text ELSE <<>>
      quote == IF text = <<>> \/ \E i \in DOMAIN text : text[i] \in Specials \cup {" "} THEN <<"\"">> ELSE <<>>
  IN CASE s.k # "apt" -> Emit(<<>>, "result set")
       [] s.k = "apt" /\ a.err # NULL -> a
       [] s.k = "apt" /\ a.err = NULL ->
            IF s.term.type \notin {"general", "string", "numeric"} THEN Emit(<<>>, "term type")
            ELSE IF trunc \notin {"0", "1", "2", "3", "100", "102", "104"} THEN Emit(<<>>, "truncation")
            ELSE Emit(a.out \o number \o quote \o (IF trunc \in {"2", "3"} THEN <<"*">> ELSE <<>>) \o CqlTermText(text, trunc)
                      \o (IF trunc \in {"1", "3"} THEN <<"*">> ELSE <<>>) \o quote, NULL)

(* The modifiers of a proximity; exclusion cannot be said.                 *)
ProxModifiers(p) ==
  LET rel == NumericRelation(p.relation)
      unit == IF p.which # "known" THEN "private" ELSE UnitName(p.unit)
  IN IF rel = <<>> THEN Emit(<<>>, "search")
     ELSE Emit(<<" ", "prox", "/", "distance">> \o rel[1] \o <<p.distance, "/", IF p.ordered THEN "ordered" ELSE "unordered">>
               \o (IF p.which = "known" /\ p.unit = "2" THEN <<>> ELSE <<"/", "unit", "=", unit>>) \o <<" ">>, NULL)

(* rpn2cql_structure: parentheses around every operand with an operator.   *)
RECURSIVE Rpn2Cql(_, _, _)
Rpn2Cql(ct, s, nested) ==
  LET left == Rpn2Cql(ct, s.s1, TRUE)
      op == IF s.op = "prox" THEN ProxModifiers(s.prox[1]) ELSE Emit(<<" ", s.op, " ">>, NULL)
      right == Rpn2Cql(ct, s.s2, TRUE)
  IN IF s.k # "op" THEN Rpn2CqlSimple(ct, s)
     ELSE IF left.err # NULL THEN left ELSE IF op.err # NULL THEN op
     ELSE Emit((IF nested THEN <<"(">> ELSE <<>>) \o left.out \o op.out \o right.out \o (IF nested THEN <<")">> ELSE <<>>), right.err)

-----------------------------------------------------------------------------
(* XCQL as a sequence of tags and texts; the tags of the operands of a     *)
(* boolean are printed to standard output, not to the caller.              *)
OpenTag(name) == [k |-> "open", name |-> name]
CloseTag(name) == [k |-> "close", name |-> name]
Cdata(text) == [k |-> "text", name |-> text]
Tagged(name, inner) == <<OpenTag(name)>> \o inner \o <<CloseTag(name)>>
Field(name, text) == Tagged(name, <<Cdata(text)>>)
Optional(list, Out(_)) == IF list = <<>> THEN <<>> ELSE Out(list[1])

(* prefixes: not closed when only the relation has a URI.                  *)
XmlPrefixes(cn) ==
  LET rel == Optional(cn.reluri, LAMBDA u : Tagged("prefix", Field("name", <<"rel">>) \o Field("identifier", u)))
      index == Optional(cn.uri, LAMBDA u : Tagged("prefix", Field("identifier", u)))
  IN IF index = <<>> /\ rel = <<>> THEN <<>>
     ELSE <<OpenTag("prefixes")>> \o index \o rel \o (IF index = <<>> THEN <<>> ELSE <<CloseTag("prefixes")>>)

(* cql_to_xml_mod and cql_sort_to_xml.                                     *)
XmlModifiers(mods) ==
  IF mods = <<>> THEN <<>>
  ELSE Tagged("modifiers", FlattenSeq([i \in DOMAIN mods |->
         Tagged("modifier", Field("type", mods[i].index) \o Optional(mods[i].rel, LAMBDA r : Field("comparison", r))
                            \o Optional(mods[i].term, LAMBDA t : Field("value", t)))]))
XmlSortKeys(keys) ==
  IF keys = <<>> THEN <<>>
  ELSE Tagged("sortKeys", FlattenSeq([i \in DOMAIN keys |-> Tagged("key", Field("index", keys[i].index) \o XmlModifiers(keys[i].mods))]))

(* cql_to_xml_r.                                                           *)
RECURSIVE CqlToXml(_, _)
CqlToXml(cn, keys) ==
  CASE cn.k = "st" ->
         Tagged("searchClause",
           XmlPrefixes(cn) \o Field("index", cn.index)
           \o Tagged("relation", Field("value", (IF cn.reluri = <<>> THEN <<>> ELSE <<"rel", ".">>) \o cn.rel)
                                 \o Optional(cn.reluri, LAMBDA u : Field("identifier", u)) \o XmlModifiers(cn.mods))
           \o Field("term", cn.term) \o FlattenSeq([i \in DOMAIN cn.extra |-> Field("term", cn.extra[i])]) \o XmlSortKeys(keys))
    [] cn.k = "bool" ->
         Tagged("triple", Tagged("boolean", Field("value", <<cn.op>>) \o XmlModifiers(cn.mods))
                          \o CqlToXml(cn.left, <<>>) \o CqlToXml(cn.right, <<>>) \o XmlSortKeys(keys))
    [] cn.k = "sort" -> CqlToXml(cn.search, cn.keys)

-----------------------------------------------------------------------------
(* cql_sort_modifiers and cql_sortby_to_sortkeys.  pr_n copies the schema  *)
(* three characters at a time, and always the first ones.                  *)
RECURSIVE PrN(_, _)
PrN(s, left) == IF left >= 4 THEN SubSeq(s, 1, 3) \o PrN(s, left - 3) ELSE SubSeq(s, 1, left)
SortModifiers(mods) ==
  FoldLeft(LAMBDA s, m :
             LET name == IF Dot(m.index) = 2 /\ m.index[1] = "sort" THEN AfterDot(m.index) ELSE m.index
             IN CASE name = <<"ignoreCase">> -> [s EXCEPT !.sensitive = "0"]
                  [] name = <<"respectCase">> -> [s EXCEPT !.sensitive = "1"]
                  [] name = <<"ascending">> -> [s EXCEPT !.ascending = "1"]
                  [] name = <<"descending">> -> [s EXCEPT !.ascending = "0"]
                  [] name = <<"missingOmit">> -> [s EXCEPT !.missing = "omit"]
                  [] name = <<"missingFail">> -> [s EXCEPT !.missing = "abort"]
                  [] name = <<"missingLow">> -> [s EXCEPT !.missing = "lowValue"]
                  [] name = <<"missingHigh">> -> [s EXCEPT !.missing = "highValue"]
                  [] OTHER -> [s EXCEPT !.ok = FALSE],
           [ok |-> TRUE, ascending |-> "1", sensitive |-> "0", missing |-> "highValue"], mods)
SortKeyText(key) ==
  LET d == Dot(key.index)
      s == SortModifiers(key.mods)
      path == SubSeq(key.index, d + 1, Len(key.index))
      schema == PrN(key.index, d - 1)
  IN Emit(path \o <<",">> \o schema \o <<",", s.ascending, ",", s.sensitive, ",", s.missing>>, IF s.ok THEN NULL ELSE "modifier")

SortbyToSortKeys(cn) ==
  IF cn.k # "sort" THEN Emit(<<>>, NULL)
  ELSE FoldLeft(LAMBDA e, k :
                  IF e.err # NULL THEN e
                  ELSE Emit(e.out \o (IF e.out = <<>> THEN <<>> ELSE <<" ">>) \o SortKeyText(k).out, SortKeyText(k).err),
                Emit(<<>>, NULL), cn.keys)

-----------------------------------------------------------------------------
(* CQL to CCL.  pr_term: what is not a mask is in quotes.                  *)
RECURSIVE CclTermText(_, _)
CclTermText(t, quoted) ==
  LET c == t[1]
      start == IF quoted THEN <<>> ELSE <<"\"">>
      stop == IF quoted THEN <<"\"">> ELSE <<>>
  IN CASE t = <<>> -> stop
       [] t # <<>> /\ t[1] = "\\" /\ Len(t) > 1 ->
            start \o (IF t[2] \in {"\"", "\\"} THEN <<"\\">> ELSE <<>>) \o <<t[2]>> \o CclTermText(Rest(t, 2), TRUE)
       [] t # <<>> /\ t[1] = "*" -> stop \o <<"?">> \o CclTermText(Tail(t), FALSE)
       [] t # <<>> /\ t[1] = "?" -> stop \o <<"#">> \o CclTermText(Tail(t), FALSE)
       [] OTHER -> start \o <<c>> \o CclTermText(Tail(t), TRUE)
PrTerm(t) == IF t = <<>> THEN <<"\"", "\"">> ELSE CclTermText(t, FALSE)

(* The words of a term: up to a blank that is not escaped; the blanks      *)
(* after the last word do not begin another.                               *)
RECURSIVE WordsOf(_)
WordsOf(t) ==
  LET e == Lowest({i \in DOMAIN t : t[i] = " " /\ Unescaped(t, i)})
      b == SkipChar(t, e, " ")
  IN IF e = 0 THEN <<t>> ELSE IF b > Len(t) THEN <<SubSeq(t, 1, e - 1)>> ELSE <<SubSeq(t, 1, e - 1)>> \o WordsOf(SubSeq(t, b, Len(t)))

(* node_st: with a split operator every word has the field, else the first *)
(* of all the terms only.                                                  *)
NodeSt(cn) ==
  LET field == IF cn.index = ServerChoice THEN <<>> ELSE <<cn.index>>
      split == CASE cn.rel = <<"all">> -> "and" [] cn.rel = <<"any">> -> "or" [] OTHER -> NULL
      known == {<<"<">>, <<"<", "=">>, <<">">>, <<">", "=">>, <<"<", ">">>, <<"=">>}
      rel == IF cn.rel \in known THEN cn.rel ELSE <<"=">>
      terms == <<cn.term>> \o cn.extra
      words == FlattenSeq([i \in DOMAIN terms |-> IF split = NULL THEN <<terms[i]>> ELSE WordsOf(terms[i])])
      head(i) == IF field # <<>> /\ (split # NULL \/ i = 1) THEN field[1] \o rel ELSE <<>>
  IN IF cn.rel \notin known \cup {<<"all">>, <<"any">>, <<"=", "=">>, <<"adj">>} THEN Emit(<<>>, "relation")
     ELSE Emit(Joined([i \in DOMAIN words |-> head(i) \o PrTerm(words[i])],
                      IF split = NULL THEN <<" ">> ELSE <<" ", split, " ">>), NULL)

(* node_bool.  A distance is one of a few numerals.                        *)
Pred(n) == CASE n = "1" -> "0" [] n = "2" -> "1" [] n = "3" -> "2" [] n = "4" -> "3" [] n = "5" -> "4" [] OTHER -> "-1"
CclProx(mods) ==
  LET r == FoldLeft(LAMBDA p, m :
                      CASE m.index = <<"unit">> /\ m.term[1] = <<"word">> -> p
                        [] m.index = <<"distance">> /\ m.rel[1] = <<"<", "=">> -> [p EXCEPT !.distance = m.term[1][1]]
                        [] m.index = <<"distance">> /\ m.rel[1] = <<"<">> -> [p EXCEPT !.distance = Pred(m.term[1][1])]
                        [] m.index \in {<<"ordered">>, <<"unordered">>} -> [p EXCEPT !.symbol = IF m.index = <<"ordered">> THEN "!" ELSE "%"]
                        [] OTHER -> [p EXCEPT !.ok = FALSE],
                    [ok |-> TRUE, symbol |-> "%", distance |-> "1"], mods)
  IN IF r.ok THEN Emit(<<r.symbol>> \o (IF r.distance = "1" THEN <<>> ELSE <<r.distance>>), NULL) ELSE Emit(<<>>, "modifier")

(* cql_to_ccl_r.                                                           *)
RECURSIVE CqlToCcl(_)
CqlToCcl(cn) ==
  LET left == CqlToCcl(cn.left)
      op == IF cn.op = "prox" THEN CclProx(cn.mods) ELSE Emit(<<cn.op>>, NULL)
      right == CqlToCcl(cn.right)
  IN CASE cn.k = "st" -> NodeSt(cn)
       [] cn.k = "bool" -> IF left.err # NULL THEN left ELSE IF op.err # NULL THEN op
                           ELSE Emit(<<"(">> \o left.out \o <<")", " ">> \o op.out \o <<" ", "(">> \o right.out \o <<")">>, right.err)
       [] cn.k = "sort" -> CqlToCcl(cn.search)
=============================================================================
