----------------------------- MODULE MCQueries ------------------------------
(***************************************************************************)
(* Query languages on bounded inputs: PQF, XML and sort specifications.  A *)
(* state is one case: a unit, its input and what the code makes of it.     *)
(***************************************************************************)
EXTENDS MCCases, XmlQuery, SortSpec, SolrQuery, CclQuery

CONSTANTS MaxTokens,     \* tokens of a PQF text that is only parsed
          CclMaxTokens   \* tokens of a CCL text that is only parsed

-----------------------------------------------------------------------------
(* RPN queries of up to two operators.                                     *)
Texts == {<<"x">>, <<>>, <<"a", " ", "b">>, <<"@", "x">>, <<"\\">>, <<"\"", "\\">>, <<"{", "x">>, <<"x", "}">>,
          <<"@", "and", " ">>, <<"x", "\\", "x">>}
SomeAttrs == {<<>>, <<NumericAttr(NULL, "1", <<"4">>)>>, <<NumericAttr("gils", "1", <<"4">>), NumericAttr("bib-1", "2", <<"3">>)>>,
              <<NumericAttr(NULL, "2", <<"3">>), ComplexAttr("gils", "1", <<<<"t", "i">>>>)>>}
Terms == {Term(type, t) : type \in {"general", "string"}, t \in Texts} \cup {Term("numeric", <<"12">>), Term("null", <<>>)}
Proxes == [exclusion : {<<>>, <<TRUE>>, <<FALSE>>}, distance : {"3"}, ordered : BOOLEAN, relation : {"2"},
           which : {"known", "private"}, unit : {"2"}]
Operands == {Apt(a, t) : a \in SomeAttrs, t \in Terms} \cup {ResultSetId(<<"x">>)}
FewOperands == {Apt(<<>>, Term("general", <<"x">>)), Apt(<<NumericAttr(NULL, "1", <<"4">>)>>, Term("string", <<"a", " ", "b">>)),
                ResultSetId(<<"x">>)}
Trees ==
  Operands
  \cup {Complex(op, <<>>, s1, s2) : op \in {"and", "or", "not"}, s1 \in FewOperands, s2 \in Operands}
  \cup {Complex("prox", <<p>>, s1, s2) : p \in Proxes, s1, s2 \in FewOperands}
  \cup {Complex("and", <<>>, Complex("or", <<>>, s1, s2), s3) : s1, s2, s3 \in FewOperands}
Rpns == [set : AttributeSets, s : Trees]

PqfCase ==
  \E q \in Rpns : \E t \in {QueryText(q)} : case' = [unit |-> "pqf", q |-> q, text |-> t, got |-> Yaz.PqfParse[t]]

(* What the notation can say: an operand after one of another type has     *)
(* that type, unless it says its own; a null term has no blank after it;   *)
(* an attribute without a set has that of the one before it.               *)
TypesHold(ops) ==
  \A i, j \in DOMAIN ops : i < j /\ ops[i].k = "apt" /\ ops[j].k = "apt" =>
    ops[i].term.type # "null" /\ (ops[j].term.type = "general" => ops[i].term.type = "general")
SetsHold(attrs) == \A i \in 2..Len(attrs) : attrs[i].set = NULL => attrs[i - 1].set = NULL
PqfExpressible(q) ==
  LET ops == OperandsOf(q.s)
  IN /\ TypesHold(ops)
     /\ \A i \in DOMAIN ops : ops[i].k = "apt" => SetsHold(ops[i].attrs)
     /\ \A i \in 1..(Len(ops) - 1) : ops[i].k = "apt" => ops[i].term.type # "null"

RECURSIVE AttributesReversed(_)
AttributesReversed(s) ==
  CASE s.k = "op" -> [s EXCEPT !.s1 = AttributesReversed(s.s1), !.s2 = AttributesReversed(s.s2)]
    [] s.k = "apt" -> [s EXCEPT !.attrs = Reverse(s.attrs)]
    [] OTHER -> s

(* A query that is printed and read again is the same query, with every    *)
(* list of attributes the other way round, whatever its terms hold that    *)
(* means something to the lexer (src/src/querytowrbuf.c:19,                *)
(* src/src/pquery.c:61).                                                   *)
QueriesSurvivePqf ==
  case.unit = "pqf" /\ PqfExpressible(case.q) =>
    /\ case.got.ok
    /\ case.got.v = [case.q EXCEPT !.s = AttributesReversed(case.q.s)]

-----------------------------------------------------------------------------
(* Any text: tokens, well placed or not.                                   *)
Tokens == {<<"@", "and", " ">>, <<"@", "attr", " ">>, <<"1", "=", "4", " ">>, <<"gils", " ">>, <<"@", "attrset", " ">>,
           <<"x", " ">>, <<"@", "term", " ">>, <<"null", " ">>, <<"@", "set", " ">>, <<"\"", "x">>, <<"@", "1", "=", "x", " ">>,
           FlattenSeq([i \in 1..PqfMaxAttr |-> <<"@", "2", "=", "3", " ">>])}
PqfTexts == SeqsUpTo(Tokens, MaxTokens - 1) \cup {<<t>> \o ts : t \in {<<"@", "and", " ">>, <<"@", "attr", " ">>, <<"@", "attrset", " ">>}, ts \in [1..(MaxTokens - 1) -> Tokens]}
PqfTextCase ==
  \E ts \in PqfTexts : \E t \in {FlattenSeq(ts)} :
    case' = [unit |-> "pqftext", text |-> t, got |-> Yaz.PqfParse[t], scan |-> Yaz.PqfScan[t], facets |-> Yaz.PqfFacetList[t]]

(* A text is a query or an error, never both and never half a query: the   *)
(* structure that a second @attrset leaves unset is not handed out, and no *)
(* operand has two attributes of a type (src/src/pquery.c:586 and 246).    *)
NoHalfQueries ==
  case.unit = "pqftext" =>
    /\ case.got.ok <=> case.got.li.error = "none"
    /\ case.got.ok => /\ ~HasGarbage(case.got.v.s)
                      /\ \A o \in ToSet(OperandsOf(case.got.v.s)) : o.k = "apt" =>
                           \A i, j \in DOMAIN o.attrs : o.attrs[i].type = o.attrs[j].type => i = j

-----------------------------------------------------------------------------
(* XML: queries, and trees of elements that are not queries.               *)
XmlCase ==
  \E q \in Rpns : case' = [unit |-> "xml", q |-> q, got |-> Xml2Query(Query2Xml([kind |-> "type_1", rpn |-> q])[1])]

XmlExpressible(q) ==
  /\ \A o \in ToSet(OperandsOf(q.s)) : o.k = "rset" => o.id # <<>>
  /\ \A o \in ToSet(OperatorsOf(q.s)) : o.op = "prox" => o.prox[1].which = "known"

(* A query that is written as XML is read as the same query; only the      *)
(* number of a private proximity unit is lost (src/src/xmlquery.c:67).     *)
QueriesSurviveXml ==
  case.unit = "xml" /\ XmlExpressible(case.q) => case.got.errs = <<>> /\ case.got.v = case.q

Leaves == {Node("diagnostic", Prop("code", <<"100">>), <<>>, <<>>), Node("diagnostic", <<>>, <<>>, <<>>), Node("rset", <<>>, <<>>, <<>>),
           Node("rset", <<>>, <<>>, <<"x">>), Node("apt", <<>>, <<>>, <<>>), Node("other", <<>>, <<>>, <<>>),
           Node("apt", <<>>, <<Node("term", Prop("type", <<"oid">>), <<>>, <<>>)>>, <<>>),
           Node("apt", <<>>, <<Node("attr", Prop("type", <<"1">>), <<>>, <<>>), Node("term", <<>>, <<>>, <<"x">>)>>, <<>>),
           Node("apt", <<>>, <<Node("attr", Prop("type", <<"1">>) \o Prop("value", <<"4">>), <<>>, <<>>),
                               Node("term", Prop("type", <<"numeric">>), <<>>, <<"x">>)>>, <<>>)}
Branches(N) == {Node("operator", p, k, <<>>) :
                  p \in {<<>>, Prop("type", <<"and">>), Prop("type", <<"prox">>) \o Prop("ordered", <<"0">>), Prop("type", <<"x">>)},
                  k \in SeqsUpTo(N, 2)}
XmlNodes == Leaves \cup Branches(Leaves) \cup {Node("operator", Prop("type", <<"or">>), <<n, l>>, <<>>) : n \in Branches(Leaves), l \in Leaves}
XmlTreeCase ==
  \E n \in XmlNodes, top \in {"query", "other", "diagnostic"}, kind \in {"rpn", "cql"} :
    case' = [unit |-> "xmltree",
             got |-> Xml2Query(Node(top, <<>>, <<Node(kind, <<>>, <<n>>, <<>>)>>, <<>>))]

(* Whatever the elements are, a query with a part that was never set comes *)
(* with an error: a later part that is right does not hide the error of an *)
(* earlier one (src/src/xmlquery.c:689).                                   *)
XmlErrorsShow ==
  case.unit = "xmltree" /\ (case.got.v = Garbage \/ HasGarbage(case.got.v.s)) => case.got.errs # <<>>

-----------------------------------------------------------------------------
(* Sort specifications.                                                    *)
SortKeys == {SortField(<<"ti">>), SortField(<<"au">>), SortAttributes(<<NumericAttr(NULL, "1", <<"4">>), NumericAttr(NULL, "4", <<"2">>)>>)}
SortSpecs == [key : SortKeys, desc : BOOLEAN, sensitive : BOOLEAN,
              missing : {NoMissing, AbortMissing, MissingValue(<<"x">>), MissingValue(<<"0", "=">>)}]
SortCase ==
  \E l \in SeqsUpTo(SortSpecs, 2) :
    case' = [unit |-> "sort", l |-> l,
             srw |-> IF OnlyFields(l) THEN ParseSortSpec(SrwToSort(SortToSrw(l))) ELSE <<>>,
             solr |-> IF OnlyFields(l) THEN ParseSortSpec(SolrToSort(SortToSolr(l)).text) ELSE <<>>,
             type7 |-> Yaz.PqfParse[SortToType7(l, <<"@", "and", " ", "x", " ", "y">>)]]

(* Sort keys keep their order, direction, case and missing value through   *)
(* the keys of SRU; through those of Solr, which have nothing else, their  *)
(* order and direction (src/src/sortspec.c:237 and 333).                   *)
SortKeysSurvive ==
  case.unit = "sort" /\ OnlyFields(case.l) =>
    /\ case.srw = case.l
    /\ case.solr = [i \in DOMAIN case.l |-> [case.l[i] EXCEPT !.sensitive = FALSE, !.missing = NoMissing]]

(* With type-7 attributes the query stays the first operand, and the keys  *)
(* are the other operands in their order (src/src/sortspec.c:190).         *)
SortOperandsInOrder ==
  case.unit = "sort" =>
    LET ops == OperandsOf(case.type7.v.s)
    IN /\ case.type7.ok
       /\ [i \in 1..2 |-> ops[i].term.text] = <<<<"x">>, <<"y">>>>
       /\ Len(ops) = 2 + Len(case.l)
       /\ \A i \in DOMAIN case.l :
            /\ ops[2 + i].term.text = <<NumberText[i]>>
            /\ ops[2 + i].attrs[1] = NumericAttr(NULL, "7", <<IF case.l[i].desc THEN "2" ELSE "1">>)
            /\ case.l[i].key.which = "attributes" => Tail(ops[2 + i].attrs) = Reverse(case.l[i].key.attrs)

-----------------------------------------------------------------------------
(* CQL.  A table such as etc/pqf.properties.                               *)
CqlTable == <<
  Entry(<<"set", ".", "cql">>, CqlUri), Entry(<<"set", ".", "dc">>, <<"dc-uri">>), Entry(<<"set">>, <<"dc-uri">>),
  Entry(<<"index", ".", "cql", ".", "serverChoice">>, <<"1", "=", "12">>),
  Entry(<<"index", ".", "dc", ".", "ti">>, <<"1", "=", "4">>),
  Entry(<<"index", ".", "dc", ".", "au">>, <<"gils", "1", "=", "3">>),
  Entry(<<"relation", ".", "<">>, <<"2", "=", "1">>), Entry(<<"relation", ".", "le">>, <<"2", "=", "2">>),
  Entry(<<"relation", ".", "eq">>, <<"2", "=", "3">>), Entry(<<"relation", ".", "exact">>, <<"2", "=", "3">>),
  Entry(<<"relation", ".", "all">>, <<"2", "=", "3">>), Entry(<<"relation", ".", "any">>, <<"2", "=", "3">>),
  Entry(<<"relationModifier", ".", "stem">>, <<"2", "=", "100">>),
  Entry(<<"position", ".", "first">>, <<"3", "=", "1">>), Entry(<<"position", ".", "any">>, <<"3", "=", "3">>),
  Entry(<<"truncation", ".", "right">>, <<"5", "=", "1">>), Entry(<<"truncation", ".", "both">>, <<"5", "=", "3">>),
  Entry(<<"truncation", ".", "none">>, <<"5", "=", "100">>), Entry(<<"truncation", ".", "z3958">>, <<"5", "=", "104">>),
  Entry(<<"structure", ".", "*">>, <<"4", "=", "1">>)>>

CqlTerms == {<<"x">>, <<"x", "*">>, <<"*", "x">>, <<"*", "x", "*">>, <<"^", "x">>, <<"x", "?">>, <<"x", "*", "1">>, <<"x", "\\", "*">>,
             <<"\"", "x", " ", "y", "\"">>, <<"\"", "x", "\\", "\"", "\"">>, <<"\"", "\"">>, <<"x", " ", "y">>, <<"#", "*">>, <<"\\", "?">>,
             <<"\"", "and", "\"">>, <<"(", "x", ")">>, <<"x", "#", "?">>, <<"*">>}
CqlHeads == {<<>>, <<"ti", "=">>, <<"dc", ".", "au", "=", "/", "stem", " ">>, <<"ti", " ", "all", " ">>, <<"ti", " ", "any", " ">>,
             <<"ti", "<", "=">>, <<"zz", "=">>, <<"ti", "=", "=", "/", "au", "=", "y", " ">>, <<"cql", ".", "resultSet", "=">>}
CqlClauses == {h \o t : h \in CqlHeads, t \in CqlTerms}
FewClauses == {<<"x">>, <<"ti", "=", "y", "*">>, <<"(", "ti", " ", "all", " ", "\"", "x", " ", "y", "\"", ")">>}
CqlOps == {<<" ", "and", " ">>, <<" ", "not", " ">>, <<" ", "prox", "/", "distance", "<", "3", "/", "ordered", " ">>, <<" ", "or", "/", "x", " ">>}
CqlTails == {<<>>, <<" ", "sortby", " ", "ti", "/", "descending">>, <<" ", ")">>, <<" ", "sortby">>}
CqlTexts ==
  {c \o t : c \in CqlClauses, t \in CqlTails}
  \cup {c \o op \o f : c \in CqlClauses, op \in CqlOps, f \in {<<"x">>, <<"ti", "=", "y", "*">>}}
  \cup {f \o op \o <<"(">> \o g \o <<" ", "or", " ">> \o h \o <<")">> : f, g, h \in FewClauses, op \in CqlOps}
  \cup {<<">", "d", "=", "\"", "dc-uri", "\"", " ", "d", ".", "ti", "=">> \o t : t \in CqlTerms}
  \cup {<<">", "d", "=", "\"", "dc-uri", "\"", " ", "ti", " ", "d", ".", "x", " ", "x">>}

(* Qualifiers for the fields of CqlHeads that take masks.                  *)
MaskedBib == FoldLeft(QualLine, EmptyBibset, <<<<"term", "t", "=", "z">>, <<"ti", "u", "=", "4", "t", "=", "z", "r", "=", "o">>>>)
CqlCase ==
  \E t \in CqlTexts : \E c \in {Yaz.CqlToPqf[t]} : \E ccl \in {IF c.q.ok THEN CqlToCcl(c.q.v) ELSE Emit(<<>>, "syntax")} :
    case' = [unit |-> "cql", text |-> t, q |-> c.q, pqf |-> c.pqf, got |-> Yaz.PqfParse[c.pqf.out], ccl |-> ccl,
             xml |-> IF c.q.ok THEN CqlToXml(c.q.v, <<>>) ELSE <<>>,
             tree |-> IF ccl.err = NULL THEN Yaz.CclFind["masked", ccl.out] ELSE CclFail([err |-> NULL], "syntax")]

(* What a term matches: literal characters, "any" characters or "one"; in  *)
(* CQL, and in RPN with a truncation attribute.                            *)
Literal(c) == <<"literal", c>>
RECURSIVE CqlMatches(_)
CqlMatches(t) ==
  IF t = <<>> THEN <<>>
  ELSE IF t[1] = "\\" /\ Len(t) > 1 THEN <<Literal(t[2])>> \o CqlMatches(Rest(t, 2))
  ELSE <<CASE t[1] = "*" -> <<"any">> [] t[1] = "?" -> <<"one">> [] OTHER -> Literal(t[1])>> \o CqlMatches(Tail(t))
RECURSIVE Z3958Matches(_)
Z3958Matches(t) ==
  IF t = <<>> THEN <<>>
  ELSE IF t[1] = "\\" /\ Len(t) > 1 THEN <<Literal(t[2])>> \o Z3958Matches(Rest(t, 2))
  ELSE <<CASE t[1] = "?" -> <<"any">> [] t[1] = "#" -> <<"one">> [] OTHER -> Literal(t[1])>> \o Z3958Matches(Tail(t))
RECURSIVE RegexMatches(_)
RegexMatches(t) ==
  IF t = <<>> THEN <<>>
  ELSE CASE t[1] = "\\" /\ Len(t) > 1 -> <<Literal(t[2])>> \o RegexMatches(Rest(t, 2))
         [] t[1] = "." -> IF Len(t) > 1 /\ t[2] = "*" THEN <<<<"any">>>> \o RegexMatches(Rest(t, 2)) ELSE <<<<"one">>>> \o RegexMatches(Tail(t))
         [] OTHER -> <<Literal(t[1])>> \o RegexMatches(Tail(t))
RpnMatches(apt) ==
  LET trunc == TruncationOf(apt.attrs)
      plain == [i \in DOMAIN apt.term.text |-> Literal(apt.term.text[i])]
  IN IF trunc = "104" THEN Z3958Matches(apt.term.text) ELSE IF trunc = "102" THEN RegexMatches(apt.term.text)
     ELSE (IF trunc \in {"2", "3"} THEN <<<<"any">>>> ELSE <<>>) \o plain \o (IF trunc \in {"1", "3"} THEN <<<<"any">>>> ELSE <<>>)
Unanchored(t) == IF Len(t) > 0 /\ t[1] = "^" THEN Tail(t) ELSE t

(* The operands that a tree of CQL asks for, in order.  Words after the    *)
(* term of "all", "any" or a result set that are not in quotes with it are *)
(* left out.                                                               *)
RECURSIVE CqlOperands(_)
CqlOperands(n) ==
  CASE n.k = "sort" -> CqlOperands(n.search)
    [] n.k = "bool" -> CqlOperands(n.left) \o CqlOperands(n.right)
    [] n.k = "st" ->
         (IF n.rel \in {<<"all">>, <<"any">>}
          THEN IF n.term = <<>> THEN <<<<>>>> ELSE NonEmptyParts(n.term, " ")
          ELSE IF n.index = <<"cql", ".", "resultSet">> THEN <<n.term>> ELSE <<n.term>> \o n.extra)
         \o LET valued == SelectSeq(n.mods, LAMBDA m : m.term # <<>>) IN [i \in DOMAIN valued |-> valued[i].term[1]]
RECURSIVE CqlOperators(_)
CqlOperators(n) ==
  CASE n.k = "sort" -> CqlOperators(n.search)
    [] n.k = "bool" -> <<n.op>> \o CqlOperators(n.left) \o CqlOperators(n.right)
    [] n.k = "st" -> <<>>

(* A CQL query that is transformed without an error is a PQF query, which  *)
(* asks for the same: its operands are those of the CQL query in order,    *)
(* and each matches the same strings, whichever way the table lets its     *)
(* masks be said and whatever is escaped (src/src/cqltransform.c:593).     *)
CqlMeansTheSame ==
  case.unit = "cql" /\ case.pqf.err = NULL /\ case.q.ok =>
    LET ops == OperandsOf(case.got.v.s)
        terms == CqlOperands(case.q.v)
    IN /\ case.got.ok
       /\ Len(ops) = Len(terms)
       /\ \A i \in DOMAIN ops : ops[i].k = "apt" => RpnMatches(ops[i]) = CqlMatches(Unanchored(terms[i]))
       /\ Len(terms) = Len(CqlOperators(case.q.v)) + 1 =>
            [i \in DOMAIN OperatorsOf(case.got.v.s) |-> OperatorsOf(case.got.v.s)[i].op] = CqlOperators(case.q.v)

(* CQL that CCL can say, and what a CCL tree asks for.                     *)
RECURSIVE PlainCql(_)
PlainCql(n) ==
  CASE n.k = "sort" -> PlainCql(n.search)
    [] n.k = "bool" -> PlainCql(n.left) /\ PlainCql(n.right)
    [] n.k = "st" -> n.index \in {<<"ti">>, ServerChoice} /\ n.extra = <<>> /\ n.mods = <<>>
RECURSIVE CclTerms(_)
CclTerms(n) == IF IsBinary(n) THEN CclTerms(n.p0) \o CclTerms(n.p1) ELSE <<n>>
RECURSIVE CclOperators(_)
CclOperators(n) == IF IsBinary(n) THEN <<n.k>> \o CclOperators(n.p0) \o CclOperators(n.p1) ELSE <<>>

(* A CQL query that is written as CCL is read as a query with the same     *)
(* operators and operands, each of which matches the same strings          *)
(* (src/src/cql2ccl.c:16, src/src/cclfind.c:362).                          *)
CqlSurvivesCcl ==
  case.unit = "cql" /\ case.q.ok /\ case.ccl.err = NULL /\ PlainCql(case.q.v) =>
    LET terms == CclTerms(case.tree.v)
        asked == CqlOperands(case.q.v)
    IN /\ case.tree.ok
       /\ [i \in DOMAIN terms |-> RpnMatches([attrs |-> terms[i].attrs, term |-> [text |-> terms[i].text]])] =
          [i \in DOMAIN asked |-> CqlMatches(asked[i])]
       /\ Len(asked) = Len(CqlOperators(case.q.v)) + 1 => CclOperators(case.tree.v) = CqlOperators(case.q.v)

(* A clause of the tree has a relation with a URI and an index without one.*)
RECURSIVE OnlyRelationUri(_)
OnlyRelationUri(n) ==
  CASE n.k = "sort" -> OnlyRelationUri(n.search)
    [] n.k = "bool" -> OnlyRelationUri(n.left) \/ OnlyRelationUri(n.right)
    [] n.k = "st" -> n.uri = <<>> /\ n.reluri # <<>>

(* The tags of an XCQL document match, unless only the relation of a       *)
(* clause has a URI (src/src/xcqlutil.c:57).                               *)
XcqlBalanced ==
  case.unit = "cql" /\ case.q.ok =>
    LET stack == FoldLeft(LAMBDA st, x : CASE st = <<"bad">> \/ x.k = "text" -> st
                                           [] x.k = "open" -> Append(st, x.name)
                                           [] OTHER -> IF st # <<>> /\ Last(st) = x.name THEN Front(st) ELSE <<"bad">>,
                          <<>>, SelectSeq(case.xml, LAMBDA x : x.k # "text"))
    IN OnlyRelationUri(case.q.v) \/ stack = <<>>

-----------------------------------------------------------------------------
(* RPN to CQL and back.                                                    *)
Bib(type, v) == NumericAttr(NULL, type, <<v>>)
RpnAttrs == {<<>>, <<Bib("1", "4")>>, <<Bib("1", "4"), Bib("2", "1")>>, <<NumericAttr("gils", "1", <<"3">>), Bib("5", "1")>>, <<Bib("5", "3")>>,
             <<Bib("1", "4"), Bib("5", "104")>>, <<Bib("1", "5")>>, <<Bib("2", "100")>>, <<Bib("1", "12"), Bib("5", "100"), Bib("4", "1")>>}
RpnTexts == {<<"x">>, <<"x", " ", "y">>, <<"x", "*">>, <<"x", "\"">>, <<"?", "x", "#">>, <<>>, <<"x", "/", "y">>, <<"and">>, <<"x", "=">>}
RpnOperands == {Apt(a, Term(type, t)) : a \in RpnAttrs, type \in {"general", "string"}, t \in RpnTexts} \cup {ResultSetId(<<"x">>)}
SomeRpnOperands == {Apt(<<Bib("1", "4")>>, Term("general", <<"y">>)), Apt(<<>>, Term("string", <<"x", "*">>))}
RpnTrees ==
  RpnOperands \cup {Complex(op, <<>>, s1, s2) : op \in {"and", "or", "not"}, s1 \in SomeRpnOperands, s2 \in RpnOperands}
  \cup {Complex("not", <<>>, s1, Complex("prox", <<[p EXCEPT !.unit = u]>>, s2, s1)) : u \in {"2", "3"}, p \in {p \in Proxes : p.which = "known"}, s1, s2 \in SomeRpnOperands}
  \cup {Complex("and", <<>>, Complex("or", <<>>, s1, s2), Complex("not", <<>>, s2, s1)) : s1, s2 \in SomeRpnOperands}
RpnCqlCase ==
  \E s \in RpnTrees : \E cql \in {Rpn2Cql(CqlTable, s, FALSE)} : \E c \in {Yaz.CqlToPqf[cql.out]} :
    case' = [unit |-> "rpncql", s |-> s, cql |-> cql, q |-> c.q,
             got |-> IF cql.err = NULL /\ c.q.ok THEN Yaz.PqfParse[c.pqf.out] ELSE Failed(PqfBegin(<<>>), "none")]

(* The number of an attribute, or what the CQL of its absence means.       *)
Says(apt, type, default) ==
  LET i == Lowest({j \in DOMAIN apt.attrs : apt.attrs[j].type = type}) IN IF i = 0 THEN default ELSE apt.attrs[i].list[1][1]

(* Two RPN trees ask for the same.                                         *)
RECURSIVE SameQuery(_, _)
SameQuery(a, b) ==
  IF a.k = "op"
  THEN /\ b.k = "op" /\ b.op = a.op
       /\ a.op = "prox" => \A f \in {"distance", "ordered", "relation"} : a.prox[1][f] = b.prox[1][f]
       /\ SameQuery(a.s1, b.s1) /\ SameQuery(a.s2, b.s2)
  ELSE /\ b.k = "apt" /\ Says(b, "1", "none") = Says(a, "1", "12") /\ Says(b, "2", "none") = (IF Says(a, "2", "3") = "100" THEN "3" ELSE Says(a, "2", "3"))
       /\ RpnMatches(b) = RpnMatches(a)

(* An RPN query that is written as CQL without an error comes back from    *)
(* CQL with its operators nested as before, each operand with its index,   *)
(* its relation and what it matches; a word of the language in a term, or  *)
(* a mask of CQL in it, does not change that.  A relation that CQL has no  *)
(* name for is "=" (src/src/rpn2cql.c:178).                                *)
RpnSurvivesCql ==
  case.unit = "rpncql" /\ case.cql.err = NULL => case.q.ok /\ case.got.ok /\ SameQuery(case.s, case.got.v.s)

-----------------------------------------------------------------------------
(* SORTBY: keys to CQL, its sort keys, and back.                           *)
CqlSortCase ==
  \E l \in SeqsUpTo({s \in SortSpecs : s.key.which = "field" /\ (s.missing.which = "data" => s.desc /\ s.sensitive)}, 2) :
    \E q \in {Yaz.CqlToPqf[<<"x">> \o SortToCql(l)].q} :
      case' = [unit |-> "sortby", l |-> l, q |-> q,
               keys |-> IF q.ok THEN SortbyToSortKeys(q.v) ELSE Emit(<<>>, "syntax"),
               got |-> IF q.ok THEN ParseSortSpec(SrwToSort(SortbyToSortKeys(q.v).out)) ELSE <<>>]

(* Two keys of SORTBY keep order, direction, case and missing value on     *)
(* their way through CQL to the sort keys of SRU (src/src/cql_sortkeys.c:83*)
(* and 48).  Of more keys all but the first and the last are lost: every   *)
(* key is put in the place of the one after the first (src/src/cql.y:91).  *)
SortbySurvives == case.unit = "sortby" /\ case.keys.err = NULL => case.got = case.l

-----------------------------------------------------------------------------
(* CCL.  A file of qualifiers such as etc/default.bib, and a cclmap.       *)
BibLines == <<
  <<"#", "comment">>, <<>>,
  <<"@", "stop", "*", " ", "the", "of">>, <<"@", "and", " ", "and", "und">>,
  <<"term", "t", "=", "l", ",", "r", ",", "b", "s", "=", "al">>,
  <<"ti", "u", "=", "4", "t", "=", "z", "s", "=", "pw">>,
  <<"au", "gils", ",", "1", "=", "3", "t", "=", "x", "s", "=", "ag">>,
  <<"date", "1", "=", "5", "r", "=", "r">>, <<"kw", "ti", "au">>, <<"any", "u", "=", "4", ",", "5", "t", "=", "r">>,
  <<"day", "ti", "date">>, <<"sl", "1", "=", "8", "s", "=", "sl">>>>
CclBib(or) ==
  FoldLeft(QualLine, IF or THEN QualAddSpecial(EmptyBibset, <<"field">>, <<"or">>) ELSE EmptyBibset, BibLines)

Bibs == [plain |-> CclBib(FALSE), or |-> CclBib(TRUE), masked |-> MaskedBib]

XmlAttr(set, type, value) == [el |-> "attr", attrset |-> set, type |-> type, value |-> value]
XmlSub(name) == [el |-> "qual", name |-> name]
XmlParts == SeqsUpTo({XmlAttr(set, type, "4") : set \in {NULL, "gils"}, type \in {"u", "7"}} \cup {XmlAttr(NULL, "t", "x")}, 2) \cup SeqsUpTo({XmlSub("a"), XmlSub("b")}, 2)
XmlQuals == {[el |-> "qual", name |-> name, parts |-> parts] : name \in {"a", "b"}, parts \in XmlParts}
XmlDirective == [el |-> "directive", name |-> <<"truncation">>, values |-> <<"*">>]
BibLineOf(set, e) ==
  IF e.el = "directive" THEN <<"@">> \o e.name \o <<" ">> \o e.values
  ELSE <<e.name>> \o FlattenSeq([i \in DOMAIN e.parts |->
         IF e.parts[i].el = "qual" THEN <<e.parts[i].name>>
         ELSE LET a == e.parts[i]
                  s == IF a.attrset = NULL THEN set ELSE a.attrset
              IN (IF s = NULL THEN <<>> ELSE <<s, ",">>) \o <<a.type, "=", a.value>>])
BibsetCase ==
  \E set \in {NULL, "bib-1"}, x, y \in XmlQuals \cup {XmlDirective} :
    case' = [unit |-> "bibset", xml |-> XmlConfig(EmptyBibset, set, <<x, y>>),
             lines |-> QualLine(QualLine(EmptyBibset, BibLineOf(set, x)), BibLineOf(set, y))]

(* A map in XML and a file of lines that say the same make the same table  *)
(* of qualifiers, whichever of a qualifier and those it stands for comes   *)
(* first (src/src/cclxmlconfig.c:93, src/src/cclqfile.c:23).               *)
BibsetsAgree == case.unit = "bibset" => case.xml = case.lines

CclWords == {<<"x">>, <<"x", "?">>, <<"?", "x">>, <<"?", "x", "?">>, <<"x", "#">>, <<"x", "?", "y">>, <<"x", "\\", "?">>, <<"x", ".">>,
             <<"\"", "x", " ", "y", "\"">>, <<"\"", "x", "?", "\"", "?">>, <<"\"", "and", "\"">>, <<"\"", "(", "\"">>, <<"x", "*">>, <<"\\", "\"", "x">>, <<"the">>}
CclHeads == {<<>>, <<"ti", "=">>, <<"au", "=">>}
CclClauses == {h \o w : h \in CclHeads, w \in CclWords}
CclOps == {"and", "or", "not", "und"}
FewCclWords == {<<"x">>, <<"\"", "x", " ", "y", "\"">>, <<"x", "?">>}
FewCclClauses == {h \o w : h \in CclHeads, w \in FewCclWords}
(* A query that is built from clauses: its text, its clauses in order and  *)
(* its operators in the order of the tree.                                 *)
CclQ(text, words, ops) == [text |-> text, words |-> words, ops |-> ops]
Spaced(op) == <<" ", op, " ">>
OpKind(op) == IF op = "und" THEN "and" ELSE op
CclQueries ==
  {CclQ(c, <<c>>, <<>>) : c \in CclClauses}
  \cup {CclQ(c \o Spaced(op) \o d, <<c, d>>, <<OpKind(op)>>) : c \in CclClauses, op \in CclOps, d \in FewCclClauses}
  \cup {CclQ(c \o Spaced(o) \o d \o Spaced(p) \o e, <<c, d, e>>, <<OpKind(p), OpKind(o)>>) : c, e \in FewCclClauses, d \in {<<"x">>, <<"ti", "=", "x", "?">>}, o, p \in {"and", "not"}}
  \cup {CclQ(c \o Spaced(o) \o <<"(">> \o d \o Spaced(p) \o e \o <<")">>, <<c, d, e>>, <<OpKind(o), OpKind(p)>>) : c, e \in FewCclClauses, d \in {<<"x">>, <<"ti", "=", "x", "?">>}, o, p \in {"or", "not"}}
  \cup {CclQ(h \o <<"(">> \o d \o Spaced("or") \o e \o <<")">>, <<h \o d, h \o e>>, <<"or">>) : h \in {<<"ti", "=">>, <<"au", "=">>}, d, e \in FewCclWords}
CclCase ==
  \E q \in CclQueries : \E p \in {Yaz.CclFind["plain", q.text]} :
    case' = [unit |-> "ccl", q |-> q, p |-> p, got |-> IF p.ok THEN Yaz.PqfParse[CclPquery(p.v)] ELSE Failed(PqfBegin(<<>>), "none"),
             stopped |-> IF p.ok THEN RemoveStop(Bibs["plain"], p.v, <<>>) ELSE [n |-> <<>>, moved |-> FALSE, removed |-> <<>>]]

(* What a word of CCL matches; a field that knows regular expressions or   *)
(* Z39.58 masks says them so.                                              *)
RECURSIVE CclMatches(_, _)
CclMatches(t, quoted) ==
  IF t = <<>> THEN <<>>
  ELSE CASE t[1] = "\\" /\ Len(t) > 1 -> <<Literal(t[2])>> \o CclMatches(Rest(t, 2), quoted)
         [] t[1] = "\"" -> CclMatches(Tail(t), ~quoted)
         [] t[1] \notin {"\\", "\""} /\ ~quoted /\ t[1] \in {"?", "#"} -> <<IF t[1] = "?" THEN <<"any">> ELSE <<"one">>>> \o CclMatches(Tail(t), quoted)
         [] OTHER -> <<Literal(t[1])>> \o CclMatches(Tail(t), quoted)
WordOf(c) == IF Len(c) > 2 /\ c[2] = "=" THEN Rest(c, 2) ELSE c

(* A CCL query is refused, or asks as RPN for what it says: its operators  *)
(* from left to right except where parentheses nest them, and for each of  *)
(* its words, with quotes, escapes and masks, an operand that matches the  *)
(* same strings; and its tree survives PQF (src/src/cclfind.c:362 and      *)
(* 1226, src/src/cclptree.c:78).                                           *)
CclMeansTheSame ==
  case.unit = "ccl" =>
    LET ops == OperandsOf(case.got.v.s)
    IN IF case.p.ok
       THEN /\ case.got.ok
            /\ [i \in DOMAIN OperatorsOf(case.got.v.s) |-> OperatorsOf(case.got.v.s)[i].op] = case.q.ops
            /\ [i \in DOMAIN ops |-> RpnMatches(ops[i])] = [i \in DOMAIN case.q.words |-> CclMatches(WordOf(case.q.words[i]), FALSE)]
            /\ [i \in DOMAIN ops |-> <<ops[i].term.text, ToSet(ops[i].attrs)>>] = [i \in DOMAIN CclTerms(case.p.v) |-> <<CclTerms(case.p.v)[i].text, ToSet(CclTerms(case.p.v)[i].attrs)>>]
       ELSE case.p.st.err \in {"TRUNC_NOT_EMBED", "TRUNC_NOT_SINGLE"}

(* Stop words leave the terms and are reported, the other words stay where *)
(* they are, and an operator without one of its operands goes; in trees of *)
(* one operator, since a node above another keeps pointing to a child that *)
(* is gone (src/src/ccl_stop_words.c:73).                                  *)
StopWordsLeave ==
  case.unit = "ccl" /\ case.p.ok /\ Len(case.q.words) <= 2 =>
    LET terms == CclTerms(case.p.v)
        words(ts) == FlattenSeq([i \in DOMAIN ts |-> NonEmptyParts(ts[i].text, " ")])
        stop(w) == w \in {<<"the">>, <<"of">>}
    IN /\ case.stopped.removed = SelectSeq(words(terms), stop)
       /\ IF case.stopped.n = <<>> THEN \A w \in ToSet(words(terms)) : stop(w)
          ELSE words(CclTerms(case.stopped.n[1])) = SelectSeq(words(terms), LAMBDA w : ~stop(w))

(* Any text: tokens, well placed or not.                                   *)
CclTokenSet == {<<"ti">>, <<"kw">>, <<"day">>, <<"any">>, <<"sl">>, <<"=">>, <<"date">>, <<">", "=">>, <<"x">>, <<"1", "-">>, <<"-">>, <<"x", "?">>, <<"set">>,
                <<"(">>, <<")">>, <<"and">>, <<",">>, <<"%", "3">>, <<"!">>}
CclTextCase ==
  \E bib \in {"plain", "or"} : \E ts \in SeqsUpTo(CclTokenSet, IF bib = "or" THEN CclMaxTokens ELSE CclMaxTokens - 1) :
    \E p \in {Yaz.CclFind[bib, Joined(ts, <<" ">>)]} :
    case' = [unit |-> "ccltext", text |-> ts, p |-> p,
             got |-> IF p.ok /\ CclWhole(p.v) THEN Yaz.PqfParse[CclPquery(p.v)] ELSE Failed(PqfBegin(<<>>), "none")]

(* Every whole tree that the parser makes of a text, with proximities,     *)
(* sets, ranges and qualifiers that stand for several, is printed as a PQF *)
(* query of the same operators and operands (src/src/cclptree.c:25).       *)
CclPrintsAsPqf ==
  case.unit = "ccltext" /\ case.p.ok /\ CclWhole(case.p.v) =>
    /\ case.got.ok
    /\ [i \in DOMAIN OperatorsOf(case.got.v.s) |-> OperatorsOf(case.got.v.s)[i].op] = CclOperators(case.p.v)
    /\ [i \in DOMAIN OperandsOf(case.got.v.s) |-> OperandsOf(case.got.v.s)[i].k = "rset"] =
       [i \in DOMAIN CclTerms(case.p.v) |-> CclTerms(case.p.v)[i].k = "set"]

-----------------------------------------------------------------------------
(* Solr.  Documents with one value in each of two fields; values are in    *)
(* the order of their first symbols.                                       *)
SolrTable == <<Entry(<<"index", ".", "ti">>, <<"1", "=", "4">>), Entry(<<"index", ".", "au">>, <<"gils", "1", "=", "3">>),
               Entry(<<"relation", ".", "<", "=">>, <<"2", "=", "2">>)>>
Documents == [ti : {<<"a">>, <<"b">>, <<"c">>, <<"b", "c">>, <<"*">>, <<"b", " ", "c">>}, au : {<<"a">>, <<"b">>}]
Rank(v) == CASE v = <<>> -> 0 [] v # <<>> /\ v[1] = "*" -> 1 [] v # <<>> /\ v[1] = "a" -> 2 [] v # <<>> /\ v[1] = "b" -> 3 [] OTHER -> 4
RECURSIVE Matches(_, _)
Matches(p, v) ==
  CASE p = <<>> -> v = <<>>
    [] p # <<>> /\ p[1] = <<"any">> -> \E n \in 0..Len(v) : Matches(Tail(p), Rest(v, n))
    [] p # <<>> /\ p[1] = <<"one">> -> v # <<>> /\ Matches(Tail(p), Tail(v))
    [] OTHER -> v # <<>> /\ p[1] = Literal(v[1]) /\ Matches(Tail(p), Tail(v))
InField(d, field, Holds(_)) == CASE field = "ti" -> Holds(d.ti) [] field = "au" -> Holds(d.au) [] OTHER -> Holds(d.ti) \/ Holds(d.au)

(* The documents that an RPN query asks for.                               *)
RpnField(apt) == CASE Says(apt, "1", "none") = "4" -> "ti" [] Says(apt, "1", "none") = "3" -> "au" [] OTHER -> "either"
RECURSIVE RpnFinds(_, _)
RpnFinds(s, d) ==
  IF s.k = "apt"
  THEN LET rel == Says(s, "2", "3")
           v == Rank(s.term.text)
       IN InField(d, RpnField(s), LAMBDA x :
            CASE rel = "1" -> Rank(x) < v [] rel = "2" -> Rank(x) <= v [] rel = "4" -> Rank(x) >= v [] rel = "5" -> Rank(x) > v
              [] OTHER -> Matches(RpnMatches(s), x))
  ELSE CASE s.op = "and" -> RpnFinds(s.s1, d) /\ RpnFinds(s.s2, d)
         [] s.op = "or" -> RpnFinds(s.s1, d) \/ RpnFinds(s.s2, d)
         [] OTHER -> RpnFinds(s.s1, d) /\ ~RpnFinds(s.s2, d)

(* Solr reads a text: [ok, v, i] with the node read and the place after it.*)
SolrEnds == {" ", ")", "]", "}", "NUL"}
RECURSIVE SolrWord(_, _, _)
SolrWord(t, i, ends) ==
  CASE At(t, i) \in ends \cup {"NUL"} -> [text |-> <<>>, i |-> i]
    [] At(t, i) = "\\" -> LET r == SolrWord(t, i + 2, ends) IN [r EXCEPT !.text = <<"\\", At(t, i + 1)>> \o @]
    [] OTHER -> LET r == SolrWord(t, i + 1, ends) IN [r EXCEPT !.text = <<At(t, i)>> \o @]
SolrBound(t, i) == IF At(t, i) = "\"" THEN LET r == SolrWord(t, i + 1, {"\""}) IN [r EXCEPT !.i = @ + 1] ELSE SolrWord(t, i, SolrEnds)
RECURSIVE SolrRead(_, _), SolrExpr(_, _)
SolrRead(t, i) ==
  LET field == IF At(t, i + 1) = ":" THEN At(t, i) ELSE "either"
      b == IF At(t, i + 1) = ":" THEN i + 2 ELSE i
      lo == SolrBound(t, b + 1)
      hi == SolrBound(t, lo.i + 3)
      w == SolrBound(t, b)
      e == SolrExpr(t, i + 1)
  IN CASE At(t, i) = "(" -> [v |-> e.v, i |-> e.i + 1]
       [] At(t, i) # "(" /\ At(t, b) \in {"[", "{"} ->
            [v |-> [k |-> "range", field |-> field, lo |-> lo.text, from |-> At(t, b), hi |-> hi.text, to |-> At(t, hi.i)], i |-> hi.i + 1]
       [] OTHER -> [v |-> [k |-> "word", field |-> field, text |-> w.text], i |-> w.i]
SolrExpr(t, i) ==
  LET l == SolrRead(t, i)
      not == At(t, l.i + 1) = "AND" /\ At(t, l.i + 3) = "NOT"
      r == SolrRead(t, l.i + (IF not THEN 5 ELSE 3))
      op == IF not THEN "not" ELSE At(t, l.i + 1)
  IN IF At(t, l.i) # " " THEN l ELSE [v |-> [k |-> op, l |-> l.v, r |-> r.v], i |-> r.i]
RECURSIVE Unquoted(_)
Unquoted(t) == IF t = <<>> THEN <<>> ELSE IF t[1] = "\\" /\ Len(t) > 1 THEN <<t[2]>> \o Unquoted(Rest(t, 2)) ELSE <<t[1]>> \o Unquoted(Tail(t))
RECURSIVE SolrFinds(_, _)
SolrFinds(n, d) ==
  CASE n.k = "word" -> InField(d, n.field, LAMBDA x : Matches(CqlMatches(n.text), x))
    [] n.k = "range" -> InField(d, n.field, LAMBDA x :
         /\ n.lo = <<"*">> \/ Rank(x) > Rank(Unquoted(n.lo)) \/ (n.from = "[" /\ Rank(x) = Rank(Unquoted(n.lo)))
         /\ n.hi = <<"*">> \/ Rank(x) < Rank(Unquoted(n.hi)) \/ (n.to = "]" /\ Rank(x) = Rank(Unquoted(n.hi))))
    [] n.k = "AND" -> SolrFinds(n.l, d) /\ SolrFinds(n.r, d)
    [] n.k = "OR" -> SolrFinds(n.l, d) \/ SolrFinds(n.r, d)
    [] n.k = "not" -> SolrFinds(n.l, d) /\ ~SolrFinds(n.r, d)

SolrAttrs == {<<>>, <<Bib("1", "4")>>, <<NumericAttr("gils", "1", <<"3">>)>>}
SolrTexts == {<<"b">>, <<"*">>, <<"b", " ", "c">>}
SolrOperands ==
  {Apt(a \o <<Bib("2", r)>>, Term("general", t)) : a \in SolrAttrs \ {<<>>}, r \in {"1", "2", "3", "4", "5", "6"}, t \in SolrTexts}
  \cup {Apt(a \o <<Bib("5", r)>>, Term("string", t)) : a \in SolrAttrs, r \in {"1", "3", "100", "104"}, t \in {<<"b">>, <<"*">>, <<"b", "?">>, <<"b", "\\", "#">>}}
FewSolrOperands == {Apt(<<Bib("1", "4"), Bib("2", "4")>>, Term("general", <<"a">>)), Apt(<<Bib("1", "4"), Bib("2", "1")>>, Term("general", <<"c">>)),
                    Apt(<<>>, Term("general", <<"b">>))}
SolrTrees ==
  SolrOperands
  \cup {Complex(op, <<>>, s1, s2) : op \in {"and", "or", "not"}, s1 \in SolrOperands, s2 \in FewSolrOperands}
  \cup {Complex(op, <<>>, s1, s2) : op \in {"and"}, s1 \in FewSolrOperands, s2 \in SolrOperands}
  \cup {Complex(o, <<>>, s1, Complex(p, <<>>, s2, s3)) : o, p \in {"and", "or", "not"}, s1, s2, s3 \in FewSolrOperands}
  \cup {Complex(o, <<>>, Complex(p, <<>>, s1, s2), s3) : o, p \in {"and", "or", "not"}, s1, s2, s3 \in FewSolrOperands}
SolrCase == \E s \in SolrTrees : case' = [unit |-> "rpnsolr", s |-> s, out |-> Rpn2Solr(SolrTable, s, FALSE)]

(* A query of Solr finds the documents that the RPN query asks for,        *)
(* however it is nested, whichever bounds of an index become one range,    *)
(* and whatever in a term means something to Solr; with one value to a     *)
(* field, since a range is met by one value and two bounds by two          *)
(* (src/src/rpn2solr.c:102 and 204).                                       *)
SolrFindsTheSame ==
  case.unit = "rpnsolr" /\ case.out.err = NULL =>
    LET r == SolrExpr(case.out.out, 1)
    IN r.i = Len(case.out.out) + 1 /\ \A d \in Documents : SolrFinds(r.v, d) <=> RpnFinds(case.s, d)

=============================================================================
