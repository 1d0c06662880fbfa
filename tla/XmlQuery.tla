------------------------------ MODULE XmlQuery ------------------------------
(***************************************************************************)
(* RPN queries as XML (src/src/xmlquery.c).  A node is an element with its *)
(* name, its properties in order, its element children and its text.  An   *)
(* error does not stop the conversion: what follows is still read, the     *)
(* last error is the one reported, and what was being built stays unset.   *)
(***************************************************************************)
EXTENDS PqfQuery

Node(name, props, kids, text) == [name |-> name, props |-> props, kids |-> kids, text |-> text]
Prop(n, v) == <<[n |-> n, v |-> v]>>
PropIf(n, v) == IF v = NULL THEN <<>> ELSE Prop(n, <<v>>)

(* yaz_query2xml_attribute_element: one element for each value.            *)
AttributeNodes(a) ==
  [i \in DOMAIN a.list |->
     Node("attr", PropIf("set", a.set) \o Prop("type", <<a.type>>) \o Prop("value", a.list[i]), <<>>, <<>>)]

(* yaz_query2xml_term: only three types have a text.                       *)
TermNode(t) ==
  Node("term", Prop("type", <<t.type>>), <<>>, IF t.type \in {"general", "numeric", "string"} THEN t.text ELSE <<>>)

(* yaz_query2xml_apt.                                                      *)
AptNode(s) ==
  Node("apt", <<>>, FoldLeft(LAMBDA out, a : out \o AttributeNodes(a), <<>>, s.attrs) \o <<TermNode(s.term)>>, <<>>)

BoolText(b) == <<IF b THEN "true" ELSE "false">>

(* yaz_query2xml_operator: a private unit has no number.                   *)
OperatorProps(op, prox) ==
  LET p == prox[1]
  IN Prop("type", <<op>>)
  \o (IF op # "prox" THEN <<>>
      ELSE (IF p.exclusion = <<>> THEN <<>> ELSE Prop("exclusion", BoolText(p.exclusion[1])))
           \o Prop("distance", <<p.distance>>) \o Prop("ordered", BoolText(p.ordered))
           \o Prop("relationType", <<p.relation>>)
           \o (IF p.which = "known" THEN Prop("knownProximityUnit", <<p.unit>>)
               ELSE Prop("privateProximityUnit", <<"private">>)))

(* yaz_query2xml_rpnstructure.                                             *)
RECURSIVE StructureNode(_)
StructureNode(s) ==
  CASE s.k = "op" -> Node("operator", OperatorProps(s.op, s.prox), <<StructureNode(s.s1), StructureNode(s.s2)>>, <<>>)
    [] s.k = "apt" -> AptNode(s)
    [] s.k = "rset" -> Node("rset", <<>>, <<>>, s.id)

(* yaz_query2xml and yaz_query2xml_rpn: only RPN has an XML form, for the  *)
(* other kinds there is no document.                                       *)
Query2Xml(q) ==
  IF q.kind \in {"type_1", "type_101"}
  THEN <<Node("query", <<>>, <<Node("rpn", PropIf("set", q.rpn.set), <<StructureNode(q.rpn.s)>>, <<>>)>>, <<>>)>>
  ELSE <<>>

-----------------------------------------------------------------------------
(* What a conversion makes of a node: a value, and the errors met so far,  *)
(* the last one first.                                                     *)
Made(v, errs) == [v |-> v, errs |-> errs]
Unmade(errs) == Made(Garbage, errs)

GetProp(n, name) ==
  LET k == Lowest({i \in DOMAIN n.props : n.props[i].n = name}) IN IF k = 0 THEN <<>> ELSE <<n.props[k].v>>
LastProp(n, name) ==
  LET k == Highest({i \in DOMAIN n.props : n.props[i].n = name}) IN IF k = 0 THEN <<>> ELSE <<n.props[k].v>>
OtherProps(n, names) == {i \in DOMAIN n.props : n.props[i].n \notin names} # {}

(* check_diagnostic: an element in the place of a part of the query        *)
(* reports an error of its maker.                                          *)
IsDiagnostic(n) == n.name = "diagnostic"
DiagnosticError(n) ==
  IF OtherProps(n, {"code", "addinfo"}) THEN "bad attribute for diagnostic"
  ELSE IF LastProp(n, "code") = <<>> THEN "missing code" ELSE LastProp(n, "code")[1][1]

(* intVal and boolVal.                                                     *)
IntVal(text) == IF text # <<>> /\ text[1] \in Numerals THEN text[1] ELSE "0"
BoolVal(text) == ~(text = <<>> \/ text[1] \in {"0", "false"})

(* yaz_xml2query_operator: properties in their order, from defaults.       *)
ReadProximity(n, errs) ==
  FoldLeft(LAMBDA r, p :
             IF r.stop THEN r
             ELSE CASE p.n = "type" -> r
                    [] p.n = "exclusion" -> [r EXCEPT !.v.exclusion = <<BoolVal(p.v)>>]
                    [] p.n = "distance" -> [r EXCEPT !.v.distance = IntVal(p.v)]
                    [] p.n = "ordered" -> [r EXCEPT !.v.ordered = BoolVal(p.v)]
                    [] p.n = "relationType" -> [r EXCEPT !.v.relation = IntVal(p.v)]
                    [] p.n = "knownProximityUnit" -> [r EXCEPT !.v.which = "known", !.v.unit = IntVal(p.v)]
                    [] p.n = "privateProximityUnit" -> [r EXCEPT !.v.which = "private", !.v.unit = IntVal(p.v)]
                    [] OTHER -> [r EXCEPT !.stop = TRUE, !.errs = <<"bad proximity attribute">> \o r.errs],
           [v |-> [exclusion |-> <<>>, distance |-> "1", ordered |-> TRUE, relation |-> "2", which |-> "known", unit |-> "2"],
            errs |-> errs, stop |-> FALSE], n.props)
ReadOperator(n, errs) ==
  LET type == GetProp(n, "type")
  IN IF type = <<>> THEN Made([op |-> "uninitialized", prox |-> <<>>], <<"no operator type">> \o errs)
     ELSE CASE type[1] \in {<<"and">>, <<"or">>, <<"not">>} -> Made([op |-> type[1][1], prox |-> <<>>], errs)
            [] type[1] = <<"prox">> -> Made([op |-> "prox", prox |-> <<ReadProximity(n, errs).v>>], ReadProximity(n, errs).errs)
            [] OTHER -> Made([op |-> "uninitialized", prox |-> <<>>], <<"bad operator type">> \o errs)

(* yaz_xml2query_attribute_element.                                        *)
ReadAttribute(n, errs) ==
  LET set == LastProp(n, "set")
      type == LastProp(n, "type")
      value == LastProp(n, "value")
      setname == IF set = <<>> \/ set[1][1] \notin AttributeSets THEN NULL ELSE set[1][1]
  IN CASE OtherProps(n, {"set", "type", "value"}) -> Unmade(<<"bad attribute">> \o errs)
       [] ~OtherProps(n, {"set", "type", "value"}) /\ type = <<>> -> Unmade(<<"missing type">> \o errs)
       [] ~OtherProps(n, {"set", "type", "value"}) /\ type # <<>> /\ value = <<>> -> Unmade(<<"missing value">> \o errs)
       [] OTHER -> Made(IF IsNumber(value[1]) THEN NumericAttr(setname, IntVal(type[1]), <<IntVal(value[1])>>)
                        ELSE ComplexAttr(setname, IntVal(type[1]), <<value[1]>>), errs)

(* yaz_xml2query_term.                                                     *)
ReadTerm(n, errs) ==
  LET type == LastProp(n, "type")
  IN CASE OtherProps(n, {"type"}) -> Unmade(<<"bad attribute">> \o errs)
       [] ~OtherProps(n, {"type"}) /\ type \in {<<>>, <<<<"general">>>>} -> Made(Term("general", n.text), errs)
       [] ~OtherProps(n, {"type"}) /\ type = <<<<"numeric">>>> -> Made(Term("numeric", <<IntVal(n.text)>>), errs)
       [] ~OtherProps(n, {"type"}) /\ type = <<<<"string">>>> -> Made(Term("string", n.text), errs)
       [] ~OtherProps(n, {"type"}) /\ type = <<<<"null">>>> -> Made(Term("null", <<>>), errs)
       [] OTHER -> Unmade(<<"unhandled term type">> \o errs)

(* yaz_xml2query_apt: attributes up to the first other element, which must *)
(* be the term.                                                            *)
ReadApt(n, errs) ==
  LET k == Lowest({i \in DOMAIN n.kids : n.kids[i].name # "attr"})
      count == IF k = 0 THEN Len(n.kids) ELSE k - 1
      attrs == FoldLeft(LAMBDA r, i : LET a == ReadAttribute(n.kids[i], r.errs)
                                      IN Made(Append(r.v, a.v), a.errs), Made(<<>>, errs), UpTo(count))
      term == ReadTerm(n.kids[k], attrs.errs)
  IN CASE k = 0 -> Made(Apt(attrs.v, Garbage), <<"missing term node">> \o attrs.errs)
       [] k # 0 /\ n.kids[k].name = "diagnostic" ->
            Made(Apt(attrs.v, Garbage), <<DiagnosticError(n.kids[k])>> \o attrs.errs)
       [] k # 0 /\ n.kids[k].name = "term" -> Made(Apt(attrs.v, term.v), term.errs)
       [] OTHER -> Made(Apt(attrs.v, Garbage), <<"bad element in apt">> \o attrs.errs)

(* yaz_xml2query_rpnstructure on the first of a list of siblings, and      *)
(* yaz_xml2query_rset.                                                     *)
RECURSIVE ReadStructure(_, _)
ReadStructure(kids, errs) ==
  LET n == kids[1]
      op == ReadOperator(n, errs)
      s1 == ReadStructure(n.kids, op.errs)
      s2 == ReadStructure(IF n.kids = <<>> THEN <<>> ELSE Tail(n.kids), s1.errs)
  IN CASE kids = <<>> -> Unmade(<<"missing rpn operator, rset, apt node">> \o errs)
       [] kids # <<>> /\ n.name = "diagnostic" -> Unmade(<<DiagnosticError(n)>> \o errs)
       [] kids # <<>> /\ n.name = "operator" -> Made(Complex(op.v.op, op.v.prox, s1.v, s2.v), s2.errs)
       [] kids # <<>> /\ n.name = "apt" -> ReadApt(n, errs)
       [] kids # <<>> /\ n.name = "rset" ->
            IF n.text = <<>> THEN Unmade(<<"missing rset content">> \o errs) ELSE Made(ResultSetId(n.text), errs)
       [] OTHER -> Unmade(<<"bad element">> \o errs)

(* yaz_xml2query_ and yaz_xml2query_rpn.                                   *)
Xml2Query(n) ==
  LET rpn == n.kids[1]
      s == ReadStructure(rpn.kids, <<>>)
      set == GetProp(rpn, "set")
  IN CASE IsDiagnostic(n) -> Unmade(<<DiagnosticError(n)>>)
       [] n.name = "query" /\ n.kids = <<>> -> Unmade(<<"missing query content">>)
       [] n.name = "query" /\ n.kids # <<>> /\ rpn.name = "rpn" ->
            Made([set |-> IF set = <<>> \/ set[1][1] \notin AttributeSets THEN NULL ELSE set[1][1], s |-> s.v], s.errs)
       [] n.name = "query" /\ n.kids # <<>> /\ rpn.name # "rpn" -> Unmade(<<"unsupported query type">>)
       [] OTHER -> Unmade(<<"missing query element">>)

RECURSIVE HasGarbage(_)
HasGarbage(s) ==
  CASE s.k = "op" -> s.op = "uninitialized" \/ HasGarbage(s.s1) \/ HasGarbage(s.s2)
    [] s.k = "apt" -> s.term = Garbage \/ \E i \in DOMAIN s.attrs : s.attrs[i] = Garbage
    [] s.k = "rset" -> FALSE
    [] OTHER -> TRUE
=============================================================================
