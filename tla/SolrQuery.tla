----------------------------- MODULE SolrQuery ------------------------------
(***************************************************************************)
(* RPN to a query of Solr (src/src/rpn2solr.c, solrtransform.c).  Texts as *)
(* in PqfQuery.                                                            *)
(***************************************************************************)
EXTENDS CqlConvert

(* solr_lookup_reverse, and lookup_relation_index_from_attr: a number that *)
(* Solr has no relation for is an error.                                   *)
SolrRelationOf(ct, attrs) ==
  LET i == Lowest({j \in DOMAIN attrs : attrs[j].type = "2" /\ attrs[j].num})
      n == IF i = 0 THEN "3" ELSE attrs[i].list[1][1]
  IN IF LookupReverse(ct, <<"relation", ".">>, attrs) # <<>> THEN LookupReverse(ct, <<"relation", ".">>, attrs)
     ELSE CASE n = "1" -> <<<<"<">>>> [] n = "2" -> <<<<"le">>>> [] n = "3" -> <<<<":">>>> [] n = "4" -> <<<<"ge">>>> [] n = "5" -> <<<<">">>>>
            [] OTHER -> <<>>
SolrIndexOf(ct, attrs) ==
  IF LookupReverse(ct, <<"index", ".">>, attrs) # <<>> THEN LookupReverse(ct, <<"index", ".">>, attrs) ELSE IndexFromAttr(attrs)
IsLower(rel) == rel[1][1] \in {">", "ge"}
IsUpper(rel) == rel[1][1] \in {"<", "le"}
IsInclusive(rel) == rel[1] \in {<<"le">>, <<"ge">>, <<"<", "=">>, <<">", "=">>}

(* check_range: two operands under "and" that bound one index, the lower   *)
(* bound first.                                                            *)
CheckRange(ct, q) ==
  LET r1 == SolrRelationOf(ct, q.s1.attrs)
      r2 == SolrRelationOf(ct, q.s2.attrs)
      i1 == SolrIndexOf(ct, q.s1.attrs)
  IN CASE q.op # "and" \/ q.s1.k # "apt" \/ q.s2.k # "apt" -> <<>>
       [] OTHER -> IF i1 = <<>> \/ i1 # SolrIndexOf(ct, q.s2.attrs) \/ r1 = <<>> \/ r2 = <<>> THEN <<>>
                   ELSE IF IsLower(r1) /\ IsUpper(r2) THEN <<q.s1, q.s2>>
                   ELSE IF IsLower(r2) /\ IsUpper(r1) THEN <<q.s2, q.s1>> ELSE <<>>

(* rpn2solr_attr.                                                          *)
Rpn2SolrAttr(ct, attrs) ==
  LET index == SolrIndexOf(ct, attrs)
      structure == LookupReverse(ct, <<"structure", ".">>, attrs)
  IN CASE index = <<>> -> Emit(<<>>, "use attribute")
       [] index = <<ServerChoice>> -> Emit(<<>>, NULL)
       [] OTHER -> Emit(index[1] \o <<":">> \o (IF structure \in {<<>>, <<<<"*">>>>} THEN <<>> ELSE <<"/">> \o structure[1] \o <<" ">>), NULL)

(* emit_term.                                                              *)
SolrSpecial == {"+", "-", "&", "|", "!", "(", ")", "{", "}", "[", "]", "^", "\"", "~", "*", "?", ":", "\\"}
RECURSIVE SolrTermText(_, _)
SolrTermText(t, trunc) ==
  IF t = <<>> THEN <<>>
  ELSE LET c == IF t[1] = "\\" /\ Len(t) > 1 THEN t[2] ELSE t[1]
           n == IF t[1] = "\\" /\ Len(t) > 1 THEN 2 ELSE 1
       IN (CASE n = 1 /\ c = "?" /\ trunc = "104" -> <<"*">> [] n = 1 /\ c = "#" /\ trunc = "104" -> <<"?">>
             [] OTHER -> (IF c \in SolrSpecial THEN <<"\\">> ELSE <<>>) \o <<c>>)
          \o SolrTermText(Rest(t, n), trunc)
SolrTerm(term, trunc) ==
  LET quote == IF term.text = <<>> \/ \E i \in DOMAIN term.text : term.text[i] = " " THEN <<"\"">> ELSE <<>>
  IN CASE term.type = "numeric" -> Emit(term.text, NULL)
       [] term.type \in {"general", "string"} ->
            Emit(quote \o (IF trunc \in {"2", "3"} THEN <<"*">> ELSE <<>>) \o SolrTermText(term.text, trunc)
                 \o (IF trunc \in {"1", "3"} THEN <<"*">> ELSE <<>>) \o quote, NULL)
       [] OTHER -> Emit(<<>>, "term type")

(* rpn2solr_simple: an operand, or two that make a range; of the second    *)
(* neither its truncation nor its error counts.                            *)
Rpn2SolrSimple(ct, apt, upper) ==
  LET rel == SolrRelationOf(ct, apt.attrs)
      attr == Rpn2SolrAttr(ct, apt.attrs)
      trunc == TruncationOf(apt.attrs)
      term == SolrTerm(apt.term, trunc)
      above == IF upper = <<>> THEN <<"*", "]">>
               ELSE SolrTerm(upper[1].term, "0").out
                    \o (IF IsInclusive(SolrRelationOf(ct, upper[1].attrs)) THEN <<"]">> ELSE <<"}">>)
      text == CASE IsUpper(rel) -> <<"[", "*", " ", "TO", " ">> \o term.out \o (IF IsInclusive(rel) THEN <<"]">> ELSE <<"}">>)
                [] IsLower(rel) -> (IF IsInclusive(rel) THEN <<"[">> ELSE <<"{">>) \o term.out \o <<" ", "TO", " ">> \o above
                [] OTHER -> term.out
  IN IF rel = <<>> THEN Emit(<<>>, "relation") ELSE IF attr.err # NULL THEN attr
     ELSE IF trunc \notin {"0", "1", "2", "3", "100", "104"} THEN Emit(<<>>, "truncation")
     ELSE IF term.err # NULL THEN term ELSE Emit(attr.out \o text, NULL)

(* rpn2solr_structure.                                                     *)
RECURSIVE Rpn2Solr(_, _, _)
Rpn2Solr(ct, q, nested) ==
  LET range == CheckRange(ct, q)
      left == Rpn2Solr(ct, q.s1, TRUE)
      right == Rpn2Solr(ct, q.s2, TRUE)
      op == CASE q.op = "and" -> <<" ", "AND", " ">> [] q.op = "or" -> <<" ", "OR", " ">> [] OTHER -> <<" ", "AND", " ", "NOT", " ">>
  IN CASE q.k = "rset" -> Emit(<<>>, "result set")
       [] q.k = "apt" -> Rpn2SolrSimple(ct, q, <<>>)
       [] q.k = "op" -> IF range # <<>> THEN Rpn2SolrSimple(ct, range[1], <<range[2]>>)
                        ELSE IF left.err # NULL THEN left ELSE IF q.op = "prox" THEN Emit(<<>>, "prox")
                        ELSE Emit((IF nested THEN <<"(">> ELSE <<>>) \o left.out \o op \o right.out \o (IF nested THEN <<")">> ELSE <<>>), right.err)
=============================================================================
