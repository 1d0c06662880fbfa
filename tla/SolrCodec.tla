----------------------------- MODULE SolrCodec ------------------------------
(***************************************************************************)
(* Requests to and responses from Solr (src/src/solr.c).  Requests are PDUs*)
(* of SruCodec with parameters as there; the clause of a scan is a field,  *)
(* or NULL, and a term.  A path is a sequence of its parts.                *)
(***************************************************************************)
EXTENDS SruCodec

SolrNumber == [n \in 0..9 |-> <<"0", "1", "2", "3", "4", "5", "6", "7", "8", "9">>[n + 1]]
Value(s) == CHOOSE n \in 0..9 : SolrNumber[n] = s

(* yaz_solr_encode_facet_field: what a facet says goes under its field.    *)
FacetFieldParms(av) ==
  LET under(name) == IF av.use = NULL THEN <<"facet", name>> ELSE <<av.use, "facet", name>>
      parm(cond, name, v) == IF cond THEN <<[n |-> under(name), v |-> v]>> ELSE <<>>
  IN (IF av.use = NULL THEN <<>> ELSE <<[n |-> <<"facet.field">>, v |-> av.use]>>)
     \o parm(av.limit > 0, "limit", SolrNumber[Most(av.limit, 0)]) \o parm(av.start > 1, "offset", SolrNumber[Most(av.start - 1, 0)])
     \o parm(av.sort = 1, "sort", "index")

(* yaz_solr_encode_request, the parameters; the first facet that is wrong  *)
(* ends the request.                                                       *)
SolrArg(n, v) == IF v = NULL THEN <<>> ELSE <<[n |-> <<n>>, v |-> v]>>

SolrSearchParms(p, facets) ==
  LET extra == [i \in DOMAIN p.extra |-> [n |-> <<p.extra[i].n>>, v |-> p.extra[i].v]]
      avs == [i \in DOMAIN facets |-> FacetAttr(facets[i])]
  IN extra
     \o (IF \E i \in DOMAIN p.extra : p.extra[i].n = "defType" THEN <<>> ELSE SolrArg("defType", "lucene"))
     \o SolrArg("q", p.query) \o (IF p.start = NULL THEN <<>> ELSE SolrArg("start", SolrNumber[Value(p.start) - 1]))
     \o SolrArg("rows", p.maximum) \o SolrArg("fl", p.schema) \o SolrArg("sort", p.sort)
     \o (IF facets = <<>> THEN <<>>
         ELSE SolrArg("facet", "true") \o SolrArg("facet.mincount", "1") \o FlattenSeq([i \in DOMAIN avs |-> FacetFieldParms(avs[i])]))
SolrScanParms(p, clause) ==
  (CASE p.queryType = "pqf" -> SolrArg("terms.fl", clause.term) \o SolrArg("terms.lower", clause.term)
     [] OTHER -> SolrArg("terms.lower", clause.term) \o SolrArg("terms.fl", clause.field))
  \o SolrArg("terms.sort", "index") \o SolrArg("terms.limit", p.maximum)
SolrRequestOk(p, facets) ==
  \/ p.which = "searchRetrieve" /\ p.query # NULL /\ \A i \in DOMAIN facets : ~FacetAttr(facets[i]).err
  \/ p.which = "scan" /\ p.query # NULL /\ p.queryType \in {"pqf", "cql"}

(* The slots of the arrays for the parameters; one is for the end.         *)
SolrRoom(p, facets) == 20 + Len(p.extra) + (IF p.which = "searchRetrieve" THEN Len(facets) ELSE 0)

(* ... and the path: a fragment goes, a path with a query is a search      *)
(* handler already.                                                        *)
SolrPath(path, op) ==
  LET f == Lowest({i \in DOMAIN path : path[i] = "#"})
      p == IF f = 0 THEN path ELSE SubSeq(path, 1, f - 1)
      base == CASE IsSuffix(<<"/", "select">>, p) -> SubSeq(p, 1, Len(p) - 2) [] IsSuffix(<<"/">>, p) -> Front(p) [] OTHER -> p
  IN IF (\E i \in DOMAIN p : p[i] = "?") /\ op # "terms" THEN p \o (IF Last(p) \in {"?", "&"} THEN <<>> ELSE <<"&">>)
     ELSE base \o <<"/", op, "?">>

-----------------------------------------------------------------------------
(* Responses: the children of the element response.  A state of the reader *)
(* is the PDU it is at, its last search response and its return value.     *)
SolrSearchResponse(number) == [number |-> number, positions |-> <<>>, diags |-> <<>>, facets |-> <<>>, suggestions |-> <<>>]
SolrNothing == [which |-> "none", sr |-> <<>>, terms |-> <<>>, ret |-> -1]

(* yaz_solr_decode_result and yaz_solr_decode_result_docs; numFound is -1  *)
(* when it is not there.                                                   *)
ReadResult(st, e) ==
  LET sr == SolrSearchResponse(e.numFound)
      n == IF e.numFound > 0 THEN e.docs ELSE 0
  IN [st EXCEPT !.which = "search", !.sr = <<[sr EXCEPT !.positions = [i \in 1..n |-> e.start + i]]>>, !.ret = IF e.numFound >= 0 THEN 0 ELSE -1]

(* yaz_solr_decode_facet_field and _counts: a list without a name, a term  *)
(* without one, are left out.                                              *)
ReadFacets(lists) ==
  LET named == SelectSeq(lists, LAMBDA l : l.name # NULL)
  IN [i \in DOMAIN named |-> [name |-> named[i].name, terms |-> SelectSeq(named[i].terms, LAMBDA t : t.name # NULL)]]

(* yaz_solr_decode_scan_result: a term may have the term to show after a   *)
(* "^".  The code reads the name of a term that has none.                  *)
ReadSolrTerm(t) == [value |-> t.name[1], display |-> IF Len(t.name) = 2 THEN t.name[2] ELSE NULL, count |-> t.count]
ReadTerms(st, e) ==
  [st EXCEPT !.which = "scan", !.terms = [i \in DOMAIN e.terms |-> ReadSolrTerm(e.terms[i])], !.ret = IF e.terms = <<>> THEN -1 ELSE 0]

(* yaz_solr_decode_misspelled and those it calls: the words of every list  *)
(* of suggestions under a word that is misspelled.                         *)
ReadSuggestions(words) == [i \in DOMAIN words |-> [word |-> words[i].word, for |-> words[i].for]]

(* yaz_solr_decode_response.                                               *)
ReadSolrElement(st, e) ==
  LET hits == IF st.sr = <<>> THEN -1 ELSE st.sr[1].number
  IN CASE e.el = "error" -> IF st.which # "none" THEN st
                            ELSE [st EXCEPT !.which = "search", !.sr = <<[SolrSearchResponse(-1) EXCEPT !.diags = e.msgs]>>, !.ret = 0]
       [] e.el = "result" -> ReadResult(st, e)
       [] e.el = "terms" -> ReadTerms(st, e)
       [] e.el = "facet_counts" /\ hits > 0 -> [st EXCEPT !.sr[1].facets = ReadFacets(e.lists), !.ret = 0]
       [] e.el = "spellcheck" /\ hits = 0 -> [st EXCEPT !.sr[1].suggestions = ReadSuggestions(e.words), !.ret = 0]
       [] OTHER -> st
SolrDecode(els) == FoldLeft(ReadSolrElement, SolrNothing, els)
=============================================================================
