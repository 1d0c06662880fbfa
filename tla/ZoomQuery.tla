------------------------------ MODULE ZoomQuery ------------------------------
(***************************************************************************)
(* The query objects of ZOOM (src/src/zoom-query.c): a query in PQF or     *)
(* CQL, sort criteria and the strategy by which the sort reaches the       *)
(* server.  A query string is a name, and the string BadQuery cannot be    *)
(* parsed; sort criteria are a name and what their keys are: fields, or    *)
(* attributes, which only the Sort service and type-7 attributes can say.  *)
(***************************************************************************)
EXTENDS YazTypes

BadQuery == "bad"
Criteria(name, fields) == [name |-> name, fields |-> fields]

(* A query as text, with the sort that was appended to it.                 *)
QueryText(string, sort) == [string |-> string, sort |-> sort]

(* ZOOM_query_create.  z is the query that was generated, and stale says   *)
(* that its memory has been given back.                                    *)
QueryCreate ==
  [z |-> <<>>, stale |-> FALSE, strategy |-> "z3950", sort |-> <<>>, type |-> "RPN",
   string |-> NULL, sru11 |-> <<>>]

Generated(q, text) == [q |-> [q EXCEPT !.z = <<text>>, !.stale = FALSE], ret |-> 0]

(* The text of a query, with the sort embedded if the strategy says so.    *)
FullQuery(q) ==
  LET embeds == {"embed", IF q.type = "RPN" THEN "type7" ELSE "cql"}
  IN QueryText(q.string, IF q.strategy \in embeds THEN q.sort ELSE <<>>)

(* yaz_sort_spec_to_cql, _to_srw_sortkeys and _to_solr_sortkeys fail for   *)
(* attributes.                                                             *)
SortFails(q) == q.sort # <<>> /\ ~q.sort[1].fields

(* generate: what was generated before is given back first.                *)
Generate(q) ==
  LET sru == q.strategy \in {"sru11", "solr"}
      old == [q EXCEPT !.stale = q.z # <<>>,
                       !.sru11 = IF q.sort = <<>> \/ ~sru THEN @ ELSE IF SortFails(q) THEN <<>> ELSE q.sort]
      saysSort == sru \/ (q.type = "CQL" /\ q.strategy \in {"cql", "embed"})
  IN IF q.string = NULL THEN [q |-> q, ret |-> 0]
     ELSE IF SortFails(q) /\ saysSort THEN [q |-> old, ret |-> -1]
     ELSE IF q.type = "RPN" /\ q.string = BadQuery
     THEN [q |-> [old EXCEPT !.z = <<>>, !.stale = FALSE], ret |-> -1]
     ELSE Generated(old, FullQuery(q))

(* ZOOM_query_prefix and ZOOM_query_cql.                                   *)
QueryPrefix(q, string) == Generate([q EXCEPT !.string = string, !.type = "RPN"])
QueryCql(q, string) == Generate([q EXCEPT !.string = string, !.type = "CQL"])

(* cql2pqf: a string that does not parse is an error before the lack of a  *)
(* transform file is.  The string stands for its translation.              *)
Cql2Pqf(string, cqlfile) ==
  CASE string = BadQuery -> [rpn |-> <<>>, error |-> "CQL_PARSE"]
    [] string # BadQuery /\ cqlfile # "ok" -> [rpn |-> <<>>, error |-> "CQL_TRANSFORM"]
    [] OTHER -> [rpn |-> <<string>>, error |-> "NONE"]

(* ZOOM_query_cql2rpn: the query is left as it was unless there is a       *)
(* translation.                                                            *)
QueryCql2Rpn(q, string, cqlfile) ==
  LET t == Cql2Pqf(string, cqlfile)
  IN IF t.rpn = <<>> THEN [q |-> q, ret |-> -1] ELSE QueryPrefix(q, t.rpn[1])

(* ZOOM_query_ccl2rpn.                                                     *)
QueryCcl2Rpn(q, string) ==
  IF string = BadQuery THEN [q |-> q, ret |-> -1] ELSE QueryPrefix(q, string)

(* (mutant) The query is not generated anew when it is sorted.             *)
QuerySortBy_Late(q, strategy, criteria) ==
  [q |-> [q EXCEPT !.strategy = strategy, !.sort = criteria], ret |-> 0]

(* ZOOM_query_sortby2: criteria without a key are refused after the        *)
(* strategy has been changed and the old criteria are gone.                *)
QuerySortBy(q, strategy, criteria) ==
  IF strategy \notin {"z3950", "type7", "cql", "sru11", "solr", "embed"} THEN [q |-> q, ret |-> -1]
  ELSE IF criteria = <<>> THEN [q |-> [q EXCEPT !.strategy = strategy, !.sort = <<>>], ret |-> -2]
  ELSE Generate([q EXCEPT !.strategy = strategy, !.sort = criteria])

(* ZOOM_query_get_Z_Query, _get_sortspec and _get_sru11.                   *)
QueryZ(q) == q.z
QuerySortspec(q) == IF q.strategy = "z3950" THEN q.sort ELSE <<>>
QuerySru11(q) == q.sru11

(* ZOOM_query_get_hash.                                                    *)
QueryHash(q) ==
  <<q.type, q.string, q.strategy>> \o (IF q.sort = <<>> THEN <<>> ELSE <<q.sort[1].name>>)

(* A call that sets the query, or one that says how to sort.               *)
Asks == {"prefix", "cql", "cql2rpn", "ccl2rpn"}
Criterion == [name : STRING, fields : BOOLEAN]
Call ==
  [op : Asks, arg : STRING \ {NULL}, with : STRING] \cup [op : {"sortby"}, arg : Seq(Criterion), with : STRING]

(* An application's calls, one after the other; it stops at an error.      *)
QueryCall(q, call) ==
  CASE call.op = "prefix" -> QueryPrefix(q, call.arg)
    [] call.op = "cql" -> QueryCql(q, call.arg)
    [] call.op = "cql2rpn" -> QueryCql2Rpn(q, call.arg, call.with)
    [] call.op = "ccl2rpn" -> QueryCcl2Rpn(q, call.arg)
    [] OTHER -> QuerySortBy(q, call.with, call.arg)
=============================================================================
