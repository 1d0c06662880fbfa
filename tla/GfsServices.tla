---------------------------- MODULE GfsServices -----------------------------
(***************************************************************************)
(* What the handlers of the generic frontend server compute                *)
(* (src/src/seshigh.c) and how a record syntax and schema are chosen       *)
(* (src/src/retrieval.c), as operators: of the client's request and of     *)
(* what the backend's functions return.  GfsSession says when they run.    *)
(***************************************************************************)
EXTENDS YazTypes

-----------------------------------------------------------------------------
(* One record as retrieve_fetch returns it: an error that concerns the     *)
(* request (err), one that concerns the record only (surrogate), no record *)
(* at all, or a record of len bytes; last says that it ends the set.       *)
FetchResult(kind, len, last) == [kind |-> kind, len |-> len, last |-> last]

\* (mutant) the record that did not fit is skipped, not asked for again
PackStep_Skips(st, start, toget, f, pms, mrs) ==
  LET pos == start + Len(st.recs)
      r == f[pos]
  IN IF r.kind # "rec"
     THEN [st EXCEPT !.recs = Append(@, "surrogate"), !.next = pos + 1]
     ELSE IF pms > 0 /\ st.total + r.len > pms
     THEN [st EXCEPT !.next = pos + 1, !.status = "partial_2", !.stop = TRUE]
     ELSE [st EXCEPT !.recs = Append(@, "record"), !.total = @ + r.len,
                     !.next = IF r.last THEN 0 ELSE pos + 1, !.stop = r.last]

(* One turn of the loop of pack_records.  A record that would make the     *)
(* message too long ends it, unless it is the first; one that is longer    *)
(* than a message is replaced by a diagnostic, unless asked for alone.     *)
PackStep(st, start, toget, f, pms, mrs) ==
  LET pos == start + Len(st.recs)
      r == f[pos]
      nxt == IF r.last THEN 0 ELSE pos + 1
      over == pms > 0 /\ r.len + st.total > pms
      surrogate == [st EXCEPT !.recs = Append(@, "surrogate"), !.next = nxt]
      record == [st EXCEPT !.recs = Append(@, "record"), !.total = @ + r.len,
                           !.next = nxt, !.stop = r.last]
  IN CASE r.kind = "err" -> [st EXCEPT !.diag = TRUE, !.status = "failure", !.next = nxt,
                                       !.recs = <<>>, !.stop = TRUE]
       [] r.kind = "surrogate" -> surrogate
       [] r.kind = "none" -> [st EXCEPT !.status = "partial_4", !.next = 0, !.stop = TRUE]
       [] r.kind = "rec" /\ ~over -> record
       [] r.kind = "rec" /\ over /\ r.len <= pms /\ pos > start
            -> [st EXCEPT !.status = "partial_2", !.stop = TRUE,
                          !.next = IF nxt > 0 THEN nxt - 1 ELSE nxt]
       [] r.kind = "rec" /\ over /\ (r.len > pms \/ pos = start) /\ r.len < mrs
            -> IF toget > 1 THEN surrogate ELSE record
       [] OTHER -> surrogate

(* pack_records: toget records from position start on.                     *)
PackRecords(start, toget, f, pms, mrs) ==
  LET begin == [recs |-> <<>>, total |-> 0, next |-> 0, status |-> "success",
                diag |-> FALSE, stop |-> FALSE]
  IN IF toget < 0
     THEN [begin EXCEPT !.diag = TRUE]
     ELSE FoldLeft(LAMBDA st, i : IF st.stop THEN st
                                  ELSE PackStep(st, start, toget, f, pms, mrs),
                   begin, UpTo(toget))

(* The records a search response is to carry (response_searchRequest).     *)
SearchPiggyback(req, hits) ==
  CASE hits < 0 -> 0
    [] hits >= 0 /\ hits <= req.small -> hits
    [] hits >= 0 /\ hits > req.small /\ hits < req.large -> Least(req.medium, hits)
    [] OTHER -> 0

(* process_searchRequest and response_searchRequest.  b is the backend's   *)
(* answer; a query in a language the server translates may fail before.    *)
(* When bend_present refuses, the status is written through a pointer that *)
(* was never set (wild); after a diagnostic the number of records asked    *)
(* for is told as the number returned.                                     *)
SearchResponse(req, b, f, pms, mrs) ==
  LET toget == SearchPiggyback(req, b.hits)
      p == PackRecords(1, toget, f, pms, mrs)
      wild == toget # 0 /\ b.refused
      diag == toget # 0 /\ (b.refused \/ p.diag)
  IN IF req.badQuery \/ b.err
     THEN [status |-> FALSE, count |-> 0, returned |-> 0, next |-> 0, diag |-> TRUE,
           wild |-> FALSE, set |-> "none"]
     ELSE [status |-> TRUE, count |-> b.hits,
           returned |-> IF toget = 0 \/ diag THEN toget ELSE Len(p.recs),
           next |-> IF wild THEN 0
                    ELSE IF toget # 0 THEN p.next ELSE IF b.hits # 0 THEN 1 ELSE 0,
           diag |-> diag, wild |-> wild,
           set |-> IF b.estimated THEN "estimate" ELSE IF b.partial THEN "subset" ELSE NULL]

(* process_presentRequest; bend_present may refuse before any fetch.       *)
PresentResponse(start, number, refused, f, pms, mrs) ==
  IF refused
  THEN [recs |-> <<>>, next |-> 0, status |-> "failure", diag |-> TRUE]
  ELSE LET p == PackRecords(start, number, f, pms, mrs)
       IN [recs |-> p.recs, next |-> p.next, status |-> p.status, diag |-> p.diag]

(* process_initRequest: of the options asked for, those that the frontend  *)
(* has by itself, those for which the backend installed a handler, and     *)
(* character set negotiation when there is a record to answer with.        *)
InitOptions(asked, handlers, charneg) ==
  asked \cap ({"search", "present", "concurrentOperations", "triggerResourceCtrl"}
              \cup (handlers \cap {"delSet", "extendedServices", "scan", "sort",
                                   "namedResultSets"})
              \cup (IF charneg THEN {"negotiationModel"} ELSE {}))

(* process_scanRequest: entries, or the backend's error.                   *)
ScanResponse(b) ==
  IF b.err THEN [status |-> "failure", entries |-> <<>>, diag |-> TRUE]
  ELSE [status |-> IF b.partial THEN "partial_5" ELSE "success",
        entries |-> [i \in DOMAIN b.entries |->
                       IF b.entries[i] >= 0 THEN "term" ELSE "surrogate"],
        diag |-> FALSE]

(* process_sortRequest, process_deleteRequest and process_ESRequest: the   *)
(* backend's verdict, with a diagnostic when it gave an error.             *)
SortResponse(b) == [status |-> b.status, diag |-> b.err]

DeleteResponse(names, b) ==
  [status |-> b.status,
   list |-> [i \in DOMAIN names |-> <<names[i], b.statuses[i]>>]]

EsResponse(err, package) ==
  [status |-> CASE err = -1 -> "accepted"
                [] err \in {0, -2} -> "done"
                [] OTHER -> "failure",
   diag |-> err \notin {0, -1}, package |-> package]

(* process_z_request: the response of a service that the backend has a     *)
(* handler for; without one, and before Init, the session is closed.       *)
ServeApdu(kind, initialised, handlers, b) ==
  CASE kind \in {"scan", "sort", "delSet", "extendedServices"} /\ initialised
         /\ kind \in handlers ->
         [bye |-> FALSE,
          status |-> CASE kind = "scan" -> ScanResponse(b).status
                       [] kind = "sort" -> SortResponse(b).status
                       [] kind = "delSet" -> DeleteResponse(b.names, b).status
                       [] OTHER -> EsResponse(b.code, b.package).status]
    [] kind \in {"search", "present"} /\ initialised -> [bye |-> FALSE, status |-> "success"]
    [] kind = "init" -> [bye |-> FALSE, status |-> "success"]
    [] OTHER -> [bye |-> TRUE, status |-> NULL]

-----------------------------------------------------------------------------
(* A configured retrieval (conf_retrieval): the syntax must be given and   *)
(* known, one <backend> at most.                                           *)
RetrievalConfigured(node) ==
  /\ node.attrs \subseteq {"syntax", "identifier", "name", "split"}
  /\ "syntax" \in node.attrs /\ node.syntax # NULL
  /\ Len(node.backends) <= 1
  /\ \A i \in DOMAIN node.backends :
       /\ node.backends[i].attrs \subseteq {"name", "syntax"}
       /\ "syntax" \in node.backends[i].attrs => node.backends[i].syntax # NULL
       /\ node.backends[i].convOk

(* yaz_retrieval_configure_t: the list, or nothing when one entry is bad.  *)
RetrievalConfigure(nodes) ==
  IF \A i \in DOMAIN nodes : RetrievalConfigured(nodes[i]) THEN nodes ELSE <<>>

(* How well an entry fits a schema: 2 by name or identifier, 1 when it     *)
(* names none, 0 not at all.  A schema is <<base, suffix>> or absent, <<>>; *)
(* an entry with a split character compares the base only.                 *)
SchemaFit(el, schema) ==
  CASE schema = <<>> -> 1
    [] schema # <<>> /\ (\/ el.name # <<>> /\ el.name = (IF el.split THEN <<schema[1], "">> ELSE schema)
                         \/ el.ident # <<>> /\ el.ident = schema) -> 2
    [] schema # <<>> /\ el.name = <<>> /\ el.ident = <<>> -> 1
    [] OTHER -> 0

SyntaxFits(el, syntax) == syntax = NULL \/ el.syntax = syntax

(* yaz_retrieval_request: 0 and the entry to go by, the last one that fits *)
(* by name, else the first that fits at all; 2 when no entry has the       *)
(* syntax, 1 when none has the schema, 3 when none has both.               *)
RetrievalRequest(list, schema, syntax) ==
  LET both == {i \in DOMAIN list : SyntaxFits(list[i], syntax) /\ SchemaFit(list[i], schema) > 0}
      exact == {i \in both : SchemaFit(list[i], schema) = 2}
      best == IF exact # {} THEN Highest(exact) ELSE Lowest(both)
      fail(code) == [r |-> code, el |-> 0, backendSyntax |-> NULL, conv |-> FALSE]
  IN CASE list = <<>> -> fail(0)
       [] list # <<>> /\ both # {} ->
            [r |-> 0, el |-> best,
             backendSyntax |-> IF list[best].backendSyntax # NULL
                               THEN list[best].backendSyntax ELSE list[best].syntax,
             conv |-> list[best].conv]
       [] list # <<>> /\ both = {} /\ syntax # NULL
            /\ \A i \in DOMAIN list : ~SyntaxFits(list[i], syntax) -> fail(2)
       [] OTHER -> IF \A i \in DOMAIN list : SchemaFit(list[i], schema) = 0
                   THEN fail(1) ELSE fail(3)

(* retrieve_fetch: the backend is asked for the syntax that the entry      *)
(* names, what it returns is converted, and the result has the syntax the  *)
(* client asked for.  A failed conversion concerns this record only.       *)
RetrieveFetch(list, schema, syntax, fetch, convOk) ==
  LET q == RetrievalRequest(list, schema, syntax)
      got == fetch[IF q.el = 0 THEN syntax ELSE q.backendSyntax]
  IN CASE q.r # 0 -> [kind |-> "err", syntax |-> NULL]
       [] q.r = 0 /\ q.conv /\ got.kind = "rec" /\ ~convOk
            -> [kind |-> "surrogate", syntax |-> list[q.el].syntax]
       [] OTHER -> [kind |-> got.kind,
                    syntax |-> IF q.el = 0 THEN got.syntax ELSE list[q.el].syntax]

-----------------------------------------------------------------------------

(* How the frontend gets an RPN query out of an SRU request: cql2pqf and   *)
(* srw_bend_search.  A type is "cql" or absent, "pqf", or something else;  *)
(* ok says that the query can be parsed and translated.                    *)
SruQuery(req, hasTransform) ==
  LET sent == [search |-> TRUE, diag |-> FALSE]
      told == [search |-> FALSE, diag |-> TRUE]
  IN CASE req.type \in {NULL, "cql"} /\ ~hasTransform -> sent
       [] req.type \in {NULL, "cql"} /\ hasTransform -> IF req.ok THEN sent ELSE told
       [] req.type = "pqf" -> IF req.ok THEN sent ELSE [search |-> FALSE, diag |-> FALSE]
       [] OTHER -> told

(* srw_bend_search: which records the response is to have, and whether the *)
(* first position is out of range.                                         *)
SruPage(start, maximum, hits) ==
  CASE start > hits \/ start < 1 -> [diag |-> start # 1, first |-> start, number |-> 0]
    [] start \in 1..hits /\ maximum <= 0 -> [diag |-> FALSE, first |-> start, number |-> 0]
    [] OTHER -> [diag |-> FALSE, first |-> start,
                 number |-> IF start + maximum > hits THEN hits - start + 1 ELSE maximum]

(* srw_bend_search, srw_bend_fetch: records until one gives an error that  *)
(* is not its own, or ends the set; a missing one is left out.             *)
SruRecords(page, f) ==
  FoldLeft(LAMBDA st, i :
             LET r == f[page.first + i - 1]
             IN IF st.stop THEN st
                ELSE CASE r.kind = "err" -> [st EXCEPT !.diag = TRUE, !.stop = TRUE]
                       [] r.kind = "none" -> [st EXCEPT !.stop = r.last]
                       [] OTHER -> [st EXCEPT !.recs = Append(@, page.first + i - 1),
                                              !.stop = r.last],
           [recs |-> <<>>, diag |-> page.diag, stop |-> FALSE],
           UpTo(page.number))

(* The answer to a searchRetrieve: the backend's error, or the page, which *)
(* bend_present may refuse.  Before version 2 a count that is not exact is *)
(* a diagnostic.                                                           *)
SruSearch(req, hasTransform, b, f) ==
  LET q == SruQuery(req, hasTransform)
      page == SruPage(req.start, req.maximum, b.hits)
      p == IF page.number > 0 /\ b.refused THEN [recs |-> <<>>, diag |-> TRUE]
           ELSE SruRecords(page, f)
  IN CASE ~q.search -> [http |-> 200, diag |-> q.diag, count |-> -1, recs |-> <<>>]
       [] q.search /\ b.err = "unavailable" ->
            [http |-> 404, diag |-> FALSE, count |-> -1, recs |-> <<>>]
       [] q.search /\ b.err = "other" ->
            [http |-> 200, diag |-> TRUE, count |-> -1, recs |-> <<>>]
       [] OTHER -> [http |-> 200, diag |-> p.diag \/ (b.inexact /\ ~req.v2), count |-> b.hits,
                    recs |-> p.recs]

(* srw_bend_scan: which handler is asked, if any.                          *)
SruScanHandler(type, handlers, hasTransform) ==
  CASE type = "pqf" /\ "scan" \in handlers -> "scan"
    [] type \in {NULL, "cql"} /\ "scan" \in handlers /\ hasTransform -> "cqlscan"
    [] type \in {NULL, "cql"} /\ ~("scan" \in handlers /\ hasTransform)
         /\ "srw_scan" \in handlers -> "srw_scan"
    [] OTHER -> NULL

SruScan(req, handlers, hasTransform, b) ==
  LET h == SruScanHandler(req.type, handlers, hasTransform)
      told == [http |-> 200, diag |-> TRUE, terms |-> 0]
  IN CASE h = NULL \/ (h = "cqlscan" /\ ~req.ok) -> told
       [] h # NULL /\ ~(h = "cqlscan" /\ ~req.ok) /\ b.err = "unavailable" ->
            [http |-> 404, diag |-> FALSE, terms |-> 0]
       [] h # NULL /\ ~(h = "cqlscan" /\ ~req.ok) /\ b.err = "other" -> told
       [] OTHER -> [http |-> 200, diag |-> FALSE, terms |-> b.num]

(* srw_bend_update: what an operation must come with, the backend, and the *)
(* record in the response.                                                 *)
SruUpdate(req, handlers, b) ==
  LET missing == CASE req.operation = NULL -> {"action"}
                   [] req.operation = "replace" ->
                        (IF req.id \/ req.extraId THEN {} ELSE {"recordIdentifier"})
                        \cup (IF ~req.record THEN {"record"}
                              ELSE IF ~req.data THEN {"recordData"} ELSE {})
                   [] req.operation \in {"delete", "insert"} -> {}
                   [] OTHER -> {"invalid"}
      called == missing = {} /\ "srw_update" \in handlers
      diag == missing # {} \/ ~called \/ b.uri
  IN [diag |-> diag, called |-> called,
      status |-> IF called THEN b.status ELSE "failed",
      record |-> ~diag /\ req.record /\ (req.data \/ req.operation = "delete")]
=============================================================================
