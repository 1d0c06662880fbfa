----------------------------- MODULE MCServices -----------------------------
(***************************************************************************)
(* The computations of the frontend server on bounded inputs, against      *)
(* what a client may rely on.  A state is one case: a unit and its input.  *)
(***************************************************************************)
EXTENDS MCCases, GfsServices

CONSTANTS MaxHits,     \* records in a result set
          MaxAsk,      \* records asked for at a time
          RecordSizes  \* the lengths of records

-----------------------------------------------------------------------------
(* A result set of n records of the given lengths, and what lies behind it.*)
Set(sizes) ==
  [i \in 1..(Len(sizes) + MaxAsk + 1) |->
     IF i <= Len(sizes) THEN FetchResult("rec", sizes[i], i = Len(sizes))
                        ELSE FetchResult("err", 0, FALSE)]

PackCases == [unit : {"pack"}, sizes : SeqsUpTo(RecordSizes, MaxHits), ask : 1..MaxAsk,
              pms : {0, 2, 3}, mrs : {3, 4}]

(* A client that presents from 1 on, up to so many of those that there are *)
(* at a time, and goes on at nextResultSetPosition until that is 0.  When  *)
(* it is the last record of the set that was dropped, 0 comes too early    *)
(* (src/src/seshigh.c:2625): the client goes by the status then.           *)
PresentAll(c) ==
  FoldLeft(LAMBDA st, i :
             IF st.at = 0 THEN st
             ELSE LET p == PresentResponse(st.at, Least(c.ask, Len(c.sizes) - st.at + 1), FALSE, Set(c.sizes), c.pms, c.mrs)
                  IN [at |-> IF p.next = 0 /\ p.status = "partial_2"
                               THEN st.at + Len(p.recs) ELSE p.next,
                      got |-> st.got \o [j \in DOMAIN p.recs |-> st.at + j - 1]],
           [at |-> 1, got |-> <<>>], UpTo(Len(c.sizes) + 1))

(* Presents that go on at the position they are told reach every record of *)
(* the set once, whatever is dropped from a message on the way because it  *)
(* is too long (src/src/seshigh.c:2620).                                   *)
PresentsReachAll ==
  case.unit = "pack" /\ case.sizes # <<>> =>
    PresentAll(case) = [at |-> 0, got |-> UpTo(Len(case.sizes))]

(* A response is longer than the preferred message size only when it has   *)
(* one record and the client asked for no more than that.                  *)
MessagesFit ==
  case.unit = "pack" /\ case.sizes # <<>> /\ case.pms > 0 =>
    LET p == PackRecords(1, Least(case.ask, Len(case.sizes)), Set(case.sizes), case.pms, case.mrs)
    IN p.total > case.pms => Len(p.recs) = 1 /\ case.sizes[1] < case.mrs

(* A search that brings its first records along and the presents that      *)
(* follow it overlap in nothing: the search response's next position is    *)
(* the first record it did not bring, or 0 when at most the last record of *)
(* the set is missing (src/src/seshigh.c:2843).                            *)
SearchThenPresent ==
  case.unit = "pack" /\ case.sizes # <<>> =>
    \A small, medium \in 0..2 :
      LET hits == Len(case.sizes)
          r == SearchResponse([small |-> small, large |-> 4, medium |-> medium, badQuery |-> FALSE],
                              [err |-> FALSE, hits |-> hits, estimated |-> FALSE, partial |-> FALSE,
                               refused |-> FALSE],
                              Set(case.sizes), case.pms, case.mrs)
      IN IF r.next = 0 THEN r.returned >= hits - 1 ELSE r.next = r.returned + 1 /\ r.next <= hits

-----------------------------------------------------------------------------
ElemSpec == [syntax : {"xml", "marc"}, name : {<<>>, <<"F", "">>}, ident : {<<>>, <<"dc", "">>},
         split : BOOLEAN, backendSyntax : {NULL, "marc"}, conv : BOOLEAN,
         attrs : {{"syntax"}}, backends : {<<>>}]

RetrievalCases ==
  [unit : {"retrieval"}, list : SeqsUpTo(ElemSpec, 2), syntax : {NULL, "xml", "sutrs"},
   schema : {<<>>, <<"F", "">>, <<"F", "-x">>, <<"dc", "">>}]

(* The outcome of a record request tells the client the truth: an entry is *)
(* used only if it has the syntax and the schema asked for, one that names *)
(* the schema goes before one that names none, and each of the three       *)
(* errors means what its diagnostic says (src/src/retrieval.c:297).        *)
RetrievalIsRight ==
  case.unit = "retrieval" =>
    LET list == RetrievalConfigure(case.list)
        q == RetrievalRequest(list, case.schema, case.syntax)
        syn == {i \in DOMAIN list : SyntaxFits(list[i], case.syntax)}
        sch == {i \in DOMAIN list : SchemaFit(list[i], case.schema) > 0}
    IN /\ q.el # 0 => /\ q.el \in syn \cap sch
                      /\ \A i \in syn \cap sch :
                           SchemaFit(list[i], case.schema) <= SchemaFit(list[q.el], case.schema)
       /\ list # <<>> => /\ (q.r = 0) <=> (syn \cap sch # {})
                         /\ (q.r = 2) <=> (syn = {})
                         /\ (q.r = 1) <=> (syn # {} /\ sch = {})

(* The client gets the syntax that it asked for, or an error.              *)
SyntaxHonoured ==
  case.unit = "retrieval" /\ case.syntax # NULL /\ case.list # <<>> =>
    \A convOk \in BOOLEAN :
      LET r == RetrieveFetch(case.list, case.schema, case.syntax,
                             [syn \in {NULL, "xml", "marc", "sutrs"} |-> [kind |-> "rec", syntax |-> syn]],
                             convOk)
      IN r.kind # "err" => r.syntax = case.syntax

-----------------------------------------------------------------------------
SruCases == [unit : {"srusearch"}, hits : 0..MaxHits, start : -1..(MaxHits + 1),
             maximum : -1..(MaxHits + 1), type : {NULL, "cql", "pqf", "other"}, ok : BOOLEAN,
             transform : BOOLEAN, gap : 0..MaxHits, v2 : {FALSE}, marks : BOOLEAN]

SruAnswer(c) == [err |-> NULL, hits |-> c.hits, num |-> c.hits, uri |-> FALSE, status |-> "done",
                 refused |-> FALSE, inexact |-> FALSE]

(* Record number gap, if there is one, is missing; the last may be marked. *)
SruSet(c) == [i \in 1..(2 * MaxHits + 3) |->
                FetchResult(IF i = c.gap THEN "none" ELSE "rec", 1, c.marks /\ i = c.hits)]

(* A searchRetrieve response has exactly the records from startRecord on   *)
(* that there are, maximumRecords at most; outside the set a diagnostic    *)
(* says so, but for the first record of an empty set                       *)
(* (src/src/seshigh.c:1063).                                               *)
SruPageIsRight ==
  case.unit = "srusearch" /\ case.ok /\ case.type \in {NULL, "cql"} =>
    LET r == SruSearch(case, case.transform, SruAnswer(case), SruSet(case))
        want == {i \in case.start..(case.start + case.maximum - 1) :
                   i \in 1..case.hits /\ case.start >= 1 /\ i # case.gap}
    IN /\ Range(r.recs) = want /\ Len(r.recs) = Cardinality(want)
       /\ \A i, j \in DOMAIN r.recs : i < j => r.recs[i] < r.recs[j]
       /\ r.diag <=> (case.start \notin 1..case.hits /\ case.start # 1)

(* A request whose query cannot be used is never answered as if it had     *)
(* found something, and a scan or an update that no handler took is told   *)
(* so.  (A PQF query that cannot be parsed gets an empty answer without a  *)
(* diagnostic: src/src/seshigh.c:984.)                                     *)
SruFailureTold ==
  case.unit = "srusearch" /\ ~case.ok /\ (case.transform \/ case.type \in {"pqf", "other"}) =>
    LET b == SruAnswer(case)
        r == SruSearch(case, case.transform, b, SruSet(case))
        scan == SruScan(case, {"scan"}, case.transform, b)
        update == SruUpdate([operation |-> "replace", id |-> TRUE, extraId |-> FALSE,
                             record |-> TRUE, data |-> FALSE], {"srw_update"}, b)
    IN /\ r.recs = <<>> /\ r.count = -1
       /\ case.type # "pqf" => r.diag /\ scan.diag /\ scan.terms = 0
       /\ update.diag /\ ~update.called /\ update.status = "failed"

-----------------------------------------------------------------------------
Services == {"search", "present", "scan", "sort", "delSet", "extendedServices"}

ServiceCases ==
  [unit : {"service"}, kind : Services, asked : SUBSET Services, err : BOOLEAN, code : -2..1,
   handlers : SUBSET (Services \ {"search", "present"})]

(* What the backend says: an error, or success.                            *)
Said(c) == [err |-> c.err, partial |-> FALSE, entries |-> <<0, -1>>, names |-> <<"s">>,
            statuses |-> <<0>>, code |-> c.code, package |-> NULL,
            status |-> IF c.err THEN "failure" ELSE "success"]

(* A client that asks only for services it was granted at Init is never    *)
(* shown the door for it, and what the backend failed to do is not told as *)
(* done (src/src/seshigh.c:2069).                                          *)
GrantedIsServed ==
  case.unit = "service" /\ case.kind \in InitOptions(case.asked, case.handlers, FALSE) =>
    LET r == ServeApdu(case.kind, TRUE, case.handlers, Said(case))
        failed == IF case.kind = "extendedServices" THEN case.code > 0 ELSE case.err
    IN /\ ~r.bye
       /\ case.kind \notin {"search", "present"} => (failed <=> r.status = "failure")

-----------------------------------------------------------------------------
Pack == case' \in PackCases
Retrieval == case' \in RetrievalCases
Sru == case' \in SruCases
Service == case' \in ServiceCases
ServiceUnit == Pack \/ Retrieval \/ Sru \/ Service
=============================================================================
