---------------------------- MODULE ZoomResultSet ----------------------------
(***************************************************************************)
(* The ZOOM result sets of one connection: the resultset part of           *)
(* src/src/zoom-c.c, zoom-z3950.c and zoom-sru.c, and zoom-record-cache.c. *)
(*                                                                         *)
(* A result set is shared by the application, which holds a handle, and by *)
(* the queued tasks that search, present or sort it; it is linked to its   *)
(* connection, names a set on the server and caches the records that have  *)
(* been retrieved.  ZoomConnection models how requests are sent and        *)
(* connections made; here a request is sent at once and at most one is     *)
(* outstanding.  A record is its provenance: which query's set it came     *)
(* from, from which position, and how often that set had been sorted.      *)
(***************************************************************************)
EXTENDS Naturals, Sequences, FiniteSets

CONSTANTS
  Proto,        \* "Z3950" or "HTTP" (SRU)
  Named,        \* does the server support named result sets?
  Starts,       \* where searches and retrievals start, and how many records
  Counts,       \* they ask for
  Steps,        \* values of the presentChunk option, 0 for none
  Piggybacks,   \* values of the piggyback option
  Liberties,    \* what the application does beyond the safe use of the API
  MaxHits,      \* bound: hits of a query
  MaxSets,      \* bound: result sets that the application creates
  MaxCalls      \* bound: API calls

ASSUME RsAssumption ==
  /\ Proto \in {"Z3950", "HTTP"}
  /\ Named \in BOOLEAN
  /\ Starts \subseteq Nat
  /\ Counts \subseteq Nat
  /\ Steps \subseteq Nat
  /\ Piggybacks \subseteq BOOLEAN
  /\ MaxHits \in Nat
  /\ MaxSets \in Nat
  /\ MaxCalls \in Nat

\* sortBusy: sorts a set while its records are being retrieved.
\* sortReleased: sorts a set that has been released from the connection.
\* releaseBusy: releases a set while a task on it is queued.
\* sortUnsent: sorts a set whose search never reached the server.
\* badQuery: searches with a query that could not be parsed.
\* share: keeps several sets at a server that has only the default one.
\* expert: sets largeSetLowerBound, smallSetUpperBound, mediumSetPresentNumber.
\* emptyPages: (of the server) SRU responses without the records asked for.
\* gaps: (of the server) SRU responses that leave records out and tell the
\* positions of those behind.
ASSUME LibertyAssumption ==
  Liberties \subseteq {"sortBusy", "sortReleased", "releaseBusy", "sortUnsent",
                       "badQuery", "share", "expert", "emptyPages", "gaps"}

VARIABLES
  zs,      \* the connection, its result sets and the server's sets
  hits,    \* the size of each query's result
  calls    \* API calls made so far

vars == <<zs, hits, calls>>

(***************************************************************************)
(* Values                                                                  *)
(***************************************************************************)
ResultSets == 1 .. MaxSets

\* Set names: the ordinals, and "default".
NoName == 0
DefaultName == MaxSets + 1
Names == 1 .. DefaultName

\* An entry of the record hash: at the position at, the record pos of set.
Record == [at : Nat, set : ResultSets, order : Nat, pos : Nat, diag : BOOLEAN]

\* struct ZOOM_resultset_p
ResultSet ==
  [status : {"new", "alive", "freed"}, handle : BOOLEAN, refcount : Nat,
   connection : BOOLEAN, setname : Names \cup {NoName}, size : Nat,
   live_set : {0, 2}, sort_spec : BOOLEAN, valid : BOOLEAN, step : Nat,
   piggyback : BOOLEAN, cache : SUBSET Record]

\* struct ZOOM_task_p; from and upto remember the range that was asked for.
Task ==
  [which : {"SEARCH", "SORT"}, resultset : ResultSets, running : BOOLEAN,
   start : Nat, count : Nat, from : Nat, upto : Nat]

Requests ==
  [kind : {"SEARCH", "PRESENT", "SORT", "SRU"}, name : Names, set : ResultSets,
   start : Nat, count : Nat]

\* What the server keeps under a name: the set of which query, sorted how often.
ServerSet == [set : ResultSets, order : Nat]

\* wire: the outstanding requests, never more than one.  server: per name, the
\* set that the server keeps, if any.  odd flips with every answer without
\* records, which may leave no other trace.
TypeOK ==
  /\ zs.tasks \in Seq(Task)
  /\ zs.resultsets \subseteq ResultSets
  /\ zs.open \in BOOLEAN
  /\ zs.up \in BOOLEAN
  /\ zs.reconnect_ok \in BOOLEAN
  /\ zs.error \in {"NONE", "DIAG", "CONNECTION_LOST"}
  /\ zs.odd \in BOOLEAN
  /\ zs.wire \subseteq Requests /\ Cardinality(zs.wire) <= 1
  /\ zs.fault \in {"NONE", "ASSERT", "FREED", "RELEASED", "NAME", "QUERY"}
  /\ zs.sets \in [ResultSets -> ResultSet]
  /\ \A n \in Names : zs.server[n] \subseteq ServerSet /\ Cardinality(zs.server[n]) <= 1
  /\ hits \in [ResultSets -> 0 .. MaxHits]
  /\ calls \in Nat

(***************************************************************************)
(* References                                                              *)
(***************************************************************************)
Fresh ==
  [status |-> "new", handle |-> FALSE, refcount |-> 0, connection |-> FALSE,
   setname |-> NoName, size |-> 0, live_set |-> 0, sort_spec |-> FALSE,
   valid |-> TRUE, step |-> 0, piggyback |-> FALSE, cache |-> {}]

\* A failed assert, a NULL pointer or freed memory ends the process.
Fault(s, f) == IF s.fault = "NONE" THEN [s EXCEPT !.fault = f] ELSE s

\* (mutant) the set is unlinked as soon as the application lets go of it
UnrefUnlinks(s, r, n) ==
  IF n = 0 THEN s
  ELSE IF s.sets[r].refcount > n
  THEN [s EXCEPT !.sets[r].refcount = @ - n, !.resultsets = @ \ {r}]
  ELSE [s EXCEPT !.sets[r] = [@ EXCEPT !.status = "freed", !.refcount = 0,
                                       !.connection = FALSE, !.cache = {}],
                 !.resultsets = @ \ {r}]

\* resultset_destroy, n times, and ZOOM_resultset_release with the last
\* reference.
Unref(s, r, n) ==
  IF n = 0 THEN s
  ELSE IF s.sets[r].refcount > n THEN [s EXCEPT !.sets[r].refcount = @ - n]
  ELSE [IF s.sets[r].connection /\ r \notin s.resultsets THEN Fault(s, "ASSERT") ELSE s
          EXCEPT !.sets[r] = [@ EXCEPT !.status = "freed", !.refcount = 0,
                                       !.connection = FALSE, !.cache = {}],
                 !.resultsets = @ \ {r}]

RemoveTask(s) ==
  IF s.tasks = <<>> THEN s
  ELSE Unref([s EXCEPT !.tasks = Tail(@)], Head(s.tasks).resultset, 1)

TasksOn(s, r) == {i \in DOMAIN s.tasks : s.tasks[i].resultset = r}

\* Every task's reference is dropped.
RemoveTasks(s) ==
  LET gone(r) == Unref(s, r, Cardinality(TasksOn(s, r))) IN
  [s EXCEPT !.tasks = <<>>,
            !.sets = [r \in ResultSets |-> gone(r).sets[r]],
            !.resultsets = {r \in @ : r \in gone(r).resultsets},
            !.fault = IF @ = "NONE" /\ \E r \in ResultSets : gone(r).fault # "NONE"
                      THEN "ASSERT" ELSE @]

NewTask(which, r, start, count) ==
  [which |-> which, resultset |-> r, running |-> FALSE,
   start |-> start, count |-> count, from |-> start, upto |-> start + count]

\* (mutant) the new task does not count as a user of the set
AddTaskNoRef(s, t) ==
  [s EXCEPT !.tasks = Append(@, t), !.error = IF @ = "DIAG" THEN "NONE" ELSE @]

\* ZOOM_connection_add_task, and the ZOOM_resultset_addref of its callers
AddTask(s, t) ==
  [s EXCEPT !.tasks = Append(@, t), !.error = IF @ = "DIAG" THEN "NONE" ELSE @,
            !.sets[t.resultset].refcount = @ + 1]

(***************************************************************************)
(* Requests                                                                *)
(***************************************************************************)
Post(s, kind, name, r, start, count) ==
  [s EXCEPT !.wire = @ \cup
                {[kind |-> kind, name |-> name, set |-> r,
                       start |-> start, count |-> count]}]

\* The lowest ordinal that no linked result set has for its name.
LowestName(s) ==
  CHOOSE n \in Names :
    /\ \A r \in s.resultsets : s.sets[r].setname # n
    /\ \A m \in 1 .. n - 1 : \E r \in s.resultsets : s.sets[r].setname = m

\* How many records the search response may bring: piggyback, unless the set
\* is to be sorted first.
PiggybackCount(x, t) ==
  IF "expert" \in Liberties THEN 1
  ELSE IF t.start = 0 /\ t.count > 0 /\ x.piggyback /\ ~ x.sort_spec
  THEN IF x.step > 0 THEN x.step ELSE t.count
  ELSE 0

\* Z3950_send_search
SendSearch(s, t) ==
  LET r == t.resultset
      x == s.sets[r]
      name == IF x.setname # NoName THEN x.setname
              ELSE IF Named THEN LowestName(s) ELSE DefaultName
  IN  IF ~ x.valid THEN [s EXCEPT !.error = "DIAG"]
      ELSE Post([s EXCEPT !.sets[r].setname = name],
                "SEARCH", name, r, 0, PiggybackCount(x, t))

Least(a, b) == IF a < b THEN a ELSE b

\* (mutant) positions on the wire are taken to start at 0
SendPresentOffByOne(s, t) ==
  LET x == s.sets[t.resultset]
      n == IF x.step > 0 /\ x.step < t.count THEN x.step ELSE t.count
      requested == IF n + t.start > x.size THEN x.size - t.start ELSE n
  IN  Post(IF t.start < x.size /\ requested > 0 THEN s ELSE Fault(s, "ASSERT"),
           "PRESENT", x.setname, t.resultset,
           IF t.start > 0 THEN t.start - 1 ELSE 0, requested)

\* Z3950_send_present, with its assert that something is asked for
SendPresent(s, t) ==
  LET x == s.sets[t.resultset]
      n == IF x.step > 0 /\ x.step < t.count THEN x.step ELSE t.count
      requested == IF n + t.start > x.size THEN x.size - t.start ELSE n
  IN  Post(IF t.start < x.size /\ requested > 0 THEN s ELSE Fault(s, "ASSERT"),
           "PRESENT", x.setname, t.resultset, t.start, requested)

\* (mutant) positions on the wire are taken to start at 0
SendSruOffByOne(s, t) ==
  LET x == s.sets[t.resultset] IN
  IF ~ x.valid THEN Fault(s, "QUERY")
  ELSE Post([s EXCEPT !.sets[t.resultset].setname = DefaultName],
            "SRU", DefaultName, t.resultset, IF t.start > 0 THEN t.start - 1 ELSE 0,
            IF x.step > 0 /\ x.step < t.count THEN x.step ELSE t.count)

\* What ZOOM_connection_srw_send_search sends; it looks into the parsed query
\* without asking whether there is one.
SendSru(s, t) ==
  LET x == s.sets[t.resultset] IN
  IF ~ x.valid THEN Fault(s, "QUERY")
  ELSE Post([s EXCEPT !.sets[t.resultset].setname = DefaultName],
            "SRU", DefaultName, t.resultset, t.start,
            IF x.step > 0 /\ x.step < t.count THEN x.step ELSE t.count)

Cached(x) == {e.at : e \in x.cache}

\* How many of the records from start on are cached, of the next count.
CachedPrefix(x, start, count) ==
  CHOOSE i \in 0 .. count :
    /\ \A j \in 0 .. i - 1 : start + j \in Cached(x)
    /\ i = count \/ start + i \notin Cached(x)

\* How many of the records that t asks for there are, as far as that is known.
Wanted(x, t) ==
  IF x.live_set = 0 THEN t.count
  ELSE IF t.start >= x.size THEN 0 ELSE Least(t.count, x.size - t.start)

\* The range of t after i records of it.
Past(t, count, i) == [t EXCEPT !.start = t.start + i, !.count = count - i]

\* ZOOM_connection_Z3950_search and ZOOM_connection_srw_send_search: skip what
\* is cached and ask for the rest.  The task is complete if nothing is sent.
SearchStep(s) ==
  LET t == Head(s.tasks)
      x == s.sets[t.resultset]
      i == CachedPrefix(x, t.start, Wanted(x, t))
      rest == Past(t, Wanted(x, t), i)
      skipped == [IF i > 0 /\ ~ x.connection THEN Fault(s, "RELEASED") ELSE s
                    EXCEPT !.tasks[1] = rest]
  IN  IF s.tasks = <<>> \/ s.error # "NONE" THEN s
      ELSE IF t.which = "SORT" THEN s
      ELSE IF rest.count = 0 /\ x.live_set = 2 THEN skipped
      ELSE IF Proto = "HTTP" THEN SendSru(skipped, rest)
      ELSE IF x.live_set = 2 THEN SendPresent(skipped, rest)
      ELSE SendSearch(skipped, rest)

\* send_Z3950_sort
SendSort(s, r) ==
  IF s.sets[r].setname = NoName THEN Fault(s, "NAME")
  ELSE Post([s EXCEPT !.sets[r].sort_spec = FALSE],
            "SORT", s.sets[r].setname, r, 0, 0)

\* The caller of a handler that returned zoom_complete removes the task.
Finish(s) == IF s.wire = {} THEN RemoveTask(s) ELSE s

\* ZOOM_connection_exec_task
ExecTask(s) ==
  LET t == Head(s.tasks)
      started == [s EXCEPT !.tasks[1].running = TRUE]
  IN  IF s.error # "NONE" \/ ~ s.up THEN RemoveTasks(s)
      ELSE IF s.sets[t.resultset].status = "freed" THEN Fault(s, "FREED")
      ELSE IF t.which = "SORT" THEN SendSort(started, t.resultset)
      ELSE Finish(SearchStep(started))

(***************************************************************************)
(* Responses                                                               *)
(***************************************************************************)
\* ZOOM_record_cache_add, k times from position start on; the records are
\* those of the server's set b from position origin on.
CacheAdd(s, r, start, k, b, origin) ==
  LET new == {[at |-> start + i, set |-> b.set, order |-> b.order,
               pos |-> origin + i, diag |-> FALSE] : i \in 0 .. k - 1}
      kept == {e \in s.sets[r].cache : e.at \notin start .. start + k - 1}
  IN  IF k = 0 THEN [s EXCEPT !.odd = ~ @]
      ELSE [IF s.sets[r].connection THEN s ELSE Fault(s, "RELEASED")
              EXCEPT !.sets[r].cache = kept \cup new]

\* A present response without records is cached as a surrogate diagnostic.
CacheDiagnostic(s, r, p) ==
  [IF s.sets[r].connection THEN s ELSE Fault(s, "RELEASED")
     EXCEPT !.sets[r].cache =
       {e \in @ : e.at # p}
         \cup {[at |-> p, set |-> r, order |-> 0, pos |-> p, diag |-> TRUE]}]

\* (mutant) the records are counted off but the range does not move on
HandleRecordsInPlace(s, k, b, origin, present_phase) ==
  LET t == Head(s.tasks)
      count == Least(t.count, IF t.start < s.sets[t.resultset].size
                              THEN s.sets[t.resultset].size - t.start ELSE 0)
      added == CacheAdd(s, t.resultset, t.start, k, b, origin)
  IN  IF present_phase /\ k = 0
      THEN [CacheDiagnostic(added, t.resultset, t.start) EXCEPT !.tasks[1].count = 0]
      ELSE [added EXCEPT !.tasks[1].count = count - Least(k, count)]

\* handle_Z3950_records for a response with k records
HandleRecords(s, k, b, origin, present_phase) ==
  LET t == Head(s.tasks)
      count == Least(t.count, IF t.start < s.sets[t.resultset].size
                              THEN s.sets[t.resultset].size - t.start ELSE 0)
      added == CacheAdd(s, t.resultset, t.start, k, b, origin)
  IN  IF present_phase /\ k = 0
      THEN [CacheDiagnostic(added, t.resultset, t.start) EXCEPT !.tasks[1].count = 0]
      ELSE [added EXCEPT !.tasks[1].count = count - Least(k, count),
                         !.tasks[1].start = @ + k]

Diagnose(s) == RemoveTasks([s EXCEPT !.error = "DIAG"])

\* send_Z3950_sort_present: a query with sort criteria is sorted before any
\* record is presented.
SortPresent(s) ==
  IF s.sets[Head(s.tasks).resultset].sort_spec
  THEN SendSort(s, Head(s.tasks).resultset)
  ELSE Finish(SearchStep(s))

\* Search, Present and Sort responses.  q is the request that the server
\* answers, k the number of records that it returns, ok whether it succeeds.
SearchResponse(s, q, k, ok) ==
  LET r == Head(s.tasks).resultset
      b == [set |-> q.set, order |-> 0]
  IN  IF ok
      THEN SortPresent(HandleRecords(
             [s EXCEPT !.sets[r].size = hits[q.set], !.sets[r].live_set = 2,
                       !.server[q.name] = {b}], k, b, 0, FALSE))
      ELSE Diagnose([s EXCEPT !.sets[r].size = 0, !.sets[r].live_set = 2,
                              !.server[q.name] = {}])

PresentResponse(s, q, k, ok) ==
  IF ok
  THEN LET b == CHOOSE b \in s.server[q.name] : TRUE IN
       Finish(SearchStep(HandleRecords(s, k, b, q.start, TRUE)))
  ELSE Diagnose(s)

SortResponse(s, q, ok) ==
  IF ok
  THEN LET b == CHOOSE b \in s.server[q.name] : TRUE IN
       Finish(SearchStep([s EXCEPT !.server[q.name] = {[b EXCEPT !.order = @ + 1]}]))
  ELSE Diagnose(s)

\* (mutant) recordPosition is trusted whatever it says
SruPlaceTrusting(t, page, i) ==
  IF page[i].told > 0 THEN page[i].told - 1 ELSE t.start + i - 1

\* Where the record i of a page is cached: its recordPosition is trusted if it
\* is not before the position that is counted.
SruPlace(t, page, i) ==
  IF page[i].told >= t.start + i THEN page[i].told - 1 ELSE t.start + i - 1

\* The records of a page that is an answer to q; what is cached at a position
\* already, before this page or from it, stays.
SruRecords(x, t, q, page) ==
  LET at(i) == SruPlace(t, page, i)
      added == {i \in DOMAIN page : /\ at(i) \notin Cached(x)
                                    /\ \A j \in 1 .. i - 1 : at(j) # at(i)}
  IN  {[at |-> at(i), set |-> q.set, order |-> 0, pos |-> page[i].pos, diag |-> FALSE] :
         i \in added}

SruCacheAdd(s, r, t, q, page) ==
  IF page = <<>> THEN [s EXCEPT !.odd = ~ @]
  ELSE [IF s.sets[r].connection THEN s ELSE Fault(s, "RELEASED")
          EXCEPT !.sets[r].cache = @ \cup SruRecords(s.sets[r], t, q, page)]

SruSized(s, r, n) == [s EXCEPT !.sets[r].size = n, !.sets[r].live_set = 2]

\* (mutant) the range moves on twice
SruResponseTwice(s, q, page, counted, ok) ==
  LET t == Head(s.tasks)
      r == t.resultset
      k == Len(page)
      sized == SruSized(s, r, IF ok /\ counted THEN hits[q.set] ELSE 0)
  IN  IF ok
      THEN Finish(SearchStep([SruCacheAdd(sized, r, t, q, page)
                                EXCEPT !.tasks[1].count = @ - Least(k, @),
                                       !.tasks[1].start = @ + 2 * k]))
      ELSE RemoveTask([sized EXCEPT !.error = "DIAG"])

\* handle_srw_response: page is a sequence of records, each the record pos of
\* the query's result with the recordPosition told, 0 if there is none; counted
\* says whether there is numberOfRecords.  The range moves on by the number of
\* records, wherever they went.
SruResponse(s, q, page, counted, ok) ==
  LET t == Head(s.tasks)
      r == t.resultset
      k == Len(page)
      sized == SruSized(s, r, IF ok /\ counted THEN hits[q.set] ELSE 0)
  IN  IF ok
      THEN Finish(SearchStep([SruCacheAdd(sized, r, t, q, page)
                                EXCEPT !.tasks[1].count = @ - Least(k, @),
                                       !.tasks[1].start = @ + k]))
      ELSE RemoveTask([sized EXCEPT !.error = "DIAG"])

(***************************************************************************)
(* The application                                                         *)
(***************************************************************************)
Init ==
  /\ hits \in [ResultSets -> 0 .. MaxHits]
  /\ calls = 0
  /\ zs = [tasks |-> <<>>, resultsets |-> {}, open |-> TRUE, up |-> TRUE,
           reconnect_ok |-> FALSE, error |-> "NONE", wire |-> {}, odd |-> FALSE, fault |-> "NONE",
           sets |-> [r \in ResultSets |-> Fresh], server |-> [n \in Names |-> {}]]

Call ==
  /\ zs.fault = "NONE"
  /\ calls < MaxCalls
  /\ calls' = calls + 1
  /\ UNCHANGED hits

\* On HTTP a connection is made on demand, and a kept one may be made anew.
Prepare(s) ==
  IF Proto = "Z3950" THEN s
  ELSE IF s.up THEN [s EXCEPT !.reconnect_ok = TRUE]
  ELSE [s EXCEPT !.up = TRUE]

\* ZOOM_resultset_create and ZOOM_connection_search
Search(r, start, count, step, piggyback, sort, valid) ==
  /\ Call
  /\ zs.open
  /\ zs.sets[r].status = "new" /\ \A q \in 1 .. r - 1 : zs.sets[q].status # "new"
  /\ Named \/ "share" \in Liberties \/ Proto = "HTTP" \/ zs.resultsets = {}
  /\ valid \/ "badQuery" \in Liberties
  /\ LET x == [Fresh EXCEPT !.status = "alive", !.handle = TRUE, !.refcount = 1,
                            !.connection = TRUE, !.sort_spec = sort, !.valid = valid,
                            !.step = step, !.piggyback = piggyback]
     IN  zs' = AddTask(Prepare([zs EXCEPT !.sets[r] = x, !.resultsets = @ \cup {r}]),
                       NewTask("SEARCH", r, start, count))

\* ZOOM_resultset_retrieve; it does nothing for a released set.
Retrieve(r, start, count) ==
  /\ Call
  /\ zs.sets[r].handle
  /\ zs.sets[r].connection
  /\ zs' = AddTask(Prepare(zs), NewTask("SEARCH", r, start, count))

SearchesOn(s, r) ==
  {i \in TasksOn(s, r) : s.tasks[i].which = "SEARCH"}

\* ZOOM_resultset_sort1: it looks at the connection before it tests whether
\* there is one.
Sort(r) ==
  /\ Call
  /\ Proto = "Z3950"
  /\ zs.sets[r].handle
  /\ "sortBusy" \in Liberties \/ \A i \in SearchesOn(zs, r) : zs.tasks[i].count = 0
  /\ "sortReleased" \in Liberties \/ zs.sets[r].connection
  /\ "sortUnsent" \in Liberties \/ zs.sets[r].setname # NoName \/ TasksOn(zs, r) # {}
  /\ zs' = IF ~ zs.sets[r].connection THEN Fault(zs, "RELEASED")
           ELSE AddTask([zs EXCEPT !.sets[r].cache = {}], NewTask("SORT", r, 0, 0))

\* ZOOM_resultset_destroy
Destroy(r) ==
  /\ Call
  /\ zs.sets[r].handle
  /\ zs' = Unref([zs EXCEPT !.sets[r].handle = FALSE], r, 1)

\* ZOOM_resultset_release
Release(r) ==
  /\ Call
  /\ zs.sets[r].handle
  /\ zs.sets[r].connection
  /\ "releaseBusy" \in Liberties \/ TasksOn(zs, r) = {}
  /\ zs' = [IF r \in zs.resultsets THEN zs ELSE Fault(zs, "ASSERT")
              EXCEPT !.sets[r].connection = FALSE, !.resultsets = @ \ {r}]

\* (mutant) the result sets keep their pointer to the connection
DisconnectKeepsSets ==
  /\ Call
  /\ zs.open
  /\ zs' = RemoveTasks([zs EXCEPT !.open = FALSE, !.up = FALSE, !.wire = {},
                                  !.server = [n \in Names |-> {}], !.resultsets = {}])

\* ZOOM_connection_destroy
Disconnect ==
  /\ Call
  /\ zs.open
  /\ zs' = RemoveTasks(
       [zs EXCEPT !.open = FALSE, !.up = FALSE, !.wire = {},
                  !.server = [n \in Names |-> {}], !.resultsets = {},
                  !.sets = [r \in ResultSets |->
                              IF r \in zs.resultsets
                              THEN [zs.sets[r] EXCEPT !.connection = FALSE] ELSE zs.sets[r]]])

\* ZOOM_connection_connect on an idle connection: connect anew, or allow one
\* reconnect.
Connect ==
  /\ Call
  /\ zs.open
  /\ zs.tasks = <<>>
  /\ zs' = IF zs.up THEN [zs EXCEPT !.error = "NONE", !.reconnect_ok = TRUE]
           ELSE [zs EXCEPT !.error = "NONE", !.up = TRUE]

(***************************************************************************)
(* The event loop                                                          *)
(***************************************************************************)
\* A task is started when no request is outstanding.
Exec ==
  /\ zs.fault = "NONE"
  /\ zs.tasks # <<>>
  /\ zs.error # "NONE" \/ ~ Head(zs.tasks).running
  /\ zs' = ExecTask(zs)
  /\ UNCHANGED <<hits, calls>>

\* How many records an answer to q may carry.
Replies(q) ==
  CASE q.kind = "SEARCH" -> 0 .. Least(q.count, hits[q.set])
    [] q.kind = "PRESENT" ->
         {k \in 0 .. q.count : \A b \in zs.server[q.name] : q.start + k <= hits[b.set]}
    [] q.kind = "SRU" ->
         {k \in 0 .. q.count :
            /\ q.start + k <= hits[q.set] \/ k = 0
            /\ k = 0 => "emptyPages" \in Liberties \/ q.count = 0 \/ q.start >= hits[q.set]}
    [] q.kind = "SORT" -> {0}

\* The pages of k records that may answer an SRU request: the records from
\* q.start on.  A recordPosition is right, absent, or too low, as when each
\* page is numbered from 1.  With gaps, records are left out, and those behind
\* have the right recordPosition.
Pages(q, k) ==
  LET top == hits[q.set]
      next(x, i) == x.pos = q.start + i - 1 /\ x.told <= x.pos + 1
      behind(x, i) == x.pos >= q.start + i /\ x.told = x.pos + 1
  IN  {page \in [1 .. k -> [pos : 0 .. MaxHits, told : 0 .. MaxHits]] :
         /\ \A i \in 1 .. k :
              /\ page[i].pos < top
              /\ next(page[i], i) \/ ("gaps" \in Liberties /\ behind(page[i], i))
         /\ \A i \in 1 .. k - 1 : page[i].pos < page[i + 1].pos}

\* A server without the set can only answer with a diagnostic.
Succeeds(q) ==
  q.kind \in {"SEARCH", "SRU"} \/ zs.server[q.name] # {}

Respond ==
  /\ zs.fault = "NONE"
  /\ \E q \in zs.wire, k \in 0 .. MaxHits, ok \in BOOLEAN :
       LET s == [zs EXCEPT !.wire = {}] IN
       /\ ok => Succeeds(q) /\ k \in Replies(q)
       /\ ~ ok => k = 0
       /\ \/ q.kind = "SEARCH"  /\ zs' = SearchResponse(s, q, k, ok)
          \/ q.kind = "PRESENT" /\ zs' = PresentResponse(s, q, k, ok)
          \/ q.kind = "SORT"    /\ zs' = SortResponse(s, q, ok)
          \/ /\ q.kind = "SRU"
             /\ \E page \in Pages(q, k), counted \in BOOLEAN :
                  zs' = SruResponse(s, q, page, counted, ok)
  /\ UNCHANGED <<hits, calls>>

\* (mutant) a reconnect forgets to close the old connection
LoseKeepsWire ==
  /\ zs.fault = "NONE"
  /\ zs.wire # {}
  /\ LET s == [zs EXCEPT !.wire = {}, !.server = [n \in Names |-> {}]] IN
     \/ zs' = [s EXCEPT !.up = FALSE, !.error = "CONNECTION_LOST"]
     \/ /\ zs.reconnect_ok
        /\ zs' = [s EXCEPT !.wire = zs.wire, !.reconnect_ok = FALSE,
                           !.tasks[1].running = FALSE]
  /\ UNCHANGED <<hits, calls>>

\* (mutant) nothing records that the connection was lost
LoseSilently ==
  /\ zs.fault = "NONE"
  /\ zs.wire # {}
  /\ zs' = [zs EXCEPT !.wire = {}, !.server = [n \in Names |-> {}], !.up = FALSE]
  /\ UNCHANGED <<hits, calls>>

\* The connection is lost while a request is outstanding: the server's sets
\* are gone with the session.  (A timeout closes the connection too;
\* ZoomConnection tells the two errors apart.)
Lose ==
  /\ zs.fault = "NONE"
  /\ zs.wire # {}
  /\ LET s == [zs EXCEPT !.wire = {}, !.server = [n \in Names |-> {}]] IN
     \/ zs' = [s EXCEPT !.up = FALSE, !.error = "CONNECTION_LOST"]
     \/ zs.reconnect_ok /\ zs' = [s EXCEPT !.reconnect_ok = FALSE, !.tasks[1].running = FALSE]
  /\ UNCHANGED <<hits, calls>>

Next ==
  \/ \E r \in ResultSets, start \in Starts, count \in Counts, step \in Steps,
        piggyback \in Piggybacks, sort \in BOOLEAN, valid \in BOOLEAN :
       Search(r, start, count, step, piggyback, sort, valid)
  \/ \E r \in ResultSets, start \in Starts, count \in Counts : Retrieve(r, start, count)
  \/ \E r \in ResultSets : Sort(r) \/ Destroy(r) \/ Release(r)
  \/ Disconnect
  \/ Connect
  \/ Exec
  \/ Respond
  \/ Lose

Spec == Init /\ [][Next]_vars

\* The application keeps calling ZOOM_event; the server answers, or the
\* request times out.
FairSpec == Spec /\ WF_vars(Exec) /\ WF_vars(Respond \/ Lose)

(***************************************************************************)
(* Properties                                                              *)
(***************************************************************************)
\* No assert of the result set code fails (zoom-c.c ZOOM_resultset_release,
\* zoom-z3950.c Z3950_send_present), and no freed set, missing connection,
\* set name or query is used.
NoFault == zs.fault = "NONE"

\* A result set lives exactly as long as the application or a task refers to
\* it, and it is in its connection's list exactly while it points to it.
KeptWhileUsed ==
  \A r \in ResultSets :
    LET x == zs.sets[r] IN
    /\ x.refcount = Cardinality(TasksOn(zs, r)) + (IF x.handle THEN 1 ELSE 0)
    /\ x.status = "alive" <=> x.refcount > 0
    /\ r \in zs.resultsets <=> x.connection

\* What a result set has cached at a position is the record of its own query
\* at that position, even when set names are reused and sessions come and go.
RecordsBelong ==
  \A r \in ResultSets : \A e \in zs.sets[r].cache : e.set = r /\ e.pos = e.at

\* The cached records are in the order that the server's set has now: no
\* record from before a sort survives it.
CacheInOrder ==
  \A r \in ResultSets, n \in Names :
    \A e \in zs.sets[r].cache, b \in zs.server[n] :
      b.set = r /\ ~ e.diag => e.order = b.order

\* When a retrieval ends without an error, every record of its range below the
\* known size of the set is cached, up to a surrogate diagnostic that tells why
\* the retrieval stopped.
EndsFetched ==
  (/\ Len(zs'.tasks) = Len(zs.tasks) - 1
   /\ zs'.error = "NONE" /\ zs.error = "NONE" /\ zs.up /\ zs'.open
   /\ zs'.fault = "NONE"
   /\ Head(zs.tasks).which = "SEARCH")
  => LET t == Head(zs.tasks)
         x == zs'.sets[t.resultset]
     IN  x.status = "alive" =>
           \A p \in t.from .. t.upto - 1 : p < x.size =>
             \/ p \in Cached(x)
             \/ \E e \in x.cache : e.diag /\ e.at \in t.from .. p

\* A retrieval that ends without an error has cached every record of its range,
\* over piggyback, steps, cached records and lost sessions
\* (src/src/zoom-z3950.c:1416 handle_Z3950_records, zoom-sru.c:334-387).
FetchedOrTold == [][EndsFetched]_vars

\* Every task ends: each request brings a record or ends the retrieval.
TasksEnd == zs.tasks # <<>> ~> zs.tasks = <<>>

(* The record cache is right: what it holds are records of the set's own   *)
(* query, each at its position, in the order of the last sort              *)
(* (src/src/zoom-z3950.c:1460, src/src/zoom-c.c:846).                      *)
CachedRightly == RecordsBelong /\ CacheInOrder
====
