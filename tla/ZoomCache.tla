------------------------------ MODULE ZoomCache ------------------------------
(***************************************************************************)
(* The second-level cache of ZOOM (src/src/zoom-memcached.c) between the   *)
(* connections that share it and the servers that they search: hit counts  *)
(* and records are kept in memcached or redis under a key made from the    *)
(* connection and the query, and a result set may be served from there     *)
(* without the server (live_set 1) until a record is missing.              *)
(*                                                                         *)
(* A record is its provenance: the set of the server that it is from and   *)
(* its position.  A server's set is what was searched for, by whom, how it *)
(* is sorted and at which version of the database.  ZoomResultSet models   *)
(* what else a result set is; here each connection has one at a time.      *)
(***************************************************************************)
EXTENDS ZoomQuery

CONSTANTS
  Clients,      \* connections, of applications that share the cache
  Identities,   \* of each: who it may be, by user, group and password
  Options,      \* the memcached and redis options that each may use
  Scripts,      \* how queries are made: sequences of calls
  Databases,    \* the databases searched
  Ranges,       \* where retrievals start, how many records and which syntax
  Hits,         \* per version of the database, the hits of each query
  Liberties,    \* what makes the cache unsafe, below
  MaxCalls      \* bound: calls of each application

\* laterSort: a result set of a connection with a cache is sorted after the
\* search.  failures: a Z39.50 search fails on a connection with a cache.
\* growth: there are more hits than before when the database changes.
ASSUME CacheAssumption ==
  /\ Liberties \subseteq {"laterSort", "failures", "growth"}
  /\ MaxCalls \in [Clients -> Nat]
  /\ Hits \in Seq(Nat) \ {<<>>}
  /\ \A r \in Ranges : r[1] \in Nat /\ r[2] \in Nat
  /\ \A n \in Clients : \A o \in Options[n] :
       {o.redis, o.memcached} \subseteq Seq([name : STRING, value : Int])
  /\ \A n \in Clients :
       Identities[n] \subseteq [user : Seq(STRING), group : Seq(STRING), password : Seq(STRING)]
  /\ Scripts \subseteq Seq(Call)

(***************************************************************************)
(* What the applications that share a cache have to observe: parts of the  *)
(* key do not contain the separator, one database is searched, and sort    *)
(* criteria are named for what they are (in the code the key has digests   *)
(* of the query's text and of the criteria's).                             *)
(***************************************************************************)
Separator == ";"
NoSeparator(s) == \A i \in 1..Len(s) : s[i] # Separator
KeysApart ==
  /\ \A n \in Clients : \A id \in Identities[n] :
       NoSeparator(id.user) /\ NoSeparator(id.group) /\ NoSeparator(id.password)
  /\ \A a, b \in Databases : a = b
  /\ \A s, t \in Scripts : \A i \in 1..Len(s), j \in 1..Len(t) :
       /\ s[i].op = "sortby" /\ s[i].arg # <<>>
       /\ t[j].op = "sortby" /\ t[j].arg # <<>>
       /\ s[i].arg[1].name = t[j].arg[1].name
       => s[i].arg = t[j].arg

(***************************************************************************)
(* How an application makes a query: it sets one, and if it says more than *)
(* once how to sort, it keeps to the strategy.  ZOOM_query_sortby2 does    *)
(* not take back sort keys for SRU when the strategy changes, and a query  *)
(* that was never set cannot be sent.                                      *)
(***************************************************************************)
QueriesMade ==
  \A s \in Scripts :
    /\ \E i \in 1..Len(s) : s[i].op \in Asks
    /\ \A i, j \in 1..Len(s) : s[i].op = "sortby" /\ s[j].op = "sortby" => s[i].with = s[j].with

VARIABLES
  proto,     \* "Z3950" or "SRU": what the server speaks
  clients,   \* the connections
  store,     \* per backend: counts, the index of records, records by digest
  version    \* of the server's database

vars == <<proto, clients, store, version>>

-----------------------------------------------------------------------------
(* ZOOM_memcached_configure with create_redis and create_memcached.  An    *)
(* option is a sequence of directives; "down" is a server that cannot be   *)
(* reached, which only redis notices at once.                              *)
Expire(c, o) ==
  IF \E i \in DOMAIN o : o[i].name = "expire"
  THEN LET n == o[CHOOSE i \in DOMAIN o : o[i].name = "expire"].value
       IN [c EXCEPT !.expire_search = n, !.expire_record = n + 600]
  ELSE c
MemcachedConfigure(c, redis, memcached) ==
  LET none == [c EXCEPT !.backend = NULL]
      bad(o) == \E i \in DOMAIN o : o[i].name = "other"
  IN IF redis # <<>>
     THEN IF \E i \in DOMAIN redis : redis[i] = [name |-> "server", value |-> 1]
          THEN [Expire(none, redis) EXCEPT !.backend = "redis"]
          ELSE [Expire(none, redis) EXCEPT !.error = "MEMCACHED"]
     ELSE IF memcached = <<>> THEN none
     ELSE IF bad(memcached) THEN [Expire(none, memcached) EXCEPT !.error = "MEMCACHED"]
     ELSE [Expire(none, memcached) EXCEPT !.backend = "memcached"]

(* (mutant) The parts of the key are not kept apart.                       *)
Key_Joined(c, q) ==
  <<proto>> \o c.user \o c.group \o c.password \o QueryHash(q)

(* ZOOM_memcached_resultset: host, user, group, password and query, with a *)
(* separator after each; long values and the last two are digests.  Extra  *)
(* arguments and facets are treated likewise; the databases are not part   *)
(* of the key.                                                             *)
Key(c, q) ==
  <<proto, Separator>> \o c.user \o <<Separator>> \o c.group \o <<Separator>> \o c.password
    \o <<Separator>> \o QueryHash(q)

Uses(c) == c.backend # NULL
Has(f, k) == k \in DOMAIN f
Over(f, g) == [x \in DOMAIN f \cup DOMAIN g |-> IF x \in DOMAIN f THEN f[x] ELSE g[x]]
Put(f, k, v) == Over([x \in {k} |-> v], f)
Drop(f, k) == [x \in DOMAIN f \ {k} |-> f[x]]

(* ZOOM_memcached_search.                                                  *)
MemcachedSearch(c, st) ==
  IF Uses(c) /\ c.rs[1].live = 0 /\ Has(st[c.backend].counts, c.rs[1].key)
  THEN [c EXCEPT !.rs[1].size = st[c.backend].counts[c.rs[1].key], !.rs[1].live = 1]
  ELSE c

(* ZOOM_memcached_hitcount.                                                *)
MemcachedHitcount(c, st, n) ==
  IF Uses(c) /\ c.rs[1].live = 0
  THEN [st EXCEPT ![c.backend].counts = Put(@, c.rs[1].key, n)]
  ELSE st

(* The key of a record.                                                    *)
RecordKey(c, at) == <<c.rs[1].key, at, c.task[1].syntax>>

(* ZOOM_memcached_add, for the records recs[at]: the index gets a record's *)
(* digest, and the record itself is kept under that.                       *)
MemcachedAdd(c, st, recs) ==
  IF Uses(c)
  THEN [st EXCEPT ![c.backend].index = Over([k \in {RecordKey(c, at) : at \in DOMAIN recs} |-> recs[k[2]]], @),
                  ![c.backend].records = @ \cup {recs[at] : at \in DOMAIN recs}]
  ELSE st

(* ZOOM_memcached_lookup: either part may have expired.                    *)
MemcachedLookup(c, st, at) ==
  IF Uses(c) /\ Has(st[c.backend].index, RecordKey(c, at))
  THEN {st[c.backend].index[RecordKey(c, at)]} \cap st[c.backend].records
  ELSE {}

(* ZOOM_record_cache_lookup_i and ZOOM_record_cache_lookup: the result     *)
(* set's own records first.                                                *)
Cached(c, at) == {e.rec : e \in {e \in c.rs[1].cache : e.at = at /\ e.syntax = c.task[1].syntax}}
Lookup(c, st, at) == IF Cached(c, at) # {} THEN Cached(c, at) ELSE MemcachedLookup(c, st, at)
Entry(c, at, rec) == [at |-> at, syntax |-> c.task[1].syntax, rec |-> rec]

(* The records at the start of the range that are at hand.                 *)
Skip(c, st) ==
  LET t == c.task[1]
      i == Highest({n \in 1..t.count : \A k \in 0..(n - 1) : Lookup(c, st, t.start + k) # {}})
  IN [c EXCEPT !.rs[1].cache = @ \cup UNION {{Entry(c, t.start + k, r) : r \in Lookup(c, st, t.start + k)} : k \in 0..(i - 1)},
               !.task[1].start = @ + i, !.task[1].count = @ - i]

Complete(c) == [c EXCEPT !.task = <<>>, !.last = c.task]
Fail(c) == [c EXCEPT !.task = <<>>, !.last = <<>>, !.error = "DIAG"]
Send(c, kind, q, count) ==
  [c EXCEPT !.wire = <<[kind |-> kind, q |-> q, start |-> c.task[1].start, count |-> count]>>,
            !.task[1].sent = @ + 1]

(* The range is cut off at the size of a set whose size is known.          *)
Clamp(c) ==
  LET t == c.task[1]
      n == IF c.rs[1].live = 0 THEN t.count
           ELSE IF t.start >= c.rs[1].size THEN 0 ELSE Least(t.count, c.rs[1].size - t.start)
  IN [c EXCEPT !.task[1].count = n]

(* ZOOM_connection_Z3950_search: a set that came from the cache has to be  *)
(* searched for before its records can be presented.                       *)
Z3950Search(c, st) ==
  LET d == Skip(Clamp(MemcachedSearch(c, st)), st)
      t == d.task[1]
  IN IF t.count = 0 /\ d.rs[1].live # 0 THEN Complete(d)
     ELSE IF d.rs[1].live = 2 THEN Send(d, "PRESENT", <<>>, t.count)
     ELSE Send(d, "SEARCH", QueryZ(d.q), IF t.start = 0 /\ d.rs[1].sort = <<>> THEN t.count ELSE 0)

(* ZOOM_connection_srw_send_search.                                        *)
SrwSearch(c, st) ==
  LET d == Skip(Clamp(MemcachedSearch(c, st)), st)
      t == d.task[1]
  IN IF t.count = 0 /\ d.rs[1].live # 0 THEN Complete(d)
     ELSE Send(d, "SRU", QueryZ(d.q), t.count)

Attempt(c, st) == IF proto = "Z3950" THEN Z3950Search(c, st) ELSE SrwSearch(c, st)

(* send_Z3950_sort_present: the sort of the query, once, and then records. *)
SortPresent(c, st) ==
  IF c.rs[1].sort # <<>> THEN Send([c EXCEPT !.rs[1].sort = <<>>], "SORT", c.rs[1].sort, 0)
  ELSE Z3950Search(c, st)
-----------------------------------------------------------------------------
(* The server: a set, and the record at a position of it (from 0).         *)
ServerSet(c, text, sorts) ==
  [text |-> text, sorts |-> sorts, user |-> <<c.user, c.group, c.password>>, db |-> c.db, version |-> version]
Rec(c, set, at) == [set |-> set, pos |-> at, syntax |-> c.task[1].syntax]
Size(set) == Hits[set.version]

(* What the server finds for a query: the sort may be part of the query's  *)
(* text or come with an SRU request.                                       *)
Found(c, q) == ServerSet(c, q[1].string, q[1].sort \o (IF proto = "SRU" THEN QuerySru11(c.q) ELSE <<>>))

(* handle_Z3950_records: n records of the set, from the task's start on.   *)
TakeRecords(c, st, set, n) ==
  LET t == c.task[1]
      ats == t.start..(t.start + n - 1)
      d == [c EXCEPT !.rs[1].cache = {e \in @ : ~(e.at \in ats /\ e.syntax = t.syntax)}
                                       \cup {Entry(c, at, Rec(c, set, at)) : at \in ats},
                     !.task[1].count = Most(0, Least(t.count, c.rs[1].size - t.start) - n), !.task[1].start = @ + n]
  IN [c |-> d, st |-> MemcachedAdd(c, st, [at \in ats |-> Rec(c, set, at)])]

(* handle_Z3950_search_response with the records that it brings along.     *)
SearchResponse(c, st) ==
  LET set == Found(c, c.wire[1].q)
      counted == MemcachedHitcount(c, st, Size(set))
      d == [c EXCEPT !.wire = <<>>, !.srv = <<set>>, !.rs[1].size = Size(set), !.rs[1].live = 2]
      r == TakeRecords(d, counted, set, Least(c.wire[1].count, Size(set)))
  IN [c |-> SortPresent(r.c, r.st), st |-> r.st]
(* The same with a diagnostic: the count of 0 has been stored by then.     *)
SearchRefused(c, st) ==
  [c |-> Fail([c EXCEPT !.wire = <<>>, !.rs[1].size = 0, !.rs[1].live = 2]), st |-> MemcachedHitcount(c, st, 0)]

SortResponse(c, st) ==
  LET d == [c EXCEPT !.wire = <<>>, !.srv[1].sorts = c.wire[1].q]
  IN [c |-> IF c.task[1].which = "SORT" THEN Complete(d) ELSE Z3950Search(d, st), st |-> st]
PresentResponse(c, st) ==
  LET r == TakeRecords([c EXCEPT !.wire = <<>>], st, c.srv[1], Least(c.wire[1].count, Size(c.srv[1]) - c.task[1].start))
  IN [c |-> Z3950Search(r.c, r.st), st |-> r.st]

(* handle_srw_response with a diagnostic, and with records: one that is at *)
(* hand already is not replaced.                                           *)
SrwRefused(c, st) ==
  [c |-> Fail([c EXCEPT !.wire = <<>>, !.rs[1].size = 0, !.rs[1].live = 2]), st |-> st]
SrwResponse(c, st) ==
  LET set == Found(c, c.wire[1].q)
      counted == MemcachedHitcount(c, st, Size(set))
      d == [c EXCEPT !.wire = <<>>, !.rs[1].size = Size(set), !.rs[1].live = 2]
      t == d.task[1]
      n == Most(0, Least(c.wire[1].count, Size(set) - t.start))
      ats == t.start..(t.start + n - 1)
      new == {at \in ats : Lookup(d, counted, at) = {}}
      kept == MemcachedAdd(d, counted, [at \in new |-> Rec(d, set, at)])
      e == [d EXCEPT !.rs[1].cache = @ \cup {Entry(d, at, Rec(d, set, at)) : at \in new}
                                       \cup UNION {{Entry(d, at, r) : r \in Lookup(d, counted, at)} : at \in ats \ new},
                     !.task[1].count = Most(0, @ - n), !.task[1].start = @ + n]
  IN [c |-> SrwSearch(e, kept), st |-> kept]
-----------------------------------------------------------------------------
NoStore == [counts |-> <<>>, index |-> <<>>, records |-> {}]

Init ==
  /\ proto \in {"Z3950", "SRU"}
  /\ clients = [n \in Clients |->
       [backend |-> NULL, expire_search |-> 600, expire_record |-> 1200, error |-> "NONE",
        user |-> <<>>, group |-> <<>>, password |-> <<>>, db |-> NULL,
        q |-> QueryCreate, rs |-> <<>>, task |-> <<>>, wire |-> <<>>, srv |-> <<>>, last |-> <<>>, calls |-> 0]]
  /\ store = [b \in {"redis", "memcached"} |-> NoStore]
  /\ version = 1

(* A call of the application: it waits for the one before it.              *)
May(n) == clients[n].task = <<>> /\ clients[n].calls < MaxCalls[n]

(* ZOOM_connection_connect, as far as the cache goes.                      *)
Connect(n, o, id) ==
  /\ clients[n].calls = 0
  /\ clients' = [clients EXCEPT ![n] = [MemcachedConfigure(@, o.redis, o.memcached) EXCEPT
                   !.user = id.user, !.group = id.group, !.password = id.password, !.calls = 1]]
  /\ UNCHANGED <<proto, store, version>>

Task(which, range) ==
  <<[which |-> which, start |-> range[1], count |-> range[2], from |-> range[1], upto |-> range[1] + range[2],
     syntax |-> range[3], sent |-> 0]>>

(* How the strategy says that a set of the query shall be sorted, if the   *)
(* query and the server have that way of saying it.                        *)
SortOf(q) ==
  LET reaches == CASE q.strategy = "z3950" -> proto = "Z3950"
                   [] q.strategy = "type7" -> q.type = "RPN"
                   [] q.strategy = "cql" -> q.type = "CQL"
                   [] q.strategy = "embed" -> TRUE
                   [] OTHER -> proto = "SRU"
  IN IF reaches THEN q.sort ELSE <<>>

(* The calls that make a query, up to one that fails.                      *)
Made ==
  [script \in Scripts |->
     LET made[i \in 0..Len(script)] ==
           IF i = 0 THEN [q |-> QueryCreate, ret |-> 0]
           ELSE IF made[i - 1].ret # 0 THEN made[i - 1] ELSE QueryCall(made[i - 1].q, script[i])
     IN made[Len(script)]]

(* ZOOM_connection_search, with the calls that make the query before it:   *)
(* the application drops a query when one of them fails.                   *)
Search(n, script, db, range) ==
  LET c == clients[n]
      made == Made[script]
      new == [c EXCEPT !.error = "NONE", !.q = made.q, !.db = db, !.srv = <<>>, !.calls = @ + 1,
                       !.rs = <<[key |-> Key(c, made.q), size |-> 0, live |-> 0, sort |-> QuerySortspec(made.q),
                                 order |-> SortOf(made.q), cache |-> {}]>>,
                       !.task = Task("SEARCH", range)]
  IN /\ May(n) /\ c.calls > 0 /\ c.error # "MEMCACHED"
     /\ clients' = [clients EXCEPT ![n] = IF made.ret = 0 THEN Attempt(new, store)
                                          ELSE [c EXCEPT !.calls = @ + 1]]
     /\ UNCHANGED <<proto, store, version>>

(* ZOOM_resultset_records, of a set whose search did not fail.             *)
Retrieve(n, range) ==
  LET c == clients[n]
      new == [c EXCEPT !.error = "NONE", !.task = Task("SEARCH", range), !.calls = @ + 1]
  IN /\ May(n) /\ c.rs # <<>> /\ c.error = "NONE"
     /\ clients' = [clients EXCEPT ![n] = Attempt(new, store)]
     /\ UNCHANGED <<proto, store, version>>

(* ZOOM_resultset_sort1 of a set that the server has.                      *)
Sort(n, criteria) ==
  LET c == clients[n]
      new == [c EXCEPT !.error = "NONE", !.rs[1].cache = {}, !.rs[1].order = <<criteria>>,
                       !.task = Task("SORT", <<0, 0, NULL>>), !.calls = @ + 1]
  IN /\ May(n) /\ proto = "Z3950" /\ c.srv # <<>>
     /\ Uses(c) => "laterSort" \in Liberties
     /\ clients' = [clients EXCEPT ![n] = Send(new, "SORT", <<criteria>>, 0)]
     /\ UNCHANGED <<proto, store, version>>

Answered(n, r) ==
  /\ clients' = [clients EXCEPT ![n] = r.c]
  /\ store' = r.st
  /\ UNCHANGED <<proto, version>>
Awaits(n, kind) == clients[n].wire # <<>> /\ clients[n].wire[1].kind = kind

Accept(n) ==
  \/ Awaits(n, "SEARCH") /\ Answered(n, SearchResponse(clients[n], store))
  \/ Awaits(n, "SORT") /\ Answered(n, SortResponse(clients[n], store))
  \/ Awaits(n, "PRESENT") /\ Answered(n, PresentResponse(clients[n], store))
  \/ Awaits(n, "SRU") /\ Answered(n, SrwResponse(clients[n], store))
Refuse(n) ==
  \/ /\ Awaits(n, "SEARCH") /\ (Uses(clients[n]) => "failures" \in Liberties)
     /\ Answered(n, SearchRefused(clients[n], store))
  \/ Awaits(n, "SRU") /\ Answered(n, SrwRefused(clients[n], store))

(* Others change the database, and what is cached expires; when an entry   *)
(* of the index does, that is as if its record did.                        *)
Update ==
  /\ version < Len(Hits)
  /\ Hits[version + 1] > Hits[version] => "growth" \in Liberties
  /\ version' = version + 1
  /\ UNCHANGED <<proto, clients, store>>
ExpireCount(b) ==
  /\ \E k \in DOMAIN store[b].counts : store' = [store EXCEPT ![b].counts = Drop(@, k)]
  /\ UNCHANGED <<proto, clients, version>>
ExpireRecord(b) ==
  /\ \E r \in store[b].records : store' = [store EXCEPT ![b].records = @ \ {r}]
  /\ UNCHANGED <<proto, clients, version>>

Next ==
  \/ \E n \in Clients :
       \/ \E o \in Options[n], id \in Identities[n] : Connect(n, o, id)
       \/ \E s \in Scripts, db \in Databases, r \in Ranges : Search(n, s, db, r)
       \/ \E r \in Ranges : Retrieve(n, r)
       \/ Sort(n, Criteria("later", TRUE))
       \/ Accept(n)
       \/ Refuse(n)
  \/ Update
  \/ \E b \in {"redis", "memcached"} : ExpireCount(b) \/ ExpireRecord(b)

Spec == Init /\ [][Next]_vars
-----------------------------------------------------------------------------
(* Whatever the way it took, a record that a result set has is the record  *)
(* that the server would give it at some time: of this query, searched by  *)
(* this user, at this position, in this order and syntax, though the key   *)
(* is a joined string and the server may hand out the record of another    *)
(* connection's search (src/src/zoom-memcached.c:204).                     *)
RecordsAreOfTheSet ==
  \A n \in Clients : LET c == clients[n] IN
    c.rs # <<>> => \A e \in c.rs[1].cache :
      /\ e.rec.pos = e.at /\ e.rec.syntax = e.syntax
      /\ e.rec.set.text = c.q.string /\ e.rec.set.sorts = c.rs[1].order
      /\ e.rec.set.user = <<c.user, c.group, c.password>> /\ e.rec.set.db = c.db

(* Records are presented from a set only if this connection has searched   *)
(* for it: a hit count from the cache is no set (src/src/zoom-z3950.c:1682).*)
PresentsWhatWasSearched ==
  \A n \in Clients : Awaits(n, "PRESENT") =>
    clients[n].srv # <<>> /\ clients[n].srv[1].sorts = clients[n].rs[1].order

(* A retrieval that ends without an error leaves every record of its range *)
(* that the set is said to have, although parts of it come from the cache, *)
(* expire there and change at the server on the way.                       *)
RangesAreFilled ==
  \A n \in Clients : LET c == clients[n] IN
    c.rs # <<>> /\ c.task = <<>> /\ c.error = "NONE" /\ c.last # <<>> =>
      \A at \in c.last[1].from..(c.last[1].upto - 1) :
        at < c.rs[1].size => \E e \in c.rs[1].cache : e.at = at /\ e.syntax = c.last[1].syntax

(* A hit count that is shown without an error is one that a server gave:   *)
(* the 0 of a failed search is not kept (src/src/zoom-sru.c:290).          *)
CountsAreReal ==
  \A n \in Clients : LET c == clients[n] IN
    c.rs # <<>> /\ c.rs[1].live # 0 /\ c.error = "NONE" => \E v \in 1..version : c.rs[1].size = Hits[v]

(* A query object whose calls all succeeded can be sent: it refers to a    *)
(* query, and to one that has not been given back when it was generated    *)
(* anew (src/src/zoom-query.c:55), and the request carries the sort that   *)
(* was asked for last, in one place.                                       *)
QueriesAreWhole ==
  \A n \in Clients : LET c == clients[n] IN
    Awaits(n, "SEARCH") \/ Awaits(n, "SRU") =>
      /\ c.wire[1].q # <<>> /\ ~c.q.stale
      /\ c.wire[1].q[1].sort \o (IF proto = "SRU" THEN QuerySru11(c.q) ELSE c.rs[1].sort) = SortOf(c.q)

(* A retrieval ends after one search and one sort at most, and a request   *)
(* per record: a set that was taken from the cache is not searched for     *)
(* again and again, whatever expires in between.                           *)
RetrievalsAreShort ==
  \A n \in Clients : LET c == clients[n] IN
    c.task # <<>> => c.task[1].sent <= 2 + (c.task[1].upto - c.task[1].from)

(* What an application sees through the shared cache is what it would have *)
(* seen without it: records of its set, real counts, ranges without gaps,  *)
(* after few requests (src/src/zoom-memcached.c:204,                       *)
(* src/src/zoom-z3950.c:1668, src/src/zoom-sru.c:290).                     *)
CacheIsTransparent ==
  /\ RecordsAreOfTheSet /\ PresentsWhatWasSearched /\ RangesAreFilled /\ CountsAreReal
  /\ RetrievalsAreShort
=============================================================================
