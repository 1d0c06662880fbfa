-------------------------- MODULE ZoomCacheProofs ---------------------------
(***************************************************************************)
(* What an application gets through the second-level cache: the queries    *)
(* that it sends are whole (QueriesAreWhole), and records, hit counts and  *)
(* ranges are those of a connection that has no cache                      *)
(* (CacheIsTransparent), for any number of applications, identities,       *)
(* queries, ranges, calls and versions of the database.                    *)
(***************************************************************************)
EXTENDS ZoomCache, ProofBasics

(***************************************************************************)
(* Types                                                                   *)
(***************************************************************************)
Protocols == {"Z3950", "SRU"}
Backends == {"redis", "memcached"}
\* The strings; those that the modules name are listed for the provers.
Str == STRING \cup Protocols \cup {NULL, Separator, "z3950", "RPN", "CQL"}
Text == [string : Str, sort : Seq(Criterion)]
Query ==
  [z : Seq(Text), stale : BOOLEAN, strategy : Str, sort : Seq(Criterion), type : {"RPN", "CQL"},
   string : Str, sru11 : Seq(Criterion)]
Identity == [user : Seq(Str), group : Seq(Str), password : Seq(Str)]
Syntax == {r[3] : r \in Ranges} \cup {NULL}
Database == Databases \cup {NULL}
\* How a set is sorted: as the query says, or as a sort of the set did.
Order == Criterion \cup {Criteria("later", TRUE)}
ASet ==
  [text : Str, sorts : Seq(Order), user : Seq(Str) \X Seq(Str) \X Seq(Str), db : Database,
   version : 1..Len(Hits)]
ARecord == [set : ASet, pos : Nat, syntax : Syntax]
AnEntry == [at : Nat, syntax : Syntax, rec : ARecord]
AResultSet ==
  [key : Seq(Str), size : Nat, live : {0, 1, 2}, sort : Seq(Criterion), order : Seq(Order), cache : SUBSET AnEntry]
ATask ==
  [which : {"SEARCH", "SORT"}, start : Nat, count : Nat, from : Nat, upto : Nat, syntax : Syntax, sent : Nat]
Kinds == {"SEARCH", "SORT", "PRESENT", "SRU"}
ARequest == [kind : Kinds, q : Seq(Text) \cup Seq(Order), start : Nat, count : Nat]
Client ==
  [backend : Backends \cup {NULL}, expire_search : Int, expire_record : Int, error : {"NONE", "MEMCACHED", "DIAG"},
   user : Seq(Str), group : Seq(Str), password : Seq(Str), db : Database, q : Query,
   rs : Seq(AResultSet), task : Seq(ATask), wire : Seq(ARequest), srv : Seq(ASet), last : Seq(ATask), calls : Nat]

(***************************************************************************)
(* The invariant                                                           *)
(***************************************************************************)
Strategies == {"z3950", "type7", "cql", "sru11", "solr", "embed"}

\* A query that can be sent.
Whole(q) ==
  /\ q \in Query /\ ~q.stale /\ q.string # NULL /\ q.strategy \in Strategies
  /\ q.z = <<FullQuery(q)>>
  /\ q.sru11 = IF q.sort # <<>> /\ q.strategy \in {"sru11", "solr"} THEN q.sort ELSE <<>>

\* Key and SortOf with the protocol as a parameter, for an identity.
KeyFor(p, id, q) ==
  <<p, Separator>> \o id.user \o <<Separator>> \o id.group \o <<Separator>> \o id.password \o <<Separator>> \o QueryHash(q)
SortFor(p, q) ==
  LET reaches == CASE q.strategy = "z3950" -> p = "Z3950"
                   [] q.strategy = "type7" -> q.type = "RPN"
                   [] q.strategy = "cql" -> q.type = "CQL"
                   [] q.strategy = "embed" -> TRUE
                   [] OTHER -> p = "SRU"
  IN IF reaches THEN q.sort ELSE <<>>

\* A set that the server found for the query q of id, in the end sorted.
SetOf(p, id, q, set) ==
  /\ set.text = q.string /\ set.sorts = SortFor(p, q)
  /\ set.user = <<id.user, id.group, id.password>>

\* Whose sets are kept under the key.
Keeps(p, key, set) ==
  \E n \in Clients : \E id \in Identities[n], s \in Scripts :
    Made[s].ret = 0 /\ key = KeyFor(p, id, Made[s].q) /\ SetOf(p, id, Made[s].q, set)

RealCounts(v) == {Hits[w] : w \in 1..v}

StoreSafe(p, v, st) ==
  /\ st = [b \in Backends |-> st[b]]
  /\ \A b \in Backends :
       /\ st[b] = [counts |-> st[b].counts, index |-> st[b].index, records |-> st[b].records]
       /\ \A k \in DOMAIN st[b].counts : st[b].counts[k] \in RealCounts(v)
       /\ \A k \in DOMAIN st[b].index :
            LET r == st[b].index[k] IN
            /\ r \in ARecord /\ r.pos = k[2] /\ r.syntax = k[3]
            /\ r.set.db \in Databases /\ Keeps(p, k[1], r.set)

\* What a client searches for, and as whom.
Named(p, n, c) ==
  /\ \E id \in Identities[n], s \in Scripts :
       /\ Made[s].ret = 0 /\ c.q = Made[s].q
       /\ c.user = id.user /\ c.group = id.group /\ c.password = id.password
       /\ c.rs[1].key = KeyFor(p, id, c.q)
  /\ c.db \in Databases

\* A record at hand is one of the set.
OfTheSet(c, e) ==
  /\ e.rec.pos = e.at /\ e.rec.syntax = e.syntax
  /\ e.rec.set.text = c.q.string /\ e.rec.set.sorts = c.rs[1].order
  /\ e.rec.set.user = <<c.user, c.group, c.password>> /\ e.rec.set.db = c.db

\* The records at hand are those of the set, and so are size and order.
Base(p, v, c) ==
  /\ c.rs[1].live # 2 => c.rs[1].sort = QuerySortspec(c.q) /\ c.rs[1].order = SortFor(p, c.q)
  /\ Uses(c) \/ p = "SRU" => c.rs[1].order = SortFor(p, c.q)
  /\ c.rs[1].live # 0 /\ c.error = "NONE" => c.rs[1].size \in RealCounts(v)
  /\ \A e \in c.rs[1].cache : OfTheSet(c, e)

\* The set that the server has for the client.
AtServer(p, c) ==
  /\ c.srv # <<>> => p = "Z3950" /\ c.rs[1].live = 2 /\ c.error = "NONE"
  /\ p = "Z3950" /\ c.rs[1].live = 2 /\ c.error = "NONE" =>
       /\ c.srv # <<>> /\ c.rs[1].sort = <<>> /\ Size(c.srv[1]) = c.rs[1].size
       /\ c.srv[1].text = c.q.string /\ c.srv[1].user = <<c.user, c.group, c.password>>
       /\ c.srv[1].db = c.db

InOrder(c) == c.srv # <<>> => c.srv[1].sorts = c.rs[1].order

\* The records before the position at are at hand.
FilledTo(c, t, to) == \A at \in t.from..(to - 1) : \E e \in c.rs[1].cache : e.at = at /\ e.syntax = t.syntax

\* How far a retrieval has come: what is left is asked for, or not there.
Progress(c) ==
  LET t == c.task[1] IN
  /\ t.which = "SEARCH" /\ t.from <= t.start /\ t.start + t.count <= t.upto
  /\ FilledTo(c, t, t.start)
  /\ IF c.rs[1].live = 0 THEN t.start + t.count = t.upto
     ELSE t.upto <= t.start + t.count \/ c.rs[1].size <= t.start + t.count

Waiting(p, c) ==
  LET t == c.task[1]
      w == c.wire[1]
  IN /\ c.error = "NONE" /\ w.start = t.start
     /\ \/ /\ w.kind = "SEARCH" /\ p = "Z3950" /\ c.rs[1].live # 2 /\ w.q = c.q.z /\ t.sent <= 1
           /\ w.count = 0 \/ (w.count = t.count /\ t.start = 0 /\ c.rs[1].sort = <<>>)
           /\ Progress(c)
        \/ /\ w.kind = "SRU" /\ p = "SRU" /\ w.q = c.q.z /\ t.sent <= 1 /\ w.count = t.count
           /\ Progress(c)
        \/ /\ w.kind = "PRESENT" /\ p = "Z3950" /\ c.rs[1].live = 2 /\ t.sent <= 3
           /\ w.count = t.count /\ t.count > 0 /\ t.start + t.count <= c.rs[1].size
           /\ InOrder(c) /\ Progress(c)
        \/ /\ w.kind = "SORT" /\ p = "Z3950" /\ c.rs[1].live = 2 /\ t.sent <= 2 /\ w.q = c.rs[1].order
           /\ t.which = "SEARCH" => Progress(c)
           /\ t.which = "SORT" => t.from = 0 /\ t.upto = 0

Finished(c) ==
  /\ c.wire = <<>> /\ c.rs[1].live # 0 /\ InOrder(c)
  /\ c.last # <<>> /\ c.error = "NONE" =>
       \/ FilledTo(c, c.last[1], c.last[1].upto)
       \/ FilledTo(c, c.last[1], c.rs[1].size)

ClientSafe(p, v, n, c) ==
  /\ c \in Client
  /\ c.calls = 0 => c.rs = <<>>
  /\ c.rs = <<>> => c.task = <<>> /\ c.wire = <<>> /\ c.srv = <<>>
  /\ c.rs # <<>> =>
       /\ Named(p, n, c) /\ Base(p, v, c) /\ AtServer(p, c)
       /\ IF c.task = <<>> THEN Finished(c) ELSE c.wire # <<>> /\ Waiting(p, c)
  /\ c.calls > 0 => \E id \in Identities[n] : c.user = id.user /\ c.group = id.group /\ c.password = id.password

Shrinks(v) == \A a, b \in 1..v : a <= b => Hits[b] <= Hits[a]

CacheInvariant ==
  /\ proto \in Protocols
  /\ version \in 1..Len(Hits) /\ Shrinks(version)
  /\ StoreSafe(proto, version, store)
  /\ clients = [n \in Clients |-> clients[n]]
  /\ \A n \in Clients : ClientSafe(proto, version, n, clients[n])

-----------------------------------------------------------------------------
(***************************************************************************)
(* What the operators do to a client                                       *)
(***************************************************************************)
\* A client whose result set and task are replaced.
With(c, r, t) == [c EXCEPT !.rs[1] = r, !.task[1] = t]
SameButParts(c, d) ==
  /\ d.backend = c.backend /\ d.error = c.error /\ d.user = c.user /\ d.group = c.group
  /\ d.password = c.password /\ d.db = c.db /\ d.q = c.q /\ d.calls = c.calls

LEMMA FirstOf ==
  ASSUME NEW S, NEW s \in Seq(S), s # <<>>
  PROVE  /\ 1 \in DOMAIN s /\ s[1] \in S
         /\ \A e \in S : LET u == [s EXCEPT ![1] = e] IN u \in Seq(S) /\ u # <<>> /\ u[1] = e
<1>1. Len(s) \in Nat /\ Len(s) > 0 /\ DOMAIN s = 1..Len(s) /\ s[1] \in S
  BY EmptySeq, LenProperties, ElementOfSeq
<1>2. ASSUME NEW e \in S PROVE LET u == [s EXCEPT ![1] = e] IN u \in Seq(S) /\ u # <<>> /\ u[1] = e
  <2> DEFINE u == [s EXCEPT ![1] = e]
  <2>1. u \in Seq(S) /\ Len(u) = Len(s)
    BY <1>1, ExceptSeq
  <2>2. u[1] = e
    BY <1>1
  <2>3. u # <<>>
    BY <1>1, <2>1, EmptySeq
  <2> QED BY <2>1, <2>2, <2>3
<1> QED BY <1>1, <1>2

LEMMA WithIs ==
  ASSUME NEW c \in Client, c.rs # <<>>, c.task # <<>>, NEW r \in AResultSet, NEW t \in ATask
  PROVE  LET d == With(c, r, t) IN
         /\ d \in Client /\ SameButParts(c, d)
         /\ d.rs # <<>> /\ d.rs[1] = r /\ d.task # <<>> /\ d.task[1] = t
         /\ d.wire = c.wire /\ d.srv = c.srv /\ d.last = c.last
<1> DEFINE y == [c.rs EXCEPT ![1] = r]
           z == [c.task EXCEPT ![1] = t]
           x == [c EXCEPT !.rs = y, !.task = z]
<1>1. c.rs \in Seq(AResultSet) /\ c.task \in Seq(ATask)
  BY DEF Client
<1>2. y \in Seq(AResultSet) /\ y # <<>> /\ y[1] = r
  BY <1>1, FirstOf
<1>3. z \in Seq(ATask) /\ z # <<>> /\ z[1] = t
  BY <1>1, FirstOf
<1>4. With(c, r, t) = x
  BY DEF With
<1> HIDE DEF y, z
<1>5. x \in Client /\ SameButParts(c, x) /\ x.rs = y /\ x.task = z /\ x.wire = c.wire /\ x.srv = c.srv /\ x.last = c.last
  BY <1>2, <1>3 DEF Client, SameButParts
<1> HIDE DEF x
<1> QED BY <1>2, <1>3, <1>4, <1>5

\* Replacing only one of them.
LEMMA WithOne ==
  ASSUME NEW c \in Client, c.rs # <<>>, c.task # <<>>
  PROVE  /\ \A r : [c EXCEPT !.rs[1] = r] = With(c, r, c.task[1])
         /\ \A t : [c EXCEPT !.task[1] = t] = With(c, c.rs[1], t)
<1>1. c.rs \in Seq(AResultSet) /\ c.task \in Seq(ATask)
  BY DEF Client
<1>2. c.task = [c.task EXCEPT ![1] = c.task[1]]
  <2>1. c.task \in [1..Len(c.task) -> ATask]
    BY <1>1, LenProperties
  <2> QED BY <2>1
<1>3. c.rs = [c.rs EXCEPT ![1] = c.rs[1]]
  <2>1. c.rs \in [1..Len(c.rs) -> AResultSet]
    BY <1>1, LenProperties
  <2> QED BY <2>1
<1>4. ASSUME NEW r PROVE [c EXCEPT !.rs[1] = r] = With(c, r, c.task[1])
  <2> DEFINE y == [c.rs EXCEPT ![1] = r]
  <2>1. [c EXCEPT !.rs = y] = [c EXCEPT !.rs = y, !.task = c.task]
    <3> HIDE DEF y
    <3> QED BY DEF Client
  <2>2. With(c, r, c.task[1]) = [c EXCEPT !.rs = y, !.task = [c.task EXCEPT ![1] = c.task[1]]]
    BY DEF With
  <2> QED BY <1>2, <2>1, <2>2
<1>5. ASSUME NEW t PROVE [c EXCEPT !.task[1] = t] = With(c, c.rs[1], t)
  <2> DEFINE y == [c.task EXCEPT ![1] = t]
  <2>1. [c EXCEPT !.task = y] = [c EXCEPT !.rs = c.rs, !.task = y]
    <3> HIDE DEF y
    <3> QED BY DEF Client
  <2>2. With(c, c.rs[1], t) = [c EXCEPT !.rs = [c.rs EXCEPT ![1] = c.rs[1]], !.task = y]
    BY DEF With
  <2> QED BY <1>3, <2>1, <2>2
<1> QED BY <1>4, <1>5

\* A retrieval that goes on: what holds before records are looked for.
Budget(p, c) ==
  LET s == c.rs[1]
      t == c.task[1]
  IN \/ s.live # 2 /\ t.sent = 0
     \/ s.live = 2 /\ t.sent = 0
     \/ s.live = 2 /\ p = "Z3950" /\ t.sent <= 2
     \/ s.live = 2 /\ t.sent <= 3 /\ (t.count = 0 \/ s.size <= t.start)
     \/ s.live = 2 /\ t.sent <= 1 /\ (t.count = 0 \/ s.size <= t.start)
Steady(p, v, n, c) ==
  /\ c \in Client /\ c.calls > 0 /\ c.error = "NONE" /\ c.wire = <<>>
  /\ c.rs # <<>> /\ c.task # <<>>
  /\ Named(p, n, c) /\ Base(p, v, c) /\ AtServer(p, c) /\ InOrder(c)
  /\ Progress(c)
Ready(p, v, n, c) == Steady(p, v, n, c) /\ Budget(p, c)

Clamped(c) == c.rs[1].live # 0 => c.task[1].count = 0 \/ c.task[1].start + c.task[1].count <= c.rs[1].size

\* What a count in the cache or from the server is.
LEMMA CountsAreNumbers ==
  ASSUME NEW v \in 1..Len(Hits)
  PROVE  RealCounts(v) \subseteq Nat /\ \A set \in ASet : Size(set) \in Nat
<1>1. Hits \in Seq(Nat)
  BY CacheAssumption
<1>2. \A w \in 1..Len(Hits) : Hits[w] \in Nat
  BY <1>1, ElementOfSeq
<1>3. Len(Hits) \in Nat
  BY <1>1, LenProperties
<1>4. \A w \in 1..v : w \in 1..Len(Hits)
  BY <1>3
<1>5. RealCounts(v) \subseteq Nat
  BY <1>2, <1>4 DEF RealCounts
<1>6. \A set \in ASet : Size(set) \in Nat
  BY <1>2 DEF Size, ASet
<1> QED BY <1>5, <1>6

LEMMA PartsOf ==
  ASSUME NEW c \in Client
  PROVE  /\ c.rs # <<>> => c.rs[1] \in AResultSet
         /\ c.task # <<>> => c.task[1] \in ATask
         /\ c.srv # <<>> => c.srv[1] \in ASet
         /\ c.wire # <<>> => c.wire[1] \in ARequest
BY FirstOf DEF Client

\* ZOOM_memcached_search.
LEMMA CountLookedUp ==
  ASSUME NEW p, NEW v \in 1..Len(Hits), NEW n, NEW st, NEW c,
         StoreSafe(p, v, st), Ready(p, v, n, c)
  PROVE  Ready(p, v, n, MemcachedSearch(c, st))
<1> DEFINE s == c.rs[1]
           t == c.task[1]
<1>1. c \in Client /\ c.rs # <<>> /\ c.task # <<>>
  BY DEF Ready, Steady
<1>2. s \in AResultSet /\ t \in ATask
  BY <1>1, PartsOf
<1>3. CASE ~(Uses(c) /\ s.live = 0 /\ Has(st[c.backend].counts, s.key))
  BY <1>3 DEF MemcachedSearch
<1>4. CASE Uses(c) /\ s.live = 0 /\ Has(st[c.backend].counts, s.key)
  <2> DEFINE k == st[c.backend].counts[s.key]
             r == [s EXCEPT !.size = k, !.live = 1]
             d == With(c, r, t)
  <2>1. k \in RealCounts(v) /\ k \in Nat
    <3>1. c.backend \in Backends
      BY <1>1, <1>4 DEF Client, Uses
    <3> QED BY <3>1, <1>4, CountsAreNumbers DEF StoreSafe, Has
  <2>2. r \in AResultSet /\ r.size = k /\ r.live = 1 /\ r.key = s.key /\ r.sort = s.sort /\ r.order = s.order /\ r.cache = s.cache
    <3> HIDE DEF s, k
    <3> QED BY <1>2, <2>1 DEF AResultSet
  <2>3. MemcachedSearch(c, st) = d
    <3>1. [c EXCEPT !.rs[1].size = k, !.rs[1].live = 1] = [c EXCEPT !.rs[1] = r]
      BY <1>1, FirstOf DEF Client
    <3> QED BY <1>1, <1>4, <3>1, WithOne DEF MemcachedSearch
  <2> HIDE DEF r
  <2>4. /\ d \in Client /\ SameButParts(c, d)
        /\ d.rs # <<>> /\ d.rs[1] = r /\ d.task # <<>> /\ d.task[1] = t
        /\ d.wire = c.wire /\ d.srv = c.srv /\ d.last = c.last
    BY <1>1, <1>2, <2>2, WithIs
  <2>5. MemcachedSearch(c, st) = d
    BY <2>3
  <2>6. s.live = 0
    BY <1>4
  <2> HIDE DEF d, k, s, t
  <2>7. /\ Named(p, n, c) /\ Base(p, v, c) /\ AtServer(p, c) /\ InOrder(c) /\ Progress(c) /\ Budget(p, c)
        /\ c.calls > 0 /\ c.error = "NONE" /\ c.wire = <<>>
    BY DEF Ready, Steady
  <2>8. c.rs[1] = s /\ c.task[1] = t
    BY DEF s, t
  <2>9. Named(p, n, d)
    BY <2>2, <2>4, <2>7, <2>8 DEF Named, SameButParts
  <2>10. Base(p, v, d)
    <3>1. \A e \in r.cache : OfTheSet(d, e)
      BY <2>2, <2>4, <2>7, <2>8 DEF Base, OfTheSet, SameButParts
    <3> QED BY <2>1, <2>2, <2>4, <2>6, <2>7, <2>8, <3>1 DEF Base, SameButParts, Uses
  <2>11. AtServer(p, d) /\ InOrder(d)
    BY <2>2, <2>4, <2>6, <2>7, <2>8 DEF AtServer, InOrder, SameButParts
  <2>12. Progress(d)
    <3>1. FilledTo(d, t, t.start)
      BY <2>2, <2>4, <2>7, <2>8 DEF Progress, FilledTo
    <3>2. t.start \in Nat /\ t.count \in Nat /\ t.upto \in Nat
      BY <1>2, <2>8 DEF ATask
    <3>3. t.which = "SEARCH" /\ t.from <= t.start /\ t.start + t.count <= t.upto /\ t.start + t.count = t.upto
      BY <2>6, <2>7, <2>8 DEF Progress
    <3> QED BY <2>2, <2>4, <3>1, <3>2, <3>3 DEF Progress
  <2>13. Budget(p, d)
    BY <2>2, <2>4, <2>6, <2>7, <2>8 DEF Budget
  <2> QED BY <2>4, <2>5, <2>7, <2>9, <2>10, <2>11, <2>12, <2>13 DEF Ready, Steady, SameButParts
<1> QED BY <1>3, <1>4

\* A retrieval goes on when more is at hand and less is asked for.
Further(c, r, t) ==
  LET s == c.rs[1]
      u == c.task[1]
  IN /\ r.key = s.key /\ r.sort = s.sort /\ r.order = s.order /\ r.live = s.live /\ r.size = s.size
     /\ \A e \in s.cache : e.at < u.start => e \in r.cache
     /\ \A e \in r.cache \ s.cache : OfTheSet(c, e)
     /\ t.which = u.which /\ t.from = u.from /\ t.upto = u.upto /\ t.syntax = u.syntax /\ t.sent = u.sent
     /\ u.start <= t.start /\ t.start + t.count <= u.start + u.count
     /\ u.count = 0 => t.count = 0
     /\ \A at \in u.start..(t.start - 1) : \E e \in r.cache : e.at = at /\ e.syntax = u.syntax
     /\ \/ t.start + t.count = u.start + u.count
        \/ s.live # 0 /\ s.size <= t.start + t.count

LEMMA SteadyFurther ==
  ASSUME NEW p, NEW v, NEW n, NEW c, Steady(p, v, n, c),
         NEW r \in AResultSet, NEW t \in ATask, Further(c, r, t)
  PROVE  /\ Steady(p, v, n, With(c, r, t))
         /\ With(c, r, t).rs[1] = r /\ With(c, r, t).task[1] = t
         /\ SameButParts(c, With(c, r, t))
<1> DEFINE s == c.rs[1]
           u == c.task[1]
           d == With(c, r, t)
<1>1. /\ Named(p, n, c) /\ Base(p, v, c) /\ AtServer(p, c) /\ InOrder(c) /\ Progress(c)
      /\ c \in Client /\ c.rs # <<>> /\ c.task # <<>>
      /\ c.calls > 0 /\ c.error = "NONE" /\ c.wire = <<>>
  BY DEF Steady
<1>2. s \in AResultSet /\ u \in ATask
  BY <1>1, PartsOf
<1>3. /\ d \in Client /\ SameButParts(c, d)
      /\ d.rs # <<>> /\ d.rs[1] = r /\ d.task # <<>> /\ d.task[1] = t
      /\ d.wire = c.wire /\ d.srv = c.srv /\ d.last = c.last
  BY <1>1, WithIs
<1>4. c.rs[1] = s /\ c.task[1] = u
  OBVIOUS
<1>5. /\ r.key = s.key /\ r.sort = s.sort /\ r.order = s.order /\ r.live = s.live /\ r.size = s.size
      /\ \A e \in s.cache : e.at < u.start => e \in r.cache
      /\ \A e \in r.cache \ s.cache : OfTheSet(c, e)
      /\ t.which = u.which /\ t.from = u.from /\ t.upto = u.upto /\ t.syntax = u.syntax /\ t.sent = u.sent
      /\ u.start <= t.start /\ t.start + t.count <= u.start + u.count
      /\ u.count = 0 => t.count = 0
      /\ \A at \in u.start..(t.start - 1) : \E e \in r.cache : e.at = at /\ e.syntax = u.syntax
      /\ \/ t.start + t.count = u.start + u.count
         \/ s.live # 0 /\ s.size <= t.start + t.count
  BY DEF Further
<1>6. /\ u.start \in Nat /\ u.count \in Nat /\ u.from \in Nat /\ u.upto \in Nat /\ s.size \in Nat
      /\ t.start \in Nat /\ t.count \in Nat /\ t.from \in Nat /\ t.upto \in Nat /\ u.sent \in Nat
  BY <1>2 DEF ATask, AResultSet
<1> HIDE DEF d, s, u
<1>7. Named(p, n, d)
  BY <1>1, <1>3, <1>4, <1>5 DEF Named, SameButParts
<1>8. Base(p, v, d)
  <2>1. \A e \in r.cache : OfTheSet(c, e)
    BY <1>1, <1>4, <1>5 DEF Base
  <2>2. \A e \in r.cache : OfTheSet(d, e)
    BY <1>3, <1>4, <1>5, <2>1 DEF OfTheSet, SameButParts
  <2> QED BY <1>1, <1>3, <1>4, <1>5, <2>2 DEF Base, SameButParts, Uses
<1>9. AtServer(p, d) /\ InOrder(d)
  BY <1>1, <1>3, <1>4, <1>5 DEF AtServer, InOrder, SameButParts
<1>10. Progress(d)
  <2>1. /\ u.which = "SEARCH" /\ u.from <= u.start /\ u.start + u.count <= u.upto /\ FilledTo(c, u, u.start)
        /\ IF s.live = 0 THEN u.start + u.count = u.upto
           ELSE u.upto <= u.start + u.count \/ s.size <= u.start + u.count
    BY <1>1, <1>4 DEF Progress
  <2>2. ASSUME NEW at \in t.from..(t.start - 1) PROVE \E e \in r.cache : e.at = at /\ e.syntax = t.syntax
    <3>1. CASE at < u.start
      <4>1. at \in u.from..(u.start - 1)
        BY <1>5, <1>6, <3>1
      <4>2. PICK e \in s.cache : e.at = at /\ e.syntax = u.syntax
        BY <1>4, <2>1, <4>1 DEF FilledTo
      <4>3. e \in r.cache
        BY <1>5, <3>1, <4>2
      <4> QED BY <1>5, <4>2, <4>3
    <3>2. CASE u.start <= at
      <4>1. at \in u.start..(t.start - 1)
        BY <1>6, <3>2
      <4> QED BY <1>5, <4>1
    <3> QED BY <1>6, <3>1, <3>2
  <2>3. FilledTo(d, t, t.start)
    BY <1>3, <2>2 DEF FilledTo
  <2>4. /\ t.which = "SEARCH" /\ t.from <= t.start /\ t.start + t.count <= t.upto
        /\ IF r.live = 0 THEN t.start + t.count = t.upto
           ELSE t.upto <= t.start + t.count \/ r.size <= t.start + t.count
    BY <1>5, <1>6, <2>1
  <2> QED BY <1>3, <2>3, <2>4 DEF Progress
<1>11. Steady(p, v, n, d)
  BY <1>1, <1>3, <1>7, <1>8, <1>9, <1>10 DEF Steady, SameButParts
<1> QED BY <1>3, <1>11 DEF d

LEMMA ReadyFurther ==
  ASSUME NEW p, NEW v, NEW n, NEW c, Ready(p, v, n, c),
         NEW r \in AResultSet, NEW t \in ATask, Further(c, r, t)
  PROVE  /\ Ready(p, v, n, With(c, r, t))
         /\ With(c, r, t).rs[1] = r /\ With(c, r, t).task[1] = t
         /\ SameButParts(c, With(c, r, t))
<1> DEFINE s == c.rs[1]
           u == c.task[1]
           d == With(c, r, t)
<1>1. Steady(p, v, n, c) /\ Budget(p, c)
  BY DEF Ready
<1>2. c \in Client /\ c.rs # <<>> /\ c.task # <<>>
  BY <1>1 DEF Steady
<1>3. Steady(p, v, n, d) /\ d.rs[1] = r /\ d.task[1] = t /\ SameButParts(c, d)
  BY <1>1, SteadyFurther
<1> HIDE DEF d
<1>4. c.rs[1] = s /\ c.task[1] = u
  OBVIOUS
<1>5. /\ r.live = s.live /\ r.size = s.size /\ t.sent = u.sent
      /\ u.start <= t.start /\ (u.count = 0 => t.count = 0)
  BY DEF Further
<1>6. u.start \in Nat /\ s.size \in Nat /\ t.start \in Nat
  BY <1>2, PartsOf DEF ATask, AResultSet
<1> HIDE DEF s, u
<1>7. Budget(p, d)
  <2>1. \/ s.live # 2 /\ u.sent = 0
        \/ s.live = 2 /\ u.sent = 0
        \/ s.live = 2 /\ p = "Z3950" /\ u.sent <= 2
        \/ s.live = 2 /\ u.sent <= 3 /\ (u.count = 0 \/ s.size <= u.start)
        \/ s.live = 2 /\ u.sent <= 1 /\ (u.count = 0 \/ s.size <= u.start)
    BY <1>1, <1>4 DEF Budget
  <2>2. u.count = 0 \/ s.size <= u.start => t.count = 0 \/ r.size <= t.start
    BY <1>5, <1>6
  <2>3. \/ r.live # 2 /\ t.sent = 0
        \/ r.live = 2 /\ t.sent = 0
        \/ r.live = 2 /\ p = "Z3950" /\ t.sent <= 2
        \/ r.live = 2 /\ t.sent <= 3 /\ (t.count = 0 \/ r.size <= t.start)
        \/ r.live = 2 /\ t.sent <= 1 /\ (t.count = 0 \/ r.size <= t.start)
    BY <1>5, <2>1, <2>2
  <2> QED BY <1>3, <2>3 DEF Budget
<1> QED BY <1>3, <1>7 DEF Ready, d

\* The range is cut off at the size of the set.
LEMMA RangeClamped ==
  ASSUME NEW p, NEW v, NEW n, NEW c, Ready(p, v, n, c)
  PROVE  Ready(p, v, n, Clamp(c)) /\ Clamped(Clamp(c)) /\ SameButParts(c, Clamp(c))
<1> DEFINE s == c.rs[1]
           u == c.task[1]
           m == IF s.live = 0 THEN u.count
                ELSE IF u.start >= s.size THEN 0 ELSE Least(u.count, s.size - u.start)
           t == [u EXCEPT !.count = m]
           d == With(c, s, t)
<1>1. c \in Client /\ c.rs # <<>> /\ c.task # <<>>
  BY DEF Ready, Steady
<1>2. s \in AResultSet /\ u \in ATask
  BY <1>1, PartsOf
<1>3. u.start \in Nat /\ u.count \in Nat /\ s.size \in Nat
  BY <1>2 DEF ATask, AResultSet
<1>4. /\ m \in Nat /\ m <= u.count
      /\ m = u.count \/ (s.live # 0 /\ s.size <= u.start + m)
      /\ s.live # 0 => m = 0 \/ u.start + m <= s.size
  BY <1>3 DEF Least
<1>5. Clamp(c) = d
  <2>1. Clamp(c) = [c EXCEPT !.task[1].count = m]
    BY DEF Clamp
  <2>2. [c EXCEPT !.task[1].count = m] = [c EXCEPT !.task[1] = t]
    BY <1>1, FirstOf DEF Client
  <2> HIDE DEF t, m, s, u
  <2>3. [c EXCEPT !.task[1] = t] = With(c, c.rs[1], t)
    BY <1>1, WithOne
  <2> QED BY <2>1, <2>2, <2>3 DEF s
<1> HIDE DEF m
<1>6. /\ t \in ATask /\ t.count = m /\ t.which = u.which /\ t.from = u.from /\ t.upto = u.upto
      /\ t.syntax = u.syntax /\ t.sent = u.sent /\ t.start = u.start
  <2> HIDE DEF u
  <2> QED BY <1>2, <1>4 DEF ATask
<1> HIDE DEF t
<1>7. Further(c, s, t)
  <2>1. u.start..(t.start - 1) = {}
    BY <1>3, <1>6
  <2>2. t.start + t.count = u.start + u.count \/ (s.live # 0 /\ s.size <= t.start + t.count)
    BY <1>3, <1>4, <1>6
  <2>3. u.start <= t.start /\ t.start + t.count <= u.start + u.count /\ (u.count = 0 => t.count = 0)
    BY <1>3, <1>4, <1>6
  <2> QED BY <1>6, <2>1, <2>2, <2>3 DEF Further
<1>8. Ready(p, v, n, d) /\ d.rs[1] = s /\ d.task[1] = t /\ SameButParts(c, d)
  BY <1>2, <1>6, <1>7, ReadyFurther
<1> HIDE DEF d
<1>9. Clamped(d)
  BY <1>3, <1>4, <1>6, <1>8 DEF Clamped
<1> QED BY <1>5, <1>8, <1>9

-----------------------------------------------------------------------------
(***************************************************************************)
(* The key of a set says whose it is                                       *)
(***************************************************************************)
LEMMA Strings ==
  /\ STRING \subseteq Str /\ Protocols \subseteq Str
  /\ {NULL, Separator, "z3950", "RPN", "CQL"} \subseteq Str
  /\ \A e \in Str : <<e>> \in Seq(Str)
<1>1. \A e \in Str : <<e>> \in Seq(Str)
  BY SeqClosed
<1> QED BY <1>1 DEF Str

\* What stands before the first separator is determined.
LEMMA SplitsAtSeparator ==
  ASSUME NEW a \in Seq(Str), NEW b \in Seq(Str), NEW x \in Seq(Str), NEW y \in Seq(Str),
         NoSeparator(a), NoSeparator(b), a \o (<<Separator>> \o x) = b \o (<<Separator>> \o y)
  PROVE  a = b /\ x = y
<1> DEFINE u == <<Separator>> \o x
           w == <<Separator>> \o y
<1>1. /\ u \in Seq(Str) /\ Len(u) = 1 + Len(x) /\ u[1] = Separator /\ \A i \in 1..Len(x) : u[i + 1] = x[i]
      /\ w \in Seq(Str) /\ Len(w) = 1 + Len(y) /\ w[1] = Separator /\ \A i \in 1..Len(y) : w[i + 1] = y[i]
  <2>1. \A z \in Seq(Str) : /\ <<Separator>> \o z \in Seq(Str) /\ Len(<<Separator>> \o z) = 1 + Len(z)
                               /\ (<<Separator>> \o z)[1] = Separator
                               /\ \A i \in 1..Len(z) : (<<Separator>> \o z)[i + 1] = z[i]
    <3> TAKE z \in Seq(Str)
    <3>1. <<Separator>> \in Seq(Str) /\ Len(<<Separator>>) = 1 /\ <<Separator>>[1] = Separator /\ Len(z) \in Nat
      BY LenProperties, Strings
    <3>2. /\ <<Separator>> \o z \in Seq(Str) /\ Len(<<Separator>> \o z) = 1 + Len(z)
          /\ \A i \in 1..1 : (<<Separator>> \o z)[i] = <<Separator>>[i]
          /\ \A i \in (1 + 1)..(1 + Len(z)) : (<<Separator>> \o z)[i] = z[i - 1]
      <4>1. \A i \in 1..(1 + Len(z)) : (<<Separator>> \o z)[i] = IF i <= 1 THEN <<Separator>>[i] ELSE z[i - 1]
        BY <3>1, ConcatProperties
      <4> QED BY <3>1, <4>1, ConcatProperties
    <3>3. ASSUME NEW i \in 1..Len(z) PROVE (<<Separator>> \o z)[i + 1] = z[i]
      <4>1. i + 1 \in (1 + 1)..(1 + Len(z)) /\ (i + 1) - 1 = i
        BY <3>1
      <4> QED BY <3>2, <4>1
    <3>4. (<<Separator>> \o z)[1] = Separator
      BY <3>1, <3>2
    <3> QED BY <3>2, <3>3, <3>4
  <2> QED BY <2>1
<1>2. Len(a) \in Nat /\ Len(b) \in Nat /\ Len(x) \in Nat /\ Len(y) \in Nat
  BY LenProperties
<1>3. a \o u = b \o w
  OBVIOUS
<1> HIDE DEF u, w
<1>4. /\ Len(a \o u) = Len(a) + Len(u)
      /\ \A i \in 1..(Len(a) + Len(u)) : (a \o u)[i] = IF i <= Len(a) THEN a[i] ELSE u[i - Len(a)]
  <2>1. u \in Seq(Str)
    BY <1>1
  <2> QED BY ONLY <2>1, a \in Seq(Str), ConcatProperties
<1>5. /\ Len(b \o w) = Len(b) + Len(w)
      /\ \A i \in 1..(Len(b) + Len(w)) : (b \o w)[i] = IF i <= Len(b) THEN b[i] ELSE w[i - Len(b)]
  <2>1. w \in Seq(Str)
    BY <1>1
  <2> QED BY ONLY <2>1, b \in Seq(Str), ConcatProperties
<1>6. Len(a) + Len(u) = Len(b) + Len(w)
  BY <1>3, <1>4, <1>5
<1>7. ~(Len(a) < Len(b))
  <2> SUFFICES ASSUME Len(a) < Len(b) PROVE FALSE
    OBVIOUS
  <2> DEFINE i == Len(a) + 1
  <2>1. i \in 1..(Len(a) + Len(u)) /\ i \in 1..(Len(b) + Len(w)) /\ ~(i <= Len(a)) /\ i - Len(a) = 1 /\ i <= Len(b) /\ i \in 1..Len(b)
    BY <1>1, <1>2
  <2> HIDE DEF i
  <2>2. (a \o u)[i] = u[i - Len(a)]
    BY <1>4, <2>1
  <2>3. (b \o w)[i] = b[i]
    BY <1>5, <2>1
  <2> QED BY <1>1, <1>3, <2>1, <2>2, <2>3 DEF NoSeparator
<1>8. ~(Len(b) < Len(a))
  <2> SUFFICES ASSUME Len(b) < Len(a) PROVE FALSE
    OBVIOUS
  <2> DEFINE i == Len(b) + 1
  <2>1. i \in 1..(Len(a) + Len(u)) /\ i \in 1..(Len(b) + Len(w)) /\ ~(i <= Len(b)) /\ i - Len(b) = 1 /\ i <= Len(a) /\ i \in 1..Len(a)
    BY <1>1, <1>2
  <2> HIDE DEF i
  <2>2. (b \o w)[i] = w[i - Len(b)]
    BY <1>5, <2>1
  <2>3. (a \o u)[i] = a[i]
    BY <1>4, <2>1
  <2> QED BY <1>1, <1>3, <2>1, <2>2, <2>3 DEF NoSeparator
<1>9. Len(a) = Len(b) /\ Len(u) = Len(w) /\ Len(x) = Len(y)
  BY <1>1, <1>2, <1>6, <1>7, <1>8
<1>10. ASSUME NEW i \in 1..Len(a) PROVE a[i] = b[i]
  <2>1. i \in 1..(Len(a) + Len(u)) /\ i \in 1..(Len(b) + Len(w)) /\ i <= Len(a) /\ i <= Len(b)
    BY <1>1, <1>2, <1>9
  <2>2. (a \o u)[i] = a[i] /\ (b \o w)[i] = b[i]
    BY <1>4, <1>5, <2>1
  <2> QED BY <1>3, <2>2
<1>11. ASSUME NEW i \in 1..Len(x) PROVE x[i] = y[i]
  <2> DEFINE k == Len(a) + 1 + i
  <2>1. /\ k \in 1..(Len(a) + Len(u)) /\ k \in 1..(Len(b) + Len(w)) /\ ~(k <= Len(a)) /\ ~(k <= Len(b))
        /\ k - Len(a) = i + 1 /\ k - Len(b) = i + 1 /\ i \in 1..Len(y)
    BY <1>1, <1>2, <1>9
  <2> HIDE DEF k
  <2>2. (a \o u)[k] = u[i + 1]
    BY <1>4, <2>1
  <2>3. (b \o w)[k] = w[i + 1]
    BY <1>5, <2>1
  <2> QED BY <1>1, <1>3, <2>1, <2>2, <2>3
<1>12. a = b
  BY <1>9, <1>10, SeqEqual
<1>13. x = y
  BY <1>9, <1>11, SeqEqual
<1> QED BY <1>12, <1>13

\* A key with its parts taken together from the right.
LEMMA KeyParts ==
  ASSUME NEW p \in Str, NEW id \in Identity, NEW q \in Query
  PROVE  /\ QueryHash(q) \in Seq(Str)
         /\ KeyFor(p, id, q) \in Seq(Str)
         /\ KeyFor(p, id, q) =
              <<p, Separator>> \o (id.user \o (<<Separator>> \o (id.group \o (<<Separator>> \o (id.password \o (<<Separator>> \o QueryHash(q)))))))
<1> DEFINE U == id.user
           G == id.group
           P == id.password
           H == QueryHash(q)
           S == <<Separator>>
           A == <<p, Separator>>
<1>1. U \in Seq(Str) /\ G \in Seq(Str) /\ P \in Seq(Str)
  BY DEF Identity
<1>2. S \in Seq(Str) /\ A \in Seq(Str)
  <2>1. S \in Seq(Str) /\ <<p>> \in Seq(Str)
    BY Strings
  <2>2. A = <<p>> \o S
    OBVIOUS
  <2> HIDE DEF S, A
  <2> QED BY <2>1, <2>2, SeqClosed
<1>3. H \in Seq(Str)
  <2>1. q.type \in Str /\ q.string \in Str /\ q.strategy \in Str /\ q.sort \in Seq(Criterion)
    BY Strings DEF Query
  <2>2. <<q.type, q.string, q.strategy>> \in Seq(Str)
    BY <2>1
  <2>3. (IF q.sort = <<>> THEN <<>> ELSE <<q.sort[1].name>>) \in Seq(Str)
    <3>1. q.sort # <<>> => q.sort[1] \in Criterion
      BY <2>1, FirstOf
    <3>2. q.sort # <<>> => q.sort[1].name \in Str
      BY <3>1, Strings DEF Criterion
    <3> QED BY <3>2, EmptySeq
  <2> QED BY <2>2, <2>3, ConcatProperties DEF QueryHash
<1>4. KeyFor(p, id, q) = A \o U \o S \o G \o S \o P \o S \o H
  BY DEF KeyFor
<1> DEFINE B1 == A \o U
           B2 == B1 \o S
           B3 == B2 \o G
           B4 == B3 \o S
           B5 == B4 \o P
           B6 == B5 \o S
           C1 == S \o H
           C2 == P \o C1
           C3 == S \o C2
           C4 == G \o C3
           C5 == S \o C4
           C6 == U \o C5
<1>5. KeyFor(p, id, q) = B6 \o H
  BY <1>4
<1> HIDE DEF U, G, P, H, S, A, B1, B2, B3, B4, B5, B6, C1, C2, C3, C4, C5, C6
<1>6. \A a, b \in Seq(Str) : a \o b \in Seq(Str)
  BY ConcatProperties
<1>7. \A a, b, e \in Seq(Str) : (a \o b) \o e = a \o (b \o e)
  BY ConcatAssociative
<1>8. B1 \in Seq(Str) /\ C1 \in Seq(Str)
  BY <1>1, <1>2, <1>3, <1>6 DEF B1, C1
<1>9. B2 \in Seq(Str) /\ C2 \in Seq(Str)
  BY <1>1, <1>2, <1>6, <1>8 DEF B2, C2
<1>10. B3 \in Seq(Str) /\ C3 \in Seq(Str)
  BY <1>1, <1>2, <1>6, <1>9 DEF B3, C3
<1>11. B4 \in Seq(Str) /\ C4 \in Seq(Str)
  BY <1>1, <1>2, <1>6, <1>10 DEF B4, C4
<1>12. B5 \in Seq(Str) /\ C5 \in Seq(Str)
  <2>1. B5 \in Seq(Str)
    BY ONLY <1>1, <1>6, <1>11 DEF B5
  <2>2. C5 \in Seq(Str)
    BY ONLY <1>2, <1>6, <1>11 DEF C5
  <2> QED BY <2>1, <2>2
<1>13. B6 \o H = B5 \o C1
  <2>1. B5 \in Seq(Str)
    BY <1>12
  <2>2. (B5 \o S) \o H = B5 \o (S \o H)
    BY ONLY <1>2, <1>3, <2>1, ConcatAssociative
  <2> QED BY <2>2 DEF B6, C1
<1>14. B5 \o C1 = B4 \o C2
  <2>1. B4 \in Seq(Str)
    BY <1>1, <1>8, <1>11
  <2>2. P \in Seq(Str)
    BY <1>1, <1>8, <1>11
  <2>3. C1 \in Seq(Str)
    BY <1>1, <1>8, <1>11
  <2>4. (B4 \o P) \o C1 = B4 \o (P \o C1)
    BY ONLY <2>1, <2>2, <2>3, ConcatAssociative
  <2> QED BY <2>4 DEF B5, C2
<1>15. B4 \o C2 = B3 \o C3
  <2>1. B3 \in Seq(Str)
    BY <1>2, <1>9, <1>10
  <2>2. S \in Seq(Str)
    BY <1>2, <1>9, <1>10
  <2>3. C2 \in Seq(Str)
    BY <1>2, <1>9, <1>10
  <2>4. (B3 \o S) \o C2 = B3 \o (S \o C2)
    BY ONLY <2>1, <2>2, <2>3, ConcatAssociative
  <2> QED BY <2>4 DEF B4, C3
<1>16. B3 \o C3 = B2 \o C4
  <2>1. B2 \in Seq(Str)
    BY <1>1, <1>9, <1>10
  <2>2. G \in Seq(Str)
    BY <1>1, <1>9, <1>10
  <2>3. C3 \in Seq(Str)
    BY <1>1, <1>9, <1>10
  <2>4. (B2 \o G) \o C3 = B2 \o (G \o C3)
    BY ONLY <2>1, <2>2, <2>3, ConcatAssociative
  <2> QED BY <2>4 DEF B3, C4
<1>17. B2 \o C4 = B1 \o C5
  <2>1. B1 \in Seq(Str)
    BY <1>2, <1>8, <1>11
  <2>2. S \in Seq(Str)
    BY <1>2, <1>8, <1>11
  <2>3. C4 \in Seq(Str)
    BY <1>2, <1>8, <1>11
  <2>4. (B1 \o S) \o C4 = B1 \o (S \o C4)
    BY ONLY <2>1, <2>2, <2>3, ConcatAssociative
  <2> QED BY <2>4 DEF B2, C5
<1>18. B1 \o C5 = A \o C6
  <2>1. A \in Seq(Str)
    BY <1>1, <1>2, <1>12
  <2>2. U \in Seq(Str)
    BY <1>1, <1>2, <1>12
  <2>3. C5 \in Seq(Str)
    BY <1>1, <1>2, <1>12
  <2>4. (A \o U) \o C5 = A \o (U \o C5)
    BY ONLY <2>1, <2>2, <2>3, ConcatAssociative
  <2> QED BY <2>4 DEF B1, C6
<1>19. KeyFor(p, id, q) = A \o C6
  BY <1>5, <1>13, <1>14, <1>15, <1>16, <1>17, <1>18
<1>20. A \o C6 \in Seq(Str)
  <2>1. C6 \in Seq(Str)
    BY <1>1, <1>6, <1>12 DEF C6
  <2> QED BY <1>2, <1>6, <2>1
<1>21. KeyFor(p, id, q) = <<p, Separator>> \o (id.user \o (<<Separator>> \o (id.group \o (<<Separator>> \o (id.password \o (<<Separator>> \o QueryHash(q)))))))
  BY <1>19 DEF U, G, P, H, S, A, C1, C2, C3, C4, C5, C6
<1> QED BY <1>3, <1>19, <1>20, <1>21 DEF H

\* Two sets with one key: the identities are equal, and so are the queries
\* as far as their hash goes.
LEMMA KeyTells ==
  ASSUME NEW p \in Protocols, NEW i \in Identity, NEW j \in Identity, NEW q \in Query, NEW r \in Query,
         NoSeparator(i.user), NoSeparator(i.group), NoSeparator(i.password),
         NoSeparator(j.user), NoSeparator(j.group), NoSeparator(j.password),
         KeyFor(p, i, q) = KeyFor(p, j, r)
  PROVE  i.user = j.user /\ i.group = j.group /\ i.password = j.password /\ QueryHash(q) = QueryHash(r)
<1> DEFINE S == <<Separator>>
           a1 == S \o QueryHash(q)
           a2 == S \o (i.password \o a1)
           a3 == S \o (i.group \o a2)
           b1 == S \o QueryHash(r)
           b2 == S \o (j.password \o b1)
           b3 == S \o (j.group \o b2)
<1>1. /\ i.user \in Seq(Str) /\ i.group \in Seq(Str) /\ i.password \in Seq(Str)
      /\ j.user \in Seq(Str) /\ j.group \in Seq(Str) /\ j.password \in Seq(Str)
  BY DEF Identity
<1>2. p \in Str /\ QueryHash(q) \in Seq(Str) /\ QueryHash(r) \in Seq(Str) /\ S \in Seq(Str) /\ <<p>> \in Seq(Str)
  BY Strings, KeyParts
<1>3. \A x, y \in Seq(Str) : x \o y \in Seq(Str)
  BY ConcatProperties
<1>4. <<p, Separator>> \o (i.user \o a3) = <<p, Separator>> \o (j.user \o b3)
  <2>1. KeyFor(p, i, q) = <<p, Separator>> \o (i.user \o a3)
    BY <1>2, KeyParts
  <2>2. KeyFor(p, j, r) = <<p, Separator>> \o (j.user \o b3)
    BY <1>2, KeyParts
  <2> HIDE DEF a3, b3
  <2> QED BY <2>1, <2>2
<1>5. <<p, Separator>> = <<p>> \o S
  OBVIOUS
<1>6. NoSeparator(<<p>>)
  <2>1. p # Separator
    BY Zenon DEF Protocols, Separator
  <2> QED BY <2>1 DEF NoSeparator
<1> HIDE DEF S
<1>7. i.password \o a1 \in Seq(Str) /\ j.password \o b1 \in Seq(Str)
  BY <1>1, <1>2, <1>3
<1>8. i.group \o a2 \in Seq(Str) /\ j.group \o b2 \in Seq(Str)
  BY <1>1, <1>2, <1>3, <1>7
<1>9. i.user \o a3 \in Seq(Str) /\ j.user \o b3 \in Seq(Str)
  BY <1>1, <1>2, <1>3, <1>8
<1>10. i.user \o a3 = j.user \o b3
  <2> DEFINE x == i.user \o a3
             y == j.user \o b3
  <2>1. (<<p>> \o S) \o x = (<<p>> \o S) \o y
    BY <1>4, <1>5
  <2>2. x \in Seq(Str) /\ y \in Seq(Str)
    BY <1>9
  <2> HIDE DEF x, y
  <2>3. (<<p>> \o S) \o x = <<p>> \o (S \o x)
    BY ONLY <1>2, <2>2, ConcatAssociative
  <2>4. (<<p>> \o S) \o y = <<p>> \o (S \o y)
    BY ONLY <1>2, <2>2, ConcatAssociative
  <2>5. x = y
    BY <1>2, <1>6, <2>1, <2>2, <2>3, <2>4, SplitsAtSeparator DEF S
  <2> QED BY <2>5 DEF x, y
<1>11. i.user = j.user /\ i.group \o a2 = j.group \o b2
  <2> DEFINE x == i.group \o a2
             y == j.group \o b2
  <2>1. i.user \o (S \o x) = j.user \o (S \o y)
    BY <1>10
  <2>2. x \in Seq(Str) /\ y \in Seq(Str)
    BY <1>2, <1>7, <1>8
  <2> HIDE DEF x, y
  <2> DEFINE a == i.user
             b == j.user
  <2>3. a \in Seq(Str) /\ b \in Seq(Str) /\ NoSeparator(a) /\ NoSeparator(b)
    BY <1>1
  <2>4. a \o (S \o x) = b \o (S \o y)
    BY <2>1
  <2> HIDE DEF a, b
  <2>5. a = b /\ x = y
    BY ONLY <2>2, <2>3, <2>4, SplitsAtSeparator DEF S
  <2> QED BY <2>5 DEF x, y, a, b
<1>12. i.group = j.group /\ i.password \o a1 = j.password \o b1
  <2> DEFINE x == i.password \o a1
             y == j.password \o b1
  <2>1. i.group \o (S \o x) = j.group \o (S \o y)
    BY <1>11
  <2>2. x \in Seq(Str) /\ y \in Seq(Str)
    BY <1>2, <1>7, <1>8
  <2> HIDE DEF x, y
  <2> DEFINE a == i.group
             b == j.group
  <2>3. a \in Seq(Str) /\ b \in Seq(Str) /\ NoSeparator(a) /\ NoSeparator(b)
    BY <1>1
  <2>4. a \o (S \o x) = b \o (S \o y)
    BY <2>1
  <2> HIDE DEF a, b
  <2>5. a = b /\ x = y
    BY ONLY <2>2, <2>3, <2>4, SplitsAtSeparator DEF S
  <2> QED BY <2>5 DEF x, y, a, b
<1>13. i.password = j.password /\ QueryHash(q) = QueryHash(r)
  <2> DEFINE x == QueryHash(q)
             y == QueryHash(r)
  <2>1. i.password \o (S \o x) = j.password \o (S \o y)
    BY <1>12
  <2>2. x \in Seq(Str) /\ y \in Seq(Str)
    BY <1>2, <1>7, <1>8
  <2> HIDE DEF x, y
  <2> DEFINE a == i.password
             b == j.password
  <2>3. a \in Seq(Str) /\ b \in Seq(Str) /\ NoSeparator(a) /\ NoSeparator(b)
    BY <1>1
  <2>4. a \o (S \o x) = b \o (S \o y)
    BY <2>1
  <2> HIDE DEF a, b
  <2>5. a = b /\ x = y
    BY ONLY <2>2, <2>3, <2>4, SplitsAtSeparator DEF S
  <2> QED BY <2>5 DEF x, y, a, b
<1> QED BY <1>11, <1>12, <1>13

LEMMA HashTells ==
  ASSUME NEW q \in Query, NEW r \in Query, QueryHash(q) = QueryHash(r)
  PROVE  /\ q.type = r.type /\ q.string = r.string /\ q.strategy = r.strategy
         /\ q.sort = <<>> <=> r.sort = <<>>
         /\ q.sort # <<>> => q.sort[1].name = r.sort[1].name
<1> DEFINE Head3(x) == <<x.type, x.string, x.strategy>>
           Rest(x) == IF x.sort = <<>> THEN <<>> ELSE <<x.sort[1].name>>
<1>1. ASSUME NEW x \in Query
      PROVE  /\ QueryHash(x) = Head3(x) \o Rest(x)
             /\ Len(QueryHash(x)) = IF x.sort = <<>> THEN 3 ELSE 4
             /\ QueryHash(x)[1] = x.type /\ QueryHash(x)[2] = x.string /\ QueryHash(x)[3] = x.strategy
             /\ x.sort # <<>> => QueryHash(x)[4] = x.sort[1].name
  <2>1. CASE x.sort = <<>>
    <3>1. QueryHash(x) = <<x.type, x.string, x.strategy>> \o <<>>
      BY <2>1 DEF QueryHash
    <3>2. QueryHash(x) = <<x.type, x.string, x.strategy>>
      BY <3>1
    <3> QED BY <2>1, <3>1, <3>2
  <2>2. CASE x.sort # <<>>
    <3>1. QueryHash(x) = <<x.type, x.string, x.strategy>> \o <<x.sort[1].name>>
      BY <2>2 DEF QueryHash
    <3> DEFINE h == <<x.type, x.string, x.strategy>>
               k == <<x.sort[1].name>>
    <3>2. x.type \in Str /\ x.string \in Str /\ x.strategy \in Str /\ x.sort[1].name \in Str
      <4>1. x.sort \in Seq(Criterion)
        BY DEF Query
      <4>2. x.sort[1] \in Criterion
        BY <2>2, <4>1, FirstOf
      <4> QED BY <4>2, Strings DEF Query, Criterion
    <3>3. h \in Seq(Str) /\ k \in Seq(Str) /\ Len(h) = 3 /\ Len(k) = 1
      BY <3>2
    <3>4. h[1] = x.type /\ h[2] = x.string /\ h[3] = x.strategy /\ k[1] = x.sort[1].name
      OBVIOUS
    <3>5. QueryHash(x) = h \o k
      BY <3>1
    <3> HIDE DEF h, k
    <3>6. Len(h \o k) = 4 /\ \A m \in 1..4 : (h \o k)[m] = IF m <= 3 THEN h[m] ELSE k[m - 3]
      <4>1. Len(h \o k) = Len(h) + Len(k) /\ \A m \in 1..(Len(h) + Len(k)) : (h \o k)[m] = IF m <= Len(h) THEN h[m] ELSE k[m - Len(h)]
        BY ONLY <3>3, ConcatProperties
      <4> QED BY <3>3, <4>1
    <3>7. (h \o k)[1] = h[1] /\ (h \o k)[2] = h[2] /\ (h \o k)[3] = h[3] /\ (h \o k)[4] = k[1]
      BY <3>6
    <3> QED BY <2>2, <3>1, <3>4, <3>5, <3>6, <3>7
  <2> QED BY <2>1, <2>2
<1>2. Len(QueryHash(q)) = Len(QueryHash(r))
  OBVIOUS
<1> HIDE DEF Head3, Rest
<1>3. q.sort = <<>> <=> r.sort = <<>>
  <2> DEFINE a == q.sort = <<>>
             b == r.sort = <<>>
  <2>1. (a => Len(QueryHash(q)) = 3) /\ (~a => Len(QueryHash(q)) = 4)
    BY <1>1
  <2>2. (b => Len(QueryHash(r)) = 3) /\ (~b => Len(QueryHash(r)) = 4)
    BY <1>1
  <2> HIDE DEF a, b
  <2>3. a <=> b
    BY <1>2, <2>1, <2>2
  <2> QED BY <2>3 DEF a, b
<1>4. q.type = r.type /\ q.string = r.string /\ q.strategy = r.strategy
  BY <1>1
<1>5. q.sort # <<>> => q.sort[1].name = r.sort[1].name
  BY <1>1, <1>3
<1> QED BY <1>3, <1>4, <1>5

-----------------------------------------------------------------------------
(***************************************************************************)
(* The calls that make a query                                             *)
(***************************************************************************)
SortsBySru(q) == q.strategy \in {"sru11", "solr"}
Answers == [q : Query, ret : Int]

\* generate: a query that is generated carries its text and its sort.
LEMMA GenerateIs ==
  ASSUME NEW q \in Query
  PROVE  /\ Generate(q) \in Answers
         /\ LET g == Generate(q).q IN
            /\ g.strategy = q.strategy /\ g.sort = q.sort /\ g.type = q.type /\ g.string = q.string
            /\ q.string = NULL => g = q
            /\ q.string # NULL /\ Generate(q).ret = 0 =>
                 /\ g.z = <<FullQuery(g)>> /\ ~g.stale
                 /\ g.sru11 = IF q.sort # <<>> /\ SortsBySru(q) THEN q.sort ELSE q.sru11
<1> DEFINE sru == SortsBySru(q)
           k == IF q.sort = <<>> \/ ~sru THEN q.sru11 ELSE IF SortFails(q) THEN <<>> ELSE q.sort
           b == q.z # <<>>
           old == [q EXCEPT !.stale = b, !.sru11 = k]
           saysSort == sru \/ (q.type = "CQL" /\ q.strategy \in {"cql", "embed"})
           text == FullQuery(q)
           g0 == [old EXCEPT !.z = <<>>, !.stale = FALSE]
           g1 == [old EXCEPT !.z = <<text>>, !.stale = FALSE]
<1>1. Generate(q) = IF q.string = NULL THEN [q |-> q, ret |-> 0]
                    ELSE IF SortFails(q) /\ saysSort THEN [q |-> old, ret |-> -1]
                    ELSE IF q.type = "RPN" /\ q.string = BadQuery THEN [q |-> g0, ret |-> -1]
                    ELSE [q |-> g1, ret |-> 0]
  BY DEF Generate, Generated, SortsBySru
<1>2. k \in Seq(Criterion) /\ <<>> \in Seq(Text) /\ text \in Text /\ <<text>> \in Seq(Text)
  <2>1. <<>> \in Seq(Criterion) /\ <<>> \in Seq(Text) /\ q.sort \in Seq(Criterion) /\ q.sru11 \in Seq(Criterion) /\ q.string \in Str
    BY SeqClosed DEF Query
  <2>2. text \in Text
    <3>1. ASSUME NEW e \in Seq(Criterion) PROVE QueryText(q.string, e) \in Text
      BY <2>1 DEF QueryText, Text
    <3>2. text = QueryText(q.string, q.sort) \/ text = QueryText(q.string, <<>>)
      BY DEF FullQuery
    <3> HIDE DEF text
    <3> QED BY <2>1, <3>1, <3>2
  <2>3. <<text>> \in Seq(Text)
    BY <2>2, SeqClosed
  <2>4. k \in Seq(Criterion)
    BY <2>1
  <2> QED BY <2>1, <2>2, <2>3, <2>4
<1>3. b \in BOOLEAN
  OBVIOUS
<1>4. sru \in BOOLEAN /\ SortFails(q) /\ sru /\ q.sort # <<>> => saysSort
  BY DEF SortsBySru
<1>5. ~(SortFails(q) /\ saysSort) => k = IF q.sort # <<>> /\ sru THEN q.sort ELSE q.sru11
  BY <1>4 DEF SortsBySru
<1> HIDE DEF k, b, text
<1>6. /\ old \in Query /\ old.strategy = q.strategy /\ old.sort = q.sort /\ old.type = q.type /\ old.string = q.string
      /\ old.sru11 = k
  BY <1>2, <1>3 DEF Query
<1> HIDE DEF old
<1>7. /\ g0 \in Query /\ g0.strategy = q.strategy /\ g0.sort = q.sort /\ g0.type = q.type /\ g0.string = q.string
  BY <1>2, <1>6 DEF Query
<1>8. /\ g1 \in Query /\ g1.strategy = q.strategy /\ g1.sort = q.sort /\ g1.type = q.type /\ g1.string = q.string
      /\ g1.sru11 = k /\ g1.z = <<text>> /\ ~g1.stale
  BY <1>2, <1>6 DEF Query
<1> HIDE DEF g0, g1
<1>9. FullQuery(g1) = text
  BY <1>8 DEF FullQuery, text
<1> HIDE DEF saysSort, sru
<1>10. CASE q.string = NULL
  <2>1. Generate(q) = [q |-> q, ret |-> 0]
    BY <1>1, <1>10
  <2> QED BY <1>10, <2>1 DEF Answers
<1>11. CASE q.string # NULL /\ SortFails(q) /\ saysSort
  <2>1. Generate(q) = [q |-> old, ret |-> -1]
    BY <1>1, <1>11
  <2> QED BY <1>6, <1>11, <2>1 DEF Answers
<1>12. CASE q.string # NULL /\ ~(SortFails(q) /\ saysSort) /\ q.type = "RPN" /\ q.string = BadQuery
  <2>1. Generate(q) = [q |-> g0, ret |-> -1]
    BY <1>1, <1>12
  <2> QED BY <1>7, <1>12, <2>1 DEF Answers
<1>13. CASE q.string # NULL /\ ~(SortFails(q) /\ saysSort) /\ ~(q.type = "RPN" /\ q.string = BadQuery)
  <2>1. Generate(q) = [q |-> g1, ret |-> 0]
    BY <1>1, <1>13
  <2>2. g1.sru11 = IF q.sort # <<>> /\ SortsBySru(q) THEN q.sort ELSE q.sru11
    BY <1>5, <1>8, <1>13 DEF sru
  <2> QED BY <1>8, <1>9, <1>13, <2>1, <2>2 DEF Answers
<1> QED BY <1>10, <1>11, <1>12, <1>13

\* A query half made: what a script has got so far.
HalfMade(s, q) ==
  /\ q \in Query /\ ~q.stale /\ q.strategy \in Strategies
  /\ IF q.string = NULL THEN q.z = <<>> ELSE q.z = <<FullQuery(q)>>
  /\ q.sru11 = IF q.string # NULL /\ q.sort # <<>> /\ SortsBySru(q) THEN q.sort ELSE <<>>
  /\ q.sort # <<>> => \E i \in 1..Len(s) : s[i].op = "sortby" /\ s[i].arg = q.sort /\ s[i].with = q.strategy

LEMMA CallTypes ==
  ASSUME NEW s \in Scripts, NEW i \in 1..Len(s)
  PROVE  /\ s[i].op \in Asks => s[i].arg \in Str /\ s[i].arg # NULL
         /\ s[i].op \notin Asks => s[i].op = "sortby" /\ s[i].arg \in Seq(Criterion)
         /\ s[i].with \in Str /\ s \in Seq(Call)
<1>1. s \in Seq(Call)
  BY CacheAssumption
<1>2. s[i] \in Call
  BY <1>1, ElementOfSeq
<1>3. "sortby" \notin Asks
  BY DEF Asks
<1> QED BY <1>1, <1>2, <1>3, Strings DEF Call

\* A call that sets the query.
LEMMA AskCall ==
  ASSUME NEW s \in Scripts, NEW q, NEW str \in Str, NEW ty \in {"RPN", "CQL"}, q \in Query
  PROVE  LET a == Generate([q EXCEPT !.string = str, !.type = ty]) IN
         /\ a \in Answers
         /\ HalfMade(s, q) /\ a.ret = 0 /\ str # NULL => HalfMade(s, a.q) /\ a.q.string # NULL
<1> DEFINE x == [q EXCEPT !.string = str, !.type = ty]
           a == Generate(x)
<1>1. x \in Query /\ x.string = str /\ x.type = ty /\ x.z = q.z /\ x.stale = q.stale /\ x.strategy = q.strategy
      /\ x.sort = q.sort /\ x.sru11 = q.sru11
  BY DEF Query
<1> HIDE DEF x
<1>2. a \in Answers
  BY <1>1, GenerateIs
<1>3. ASSUME HalfMade(s, q), a.ret = 0, str # NULL PROVE HalfMade(s, a.q) /\ a.q.string # NULL
  <2> DEFINE g == a.q
  <2>1. /\ g.strategy = x.strategy /\ g.sort = x.sort /\ g.type = x.type /\ g.string = x.string
        /\ g.z = <<FullQuery(g)>> /\ ~g.stale
        /\ g.sru11 = IF x.sort # <<>> /\ SortsBySru(x) THEN x.sort ELSE x.sru11
    BY <1>1, <1>3, GenerateIs
  <2>2. g \in Query
    BY <1>2 DEF Answers
  <2> HIDE DEF g
  <2>3. SortsBySru(g) = SortsBySru(q) /\ SortsBySru(x) = SortsBySru(q)
    BY <1>1, <2>1 DEF SortsBySru
  <2>4. g.sru11 = IF g.sort # <<>> /\ SortsBySru(g) THEN g.sort ELSE <<>>
    BY <1>1, <1>3, <2>1, <2>3 DEF HalfMade
  <2>5. g.sort # <<>> => \E i \in 1..Len(s) : s[i].op = "sortby" /\ s[i].arg = g.sort /\ s[i].with = g.strategy
    BY <1>1, <1>3, <2>1 DEF HalfMade
  <2>6. HalfMade(s, g) /\ g.string # NULL
    <3>1. g.strategy \in Strategies
      BY <1>1, <1>3, <2>1 DEF HalfMade
    <3> QED BY <1>1, <1>3, <2>1, <2>2, <2>4, <2>5, <3>1 DEF HalfMade
  <2> QED BY <2>6 DEF g
<1> HIDE DEF a
<1> QED BY <1>2, <1>3 DEF a, x

\* A call that says how to sort.
LEMMA SortCall ==
  ASSUME NEW s \in Scripts, NEW q \in Query, NEW i \in 1..Len(s), s[i].op = "sortby", QueriesMade
  PROVE  LET a == QuerySortBy(q, s[i].with, s[i].arg) IN
         /\ a \in Answers
         /\ HalfMade(s, q) /\ a.ret = 0 => HalfMade(s, a.q) /\ (q.string # NULL => a.q.string # NULL)
<1> DEFINE st == s[i].with
           cr == s[i].arg
           a == QuerySortBy(q, st, cr)
           x == [q EXCEPT !.strategy = st, !.sort = cr]
           y == [q EXCEPT !.strategy = st, !.sort = <<>>]
<1>1. st \in Str /\ cr \in Seq(Criterion) /\ <<>> \in Seq(Criterion)
  <2>1. s[i].op \notin Asks
    BY DEF Asks
  <2> QED BY <2>1, CallTypes, SeqClosed
<1>2. a = IF st \notin Strategies THEN [q |-> q, ret |-> -1]
          ELSE IF cr = <<>> THEN [q |-> y, ret |-> -2] ELSE Generate(x)
  BY DEF QuerySortBy, Strategies
<1>3. s[i].op = "sortby" /\ s[i].arg = cr /\ s[i].with = st
  OBVIOUS
<1> HIDE DEF st, cr
<1>4. x \in Query /\ x.string = q.string /\ x.type = q.type /\ x.z = q.z /\ x.stale = q.stale /\ x.strategy = st
      /\ x.sort = cr /\ x.sru11 = q.sru11
  BY <1>1 DEF Query
<1>5. y \in Query
  BY <1>1 DEF Query
<1> HIDE DEF x, y
<1>6. a \in Answers
  <2>1. Generate(x) \in Answers
    BY <1>4, GenerateIs
  <2> QED BY <1>2, <1>5, <2>1 DEF Answers
<1>7. ASSUME HalfMade(s, q), a.ret = 0 PROVE HalfMade(s, a.q) /\ (q.string # NULL => a.q.string # NULL)
  <2> DEFINE g == a.q
  <2>1. a = Generate(x) /\ cr # <<>> /\ st \in Strategies
    <3>1. CASE st \notin Strategies
      <4>1. a = [q |-> q, ret |-> -1]
        BY <1>2, <3>1
      <4> QED BY <1>7, <4>1
    <3>2. CASE st \in Strategies /\ cr = <<>>
      <4>1. a = [q |-> y, ret |-> -2]
        BY <1>2, <3>2
      <4> QED BY <1>7, <4>1
    <3> QED BY <1>2, <3>1, <3>2
  <2> HIDE DEF a
  <2>2. /\ g.strategy = x.strategy /\ g.sort = x.sort /\ g.type = x.type /\ g.string = x.string
        /\ x.string = NULL => g = x
        /\ x.string # NULL =>
             /\ g.z = <<FullQuery(g)>> /\ ~g.stale
             /\ g.sru11 = IF x.sort # <<>> /\ SortsBySru(x) THEN x.sort ELSE x.sru11
    BY <1>4, <1>7, <2>1, GenerateIs
  <2>3. g \in Query
    BY <1>6 DEF Answers
  <2> HIDE DEF g
  <2>4. q.sort # <<>> => q.strategy = st
    <3>1. q.sort # <<>> => \E k \in 1..Len(s) : s[k].op = "sortby" /\ s[k].with = q.strategy
      BY <1>7 DEF HalfMade
    <3> QED BY <1>3, <3>1 DEF QueriesMade
  <2>5. ~SortsBySru(x) => q.sru11 = <<>>
    BY <1>4, <1>7, <2>4 DEF HalfMade, SortsBySru
  <2>6. q.string = NULL => q.sru11 = <<>> /\ q.z = <<>> /\ ~q.stale
    BY <1>7 DEF HalfMade
  <2>7. SortsBySru(g) = SortsBySru(x)
    BY <2>2 DEF SortsBySru
  <2>8. \E k \in 1..Len(s) : s[k].op = "sortby" /\ s[k].arg = g.sort /\ s[k].with = g.strategy
    BY <1>3, <1>4, <2>2
  <2>9. HalfMade(s, g)
    <3>0. g.strategy \in Strategies
      BY <1>4, <2>1, <2>2
    <3>1. CASE x.string = NULL
      <4>1. g.z = <<>> /\ ~g.stale /\ g.sru11 = <<>> /\ g.string = NULL
        BY <1>4, <2>2, <2>6, <3>1
      <4> QED BY <2>3, <2>8, <3>0, <4>1 DEF HalfMade
    <3>2. CASE x.string # NULL
      <4>1. g.sru11 = IF g.sort # <<>> /\ SortsBySru(g) THEN g.sort ELSE <<>>
        BY <1>4, <2>1, <2>2, <2>5, <2>7, <3>2
      <4>2. g.string # NULL
        BY <2>2, <3>2
      <4> QED BY <2>2, <2>3, <2>8, <3>0, <3>2, <4>1, <4>2 DEF HalfMade
    <3> QED BY <3>1, <3>2
  <2>10. q.string # NULL => g.string # NULL
    BY <1>4, <2>2
  <2> QED BY <2>9, <2>10 DEF g
<1> HIDE DEF a
<1> QED BY <1>6, <1>7 DEF a, st, cr

\* One call of an application, on a query half made.
StepMade(s, q, i, a) ==
  /\ a \in Answers
  /\ HalfMade(s, q) /\ a.ret = 0 =>
       HalfMade(s, a.q) /\ (q.string # NULL \/ s[i].op \in Asks => a.q.string # NULL)

LEMMA FailedStep ==
  ASSUME NEW s, NEW i, NEW q \in Query
  PROVE  StepMade(s, q, i, [q |-> q, ret |-> -1])
BY DEF StepMade, Answers

LEMMA PrefixStep ==
  ASSUME NEW s \in Scripts, NEW i, NEW q \in Query, NEW str \in Str, str # NULL, NEW ty \in {"RPN", "CQL"}
  PROVE  StepMade(s, q, i, Generate([q EXCEPT !.string = str, !.type = ty]))
<1> DEFINE a == Generate([q EXCEPT !.string = str, !.type = ty])
<1>1. a \in Answers /\ (HalfMade(s, q) /\ a.ret = 0 /\ str # NULL => HalfMade(s, a.q) /\ a.q.string # NULL)
  BY AskCall
<1> HIDE DEF a
<1>2. StepMade(s, q, i, a)
  BY <1>1 DEF StepMade
<1> QED BY <1>2 DEF a

LEMMA QueryStep ==
  ASSUME NEW s \in Scripts, NEW q \in Query, NEW i \in 1..Len(s), QueriesMade
  PROVE  StepMade(s, q, i, QueryCall(q, s[i]))
<1> DEFINE call == s[i]
           arg == call.arg
           op == call.op
<1>1. /\ op \in Asks => arg \in Str /\ arg # NULL
      /\ op \notin Asks => op = "sortby"
  BY CallTypes
<1>2. op = "prefix" => QueryCall(q, call) = QueryPrefix(q, arg)
  BY Zenon DEF QueryCall
<1>3. op = "cql" => QueryCall(q, call) = QueryCql(q, arg)
  BY Zenon DEF QueryCall
<1>4. op = "cql2rpn" => QueryCall(q, call) = QueryCql2Rpn(q, arg, call.with)
  BY Zenon DEF QueryCall
<1>5. op = "ccl2rpn" => QueryCall(q, call) = QueryCcl2Rpn(q, arg)
  BY Zenon DEF QueryCall
<1>6. op = "sortby" => QueryCall(q, call) = QuerySortBy(q, call.with, arg)
  BY Zenon DEF QueryCall
<1>7. op \in {"prefix", "cql", "cql2rpn", "ccl2rpn", "sortby"}
  BY <1>1 DEF Asks
<1>8. {"prefix", "cql", "cql2rpn", "ccl2rpn"} \subseteq Asks /\ "sortby" \notin Asks
  BY DEF Asks
<1> HIDE DEF arg, op, call
<1>9. CASE op = "prefix"
  <2>1. arg \in Str /\ arg # NULL /\ QueryCall(q, call) = Generate([q EXCEPT !.string = arg, !.type = "RPN"])
    BY <1>1, <1>2, <1>8, <1>9 DEF QueryPrefix
  <2>2. StepMade(s, q, i, Generate([q EXCEPT !.string = arg, !.type = "RPN"]))
    BY <2>1, PrefixStep
  <2> QED BY <2>1, <2>2 DEF call
<1>10. CASE op = "cql"
  <2>1. arg \in Str /\ arg # NULL /\ QueryCall(q, call) = Generate([q EXCEPT !.string = arg, !.type = "CQL"])
    BY <1>1, <1>3, <1>8, <1>10 DEF QueryCql
  <2>2. StepMade(s, q, i, Generate([q EXCEPT !.string = arg, !.type = "CQL"]))
    BY <2>1, PrefixStep
  <2> QED BY <2>1, <2>2 DEF call
<1>11. CASE op = "cql2rpn"
  <2> DEFINE t == Cql2Pqf(arg, call.with)
  <2>1. arg \in Str /\ arg # NULL /\ QueryCall(q, call) = QueryCql2Rpn(q, arg, call.with)
    BY <1>1, <1>4, <1>8, <1>11
  <2>2. t.rpn = <<>> \/ t.rpn = <<arg>>
    <3>1. arg = BadQuery => t = [rpn |-> <<>>, error |-> "CQL_PARSE"]
      BY Zenon DEF Cql2Pqf
    <3>2. arg # BadQuery /\ call.with # "ok" => t = [rpn |-> <<>>, error |-> "CQL_TRANSFORM"]
      BY Zenon DEF Cql2Pqf
    <3>3. arg # BadQuery /\ call.with = "ok" => t = [rpn |-> <<arg>>, error |-> "NONE"]
      BY Zenon DEF Cql2Pqf
    <3> HIDE DEF t
    <3> QED BY <3>1, <3>2, <3>3
  <2>3. QueryCql2Rpn(q, arg, call.with) = IF t.rpn = <<>> THEN [q |-> q, ret |-> -1] ELSE QueryPrefix(q, t.rpn[1])
    BY DEF QueryCql2Rpn
  <2> HIDE DEF t
  <2>4. CASE t.rpn = <<>>
    <3>1. QueryCall(q, call) = [q |-> q, ret |-> -1]
      BY <2>1, <2>3, <2>4
    <3> QED BY <3>1, FailedStep DEF call
  <2>5. CASE t.rpn # <<>>
    <3>1. t.rpn[1] = arg
      BY <2>2, <2>5
    <3>2. QueryCall(q, call) = Generate([q EXCEPT !.string = arg, !.type = "RPN"])
      BY <2>1, <2>3, <2>5, <3>1 DEF QueryPrefix
    <3>3. StepMade(s, q, i, Generate([q EXCEPT !.string = arg, !.type = "RPN"]))
      BY <2>1, PrefixStep
    <3> QED BY <3>2, <3>3 DEF call
  <2> QED BY <2>4, <2>5
<1>12. CASE op = "ccl2rpn"
  <2>1. arg \in Str /\ arg # NULL /\ QueryCall(q, call) = QueryCcl2Rpn(q, arg)
    BY <1>1, <1>5, <1>8, <1>12
  <2>2. StepMade(s, q, i, Generate([q EXCEPT !.string = arg, !.type = "RPN"]))
    BY <2>1, PrefixStep
  <2>3. StepMade(s, q, i, [q |-> q, ret |-> -1])
    BY FailedStep
  <2>4. QueryCall(q, call) = [q |-> q, ret |-> -1] \/ QueryCall(q, call) = Generate([q EXCEPT !.string = arg, !.type = "RPN"])
    BY <2>1 DEF QueryCcl2Rpn, QueryPrefix
  <2> QED BY <2>2, <2>3, <2>4 DEF call
<1>13. CASE op = "sortby"
  <2> DEFINE a == QuerySortBy(q, s[i].with, s[i].arg)
  <2>1. QueryCall(q, s[i]) = a
    BY <1>6, <1>13 DEF call, arg
  <2>2. a \in Answers /\ (HalfMade(s, q) /\ a.ret = 0 => HalfMade(s, a.q) /\ (q.string # NULL => a.q.string # NULL))
    BY <1>13, SortCall DEF op, call
  <2>3. s[i].op \notin Asks
    BY <1>8, <1>13 DEF op, call
  <2> HIDE DEF a
  <2> QED BY <2>1, <2>2, <2>3 DEF StepMade
<1> QED BY <1>7, <1>9, <1>10, <1>11, <1>12, <1>13

\* The queries that the scripts make, call by call.
MakesBy(s, f) ==
  /\ f[0] = [q |-> QueryCreate, ret |-> 0]
  /\ \A i \in 1..Len(s) : f[i] = IF f[i - 1].ret # 0 THEN f[i - 1] ELSE QueryCall(f[i - 1].q, s[i])
  /\ Made[s] = f[Len(s)]

LEMMA Created ==
  ASSUME NEW s
  PROVE  QueryCreate \in Query /\ [q |-> QueryCreate, ret |-> 0] \in Answers /\ HalfMade(s, QueryCreate)
<1>1. <<>> \in Seq(Text) /\ <<>> \in Seq(Criterion)
  BY SeqClosed
<1>2. {"z3950", NULL} \subseteq Str
  BY Strings
<1>3. QueryCreate \in Query
  BY <1>1, <1>2 DEF QueryCreate, Query
<1>4. QueryCreate.strategy \in Strategies /\ QueryCreate.sort = <<>> /\ QueryCreate.sru11 = <<>> /\ QueryCreate.z = <<>> /\ QueryCreate.string = NULL /\ ~QueryCreate.stale
  BY DEF QueryCreate, Strategies
<1> QED BY <1>3, <1>4 DEF Answers, HalfMade

LEMMA MadeIs ==
  ASSUME NEW s \in Scripts, QueriesMade
  PROVE  \E f : MakesBy(s, f)
<1> DEFINE N == Len(s)
           a == [q |-> QueryCreate, ret |-> 0]
           G == [x \in Answers \X Nat |->
                   IF x[1].ret # 0 \/ x[2] \notin 1..N THEN x[1] ELSE QueryCall(x[1].q, s[x[2]])]
           Body(f) == [i \in 0..Len(s) |->
                         IF i = 0 THEN [q |-> QueryCreate, ret |-> 0]
                         ELSE IF f[i - 1].ret # 0 THEN f[i - 1] ELSE QueryCall(f[i - 1].q, s[i])]
           g == CHOOSE f : f = Body(f)
<1>0. N \in Nat
  <2>1. s \in Seq(Call)
    BY CacheAssumption
  <2> QED BY <2>1, LenProperties
<1>1. a \in Answers
  BY Created
<1>2. \A x \in Answers : x.q \in Query
  BY DEF Answers
<1>3. \A q \in Query, i \in 1..N : QueryCall(q, s[i]) \in Answers
  BY QueryStep DEF StepMade
<1>4. G \in [Answers \X Nat -> Answers]
  <2>1. ASSUME NEW x \in Answers \X Nat
        PROVE  (IF x[1].ret # 0 \/ x[2] \notin 1..N THEN x[1] ELSE QueryCall(x[1].q, s[x[2]])) \in Answers
    <3>1. x[1] \in Answers
      OBVIOUS
    <3> HIDE DEF N
    <3> QED BY <1>2, <1>3, <3>1
  <2> QED BY <2>1
<1>5. PICK f \in [0..N -> Answers] : \A k \in 0..N : f[k] = IF k = 0 THEN a ELSE G[<<f[k - 1], k>>]
  <2> HIDE DEF G, a, N
  <2>1. \E f \in [0..N -> Answers] : ByRecursion(f, N, a, G)
    BY <1>0, <1>1, <1>4, RecursionExists
  <2> QED BY <2>1 DEF ByRecursion
<1>6. ASSUME NEW k \in 0..N, k # 0
      PROVE  G[<<f[k - 1], k>>] = IF f[k - 1].ret # 0 THEN f[k - 1] ELSE QueryCall(f[k - 1].q, s[k])
  <2>1. k - 1 \in 0..N /\ k \in Nat /\ k \in 1..N
    BY <1>0, <1>6
  <2>2. f[k - 1] \in Answers
    BY <1>5, <2>1
  <2>3. <<f[k - 1], k>> \in Answers \X Nat
    BY <2>1, <2>2
  <2>4. <<f[k - 1], k>>[1] = f[k - 1] /\ <<f[k - 1], k>>[2] = k
    OBVIOUS
  <2> HIDE DEF N
  <2> QED BY <1>6, <2>1, <2>3, <2>4
<1>7. \E x : x = Body(x)
  <2> HIDE DEF G
  <2>1. \A i \in 0..N : f[i] = IF i = 0 THEN a ELSE IF f[i - 1].ret # 0 THEN f[i - 1] ELSE QueryCall(f[i - 1].q, s[i])
    <3> HIDE DEF a
    <3> QED BY <1>5, <1>6
  <2>2. f = [i \in 0..N |-> IF i = 0 THEN a ELSE IF f[i - 1].ret # 0 THEN f[i - 1] ELSE QueryCall(f[i - 1].q, s[i])]
    <3> HIDE DEF a
    <3> QED BY <1>5, <2>1
  <2>3. f = Body(f)
    BY <2>2
  <2> QED BY <2>3
<1>8. g = Body(g)
  <2> HIDE DEF Body
  <2> QED BY <1>7
<1>9. Made[s] = g[Len(s)]
  BY DEF Made
<1> HIDE DEF g
<1>10. 0 \in 0..N /\ \A i \in 1..N : i \in 0..N /\ i # 0
  BY <1>0
<1>11. g[0] = a
  BY <1>8, <1>10
<1>12. \A i \in 1..N : g[i] = IF g[i - 1].ret # 0 THEN g[i - 1] ELSE QueryCall(g[i - 1].q, s[i])
  BY <1>8, <1>10
<1> QED BY <1>9, <1>11, <1>12 DEF MakesBy

\* A query that the calls of a script have made.
LEMMA QueriesAre ==
  ASSUME NEW s \in Scripts, QueriesMade, Made[s].ret = 0
  PROVE  /\ Whole(Made[s].q)
         /\ Made[s].q.sort # <<>> =>
              \E i \in 1..Len(s) : s[i].op = "sortby" /\ s[i].arg = Made[s].q.sort
<1>1. PICK f : MakesBy(s, f)
  BY MadeIs
<1>2. /\ f[0] = [q |-> QueryCreate, ret |-> 0]
      /\ \A i \in 1..Len(s) : f[i] = IF f[i - 1].ret # 0 THEN f[i - 1] ELSE QueryCall(f[i - 1].q, s[i])
      /\ Made[s] = f[Len(s)]
  BY <1>1 DEF MakesBy
<1>3. Len(s) \in Nat
  <2>1. s \in Seq(Call)
    BY CacheAssumption
  <2> QED BY <2>1, LenProperties
<1> DEFINE Good(i) == /\ f[i] \in Answers
                      /\ f[i].ret = 0 => HalfMade(s, f[i].q)
                      /\ f[i].ret = 0 /\ (\E k \in 1..i : s[k].op \in Asks) => f[i].q.string # NULL
           S == {i \in Nat : i <= Len(s) => Good(i)}
<1>4. 0 \in S
  <2>1. f[0] \in Answers /\ HalfMade(s, f[0].q)
    BY <1>2, Created
  <2>2. 1..0 = {}
    OBVIOUS
  <2> QED BY <2>1, <2>2
<1>5. ASSUME NEW i \in Nat, i \in S PROVE i + 1 \in S
  <2> SUFFICES ASSUME i + 1 <= Len(s) PROVE Good(i + 1)
    OBVIOUS
  <2>1. i <= Len(s) /\ i + 1 \in 1..Len(s) /\ (i + 1) - 1 = i
    BY <1>3
  <2>2. Good(i)
    BY <1>5, <2>1
  <2>3. f[i + 1] = IF f[i].ret # 0 THEN f[i] ELSE QueryCall(f[i].q, s[i + 1])
    BY <1>2, <2>1
  <2>4. CASE f[i].ret # 0
    BY <2>2, <2>3, <2>4
  <2>5. CASE f[i].ret = 0
    <3>1. f[i].q \in Query
      BY <2>2 DEF Answers
    <3>2. StepMade(s, f[i].q, i + 1, f[i + 1])
      <4>1. f[i + 1] = QueryCall(f[i].q, s[i + 1])
        BY <2>3, <2>5
      <4>2. StepMade(s, f[i].q, i + 1, QueryCall(f[i].q, s[i + 1]))
        <5> DEFINE j == i + 1
        <5>1. j \in 1..Len(s)
          BY <2>1
        <5> HIDE DEF j
        <5>2. StepMade(s, f[i].q, j, QueryCall(f[i].q, s[j]))
          BY <3>1, <5>1, QueryStep
        <5> QED BY <5>2 DEF j
      <4> QED BY <4>1, <4>2
    <3>3. /\ f[i + 1] \in Answers
          /\ f[i + 1].ret = 0 =>
               /\ HalfMade(s, f[i + 1].q)
               /\ f[i].q.string # NULL \/ s[i + 1].op \in Asks => f[i + 1].q.string # NULL
      BY <2>2, <2>5, <3>2 DEF StepMade
    <3>4. (\E k \in 1..(i + 1) : s[k].op \in Asks) => s[i + 1].op \in Asks \/ \E k \in 1..i : s[k].op \in Asks
      <4>1. \A k \in 1..(i + 1) : k = i + 1 \/ k \in 1..i
        OBVIOUS
      <4> QED BY <4>1
    <3> QED BY <2>2, <2>5, <3>3, <3>4
  <2> QED BY <2>4, <2>5
<1>6. Len(s) \in S
  <2> HIDE DEF S
  <2>1. Nat \subseteq S
    BY <1>4, <1>5, SetInduction
  <2> QED BY <1>3, <2>1
<1>7. Good(Len(s))
  BY <1>3, <1>6
<1> DEFINE q == Made[s].q
<1>8. HalfMade(s, q) /\ q.string # NULL
  <2>1. \E k \in 1..Len(s) : s[k].op \in Asks
    BY DEF QueriesMade
  <2> QED BY <1>2, <1>7, <2>1
<1> HIDE DEF q
<1>9. Whole(q)
  BY <1>8 DEF HalfMade, Whole, SortsBySru
<1>10. q.sort # <<>> => \E i \in 1..Len(s) : s[i].op = "sortby" /\ s[i].arg = q.sort
  BY <1>8 DEF HalfMade
<1> QED BY <1>9, <1>10 DEF q

-----------------------------------------------------------------------------
(***************************************************************************)
(* A set that is kept under the key of a client is the client's            *)
(***************************************************************************)
LEMMA IdentitiesAre ==
  ASSUME NEW n \in Clients, NEW id \in Identities[n]
  PROVE  id \in Identity
<1>1. id \in [user : Seq(STRING), group : Seq(STRING), password : Seq(STRING)]
  BY CacheAssumption
<1>2. Seq(STRING) \subseteq Seq(Str)
  <2>1. ASSUME NEW x \in Seq(STRING) PROVE x \in Seq(Str)
    <3>1. x \in [1..Len(x) -> STRING] /\ Len(x) \in Nat
      BY LenProperties
    <3>2. x \in [1..Len(x) -> Str]
      <4>1. STRING \subseteq Str
        BY Strings
      <4> QED BY <3>1, <4>1
    <3> QED BY <3>1, <3>2
  <2> QED BY <2>1
<1> QED BY <1>1, <1>2 DEF Identity

LEMMA SortsAlike ==
  ASSUME NEW p, NEW q, NEW r, q.type = r.type, q.strategy = r.strategy, q.sort = r.sort
  PROVE  SortFor(p, q) = SortFor(p, r)
<1> DEFINE F(st, ty, so) ==
      IF CASE st = "z3950" -> p = "Z3950"
           [] st = "type7" -> ty = "RPN"
           [] st = "cql" -> ty = "CQL"
           [] st = "embed" -> TRUE
           [] OTHER -> p = "SRU"
      THEN so ELSE <<>>
<1>1. SortFor(p, q) = F(q.strategy, q.type, q.sort) /\ SortFor(p, r) = F(r.strategy, r.type, r.sort)
  BY Zenon DEF SortFor
<1> HIDE DEF F
<1> QED BY <1>1

\* What makes a set the client's.
SetIs(p, c, set) ==
  /\ set.text = c.q.string /\ set.sorts = SortFor(p, c.q)
  /\ set.user = <<c.user, c.group, c.password>>

LEMMA KeptIsOurs ==
  ASSUME KeysApart, QueriesMade, NEW p \in Protocols, NEW n \in Clients, NEW c,
         Named(p, n, c), NEW set, Keeps(p, c.rs[1].key, set)
  PROVE  SetIs(p, c, set)
<1>1. PICK id \in Identities[n], s \in Scripts :
        /\ Made[s].ret = 0 /\ c.q = Made[s].q
        /\ c.user = id.user /\ c.group = id.group /\ c.password = id.password
        /\ c.rs[1].key = KeyFor(p, id, c.q)
  BY DEF Named
<1>2. PICK m \in Clients : \E id2 \in Identities[m], s2 \in Scripts :
        Made[s2].ret = 0 /\ c.rs[1].key = KeyFor(p, id2, Made[s2].q) /\ SetOf(p, id2, Made[s2].q, set)
  BY DEF Keeps
<1>3. PICK id2 \in Identities[m], s2 \in Scripts :
        Made[s2].ret = 0 /\ c.rs[1].key = KeyFor(p, id2, Made[s2].q) /\ SetOf(p, id2, Made[s2].q, set)
  BY <1>2
<1> DEFINE q == Made[s].q
           r == Made[s2].q
<1>4. id \in Identity /\ id2 \in Identity
  BY IdentitiesAre
<1>5. /\ NoSeparator(id.user) /\ NoSeparator(id.group) /\ NoSeparator(id.password)
      /\ NoSeparator(id2.user) /\ NoSeparator(id2.group) /\ NoSeparator(id2.password)
  BY DEF KeysApart
<1>6. q \in Query /\ (q.sort # <<>> => \E i \in 1..Len(s) : s[i].op = "sortby" /\ s[i].arg = q.sort)
  BY <1>1, QueriesAre DEF Whole
<1>7. r \in Query /\ (r.sort # <<>> => \E i \in 1..Len(s2) : s2[i].op = "sortby" /\ s2[i].arg = r.sort)
  BY <1>3, QueriesAre DEF Whole
<1>8. KeyFor(p, id, q) = KeyFor(p, id2, r) /\ c.q = q /\ SetOf(p, id2, r, set)
  BY <1>1, <1>3
<1> HIDE DEF q, r
<1>9. id.user = id2.user /\ id.group = id2.group /\ id.password = id2.password /\ QueryHash(q) = QueryHash(r)
  BY <1>4, <1>5, <1>6, <1>7, <1>8, KeyTells
<1>10. /\ q.type = r.type /\ q.string = r.string /\ q.strategy = r.strategy
       /\ q.sort = <<>> <=> r.sort = <<>>
       /\ q.sort # <<>> => q.sort[1].name = r.sort[1].name
  BY <1>6, <1>7, <1>9, HashTells
<1>11. q.sort = r.sort
  <2>1. CASE q.sort = <<>>
    BY <1>10, <2>1
  <2>2. CASE q.sort # <<>>
    <3>1. PICK i \in 1..Len(s) : s[i].op = "sortby" /\ s[i].arg = q.sort
      BY <1>6, <2>2
    <3>2. PICK j \in 1..Len(s2) : s2[j].op = "sortby" /\ s2[j].arg = r.sort
      BY <1>7, <1>10, <2>2
    <3> QED BY <1>10, <2>2, <3>1, <3>2 DEF KeysApart
  <2> QED BY <2>1, <2>2
<1>12. SortFor(p, q) = SortFor(p, r)
  BY <1>10, <1>11, SortsAlike
<1> QED BY <1>1, <1>8, <1>9, <1>10, <1>12 DEF SetOf, SetIs

\* The converse: a client's set may be kept under the client's key.
LEMMA OursMayBeKept ==
  ASSUME NEW p, NEW n \in Clients, NEW c, Named(p, n, c), NEW set, SetIs(p, c, set)
  PROVE  Keeps(p, c.rs[1].key, set)
<1>1. PICK id \in Identities[n], s \in Scripts :
        /\ Made[s].ret = 0 /\ c.q = Made[s].q
        /\ c.user = id.user /\ c.group = id.group /\ c.password = id.password
        /\ c.rs[1].key = KeyFor(p, id, c.q)
  BY DEF Named
<1>2. SetOf(p, id, Made[s].q, set)
  BY <1>1 DEF SetOf, SetIs
<1> QED BY <1>1, <1>2 DEF Keeps

LEMMA NamedIs ==
  ASSUME QueriesMade, NEW p, NEW n \in Clients, NEW c, Named(p, n, c)
  PROVE  Whole(c.q) /\ c.db \in Databases
BY QueriesAre DEF Named

-----------------------------------------------------------------------------
(***************************************************************************)
(* Records that are at hand, in the result set or in the cache             *)
(***************************************************************************)
\* A record that is found is one of the client's set.
Fits(c, at, r) ==
  LET e == Entry(c, at, r) IN
  /\ e \in AnEntry /\ OfTheSet(c, e) /\ e.at = at /\ e.syntax = c.task[1].syntax

LEMMA LookedUp ==
  ASSUME KeysApart, QueriesMade, NEW p \in Protocols, NEW v, NEW n \in Clients, NEW st, StoreSafe(p, v, st),
         NEW c \in Client, c.rs # <<>>, c.task # <<>>, Named(p, n, c), Base(p, v, c),
         NEW at \in Nat, NEW r \in Lookup(c, st, at)
  PROVE  Fits(c, at, r)
<1> DEFINE syn == c.task[1].syntax
           e == Entry(c, at, r)
<1>1. c.rs[1] \in AResultSet /\ c.task[1] \in ATask
  BY PartsOf
<1>2. syn \in Syntax
  BY <1>1 DEF ATask
<1>3. e = [at |-> at, syntax |-> syn, rec |-> r]
  BY DEF Entry
<1>4. CASE r \in Cached(c, at)
  <2>1. PICK x \in c.rs[1].cache : x.at = at /\ x.syntax = syn /\ r = x.rec
    BY <1>4 DEF Cached
  <2>2. x \in AnEntry /\ OfTheSet(c, x)
    BY <1>1, <2>1 DEF AResultSet, Base
  <2> HIDE DEF syn, e
  <2>3. e \in AnEntry
    BY <1>2, <1>3, <2>2, <2>1 DEF AnEntry
  <2>4. OfTheSet(c, e)
    BY <1>3, <2>1, <2>2 DEF OfTheSet
  <2> QED BY <1>3, <2>3, <2>4 DEF Fits, syn, e
<1>5. CASE r \in MemcachedLookup(c, st, at)
  <2> DEFINE k == RecordKey(c, at)
             ix == st[c.backend].index
  <2>1. Uses(c) /\ k \in DOMAIN ix /\ r = ix[k]
    BY <1>5 DEF MemcachedLookup, Has
  <2>2. k[1] = c.rs[1].key /\ k[2] = at /\ k[3] = syn
    BY DEF RecordKey
  <2>3. c.backend \in Backends
    BY <2>1 DEF Uses, Client
  <2>4. r \in ARecord /\ r.pos = at /\ r.syntax = syn /\ r.set.db \in Databases /\ Keeps(p, c.rs[1].key, r.set)
    BY <2>1, <2>2, <2>3 DEF StoreSafe
  <2>5. SetIs(p, c, r.set)
    BY <2>4, KeptIsOurs
  <2>6. c.rs[1].order = SortFor(p, c.q)
    BY <2>1 DEF Base
  <2>7. r.set.db = c.db
    <3>1. c.db \in Databases
      BY DEF Named
    <3> QED BY <2>4, <3>1 DEF KeysApart
  <2> HIDE DEF syn, e, k, ix
  <2>8. e \in AnEntry
    BY <1>2, <1>3, <2>4 DEF AnEntry
  <2>9. OfTheSet(c, e)
    BY <1>3, <2>4, <2>5, <2>6, <2>7 DEF OfTheSet, SetIs
  <2> QED BY <1>3, <2>8, <2>9 DEF Fits, syn, e
<1> QED BY <1>4, <1>5 DEF Lookup

\* The highest member of a set of numbers up to a bound.
LEMMA HighestIs ==
  ASSUME NEW n \in Nat, NEW S, S \subseteq 1..n
  PROVE  LET h == Highest(S) IN h \in 0..n /\ (h = 0 \/ h \in S)
<1>1. CASE S = {}
  BY <1>1 DEF Highest
<1>2. CASE S # {}
  <2> DEFINE T == {n - x : x \in S}
  <2>0. \A x \in S : x \in 1..n /\ n - x \in Nat
    OBVIOUS
  <2>1. T \subseteq Nat /\ T # {}
    BY <1>2, <2>0
  <2>2. PICK m \in T : \A y \in T : m <= y
    BY <2>1, LeastElement
  <2>3. PICK x \in S : m = n - x
    BY <2>2
  <2>4. ASSUME NEW y \in S PROVE y <= x
    <3>1. n - x <= n - y
      BY <2>2, <2>3
    <3>2. x \in 1..n /\ y \in 1..n
      OBVIOUS
    <3> QED BY <3>1, <3>2
  <2>5. \E z \in S : \A y \in S : y <= z
    BY <2>4
  <2>6. (CHOOSE z \in S : \A y \in S : y <= z) \in S
    BY <2>5
  <2>7. Highest(S) \in S
    BY <1>2, <2>6 DEF Highest
  <2>8. Highest(S) \in 1..n
    BY <2>7
  <2> QED BY <2>7, <2>8
<1> QED BY <1>1, <1>2

\* A retrieval passes over the records at hand.
LEMMA RangeSkipped ==
  ASSUME KeysApart, QueriesMade, NEW p \in Protocols, NEW v, NEW n \in Clients, NEW st, StoreSafe(p, v, st),
         NEW c, Ready(p, v, n, c)
  PROVE  /\ Ready(p, v, n, Skip(c, st)) /\ SameButParts(c, Skip(c, st))
         /\ Clamped(c) => Clamped(Skip(c, st))
<1> DEFINE s == c.rs[1]
           u == c.task[1]
           S == {m \in 1..u.count : \A k \in 0..(m - 1) : Lookup(c, st, u.start + k) # {}}
           i == Highest(S)
           more == UNION {{Entry(c, u.start + k, r) : r \in Lookup(c, st, u.start + k)} : k \in 0..(i - 1)}
           r1 == [s EXCEPT !.cache = @ \cup more]
           t1 == [u EXCEPT !.start = @ + i, !.count = @ - i]
           d == With(c, r1, t1)
<1>1. c \in Client /\ c.rs # <<>> /\ c.task # <<>> /\ Named(p, n, c) /\ Base(p, v, c)
  BY DEF Ready, Steady
<1>2. s \in AResultSet /\ u \in ATask
  BY <1>1, PartsOf
<1>3. u.start \in Nat /\ u.count \in Nat
  BY <1>2 DEF ATask
<1>4. i \in 0..u.count /\ (i = 0 \/ i \in S)
  <2>1. S \subseteq 1..u.count
    OBVIOUS
  <2> HIDE DEF S
  <2> QED BY <1>3, <2>1, HighestIs
<1> HIDE DEF i
<1>5. \A k \in 0..(i - 1) : Lookup(c, st, u.start + k) # {}
  <2>1. CASE i = 0
    BY <2>1
  <2>2. CASE i \in S
    BY <2>2
  <2> QED BY <1>4, <2>1, <2>2
<1>6. \A k \in 0..(i - 1) : k \in Nat /\ u.start + k \in Nat
  BY <1>3, <1>4
<1>7. \A at \in Nat : \A r \in Lookup(c, st, at) : Fits(c, at, r)
  BY <1>1, LookedUp
<1>8. \A e \in more : e \in AnEntry /\ OfTheSet(c, e)
  <2> SUFFICES ASSUME NEW k \in 0..(i - 1), NEW r \in Lookup(c, st, u.start + k)
               PROVE  Entry(c, u.start + k, r) \in AnEntry /\ OfTheSet(c, Entry(c, u.start + k, r))
    OBVIOUS
  <2>1. Fits(c, u.start + k, r)
    BY <1>6, <1>7
  <2> QED BY <2>1 DEF Fits
<1>9. \A at \in u.start..(u.start + i - 1) : \E e \in more : e.at = at /\ e.syntax = u.syntax
  <2> SUFFICES ASSUME NEW at \in u.start..(u.start + i - 1) PROVE \E e \in more : e.at = at /\ e.syntax = u.syntax
    OBVIOUS
  <2> DEFINE k == at - u.start
  <2>1. k \in 0..(i - 1) /\ u.start + k = at /\ at \in Nat
    BY <1>3, <1>4
  <2> HIDE DEF k
  <2>2. PICK r \in Lookup(c, st, at) : TRUE
    BY <1>5, <2>1
  <2>3. Fits(c, at, r)
    BY <1>7, <2>1
  <2>4. Entry(c, at, r) \in more
    <3>1. r \in Lookup(c, st, u.start + k) /\ Entry(c, at, r) = Entry(c, u.start + k, r)
      BY <2>1, <2>2
    <3>2. Entry(c, u.start + k, r) \in {Entry(c, u.start + k, x) : x \in Lookup(c, st, u.start + k)}
      BY <3>1
    <3> QED BY <2>1, <3>1, <3>2
  <2> HIDE DEF more
  <2> QED BY <2>3, <2>4 DEF Fits
<1>10. Skip(c, st) = d
  <2>1. Skip(c, st) = [c EXCEPT !.rs[1].cache = @ \cup more, !.task[1].start = @ + i, !.task[1].count = @ - i]
    BY DEF Skip, i
  <2> HIDE DEF more
  <2>2. [c EXCEPT !.rs[1].cache = @ \cup more, !.task[1].start = @ + i, !.task[1].count = @ - i] = d
    <3>1. 1 \in DOMAIN c.rs /\ 1 \in DOMAIN c.task
      BY <1>1, FirstOf DEF Client
    <3> QED BY <1>1, <3>1 DEF With, Client
  <2> QED BY <2>1, <2>2
<1> HIDE DEF more
<1>11. r1 \in AResultSet /\ r1.cache = s.cache \cup more /\ r1.key = s.key /\ r1.sort = s.sort /\ r1.order = s.order /\ r1.live = s.live /\ r1.size = s.size
  <2>1. s.cache \cup more \in SUBSET AnEntry
    BY <1>2, <1>8 DEF AResultSet
  <2> HIDE DEF s
  <2> QED BY <1>2, <2>1 DEF AResultSet
<1>12. /\ t1 \in ATask /\ t1.start = u.start + i /\ t1.count = u.count - i /\ t1.which = u.which /\ t1.from = u.from
       /\ t1.upto = u.upto /\ t1.syntax = u.syntax /\ t1.sent = u.sent
  <2>1. u.start + i \in Nat /\ u.count - i \in Nat
    BY <1>3, <1>4
  <2> HIDE DEF u
  <2> QED BY <1>2, <2>1 DEF ATask
<1> HIDE DEF r1, t1
<1>13. Further(c, r1, t1)
  <2>1. \A e \in r1.cache \ s.cache : OfTheSet(c, e)
    BY <1>8, <1>11
  <2>2. u.start <= t1.start /\ t1.start + t1.count <= u.start + u.count /\ (u.count = 0 => t1.count = 0)
    BY <1>3, <1>4, <1>12
  <2>3. t1.start + t1.count = u.start + u.count
    BY <1>3, <1>4, <1>12
  <2>4. \A at \in u.start..(t1.start - 1) : \E e \in r1.cache : e.at = at /\ e.syntax = u.syntax
    <3>a. t1.start = u.start + i
      BY <1>12
    <3>b. i \in Nat /\ u.start \in Nat
      BY <1>3, <1>4
    <3>1. t1.start - 1 = u.start + i - 1
      BY ONLY <3>a, <3>b
    <3> QED BY <1>9, <1>11, <3>1
  <2> HIDE DEF s, u
  <2>5. s.cache \subseteq r1.cache
    BY <1>11
  <2> QED BY <1>11, <1>12, <2>1, <2>2, <2>3, <2>4, <2>5 DEF Further, s, u
<1>14. Ready(p, v, n, d) /\ d.rs[1] = r1 /\ d.task[1] = t1 /\ SameButParts(c, d)
  BY <1>11, <1>12, <1>13, ReadyFurther
<1> HIDE DEF d
<1>15. Clamped(c) => Clamped(d)
  BY <1>3, <1>4, <1>11, <1>12, <1>14 DEF Clamped
<1> QED BY <1>10, <1>14, <1>15

-----------------------------------------------------------------------------
(***************************************************************************)
(* A retrieval that goes on either is complete or waits for the server     *)
(***************************************************************************)
SameTask(t, u) ==
  /\ u.which = t.which /\ u.start = t.start /\ u.count = t.count /\ u.from = t.from /\ u.upto = t.upto
  /\ u.syntax = t.syntax

LEMMA SendIs ==
  ASSUME NEW c \in Client, c.task # <<>>, NEW kind \in Kinds, NEW q \in Seq(Text) \cup Seq(Order), NEW count \in Nat
  PROVE  LET d == Send(c, kind, q, count) IN
         /\ d \in Client /\ SameButParts(c, d) /\ d.rs = c.rs /\ d.srv = c.srv /\ d.last = c.last
         /\ d.task # <<>> /\ SameTask(c.task[1], d.task[1]) /\ d.task[1].sent = c.task[1].sent + 1
         /\ d.wire # <<>> /\ d.wire[1].kind = kind /\ d.wire[1].q = q /\ d.wire[1].start = c.task[1].start
         /\ d.wire[1].count = count
<1> DEFINE t == c.task[1]
           u == [t EXCEPT !.sent = @ + 1]
           ts == [c.task EXCEPT ![1] = u]
           w == [kind |-> kind, q |-> q, start |-> t.start, count |-> count]
           ws == <<w>>
           d == [c EXCEPT !.wire = ws, !.task = ts]
<1>1. t \in ATask /\ c.task \in Seq(ATask)
  BY PartsOf DEF Client
<1>2. u \in ATask /\ SameTask(t, u) /\ u.sent = t.sent + 1
  <2>a. t.sent \in Nat
    BY <1>1 DEF ATask
  <2>1. t.sent + 1 \in Nat
    BY ONLY <2>a
  <2> HIDE DEF t
  <2>2. u \in ATask /\ u.sent = t.sent + 1
    BY <1>1, <2>1 DEF ATask
  <2>3. /\ u.which = t.which /\ u.start = t.start /\ u.count = t.count /\ u.from = t.from /\ u.upto = t.upto
        /\ u.syntax = t.syntax
    BY <1>1 DEF ATask
  <2> HIDE DEF u
  <2> QED BY <2>2, <2>3 DEF SameTask
<1>3. w \in ARequest /\ w.kind = kind /\ w.q = q /\ w.start = t.start /\ w.count = count
  <2>1. t.start \in Nat
    BY <1>1 DEF ATask
  <2> HIDE DEF t
  <2> QED BY <2>1 DEF ARequest
<1>4. Send(c, kind, q, count) = d
  BY <1>1, FirstOf DEF Send
<1> HIDE DEF u, w
<1>5. ts \in Seq(ATask) /\ ts # <<>> /\ ts[1] = u
  BY <1>1, <1>2, FirstOf
<1>6. ws \in Seq(ARequest) /\ ws # <<>> /\ ws[1] = w
  BY <1>3, SeqClosed
<1> HIDE DEF ts, ws
<1>7. d \in Client /\ SameButParts(c, d) /\ d.rs = c.rs /\ d.srv = c.srv /\ d.last = c.last /\ d.task = ts /\ d.wire = ws
  BY <1>5, <1>6 DEF Client, SameButParts
<1> HIDE DEF d
<1> QED BY <1>2, <1>3, <1>4, <1>5, <1>6, <1>7

\* What a client keeps whatever its task and its request are.
Stands(p, v, n, c) ==
  /\ c \in Client /\ c.calls > 0 /\ c.rs # <<>>
  /\ Named(p, n, c) /\ Base(p, v, c) /\ AtServer(p, c)

LEMMA StandsStill ==
  ASSUME NEW p, NEW v, NEW n, NEW c, Stands(p, v, n, c), NEW d \in Client, SameButParts(c, d), d.rs = c.rs, d.srv = c.srv
  PROVE  Stands(p, v, n, d) /\ (InOrder(c) => InOrder(d))
<1>1. d.calls > 0 /\ d.rs # <<>> /\ Named(p, n, d)
  BY DEF Stands, SameButParts, Named
<1>2. \A e \in c.rs[1].cache : OfTheSet(c, e) => OfTheSet(d, e)
  BY DEF OfTheSet, SameButParts
<1>3. Base(p, v, d)
  BY <1>2 DEF Stands, SameButParts, Base, Uses
<1>4. AtServer(p, d)
  BY DEF Stands, SameButParts, AtServer
<1> QED BY <1>1, <1>3, <1>4 DEF Stands, InOrder

LEMMA GoesOnAlike ==
  ASSUME NEW c, NEW d, d.rs = c.rs, SameTask(c.task[1], d.task[1]), Progress(c)
  PROVE  Progress(d)
BY DEF SameTask, Progress, FilledTo

LEMMA SafeWhileWaiting ==
  ASSUME NEW p, NEW v, NEW n, NEW c, Stands(p, v, n, c), c.task # <<>>, c.wire # <<>>, Waiting(p, c)
  PROVE  ClientSafe(p, v, n, c)
BY DEF Stands, ClientSafe, Named

LEMMA SafeWhenFinished ==
  ASSUME NEW p, NEW v, NEW n, NEW c, Stands(p, v, n, c), c.task = <<>>, Finished(c)
  PROVE  ClientSafe(p, v, n, c)
BY DEF Stands, ClientSafe, Named

\* A range of which nothing is left to be asked for.
LEMMA SafeWhenComplete ==
  ASSUME NEW p, NEW v, NEW n, NEW c, Ready(p, v, n, c), c.task[1].count = 0, c.rs[1].live # 0
  PROVE  ClientSafe(p, v, n, Complete(c))
<1> DEFINE d == Complete(c)
           t == c.task[1]
<1>1. c \in Client /\ c.task # <<>> /\ c.rs # <<>> /\ c.wire = <<>> /\ InOrder(c) /\ Progress(c) /\ Stands(p, v, n, c)
  BY DEF Ready, Steady, Stands
<1>2. d = [c EXCEPT !.task = <<>>, !.last = c.task]
  BY DEF Complete
<1>3. <<>> \in Seq(ATask) /\ c.task \in Seq(ATask) /\ t \in ATask /\ c.rs[1] \in AResultSet
  BY <1>1, PartsOf, SeqClosed DEF Client
<1> HIDE DEF d
<1>4. /\ d \in Client /\ SameButParts(c, d) /\ d.rs = c.rs /\ d.srv = c.srv /\ d.wire = <<>>
      /\ d.task = <<>> /\ d.last = c.task
  BY <1>1, <1>2, <1>3 DEF Client, SameButParts
<1>5. Stands(p, v, n, d) /\ InOrder(d)
  BY <1>1, <1>4, StandsStill
<1>6. t.from \in Nat /\ t.start \in Nat /\ t.upto \in Nat /\ t.count = 0 /\ c.rs[1].size \in Nat
  BY <1>3 DEF ATask, AResultSet
<1>7. /\ FilledTo(c, t, t.start)
      /\ t.upto <= t.start \/ c.rs[1].size <= t.start
  <2>1. t.upto <= t.start + t.count \/ c.rs[1].size <= t.start + t.count
    BY <1>1 DEF Progress
  <2>2. t.start + t.count = t.start
    BY <1>6
  <2>3. FilledTo(c, t, t.start)
    BY <1>1 DEF Progress
  <2> QED BY <2>1, <2>2, <2>3
<1>8. ASSUME NEW to \in Nat, to <= t.start PROVE FilledTo(d, t, to)
  <2>1. \A at \in t.from..(to - 1) : at \in t.from..(t.start - 1)
    BY <1>6, <1>8
  <2> QED BY <1>4, <1>7, <2>1 DEF FilledTo
<1>9. FilledTo(d, t, t.upto) \/ FilledTo(d, t, d.rs[1].size)
  BY <1>4, <1>6, <1>7, <1>8
<1>10. Finished(d)
  <2>1. d.last[1] = t /\ d.rs[1].live # 0
    BY <1>4
  <2> QED BY <1>4, <1>5, <1>9, <2>1 DEF Finished
<1>11. ClientSafe(p, v, n, d)
  BY <1>4, <1>5, <1>10, SafeWhenFinished
<1> QED BY <1>11 DEF d

\* The steps that both protocols begin with.
LEMMA ReadyToAsk ==
  ASSUME KeysApart, QueriesMade, NEW p \in Protocols, NEW v \in 1..Len(Hits), NEW n \in Clients, NEW st, StoreSafe(p, v, st),
         NEW c, Ready(p, v, n, c)
  PROVE  LET d == Skip(Clamp(MemcachedSearch(c, st)), st) IN
         Ready(p, v, n, d) /\ Clamped(d)
<1> DEFINE c1 == MemcachedSearch(c, st)
           c2 == Clamp(c1)
<1>1. Ready(p, v, n, c1)
  BY CountLookedUp
<1> HIDE DEF c1
<1>2. Ready(p, v, n, c2) /\ Clamped(c2)
  BY <1>1, RangeClamped
<1> HIDE DEF c2
<1>3. Ready(p, v, n, Skip(c2, st)) /\ Clamped(Skip(c2, st))
  BY <1>2, RangeSkipped
<1> QED BY <1>3 DEF c1, c2

\* A request of a client that is ready: what it waits for.
LEMMA AsksAndWaits ==
  ASSUME NEW p, NEW v, NEW n, NEW c, Ready(p, v, n, c), NEW kind \in Kinds, NEW q \in Seq(Text) \cup Seq(Order), NEW count \in Nat,
         LET t == c.task[1]
             s == c.rs[1]
         IN \/ /\ kind = "SEARCH" /\ p = "Z3950" /\ s.live # 2 /\ q = c.q.z /\ t.sent = 0
               /\ count = 0 \/ (count = t.count /\ t.start = 0 /\ s.sort = <<>>)
            \/ kind = "SRU" /\ p = "SRU" /\ q = c.q.z /\ t.sent = 0 /\ count = t.count
            \/ /\ kind = "PRESENT" /\ p = "Z3950" /\ s.live = 2 /\ t.sent <= 2
               /\ count = t.count /\ t.count > 0 /\ t.start + t.count <= s.size
            \/ kind = "SORT" /\ p = "Z3950" /\ s.live = 2 /\ t.sent <= 1 /\ q = s.order
  PROVE  ClientSafe(p, v, n, Send(c, kind, q, count))
<1> DEFINE d == Send(c, kind, q, count)
           t == c.task[1]
           s == c.rs[1]
           u == d.task[1]
           w == d.wire[1]
<1>1. /\ c \in Client /\ c.task # <<>> /\ c.rs # <<>> /\ c.error = "NONE" /\ InOrder(c) /\ Progress(c)
      /\ Stands(p, v, n, c)
  BY DEF Ready, Steady, Stands
<1>2. /\ d \in Client /\ SameButParts(c, d) /\ d.rs = c.rs /\ d.srv = c.srv /\ d.last = c.last
      /\ d.task # <<>> /\ SameTask(c.task[1], d.task[1]) /\ d.task[1].sent = c.task[1].sent + 1
      /\ d.wire # <<>> /\ d.wire[1].kind = kind /\ d.wire[1].q = q /\ d.wire[1].start = c.task[1].start
      /\ d.wire[1].count = count
  BY <1>1, SendIs
<1> HIDE DEF d
<1>3. Stands(p, v, n, d) /\ InOrder(d) /\ Progress(d)
  BY <1>1, <1>2, StandsStill, GoesOnAlike
<1>4. t.sent \in Nat /\ t.count \in Nat /\ t.start \in Nat
  BY <1>1, PartsOf DEF ATask
<1>5. /\ d.error = "NONE" /\ d.q = c.q /\ d.rs[1] = s /\ u.start = t.start /\ u.count = t.count /\ u.which = t.which
      /\ t.which = "SEARCH" /\ u.sent = t.sent + 1
  BY <1>1, <1>2 DEF SameButParts, SameTask, Progress
<1>6. Waiting(p, d)
  <2>1. CASE /\ kind = "SEARCH" /\ p = "Z3950" /\ s.live # 2 /\ q = c.q.z /\ t.sent = 0
             /\ count = 0 \/ (count = t.count /\ t.start = 0 /\ s.sort = <<>>)
    BY <1>2, <1>3, <1>4, <1>5, <2>1 DEF Waiting
  <2>2. CASE kind = "SRU" /\ p = "SRU" /\ q = c.q.z /\ t.sent = 0 /\ count = t.count
    BY <1>2, <1>3, <1>4, <1>5, <2>2 DEF Waiting
  <2>3. CASE /\ kind = "PRESENT" /\ p = "Z3950" /\ s.live = 2 /\ t.sent <= 2
             /\ count = t.count /\ t.count > 0 /\ t.start + t.count <= s.size
    BY <1>2, <1>3, <1>4, <1>5, <2>3 DEF Waiting
  <2>4. CASE kind = "SORT" /\ p = "Z3950" /\ s.live = 2 /\ t.sent <= 1 /\ q = s.order
    BY <1>2, <1>3, <1>4, <1>5, <2>4 DEF Waiting
  <2> QED BY <2>1, <2>2, <2>3, <2>4
<1>7. ClientSafe(p, v, n, d)
  BY <1>2, <1>3, <1>6, SafeWhileWaiting
<1> QED BY <1>7 DEF d

\* ZOOM_connection_Z3950_search.
LEMMA Z3950SearchSafe ==
  ASSUME KeysApart, QueriesMade, NEW v \in 1..Len(Hits), NEW n \in Clients, NEW st, StoreSafe("Z3950", v, st),
         NEW c, Ready("Z3950", v, n, c)
  PROVE  ClientSafe("Z3950", v, n, Z3950Search(c, st))
<1> DEFINE p == "Z3950"
           d == Skip(Clamp(MemcachedSearch(c, st)), st)
           t == d.task[1]
           s == d.rs[1]
           k == IF t.start = 0 /\ s.sort = <<>> THEN t.count ELSE 0
<1>1. Ready(p, v, n, d) /\ Clamped(d)
  BY ReadyToAsk DEF Protocols
<1>2. Z3950Search(c, st) = IF t.count = 0 /\ s.live # 0 THEN Complete(d)
                           ELSE IF s.live = 2 THEN Send(d, "PRESENT", <<>>, t.count)
                           ELSE Send(d, "SEARCH", QueryZ(d.q), k)
  BY DEF Z3950Search
<1> HIDE DEF d
<1>3. d \in Client /\ s \in AResultSet /\ t \in ATask /\ Budget(p, d)
  BY <1>1, PartsOf DEF Ready, Steady
<1>4. t.count \in Nat /\ t.start \in Nat /\ t.sent \in Nat /\ s.size \in Nat /\ k \in Nat
  BY <1>3 DEF ATask, AResultSet
<1>5. d.q.z \in Seq(Text) /\ <<>> \in Seq(Text)
  BY <1>3, SeqClosed DEF Client, Query
<1>6. CASE t.count = 0 /\ s.live # 0
  BY <1>1, <1>2, <1>6, SafeWhenComplete
<1>7. CASE ~(t.count = 0 /\ s.live # 0) /\ s.live = 2
  <2>1. t.count > 0 /\ t.start + t.count <= s.size
    <3>1. t.count # 0 /\ s.live # 0
      BY <1>7
    <3>2. s.live # 0 => t.count = 0 \/ t.start + t.count <= s.size
      BY <1>1 DEF Clamped
    <3> HIDE DEF t, s
    <3> QED BY <1>4, <3>1, <3>2
  <2>2. t.sent <= 2
    BY <1>3, <1>4, <1>7, <2>1 DEF Budget
  <2>3. Z3950Search(c, st) = Send(d, "PRESENT", <<>>, t.count)
    BY <1>2, <1>7
  <2> DEFINE e == <<>>
             m == t.count
             kind == "PRESENT"
  <2>4. e \in Seq(Text) \cup Seq(Order) /\ m \in Nat /\ kind \in Kinds
    BY <1>4, <1>5 DEF Kinds
  <2>5. /\ kind = "PRESENT" /\ p = "Z3950" /\ d.rs[1].live = 2 /\ d.task[1].sent <= 2
        /\ m = d.task[1].count /\ d.task[1].count > 0 /\ d.task[1].start + d.task[1].count <= d.rs[1].size
    BY <1>7, <2>1, <2>2
  <2>6. Z3950Search(c, st) = Send(d, kind, e, m)
    BY <2>3
  <2> HIDE DEF e, m, kind, p
  <2>7. ClientSafe(p, v, n, Send(d, kind, e, m))
    BY <1>1, <2>4, <2>5, AsksAndWaits
  <2> QED BY <2>6, <2>7 DEF p
<1>8. CASE ~(t.count = 0 /\ s.live # 0) /\ s.live # 2
  <2>1. t.sent = 0
    BY <1>3, <1>8 DEF Budget
  <2>2. Z3950Search(c, st) = Send(d, "SEARCH", d.q.z, k)
    BY <1>2, <1>8 DEF QueryZ
  <2> DEFINE e == d.q.z
             m == k
             kind == "SEARCH"
  <2>4. e \in Seq(Text) \cup Seq(Order) /\ m \in Nat /\ kind \in Kinds
    BY <1>4, <1>5 DEF Kinds
  <2>5. /\ kind = "SEARCH" /\ p = "Z3950" /\ d.rs[1].live # 2 /\ e = d.q.z /\ d.task[1].sent = 0
        /\ m = 0 \/ (m = d.task[1].count /\ d.task[1].start = 0 /\ d.rs[1].sort = <<>>)
    BY <1>8, <2>1
  <2>6. Z3950Search(c, st) = Send(d, kind, e, m)
    BY <2>2
  <2> HIDE DEF e, m, kind, p
  <2>7. ClientSafe(p, v, n, Send(d, kind, e, m))
    BY <1>1, <2>4, <2>5, AsksAndWaits
  <2> QED BY <2>6, <2>7 DEF p
<1> QED BY <1>6, <1>7, <1>8

\* ZOOM_connection_srw_send_search.
LEMMA SrwSearchSafe ==
  ASSUME KeysApart, QueriesMade, NEW v \in 1..Len(Hits), NEW n \in Clients, NEW st, StoreSafe("SRU", v, st),
         NEW c, Ready("SRU", v, n, c)
  PROVE  ClientSafe("SRU", v, n, SrwSearch(c, st))
<1> DEFINE p == "SRU"
           d == Skip(Clamp(MemcachedSearch(c, st)), st)
           t == d.task[1]
           s == d.rs[1]
<1>1. Ready(p, v, n, d) /\ Clamped(d)
  BY ReadyToAsk DEF Protocols
<1>2. SrwSearch(c, st) = IF t.count = 0 /\ s.live # 0 THEN Complete(d)
                         ELSE Send(d, "SRU", QueryZ(d.q), t.count)
  BY DEF SrwSearch
<1> HIDE DEF d
<1>3. d \in Client /\ s \in AResultSet /\ t \in ATask /\ Budget(p, d)
  BY <1>1, PartsOf DEF Ready, Steady
<1>4. t.count \in Nat /\ t.start \in Nat /\ t.sent \in Nat /\ s.size \in Nat
  BY <1>3 DEF ATask, AResultSet
<1>5. d.q.z \in Seq(Text)
  BY <1>3 DEF Client, Query
<1>6. CASE t.count = 0 /\ s.live # 0
  BY <1>1, <1>2, <1>6, SafeWhenComplete
<1>7. CASE ~(t.count = 0 /\ s.live # 0)
  <2>1. t.sent = 0
    <3>1. CASE s.live # 2
      BY <1>3, <3>1 DEF Budget
    <3>2. CASE s.live = 2
      <4>1. t.count # 0 /\ ~(s.size <= t.start)
        BY <1>1, <1>4, <1>7, <3>2 DEF Clamped
      <4> QED BY <1>3, <3>2, <4>1 DEF Budget
    <3> QED BY <3>1, <3>2
  <2>2. SrwSearch(c, st) = Send(d, "SRU", d.q.z, t.count)
    BY <1>2, <1>7 DEF QueryZ
  <2> DEFINE e == d.q.z
             m == t.count
             kind == "SRU"
  <2>4. e \in Seq(Text) \cup Seq(Order) /\ m \in Nat /\ kind \in Kinds
    BY <1>4, <1>5 DEF Kinds
  <2>5. kind = "SRU" /\ p = "SRU" /\ e = d.q.z /\ d.task[1].sent = 0 /\ m = d.task[1].count
    BY <2>1
  <2>6. SrwSearch(c, st) = Send(d, kind, e, m)
    BY <2>2
  <2> HIDE DEF e, m, kind, p
  <2>7. ClientSafe(p, v, n, Send(d, kind, e, m))
    BY <1>1, <2>4, <2>5, AsksAndWaits
  <2> QED BY <2>6, <2>7 DEF p
<1> QED BY <1>6, <1>7

-----------------------------------------------------------------------------
(***************************************************************************)
(* How the sort reaches the server                                         *)
(***************************************************************************)
\* What stands in the query's text, with what is sent apart from it.
Apart(p, q) == IF p = "SRU" THEN q.sru11 ELSE QuerySortspec(q)

LEMMA SortsReach ==
  ASSUME NEW p \in Protocols, NEW q, Whole(q)
  PROVE  FullQuery(q).sort \o Apart(p, q) = SortFor(p, q)
<1> DEFINE S == q.sort
           st == q.strategy
           ty == q.type
           E == <<>>
<1>1. S \in Seq(Criterion) /\ st \in Strategies /\ ty \in {"RPN", "CQL"}
  BY DEF Whole, Query
<1>2. E \in Seq(Criterion) /\ S \o E = S /\ E \o S = S /\ E \o E = E
  BY <1>1, ConcatEmptySeq
<1>3. FullQuery(q).sort = IF st \in {"embed", IF ty = "RPN" THEN "type7" ELSE "cql"} THEN S ELSE E
  BY DEF FullQuery, QueryText
<1>4. Apart(p, q) = IF p = "SRU" THEN IF S # E /\ st \in {"sru11", "solr"} THEN S ELSE E
                    ELSE IF st = "z3950" THEN S ELSE E
  BY DEF Apart, QuerySortspec, Whole
<1>5. /\ st = "z3950" => SortFor(p, q) = IF p = "Z3950" THEN S ELSE E
      /\ st = "type7" => SortFor(p, q) = IF ty = "RPN" THEN S ELSE E
      /\ st = "cql" => SortFor(p, q) = IF ty = "CQL" THEN S ELSE E
      /\ st = "embed" => SortFor(p, q) = S
      /\ st = "sru11" \/ st = "solr" => SortFor(p, q) = IF p = "SRU" THEN S ELSE E
  <2>1. st = "z3950" => SortFor(p, q) = IF p = "Z3950" THEN S ELSE E
    BY Zenon DEF SortFor
  <2>2. st = "type7" => SortFor(p, q) = IF ty = "RPN" THEN S ELSE E
    BY Zenon DEF SortFor
  <2>3. st = "cql" => SortFor(p, q) = IF ty = "CQL" THEN S ELSE E
    BY Zenon DEF SortFor
  <2>4. st = "embed" => SortFor(p, q) = S
    BY Zenon DEF SortFor
  <2>5. st = "sru11" => SortFor(p, q) = IF p = "SRU" THEN S ELSE E
    BY Zenon DEF SortFor
  <2>6. st = "solr" => SortFor(p, q) = IF p = "SRU" THEN S ELSE E
    BY Zenon DEF SortFor
  <2> QED BY <2>1, <2>2, <2>3, <2>4, <2>5, <2>6
<1> DEFINE F == FullQuery(q).sort
           A == Apart(p, q)
           R == SortFor(p, q)
<1>6. p \in {"Z3950", "SRU"} /\ st \in {"z3950", "type7", "cql", "sru11", "solr", "embed"}
  BY <1>1 DEF Protocols, Strategies
<1>7. (F = E /\ A = R) \/ (F = R /\ A = E)
  <2> HIDE DEF F, A, R, E, S, st, ty
  <2>1. F = (IF st \in {"embed", IF ty = "RPN" THEN "type7" ELSE "cql"} THEN S ELSE E)
    BY <1>3 DEF F
  <2>2. A = IF p = "SRU" THEN IF S # E /\ st \in {"sru11", "solr"} THEN S ELSE E
                    ELSE IF st = "z3950" THEN S ELSE E
    BY <1>4 DEF A
  <2>3. /\ st = "z3950" => R = IF p = "Z3950" THEN S ELSE E
        /\ st = "type7" => R = IF ty = "RPN" THEN S ELSE E
        /\ st = "cql" => R = IF ty = "CQL" THEN S ELSE E
        /\ st = "embed" => R = S
        /\ st = "sru11" \/ st = "solr" => R = IF p = "SRU" THEN S ELSE E
    BY <1>5 DEF R
  <2>4. CASE st = "z3950"
    BY <1>6, <2>1, <2>2, <2>3, <2>4
  <2>5. CASE st = "type7"
    BY <1>1, <2>1, <2>2, <2>3, <2>5
  <2>6. CASE st = "cql"
    BY <1>1, <2>1, <2>2, <2>3, <2>6
  <2>7. CASE st = "embed"
    BY <2>1, <2>2, <2>3, <2>7
  <2>8. CASE st = "sru11" \/ st = "solr"
    BY <1>6, <2>1, <2>2, <2>3, <2>8
  <2> QED BY <1>6, <2>4, <2>5, <2>6, <2>7, <2>8
<1>8. R \in Seq(Criterion) /\ E \o R = R /\ R \o E = R
  <2>1. R = S \/ R = E
    BY <1>1, <1>5 DEF Strategies
  <2> HIDE DEF R
  <2> QED BY <1>1, <1>2, <2>1
<1>9. F \o A = R
  <2> HIDE DEF F, A, R, E
  <2> QED BY <1>7, <1>8
<1> QED BY <1>9

LEMMA SortIsOrder ==
  ASSUME NEW p \in Protocols, NEW q, Whole(q)
  PROVE  /\ SortFor(p, q) \in Seq(Order) /\ FullQuery(q).sort \in Seq(Order)
         /\ QuerySortspec(q) \in Seq(Criterion) /\ q.sru11 \in Seq(Criterion)
         /\ Seq(Criterion) \subseteq Seq(Order)
         /\ QuerySortspec(q) # <<>> /\ p = "Z3950" => SortFor(p, q) = QuerySortspec(q) /\ FullQuery(q).sort = <<>>
<1>1. \A x \in Seq(Criterion) : x \in Seq(Order)
  <2> TAKE x \in Seq(Criterion)
  <2>1. x \in [1..Len(x) -> Criterion] /\ Len(x) \in Nat
    BY LenProperties
  <2>2. x \in [1..Len(x) -> Order]
    <3>1. Criterion \subseteq Order
      BY DEF Order
    <3> HIDE DEF Order
    <3> QED BY <2>1, <3>1
  <2> QED BY <2>1, <2>2
<1>2. q.sort \in Seq(Criterion) /\ <<>> \in Seq(Criterion) /\ q.sru11 \in Seq(Criterion)
  BY SeqClosed DEF Whole, Query
<1>3. SortFor(p, q) = q.sort \/ SortFor(p, q) = <<>>
  BY Zenon DEF SortFor
<1>4. FullQuery(q).sort = q.sort \/ FullQuery(q).sort = <<>>
  BY DEF FullQuery, QueryText
<1>5. QuerySortspec(q) = q.sort \/ QuerySortspec(q) = <<>>
  BY DEF QuerySortspec
<1>6. ASSUME QuerySortspec(q) # <<>>, p = "Z3950" PROVE SortFor(p, q) = QuerySortspec(q) /\ FullQuery(q).sort = <<>>
  <2>1. q.strategy = "z3950" /\ QuerySortspec(q) = q.sort
    BY <1>6 DEF QuerySortspec
  <2>2. FullQuery(q).sort = <<>>
    BY <2>1 DEF FullQuery, QueryText
  <2>3. SortFor(p, q) = q.sort
    <3>1. q.strategy = "z3950" /\ p = "Z3950" => SortFor(p, q) = q.sort
      BY Zenon DEF SortFor
    <3> QED BY <1>6, <2>1, <3>1
  <2> QED BY <2>1, <2>2, <2>3
<1> QED BY <1>1, <1>2, <1>3, <1>4, <1>5, <1>6

-----------------------------------------------------------------------------
(***************************************************************************)
(* What is kept for all                                                    *)
(***************************************************************************)
LEMMA PutIs ==
  ASSUME NEW f, NEW k, NEW v, NEW x \in DOMAIN Put(f, k, v)
  PROVE  Put(f, k, v)[x] = v \/ (x \in DOMAIN f /\ Put(f, k, v)[x] = f[x])
BY DEF Put, Over

LEMMA DropIs ==
  ASSUME NEW f, NEW k, NEW x \in DOMAIN Drop(f, k)
  PROVE  x \in DOMAIN f /\ Drop(f, k)[x] = f[x]
BY DEF Drop

\* One backend of the store is changed.
KeepsWell(p, v, b) ==
  /\ b = [counts |-> b.counts, index |-> b.index, records |-> b.records]
  /\ \A k \in DOMAIN b.counts : b.counts[k] \in RealCounts(v)
  /\ \A k \in DOMAIN b.index :
       LET r == b.index[k] IN
       /\ r \in ARecord /\ r.pos = k[2] /\ r.syntax = k[3]
       /\ r.set.db \in Databases /\ Keeps(p, k[1], r.set)

LEMMA StoreIs ==
  ASSUME NEW p, NEW v, NEW st
  PROVE  StoreSafe(p, v, st) <=> st = [b \in Backends |-> st[b]] /\ \A b \in Backends : KeepsWell(p, v, st[b])
BY DEF StoreSafe, KeepsWell

LEMMA StoreChanges ==
  ASSUME NEW p, NEW v, NEW st, StoreSafe(p, v, st), NEW b \in Backends, NEW x, KeepsWell(p, v, x)
  PROVE  StoreSafe(p, v, [st EXCEPT ![b] = x])
<1> DEFINE u == [st EXCEPT ![b] = x]
<1>1. st = [d \in Backends |-> st[d]] /\ \A d \in Backends : KeepsWell(p, v, st[d])
  BY StoreIs
<1>2. u = [d \in Backends |-> u[d]] /\ \A d \in Backends : u[d] = IF d = b THEN x ELSE st[d]
  BY <1>1
<1> HIDE DEF u
<1>3. \A d \in Backends : KeepsWell(p, v, u[d])
  BY <1>1, <1>2
<1>4. StoreSafe(p, v, u)
  BY <1>2, <1>3, StoreIs
<1> QED BY <1>4 DEF u

\* ZOOM_memcached_hitcount.
LEMMA CountKept ==
  ASSUME NEW p, NEW v, NEW st, StoreSafe(p, v, st), NEW c \in Client, NEW m \in RealCounts(v)
  PROVE  StoreSafe(p, v, MemcachedHitcount(c, st, m))
<1>1. CASE ~(Uses(c) /\ c.rs[1].live = 0)
  BY <1>1 DEF MemcachedHitcount
<1>2. CASE Uses(c) /\ c.rs[1].live = 0
  <2> DEFINE b == c.backend
             y == st[b]
             k == c.rs[1].key
             x == [y EXCEPT !.counts = Put(@, k, m)]
  <2>1. b \in Backends
    BY <1>2 DEF Uses, Client
  <2>2. KeepsWell(p, v, y) /\ st = [d \in Backends |-> st[d]]
    BY <2>1, StoreIs
  <2>3. MemcachedHitcount(c, st, m) = [st EXCEPT ![b] = x]
    BY <1>2 DEF MemcachedHitcount
  <2> HIDE DEF y, b, k
  <2>4. x.counts = Put(y.counts, k, m) /\ x.index = y.index /\ x.records = y.records
        /\ x = [counts |-> x.counts, index |-> x.index, records |-> x.records]
    <3> DEFINE C == y.counts
               I == y.index
               R == y.records
    <3>1. y = [counts |-> C, index |-> I, records |-> R]
      BY <2>2 DEF KeepsWell
    <3> HIDE DEF C, I, R
    <3> QED BY <3>1
  <2> HIDE DEF x
  <2>5. \A e \in DOMAIN x.counts : x.counts[e] \in RealCounts(v)
    BY <2>2, <2>4, PutIs DEF KeepsWell
  <2>6. KeepsWell(p, v, x)
    BY <2>2, <2>4, <2>5 DEF KeepsWell
  <2>7. StoreSafe(p, v, [st EXCEPT ![b] = x])
    BY <2>1, <2>6, StoreChanges
  <2> QED BY <2>3, <2>7
<1> QED BY <1>1, <1>2

\* A record that may be kept for a client.
MayKeep(p, c, at, r) ==
  /\ r \in ARecord /\ r.pos = at /\ r.syntax = c.task[1].syntax /\ r.set.db \in Databases
  /\ Uses(c) => SetIs(p, c, r.set)

\* ZOOM_memcached_add.
LEMMA RecordsKept ==
  ASSUME NEW p, NEW v, NEW n \in Clients, NEW st, StoreSafe(p, v, st), NEW c \in Client, Named(p, n, c),
         NEW recs, \A at \in DOMAIN recs : MayKeep(p, c, at, recs[at])
  PROVE  StoreSafe(p, v, MemcachedAdd(c, st, recs))
<1>1. CASE ~Uses(c)
  BY <1>1 DEF MemcachedAdd
<1>2. CASE Uses(c)
  <2> DEFINE b == c.backend
             y == st[b]
             K == {RecordKey(c, at) : at \in DOMAIN recs}
             f == [k \in K |-> recs[k[2]]]
             g == Over(f, y.index)
             R == y.records \cup {recs[at] : at \in DOMAIN recs}
             x == [y EXCEPT !.index = g, !.records = R]
  <2>1. b \in Backends
    BY <1>2 DEF Uses, Client
  <2>2. KeepsWell(p, v, y) /\ st = [d \in Backends |-> st[d]]
    BY <2>1, StoreIs
  <2>3. MemcachedAdd(c, st, recs) = [st EXCEPT ![b] = x]
    BY <1>2 DEF MemcachedAdd
  <2>4. \A k \in DOMAIN g : (k \in K /\ g[k] = f[k]) \/ (k \in DOMAIN y.index /\ g[k] = y.index[k])
    BY DEF Over
  <2>5. \A k \in K : \E at \in DOMAIN recs : k = RecordKey(c, at) /\ f[k] = recs[at]
    <3> TAKE k \in K
    <3>1. PICK at \in DOMAIN recs : k = RecordKey(c, at)
      OBVIOUS
    <3>2. k[2] = at
      BY <3>1 DEF RecordKey
    <3>3. f[k] = recs[k[2]]
      OBVIOUS
    <3> QED BY <3>1, <3>2, <3>3
  <2> HIDE DEF b, y, K, f, g, R
  <2>6. /\ x.counts = y.counts /\ x.index = g
        /\ x = [counts |-> x.counts, index |-> x.index, records |-> x.records]
    <3> DEFINE C == y.counts
               I == y.index
               Q == y.records
    <3>1. y = [counts |-> C, index |-> I, records |-> Q]
      BY <2>2 DEF KeepsWell
    <3> HIDE DEF C, I, Q
    <3> DEFINE z == [y EXCEPT !.index = g]
    <3>a. z = [counts |-> C, index |-> g, records |-> Q]
      BY <3>1
    <3>b. x = [z EXCEPT !.records = R]
      OBVIOUS
    <3> HIDE DEF x, z
    <3>2. x = [counts |-> C, index |-> g, records |-> R]
      BY <3>a, <3>b
    <3>3. x.counts = C /\ x.index = g /\ x.records = R
      BY <3>2
    <3> QED BY <3>2, <3>3 DEF C
  <2> HIDE DEF x
  <2>7. ASSUME NEW k \in DOMAIN g
        PROVE  /\ g[k] \in ARecord /\ g[k].pos = k[2] /\ g[k].syntax = k[3]
               /\ g[k].set.db \in Databases /\ Keeps(p, k[1], g[k].set)
    <3>1. CASE k \in K /\ g[k] = f[k]
      <4>1. PICK at \in DOMAIN recs : k = RecordKey(c, at) /\ f[k] = recs[at]
        BY <2>5, <3>1
      <4>2. k[1] = c.rs[1].key /\ k[2] = at /\ k[3] = c.task[1].syntax
        BY <4>1 DEF RecordKey
      <4>3. MayKeep(p, c, at, g[k])
        BY <3>1, <4>1
      <4>4. SetIs(p, c, g[k].set)
        BY <1>2, <4>3 DEF MayKeep
      <4>5. Keeps(p, c.rs[1].key, g[k].set)
        BY <4>4, OursMayBeKept
      <4> QED BY <4>2, <4>3, <4>5 DEF MayKeep
    <3>2. CASE k \in DOMAIN y.index /\ g[k] = y.index[k]
      BY <2>2, <3>2 DEF KeepsWell
    <3> QED BY <2>4, <3>1, <3>2
  <2>8. KeepsWell(p, v, x)
    BY <2>2, <2>6, <2>7 DEF KeepsWell
  <2>9. StoreSafe(p, v, [st EXCEPT ![b] = x])
    BY <2>1, <2>8, StoreChanges
  <2> QED BY <2>3, <2>9
<1> QED BY <1>1, <1>2

-----------------------------------------------------------------------------
(***************************************************************************)
(* Records that the server sends                                           *)
(***************************************************************************)
\* The set that the client's result set stands for.
TheSet(c, set) ==
  /\ set \in ASet /\ set.text = c.q.string /\ set.sorts = c.rs[1].order
  /\ set.user = <<c.user, c.group, c.password>> /\ set.db = c.db

LEMMA RecordTypes ==
  ASSUME NEW c \in Client, c.task # <<>>, NEW set \in ASet, NEW at \in Nat
  PROVE  LET r == Rec(c, set, at) IN
         /\ r \in ARecord /\ r.set = set /\ r.pos = at /\ r.syntax = c.task[1].syntax
         /\ Entry(c, at, r) \in AnEntry /\ Entry(c, at, r).at = at /\ Entry(c, at, r).syntax = c.task[1].syntax
         /\ Entry(c, at, r).rec = r
<1> DEFINE syn == c.task[1].syntax
           r == Rec(c, set, at)
           e == Entry(c, at, r)
<1>1. syn \in Syntax
  BY PartsOf DEF ATask
<1>2. r = [set |-> set, pos |-> at, syntax |-> syn]
  BY DEF Rec
<1> HIDE DEF syn, r
<1>3. r \in ARecord /\ r.set = set /\ r.pos = at /\ r.syntax = syn
  BY <1>1, <1>2 DEF ARecord
<1>4. e = [at |-> at, syntax |-> syn, rec |-> r]
  BY DEF Entry, syn
<1> HIDE DEF e
<1>5. e \in AnEntry /\ e.at = at /\ e.syntax = syn /\ e.rec = r
  BY <1>1, <1>3, <1>4 DEF AnEntry
<1> QED BY <1>3, <1>5 DEF syn, r, e

LEMMA TheRecord ==
  ASSUME NEW p, NEW v, NEW n, NEW c \in Client, c.task # <<>>, Named(p, n, c), Base(p, v, c),
         NEW set, TheSet(c, set), NEW at \in Nat
  PROVE  Fits(c, at, Rec(c, set, at)) /\ MayKeep(p, c, at, Rec(c, set, at))
<1> DEFINE r == Rec(c, set, at)
           e == Entry(c, at, r)
<1>1. /\ r \in ARecord /\ r.set = set /\ r.pos = at /\ r.syntax = c.task[1].syntax
      /\ e \in AnEntry /\ e.at = at /\ e.syntax = c.task[1].syntax /\ e.rec = r
  BY RecordTypes DEF TheSet
<1> HIDE DEF r
<1>2. OfTheSet(c, e)
  <2> HIDE DEF e
  <2> QED BY <1>1 DEF OfTheSet, TheSet
<1>3. Fits(c, at, r)
  BY <1>1, <1>2 DEF Fits
<1>4. Uses(c) => SetIs(p, c, set)
  BY DEF Base, SetIs, TheSet
<1>5. set.db \in Databases
  BY DEF Named, TheSet
<1> HIDE DEF e
<1>6. MayKeep(p, c, at, r)
  BY <1>1, <1>4, <1>5 DEF MayKeep
<1> QED BY <1>3, <1>6 DEF r

\* What taking m records makes of the result set and the task.
Takes(c, set, m, r, u) ==
  LET s == c.rs[1]
      t == c.task[1]
      ats == t.start..(t.start + m - 1)
  IN /\ r \in AResultSet /\ u \in ATask
     /\ r.key = s.key /\ r.size = s.size /\ r.live = s.live /\ r.sort = s.sort /\ r.order = s.order
     /\ r.cache = {e \in s.cache : ~(e.at \in ats /\ e.syntax = t.syntax)} \cup {Entry(c, at, Rec(c, set, at)) : at \in ats}
     /\ u.count = Most(0, Least(t.count, s.size - t.start) - m) /\ u.start = t.start + m
     /\ u.which = t.which /\ u.from = t.from /\ u.upto = t.upto /\ u.syntax = t.syntax /\ u.sent = t.sent

LEMMA TakeIs ==
  ASSUME NEW c \in Client, c.rs # <<>>, c.task # <<>>, NEW set \in ASet, NEW m \in Nat, NEW st
  PROVE  \E r, u : TakeRecords(c, st, set, m).c = With(c, r, u) /\ Takes(c, set, m, r, u)
<1> DEFINE s == c.rs[1]
           t == c.task[1]
           ats == t.start..(t.start + m - 1)
           left == {e \in s.cache : ~(e.at \in ats /\ e.syntax = t.syntax)}
           new == {Entry(c, at, Rec(c, set, at)) : at \in ats}
           k == Most(0, Least(t.count, s.size - t.start) - m)
           both == left \cup new
           i == t.start + m
           r == [s EXCEPT !.cache = both]
           u == [t EXCEPT !.count = k, !.start = i]
<1>1. s \in AResultSet /\ t \in ATask
  BY PartsOf
<1>2. t.start \in Nat /\ t.count \in Nat /\ s.size \in Nat
  BY <1>1 DEF ATask, AResultSet
<1>3. k \in Nat /\ i \in Nat
  <2>1. \A x, y, z, w \in Nat : Most(0, Least(x, y - z) - w) \in Nat /\ z + w \in Nat
    BY DEF Most, Least
  <2> HIDE DEF s, t
  <2> QED BY <1>2, <2>1
<1>4. both \in SUBSET AnEntry
  <2>1. \A at \in ats : at \in Nat
    BY <1>2
  <2>2. \A at \in ats : Entry(c, at, Rec(c, set, at)) \in AnEntry
    BY <2>1, RecordTypes
  <2>3. left \subseteq AnEntry
    BY <1>1 DEF AResultSet
  <2> HIDE DEF ats
  <2> QED BY <2>2, <2>3
<1>5. TakeRecords(c, st, set, m).c = [c EXCEPT !.rs[1].cache = both, !.task[1].count = k, !.task[1].start = i]
  BY DEF TakeRecords
<1> HIDE DEF both, k, i
<1>6. [c EXCEPT !.rs[1].cache = both, !.task[1].count = k, !.task[1].start = i] = With(c, r, u)
  <2>1. 1 \in DOMAIN c.rs /\ 1 \in DOMAIN c.task
    BY FirstOf DEF Client
  <2> QED BY <2>1 DEF With, Client
<1>7. /\ r \in AResultSet /\ r.key = s.key /\ r.size = s.size /\ r.live = s.live /\ r.sort = s.sort /\ r.order = s.order
      /\ r.cache = both
  <2> HIDE DEF s
  <2> QED BY <1>1, <1>4 DEF AResultSet
<1>8. /\ u \in ATask /\ u.count = k /\ u.start = i
      /\ u.which = t.which /\ u.from = t.from /\ u.upto = t.upto /\ u.syntax = t.syntax /\ u.sent = t.sent
  <2> HIDE DEF t
  <2> QED BY <1>1, <1>3 DEF ATask
<1> HIDE DEF r, u
<1>9. Takes(c, set, m, r, u)
  BY <1>7, <1>8 DEF Takes, both, k, i
<1> QED BY <1>5, <1>6, <1>9

\* The records are put into the result set.
LEMMA SteadyTaken ==
  ASSUME NEW p, NEW v, NEW n, NEW c, Steady(p, v, n, c), c.rs[1].live # 0,
         NEW set, TheSet(c, set), NEW m \in Nat, NEW st,
         m <= c.task[1].count, m = 0 \/ c.task[1].start + m <= c.rs[1].size
  PROVE  LET d == TakeRecords(c, st, set, m).c IN
         /\ Steady(p, v, n, d) /\ d.task[1].sent = c.task[1].sent /\ d.rs[1].live = c.rs[1].live
         /\ m = c.task[1].count => d.task[1].count = 0
<1> DEFINE s == c.rs[1]
           t == c.task[1]
           d == TakeRecords(c, st, set, m).c
<1>1. c \in Client /\ c.rs # <<>> /\ c.task # <<>> /\ Named(p, n, c) /\ Base(p, v, c) /\ set \in ASet
  BY DEF Steady, TheSet
<1>2. PICK r, u : d = With(c, r, u) /\ Takes(c, set, m, r, u)
  BY <1>1, TakeIs
<1> HIDE DEF d
<1> DEFINE ats == t.start..(t.start + m - 1)
<1>3. /\ r \in AResultSet /\ u \in ATask
      /\ r.key = s.key /\ r.size = s.size /\ r.live = s.live /\ r.sort = s.sort /\ r.order = s.order
      /\ r.cache = {e \in s.cache : ~(e.at \in ats /\ e.syntax = t.syntax)} \cup {Entry(c, at, Rec(c, set, at)) : at \in ats}
      /\ u.count = Most(0, Least(t.count, s.size - t.start) - m) /\ u.start = t.start + m
      /\ u.which = t.which /\ u.from = t.from /\ u.upto = t.upto /\ u.syntax = t.syntax /\ u.sent = t.sent
  BY <1>2 DEF Takes
<1>4. s \in AResultSet /\ t \in ATask
  BY <1>1, PartsOf
<1>5. t.start \in Nat /\ t.count \in Nat /\ s.size \in Nat
  BY <1>4 DEF ATask, AResultSet
<1>6. \A at \in ats : at \in Nat /\ ~(at < t.start)
  BY <1>5
<1>7. \A at \in ats : Fits(c, at, Rec(c, set, at))
  BY <1>1, <1>6, TheRecord
<1>8. \A e \in s.cache : e.at < t.start => e \in r.cache
  BY <1>3, <1>6
<1>9. \A e \in r.cache \ s.cache : OfTheSet(c, e)
  BY <1>3, <1>7 DEF Fits
<1>10. \A at \in t.start..(u.start - 1) : \E e \in r.cache : e.at = at /\ e.syntax = t.syntax
  <2>1. u.start - 1 = t.start + m - 1
    BY <1>3, <1>5
  <2>2. t.start..(u.start - 1) = ats
    BY <2>1
  <2> HIDE DEF ats
  <2>3. ASSUME NEW at \in ats PROVE \E e \in r.cache : e.at = at /\ e.syntax = t.syntax
    <3> DEFINE e == Entry(c, at, Rec(c, set, at))
    <3>1. e \in r.cache
      BY <1>3
    <3>2. e.at = at /\ e.syntax = t.syntax
      BY <1>7 DEF Fits
    <3> QED BY <3>1, <3>2
  <2> QED BY <2>2, <2>3
<1>11. /\ t.start <= u.start /\ u.start + u.count <= t.start + t.count
       /\ t.count = 0 => u.count = 0
       /\ u.start + u.count = t.start + t.count \/ s.size <= u.start + u.count
       /\ m = t.count => u.count = 0
  <2>0. m <= t.count /\ (m = 0 \/ t.start + m <= s.size)
    OBVIOUS
  <2> DEFINE uc == u.count
             us == u.start
             tc == t.count
             ts == t.start
             z == s.size
  <2>1. uc = Most(0, Least(tc, z - ts) - m) /\ us = ts + m /\ tc \in Nat /\ ts \in Nat /\ z \in Nat
        /\ m <= tc /\ (m = 0 \/ ts + m <= z)
    BY <1>3, <1>5, <2>0
  <2> HIDE DEF uc, us, tc, ts, z
  <2>2. /\ ts <= us /\ us + uc <= ts + tc /\ (tc = 0 => uc = 0)
        /\ us + uc = ts + tc \/ z <= us + uc
        /\ m = tc => uc = 0
    BY <2>1 DEF Most, Least
  <2> QED BY <2>2 DEF uc, us, tc, ts, z
<1> HIDE DEF s, t, ats
<1>12. Further(c, r, u)
  BY <1>3, <1>8, <1>9, <1>10, <1>11 DEF Further, s, t
<1>13. Steady(p, v, n, d) /\ d.rs[1] = r /\ d.task[1] = u
  BY <1>2, <1>3, <1>12, SteadyFurther
<1> QED BY <1>3, <1>11, <1>13 DEF d, s, t

\* And into the cache.
LEMMA StoreTaken ==
  ASSUME NEW p, NEW v, NEW n \in Clients, NEW c \in Client, c.task # <<>>, Named(p, n, c), Base(p, v, c),
         NEW st, StoreSafe(p, v, st), NEW set, NEW m \in Nat, m = 0 \/ TheSet(c, set)
  PROVE  StoreSafe(p, v, TakeRecords(c, st, set, m).st)
<1> DEFINE t == c.task[1]
           ats == t.start..(t.start + m - 1)
           recs == [at \in ats |-> Rec(c, set, at)]
<1>1. t.start \in Nat
  BY PartsOf DEF ATask
<1>2. \A at \in ats : at \in Nat /\ m # 0
  BY <1>1
<1>3. \A at \in ats : MayKeep(p, c, at, Rec(c, set, at))
  BY <1>2, TheRecord
<1>4. \A at \in DOMAIN recs : MayKeep(p, c, at, recs[at])
  <2> HIDE DEF ats
  <2> QED BY <1>3
<1>5. TakeRecords(c, st, set, m).st = MemcachedAdd(c, st, recs)
  BY DEF TakeRecords
<1> HIDE DEF recs
<1> QED BY <1>4, <1>5, RecordsKept

-----------------------------------------------------------------------------
(***************************************************************************)
(* What the server finds                                                   *)
(***************************************************************************)
LEMMA FoundIs ==
  ASSUME QueriesMade, proto \in Protocols, version \in 1..Len(Hits), NEW n \in Clients, NEW c \in Client, Named(proto, n, c)
  PROVE  LET set == Found(c, c.q.z) IN
         /\ set \in ASet /\ set.text = c.q.string /\ set.user = <<c.user, c.group, c.password>> /\ set.db = c.db
         /\ Size(set) = Hits[version] /\ Size(set) \in RealCounts(version) /\ Size(set) \in Nat
         /\ proto = "SRU" => set.sorts = SortFor(proto, c.q)
         /\ proto = "Z3950" /\ QuerySortspec(c.q) = <<>> => set.sorts = SortFor(proto, c.q)
<1> DEFINE q == c.q
           F == FullQuery(q).sort
           X == IF proto = "SRU" THEN q.sru11 ELSE <<>>
           set == Found(c, q.z)
           so == F \o X
           us == <<c.user, c.group, c.password>>
<1>1. Whole(q) /\ c.db \in Databases
  BY NamedIs
<1>2. q.z[1] = FullQuery(q) /\ FullQuery(q).string = q.string /\ q.string \in Str
  BY <1>1 DEF Whole, FullQuery, QueryText, Query
<1>3. F \in Seq(Order) /\ X \in Seq(Order)
  <2>1. <<>> \in Seq(Order)
    BY SeqClosed
  <2> HIDE DEF q
  <2> QED BY <1>1, <2>1, SortIsOrder
<1>4. F \o X \in Seq(Order)
  <2> HIDE DEF F, X
  <2> QED BY <1>3, SeqClosed
<1>5. set = [text |-> q.string, sorts |-> so, user |-> us, db |-> c.db, version |-> version]
  BY <1>2 DEF Found, ServerSet, QuerySru11
<1>6. us \in Seq(Str) \X Seq(Str) \X Seq(Str) /\ c.db \in Database
  BY DEF Client
<1>7. so \in Seq(Order)
  BY <1>4
<1> HIDE DEF set, so, us
<1>8. set \in ASet /\ set.text = q.string /\ set.sorts = so /\ set.user = us /\ set.db = c.db /\ set.version = version
  BY <1>2, <1>5, <1>6, <1>7 DEF ASet
<1>9. Size(set) = Hits[version]
  BY <1>8 DEF Size
<1>10. Hits[version] \in RealCounts(version) /\ Hits[version] \in Nat
  <2>1. version \in 1..version
    OBVIOUS
  <2>2. Hits[version] \in RealCounts(version)
    BY <2>1 DEF RealCounts
  <2> QED BY <2>2, CountsAreNumbers
<1>11. proto = "SRU" => so = SortFor(proto, q)
  <2>1. F \o Apart(proto, q) = SortFor(proto, q)
    BY <1>1, SortsReach
  <2>2. proto = "SRU" => Apart(proto, q) = X
    BY DEF Apart
  <2> HIDE DEF q, F, X
  <2> QED BY <2>1, <2>2 DEF so
<1>12. proto = "Z3950" /\ QuerySortspec(q) = <<>> => so = SortFor(proto, q)
  <2>1. F \o Apart(proto, q) = SortFor(proto, q)
    BY <1>1, SortsReach
  <2>2. proto = "Z3950" /\ QuerySortspec(q) = <<>> => Apart(proto, q) = X
    BY DEF Apart
  <2> HIDE DEF q, F, X
  <2> QED BY <2>1, <2>2 DEF so
<1> QED BY <1>8, <1>9, <1>10, <1>11, <1>12 DEF set, us

LEMMA CountsShrink ==
  ASSUME version \in 1..Len(Hits), Shrinks(version), NEW x \in RealCounts(version)
  PROVE  Hits[version] <= x
<1>1. PICK w \in 1..version : x = Hits[w]
  BY DEF RealCounts
<1>2. w <= version /\ version \in 1..version
  OBVIOUS
<1> QED BY <1>1, <1>2 DEF Shrinks

\* What the answer to a search changes.
Heard(c, d, x) ==
  /\ d \in Client /\ SameButParts(c, d) /\ d.rs # <<>> /\ d.rs[1].size = x /\ d.rs[1].live = 2
  /\ d.rs[1].key = c.rs[1].key /\ d.rs[1].sort = c.rs[1].sort /\ d.rs[1].order = c.rs[1].order
  /\ d.rs[1].cache = c.rs[1].cache
  /\ d.task = c.task /\ d.wire = <<>>

\* The answer's count becomes the size of the result set.
Counted(c, vs, x) == [c EXCEPT !.wire = <<>>, !.srv = vs, !.rs[1].size = x, !.rs[1].live = 2]

LEMMA CountHeard ==
  ASSUME NEW c \in Client, c.rs # <<>>, NEW x \in Nat, NEW vs \in Seq(ASet)
  PROVE  Heard(c, Counted(c, vs, x), x) /\ Counted(c, vs, x).srv = vs
<1> DEFINE s == c.rs[1]
           r == [s EXCEPT !.size = x, !.live = 2]
           rs == [c.rs EXCEPT ![1] = r]
           e == <<>>
           d == [c EXCEPT !.wire = e, !.srv = vs, !.rs = rs]
<1>1. s \in AResultSet /\ c.rs \in Seq(AResultSet) /\ e \in Seq(ARequest)
  BY PartsOf, SeqClosed DEF Client
<1>2. r \in AResultSet /\ r.size = x /\ r.live = 2 /\ r.key = s.key /\ r.sort = s.sort /\ r.order = s.order /\ r.cache = s.cache
  <2> HIDE DEF s
  <2> QED BY <1>1 DEF AResultSet
<1>3. Counted(c, vs, x) = d
  <2>1. 1 \in DOMAIN c.rs
    BY FirstOf DEF Client
  <2> QED BY <2>1 DEF Counted, Client
<1> HIDE DEF r
<1>4. rs \in Seq(AResultSet) /\ rs # <<>> /\ rs[1] = r
  BY <1>1, <1>2, FirstOf
<1> HIDE DEF rs, e
<1>5. d \in Client /\ SameButParts(c, d) /\ d.rs = rs /\ d.task = c.task /\ d.wire = e /\ d.srv = vs /\ d.last = c.last
  BY <1>1, <1>4 DEF Client, SameButParts
<1> HIDE DEF d
<1> QED BY <1>2, <1>3, <1>4, <1>5 DEF e, Heard

LEMMA CountHeardAlone ==
  ASSUME NEW c \in Client, c.rs # <<>>, NEW x
  PROVE  [c EXCEPT !.wire = <<>>, !.rs[1].size = x, !.rs[1].live = 2] = Counted(c, c.srv, x)
<1> DEFINE e == <<>>
           rs == [c.rs EXCEPT ![1] = [[c.rs[1] EXCEPT !.size = x] EXCEPT !.live = 2]]
<1>1. 1 \in DOMAIN c.rs
  BY FirstOf DEF Client
<1>2. [c EXCEPT !.wire = <<>>, !.rs[1].size = x, !.rs[1].live = 2] = [c EXCEPT !.wire = e, !.rs = rs]
  BY <1>1 DEF Client
<1>3. Counted(c, c.srv, x) = [c EXCEPT !.wire = e, !.srv = c.srv, !.rs = rs]
  BY <1>1 DEF Counted, Client
<1> HIDE DEF e, rs
<1>4. [c EXCEPT !.wire = e, !.rs = rs] = [c EXCEPT !.wire = e, !.srv = c.srv, !.rs = rs]
  BY DEF Client
<1> QED BY <1>2, <1>3, <1>4

LEMMA HeardWell ==
  ASSUME version \in 1..Len(Hits), Shrinks(version),
         NEW p, NEW n, NEW c, Stands(p, version, n, c), c.task # <<>>, c.error = "NONE", Progress(c),
         NEW d, Heard(c, d, Hits[version])
  PROVE  /\ Named(p, n, d) /\ Base(p, version, d) /\ Progress(d)
<1> DEFINE s == c.rs[1]
           t == c.task[1]
           h == Hits[version]
<1>1. /\ d \in Client /\ SameButParts(c, d) /\ d.rs # <<>> /\ d.rs[1].size = h /\ d.rs[1].live = 2
      /\ d.rs[1].key = s.key /\ d.rs[1].sort = s.sort /\ d.rs[1].order = s.order
      /\ d.rs[1].cache = s.cache
      /\ d.task = c.task /\ d.wire = <<>>
  BY DEF Heard
<1>2. c \in Client /\ c.rs # <<>> /\ Named(p, n, c) /\ Base(p, version, c)
  BY DEF Stands
<1>3. s \in AResultSet /\ t \in ATask
  BY <1>2, PartsOf
<1>4. h \in RealCounts(version) /\ h \in Nat
  <2>1. version \in 1..version
    OBVIOUS
  <2>2. h \in RealCounts(version)
    BY <2>1 DEF RealCounts
  <2> QED BY <2>2, CountsAreNumbers
<1> HIDE DEF h
<1>5. Named(p, n, d)
  BY <1>1, <1>2 DEF Named, SameButParts
<1>6. Base(p, version, d)
  <2>1. \A e \in s.cache : OfTheSet(d, e)
    BY <1>1, <1>2 DEF Base, OfTheSet, SameButParts
  <2> QED BY <1>1, <1>2, <1>4, <2>1 DEF Base, SameButParts, Uses
<1>7. Progress(d)
  <2>1. t.start \in Nat /\ t.count \in Nat /\ t.upto \in Nat /\ s.size \in Nat
    BY <1>3 DEF ATask, AResultSet
  <2>2. /\ t.which = "SEARCH" /\ t.from <= t.start /\ t.start + t.count <= t.upto
        /\ FilledTo(c, t, t.start)
        /\ IF s.live = 0 THEN t.start + t.count = t.upto
           ELSE t.upto <= t.start + t.count \/ s.size <= t.start + t.count
    BY DEF Progress
  <2>3. s.live # 0 => h <= s.size
    <3>1. s.live # 0 => s.size \in RealCounts(version)
      BY <1>2 DEF Base
    <3> QED BY <3>1, CountsShrink DEF h
  <2>4. t.upto <= t.start + t.count \/ h <= t.start + t.count
    BY <1>4, <2>1, <2>2, <2>3
  <2>5. FilledTo(d, t, t.start)
    BY <1>1, <2>2 DEF FilledTo
  <2> QED BY <1>1, <2>2, <2>4, <2>5 DEF Progress
<1> QED BY <1>5, <1>6, <1>7

\* A client that has sent a request waits for the answer.
LEMMA Waits ==
  ASSUME NEW p, NEW v, NEW n, NEW c, ClientSafe(p, v, n, c), c.wire # <<>>
  PROVE  /\ Stands(p, v, n, c) /\ c.task # <<>> /\ Waiting(p, c) /\ c.error = "NONE"
         /\ c.task[1] \in ATask /\ c.rs[1] \in AResultSet /\ c.wire[1] \in ARequest
<1>1. c \in Client /\ c.rs # <<>> /\ c.calls > 0
  <2>1. c.calls \in Nat
    BY DEF ClientSafe, Client
  <2> QED BY <2>1 DEF ClientSafe
<1>2. c.task # <<>>
  BY <1>1 DEF ClientSafe, Finished
<1>3. Waiting(p, c)
  BY <1>1, <1>2 DEF ClientSafe
<1>4. Stands(p, v, n, c)
  BY <1>1 DEF ClientSafe, Stands
<1>5. c.error = "NONE"
  BY <1>3 DEF Waiting
<1> QED BY <1>1, <1>2, <1>3, <1>4, <1>5, PartsOf

\* A sort is asked for.
LEMMA SortSent ==
  ASSUME NEW v, NEW n, NEW c, Stands("Z3950", v, n, c), c.task # <<>>, c.error = "NONE",
         c.rs[1].live = 2, c.task[1].sent <= 1, NEW q, q = c.rs[1].order,
         c.task[1].which = "SEARCH" => Progress(c),
         c.task[1].which = "SORT" => c.task[1].from = 0 /\ c.task[1].upto = 0
  PROVE  ClientSafe("Z3950", v, n, Send(c, "SORT", q, 0))
<1> DEFINE kind == "SORT"
           m == 0
           p == "Z3950"
           d == Send(c, kind, q, m)
           t == c.task[1]
           u == d.task[1]
<1>1. c \in Client /\ c.rs # <<>> /\ kind \in Kinds /\ m \in Nat
  BY DEF Stands, Kinds
<1>2. q \in Seq(Text) \cup Seq(Order)
  BY <1>1, PartsOf DEF AResultSet
<1> HIDE DEF kind, m
<1>3. /\ d \in Client /\ SameButParts(c, d) /\ d.rs = c.rs /\ d.srv = c.srv /\ d.last = c.last
      /\ d.task # <<>> /\ SameTask(c.task[1], d.task[1]) /\ d.task[1].sent = c.task[1].sent + 1
      /\ d.wire # <<>> /\ d.wire[1].kind = kind /\ d.wire[1].q = q /\ d.wire[1].start = c.task[1].start
      /\ d.wire[1].count = m
  BY <1>1, <1>2, SendIs
<1> HIDE DEF d
<1>4. Stands(p, v, n, d)
  BY <1>3, StandsStill
<1>5. u.which = t.which /\ u.from = t.from /\ u.upto = t.upto /\ u.start = t.start
  BY <1>3 DEF SameTask
<1>6. t.which = "SEARCH" => Progress(d)
  BY <1>3, GoesOnAlike
<1>7. u.sent <= 2
  <2>1. t.sent \in Nat
    BY <1>1, PartsOf DEF ATask
  <2> QED BY <1>3, <2>1
<1>8. d.error = "NONE"
  BY <1>3 DEF SameButParts
<1>9. Waiting(p, d)
  BY <1>3, <1>5, <1>6, <1>7, <1>8 DEF Waiting, kind
<1>10. ClientSafe(p, v, n, d)
  BY <1>3, <1>4, <1>9, SafeWhileWaiting
<1> QED BY <1>10 DEF d, kind, m

-----------------------------------------------------------------------------
(***************************************************************************)
(* The answers                                                             *)
(***************************************************************************)
HandledSafe(n, r) == ClientSafe(proto, version, n, r.c) /\ StoreSafe(proto, version, r.st)

Hypotheses == KeysApart /\ QueriesMade

\* What holds when an answer comes.
Hears(n, c, st, kind) ==
  /\ proto \in Protocols /\ version \in 1..Len(Hits) /\ Shrinks(version)
  /\ StoreSafe(proto, version, st) /\ ClientSafe(proto, version, n, c)
  /\ c.wire # <<>> /\ c.wire[1].kind = kind

LEMMA WaitsForSearch ==
  ASSUME NEW p, NEW c, Waiting(p, c), c.wire[1].kind = "SEARCH"
  PROVE  /\ p = "Z3950" /\ c.rs[1].live # 2 /\ c.wire[1].q = c.q.z /\ c.task[1].sent <= 1
         /\ c.wire[1].count = 0 \/ (c.wire[1].count = c.task[1].count /\ c.task[1].start = 0 /\ c.rs[1].sort = <<>>)
         /\ Progress(c)
BY DEF Waiting

\* Without a sort to be sent the set is in the order wanted.
LEMMA SearchedInOrder ==
  ASSUME Hypotheses, proto = "Z3950", version \in 1..Len(Hits), Shrinks(version), NEW n \in Clients,
         NEW c, NEW d, Stands(proto, version, n, c), c.task # <<>>, c.error = "NONE", Progress(c), c.rs[1].live # 2,
         c.rs[1].sort = <<>>, Heard(c, d, Hits[version]), d.srv # <<>>, d.srv[1] = Found(c, c.q.z)
  PROVE  Steady(proto, version, n, d) /\ TheSet(d, d.srv[1])
<1> DEFINE set == Found(c, c.q.z)
           s == c.rs[1]
<1>1. /\ d \in Client /\ SameButParts(c, d) /\ d.rs # <<>> /\ d.rs[1].size = Hits[version] /\ d.rs[1].live = 2
      /\ d.rs[1].key = s.key /\ d.rs[1].sort = s.sort /\ d.rs[1].order = s.order
      /\ d.rs[1].cache = s.cache
      /\ d.task = c.task /\ d.wire = <<>>
  BY DEF Heard
<1>2. c \in Client /\ c.rs # <<>> /\ Named(proto, n, c) /\ Base(proto, version, c) /\ c.calls > 0
  BY DEF Stands
<1>3. /\ set \in ASet /\ set.text = c.q.string /\ set.user = <<c.user, c.group, c.password>> /\ set.db = c.db
      /\ Size(set) = Hits[version]
      /\ QuerySortspec(c.q) = <<>> => set.sorts = SortFor(proto, c.q)
  BY <1>2, FoundIs DEF Hypotheses, Protocols
<1> HIDE DEF set
<1>4. QuerySortspec(c.q) = <<>> /\ s.order = SortFor(proto, c.q)
  BY <1>2 DEF Base
<1>5. Named(proto, n, d) /\ Base(proto, version, d) /\ Progress(d)
  BY HeardWell
<1>6. d.srv[1] = set /\ set.sorts = d.rs[1].order
  BY <1>1, <1>3, <1>4 DEF set
<1>7. AtServer(proto, d) /\ InOrder(d)
  BY <1>1, <1>3, <1>6 DEF AtServer, InOrder, SameButParts
<1>8. TheSet(d, d.srv[1])
  BY <1>1, <1>3, <1>6 DEF TheSet, SameButParts
<1>9. d.calls > 0 /\ d.error = "NONE" /\ d.task # <<>>
  BY <1>1, <1>2 DEF SameButParts
<1> QED BY <1>1, <1>5, <1>7, <1>8, <1>9 DEF Steady

\* With one, no records have been asked for, and the sort is sent.
LEMMA SearchedToSort ==
  ASSUME Hypotheses, proto = "Z3950", version \in 1..Len(Hits), Shrinks(version), NEW n \in Clients,
         NEW c, NEW d, Stands(proto, version, n, c), c.task # <<>>, c.error = "NONE", Progress(c), c.rs[1].live # 2,
         c.rs[1].sort # <<>>, c.task[1].sent <= 1,
         Heard(c, d, Hits[version]), d.srv # <<>>, d.srv[1] = Found(c, c.q.z), NEW st
  PROVE  LET x == TakeRecords(d, st, d.srv[1], 0).c IN
         /\ x.rs[1].sort # <<>>
         /\ ClientSafe(proto, version, n, Send([x EXCEPT !.rs[1].sort = <<>>], "SORT", x.rs[1].sort, 0))
<1> DEFINE set == Found(c, c.q.z)
           s == c.rs[1]
           t == c.task[1]
           x == TakeRecords(d, st, d.srv[1], 0).c
<1>1. /\ d \in Client /\ SameButParts(c, d) /\ d.rs # <<>> /\ d.rs[1].size = Hits[version] /\ d.rs[1].live = 2
      /\ d.rs[1].key = s.key /\ d.rs[1].sort = s.sort /\ d.rs[1].order = s.order
      /\ d.rs[1].cache = s.cache
      /\ d.task = c.task /\ d.wire = <<>>
  BY DEF Heard
<1>2. c \in Client /\ c.rs # <<>> /\ Named(proto, n, c) /\ Base(proto, version, c) /\ c.calls > 0
  BY DEF Stands
<1>3. /\ set \in ASet /\ set.text = c.q.string /\ set.user = <<c.user, c.group, c.password>> /\ set.db = c.db
      /\ Size(set) = Hits[version]
  BY <1>2, FoundIs DEF Hypotheses, Protocols
<1>4. Named(proto, n, d) /\ Base(proto, version, d) /\ Progress(d)
  BY HeardWell
<1>5. s.sort = QuerySortspec(c.q) /\ s.order = SortFor(proto, c.q) /\ s.order = s.sort
  <2>1. s.sort = QuerySortspec(c.q) /\ s.order = SortFor(proto, c.q)
    BY <1>2 DEF Base
  <2>2. Whole(c.q)
    BY <1>2, NamedIs DEF Hypotheses
  <2> QED BY <2>1, <2>2, SortIsOrder DEF Protocols
<1>6. d.srv[1] = set
  OBVIOUS
<1> HIDE DEF set
<1>7. PICK r, u : x = With(d, r, u) /\ Takes(d, set, 0, r, u)
  <2>1. 0 \in Nat
    OBVIOUS
  <2> HIDE DEF s, t
  <2> QED BY <1>1, <1>3, <1>6, <2>1, TakeIs
<1> HIDE DEF x
<1>8. /\ r \in AResultSet /\ u \in ATask
      /\ r.key = s.key /\ r.size = Hits[version] /\ r.live = 2 /\ r.sort = s.sort /\ r.order = s.order
      /\ r.cache = s.cache
      /\ u.count = Most(0, Least(t.count, Hits[version] - t.start) - 0) /\ u.start = t.start
      /\ u.which = t.which /\ u.from = t.from /\ u.upto = t.upto /\ u.syntax = t.syntax /\ u.sent = t.sent
  <2>1. t \in ATask
    BY <1>2, PartsOf
  <2>2. t.start \in Nat
    BY <2>1 DEF ATask
  <2> DEFINE ats == t.start..(t.start + 0 - 1)
  <2>3. ats = {}
    BY <2>2
  <2>4. /\ r \in AResultSet /\ u \in ATask
        /\ r.key = s.key /\ r.size = Hits[version] /\ r.live = 2 /\ r.sort = s.sort /\ r.order = s.order
        /\ r.cache = {e \in s.cache : ~(e.at \in ats /\ e.syntax = t.syntax)} \cup {Entry(d, at, Rec(d, set, at)) : at \in ats}
        /\ u.count = Most(0, Least(t.count, Hits[version] - t.start) - 0) /\ u.start = t.start + 0
        /\ u.which = t.which /\ u.from = t.from /\ u.upto = t.upto /\ u.syntax = t.syntax /\ u.sent = t.sent
    <3> HIDE DEF s
    <3> QED BY <1>1, <1>7 DEF Takes
  <2> HIDE DEF ats, s
  <2>5. r.cache = s.cache
    BY <2>3, <2>4
  <2>6. t.start + 0 = t.start
    BY <2>2
  <2> QED BY <2>4, <2>5, <2>6
<1> DEFINE E == <<>>
           r2 == [r EXCEPT !.sort = E]
           y == With(x, r2, u)
<1>9. /\ x \in Client /\ SameButParts(d, x) /\ x.rs # <<>> /\ x.rs[1] = r /\ x.task # <<>> /\ x.task[1] = u
      /\ x.wire = <<>> /\ x.srv = d.srv
  <2>1. d.task # <<>>
    BY <1>1
  <2> HIDE DEF s, t
  <2> QED BY <1>1, <1>7, <1>8, <2>1, WithIs
<1>10. /\ r2 \in AResultSet /\ r2.sort = E /\ r2.key = s.key /\ r2.size = Hits[version] /\ r2.live = 2 /\ r2.order = s.order
       /\ r2.cache = s.cache
  <2>1. E \in Seq(Criterion)
    BY SeqClosed
  <2> HIDE DEF E, s
  <2> QED BY <1>8, <2>1 DEF AResultSet
<1>11. [x EXCEPT !.rs[1].sort = <<>>] = y
  <2>1. [x EXCEPT !.rs[1].sort = E] = [x EXCEPT !.rs[1] = r2]
    BY <1>9, FirstOf DEF Client
  <2> HIDE DEF r2
  <2> QED BY <1>9, <2>1, WithOne DEF E
<1> HIDE DEF r2
<1>12. /\ y \in Client /\ SameButParts(x, y) /\ y.rs # <<>> /\ y.rs[1] = r2 /\ y.task # <<>> /\ y.task[1] = u
       /\ y.wire = <<>> /\ y.srv = d.srv
  <2> HIDE DEF s, t
  <2> QED BY <1>8, <1>9, <1>10, WithIs
<1> HIDE DEF y
<1>13. SameButParts(c, y)
  BY <1>1, <1>9, <1>12 DEF SameButParts
<1>14. Stands(proto, version, n, y)
  <2>1. Named(proto, n, y)
    BY <1>2, <1>10, <1>12, <1>13 DEF Named, SameButParts
  <2>2. Base(proto, version, y)
    <3>1. \A e \in s.cache : OfTheSet(y, e)
      BY <1>2, <1>10, <1>12, <1>13 DEF Base, OfTheSet, SameButParts
    <3>2. Hits[version] \in RealCounts(version)
      BY <1>1, <1>4, <1>13 DEF Base, SameButParts
    <3> QED BY <1>2, <1>5, <1>10, <1>12, <1>13, <3>1, <3>2 DEF Base, SameButParts, Uses
  <2>3. AtServer(proto, y)
    <3>1. y.srv # <<>> /\ y.srv[1] = set /\ y.error = "NONE"
      BY <1>6, <1>12, <1>13 DEF SameButParts
    <3>2. /\ y.rs[1].live = 2 /\ y.rs[1].sort = <<>> /\ y.rs[1].size = Hits[version]
          /\ y.q = c.q /\ y.user = c.user /\ y.group = c.group /\ y.password = c.password /\ y.db = c.db
      BY <1>10, <1>12, <1>13 DEF SameButParts, E
    <3> QED BY <1>3, <3>1, <3>2 DEF AtServer
  <2> QED BY <1>2, <1>12, <1>13, <2>1, <2>2, <2>3 DEF Stands, SameButParts
<1>15. Progress(y)
  <2>1. t \in ATask /\ Hits[version] \in Nat
    BY <1>2, <1>3, PartsOf, CountsAreNumbers
  <2>2. t.start \in Nat /\ t.count \in Nat /\ t.upto \in Nat
    BY <2>1 DEF ATask
  <2>3. /\ t.which = "SEARCH" /\ t.from <= t.start /\ t.start + t.count <= t.upto
        /\ t.upto <= t.start + t.count \/ Hits[version] <= t.start + t.count
        /\ FilledTo(d, t, t.start)
    BY <1>1, <1>4 DEF Progress
  <2>4. FilledTo(y, u, u.start)
    BY <1>1, <1>8, <1>10, <1>12, <2>3 DEF FilledTo
  <2> DEFINE h == Hits[version]
  <2>5. /\ u.start + u.count <= t.upto
        /\ t.upto <= u.start + u.count \/ h <= u.start + u.count
    <3>1. u.count = Most(0, Least(t.count, h - t.start) - 0) /\ u.start = t.start
      BY <1>8
    <3>2. h \in Nat
      BY <2>1
    <3>3. t.start + t.count <= t.upto /\ (t.upto <= t.start + t.count \/ h <= t.start + t.count)
      BY <2>3
    <3> DEFINE a == t.start
               b == t.count
               e == t.upto
               x0 == u.start
               y0 == u.count
    <3>4. a \in Nat /\ b \in Nat /\ e \in Nat /\ y0 = Most(0, Least(b, h - a) - 0) /\ x0 = a
          /\ a + b <= e /\ (e <= a + b \/ h <= a + b)
      BY <2>2, <3>1, <3>3
    <3> HIDE DEF a, b, e, x0, y0, h
    <3>5. x0 + y0 <= e /\ (e <= x0 + y0 \/ h <= x0 + y0)
      BY ONLY <3>2, <3>4 DEF Most, Least
    <3> QED BY <3>5 DEF e, x0, y0
  <2> QED BY <1>8, <1>10, <1>12, <2>3, <2>4, <2>5 DEF Progress
<1>16. ClientSafe("Z3950", version, n, Send(y, "SORT", r.sort, 0))
  <2>1. y.error = "NONE" /\ y.rs[1].live = 2 /\ y.task[1].sent <= 1 /\ r.sort = y.rs[1].order
    BY <1>5, <1>8, <1>10, <1>12, <1>13 DEF SameButParts
  <2>2. y.task[1].which = "SEARCH"
    BY <1>15 DEF Progress
  <2> DEFINE so == r.sort
  <2>3. so = y.rs[1].order
    BY <2>1
  <2> HIDE DEF so
  <2>4. Stands("Z3950", version, n, y)
    BY <1>14
  <2>5. ClientSafe("Z3950", version, n, Send(y, "SORT", so, 0))
    BY <1>12, <1>15, <2>1, <2>2, <2>3, <2>4, SortSent
  <2> QED BY <2>5 DEF so
<1>17. x.rs[1].sort = r.sort /\ r.sort # <<>>
  BY <1>8, <1>9
<1> QED BY <1>11, <1>16, <1>17 DEF x

\* handle_Z3950_search_response.
LEMMA SearchResponseSafe ==
  ASSUME Hypotheses, NEW n \in Clients, NEW c, NEW st, Hears(n, c, st, "SEARCH")
  PROVE  HandledSafe(n, SearchResponse(c, st))
<1> DEFINE w == c.wire[1]
           set == Found(c, w.q)
           x == Size(set)
           counted == MemcachedHitcount(c, st, x)
           vs == <<set>>
           d == Counted(c, vs, x)
           m == Least(w.count, x)
           r == TakeRecords(d, counted, set, m)
<1>1. /\ proto \in Protocols /\ version \in 1..Len(Hits) /\ Shrinks(version)
      /\ StoreSafe(proto, version, st) /\ ClientSafe(proto, version, n, c)
      /\ c.wire # <<>> /\ w.kind = "SEARCH"
  BY DEF Hears
<1>2. /\ Stands(proto, version, n, c) /\ c.task # <<>> /\ Waiting(proto, c) /\ c.error = "NONE"
      /\ c.task[1] \in ATask /\ c.rs[1] \in AResultSet /\ w \in ARequest
  BY <1>1, Waits
<1>3. /\ proto = "Z3950" /\ c.rs[1].live # 2 /\ w.q = c.q.z /\ c.task[1].sent <= 1
      /\ w.count = 0 \/ (w.count = c.task[1].count /\ c.task[1].start = 0 /\ c.rs[1].sort = <<>>)
      /\ Progress(c)
  BY <1>1, <1>2, WaitsForSearch
<1>4. c \in Client /\ c.rs # <<>> /\ Named(proto, n, c)
  BY <1>2 DEF Stands
<1>5. set = Found(c, c.q.z) /\ set \in ASet /\ x = Hits[version] /\ x \in RealCounts(version) /\ x \in Nat
  BY <1>1, <1>3, <1>4, FoundIs DEF Hypotheses
<1>6. SearchResponse(c, st) = [c |-> SortPresent(r.c, r.st), st |-> r.st]
  BY DEF SearchResponse, Counted
<1> HIDE DEF set, x, w
<1>7. StoreSafe(proto, version, counted)
  BY <1>1, <1>4, <1>5, CountKept
<1> HIDE DEF counted
<1>8. vs \in Seq(ASet) /\ vs # <<>> /\ vs[1] = set
  BY <1>5, SeqClosed
<1> HIDE DEF vs
<1>a. Heard(c, d, x) /\ d.srv = vs
  BY <1>4, <1>5, <1>8, CountHeard
<1> HIDE DEF d
<1>9. /\ d \in Client /\ d.rs # <<>> /\ d.rs[1].size = x /\ d.rs[1].live = 2
      /\ d.task = c.task /\ d.wire = <<>> /\ d.srv = vs
  BY <1>a DEF Heard
<1>10. Heard(c, d, Hits[version])
  BY <1>5, <1>a
<1>11. Named(proto, n, d) /\ Base(proto, version, d) /\ Progress(d)
  BY <1>1, <1>2, <1>3, <1>10, HeardWell
<1>12. d.srv # <<>> /\ d.srv[1] = set /\ d.task # <<>>
  BY <1>2, <1>8, <1>9
<1>13. w.count \in Nat /\ m \in Nat /\ m <= w.count /\ m <= x
  <2>1. w.count \in Nat
    BY <1>2 DEF ARequest
  <2> QED BY <1>5, <2>1 DEF Least
<1>14. CASE c.rs[1].sort = <<>>
  <2>1. Steady(proto, version, n, d) /\ TheSet(d, set)
    BY <1>1, <1>2, <1>3, <1>5, <1>10, <1>12, <1>14, SearchedInOrder
  <2>2. m <= d.task[1].count /\ (m = 0 \/ d.task[1].start + m <= d.rs[1].size) /\ d.rs[1].live # 0
    <3>1. c.task[1].count \in Nat
      BY <1>2 DEF ATask
    <3> HIDE DEF m
    <3> QED BY <1>3, <1>5, <1>9, <1>13, <3>1
  <2> HIDE DEF m
  <2> DEFINE e == TakeRecords(d, counted, set, m).c
             kept == TakeRecords(d, counted, set, m).st
  <2>3. Steady(proto, version, n, e) /\ e.task[1].sent = d.task[1].sent /\ e.rs[1].live = d.rs[1].live
    BY <1>13, <2>1, <2>2, SteadyTaken
  <2>4. StoreSafe(proto, version, kept)
    BY <1>7, <1>9, <1>11, <1>12, <1>13, <2>1, StoreTaken
  <2>5. SearchResponse(c, st) = [c |-> SortPresent(e, kept), st |-> kept]
    BY <1>6
  <2> HIDE DEF e, kept
  <2>6. Budget(proto, e)
    <3>1. c.task[1].sent \in Nat
      BY <1>2 DEF ATask
    <3>2. e.rs[1].live = 2 /\ e.task[1].sent <= 2
      BY <1>3, <1>9, <2>3, <3>1
    <3> QED BY <1>3, <3>2 DEF Budget
  <2>7. Ready("Z3950", version, n, e)
    BY <1>3, <2>3, <2>6 DEF Ready
  <2>8. e.rs[1].sort = <<>>
    BY <1>3, <1>9, <2>3 DEF Steady, AtServer
  <2>9. SortPresent(e, kept) = Z3950Search(e, kept)
    BY <2>8 DEF SortPresent
  <2>10. ClientSafe("Z3950", version, n, Z3950Search(e, kept))
    BY <1>1, <1>3, <2>4, <2>7, Z3950SearchSafe DEF Hypotheses
  <2> QED BY <1>3, <2>4, <2>5, <2>9, <2>10 DEF HandledSafe
<1>15. CASE c.rs[1].sort # <<>>
  <2>1. m = 0
    BY <1>3, <1>5, <1>13, <1>15
  <2> HIDE DEF m
  <2> DEFINE e == TakeRecords(d, counted, set, 0).c
             kept == TakeRecords(d, counted, set, 0).st
  <2>2. SearchResponse(c, st) = [c |-> SortPresent(e, kept), st |-> kept]
    BY <1>6, <2>1
  <2>3. StoreSafe(proto, version, kept)
    <3>1. m \in Nat /\ (m = 0 \/ TheSet(d, set))
      BY <1>13, <2>1
    <3>2. StoreSafe(proto, version, TakeRecords(d, counted, set, m).st)
      BY <1>7, <1>9, <1>11, <1>12, <3>1, StoreTaken
    <3> QED BY <2>1, <3>2
  <2>4. /\ e.rs[1].sort # <<>>
        /\ ClientSafe(proto, version, n, Send([e EXCEPT !.rs[1].sort = <<>>], "SORT", e.rs[1].sort, 0))
    <3>1. d.srv[1] = Found(c, c.q.z)
      BY <1>5, <1>12
    <3>2. LET y == TakeRecords(d, counted, d.srv[1], 0).c IN
          /\ y.rs[1].sort # <<>>
          /\ ClientSafe(proto, version, n, Send([y EXCEPT !.rs[1].sort = <<>>], "SORT", y.rs[1].sort, 0))
      BY <1>1, <1>2, <1>3, <1>10, <1>12, <1>15, <3>1, SearchedToSort
    <3> QED BY <1>12, <3>2
  <2> HIDE DEF e, kept
  <2>5. SortPresent(e, kept) = Send([e EXCEPT !.rs[1].sort = <<>>], "SORT", e.rs[1].sort, 0)
    BY <2>4 DEF SortPresent
  <2> QED BY <2>2, <2>3, <2>4, <2>5 DEF HandledSafe
<1> QED BY <1>14, <1>15

\* A search that fails: no count of a connection with a cache is stored.
LEMMA FailedSafe ==
  ASSUME NEW p \in Protocols, NEW v, NEW n, NEW c, Stands(p, v, n, c), c.srv = <<>>
  PROVE  ClientSafe(p, v, n, Fail([c EXCEPT !.wire = <<>>, !.rs[1].size = 0, !.rs[1].live = 2]))
<1> DEFINE z == 0
           d == [c EXCEPT !.wire = <<>>, !.rs[1].size = z, !.rs[1].live = 2]
           E == <<>>
           f == [d EXCEPT !.task = E, !.last = E, !.error = "DIAG"]
<1>1. c \in Client /\ c.rs # <<>> /\ c.srv \in Seq(ASet) /\ z \in Nat /\ E \in Seq(ATask)
  BY SeqClosed DEF Stands, Client
<1>2. Fail(d) = f
  BY DEF Fail
<1>3. d = Counted(c, c.srv, z)
  BY <1>1, CountHeardAlone
<1> HIDE DEF z, d
<1>a. Heard(c, d, z) /\ d.srv = c.srv
  BY <1>1, <1>3, CountHeard
<1>4. /\ d \in Client /\ SameButParts(c, d) /\ d.rs # <<>> /\ d.rs[1].live = 2
      /\ d.rs[1].key = c.rs[1].key /\ d.rs[1].sort = c.rs[1].sort /\ d.rs[1].order = c.rs[1].order
      /\ d.rs[1].cache = c.rs[1].cache
      /\ d.wire = <<>> /\ d.srv = c.srv
  BY <1>a DEF Heard
<1> HIDE DEF E
<1>5. /\ f \in Client /\ f.rs = d.rs /\ f.wire = <<>> /\ f.srv = <<>> /\ f.task = E /\ f.last = E /\ f.error = "DIAG"
      /\ f.backend = d.backend /\ f.user = d.user /\ f.group = d.group
      /\ f.password = d.password /\ f.db = d.db /\ f.q = d.q /\ f.calls = d.calls
  BY <1>1, <1>4 DEF Client
<1> HIDE DEF f
<1>6. /\ f.backend = c.backend /\ f.user = c.user /\ f.group = c.group
      /\ f.password = c.password /\ f.db = c.db /\ f.q = c.q /\ f.calls = c.calls
  BY <1>4, <1>5 DEF SameButParts
<1>7. Named(p, n, f)
  BY <1>4, <1>5, <1>6 DEF Stands, Named
<1>8. Base(p, v, f)
  <2>1. \A e \in c.rs[1].cache : OfTheSet(f, e)
    BY <1>4, <1>5, <1>6 DEF Stands, Base, OfTheSet
  <2> QED BY <1>4, <1>5, <1>6, <2>1 DEF Stands, Base, Uses
<1>9. AtServer(p, f)
  BY <1>5 DEF AtServer
<1>10. Stands(p, v, n, f)
  BY <1>4, <1>5, <1>6, <1>7, <1>8, <1>9 DEF Stands
<1>11. Finished(f) /\ f.task = <<>>
  BY <1>4, <1>5 DEF Finished, InOrder, E
<1>12. ClientSafe(p, v, n, f)
  BY <1>10, <1>11, SafeWhenFinished
<1> QED BY <1>2, <1>12 DEF d, z

LEMMA SearchRefusedSafe ==
  ASSUME NEW n \in Clients, NEW c, NEW st, Hears(n, c, st, "SEARCH"), ~Uses(c)
  PROVE  HandledSafe(n, SearchRefused(c, st))
<1>1. /\ proto \in Protocols /\ StoreSafe(proto, version, st) /\ ClientSafe(proto, version, n, c)
      /\ c.wire # <<>> /\ c.wire[1].kind = "SEARCH"
  BY DEF Hears
<1>2. Stands(proto, version, n, c) /\ Waiting(proto, c)
  BY <1>1, Waits
<1>3. c.rs[1].live # 2
  BY <1>1, <1>2, WaitsForSearch
<1>4. c.srv = <<>>
  BY <1>2, <1>3 DEF Stands, AtServer
<1> DEFINE f == Fail([c EXCEPT !.wire = <<>>, !.rs[1].size = 0, !.rs[1].live = 2])
<1>5. ClientSafe(proto, version, n, f)
  BY <1>1, <1>2, <1>4, FailedSafe
<1> HIDE DEF f
<1>6. SearchRefused(c, st) = [c |-> f, st |-> st]
  BY DEF SearchRefused, MemcachedHitcount, f
<1> QED BY <1>1, <1>5, <1>6 DEF HandledSafe

LEMMA SrwRefusedSafe ==
  ASSUME NEW n \in Clients, NEW c, NEW st, Hears(n, c, st, "SRU")
  PROVE  HandledSafe(n, SrwRefused(c, st))
<1>1. /\ proto \in Protocols /\ StoreSafe(proto, version, st) /\ ClientSafe(proto, version, n, c)
      /\ c.wire # <<>> /\ c.wire[1].kind = "SRU"
  BY DEF Hears
<1>2. Stands(proto, version, n, c) /\ Waiting(proto, c)
  BY <1>1, Waits
<1>3. proto = "SRU"
  BY <1>1, <1>2 DEF Waiting
<1>4. c.srv = <<>>
  BY <1>2, <1>3 DEF Stands, AtServer
<1> DEFINE f == Fail([c EXCEPT !.wire = <<>>, !.rs[1].size = 0, !.rs[1].live = 2])
<1>5. ClientSafe(proto, version, n, f)
  BY <1>1, <1>2, <1>4, FailedSafe
<1> HIDE DEF f
<1>6. SrwRefused(c, st) = [c |-> f, st |-> st]
  BY DEF SrwRefused, f
<1> QED BY <1>1, <1>5, <1>6 DEF HandledSafe

\* The answer is taken from the wire.
LEMMA WireEmptied ==
  ASSUME NEW p, NEW v, NEW n, NEW c, Stands(p, v, n, c)
  PROVE  LET d == [c EXCEPT !.wire = <<>>] IN
         /\ Stands(p, v, n, d) /\ SameButParts(c, d) /\ d.rs = c.rs /\ d.task = c.task /\ d.srv = c.srv /\ d.last = c.last
         /\ d.wire = <<>> /\ (InOrder(c) => InOrder(d)) /\ (c.task # <<>> /\ Progress(c) => Progress(d))
<1> DEFINE E == <<>>
           d == [c EXCEPT !.wire = E]
<1>1. c \in Client /\ E \in Seq(ARequest)
  BY SeqClosed DEF Stands
<1> HIDE DEF E
<1>2. d \in Client /\ SameButParts(c, d) /\ d.rs = c.rs /\ d.task = c.task /\ d.srv = c.srv /\ d.last = c.last /\ d.wire = E
  BY <1>1 DEF Client, SameButParts
<1> HIDE DEF d
<1>3. Stands(p, v, n, d) /\ (InOrder(c) => InOrder(d))
  BY <1>1, <1>2, StandsStill
<1>4. Progress(c) => Progress(d)
  BY <1>2 DEF Progress, FilledTo
<1> QED BY <1>2, <1>3, <1>4 DEF d, E

\* handle_Z3950_present_response: all the records that were asked for come.
LEMMA PresentResponseSafe ==
  ASSUME Hypotheses, NEW n \in Clients, NEW c, NEW st, Hears(n, c, st, "PRESENT")
  PROVE  HandledSafe(n, PresentResponse(c, st))
<1> DEFINE w == c.wire[1]
           t == c.task[1]
           set == c.srv[1]
           d == [c EXCEPT !.wire = <<>>]
           m == Least(w.count, Size(set) - t.start)
           r == TakeRecords(d, st, set, m)
<1>1. /\ proto \in Protocols /\ version \in 1..Len(Hits)
      /\ StoreSafe(proto, version, st) /\ ClientSafe(proto, version, n, c)
      /\ c.wire # <<>> /\ w.kind = "PRESENT"
  BY DEF Hears
<1>2. /\ Stands(proto, version, n, c) /\ c.task # <<>> /\ Waiting(proto, c) /\ c.error = "NONE"
      /\ t \in ATask /\ c.rs[1] \in AResultSet /\ w \in ARequest
  BY <1>1, Waits
<1>3. /\ proto = "Z3950" /\ c.rs[1].live = 2 /\ t.sent <= 3 /\ w.count = t.count /\ t.count > 0
      /\ t.start + t.count <= c.rs[1].size /\ InOrder(c) /\ Progress(c)
  BY <1>1, <1>2 DEF Waiting
<1>4. c \in Client /\ c.rs # <<>> /\ Named(proto, n, c) /\ AtServer(proto, c) /\ c.calls > 0
  BY <1>2 DEF Stands
<1>5. /\ c.srv # <<>> /\ Size(set) = c.rs[1].size /\ set.text = c.q.string
      /\ set.user = <<c.user, c.group, c.password>> /\ set.db = c.db
  BY <1>2, <1>3, <1>4 DEF AtServer
<1>6. set.sorts = c.rs[1].order /\ set \in ASet
  BY <1>3, <1>4, <1>5, PartsOf DEF InOrder
<1>7. PresentResponse(c, st) = [c |-> Z3950Search(r.c, r.st), st |-> r.st]
  BY DEF PresentResponse
<1>8. m = t.count /\ m \in Nat
  <2>1. t.count \in Nat /\ t.start \in Nat /\ c.rs[1].size \in Nat
    BY <1>2 DEF ATask, AResultSet
  <2>2. w.count <= Size(set) - t.start
    BY <1>3, <1>5, <2>1
  <2> QED BY <1>3, <2>1, <2>2 DEF Least
<1> HIDE DEF m
<1>9. /\ Stands(proto, version, n, d) /\ SameButParts(c, d) /\ d.rs = c.rs /\ d.task = c.task /\ d.srv = c.srv
      /\ d.wire = <<>> /\ InOrder(d) /\ Progress(d)
  BY <1>2, <1>3, WireEmptied
<1> HIDE DEF d
<1>10. /\ d \in Client /\ d.rs # <<>> /\ Named(proto, n, d) /\ Base(proto, version, d) /\ AtServer(proto, d)
       /\ d.calls > 0
  BY <1>9 DEF Stands
<1>11. Steady(proto, version, n, d)
  BY <1>2, <1>9, <1>10 DEF Steady, SameButParts
<1>12. TheSet(d, set)
  BY <1>5, <1>6, <1>9 DEF TheSet, SameButParts
<1> DEFINE e == TakeRecords(d, st, set, m).c
           kept == TakeRecords(d, st, set, m).st
<1>13. /\ Steady(proto, version, n, e) /\ e.task[1].sent = d.task[1].sent /\ e.rs[1].live = d.rs[1].live
       /\ e.task[1].count = 0
  <2>1. d.rs[1].live # 0 /\ m <= d.task[1].count /\ (m = 0 \/ d.task[1].start + m <= d.rs[1].size) /\ m = d.task[1].count
    <3>1. m = t.count /\ m <= m
      BY <1>8
    <3> HIDE DEF t
    <3>2. d.task[1] = t /\ d.rs[1] = c.rs[1]
      BY <1>9 DEF t
    <3> QED BY <1>3, <3>1, <3>2
  <2> QED BY <1>8, <1>11, <1>12, <2>1, SteadyTaken
<1>14. StoreSafe(proto, version, kept)
  <2>1. d.task # <<>>
    BY <1>2, <1>9
  <2> QED BY <1>1, <1>8, <1>10, <1>12, <2>1, StoreTaken
<1>15. PresentResponse(c, st) = [c |-> Z3950Search(e, kept), st |-> kept]
  BY <1>7
<1> HIDE DEF e, kept
<1>16. Budget(proto, e)
  BY <1>3, <1>9, <1>13 DEF Budget
<1>17. ClientSafe("Z3950", version, n, Z3950Search(e, kept))
  BY <1>1, <1>3, <1>13, <1>14, <1>16, Z3950SearchSafe DEF Hypotheses, Ready
<1> QED BY <1>3, <1>14, <1>15, <1>17 DEF HandledSafe

\* The set at the server is sorted now.
LEMMA SortResponseSafe ==
  ASSUME Hypotheses, NEW n \in Clients, NEW c, NEW st, Hears(n, c, st, "SORT")
  PROVE  HandledSafe(n, SortResponse(c, st))
<1> DEFINE w == c.wire[1]
           t == c.task[1]
           set == c.srv[1]
           so == w.q
           E == <<>>
           set2 == [set EXCEPT !.sorts = so]
           vs == [c.srv EXCEPT ![1] = set2]
           d == [c EXCEPT !.wire = E, !.srv = vs]
           f == [d EXCEPT !.task = E, !.last = d.task]
<1>1. /\ proto \in Protocols /\ version \in 1..Len(Hits)
      /\ StoreSafe(proto, version, st) /\ ClientSafe(proto, version, n, c)
      /\ c.wire # <<>> /\ w.kind = "SORT"
  BY DEF Hears
<1>2. /\ Stands(proto, version, n, c) /\ c.task # <<>> /\ Waiting(proto, c) /\ c.error = "NONE"
      /\ t \in ATask /\ c.rs[1] \in AResultSet /\ w \in ARequest
  BY <1>1, Waits
<1>3. /\ proto = "Z3950" /\ c.rs[1].live = 2 /\ t.sent <= 2 /\ so = c.rs[1].order
      /\ t.which = "SEARCH" => Progress(c)
      /\ t.which = "SORT" => t.from = 0 /\ t.upto = 0
  BY <1>1, <1>2 DEF Waiting
<1>4. c \in Client /\ c.rs # <<>> /\ Named(proto, n, c) /\ Base(proto, version, c) /\ AtServer(proto, c) /\ c.calls > 0
  BY <1>2 DEF Stands
<1>5. /\ c.srv # <<>> /\ Size(set) = c.rs[1].size /\ set.text = c.q.string /\ c.rs[1].sort = <<>>
      /\ set.user = <<c.user, c.group, c.password>> /\ set.db = c.db
  BY <1>2, <1>3, <1>4 DEF AtServer
<1>6. set \in ASet /\ so \in Seq(Order) /\ c.srv \in Seq(ASet) /\ E \in Seq(ARequest) /\ E \in Seq(ATask)
  BY <1>2, <1>3, <1>4, <1>5, PartsOf, SeqClosed DEF AResultSet, Client
<1>7. d = [c EXCEPT !.wire = <<>>, !.srv[1].sorts = c.wire[1].q]
  BY <1>4, <1>5, FirstOf DEF Client
<1> HIDE DEF E
<1>8. SortResponse(c, st) = [c |-> IF t.which = "SORT" THEN f ELSE Z3950Search(d, st), st |-> st]
  BY <1>7 DEF SortResponse, Complete, E
<1>9. /\ set2 \in ASet /\ set2.sorts = so /\ set2.text = set.text /\ set2.user = set.user /\ set2.db = set.db
      /\ set2.version = set.version
  <2> HIDE DEF set, so
  <2> QED BY <1>6 DEF ASet
<1> HIDE DEF set2
<1>10. vs \in Seq(ASet) /\ vs # <<>> /\ vs[1] = set2
  BY <1>5, <1>6, <1>9, FirstOf
<1> HIDE DEF vs
<1>11. /\ d \in Client /\ SameButParts(c, d) /\ d.rs = c.rs /\ d.task = c.task /\ d.srv = vs
       /\ d.wire = E
  BY <1>4, <1>6, <1>10 DEF Client, SameButParts
<1> HIDE DEF d
<1>12. Named(proto, n, d) /\ Base(proto, version, d)
  <2>1. \A e \in c.rs[1].cache : OfTheSet(d, e)
    BY <1>4, <1>11 DEF Base, OfTheSet, SameButParts
  <2>2. Base(proto, version, d)
    BY <1>4, <1>11, <2>1 DEF Base, SameButParts, Uses
  <2> QED BY <1>4, <1>11, <2>2 DEF Named, SameButParts
<1>13. AtServer(proto, d)
  <2>1. d.srv # <<>> /\ d.srv[1] = set2 /\ d.error = "NONE" /\ d.rs[1].live = 2 /\ d.rs[1].sort = <<>>
    BY <1>2, <1>3, <1>5, <1>10, <1>11 DEF SameButParts
  <2>2. Size(set2) = d.rs[1].size
    <3>1. Size(set2) = Size(set)
      BY <1>9 DEF Size
    <3> QED BY <1>5, <1>11, <3>1
  <2>3. set2.text = d.q.string /\ set2.user = <<d.user, d.group, d.password>> /\ set2.db = d.db
    BY <1>5, <1>9, <1>11 DEF SameButParts
  <2> QED BY <1>3, <2>1, <2>2, <2>3 DEF AtServer
<1>14. InOrder(d)
  <2>1. d.srv[1].sorts = d.rs[1].order
    BY <1>3, <1>9, <1>10, <1>11
  <2> QED BY <2>1 DEF InOrder
<1>15. Stands(proto, version, n, d) /\ d.error = "NONE" /\ d.task # <<>>
  BY <1>2, <1>4, <1>11, <1>12, <1>13 DEF Stands, SameButParts
<1>16. CASE t.which = "SORT"
  <2>1. /\ f \in Client /\ SameButParts(d, f) /\ f.rs = d.rs /\ f.srv = d.srv /\ f.wire = d.wire
        /\ f.task = E /\ f.last = d.task
    <3>1. d.task \in Seq(ATask)
      BY <1>11 DEF Client
    <3> QED BY <1>6, <1>11, <3>1 DEF Client, SameButParts
  <2> HIDE DEF f
  <2>2. Stands(proto, version, n, f) /\ InOrder(f)
    BY <1>14, <1>15, <2>1, StandsStill
  <2>3. f.last[1] = t /\ f.rs[1].live = 2 /\ f.wire = <<>> /\ f.task = <<>>
    BY <1>3, <1>11, <2>1 DEF E
  <2>4. FilledTo(f, t, t.upto)
    <3>1. t.from..(t.upto - 1) = {}
      BY <1>3, <1>16
    <3> QED BY <3>1 DEF FilledTo
  <2>5. Finished(f)
    BY <2>2, <2>3, <2>4 DEF Finished
  <2>6. ClientSafe(proto, version, n, f)
    BY <2>2, <2>3, <2>5, SafeWhenFinished
  <2> QED BY <1>1, <1>8, <1>16, <2>6 DEF HandledSafe
<1>17. CASE t.which # "SORT"
  <2>1. t.which = "SEARCH"
    BY <1>2, <1>17 DEF ATask
  <2>2. Progress(d)
    BY <1>3, <1>11, <2>1 DEF Progress, FilledTo
  <2>3. Steady(proto, version, n, d)
    BY <1>11, <1>14, <1>15, <2>2 DEF Steady, Stands, E
  <2>4. Budget(proto, d)
    BY <1>3, <1>11 DEF Budget
  <2>5. Ready("Z3950", version, n, d)
    BY <1>3, <2>3, <2>4 DEF Ready
  <2>6. ClientSafe("Z3950", version, n, Z3950Search(d, st))
    BY <1>1, <1>3, <2>5, Z3950SearchSafe DEF Hypotheses
  <2> QED BY <1>1, <1>3, <1>8, <1>17, <2>6 DEF HandledSafe
<1> QED BY <1>16, <1>17

\* handle_srw_response: the records that come and those at hand are taken.
LEMMA SrwResponseSafe ==
  ASSUME Hypotheses, NEW n \in Clients, NEW c, NEW st, Hears(n, c, st, "SRU")
  PROVE  HandledSafe(n, SrwResponse(c, st))
<1> DEFINE w == c.wire[1]
           set == Found(c, w.q)
           x == Size(set)
           counted == MemcachedHitcount(c, st, x)
           d == [c EXCEPT !.wire = <<>>, !.rs[1].size = x, !.rs[1].live = 2]
           s == d.rs[1]
           t == d.task[1]
           m == Most(0, Least(w.count, x - t.start))
           ats == t.start..(t.start + m - 1)
           new == {at \in ats : Lookup(d, counted, at) = {}}
           recs == [at \in new |-> Rec(d, set, at)]
           kept == MemcachedAdd(d, counted, recs)
           sent == {Entry(d, at, Rec(d, set, at)) : at \in new}
           found == UNION {{Entry(d, at, r) : r \in Lookup(d, counted, at)} : at \in ats \ new}
           both == s.cache \cup sent \cup found
           k == Most(0, t.count - m)
           i == t.start + m
           e == [d EXCEPT !.rs[1].cache = both, !.task[1].count = k, !.task[1].start = i]
           r1 == [s EXCEPT !.cache = both]
           t1 == [t EXCEPT !.count = k, !.start = i]
<1>1. /\ proto \in Protocols /\ version \in 1..Len(Hits) /\ Shrinks(version)
      /\ StoreSafe(proto, version, st) /\ ClientSafe(proto, version, n, c)
      /\ c.wire # <<>> /\ w.kind = "SRU"
  BY DEF Hears
<1>2. /\ Stands(proto, version, n, c) /\ c.task # <<>> /\ Waiting(proto, c) /\ c.error = "NONE"
      /\ c.task[1] \in ATask /\ c.rs[1] \in AResultSet /\ w \in ARequest
  BY <1>1, Waits
<1>3. /\ proto = "SRU" /\ w.q = c.q.z /\ c.task[1].sent <= 1 /\ w.count = c.task[1].count
      /\ Progress(c)
  BY <1>1, <1>2 DEF Waiting
<1>4. c \in Client /\ c.rs # <<>> /\ Named(proto, n, c) /\ c.srv = <<>> /\ c.srv \in Seq(ASet) /\ c.calls > 0
  BY <1>2, <1>3 DEF Stands, AtServer, Client
<1>5. /\ set \in ASet /\ x = Hits[version] /\ x \in RealCounts(version) /\ x \in Nat
      /\ set.text = c.q.string /\ set.user = <<c.user, c.group, c.password>> /\ set.db = c.db
      /\ set.sorts = SortFor(proto, c.q)
  BY <1>1, <1>3, <1>4, FoundIs DEF Hypotheses
<1>6. SrwResponse(c, st) = [c |-> SrwSearch(e, kept), st |-> kept]
  BY DEF SrwResponse
<1> HIDE DEF set, x, w
<1>7. StoreSafe(proto, version, counted)
  BY <1>1, <1>4, <1>5, CountKept
<1> HIDE DEF counted
<1>8. d = Counted(c, c.srv, x)
  BY <1>4, CountHeardAlone
<1> HIDE DEF d
<1>9. Heard(c, d, x) /\ d.srv = c.srv
  BY <1>4, <1>5, <1>8, CountHeard
<1>10. /\ d \in Client /\ SameButParts(c, d) /\ d.rs # <<>> /\ s.size = x /\ s.live = 2 /\ s.order = c.rs[1].order
       /\ d.task = c.task /\ d.wire = <<>> /\ d.srv = <<>>
  BY <1>4, <1>9 DEF Heard
<1>11. Named(proto, n, d) /\ Base(proto, version, d) /\ Progress(d)
  <2>1. Heard(c, d, Hits[version])
    BY <1>5, <1>9
  <2> QED BY <1>1, <1>2, <1>3, <2>1, HeardWell
<1>12. d.task # <<>> /\ t = c.task[1] /\ t \in ATask /\ s \in AResultSet
  BY <1>2, <1>10, PartsOf
<1>13. Steady(proto, version, n, d)
  <2>1. AtServer(proto, d) /\ InOrder(d)
    BY <1>3, <1>10 DEF AtServer, InOrder
  <2> QED BY <1>2, <1>4, <1>10, <1>11, <1>12, <2>1 DEF Steady, SameButParts
<1>14. TheSet(d, set)
  <2>1. s.order = SortFor(proto, d.q)
    BY <1>3, <1>11 DEF Base
  <2> QED BY <1>5, <1>10, <2>1 DEF TheSet, SameButParts
<1>15. t.start \in Nat /\ t.count \in Nat /\ w.count = t.count
  BY <1>3, <1>12 DEF ATask
<1>16. /\ m \in Nat /\ m <= t.count /\ k = t.count - m /\ k \in Nat /\ i \in Nat
       /\ k = 0 \/ x <= i
  <2> HIDE DEF t
  <2> QED BY <1>5, <1>15 DEF Most, Least
<1> HIDE DEF m
<1>17. \A at \in ats : at \in Nat
  BY <1>15, <1>16
<1>18. \A at \in new : at \in Nat /\ at \in ats
  BY <1>17
<1> HIDE DEF ats
<1>19. \A at \in new : Fits(d, at, Rec(d, set, at)) /\ MayKeep(proto, d, at, Rec(d, set, at))
  BY <1>10, <1>11, <1>12, <1>14, <1>18, TheRecord
<1>20. \A at \in ats : \A r \in Lookup(d, counted, at) : Fits(d, at, r)
  BY <1>1, <1>7, <1>10, <1>11, <1>12, <1>17, LookedUp DEF Hypotheses
<1>21. StoreSafe(proto, version, kept)
  <2>1. \A at \in DOMAIN recs : MayKeep(proto, d, at, recs[at])
    <3> HIDE DEF new
    <3> QED BY <1>19
  <2> HIDE DEF recs
  <2> QED BY <1>7, <1>10, <1>11, <2>1, RecordsKept
<1> HIDE DEF kept
<1>22. \A y \in sent : y \in AnEntry /\ OfTheSet(d, y)
  <2> HIDE DEF new
  <2> QED BY <1>19 DEF Fits
<1>23. \A y \in found : y \in AnEntry /\ OfTheSet(d, y)
  <2> SUFFICES ASSUME NEW at \in ats \ new, NEW r \in Lookup(d, counted, at)
               PROVE  Entry(d, at, r) \in AnEntry /\ OfTheSet(d, Entry(d, at, r))
    OBVIOUS
  <2>1. Fits(d, at, r)
    BY <1>20
  <2> QED BY <2>1 DEF Fits
<1>24. ASSUME NEW at \in ats PROVE \E y \in both : y.at = at /\ y.syntax = t.syntax
  <2>1. CASE at \in new
    <3>1. Entry(d, at, Rec(d, set, at)) \in sent
      BY <2>1
    <3>2. Fits(d, at, Rec(d, set, at))
      BY <1>19, <2>1
    <3> HIDE DEF sent, found
    <3> QED BY <3>1, <3>2 DEF Fits
  <2>2. CASE at \notin new
    <3>1. PICK r \in Lookup(d, counted, at) : TRUE
      BY <2>2
    <3>2. Fits(d, at, r)
      BY <1>20
    <3>3. Entry(d, at, r) \in found
      <4>1. Entry(d, at, r) \in {Entry(d, at, y) : y \in Lookup(d, counted, at)}
        OBVIOUS
      <4>2. at \in ats \ new
        BY <2>2
      <4> QED BY <4>1, <4>2
    <3> HIDE DEF sent, found
    <3> QED BY <3>2, <3>3 DEF Fits
  <2> QED BY <2>1, <2>2
<1> HIDE DEF sent, found, new
<1>25. both \in SUBSET AnEntry /\ s.cache \subseteq both /\ \A y \in both \ s.cache : OfTheSet(d, y)
  <2>1. s.cache \subseteq AnEntry
    BY <1>12 DEF AResultSet
  <2> HIDE DEF s
  <2> QED BY <1>22, <1>23, <2>1
<1> HIDE DEF both, k, i
<1>26. e = With(d, r1, t1)
  <2>1. 1 \in DOMAIN d.rs /\ 1 \in DOMAIN d.task
    BY <1>10, <1>12, FirstOf DEF Client
  <2> QED BY <1>10, <2>1 DEF With, Client
<1>27. /\ r1 \in AResultSet /\ r1.key = s.key /\ r1.size = s.size /\ r1.live = s.live /\ r1.sort = s.sort
       /\ r1.order = s.order /\ r1.cache = both
  <2> HIDE DEF s
  <2> QED BY <1>12, <1>25 DEF AResultSet
<1>28. /\ t1 \in ATask /\ t1.count = k /\ t1.start = i
       /\ t1.which = t.which /\ t1.from = t.from /\ t1.upto = t.upto /\ t1.syntax = t.syntax /\ t1.sent = t.sent
  <2> HIDE DEF t
  <2> QED BY <1>12, <1>16 DEF ATask
<1> HIDE DEF r1, t1
<1>29. Further(d, r1, t1)
  <2>1. t1.start - 1 = t.start + m - 1 /\ t.start <= t1.start /\ t1.start + t1.count = t.start + t.count
    BY <1>15, <1>16, <1>28 DEF i
  <2>2. \A at \in t.start..(t1.start - 1) : \E y \in r1.cache : y.at = at /\ y.syntax = t.syntax
    BY <1>24, <1>27, <2>1 DEF ats
  <2>3. t1.start + t1.count <= t.start + t.count /\ (t.count = 0 => t1.count = 0)
    BY <1>15, <1>16, <1>28, <2>1
  <2>4. \A y \in s.cache : y.at < t.start => y \in r1.cache
    BY <1>25, <1>27
  <2>5. \A y \in r1.cache \ s.cache : OfTheSet(d, y)
    BY <1>25, <1>27
  <2> HIDE DEF s, t
  <2> QED BY <1>27, <1>28, <2>1, <2>2, <2>3, <2>4, <2>5 DEF Further, s, t
<1> HIDE DEF e
<1>30. Steady(proto, version, n, e) /\ e.rs[1] = r1 /\ e.task[1] = t1
  BY <1>13, <1>26, <1>27, <1>28, <1>29, SteadyFurther
<1>31. Budget(proto, e)
  <2>1. t1.sent <= 1 /\ r1.live = 2 /\ (t1.count = 0 \/ r1.size <= t1.start)
    <3>1. t.sent = c.task[1].sent
      BY <1>12
    <3>2. r1.size = x /\ r1.live = 2
      BY <1>10, <1>27
    <3> QED BY <1>3, <1>16, <1>28, <3>1, <3>2
  <2> QED BY <1>30, <2>1 DEF Budget
<1>32. ClientSafe("SRU", version, n, SrwSearch(e, kept))
  <2>1. Ready("SRU", version, n, e)
    BY <1>3, <1>30, <1>31 DEF Ready
  <2> QED BY <1>1, <1>3, <1>21, <2>1, SrwSearchSafe DEF Hypotheses
<1>33. SrwResponse(c, st) = [c |-> SrwSearch(e, kept), st |-> kept]
  BY <1>6 DEF kept, e
<1> QED BY <1>3, <1>21, <1>32, <1>33 DEF HandledSafe

-----------------------------------------------------------------------------
(***************************************************************************)
(* The calls of the applications                                           *)
(***************************************************************************)
\* ZOOM_connection_search's or _Z3950_search's part, for either protocol.
LEMMA AttemptSafe ==
  ASSUME Hypotheses, proto \in Protocols, version \in 1..Len(Hits), StoreSafe(proto, version, store),
         NEW n \in Clients, NEW c, Ready(proto, version, n, c)
  PROVE  ClientSafe(proto, version, n, Attempt(c, store))
<1>1. CASE proto = "Z3950"
  <2>1. ClientSafe("Z3950", version, n, Z3950Search(c, store))
    BY <1>1, Z3950SearchSafe DEF Hypotheses
  <2> QED BY <1>1, <2>1 DEF Attempt
<1>2. CASE proto = "SRU"
  <2>1. ClientSafe("SRU", version, n, SrwSearch(c, store))
    BY <1>2, SrwSearchSafe DEF Hypotheses
  <2>2. Attempt(c, store) = SrwSearch(c, store)
    BY <1>2 DEF Attempt
  <2> QED BY <1>2, <2>1, <2>2
<1> QED BY <1>1, <1>2 DEF Protocols

\* The key and the order of a set, with the protocol as a parameter.
LEMMA KeyIs ==
  ASSUME NEW c, NEW id, NEW q, c.user = id.user, c.group = id.group, c.password = id.password
  PROVE  Key(c, q) = KeyFor(proto, id, q) /\ SortOf(q) = SortFor(proto, q)
<1>1. Key(c, q) = KeyFor(proto, id, q)
  BY Zenon DEF Key, KeyFor
<1>2. SortOf(q) = SortFor(proto, q)
  BY Zenon DEF SortOf, SortFor
<1> QED BY <1>1, <1>2

\* A connection without a call under way waits for nothing.
LEMMA Idle ==
  ASSUME NEW p, NEW v, NEW n, NEW c, ClientSafe(p, v, n, c), c.task = <<>>
  PROVE  /\ c \in Client /\ c.wire = <<>>
         /\ c.rs # <<>> => Stands(p, v, n, c) /\ Finished(c)
<1>1. c \in Client /\ c.calls \in Nat
  BY DEF ClientSafe, Client
<1>2. c.rs = <<>> => c.wire = <<>>
  BY DEF ClientSafe
<1>3. c.rs # <<>> => Finished(c) /\ Named(p, n, c) /\ Base(p, v, c) /\ AtServer(p, c) /\ c.calls # 0
  BY DEF ClientSafe
<1>4. c.rs # <<>> => Stands(p, v, n, c)
  BY <1>1, <1>3 DEF Stands
<1>5. c.rs # <<>> => c.wire = <<>>
  BY <1>3 DEF Finished
<1> QED BY <1>1, <1>2, <1>3, <1>4, <1>5

\* A task that begins.
LEMMA TaskIs ==
  ASSUME NEW which \in {"SEARCH", "SORT"}, NEW a \in Nat, NEW b \in Nat, NEW x \in Syntax
  PROVE  LET ts == Task(which, <<a, b, x>>) IN
         /\ ts \in Seq(ATask) /\ ts # <<>>
         /\ ts[1].which = which /\ ts[1].start = a /\ ts[1].count = b /\ ts[1].from = a /\ ts[1].upto = a + b
         /\ ts[1].syntax = x /\ ts[1].sent = 0
<1> DEFINE t == [which |-> which, start |-> a, count |-> b, from |-> a, upto |-> a + b, syntax |-> x, sent |-> 0]
<1>1. Task(which, <<a, b, x>>) = <<t>>
  BY DEF Task
<1>2. t \in ATask
  BY DEF ATask
<1>3. t.which = which /\ t.start = a /\ t.count = b /\ t.from = a /\ t.upto = a + b /\ t.syntax = x /\ t.sent = 0
  OBVIOUS
<1> HIDE DEF t
<1>4. <<t>> \in Seq(ATask) /\ <<t>> # <<>> /\ <<t>>[1] = t
  BY <1>2
<1> QED BY <1>1, <1>3, <1>4

\* A task for a range begins.
LEMMA RangeTask ==
  ASSUME NEW which \in {"SEARCH", "SORT"}, NEW range \in Ranges
  PROVE  LET ts == Task(which, range) IN
         /\ ts \in Seq(ATask) /\ ts # <<>> /\ ts[1] \in ATask
         /\ ts[1].which = which /\ ts[1].from = ts[1].start /\ ts[1].upto = ts[1].start + ts[1].count
         /\ ts[1].sent = 0
<1> DEFINE a == range[1]
           b == range[2]
           x == range[3]
           t == [which |-> which, start |-> a, count |-> b, from |-> a, upto |-> a + b, syntax |-> x, sent |-> 0]
<1>1. Task(which, range) = <<t>>
  BY DEF Task
<1>2. a \in Nat /\ b \in Nat /\ x \in Syntax
  BY CacheAssumption DEF Syntax
<1> HIDE DEF a, b, x
<1>3. t \in ATask
  BY <1>2 DEF ATask
<1>4. t.which = which /\ t.start = a /\ t.count = b /\ t.from = a /\ t.upto = a + b /\ t.sent = 0
  OBVIOUS
<1> HIDE DEF t
<1>5. <<t>> \in Seq(ATask) /\ <<t>> # <<>> /\ <<t>>[1] = t
  BY <1>3
<1> QED BY <1>1, <1>3, <1>4, <1>5

\* ZOOM_connection_search: the result set is new.
Searches(c, q, db, range) ==
  [c EXCEPT !.error = "NONE", !.q = q, !.db = db, !.srv = <<>>, !.calls = @ + 1,
            !.rs = <<[key |-> Key(c, q), size |-> 0, live |-> 0, sort |-> QuerySortspec(q),
                      order |-> SortOf(q), cache |-> {}]>>,
            !.task = Task("SEARCH", range)]

LEMMA SearchReady ==
  ASSUME QueriesMade, proto \in Protocols, NEW v, NEW n \in Clients, NEW c, ClientSafe(proto, v, n, c),
         c.task = <<>>, c.calls > 0, NEW s \in Scripts, Made[s].ret = 0, NEW db \in Databases, NEW range \in Ranges
  PROVE  Ready(proto, v, n, Searches(c, Made[s].q, db, range))
<1> DEFINE q == Made[s].q
           key == Key(c, q)
           so == QuerySortspec(q)
           ord == SortOf(q)
           r == [key |-> key, size |-> 0, live |-> 0, sort |-> so, order |-> ord, cache |-> {}]
           rs == <<r>>
           ts == Task("SEARCH", range)
           t == ts[1]
           E == <<>>
           k == c.calls + 1
           d == [c EXCEPT !.error = "NONE", !.q = q, !.db = db, !.srv = E, !.calls = k, !.rs = rs, !.task = ts]
<1>1. c \in Client /\ c.wire = <<>> /\ c.calls \in Nat
  BY Idle DEF Client
<1>2. PICK id \in Identities[n] : c.user = id.user /\ c.group = id.group /\ c.password = id.password
  BY DEF ClientSafe
<1>3. Whole(q) /\ q \in Query
  BY QueriesAre DEF Whole
<1>4. key = KeyFor(proto, id, q) /\ ord = SortFor(proto, q)
  BY <1>2, KeyIs
<1>5. key \in Seq(Str)
  <2>1. id \in Identity /\ proto \in Str
    BY IdentitiesAre, Strings
  <2>2. KeyFor(proto, id, q) \in Seq(Str)
    BY <1>3, <2>1, KeyParts
  <2> QED BY <1>4, <2>2
<1>6. so \in Seq(Criterion) /\ ord \in Seq(Order)
  BY <1>3, <1>4, SortIsOrder
<1>7. Searches(c, q, db, range) = d
  BY DEF Searches
<1>8. /\ ts \in Seq(ATask) /\ ts # <<>> /\ t \in ATask
      /\ t.which = "SEARCH" /\ t.from = t.start /\ t.upto = t.start + t.count /\ t.sent = 0
  BY RangeTask
<1> HIDE DEF ts
<1>9. so = QuerySortspec(q)
  OBVIOUS
<1> HIDE DEF q, key, so, ord
<1>10. r \in AResultSet /\ r.key = key /\ r.live = 0 /\ r.sort = so /\ r.order = ord /\ r.cache = {}
  BY <1>5, <1>6 DEF AResultSet
<1> HIDE DEF r
<1>11. rs \in Seq(AResultSet) /\ rs # <<>> /\ rs[1] = r
  BY <1>10
<1>12. E \in Seq(ASet) /\ k \in Nat /\ k > 0 /\ db \in Database
  BY <1>1, SeqClosed DEF Database
<1>13. E = <<>>
  OBVIOUS
<1> HIDE DEF rs, E, k
<1>14. /\ d \in Client /\ d.error = "NONE" /\ d.q = q /\ d.db = db /\ d.srv = E /\ d.calls = k /\ d.rs = rs /\ d.task = ts
       /\ d.wire = c.wire /\ d.user = c.user /\ d.group = c.group /\ d.password = c.password
  BY <1>1, <1>3, <1>8, <1>11, <1>12 DEF Client
<1> HIDE DEF d
<1>15. Named(proto, n, d)
  <2>1. d.q = Made[s].q /\ d.rs[1].key = KeyFor(proto, id, d.q)
    BY <1>4, <1>10, <1>11, <1>14 DEF q
  <2>2. d.user = id.user /\ d.group = id.group /\ d.password = id.password /\ d.db \in Databases
    BY <1>2, <1>14
  <2> QED BY <2>1, <2>2 DEF Named
<1>16. Base(proto, v, d)
  BY <1>4, <1>9, <1>10, <1>11, <1>14 DEF Base
<1>17. AtServer(proto, d) /\ InOrder(d)
  BY <1>10, <1>11, <1>13, <1>14 DEF AtServer, InOrder
<1>18. Progress(d)
  <2>1. t.start \in Nat /\ t.count \in Nat /\ d.task[1] = t /\ d.rs[1].live = 0
    BY <1>8, <1>10, <1>11, <1>14 DEF ATask
  <2>2. t.from..(t.start - 1) = {}
    BY <1>8, <2>1
  <2>3. FilledTo(d, t, t.start)
    BY <2>2 DEF FilledTo
  <2> QED BY <1>8, <2>1, <2>3 DEF Progress
<1>19. Budget(proto, d)
  BY <1>8, <1>10, <1>11, <1>14 DEF Budget
<1>20. Ready(proto, v, n, d)
  BY <1>1, <1>8, <1>11, <1>12, <1>14, <1>15, <1>16, <1>17, <1>18, <1>19 DEF Ready, Steady
<1> QED BY <1>7, <1>20 DEF q

\* A query that could not be made: the application does not search.
LEMMA NotSearched ==
  ASSUME NEW p, NEW v, NEW n, NEW c, ClientSafe(p, v, n, c), c.task = <<>>, c.calls > 0
  PROVE  ClientSafe(p, v, n, [c EXCEPT !.calls = @ + 1])
<1> DEFINE k == c.calls + 1
           d == [c EXCEPT !.calls = k]
<1>1. c \in Client /\ c.wire = <<>> /\ c.calls \in Nat
  BY Idle DEF Client
<1>2. k \in Nat /\ k > 0 /\ k # 0
  BY <1>1
<1> HIDE DEF k
<1>3. /\ d \in Client /\ d.calls = k /\ d.rs = c.rs /\ d.task = c.task /\ d.wire = c.wire /\ d.srv = c.srv /\ d.last = c.last
      /\ d.backend = c.backend /\ d.error = c.error /\ d.user = c.user /\ d.group = c.group
      /\ d.password = c.password /\ d.db = c.db /\ d.q = c.q
  BY <1>1, <1>2 DEF Client
<1> HIDE DEF d
<1>4. ASSUME c.rs # <<>> PROVE Named(p, n, d) /\ Base(p, v, d) /\ AtServer(p, d) /\ Finished(d)
  <2>1. Named(p, n, c) /\ Base(p, v, c) /\ AtServer(p, c) /\ Finished(c)
    BY <1>4, Idle DEF Stands
  <2>2. Named(p, n, d)
    BY <1>3, <2>1 DEF Named
  <2>3. \A e \in c.rs[1].cache : OfTheSet(c, e) => OfTheSet(d, e)
    BY <1>3 DEF OfTheSet
  <2>4. Base(p, v, d)
    BY <1>3, <2>1, <2>3 DEF Base, Uses
  <2>5. AtServer(p, d)
    BY <1>3, <2>1 DEF AtServer
  <2>6. Finished(d)
    BY <1>3, <2>1 DEF Finished, InOrder, FilledTo
  <2> QED BY <2>2, <2>4, <2>5, <2>6
<1>5. c.rs = <<>> => c.task = <<>> /\ c.wire = <<>> /\ c.srv = <<>>
  BY DEF ClientSafe
<1>6. \E id \in Identities[n] : c.user = id.user /\ c.group = id.group /\ c.password = id.password
  BY DEF ClientSafe
<1>7. ClientSafe(p, v, n, d)
  BY <1>2, <1>3, <1>4, <1>5, <1>6 DEF ClientSafe
<1> QED BY <1>7 DEF d, k

\* ZOOM_resultset_records, of a set whose search has not failed.
LEMMA RetrieveReady ==
  ASSUME NEW p, NEW v, NEW n, NEW c, ClientSafe(p, v, n, c), c.task = <<>>, c.rs # <<>>, c.error = "NONE",
         NEW range \in Ranges
  PROVE  Ready(p, v, n, [c EXCEPT !.error = "NONE", !.task = Task("SEARCH", range), !.calls = @ + 1])
<1> DEFINE ts == Task("SEARCH", range)
           t == ts[1]
           k == c.calls + 1
           d == [c EXCEPT !.error = "NONE", !.task = ts, !.calls = k]
<1>1. c \in Client /\ c.wire = <<>> /\ c.calls \in Nat /\ Finished(c)
  BY Idle DEF Client
<1>2. Named(p, n, c) /\ Base(p, v, c) /\ AtServer(p, c)
  BY Idle DEF Stands
<1>3. /\ ts \in Seq(ATask) /\ ts # <<>> /\ t \in ATask
      /\ t.which = "SEARCH" /\ t.from = t.start /\ t.upto = t.start + t.count /\ t.sent = 0
  BY RangeTask
<1>4. k \in Nat /\ k > 0
  BY <1>1
<1> HIDE DEF k, ts
<1>5. /\ d \in Client /\ d.calls = k /\ d.rs = c.rs /\ d.task = ts /\ d.wire = c.wire /\ d.srv = c.srv
      /\ d.backend = c.backend /\ d.error = c.error /\ d.user = c.user /\ d.group = c.group
      /\ d.password = c.password /\ d.db = c.db /\ d.q = c.q
  BY <1>1, <1>3, <1>4 DEF Client
<1> HIDE DEF d
<1>6. Named(p, n, d)
  BY <1>2, <1>5 DEF Named
<1>7. Base(p, v, d)
  <2>1. \A e \in c.rs[1].cache : OfTheSet(c, e) => OfTheSet(d, e)
    BY <1>5 DEF OfTheSet
  <2> QED BY <1>2, <1>5, <2>1 DEF Base, Uses
<1>8. AtServer(p, d) /\ InOrder(d) /\ d.rs[1].live # 0
  BY <1>1, <1>2, <1>5 DEF AtServer, InOrder, Finished
<1>9. Progress(d)
  <2>1. t.start \in Nat /\ t.count \in Nat /\ d.task[1] = t
    BY <1>3, <1>5 DEF ATask
  <2>2. t.from..(t.start - 1) = {}
    BY <1>3, <2>1
  <2>3. FilledTo(d, t, t.start)
    BY <2>2 DEF FilledTo
  <2> QED BY <1>3, <1>8, <2>1, <2>3 DEF Progress
<1>10. Budget(p, d)
  BY <1>3, <1>5 DEF Budget
<1>11. Ready(p, v, n, d)
  BY <1>1, <1>3, <1>4, <1>5, <1>6, <1>7, <1>8, <1>9, <1>10 DEF Ready, Steady
<1> QED BY <1>11 DEF d, k, ts

\* ZOOM_resultset_sort1: the records at hand are dropped, the order is new.
LEMMA SortSafe ==
  ASSUME NEW v, NEW n, NEW c, ClientSafe("Z3950", v, n, c), c.task = <<>>, c.srv # <<>>, ~Uses(c)
  PROVE  LET so == <<Criteria("later", TRUE)>> IN
         ClientSafe("Z3950", v, n,
           Send([c EXCEPT !.error = "NONE", !.rs[1].cache = {}, !.rs[1].order = so,
                          !.task = Task("SORT", <<0, 0, NULL>>), !.calls = @ + 1], "SORT", so, 0))
<1> DEFINE p == "Z3950"
           later == Criteria("later", TRUE)
           so == <<later>>
           none == {}
           s == c.rs[1]
           r == [s EXCEPT !.cache = none, !.order = so]
           rs == [c.rs EXCEPT ![1] = r]
           ts == Task("SORT", <<0, 0, NULL>>)
           t == ts[1]
           k == c.calls + 1
           d0 == [c EXCEPT !.error = "NONE", !.rs[1].cache = {}, !.rs[1].order = so, !.task = ts, !.calls = @ + 1]
           d == [c EXCEPT !.error = "NONE", !.rs = rs, !.task = ts, !.calls = k]
<1>1. c \in Client /\ c.calls \in Nat /\ c.rs # <<>>
  BY Idle DEF ClientSafe, Client
<1>2. Stands(p, v, n, c) /\ c.wire = <<>>
  BY <1>1, Idle
<1>3. Named(p, n, c) /\ Base(p, v, c) /\ AtServer(p, c)
  BY <1>2 DEF Stands
<1>4. so \in Seq(Order)
  BY DEF Order
<1>5. /\ ts \in Seq(ATask) /\ ts # <<>> /\ t.which = "SORT" /\ t.from = 0 /\ t.upto = 0 /\ t.sent = 0
  <2>1. NULL \in Syntax
    BY DEF Syntax
  <2> QED BY <2>1, TaskIs
<1>6. s \in AResultSet /\ c.rs \in Seq(AResultSet) /\ 1 \in DOMAIN c.rs
  BY <1>1, FirstOf DEF Client
<1>7. k \in Nat /\ k > 0
  BY <1>1
<1>8. none \in SUBSET AnEntry /\ \A e \in none : FALSE
  OBVIOUS
<1> HIDE DEF ts, so, k
<1>9. d0 = d
  <2> DEFINE r1 == [s EXCEPT !.cache = none]
             q1 == [c.rs EXCEPT ![1] = r1]
             x0 == [c EXCEPT !.error = "NONE"]
             x1 == [x0 EXCEPT !.rs[1].cache = {}]
             y1 == [x0 EXCEPT !.rs = q1]
             x2 == [y1 EXCEPT !.rs[1].order = so]
             y2 == [y1 EXCEPT !.rs = rs]
  <2>1. q1[1] = r1 /\ [q1 EXCEPT ![1] = r] = rs /\ [r1 EXCEPT !.order = so] = r
    BY <1>6
  <2>2. x0 \in Client /\ x0.rs = c.rs
    BY <1>1 DEF Client
  <2>3. x1 = y1
    BY <2>2
  <2>4. y1.rs = q1
    <3> HIDE DEF x0, q1
    <3> QED BY <2>2 DEF Client
  <2>5. x2 = y2
    <3> HIDE DEF x0, q1, r1, r, rs
    <3>1. x2 = [y1 EXCEPT !.rs = [q1 EXCEPT ![1] = [r1 EXCEPT !.order = so]]]
      BY <2>1, <2>4
    <3> QED BY <2>1, <3>1
  <2>6. d0 = [x2 EXCEPT !.task = ts, !.calls = k]
    <3>1. d0 = [[x1 EXCEPT !.rs[1].order = so] EXCEPT !.task = ts, !.calls = k]
      BY DEF k
    <3> HIDE DEF x1, y1
    <3> QED BY <2>3, <3>1
  <2>7. d = [y2 EXCEPT !.task = ts, !.calls = k]
    <3> HIDE DEF r, rs, q1
    <3> QED BY <1>1 DEF Client
  <2> HIDE DEF x2, y2, d0, d
  <2> QED BY <2>5, <2>6, <2>7
<1> HIDE DEF none
<1>10. /\ r \in AResultSet /\ r.cache = none /\ r.order = so /\ r.key = s.key /\ r.size = s.size /\ r.live = s.live
       /\ r.sort = s.sort
  BY <1>4, <1>6, <1>8 DEF AResultSet
<1> HIDE DEF r
<1>11. rs \in Seq(AResultSet) /\ rs # <<>> /\ rs[1] = r
  BY <1>1, <1>6, <1>10, FirstOf
<1> HIDE DEF rs, d0
<1>12. /\ d \in Client /\ d.calls = k /\ d.rs = rs /\ d.task = ts /\ d.wire = c.wire /\ d.srv = c.srv
       /\ d.backend = c.backend /\ d.error = "NONE" /\ d.user = c.user /\ d.group = c.group
       /\ d.password = c.password /\ d.db = c.db /\ d.q = c.q
  BY <1>1, <1>5, <1>7, <1>11 DEF Client
<1> HIDE DEF d
<1>13. Named(p, n, d)
  BY <1>3, <1>10, <1>11, <1>12 DEF Named
<1>14. s.live = 2 /\ c.error = "NONE"
  BY <1>3 DEF AtServer
<1>15. Base(p, v, d)
  BY <1>3, <1>8, <1>10, <1>11, <1>12, <1>14 DEF Base, Uses
<1>16. AtServer(p, d)
  BY <1>3, <1>10, <1>11, <1>12, <1>14 DEF AtServer
<1>17. Stands(p, v, n, d)
  BY <1>7, <1>11, <1>12, <1>13, <1>15, <1>16 DEF Stands
<1>18. ClientSafe(p, v, n, Send(d, "SORT", so, 0))
  <2>1. /\ d.task # <<>> /\ d.error = "NONE" /\ d.rs[1].live = 2 /\ d.task[1].sent <= 1 /\ so = d.rs[1].order
        /\ d.task[1].which = "SORT" /\ d.task[1].from = 0 /\ d.task[1].upto = 0
    BY <1>5, <1>10, <1>11, <1>12, <1>14
  <2> QED BY <1>17, <2>1, SortSent
<1> QED BY <1>9, <1>18 DEF d0, so, ts

\* ZOOM_memcached_configure: only what concerns the cache is set.
SameSession(c, d) ==
  /\ d.user = c.user /\ d.group = c.group /\ d.password = c.password /\ d.db = c.db /\ d.q = c.q /\ d.rs = c.rs
  /\ d.task = c.task /\ d.wire = c.wire /\ d.srv = c.srv /\ d.last = c.last /\ d.calls = c.calls

LEMMA ExpiryIs ==
  ASSUME NEW c \in Client, NEW o \in Seq([name : STRING, value : Int])
  PROVE  Expire(c, o) \in Client /\ SameSession(c, Expire(c, o))
<1>1. CASE \E i \in DOMAIN o : o[i].name = "expire"
  <2> DEFINE j == CHOOSE i \in DOMAIN o : o[i].name = "expire"
             m == o[j].value
             h == m + 600
             d == [c EXCEPT !.expire_search = m, !.expire_record = h]
  <2>1. j \in DOMAIN o
    BY <1>1
  <2>2. Expire(c, o) = d
    BY <1>1 DEF Expire
  <2> HIDE DEF j
  <2>3. o[j] \in [name : STRING, value : Int]
    BY <2>1, ElementOfSeq, LenProperties
  <2>4. m \in Int /\ h \in Int
    <3>1. m \in Int
      BY <2>3
    <3> QED BY <3>1
  <2> HIDE DEF m, h
  <2>5. d \in Client /\ SameSession(c, d)
    BY <2>4 DEF Client, SameSession
  <2> QED BY <2>2, <2>5
<1>2. CASE ~\E i \in DOMAIN o : o[i].name = "expire"
  BY <1>2 DEF Expire, SameSession
<1> QED BY <1>1, <1>2

LEMMA ConfiguredIs ==
  ASSUME NEW c \in Client, NEW redis \in Seq([name : STRING, value : Int]),
         NEW memcached \in Seq([name : STRING, value : Int])
  PROVE  LET d == MemcachedConfigure(c, redis, memcached) IN d \in Client /\ SameSession(c, d)
<1> DEFINE none == [c EXCEPT !.backend = NULL]
           up == \E i \in DOMAIN redis : redis[i] = [name |-> "server", value |-> 1]
           bad == \E i \in DOMAIN memcached : memcached[i].name = "other"
           er == Expire(none, redis)
           em == Expire(none, memcached)
           d == MemcachedConfigure(c, redis, memcached)
<1>1. none \in Client /\ SameSession(c, none)
  BY DEF Client, SameSession
<1>2. d = IF redis # <<>> THEN IF up THEN [er EXCEPT !.backend = "redis"] ELSE [er EXCEPT !.error = "MEMCACHED"]
          ELSE IF memcached = <<>> THEN none
          ELSE IF bad THEN [em EXCEPT !.error = "MEMCACHED"] ELSE [em EXCEPT !.backend = "memcached"]
  BY DEF MemcachedConfigure
<1> HIDE DEF none, up, bad
<1>3. er \in Client /\ SameSession(c, er) /\ em \in Client /\ SameSession(c, em)
  BY <1>1, ExpiryIs DEF SameSession
<1> HIDE DEF er, em, d
<1>4. ASSUME NEW x \in Client, SameSession(c, x), NEW b \in Backends
      PROVE  LET y == [x EXCEPT !.backend = b]
                 z == [x EXCEPT !.error = "MEMCACHED"]
             IN y \in Client /\ SameSession(c, y) /\ z \in Client /\ SameSession(c, z)
  BY <1>4 DEF Client, SameSession
<1>5. "redis" \in Backends /\ "memcached" \in Backends
  BY DEF Backends
<1>6. d \in {none, [er EXCEPT !.backend = "redis"], [er EXCEPT !.error = "MEMCACHED"],
             [em EXCEPT !.error = "MEMCACHED"], [em EXCEPT !.backend = "memcached"]}
  BY <1>2
<1>7. /\ [er EXCEPT !.backend = "redis"] \in Client /\ SameSession(c, [er EXCEPT !.backend = "redis"])
      /\ [er EXCEPT !.error = "MEMCACHED"] \in Client /\ SameSession(c, [er EXCEPT !.error = "MEMCACHED"])
  BY <1>3, <1>4, <1>5
<1>8. /\ [em EXCEPT !.error = "MEMCACHED"] \in Client /\ SameSession(c, [em EXCEPT !.error = "MEMCACHED"])
      /\ [em EXCEPT !.backend = "memcached"] \in Client /\ SameSession(c, [em EXCEPT !.backend = "memcached"])
  BY <1>3, <1>4, <1>5
<1> DEFINE e1 == [er EXCEPT !.backend = "redis"]
           e2 == [er EXCEPT !.error = "MEMCACHED"]
           e3 == [em EXCEPT !.error = "MEMCACHED"]
           e4 == [em EXCEPT !.backend = "memcached"]
<1>9. d \in {none, e1, e2, e3, e4}
  BY <1>6
<1> HIDE DEF e1, e2, e3, e4
<1>10. d \in Client /\ SameSession(c, d)
  BY <1>1, <1>7, <1>8, <1>9 DEF e1, e2, e3, e4
<1> QED BY <1>10 DEF d

\* ZOOM_connection_connect: there is no result set yet.
LEMMA ConnectSafe ==
  ASSUME NEW p, NEW v, NEW n \in Clients, NEW c, ClientSafe(p, v, n, c), c.calls = 0,
         NEW o \in Options[n], NEW id \in Identities[n]
  PROVE  ClientSafe(p, v, n, [MemcachedConfigure(c, o.redis, o.memcached) EXCEPT
                                !.user = id.user, !.group = id.group, !.password = id.password, !.calls = 1])
<1> DEFINE x == MemcachedConfigure(c, o.redis, o.memcached)
           one == 1
           d == [x EXCEPT !.user = id.user, !.group = id.group, !.password = id.password, !.calls = one]
<1>1. c \in Client /\ c.rs = <<>> /\ c.task = <<>> /\ c.wire = <<>> /\ c.srv = <<>>
  BY DEF ClientSafe
<1>2. x \in Client /\ SameSession(c, x)
  <2>1. {o.redis, o.memcached} \subseteq Seq([name : STRING, value : Int])
    BY CacheAssumption
  <2> QED BY <1>1, <2>1, ConfiguredIs
<1>3. id.user \in Seq(Str) /\ id.group \in Seq(Str) /\ id.password \in Seq(Str)
  BY IdentitiesAre DEF Identity
<1>4. one \in Nat /\ one > 0 /\ one # 0
  OBVIOUS
<1> HIDE DEF x, one
<1>5. /\ d \in Client /\ d.rs = x.rs /\ d.task = x.task /\ d.wire = x.wire /\ d.srv = x.srv /\ d.calls = one
      /\ d.user = id.user /\ d.group = id.group /\ d.password = id.password
  BY <1>2, <1>3, <1>4 DEF Client
<1> HIDE DEF d
<1>6. d.rs = <<>> /\ d.task = <<>> /\ d.wire = <<>> /\ d.srv = <<>>
  BY <1>1, <1>2, <1>5 DEF SameSession
<1>7. ClientSafe(p, v, n, d)
  BY <1>4, <1>5, <1>6 DEF ClientSafe
<1> QED BY <1>7 DEF d, x, one

-----------------------------------------------------------------------------
(***************************************************************************)
(* The database changes, and entries expire                                *)
(***************************************************************************)
\* What a server gave at some time it has still given later.
LEMMA SafeLater ==
  ASSUME NEW p, NEW v \in Nat, NEW w \in Nat, v <= w
  PROVE  /\ \A st : StoreSafe(p, v, st) => StoreSafe(p, w, st)
         /\ \A n, c : ClientSafe(p, v, n, c) => ClientSafe(p, w, n, c)
<1>1. RealCounts(v) \subseteq RealCounts(w)
  <2>1. \A k \in 1..v : k \in 1..w
    OBVIOUS
  <2> QED BY <2>1 DEF RealCounts
<1>2. ASSUME NEW st, StoreSafe(p, v, st) PROVE StoreSafe(p, w, st)
  <2>1. \A b : KeepsWell(p, v, b) => KeepsWell(p, w, b)
    BY <1>1 DEF KeepsWell
  <2> QED BY <1>2, <2>1, StoreIs
<1>3. ASSUME NEW n, NEW c, ClientSafe(p, v, n, c) PROVE ClientSafe(p, w, n, c)
  <2>1. Base(p, v, c) => Base(p, w, c)
    BY <1>1 DEF Base
  <2> QED BY <1>3, <2>1 DEF ClientSafe
<1> QED BY <1>2, <1>3

LEMMA ShrinksOn ==
  ASSUME NEW v \in Nat, v > 0, v < Len(Hits), Shrinks(v), Hits[v + 1] <= Hits[v]
  PROVE  Shrinks(v + 1)
<1>1. Hits \in Seq(Nat) /\ Len(Hits) \in Nat
  BY CacheAssumption, LenProperties
<1>2. \A a \in 1..(v + 1) : Hits[a] \in Nat
  <2>1. \A a \in 1..(v + 1) : a \in 1..Len(Hits)
    BY <1>1
  <2> QED BY <1>1, <2>1, ElementOfSeq
<1>3. ASSUME NEW a \in 1..(v + 1), NEW b \in 1..(v + 1), a <= b PROVE Hits[b] <= Hits[a]
  <2>1. CASE b = v + 1 /\ a = v + 1
    BY <1>2, <2>1
  <2>2. CASE b = v + 1 /\ a # v + 1
    <3>1. a \in 1..v /\ v \in 1..v /\ a <= v /\ v \in 1..(v + 1)
      BY <2>2
    <3>2. Hits[v] <= Hits[a]
      BY <3>1 DEF Shrinks
    <3> QED BY <1>2, <2>2, <3>1, <3>2
  <2>3. CASE b # v + 1
    <3>1. a \in 1..v /\ b \in 1..v
      BY <1>3, <2>3
    <3> QED BY <1>3, <3>1 DEF Shrinks
  <2> QED BY <2>1, <2>2, <2>3
<1> QED BY <1>3 DEF Shrinks

\* A backend without one of its counts, or one of its records.
LEMMA ExpirySafe ==
  ASSUME NEW p, NEW v, NEW st, StoreSafe(p, v, st), NEW b \in Backends
  PROVE  /\ \A k : StoreSafe(p, v, [st EXCEPT ![b].counts = Drop(@, k)])
         /\ \A r : StoreSafe(p, v, [st EXCEPT ![b].records = @ \ {r}])
<1> DEFINE y == st[b]
<1>1. KeepsWell(p, v, y)
  BY StoreIs
<1>2. y = [counts |-> y.counts, index |-> y.index, records |-> y.records]
  BY <1>1 DEF KeepsWell
<1> DEFINE C == y.counts
           I == y.index
           R == y.records
<1>3. ASSUME NEW C2, NEW R2, \A k \in DOMAIN C2 : k \in DOMAIN C /\ C2[k] = C[k]
      PROVE  KeepsWell(p, v, [counts |-> C2, index |-> I, records |-> R2])
  <2> DEFINE x == [counts |-> C2, index |-> I, records |-> R2]
  <2> HIDE DEF y, I, C
  <2>1. x.counts = C2 /\ x.index = I /\ x.records = R2
    OBVIOUS
  <2>2. x = [counts |-> x.counts, index |-> x.index, records |-> x.records]
    OBVIOUS
  <2> HIDE DEF x
  <2>3. I = y.index /\ C = y.counts
    BY DEF I, C
  <2>4. KeepsWell(p, v, x)
    BY <1>1, <1>3, <2>1, <2>2, <2>3 DEF KeepsWell
  <2> QED BY <2>4 DEF x
<1>4. ASSUME NEW k PROVE StoreSafe(p, v, [st EXCEPT ![b].counts = Drop(@, k)])
  <2> DEFINE C2 == Drop(C, k)
             x == [y EXCEPT !.counts = C2]
             z == [counts |-> C2, index |-> I, records |-> R]
  <2>1. \A e \in DOMAIN C2 : e \in DOMAIN C /\ C2[e] = C[e]
    BY DropIs
  <2>2. [st EXCEPT ![b].counts = Drop(@, k)] = [st EXCEPT ![b] = x]
    OBVIOUS
  <2> HIDE DEF C2
  <2>3. KeepsWell(p, v, z)
    BY <1>3, <2>1
  <2>4. x = z
    BY <1>2
  <2> HIDE DEF x, z
  <2>5. StoreSafe(p, v, [st EXCEPT ![b] = x])
    BY <2>3, <2>4, StoreChanges
  <2> QED BY <2>2, <2>5
<1>5. ASSUME NEW r PROVE StoreSafe(p, v, [st EXCEPT ![b].records = @ \ {r}])
  <2> DEFINE R2 == R \ {r}
             x == [y EXCEPT !.records = R2]
             z == [counts |-> C, index |-> I, records |-> R2]
  <2>1. [st EXCEPT ![b].records = @ \ {r}] = [st EXCEPT ![b] = x]
    OBVIOUS
  <2> HIDE DEF R2
  <2>2. KeepsWell(p, v, z)
    BY <1>3
  <2>3. x = z
    BY <1>2
  <2> HIDE DEF x, z
  <2>4. StoreSafe(p, v, [st EXCEPT ![b] = x])
    BY <2>2, <2>3, StoreChanges
  <2> QED BY <2>1, <2>4
<1> QED BY <1>4, <1>5

-----------------------------------------------------------------------------
(***************************************************************************)
(* The invariant holds at first and after every step                       *)
(***************************************************************************)
LEMMA InitSafe ==
  ASSUME Init
  PROVE  CacheInvariant
<1> DEFINE c == [backend |-> NULL, expire_search |-> 600, expire_record |-> 1200, error |-> "NONE",
                 user |-> <<>>, group |-> <<>>, password |-> <<>>, db |-> NULL,
                 q |-> QueryCreate, rs |-> <<>>, task |-> <<>>, wire |-> <<>>, srv |-> <<>>, last |-> <<>>, calls |-> 0]
<1>1. /\ proto \in Protocols /\ version = 1
      /\ clients = [n \in Clients |-> c]
      /\ store = [b \in Backends |-> NoStore]
  BY DEF Init, Protocols, Backends
<1>2. version \in 1..Len(Hits)
  <2>1. Hits \in Seq(Nat) /\ Hits # <<>>
    BY CacheAssumption
  <2>2. 1 \in DOMAIN Hits
    BY <2>1, FirstOf
  <2> QED BY <1>1, <2>1, <2>2, LenProperties
<1>3. Shrinks(version)
  <2>1. \A a, b \in 1..1 : a = b
    OBVIOUS
  <2>2. Hits[1] <= Hits[1]
    <3>1. Hits[1] \in Nat
      BY <1>1, <1>2, CacheAssumption, ElementOfSeq
    <3> QED BY <3>1
  <2> QED BY <1>1, <2>1, <2>2 DEF Shrinks
<1>4. StoreSafe(proto, version, store)
  <2>1. NoStore.counts = <<>> /\ NoStore.index = <<>>
        /\ NoStore = [counts |-> NoStore.counts, index |-> NoStore.index, records |-> NoStore.records]
    BY DEF NoStore
  <2>2. DOMAIN NoStore.counts = {} /\ DOMAIN NoStore.index = {}
    BY <2>1
  <2>3. KeepsWell(proto, version, NoStore)
    BY <2>1, <2>2 DEF KeepsWell
  <2>4. store = [b \in Backends |-> store[b]] /\ \A b \in Backends : store[b] = NoStore
    BY <1>1
  <2> QED BY <2>3, <2>4, StoreIs
<1>5. c \in Client
  <2>1. QueryCreate \in Query /\ NULL \in Database
    BY Created DEF Database
  <2>2. <<>> \in Seq(Str) /\ <<>> \in Seq(AResultSet) /\ <<>> \in Seq(ATask) /\ <<>> \in Seq(ARequest) /\ <<>> \in Seq(ASet)
    BY SeqClosed
  <2> QED BY <2>1, <2>2 DEF Client
<1>6. c.calls = 0 /\ c.rs = <<>> /\ c.task = <<>> /\ c.wire = <<>> /\ c.srv = <<>>
  OBVIOUS
<1> HIDE DEF c
<1>7. \A n \in Clients : ClientSafe(proto, version, n, c)
  BY <1>5, <1>6 DEF ClientSafe
<1>8. clients = [n \in Clients |-> clients[n]] /\ \A n \in Clients : clients[n] = c
  BY <1>1
<1> QED BY <1>1, <1>2, <1>3, <1>4, <1>7, <1>8 DEF CacheInvariant

\* What a step leaves to be shown when it is one of a client.
LEMMA ClientSteps ==
  ASSUME CacheInvariant, UNCHANGED <<proto, version>>, NEW n \in Clients, NEW c,
         clients' = [clients EXCEPT ![n] = c], ClientSafe(proto, version, n, c), StoreSafe(proto, version, store')
  PROVE  CacheInvariant'
<1>1. clients = [m \in Clients |-> clients[m]] /\ \A m \in Clients : ClientSafe(proto, version, m, clients[m])
  BY DEF CacheInvariant
<1>2. clients' = [m \in Clients |-> clients'[m]] /\ \A m \in Clients : clients'[m] = IF m = n THEN c ELSE clients[m]
  BY <1>1
<1>3. \A m \in Clients : ClientSafe(proto, version, m, clients'[m])
  BY <1>1, <1>2
<1>4. proto' = proto /\ version' = version
  OBVIOUS
<1> QED BY <1>2, <1>3, <1>4 DEF CacheInvariant

LEMMA AnswerKeeps ==
  ASSUME CacheInvariant, NEW n \in Clients, NEW r, HandledSafe(n, r), Answered(n, r)
  PROVE  CacheInvariant'
<1>1. /\ clients' = [clients EXCEPT ![n] = r.c] /\ store' = r.st /\ UNCHANGED <<proto, version>>
      /\ ClientSafe(proto, version, n, r.c) /\ StoreSafe(proto, version, r.st)
  BY DEF Answered, HandledSafe
<1> QED BY <1>1, ClientSteps

LEMMA ConnectKeeps ==
  ASSUME CacheInvariant, NEW n \in Clients, NEW o \in Options[n], NEW id \in Identities[n], Connect(n, o, id)
  PROVE  CacheInvariant'
<1> DEFINE c == clients[n]
           d == [MemcachedConfigure(c, o.redis, o.memcached) EXCEPT
                   !.user = id.user, !.group = id.group, !.password = id.password, !.calls = 1]
<1>1. ClientSafe(proto, version, n, c) /\ StoreSafe(proto, version, store) /\ n \in DOMAIN clients
  BY DEF CacheInvariant
<1>2. c.calls = 0 /\ clients' = [clients EXCEPT ![n] = d] /\ UNCHANGED <<proto, store, version>>
  BY DEF Connect
<1>3. ClientSafe(proto, version, n, d)
  BY <1>1, <1>2, ConnectSafe
<1> HIDE DEF d
<1>4. StoreSafe(proto, version, store')
  BY <1>1, <1>2
<1> QED BY <1>2, <1>3, <1>4, ClientSteps

LEMMA SearchKeeps ==
  ASSUME CacheInvariant, Hypotheses, NEW n \in Clients, NEW s \in Scripts, NEW db \in Databases, NEW range \in Ranges,
         Search(n, s, db, range)
  PROVE  CacheInvariant'
<1> DEFINE c == clients[n]
           d == Searches(c, Made[s].q, db, range)
           f == [c EXCEPT !.calls = @ + 1]
           a == Attempt(d, store)
           x == IF Made[s].ret = 0 THEN a ELSE f
<1>1. /\ ClientSafe(proto, version, n, c) /\ StoreSafe(proto, version, store)
      /\ proto \in Protocols /\ version \in 1..Len(Hits)
  BY DEF CacheInvariant
<1>2. /\ c.task = <<>> /\ c.calls > 0 /\ clients' = [clients EXCEPT ![n] = x]
      /\ UNCHANGED <<proto, store, version>>
  BY DEF Search, May, Searches
<1>3. ASSUME Made[s].ret = 0 PROVE ClientSafe(proto, version, n, a)
  <2>1. Ready(proto, version, n, d)
    BY <1>1, <1>2, <1>3, SearchReady DEF Hypotheses
  <2> HIDE DEF d
  <2> QED BY <1>1, <2>1, AttemptSafe
<1>4. ClientSafe(proto, version, n, f)
  BY <1>1, <1>2, NotSearched
<1> HIDE DEF a, f
<1>5. ClientSafe(proto, version, n, x)
  BY <1>3, <1>4
<1> HIDE DEF x
<1>6. StoreSafe(proto, version, store')
  BY <1>1, <1>2
<1> QED BY <1>2, <1>5, <1>6, ClientSteps

LEMMA RetrieveKeeps ==
  ASSUME CacheInvariant, Hypotheses, NEW n \in Clients, NEW range \in Ranges, Retrieve(n, range)
  PROVE  CacheInvariant'
<1> DEFINE c == clients[n]
           d == [c EXCEPT !.error = "NONE", !.task = Task("SEARCH", range), !.calls = @ + 1]
           x == Attempt(d, store)
<1>1. /\ ClientSafe(proto, version, n, c) /\ StoreSafe(proto, version, store)
      /\ proto \in Protocols /\ version \in 1..Len(Hits)
  BY DEF CacheInvariant
<1>2. /\ c.task = <<>> /\ c.rs # <<>> /\ c.error = "NONE" /\ UNCHANGED <<proto, store, version>>
      /\ clients' = [clients EXCEPT ![n] = x]
  BY DEF Retrieve, May
<1>3. Ready(proto, version, n, d)
  BY <1>1, <1>2, RetrieveReady
<1> HIDE DEF d
<1>4. ClientSafe(proto, version, n, x)
  BY <1>1, <1>3, AttemptSafe
<1> HIDE DEF x
<1>5. StoreSafe(proto, version, store')
  BY <1>1, <1>2
<1> QED BY <1>2, <1>4, <1>5, ClientSteps

LEMMA SortKeeps ==
  ASSUME CacheInvariant, Liberties = {}, NEW n \in Clients, Sort(n, Criteria("later", TRUE))
  PROVE  CacheInvariant'
<1> DEFINE c == clients[n]
           so == <<Criteria("later", TRUE)>>
           x == Send([c EXCEPT !.error = "NONE", !.rs[1].cache = {}, !.rs[1].order = so,
                               !.task = Task("SORT", <<0, 0, NULL>>), !.calls = @ + 1], "SORT", so, 0)
<1>1. ClientSafe(proto, version, n, c) /\ StoreSafe(proto, version, store)
  BY DEF CacheInvariant
<1>2. /\ c.task = <<>> /\ c.srv # <<>> /\ proto = "Z3950" /\ ~Uses(c) /\ UNCHANGED <<proto, store, version>>
      /\ clients' = [clients EXCEPT ![n] = x]
  BY DEF Sort, May
<1>3. ClientSafe("Z3950", version, n, x)
  BY <1>1, <1>2, SortSafe
<1> HIDE DEF x
<1>4. StoreSafe(proto, version, store')
  BY <1>1, <1>2
<1> QED BY <1>2, <1>3, <1>4, ClientSteps

LEMMA AcceptKeeps ==
  ASSUME CacheInvariant, Hypotheses, NEW n \in Clients, Accept(n)
  PROVE  CacheInvariant'
<1> DEFINE c == clients[n]
<1>1. ASSUME NEW kind, Awaits(n, kind) PROVE Hears(n, c, store, kind)
  BY <1>1 DEF CacheInvariant, Awaits, Hears
<1>2. CASE Awaits(n, "SEARCH") /\ Answered(n, SearchResponse(c, store))
  <2>1. HandledSafe(n, SearchResponse(c, store))
    BY <1>1, <1>2, SearchResponseSafe
  <2> QED BY <1>2, <2>1, AnswerKeeps
<1>3. CASE Awaits(n, "SORT") /\ Answered(n, SortResponse(c, store))
  <2>1. HandledSafe(n, SortResponse(c, store))
    BY <1>1, <1>3, SortResponseSafe
  <2> QED BY <1>3, <2>1, AnswerKeeps
<1>4. CASE Awaits(n, "PRESENT") /\ Answered(n, PresentResponse(c, store))
  <2>1. HandledSafe(n, PresentResponse(c, store))
    BY <1>1, <1>4, PresentResponseSafe
  <2> QED BY <1>4, <2>1, AnswerKeeps
<1>5. CASE Awaits(n, "SRU") /\ Answered(n, SrwResponse(c, store))
  <2>1. HandledSafe(n, SrwResponse(c, store))
    BY <1>1, <1>5, SrwResponseSafe
  <2> QED BY <1>5, <2>1, AnswerKeeps
<1> QED BY <1>2, <1>3, <1>4, <1>5 DEF Accept

LEMMA RefuseKeeps ==
  ASSUME CacheInvariant, Liberties = {}, NEW n \in Clients, Refuse(n)
  PROVE  CacheInvariant'
<1> DEFINE c == clients[n]
<1>1. ASSUME NEW kind, Awaits(n, kind) PROVE Hears(n, c, store, kind)
  BY <1>1 DEF CacheInvariant, Awaits, Hears
<1>2. CASE Awaits(n, "SEARCH") /\ ~Uses(c) /\ Answered(n, SearchRefused(c, store))
  <2>1. HandledSafe(n, SearchRefused(c, store))
    BY <1>1, <1>2, SearchRefusedSafe
  <2> QED BY <1>2, <2>1, AnswerKeeps
<1>3. CASE Awaits(n, "SRU") /\ Answered(n, SrwRefused(c, store))
  <2>1. HandledSafe(n, SrwRefused(c, store))
    BY <1>1, <1>3, SrwRefusedSafe
  <2> QED BY <1>3, <2>1, AnswerKeeps
<1> QED BY <1>2, <1>3 DEF Refuse

LEMMA UpdateKeeps ==
  ASSUME CacheInvariant, Liberties = {}, Update
  PROVE  CacheInvariant'
<1>1. /\ version \in 1..Len(Hits) /\ version < Len(Hits) /\ Shrinks(version) /\ version' = version + 1
      /\ ~(Hits[version + 1] > Hits[version]) /\ UNCHANGED <<proto, clients, store>>
  BY DEF CacheInvariant, Update
<1>2. Hits \in Seq(Nat) /\ Len(Hits) \in Nat
  BY CacheAssumption, LenProperties
<1> DEFINE w == version + 1
<1>3. version \in Nat /\ version > 0 /\ w \in 1..Len(Hits) /\ w \in Nat /\ version <= w
  BY <1>1, <1>2
<1>4. Hits[w] <= Hits[version]
  <2>1. Hits[w] \in Nat /\ Hits[version] \in Nat
    BY <1>1, <1>2, <1>3, ElementOfSeq
  <2> QED BY <1>1, <2>1
<1>5. Shrinks(w)
  BY <1>1, <1>3, <1>4, ShrinksOn
<1> HIDE DEF w
<1>6. StoreSafe(proto, w, store) /\ \A n \in Clients : ClientSafe(proto, w, n, clients[n])
  BY <1>3, SafeLater DEF CacheInvariant
<1>7. version' = w /\ proto' = proto /\ clients' = clients /\ store' = store
  BY <1>1 DEF w
<1> QED BY <1>3, <1>5, <1>6, <1>7 DEF CacheInvariant

LEMMA ExpiryKeeps ==
  ASSUME CacheInvariant, NEW b \in Backends, ExpireCount(b) \/ ExpireRecord(b)
  PROVE  CacheInvariant'
<1>1. UNCHANGED <<proto, clients, version>>
  BY DEF ExpireCount, ExpireRecord
<1>2. StoreSafe(proto, version, store')
  <2>1. StoreSafe(proto, version, store)
    BY DEF CacheInvariant
  <2>2. CASE ExpireCount(b)
    <3>1. PICK k : store' = [store EXCEPT ![b].counts = Drop(@, k)]
      BY <2>2 DEF ExpireCount
    <3> QED BY <2>1, <3>1, ExpirySafe
  <2>3. CASE ExpireRecord(b)
    <3>1. PICK r : store' = [store EXCEPT ![b].records = @ \ {r}]
      BY <2>3 DEF ExpireRecord
    <3> QED BY <2>1, <3>1, ExpirySafe
  <2> QED BY <2>2, <2>3
<1> QED BY <1>1, <1>2 DEF CacheInvariant

LEMMA NextSafe ==
  ASSUME CacheInvariant, Hypotheses, Liberties = {}, [Next]_vars
  PROVE  CacheInvariant'
<1>1. CASE UNCHANGED vars
  BY <1>1 DEF vars, CacheInvariant
<1>2. CASE Next
  <2>1. ASSUME NEW n \in Clients, NEW o \in Options[n], NEW id \in Identities[n], Connect(n, o, id) PROVE CacheInvariant'
    BY <2>1, ConnectKeeps
  <2>2. ASSUME NEW n \in Clients, NEW s \in Scripts, NEW db \in Databases, NEW r \in Ranges, Search(n, s, db, r)
        PROVE  CacheInvariant'
    BY <2>2, SearchKeeps
  <2>3. ASSUME NEW n \in Clients, NEW r \in Ranges, Retrieve(n, r) PROVE CacheInvariant'
    BY <2>3, RetrieveKeeps
  <2>4. ASSUME NEW n \in Clients, Sort(n, Criteria("later", TRUE)) PROVE CacheInvariant'
    BY <2>4, SortKeeps
  <2>5. ASSUME NEW n \in Clients, Accept(n) PROVE CacheInvariant'
    BY <2>5, AcceptKeeps
  <2>6. ASSUME NEW n \in Clients, Refuse(n) PROVE CacheInvariant'
    BY <2>6, RefuseKeeps
  <2>7. ASSUME Update PROVE CacheInvariant'
    BY <2>7, UpdateKeeps
  <2>8. ASSUME NEW b \in {"redis", "memcached"}, ExpireCount(b) \/ ExpireRecord(b) PROVE CacheInvariant'
    BY <2>8, ExpiryKeeps DEF Backends
  <2> QED BY <1>2, <2>1, <2>2, <2>3, <2>4, <2>5, <2>6, <2>7, <2>8 DEF Next
<1> QED BY <1>1, <1>2

-----------------------------------------------------------------------------
(***************************************************************************)
(* What the invariant says of each connection                              *)
(***************************************************************************)
\* The request for a search.
LEMMA WholeWhenSent ==
  ASSUME Hypotheses, proto \in Protocols, NEW v, NEW n \in Clients, NEW c, ClientSafe(proto, v, n, c),
         c.wire # <<>>, c.wire[1].kind \in {"SEARCH", "SRU"}
  PROVE  /\ c.wire[1].q # <<>> /\ ~c.q.stale
         /\ c.wire[1].q[1].sort \o (IF proto = "SRU" THEN QuerySru11(c.q) ELSE c.rs[1].sort) = SortOf(c.q)
<1> DEFINE q == c.q
<1>1. Stands(proto, v, n, c) /\ Waiting(proto, c)
  BY Waits
<1>2. Whole(q) /\ Base(proto, v, c)
  BY <1>1, NamedIs DEF Hypotheses, Stands
<1>3. q.z = <<FullQuery(q)>> /\ ~q.stale
  BY <1>2 DEF Whole
<1>4. /\ c.wire[1].q = q.z
      /\ c.wire[1].kind = "SEARCH" => proto = "Z3950" /\ c.rs[1].live # 2
      /\ c.wire[1].kind = "SRU" => proto = "SRU"
  BY <1>1 DEF Waiting
<1>5. (IF proto = "SRU" THEN QuerySru11(c.q) ELSE c.rs[1].sort) = Apart(proto, q)
  <2>1. CASE proto = "SRU"
    BY <2>1 DEF QuerySru11, Apart
  <2>2. CASE proto # "SRU"
    <3>1. c.rs[1].sort = QuerySortspec(q)
      BY <1>2, <1>4, <2>2 DEF Base
    <3> QED BY <2>2, <3>1 DEF Apart
  <2> QED BY <2>1, <2>2
<1>6. FullQuery(q).sort \o Apart(proto, q) = SortFor(proto, q)
  BY <1>2, SortsReach
<1>7. SortOf(q) = SortFor(proto, q)
  BY Zenon DEF SortOf, SortFor
<1> DEFINE x == IF proto = "SRU" THEN QuerySru11(c.q) ELSE c.rs[1].sort
           y == FullQuery(q)
           w == c.wire[1].q
<1>8. w = <<y>> /\ x = Apart(proto, q) /\ y.sort \o Apart(proto, q) = SortOf(q)
  BY <1>3, <1>4, <1>5, <1>6, <1>7
<1> HIDE DEF x, y, w
<1>9. w # <<>> /\ w[1] = y /\ w[1].sort \o x = SortOf(q)
  BY <1>8
<1> QED BY <1>3, <1>9 DEF w, x, q

\* What is at hand, presented, counted and filled.
LEMMA Transparent ==
  ASSUME NEW p, NEW v, NEW n, NEW c, ClientSafe(p, v, n, c), c.rs # <<>>
  PROVE  /\ \A e \in c.rs[1].cache : OfTheSet(c, e)
         /\ c.rs[1].live # 0 /\ c.error = "NONE" => c.rs[1].size \in RealCounts(v)
         /\ c.wire # <<>> /\ c.wire[1].kind = "PRESENT" => c.srv # <<>> /\ c.srv[1].sorts = c.rs[1].order
         /\ c.task = <<>> /\ c.error = "NONE" /\ c.last # <<>> =>
              \A at \in c.last[1].from..(c.last[1].upto - 1) :
                at < c.rs[1].size => \E e \in c.rs[1].cache : e.at = at /\ e.syntax = c.last[1].syntax
<1>1. Base(p, v, c) /\ AtServer(p, c) /\ c \in Client
  BY DEF ClientSafe
<1>2. ASSUME c.wire # <<>>, c.wire[1].kind = "PRESENT" PROVE c.srv # <<>> /\ c.srv[1].sorts = c.rs[1].order
  <2>1. Waiting(p, c) /\ c.error = "NONE"
    BY <1>2, Waits
  <2>2. p = "Z3950" /\ c.rs[1].live = 2 /\ InOrder(c)
    BY <1>2, <2>1 DEF Waiting
  <2> QED BY <1>1, <2>1, <2>2 DEF AtServer, InOrder
<1>3. ASSUME c.task = <<>>, c.error = "NONE", c.last # <<>>, NEW at \in c.last[1].from..(c.last[1].upto - 1), at < c.rs[1].size
      PROVE  \E e \in c.rs[1].cache : e.at = at /\ e.syntax = c.last[1].syntax
  <2> DEFINE t == c.last[1]
             k == c.rs[1].size
  <2>1. Finished(c)
    BY <1>3 DEF ClientSafe
  <2>2. FilledTo(c, t, t.upto) \/ FilledTo(c, t, k)
    BY <1>3, <2>1 DEF Finished
  <2>3. t \in ATask /\ c.rs[1] \in AResultSet
    BY <1>1, <1>3, FirstOf, PartsOf DEF Client
  <2>4. t.from \in Nat /\ k \in Nat
    BY <2>3 DEF ATask, AResultSet
  <2>5. at \in t.from..(t.upto - 1) /\ at < k
    BY <1>3
  <2>6. at \in t.from..(k - 1)
    <3> HIDE DEF t, k
    <3>1. t.upto \in Nat
      BY <2>3 DEF ATask
    <3> QED BY <2>4, <2>5, <3>1
  <2> QED BY <2>2, <2>5, <2>6 DEF FilledTo
<1> QED BY <1>1, <1>2, <1>3 DEF Base

LEMMA Short ==
  ASSUME NEW p, NEW v, NEW n, NEW c, ClientSafe(p, v, n, c), c.task # <<>>
  PROVE  c.task[1].sent <= 2 + (c.task[1].upto - c.task[1].from)
<1> DEFINE t == c.task[1]
<1>1. c \in Client /\ c.rs # <<>>
  BY DEF ClientSafe
<1>2. c.wire # <<>> /\ Waiting(p, c)
  BY <1>1 DEF ClientSafe
<1>3. t \in ATask
  BY <1>1, PartsOf
<1>4. t.sent \in Nat /\ t.from \in Nat /\ t.upto \in Nat /\ t.start \in Nat /\ t.count \in Nat
  BY <1>3 DEF ATask
<1>5. t.which = "SEARCH" \/ t.which = "SORT"
  BY <1>3 DEF ATask
<1>6. Progress(c) => t.from <= t.start /\ t.start + t.count <= t.upto
  BY DEF Progress
<1>7. \/ t.sent <= 2 /\ Progress(c)
      \/ t.sent <= 3 /\ t.count > 0 /\ Progress(c)
      \/ t.sent <= 2 /\ t.from = 0 /\ t.upto = 0
  <2>1. CASE c.wire[1].kind = "SEARCH"
    BY <1>2, <1>4, <2>1 DEF Waiting
  <2>2. CASE c.wire[1].kind = "SRU"
    BY <1>2, <1>4, <2>2 DEF Waiting
  <2>3. CASE c.wire[1].kind = "PRESENT"
    BY <1>2, <1>4, <2>3 DEF Waiting
  <2>4. CASE c.wire[1].kind = "SORT"
    BY <1>2, <1>4, <1>5, <2>4 DEF Waiting
  <2>5. c.wire[1].kind \in {"SEARCH", "SRU", "PRESENT", "SORT"}
    BY <1>2 DEF Waiting
  <2> QED BY <2>1, <2>2, <2>3, <2>4, <2>5
<1> HIDE DEF t
<1>8. t.sent <= 2 + (t.upto - t.from)
  BY <1>4, <1>6, <1>7
<1> QED BY <1>8 DEF t

LEMMA InvariantTells ==
  ASSUME CacheInvariant, Hypotheses
  PROVE  QueriesAreWhole /\ CacheIsTransparent
<1>1. proto \in Protocols /\ \A n \in Clients : ClientSafe(proto, version, n, clients[n])
  BY DEF CacheInvariant
<1>2. QueriesAreWhole
  BY <1>1, WholeWhenSent DEF QueriesAreWhole, Awaits
<1>3. RecordsAreOfTheSet
  BY <1>1, Transparent DEF RecordsAreOfTheSet, OfTheSet
<1>4. PresentsWhatWasSearched
  <2>1. ASSUME NEW n \in Clients, Awaits(n, "PRESENT")
        PROVE  clients[n].srv # <<>> /\ clients[n].srv[1].sorts = clients[n].rs[1].order
    <3>1. clients[n].wire # <<>> /\ clients[n].wire[1].kind = "PRESENT"
      BY <2>1 DEF Awaits
    <3>2. clients[n].rs # <<>>
      BY <1>1, <3>1 DEF ClientSafe
    <3> QED BY <1>1, <3>1, <3>2, Transparent
  <2> QED BY <2>1 DEF PresentsWhatWasSearched
<1>5. RangesAreFilled
  <2>1. ASSUME NEW n \in Clients, clients[n].rs # <<>>, clients[n].task = <<>>, clients[n].error = "NONE", clients[n].last # <<>>,
               NEW at \in clients[n].last[1].from..(clients[n].last[1].upto - 1), at < clients[n].rs[1].size
        PROVE  \E e \in clients[n].rs[1].cache : e.at = at /\ e.syntax = clients[n].last[1].syntax
    BY <1>1, <2>1, Transparent
  <2> QED BY <2>1 DEF RangesAreFilled
<1>6. CountsAreReal
  BY <1>1, Transparent DEF CountsAreReal, RealCounts
<1>7. RetrievalsAreShort
  BY <1>1, Short DEF RetrievalsAreShort
<1> QED BY <1>2, <1>3, <1>4, <1>5, <1>6, <1>7 DEF CacheIsTransparent

-----------------------------------------------------------------------------
(***************************************************************************)
(* The theorems.  Each holds for applications that keep their keys apart   *)
(* and make their queries, when no set is sorted later that a cache knows, *)
(* no search fails on a connection with a cache and no search finds more   *)
(* than one before it did.                                                 *)
(***************************************************************************)
\* Every connection and what is cached stay as CacheInvariant says: what
\* is kept under a key is of the set that the key names, what is at hand is
\* of the set that was searched for, and a retrieval either has asked for
\* what it lacks or has it (src/src/zoom-memcached.c:204 and
\* src/src/zoom-z3950.c:1668).
THEOREM CacheInvariantHolds ==
  ASSUME KeysApart, QueriesMade, Liberties = {}
  PROVE  Spec => []CacheInvariant
<1>1. Init => CacheInvariant
  BY InitSafe
<1>2. CacheInvariant /\ [Next]_vars => CacheInvariant'
  BY NextSafe DEF Hypotheses
<1> QED BY <1>1, <1>2, PTL DEF Spec

\* QueriesAreWhole: a query that is sent refers to a query that has not been
\* given back, and carries the sort that was asked for last, in one place
\* (src/src/zoom-query.c:55).
THEOREM QueriesAreWholeHolds ==
  ASSUME KeysApart, QueriesMade, Liberties = {}
  PROVE  Spec => []QueriesAreWhole
<1>1. CacheInvariant => QueriesAreWhole
  BY InvariantTells DEF Hypotheses
<1> QED BY <1>1, CacheInvariantHolds, PTL

\* CacheIsTransparent: what an application sees through the shared cache is
\* what it would have seen without it: records of its set, real counts,
\* ranges without gaps, after few requests (src/src/zoom-memcached.c:204,
\* src/src/zoom-z3950.c:1668, src/src/zoom-sru.c:290).
THEOREM CacheIsTransparentHolds ==
  ASSUME KeysApart, QueriesMade, Liberties = {}
  PROVE  Spec => []CacheIsTransparent
<1>1. CacheInvariant => CacheIsTransparent
  BY InvariantTells DEF Hypotheses
<1> QED BY <1>1, CacheInvariantHolds, PTL
=============================================================================
