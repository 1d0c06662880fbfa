------------------------ MODULE ZoomRecordCacheProofs -------------------------
(***************************************************************************)
(* Proof that the record cache of ZoomResultSet is right: what a result    *)
(* set holds are the records of its own query, each at its position, in    *)
(* the order that the server's set has now.                                *)
(*                                                                         *)
(* A response says neither which set its records are from nor where they   *)
(* start: the client takes them for those of the set and of the range at   *)
(* the head of its queue.  That this is right rests on the names that the  *)
(* sets have at the server, on the order of the requests for one set, and  *)
(* on what is forgotten when a set is sorted or a session ends.            *)
(*                                                                         *)
(* The second half proves that a retrieval which ends without an error has *)
(* cached all that it was asked for: the range of a task moves on over     *)
(* records that are cached, and what is left of it reaches to its end or   *)
(* to that of the set.                                                     *)
(***************************************************************************)
EXTENDS ZoomResultSetProofs

(***************************************************************************)
(* The invariant                                                           *)
(***************************************************************************)
\* The application neither releases nor sorts a set that a task is about to
\* present, leaves the limits on piggybacked records alone, and keeps one set
\* at a time if the server has only the default one.
Orderly ==
  /\ Liberties \cap {"releaseBusy", "sortBusy", "expert"} = {}
  /\ Named \/ "share" \notin Liberties \/ Proto = "HTTP"

PlainOf(N) == {e \in N : ~ e.diag}
Plain(x) == PlainOf(x.cache)

Belongs(s, r) == \A e \in s.sets[r].cache : e.set = r /\ e.pos = e.at

InOrder(s, r) ==
  \A n \in Names : \A e \in s.sets[r].cache, b \in s.server[n] :
    b.set = r /\ ~ e.diag => e.order = b.order

EmptyUnlessLive(s, r) == s.sets[r].live_set = 0 => s.sets[r].cache = {}

\* What the set r holds is right.
Right(s, r) == Belongs(s, r) /\ InOrder(s, r) /\ EmptyUnlessLive(s, r)

\* The server keeps a set under the name of the result set that it is of.
OwnName(s) == \A n \in Names : \A b \in s.server[n] : s.sets[b.set].setname = n

\* Linked result sets have different names.
NamesApart(s) ==
  Proto = "Z3950" =>
    /\ \A q, r \in s.resultsets :
         s.sets[q].setname = s.sets[r].setname /\ q # r => s.sets[q].setname = NoName
    /\ ~ Named => AtMostOne(s.resultsets)

\* A set that was never searched has no name; an SRU server keeps no sets.
Nameless(s) ==
  /\ \A r \in ResultSets : s.sets[r].status = "new" => s.sets[r].setname = NoName
  /\ Proto = "HTTP" => \A n \in Names : s.server[n] = {}

\* Before a set is sorted no record of it is kept, and no task that will have
\* run by then asks for any.
SortClear(s, i) ==
  /\ Plain(s.sets[s.tasks[i].resultset]) = {}
  /\ \A j \in 1..(i - 1) :
       s.tasks[j].resultset = s.tasks[i].resultset /\ s.tasks[j].which = "SEARCH" =>
         s.tasks[j].count = 0
SortsClear(s) == \A i \in 1..Len(s.tasks) : s.tasks[i].which = "SORT" => SortClear(s, i)

\* Under the name of r the server keeps the set of no other query.
Owned(s, r) ==
  r \in s.resultsets /\ s.sets[r].setname # NoName =>
    \A b \in s.server[s.sets[r].setname] : b.set = r

\* A set that is still to be sorted by its query's criteria is empty.
SpecFirst(s, r) ==
  Proto = "Z3950" /\ s.sets[r].sort_spec =>
    s.sets[r].cache = {} /\ (s.sets[r].live_set = 2 => s.sets[r].size = 0)

Core(s) ==
  /\ UsersConnected(s) /\ OwnName(s) /\ NamesApart(s) /\ Nameless(s) /\ SortsClear(s)
  /\ \A r \in ResultSets : Right(s, r)

\* The sets in X are just being answered.
Between(s, X) == Core(s) /\ \A r \in ResultSets \ X : Owned(s, r) /\ SpecFirst(s, r)

\* Until the response comes, the server may have any set under the name.
Searching(s) == {q.set : q \in {w \in s.wire : w.kind = "SEARCH"}}

\* What was asked for can be taken when the response comes.
Asked(s, q) ==
  /\ q.kind = "SORT" => Plain(s.sets[q.set]) = {}
  /\ q.kind = "PRESENT" => s.sets[q.set].size > 0
  /\ q.kind = "SEARCH" /\ q.count > 0 =>
       Head(s.tasks).start = 0 /\ Head(s.tasks).count > 0 /\ ~ s.sets[q.set].sort_spec

Caches(s) == Between(s, Searching(s)) /\ \A q \in s.wire : Asked(s, q)

(***************************************************************************)
(* Forgetting                                                              *)
(***************************************************************************)
\* The tasks u are the last ones of t, and ask for no more.
Fewer(u, t) ==
  \E d \in Nat : \A i \in 1..Len(u) :
    /\ i + d \in 1..Len(t) /\ u[i].which = t[i + d].which
    /\ u[i].resultset = t[i + d].resultset /\ (t[i + d].count = 0 => u[i].count = 0)

\* p is s with records, server sets, links or tasks removed.
Less(p, s) ==
  /\ SetsKept(p, s) /\ Fewer(p.tasks, s.tasks) /\ p.resultsets \subseteq s.resultsets
  /\ \A n \in Names : p.server[n] \subseteq s.server[n]

LEMMA LessRight ==
  ASSUME NEW s, NEW p, Less(p, s), NEW r \in ResultSets, Right(s, r)
  PROVE  Right(p, r)
<1>1. /\ p.sets[r].cache \subseteq s.sets[r].cache /\ p.sets[r].live_set = s.sets[r].live_set
      /\ \A n \in Names : p.server[n] \subseteq s.server[n]
  BY DEF Less, SetsKept
<1>2. Belongs(p, r)
  BY <1>1 DEF Right, Belongs
<1>3. InOrder(p, r)
  BY <1>1 DEF Right, InOrder
<1>4. EmptyUnlessLive(p, r)
  BY <1>1 DEF Right, EmptyUnlessLive
<1> QED BY <1>2, <1>3, <1>4 DEF Right

\* Of names: no set is linked or kept at the server that was not.
NamesKept(p, s) ==
  /\ p.resultsets \subseteq s.resultsets /\ \A n \in Names : p.server[n] \subseteq s.server[n]
  /\ \A r \in ResultSets : /\ p.sets[r].setname = s.sets[r].setname
                           /\ p.sets[r].status = "new" => s.sets[r].status = "new"

LEMMA KeptNames ==
  ASSUME NEW s, Mid(s), OwnName(s), NamesApart(s), Nameless(s), NEW p, Mid(p), NamesKept(p, s)
  PROVE  OwnName(p) /\ NamesApart(p) /\ Nameless(p)
<1>1. /\ p.resultsets \subseteq s.resultsets /\ s.resultsets \subseteq ResultSets
      /\ \A n \in Names : p.server[n] \subseteq s.server[n] /\ s.server[n] \subseteq ServerSet
  BY DEF NamesKept, Mid, Typed, RsState
<1>2. \A r \in ResultSets : /\ p.sets[r].setname = s.sets[r].setname
                            /\ p.sets[r].status = "new" => s.sets[r].status = "new"
  BY DEF NamesKept
<1>3. OwnName(p)
  BY <1>1, <1>2 DEF OwnName, ServerSet
<1>4. NamesApart(p)
  <2>1. CASE Proto = "Z3950"
    <3>1. \A q, r \in p.resultsets :
            p.sets[q].setname = p.sets[r].setname /\ q # r => p.sets[q].setname = NoName
      BY <1>1, <1>2, <2>1 DEF NamesApart
    <3>2. ~ Named => AtMostOne(p.resultsets)
      BY <1>1, <2>1 DEF NamesApart, AtMostOne
    <3> QED BY <3>1, <3>2 DEF NamesApart
  <2> QED BY <2>1 DEF NamesApart
<1>5. Nameless(p)
  BY <1>1, <1>2 DEF Nameless
<1> QED BY <1>3, <1>4, <1>5

\* Of tasks and caches: the sets in use stay connected.
Calmer(p, s) ==
  /\ Fewer(p.tasks, s.tasks)
  /\ \A r \in ResultSets : /\ p.sets[r].cache \subseteq s.sets[r].cache
                           /\ On(p.tasks, r) # {} => p.sets[r].connection = s.sets[r].connection

LEMMA CalmerTasks ==
  ASSUME NEW s, Mid(s), UsersConnected(s), SortsClear(s), NEW p, Mid(p), Calmer(p, s)
  PROVE  UsersConnected(p) /\ SortsClear(p)
<1>1. /\ p.tasks \in Seq(Task) /\ DOMAIN p.tasks = 1..Len(p.tasks) /\ Len(p.tasks) \in Nat
      /\ s.tasks \in Seq(Task) /\ DOMAIN s.tasks = 1..Len(s.tasks) /\ Len(s.tasks) \in Nat
  <2>1. p.tasks \in Seq(Task) /\ s.tasks \in Seq(Task)
    BY DEF Mid, Typed, RsState
  <2> QED BY <2>1, LenProperties
<1>2. PICK d \in Nat : \A i \in 1..Len(p.tasks) :
        /\ i + d \in 1..Len(s.tasks) /\ p.tasks[i].which = s.tasks[i + d].which
        /\ p.tasks[i].resultset = s.tasks[i + d].resultset
        /\ (s.tasks[i + d].count = 0 => p.tasks[i].count = 0)
  BY DEF Calmer, Fewer
<1>3. UsersConnected(p)
  <2>1. SUFFICES ASSUME NEW r \in ResultSets, On(p.tasks, r) # {} PROVE p.sets[r].connection
    BY DEF UsersConnected
  <2>2. PICK i \in 1..Len(p.tasks) : p.tasks[i].resultset = r
    BY <1>1, <2>1 DEF On
  <2>3. i + d \in On(s.tasks, r)
    BY <1>1, <1>2, <2>2 DEF On
  <2>4. s.sets[r].connection
    BY <2>3 DEF UsersConnected
  <2> QED BY <2>1, <2>4 DEF Calmer
<1>4. SortsClear(p)
  <2>1. SUFFICES ASSUME NEW i \in 1..Len(p.tasks), p.tasks[i].which = "SORT" PROVE SortClear(p, i)
    BY DEF SortsClear
  <2>2. SortClear(s, i + d) /\ p.tasks[i].resultset = s.tasks[i + d].resultset
    BY <1>2, <2>1 DEF SortsClear
  <2>3. p.tasks[i].resultset \in ResultSets
    BY QueuedAlive
  <2>4. Plain(p.sets[p.tasks[i].resultset]) = {}
    <3>1. p.sets[p.tasks[i].resultset].cache \subseteq s.sets[p.tasks[i].resultset].cache
      BY <2>3 DEF Calmer
    <3> QED BY <2>2, <3>1 DEF SortClear, Plain, PlainOf
  <2>5. ASSUME NEW j \in 1..(i - 1), p.tasks[j].resultset = p.tasks[i].resultset,
               p.tasks[j].which = "SEARCH"
        PROVE  p.tasks[j].count = 0
    <3>1. j \in 1..Len(p.tasks) /\ j + d \in 1..((i + d) - 1)
      BY <1>1
    <3>2. /\ s.tasks[j + d].resultset = s.tasks[i + d].resultset /\ s.tasks[j + d].which = "SEARCH"
      BY <1>2, <2>2, <2>5, <3>1
    <3>3. s.tasks[j + d].count = 0
      BY <2>2, <3>1, <3>2 DEF SortClear
    <3> QED BY <1>2, <3>1, <3>3
  <2> QED BY <2>4, <2>5 DEF SortClear
<1> QED BY <1>3, <1>4

LEMMA LessBetween ==
  ASSUME NEW s, Mid(s), NEW X, Between(s, X), NEW p, Mid(p), Less(p, s)
  PROVE  Between(p, X)
<1>1. Core(p)
  <2>1. Calmer(p, s)
    BY DEF Less, SetsKept, Calmer
  <2>2. NamesKept(p, s)
    BY DEF Less, SetsKept, NamesKept
  <2> QED BY <2>1, <2>2, LessRight, KeptNames, CalmerTasks DEF Between, Core
<1>2. ASSUME NEW r \in ResultSets \ X PROVE Owned(p, r) /\ SpecFirst(p, r)
  <2>1. /\ Owned(s, r) /\ SpecFirst(s, r) /\ p.resultsets \subseteq s.resultsets
        /\ p.sets[r].setname = s.sets[r].setname /\ p.sets[r].live_set = s.sets[r].live_set
        /\ p.sets[r].size = s.sets[r].size /\ p.sets[r].sort_spec = s.sets[r].sort_spec
        /\ p.sets[r].cache \subseteq s.sets[r].cache
        /\ \A n \in Names : p.server[n] \subseteq s.server[n]
    BY DEF Between, Less, SetsKept
  <2>2. s.sets[r].setname \in Names \cup {NoName}
    BY DEF Mid, Typed, RsState, ResultSet
  <2> QED BY <2>1, <2>2 DEF Owned, SpecFirst
<1> QED BY <1>1, <1>2 DEF Between

LEMMA FewerSame ==
  ASSUME NEW t \in Seq(Task)
  PROVE  Fewer(t, t)
<1>1. \A i \in 1..Len(t) : i + 0 = i
  BY LenProperties
<1>2. 0 \in Nat
  OBVIOUS
<1> QED BY <1>1, <1>2 DEF Fewer

LEMMA FewerHeaded ==
  ASSUME NEW t \in Seq(Task), t # <<>>, NEW k, NEW u, Headed(u, t, k),
         k.resultset = Head(t).resultset, k.which = Head(t).which,
         Head(t).count = 0 => k.count = 0
  PROVE  Fewer(u, t)
<1>1. Len(t) \in Nat /\ Head(t) = t[1]
  BY HeadIs
<1>2. \A i \in 1..Len(t) : i + 0 = i
  BY <1>1
<1>3. /\ Len(u) = Len(t) /\ u[1] = k /\ \A i \in 1..Len(t) : i # 1 => u[i] = t[i]
  BY DEF Headed
<1>4. ASSUME NEW i \in 1..Len(u)
      PROVE  /\ i + 0 \in 1..Len(t) /\ u[i].which = t[i + 0].which
             /\ u[i].resultset = t[i + 0].resultset /\ (t[i + 0].count = 0 => u[i].count = 0)
  BY <1>1, <1>2, <1>3
<1>5. 0 \in Nat
  OBVIOUS
<1> QED BY <1>4, <1>5 DEF Fewer

LEMMA FewerNone ==
  ASSUME NEW t
  PROVE  Fewer(<<>>, t)
<1>1. 1..Len(<<>>) = {} /\ 0 \in Nat
  BY EmptySeq
<1> QED BY <1>1 DEF Fewer

LEMMA FewerTail ==
  ASSUME NEW t \in Seq(Task), t # <<>>
  PROVE  Fewer(Tail(t), t)
<1> DEFINE u == Tail(t)
<1>1. /\ Len(u) = Len(t) - 1 /\ Len(t) \in Nat /\ Len(t) # 0
      /\ \A i \in 1..Len(u) : u[i] = t[i + 1]
  BY HeadTailProperties, LenProperties, EmptySeq
<1> HIDE DEF u
<1>2. \A i \in 1..Len(u) : i + 1 \in 1..Len(t)
  BY <1>1
<1>3. 1 \in Nat
  OBVIOUS
<1> QED BY <1>1, <1>2, <1>3 DEF Fewer, u

LEMMA SameSetsKept ==
  ASSUME NEW s, NEW p, p.sets = s.sets
  PROVE  SetsKept(p, s)
BY DEF SetsKept

LEMMA LessSame ==
  ASSUME NEW s, Mid(s), NEW p, p.sets = s.sets, p.resultsets = s.resultsets,
         Fewer(p.tasks, s.tasks), \A n \in Names : p.server[n] \subseteq s.server[n]
  PROVE  Less(p, s)
BY SameSetsKept DEF Less

LEMMA RemoveTaskLess ==
  ASSUME NEW s, Mid(s), s.tasks # <<>>, NEW p, p = RemoveTask(s)
  PROVE  Mid(p) /\ Less(p, s) /\ p.wire = s.wire
<1> DEFINE k == Loses(Head(s.tasks).resultset, 1)
<1>1. Mid(p) /\ k \in [ResultSets -> Nat] /\ Drops(p, s, Tail(s.tasks), k)
  BY RemoveTaskMid
<1> HIDE DEF k
<1>2. Typed(s) /\ s.tasks \in Seq(Task)
  BY DEF Mid, Typed, RsState
<1>3. SetsKept(p, s)
  BY <1>1, <1>2, DropsKept
<1>4. /\ p.tasks = Tail(s.tasks) /\ p.server = s.server /\ p.wire = s.wire
      /\ p.resultsets \subseteq s.resultsets
  BY <1>1 DEF Drops, Rest
<1>5. Fewer(p.tasks, s.tasks)
  BY <1>2, <1>4, FewerTail
<1> QED BY <1>1, <1>3, <1>4, <1>5 DEF Less

LEMMA RemoveTasksLess ==
  ASSUME NEW s, Mid(s), NEW p, p = RemoveTasks(s)
  PROVE  Mid(p) /\ Less(p, s) /\ p.wire = s.wire
<1>1. Mid(p) /\ Loss(s) \in [ResultSets -> Nat] /\ Drops(p, s, <<>>, Loss(s))
  BY RemoveTasksMid
<1>2. Typed(s)
  BY DEF Mid
<1>3. SetsKept(p, s)
  BY <1>1, <1>2, DropsKept
<1>4. /\ p.tasks = <<>> /\ p.server = s.server /\ p.wire = s.wire
      /\ p.resultsets \subseteq s.resultsets
  BY <1>1 DEF Drops, Rest
<1>5. Fewer(p.tasks, s.tasks)
  BY <1>4, FewerNone
<1> QED BY <1>1, <1>3, <1>4, <1>5 DEF Less

\* Nothing is outstanding.
LEMMA CachesIdle ==
  ASSUME NEW p, p.wire = {}
  PROVE  Caches(p) <=> Between(p, {})
<1>1. Searching(p) = {}
  BY DEF Searching
<1> QED BY <1>1 DEF Caches

LEMMA CachesNone ==
  ASSUME NEW s, Mid(s), Between(s, {}), NEW p, Mid(p), Less(p, s), p.wire = {}
  PROVE  Caches(p)
<1>1. Between(p, {})
  BY LessBetween
<1> QED BY <1>1, CachesIdle

\* The request stays outstanding.
LEMMA CachesSame ==
  ASSUME NEW s, Base(s), Caches(s), NEW p, Mid(p), Less(p, s), p.wire = s.wire, p.tasks = s.tasks
  PROVE  Caches(p)
<1>1. Searching(p) = Searching(s)
  BY DEF Searching
<1>2. Between(p, Searching(p))
  BY <1>1, LessBetween DEF Caches, Base
<1>3. ASSUME NEW q \in p.wire PROVE Asked(p, q)
  <2>1. q.set \in ResultSets
    BY DEF Base, Mid, Typed, RsState, Requests
  <2>2. /\ p.sets[q.set].cache \subseteq s.sets[q.set].cache
        /\ p.sets[q.set].size = s.sets[q.set].size
        /\ p.sets[q.set].sort_spec = s.sets[q.set].sort_spec
    BY <2>1 DEF Less, SetsKept
  <2>3. Asked(s, q)
    BY DEF Caches
  <2> QED BY <2>2, <2>3 DEF Asked, Plain, PlainOf
<1> QED BY <1>2, <1>3 DEF Caches

\* The session is gone, and with it the request and the server's sets.
LEMMA CachesGone ==
  ASSUME NEW s, Base(s), Caches(s), NEW p, Mid(p), Less(p, s), p.wire = {},
         \A n \in Names : p.server[n] = {}
  PROVE  Caches(p)
<1>1. Between(p, Searching(s))
  BY LessBetween DEF Caches, Base
<1>2. ASSUME NEW r \in ResultSets PROVE Owned(p, r) /\ SpecFirst(p, r)
  <2>1. Owned(p, r)
    <3>1. p.sets[r].setname \in Names \cup {NoName}
      BY DEF Mid, Typed, RsState, ResultSet
    <3> QED BY <3>1 DEF Owned
  <2>2. CASE r \notin Searching(s)
    BY <1>1, <2>1, <2>2 DEF Between
  <2>3. CASE r \in Searching(s)
    <3>1. PICK q \in s.wire : q.kind = "SEARCH" /\ q.set = r
      BY <2>3 DEF Searching
    <3>2. s.sets[r].live_set = 0
      BY <3>1 DEF Base, Outstanding
    <3>3. p.sets[r].live_set = 0
      BY <3>2 DEF Less, SetsKept
    <3>4. p.sets[r].cache = {}
      BY <1>1, <3>3 DEF Between, Core, Right, EmptyUnlessLive
    <3> QED BY <2>1, <3>3, <3>4 DEF SpecFirst
  <2> QED BY <2>2, <2>3
<1>3. Between(p, {})
  BY <1>1, <1>2 DEF Between
<1> QED BY <1>3, CachesIdle

(***************************************************************************)
(* Taking records                                                          *)
(***************************************************************************)
\* The same sets have the same names, and the server keeps a set under them.
Named_(p, s) ==
  /\ Alike(p, s) /\ \A r \in ResultSets : p.sets[r].setname = s.sets[r].setname
  /\ \A n \in Names : \A b \in p.server[n] : s.sets[b.set].setname = n
  /\ Proto = "HTTP" => \A n \in Names : p.server[n] = {}

LEMMA NamesSame ==
  ASSUME NEW s, Mid(s), Core(s), NEW p, Mid(p), Named_(p, s)
  PROVE  UsersConnected(p) /\ OwnName(p) /\ NamesApart(p) /\ Nameless(p)
<1>1. /\ p.resultsets = s.resultsets /\ s.resultsets \subseteq ResultSets
      /\ \A n \in Names : p.server[n] \subseteq ServerSet
      /\ \A r \in ResultSets : /\ p.sets[r].setname = s.sets[r].setname
                               /\ p.sets[r].status = s.sets[r].status
                               /\ p.sets[r].connection = s.sets[r].connection
  BY DEF Named_, Alike, Mid, Typed, RsState
<1>2. UsersConnected(p)
  <2>1. \A r : On(p.tasks, r) = On(s.tasks, r)
    BY AlikeMid DEF Mid, Named_
  <2> QED BY <1>1, <2>1 DEF UsersConnected, Core
<1>3. OwnName(p)
  BY <1>1 DEF OwnName, Named_, ServerSet
<1>4. NamesApart(p)
  <2>1. CASE Proto = "Z3950"
    <3>1. \A q, r \in p.resultsets :
            p.sets[q].setname = p.sets[r].setname /\ q # r => p.sets[q].setname = NoName
      BY <1>1, <2>1 DEF Core, NamesApart
    <3>2. ~ Named => AtMostOne(p.resultsets)
      BY <1>1, <2>1 DEF Core, NamesApart
    <3> QED BY <3>1, <3>2 DEF NamesApart
  <2> QED BY <2>1 DEF NamesApart
<1>5. Nameless(p)
  BY <1>1 DEF Nameless, Core, Named_
<1> QED BY <1>2, <1>3, <1>4, <1>5

\* The records N are those of the first task's range in its set.
Fits(u, N) ==
  LET t == Head(u.tasks)
      r == t.resultset
  IN  \A e \in N : /\ e.set = r /\ e.pos = e.at
                   /\ ~ e.diag => /\ t.count > 0 \/ Proto = "HTTP"
                                  /\ \A n \in Names : \A b \in u.server[n] :
                                       b.set = r => e.order = b.order

LEMMA ToldFits ==
  ASSUME NEW u, NEW t, t = Head(u.tasks)
  PROVE  Fits(u, {Told(t.start, t.resultset)})
BY DEF Fits, Told

\* The k records of b from origin on are those that the task asked for.
Due(u, k, b, origin) ==
  LET t == Head(u.tasks) IN
  k > 0 => /\ b.set = t.resultset /\ origin = t.start /\ (t.count > 0 \/ Proto = "HTTP")
           /\ \A n \in Names : \A c \in u.server[n] : c.set = t.resultset => c.order = b.order

LEMMA NewFits ==
  ASSUME NEW u, NEW t, t = Head(u.tasks), NEW k \in Nat, NEW b, NEW origin, Due(u, k, b, origin)
  PROVE  Fits(u, New(t.start, k, b, origin))
<1>1. CASE k = 0
  <2>1. 0 .. k - 1 = {}
    BY <1>1
  <2> QED BY <2>1 DEF Fits, New
<1>2. CASE k > 0
  <2>1. /\ b.set = t.resultset /\ origin = t.start /\ (t.count > 0 \/ Proto = "HTTP")
        /\ \A n \in Names : \A c \in u.server[n] : c.set = t.resultset => c.order = b.order
    BY <1>2 DEF Due
  <2>2. ASSUME NEW e \in New(t.start, k, b, origin)
        PROVE  e.set = b.set /\ e.pos = e.at /\ e.order = b.order
    <3>1. PICK i \in 0 .. k - 1 :
            e = [at |-> t.start + i, set |-> b.set, order |-> b.order, pos |-> origin + i,
                 diag |-> FALSE]
      BY DEF New
    <3> QED BY <2>1, <3>1
  <2> QED BY <2>1, <2>2 DEF Fits
<1> QED BY <1>1, <1>2

Recached(x, c) == [x EXCEPT !.cache = c]

\* The records N of r are right, and no others were added.
TakenRight(v, u, r, N) ==
  /\ Right(v, r)
  /\ Plain(v.sets[r]) \subseteq Plain(u.sets[r]) \cup PlainOf(N)
  /\ N = {} => v.sets[r].cache = u.sets[r].cache

LEMMA TookRight ==
  ASSUME NEW u, NEW r \in ResultSets, r = Head(u.tasks).resultset, u.sets[r] \in ResultSet,
         Right(u, r), NEW N, Fits(u, N), N # {} => u.sets[r].live_set = 2,
         NEW v, v.server = u.server,
         v.sets[r] = Recached(u.sets[r], Renewed(u.sets[r].cache, N))
  PROVE  TakenRight(v, u, r, N)
<1> DEFINE c == Renewed(u.sets[r].cache, N)
<1>1. /\ v.sets[r].cache = c /\ v.sets[r].live_set = u.sets[r].live_set
  BY DEF ResultSet, Recached
<1>2. \A e \in c : e \in u.sets[r].cache \/ e \in N
  BY DEF Renewed
<1>3. N = {} => c = u.sets[r].cache
  BY DEF Renewed, Clear
<1> HIDE DEF c
<1>4. Belongs(v, r)
  BY <1>1, <1>2 DEF Belongs, Right, Fits
<1>5. InOrder(v, r)
  <2>1. SUFFICES ASSUME NEW n \in Names, NEW e \in c, NEW b \in u.server[n], b.set = r, ~ e.diag
                 PROVE  e.order = b.order
    BY <1>1 DEF InOrder
  <2>2. CASE e \in u.sets[r].cache
    BY <2>1, <2>2 DEF Right, InOrder
  <2>3. CASE e \in N
    BY <2>1, <2>3 DEF Fits
  <2> QED BY <1>2, <2>2, <2>3
<1>6. EmptyUnlessLive(v, r)
  BY <1>1, <1>3 DEF EmptyUnlessLive, Right
<1>7. Plain(v.sets[r]) \subseteq Plain(u.sets[r]) \cup PlainOf(N)
  BY <1>1, <1>2 DEF Plain, PlainOf
<1> QED BY <1>1, <1>3, <1>4, <1>5, <1>6, <1>7 DEF Right, TakenRight

\* h is what is left of the first task of u, a search that took the records N.
HeadTook(v, u, h, N) ==
  LET t == Head(u.tasks)
      r == t.resultset
  IN  /\ Headed(v.tasks, u.tasks, h) /\ t.which = "SEARCH"
      /\ h.which = "SEARCH" /\ h.resultset = r /\ (t.count = 0 => h.count = 0)
      /\ Plain(v.sets[r]) \subseteq Plain(u.sets[r]) \cup PlainOf(N)
      /\ \A o \in ResultSets : o # r => v.sets[o] = u.sets[o]

LEMMA TookSorts ==
  ASSUME NEW u, Mid(u), u.tasks # <<>>, SortsClear(u), NEW N, Fits(u, N),
         NEW v, Mid(v), NEW h, HeadTook(v, u, h, N)
  PROVE  SortsClear(v)
<1> DEFINE t == Head(u.tasks)
           r == t.resultset
<1>0. /\ Headed(v.tasks, u.tasks, h) /\ t.which = "SEARCH"
      /\ h.which = "SEARCH" /\ h.resultset = r /\ (t.count = 0 => h.count = 0)
      /\ Plain(v.sets[r]) \subseteq Plain(u.sets[r]) \cup PlainOf(N)
      /\ \A o \in ResultSets : o # r => v.sets[o] = u.sets[o]
  BY DEF HeadTook
<1>1. u.tasks \in Seq(Task) /\ Len(u.tasks) \in Nat /\ u.tasks[1] = t /\ 1 \in 1..Len(u.tasks)
  <2>1. u.tasks \in Seq(Task)
    BY DEF Mid, Typed, RsState
  <2> QED BY <2>1, HeadIs
<1> HIDE DEF t, r
<1>2. /\ Len(v.tasks) = Len(u.tasks) /\ v.tasks[1] = h
      /\ \A i \in 1..Len(u.tasks) : i # 1 => v.tasks[i] = u.tasks[i]
  BY <1>0 DEF Headed
<1>t. t.resultset = r /\ t = Head(u.tasks)
  BY DEF t, r
<1>3. SUFFICES ASSUME NEW i \in 1..Len(v.tasks), v.tasks[i].which = "SORT" PROVE SortClear(v, i)
  BY DEF SortsClear
<1>4. i # 1 /\ i \in 1..Len(u.tasks) /\ v.tasks[i] = u.tasks[i] /\ SortClear(u, i)
  BY <1>0, <1>1, <1>2, <1>3 DEF SortsClear
<1>5. u.tasks[i].resultset \in ResultSets /\ 1 \in 1..(i - 1)
  <2>1. 1 \in 1..(i - 1)
    BY <1>1, <1>4
  <2> QED BY <1>4, <2>1, QueuedAlive
<1>6. Plain(v.sets[v.tasks[i].resultset]) = {}
  <2>1. CASE u.tasks[i].resultset = r
    <3>1. Plain(u.sets[r]) = {} /\ t.count = 0
      BY <1>0, <1>t, <1>1, <1>4, <1>5, <2>1 DEF SortClear
    <3>2. PlainOf(N) = {}
      <4>1. Proto # "HTTP"
        BY <1>3, <1>4 DEF Mid, HttpSearches
      <4> QED BY <1>t, <3>1, <4>1 DEF Fits, PlainOf
    <3> QED BY <1>0, <1>4, <2>1, <3>1, <3>2
  <2>2. CASE u.tasks[i].resultset # r
    <3>1. v.sets[u.tasks[i].resultset] = u.sets[u.tasks[i].resultset]
      BY <1>0, <1>5, <2>2
    <3> QED BY <1>4, <3>1 DEF SortClear
  <2> QED BY <2>1, <2>2
<1>7. ASSUME NEW j \in 1..(i - 1), v.tasks[j].resultset = v.tasks[i].resultset,
             v.tasks[j].which = "SEARCH"
      PROVE  v.tasks[j].count = 0
  <2>1. j \in 1..Len(u.tasks)
    BY <1>1, <1>4
  <2>2. CASE j = 1
    BY <1>0, <1>t, <1>1, <1>2, <1>4, <1>7, <2>2 DEF SortClear
  <2>3. CASE j # 1
    BY <1>2, <1>4, <1>7, <2>1, <2>3 DEF SortClear
  <2> QED BY <2>2, <2>3
<1> QED BY <1>6, <1>7 DEF SortClear

\* N may be taken into the set of the first task.
Takes(u, N, X) ==
  LET r == Head(u.tasks).resultset IN
  /\ Fits(u, N) /\ (N # {} => u.sets[r].live_set = 2)
  /\ r \in X \/ N = {} \/ ~ u.sets[r].sort_spec \/ Proto = "HTTP"

LEMMA TookBetween ==
  ASSUME NEW u, Ready(u), NEW X, Between(u, X), NEW N, Takes(u, N, X),
         NEW t, t = Head(u.tasks), t.which = "SEARCH", NEW r, r = t.resultset,
         NEW h, h.which = "SEARCH", h.resultset = r, t.count = 0 => h.count = 0,
         NEW v, Mid(v), Alike(v, u), Took(v, u, r, Renewed(u.sets[r].cache, N), h)
  PROVE  /\ Between(v, X) /\ (N = {} => v.sets[r].cache = u.sets[r].cache)
         /\ \A o \in ResultSets : /\ v.sets[o].setname = u.sets[o].setname
                                  /\ v.sets[o].sort_spec = u.sets[o].sort_spec
<1>1. /\ Mid(u) /\ u.tasks # <<>> /\ r \in ResultSets /\ u.sets[r] \in ResultSet
      /\ Core(u) /\ Right(u, r)
  BY ReadyIs DEF Between, Core
<1>2. /\ v.server = u.server /\ v.resultsets = u.resultsets
      /\ v.sets[r] = [u.sets[r] EXCEPT !.cache = Renewed(u.sets[r].cache, N)]
      /\ \A o \in ResultSets : o # r => v.sets[o] = u.sets[o]
      /\ Headed(v.tasks, u.tasks, h)
  BY DEF Took
<1>3. /\ Right(v, r)
      /\ Plain(v.sets[r]) \subseteq Plain(u.sets[r]) \cup PlainOf(N)
      /\ N = {} => v.sets[r].cache = u.sets[r].cache
  <2>1. Fits(u, N) /\ r = Head(u.tasks).resultset
    BY DEF Takes
  <2>2. N # {} => u.sets[r].live_set = 2
    BY DEF Takes
  <2>3. r \in ResultSets /\ u.sets[r] \in ResultSet /\ Right(u, r)
    BY <1>1
  <2>4. /\ v.server = u.server
        /\ v.sets[r] = Recached(u.sets[r], Renewed(u.sets[r].cache, N))
    BY <1>2 DEF Recached
  <2>5. TakenRight(v, u, r, N)
    BY <2>1, <2>2, <2>3, <2>4, TookRight
  <2> QED BY <2>5 DEF TakenRight
<1>4. \A o \in ResultSets : /\ v.sets[o].setname = u.sets[o].setname
                            /\ v.sets[o].live_set = u.sets[o].live_set
                            /\ v.sets[o].size = u.sets[o].size
                            /\ v.sets[o].sort_spec = u.sets[o].sort_spec
  <2>1. /\ v.sets[r].setname = u.sets[r].setname /\ v.sets[r].live_set = u.sets[r].live_set
        /\ v.sets[r].size = u.sets[r].size /\ v.sets[r].sort_spec = u.sets[r].sort_spec
    BY <1>1, <1>2 DEF ResultSet
  <2> QED BY <1>2, <2>1
<1>5. SortsClear(v)
  <2>1. Fits(u, N) /\ SortsClear(u)
    BY <1>1 DEF Takes, Core
  <2>2. HeadTook(v, u, h, N)
    BY <1>2, <1>3 DEF HeadTook
  <2> QED BY <1>1, <2>1, <2>2, TookSorts
<1>6. Named_(v, u)
  <2>1. \A n \in Names : \A b \in v.server[n] : u.sets[b.set].setname = n
    BY <1>1, <1>2 DEF Core, OwnName
  <2>2. Proto = "HTTP" => \A n \in Names : v.server[n] = {}
    BY <1>1, <1>2 DEF Core, Nameless
  <2> QED BY <1>4, <2>1, <2>2 DEF Named_
<1>7. UsersConnected(v) /\ OwnName(v) /\ NamesApart(v) /\ Nameless(v)
  BY <1>1, <1>6, NamesSame
<1>8. ASSUME NEW o \in ResultSets PROVE Right(v, o)
  <2>1. CASE o = r
    BY <1>3, <2>1
  <2>2. CASE o # r
    <3>1. Right(u, o) /\ v.sets[o] = u.sets[o]
      BY <1>1, <1>2, <2>2 DEF Core
    <3> QED BY <1>2, <3>1 DEF Right, Belongs, InOrder, EmptyUnlessLive
  <2> QED BY <2>1, <2>2
<1>9. Core(v)
  BY <1>5, <1>7, <1>8 DEF Core
<1>10. ASSUME NEW o \in ResultSets \ X PROVE Owned(v, o) /\ SpecFirst(v, o)
  <2>1. Owned(u, o) /\ SpecFirst(u, o)
    BY DEF Between
  <2>2. Owned(v, o)
    BY <1>2, <1>4, <2>1 DEF Owned
  <2>3. SpecFirst(v, o)
    <3>1. CASE o # r
      BY <1>2, <2>1, <3>1 DEF SpecFirst
    <3>2. CASE o = r
      <4>1. N = {} \/ ~ u.sets[r].sort_spec \/ Proto = "HTTP"
        BY <3>2 DEF Takes
      <4>2. Proto # "HTTP" \/ Proto # "Z3950"
        OBVIOUS
      <4> QED BY <1>3, <1>4, <2>1, <3>2, <4>1, <4>2 DEF SpecFirst
    <3> QED BY <3>1, <3>2
  <2> QED BY <2>2, <2>3
<1>11. Between(v, X)
  BY <1>9, <1>10 DEF Between
<1> QED BY <1>3, <1>4, <1>11

(***************************************************************************)
(* The records of each kind of response                                    *)
(***************************************************************************)
\* The records can be taken now, or there are none.
Open(u, k, X) ==
  LET x == u.sets[Head(u.tasks).resultset] IN
  k > 0 => /\ x.live_set = 2
           /\ Head(u.tasks).resultset \in X \/ ~ x.sort_spec \/ Proto = "HTTP"

LEMMA NewTakes ==
  ASSUME NEW u, Ready(u), NEW X, NEW t, t = Head(u.tasks), NEW k \in Nat, NEW b \in ServerSet,
         NEW origin \in Nat, Due(u, k, b, origin), Open(u, k, X)
  PROVE  Takes(u, New(t.start, k, b, origin), X)
<1> DEFINE N == New(t.start, k, b, origin)
<1>1. Fits(u, N)
  BY NewFits
<1>2. k = 0 => N = {}
  <2>1. t.start \in Nat
    BY ReadyIs DEF Task
  <2> QED BY <2>1, NewIs
<1> HIDE DEF N
<1>3. k = 0 \/ k > 0
  OBVIOUS
<1>4. Takes(u, N, X)
  BY <1>1, <1>2, <1>3 DEF Takes, Open
<1> QED BY <1>4 DEF N

Shorter(h, t) == h.which = t.which /\ h.resultset = t.resultset /\ (t.count = 0 => h.count = 0)

LEMMA NothingLeft ==
  ASSUME NEW m, m = 0, NEW k \in Nat
  PROVE  m - Least(k, m) = 0
<1>1. ~ (k < m) /\ m - m = 0
  OBVIOUS
<1>2. Least(k, m) = m
  BY <1>1 DEF Least
<1> QED BY <1>1, <1>2

LEMMA HandledShorter ==
  ASSUME NEW t \in Task, NEW x \in ResultSet, NEW k \in Nat
  PROVE  \A ph \in BOOLEAN : Shorter(HandledTask(t, x, k, ph), t)
<1> SUFFICES ASSUME NEW ph \in BOOLEAN, NEW h, h = HandledTask(t, x, k, ph) PROVE Shorter(h, t)
  OBVIOUS
<1>1. SameTask(h, t)
  BY HandledTaskSame
<1>2. h.count = IF ph /\ k = 0 THEN 0 ELSE Left(t, x) - Least(k, Left(t, x))
  BY HandledTaskIs
<1>3. t.start \in Nat /\ t.count \in Nat /\ x.size \in Nat
  BY DEF Task, ResultSet
<1>4. ASSUME t.count = 0 PROVE h.count = 0
  <2>1. Left(t, x) = 0
    BY <1>3, <1>4 DEF Left, Least
  <2>2. Left(t, x) - Least(k, Left(t, x)) = 0
    <3> DEFINE m == Left(t, x)
    <3>1. m = 0
      BY <2>1
    <3> HIDE DEF m
    <3>2. m - Least(k, m) = 0
      BY <3>1, NothingLeft
    <3> QED BY <3>2 DEF m
  <2>3. CASE ph /\ k = 0
    BY <1>2, <2>3
  <2>4. CASE ~ (ph /\ k = 0)
    BY <1>2, <2>2, <2>4
  <2> QED BY <2>3, <2>4
<1> QED BY <1>1, <1>4 DEF Shorter, SameTask

LEMMA SruShorter ==
  ASSUME NEW t \in Task, NEW k \in Nat
  PROVE  Shorter(SruTask(t, k), t)
<1>1. t.count \in Nat /\ t.start \in Nat
  BY DEF Task
<1>2. /\ SruTask(t, k).which = t.which /\ SruTask(t, k).resultset = t.resultset
  BY SruTaskIs
<1> DEFINE m == t.count - Least(k, t.count)
           n == t.start + k
<1>a. SruTask(t, k) = [t EXCEPT !.count = m, !.start = n]
  BY DEF SruTask
<1>b. t.count = 0 => m = 0
  <2> DEFINE c == t.count
  <2>1. c = 0 => c - Least(k, c) = 0
    <3> HIDE DEF c
    <3> QED BY NothingLeft
  <2> QED BY <2>1
<1> HIDE DEF m, n
<1>3. SruTask(t, k).count = m
  BY <1>a DEF Task
<1>4. t.count = 0 => SruTask(t, k).count = 0
  BY <1>3, <1>b
<1> QED BY <1>2, <1>4 DEF Shorter

\* The first records, which come with the search response
Taken(v, u, k, X) ==
  /\ Between(v, X)
  /\ \A o \in ResultSets : /\ v.sets[o].setname = u.sets[o].setname
                           /\ v.sets[o].sort_spec = u.sets[o].sort_spec
  /\ k = 0 => v.sets[Head(u.tasks).resultset].cache = u.sets[Head(u.tasks).resultset].cache

LEMMA FirstBetween ==
  ASSUME NEW u, Ready(u), NEW X, Between(u, X), Head(u.tasks).which = "SEARCH", NEW k \in Nat,
         NEW b \in ServerSet, Due(u, k, b, 0), Open(u, k, X),
         NEW v, Handled(v, u, k, b, 0, FALSE)
  PROVE  Taken(v, u, k, X)
<1> DEFINE t == Head(u.tasks)
           r == t.resultset
           x == u.sets[r]
           N == New(t.start, k, b, 0)
           h == HandledTask(t, x, k, FALSE)
<1>1. t \in Task /\ x \in ResultSet /\ t.start \in Nat
  BY ReadyIs DEF Task
<1>2. Took(v, u, r, Renewed(x.cache, N), h) /\ Mid(v) /\ Alike(v, u)
  BY DEF Handled, HandledCache, Ready
<1>3. Takes(u, N, X)
  BY NewTakes
<1>4. k = 0 => N = {}
  BY <1>1, NewIs
<1> HIDE DEF N
<1>5. Shorter(h, t)
  BY <1>1, HandledShorter
<1> HIDE DEF h
<1>6. h.which = "SEARCH" /\ h.resultset = r /\ (t.count = 0 => h.count = 0)
  BY <1>5 DEF Shorter
<1>7. /\ Between(v, X) /\ (N = {} => v.sets[r].cache = x.cache)
      /\ \A o \in ResultSets : /\ v.sets[o].setname = u.sets[o].setname
                               /\ v.sets[o].sort_spec = u.sets[o].sort_spec
  BY <1>2, <1>3, <1>6, TookBetween
<1> QED BY <1>4, <1>7 DEF Taken

\* The records of a present response, or the diagnostic instead of them
LEMMA PresentBetween ==
  ASSUME NEW u, Ready(u), NEW X, Between(u, X), Head(u.tasks).which = "SEARCH", NEW k \in Nat,
         NEW b \in ServerSet, NEW origin \in Nat, Due(u, k, b, origin), Open(u, 1, X),
         NEW v, Handled(v, u, k, b, origin, TRUE)
  PROVE  Between(v, X)
<1> DEFINE t == Head(u.tasks)
           r == t.resultset
           x == u.sets[r]
           N == IF k = 0 THEN {Told(t.start, t.resultset)} ELSE New(t.start, k, b, origin)
           h == HandledTask(t, x, k, TRUE)
<1>1. t \in Task /\ x \in ResultSet /\ t.start \in Nat
  BY ReadyIs DEF Task
<1>2. Took(v, u, r, Renewed(x.cache, N), h) /\ Mid(v) /\ Alike(v, u)
  <2>1. HandledCache(t, x, k, b, origin, TRUE) = Renewed(x.cache, N)
    BY DEF HandledCache
  <2> QED BY <2>1 DEF Handled, Ready
<1>3. Takes(u, N, X)
  <2>1. Open(u, k, X)
    BY DEF Open
  <2>2. CASE k = 0
    <3>1. Fits(u, N)
      BY <2>2, ToldFits
    <3>2. 1 > 0
      OBVIOUS
    <3> HIDE DEF N
    <3> QED BY <3>1, <3>2 DEF Takes, Open
  <2>3. CASE k # 0
    BY <2>1, <2>3, NewTakes
  <2> QED BY <2>2, <2>3
<1> HIDE DEF N
<1>5. Shorter(h, t)
  BY <1>1, HandledShorter
<1> HIDE DEF h
<1>6. h.which = "SEARCH" /\ h.resultset = r /\ (t.count = 0 => h.count = 0)
  BY <1>5 DEF Shorter
<1> QED BY <1>2, <1>3, <1>6, TookBetween

LEMMA SruBetween ==
  ASSUME NEW u, Ready(u), NEW X, Between(u, X), Head(u.tasks).which = "SEARCH", NEW k \in Nat,
         NEW N, Takes(u, N, X), NEW v, TookSru(v, u, N, k)
  PROVE  Between(v, X)
<1> DEFINE t == Head(u.tasks)
           r == t.resultset
           x == u.sets[r]
           h == SruTask(t, k)
<1>1. t \in Task
  BY ReadyIs
<1>2. Took(v, u, r, Renewed(x.cache, N), h) /\ Mid(v) /\ Alike(v, u)
  BY DEF TookSru, Ready
<1>5. Shorter(h, t)
  BY <1>1, SruShorter
<1> HIDE DEF h
<1>6. h.which = "SEARCH" /\ h.resultset = r /\ (t.count = 0 => h.count = 0)
  BY <1>5 DEF Shorter
<1> QED BY <1>2, <1>6, TookBetween


(***************************************************************************)
(* Answers                                                                 *)
(***************************************************************************)
\* The set of a task in the queue is linked to the connection.
LEMMA HeadLinked ==
  ASSUME NEW s, Mid(s), s.tasks # <<>>, UsersConnected(s), NEW r, r = Head(s.tasks).resultset
  PROVE  r \in ResultSets /\ r \in s.resultsets /\ s.sets[r].status = "alive"
<1>1. s.tasks \in Seq(Task) /\ Linked(s)
  BY DEF Mid, Typed, RsState, Refs
<1>2. 1 \in 1..Len(s.tasks) /\ Head(s.tasks) = s.tasks[1]
  BY <1>1, HeadIs
<1>3. r \in ResultSets /\ On(s.tasks, r) # {} /\ s.sets[r].status = "alive"
  BY <1>2, QueuedAlive
<1> QED BY <1>1, <1>3 DEF UsersConnected, Linked

\* What the server keeps once it has answered q.
Suits(s, q, S) ==
  \/ /\ Proto = "Z3950" /\ s.sets[q.set].live_set = 0
     /\ \A b \in S : b.set = q.set /\ b.order = 0
  \/ Proto = "HTTP" /\ S = {}

After(u, s, q, n) ==
  /\ Between(u, {q.set}) /\ Owned(u, q.set)
  /\ u.sets[q.set].cache = s.sets[q.set].cache
  /\ u.sets[q.set].sort_spec = s.sets[q.set].sort_spec
  /\ u.sets[q.set].live_set = 2 /\ u.sets[q.set].size = n
  /\ u.sets[q.set].setname = q.name

LEMMA AnsweredBetween ==
  ASSUME NEW s, Ready(s), NEW q \in Requests, Outstanding(s, q), Between(s, {q.set}),
         NEW n, NEW S, Suits(s, q, S), NEW u, Answered(u, s, q, n, S)
  PROVE  After(u, s, q, n)
<1> DEFINE r == q.set
<1>1. /\ Mid(s) /\ Mid(u) /\ Core(s) /\ r \in ResultSets /\ q.name \in Names
      /\ s.sets[r].setname = q.name /\ q.name # NoName /\ s.sets[r] \in ResultSet
      /\ r = Head(s.tasks).resultset /\ s.tasks # <<>>
  <2>1. q.name # NoName
    BY OutstandingIs
  <2>2. s.sets[r] \in ResultSet
    BY ReadyIs, OutstandingIs
  <2> QED BY <2>1, <2>2, OutstandingIs DEF Ready, Between, Answered
<1>2. /\ u.sets[r].cache = s.sets[r].cache /\ u.sets[r].sort_spec = s.sets[r].sort_spec
      /\ u.sets[r].live_set = 2 /\ u.sets[r].size = n /\ u.sets[r].setname = q.name
  <2>1. u.sets[r] = SizedSet(s.sets[r], n)
    BY DEF Answered
  <2> QED BY <1>1, <2>1 DEF SizedSet, ResultSet
<1>3. /\ u.tasks = s.tasks /\ u.resultsets = s.resultsets /\ Alike(u, s)
      /\ \A o \in ResultSets : o # r => u.sets[o] = s.sets[o]
      /\ u.server[q.name] = S /\ \A m \in Names : m # q.name => u.server[m] = s.server[m]
  BY DEF Answered
<1>4. /\ \A b \in S : b.set = r
      /\ Proto = "HTTP" => \A m \in Names : u.server[m] = {}
  <2>1. \A b \in S : b.set = r
    BY DEF Suits
  <2>2. ASSUME Proto = "HTTP", NEW m \in Names PROVE u.server[m] = {}
    <3>1. S = {} /\ s.server[m] = {}
      BY <1>1, <2>2 DEF Suits, Core, Nameless
    <3> QED BY <1>3, <3>1
  <2> QED BY <2>1, <2>2
<1>5. \A o \in ResultSets : u.sets[o].setname = s.sets[o].setname /\ u.sets[o].cache = s.sets[o].cache
  BY <1>1, <1>2, <1>3
<1>6. UsersConnected(u) /\ OwnName(u) /\ NamesApart(u) /\ Nameless(u)
  <2>1. ASSUME NEW m \in Names, NEW b \in u.server[m] PROVE s.sets[b.set].setname = m
    <3>1. CASE m = q.name
      BY <1>1, <1>3, <1>4, <3>1
    <3>2. CASE m # q.name
      BY <1>1, <1>3, <3>2 DEF Core, OwnName
    <3> QED BY <3>1, <3>2
  <2>2. Named_(u, s)
    BY <1>3, <1>4, <1>5, <2>1 DEF Named_
  <2> QED BY <1>1, <2>2, NamesSame
<1>7. SortsClear(u)
  <2>1. SUFFICES ASSUME NEW i \in 1..Len(u.tasks), u.tasks[i].which = "SORT" PROVE SortClear(u, i)
    BY DEF SortsClear
  <2>2. SortClear(s, i) /\ s.tasks[i].resultset \in ResultSets
    BY <1>1, <1>3, <2>1, QueuedAlive DEF Core, SortsClear
  <2>3. Plain(u.sets[u.tasks[i].resultset]) = {}
    BY <1>3, <1>5, <2>2 DEF SortClear, Plain
  <2> QED BY <1>3, <2>2, <2>3 DEF SortClear
<1>8. ASSUME NEW o \in ResultSets PROVE Right(u, o)
  <2>1. Right(s, o)
    BY <1>1 DEF Core
  <2>2. Belongs(u, o)
    BY <1>5, <2>1 DEF Right, Belongs
  <2>3. EmptyUnlessLive(u, o)
    <3>1. CASE o = r
      BY <1>2, <3>1 DEF EmptyUnlessLive
    <3>2. CASE o # r
      BY <1>3, <2>1, <3>2 DEF EmptyUnlessLive, Right
    <3> QED BY <3>1, <3>2
  <2>4. InOrder(u, o)
    <3>1. SUFFICES ASSUME NEW m \in Names, NEW e \in u.sets[o].cache, NEW b \in u.server[m],
                          b.set = o, ~ e.diag
                   PROVE  e.order = b.order
      BY DEF InOrder
    <3>2. Proto # "HTTP"
      BY <1>4, <3>1
    <3>3. o # r
      <4>1. s.sets[r].cache = {}
        BY <1>1, <3>2 DEF Suits, Core, Right, EmptyUnlessLive
      <4> QED BY <1>5, <3>1, <4>1
    <3>4. m # q.name
      BY <1>3, <1>4, <3>1, <3>3
    <3> QED BY <1>3, <1>5, <2>1, <3>1, <3>4 DEF Right, InOrder
  <2> QED BY <2>2, <2>3, <2>4 DEF Right
<1>9. ASSUME NEW o \in ResultSets \ {r} PROVE Owned(u, o) /\ SpecFirst(u, o)
  <2>1. Owned(s, o) /\ SpecFirst(s, o) /\ u.sets[o] = s.sets[o]
    BY <1>3 DEF Between
  <2>2. SpecFirst(u, o)
    BY <2>1 DEF SpecFirst
  <2>3. Owned(u, o)
    <3>1. SUFFICES ASSUME o \in s.resultsets, s.sets[o].setname # NoName,
                          NEW b \in u.server[s.sets[o].setname]
                   PROVE  b.set = o
      BY <1>3, <2>1 DEF Owned
    <3>2. s.sets[o].setname \in Names
      BY <1>1, <3>1 DEF Mid, Typed, RsState, ResultSet
    <3>3. Proto = "Z3950"
      BY <1>4, <3>1, <3>2 DEF Suits
    <3>4. r \in s.resultsets
      BY <1>1, HeadLinked DEF Core
    <3>5. s.sets[o].setname # q.name
      BY <1>1, <3>1, <3>3, <3>4 DEF Core, NamesApart
    <3> QED BY <1>3, <2>1, <3>1, <3>2, <3>5 DEF Owned
  <2> QED BY <2>2, <2>3
<1>10. Owned(u, r)
  BY <1>2, <1>3, <1>4 DEF Owned
<1>11. Between(u, {r})
  BY <1>6, <1>7, <1>8, <1>9 DEF Between, Core
<1> QED BY <1>2, <1>10, <1>11 DEF After


(***************************************************************************)
(* Requests                                                                *)
(***************************************************************************)
\* The sets hold what they held, and the server keeps what it kept.
Resent(p, s) ==
  /\ Alike(p, s) /\ Fewer(p.tasks, s.tasks) /\ p.server = s.server
  /\ \A r \in ResultSets : /\ p.sets[r].cache = s.sets[r].cache
                           /\ p.sets[r].live_set = s.sets[r].live_set

LEMMA ResentCore ==
  ASSUME NEW s, Mid(s), Core(s), NEW p, Mid(p), Resent(p, s),
         OwnName(p), NamesApart(p), Nameless(p)
  PROVE  Core(p)
<1>1. Calmer(p, s)
  BY DEF Resent, Alike, Calmer
<1>2. UsersConnected(p) /\ SortsClear(p)
  BY <1>1, CalmerTasks DEF Core
<1>3. ASSUME NEW r \in ResultSets PROVE Right(p, r)
  <2>1. /\ p.sets[r].cache = s.sets[r].cache /\ p.sets[r].live_set = s.sets[r].live_set
        /\ p.server = s.server /\ Right(s, r)
    BY DEF Resent, Core
  <2> QED BY <2>1 DEF Right, Belongs, InOrder, EmptyUnlessLive
<1> QED BY <1>2, <1>3 DEF Core

LEMMA SendSortCaches ==
  ASSUME NEW v, Ready(v), Proto = "Z3950", NEW r, r = Head(v.tasks).resultset,
         Between(v, {r}), Owned(v, r), v.sets[r].setname # NoName \/ SpecFirst(v, r),
         Plain(v.sets[r]) = {}, NEW p, p = SendSort(v, r)
  PROVE  Caches(p)
<1>1. /\ Mid(v) /\ v.wire = {} /\ v.tasks # <<>> /\ v.error = "NONE" /\ Head(v.tasks).running
      /\ Core(v) /\ r \in ResultSets /\ v.sets[r] \in ResultSet /\ v.tasks \in Seq(Task)
  BY ReadyIs DEF Between
<1>2. Base(p) /\ Alike(p, v) /\ SortSent(p, v, r)
  BY <1>1, SendSortIs
<1>3. Mid(p)
  BY <1>2 DEF Base
<1>4. Still(p, v) /\ p.tasks = v.tasks
  BY <1>2 DEF SortSent
<1>5. CASE v.sets[r].setname = NoName
  <2>1. p.wire = {} /\ p.sets = v.sets
    BY <1>2, <1>5 DEF SortSent
  <2>2. Fewer(p.tasks, v.tasks)
    BY <1>1, <1>4, FewerSame
  <2>3. Less(p, v)
    BY <1>1, <1>4, <2>1, <2>2, LessSame DEF Still
  <2>4. Between(v, {})
    BY <1>5 DEF Between
  <2> QED BY <1>1, <1>3, <2>1, <2>3, <2>4, CachesNone
<1>6. CASE v.sets[r].setname # NoName
  <2>1. PICK q \in Requests : p.wire = {q} /\ q.kind = "SORT" /\ q.set = r
    BY <1>2, <1>6 DEF SortSent
  <2>2. /\ p.sets[r] = [v.sets[r] EXCEPT !.sort_spec = FALSE]
        /\ \A o \in ResultSets : o # r => p.sets[o] = v.sets[o]
    BY <1>2, <1>6 DEF SortSent
  <2>3. /\ \A o \in ResultSets : /\ p.sets[o].cache = v.sets[o].cache
                                 /\ p.sets[o].live_set = v.sets[o].live_set
                                 /\ p.sets[o].setname = v.sets[o].setname
        /\ p.sets[r].sort_spec = FALSE
    <3> DEFINE x == v.sets[r]
               y == p.sets[r]
    <3>1. x \in ResultSet /\ y = [x EXCEPT !.sort_spec = FALSE]
      BY <1>1, <2>2
    <3> HIDE DEF x, y
    <3>2. /\ y.cache = x.cache /\ y.live_set = x.live_set /\ y.setname = x.setname
          /\ y.sort_spec = FALSE
      BY <3>1 DEF ResultSet
    <3> QED BY <2>2, <3>2 DEF x, y
  <2>4. p.server = v.server /\ p.resultsets = v.resultsets
    BY <1>4 DEF Still
  <2>5. UsersConnected(p) /\ OwnName(p) /\ NamesApart(p) /\ Nameless(p)
    <3>1. Named_(p, v)
      BY <1>1, <1>2, <2>3, <2>4 DEF Named_, Core, OwnName, Nameless
    <3> QED BY <1>1, <1>3, <3>1, NamesSame
  <2>6. Core(p)
    <3>1. Fewer(p.tasks, v.tasks)
      BY <1>1, <1>4, FewerSame
    <3>2. Resent(p, v)
      BY <1>2, <2>3, <2>4, <3>1 DEF Resent
    <3> QED BY <1>1, <1>3, <2>5, <3>2, ResentCore
  <2>7. ASSUME NEW o \in ResultSets PROVE Owned(p, o) /\ SpecFirst(p, o)
    <3>1. Owned(v, o)
      BY DEF Between
    <3>2. Owned(p, o)
      BY <2>3, <2>4, <3>1 DEF Owned
    <3>3. CASE o = r
      BY <2>3, <3>2, <3>3 DEF SpecFirst
    <3>4. CASE o # r
      <4>1. SpecFirst(v, o) /\ p.sets[o] = v.sets[o]
        BY <2>2, <3>4 DEF Between
      <4> QED BY <3>2, <4>1 DEF SpecFirst
    <3> QED BY <3>3, <3>4
  <2>8. Searching(p) = {}
    BY <2>1 DEF Searching
  <2>9. ASSUME NEW w \in p.wire PROVE Asked(p, w)
    <3>1. w.kind = "SORT" /\ w.set = r
      BY <2>1
    <3>2. Plain(p.sets[r]) = {}
      BY <1>1, <2>3 DEF Plain
    <3> QED BY <3>1, <3>2 DEF Asked
  <2> QED BY <2>6, <2>7, <2>8, <2>9 DEF Caches, Between
<1> QED BY <1>5, <1>6


\* Of a task that skips what is cached
LEMMA AdvancedIs ==
  ASSUME NEW t \in Task, NEW x \in ResultSet, NEW k, Advanced(k, t, x)
  PROVE  /\ Shorter(k, t) /\ k \in Task
         /\ x.live_set = 2 /\ k.count > 0 => x.size > 0
<1>1. /\ t.start \in Nat /\ t.count \in Nat /\ x.size \in Nat /\ x.live_set \in {0, 2}
  BY DEF Task, ResultSet
<1>2. k \in Task /\ k.which = t.which /\ k.resultset = t.resultset
  BY DEF Advanced
<1>3. k.count \in Nat
  BY <1>2 DEF Task
<1> DEFINE n == t.count
           a == t.start
           z == x.size
           m == IF x.live_set = 0 THEN n ELSE IF a >= z THEN 0 ELSE Least(n, z - a)
<1>4. PICK i \in 0 .. n : k.count = m - i
  BY DEF Advanced
<1> DEFINE c == k.count
<1>5. c = m - i /\ c \in Nat /\ n \in Nat /\ a \in Nat /\ z \in Nat
  BY <1>1, <1>3, <1>4
<1> HIDE DEF n, a, z, c
<1>6. n = 0 => c = 0
  <2> SUFFICES ASSUME n = 0 PROVE c = 0
    OBVIOUS
  <2>1. i \in 0 .. 0 /\ i = 0
    <3>1. i \in 0 .. 0
      BY <1>4
    <3> QED BY <3>1
  <2>2. Least(n, z - a) = 0 \/ z - a <= 0
    BY <1>5 DEF Least
  <2>3. m = 0
    BY <1>5, <2>2
  <2> HIDE DEF m
  <2> QED BY <1>5, <2>1, <2>3
<1>7. x.live_set = 2 /\ c > 0 => z > 0
  <2>1. CASE a >= z
    BY <1>5, <2>1
  <2>2. CASE ~ (a >= z)
    BY <1>5, <2>2
  <2> QED BY <2>1, <2>2
<1> QED BY <1>2, <1>6, <1>7 DEF n, c, z, Shorter

\* The name that a set keeps or is given when a request for it is sent
Chosen(v, r, name) ==
  \/ Proto = "HTTP"
  \/ name = v.sets[r].setname
  \/ /\ Proto = "Z3950" /\ v.sets[r].setname = NoName
     /\ name = IF Named THEN LowestName(v) ELSE DefaultName

LEMMA ChosenNames ==
  ASSUME NEW v, Ready(v), Core(v), NEW r, r = Head(v.tasks).resultset, NEW name, Chosen(v, r, name),
         NEW p, Mid(p), Alike(p, v), p.server = v.server, p.sets[r].setname = name,
         \A o \in ResultSets : o # r => p.sets[o] = v.sets[o]
  PROVE  OwnName(p) /\ NamesApart(p) /\ Nameless(p)
<1>1. Mid(v) /\ Typed(v) /\ v.tasks # <<>>
  BY ReadyIs
<1>2. r \in ResultSets /\ r \in v.resultsets /\ v.sets[r].status = "alive"
  BY <1>1, HeadLinked DEF Core
<1>3. /\ p.resultsets = v.resultsets /\ v.resultsets \subseteq ResultSets
      /\ \A n \in Names : v.server[n] \subseteq ServerSet
      /\ \A o \in ResultSets : p.sets[o].status = v.sets[o].status
  BY <1>1 DEF Alike, Typed, RsState
<1>4. Nameless(p)
  BY <1>2, <1>3 DEF Nameless, Core
<1>5. CASE name = v.sets[r].setname
  <2>1. \A o \in ResultSets : p.sets[o].setname = v.sets[o].setname
    BY <1>5
  <2>2. Named_(p, v)
    BY <2>1 DEF Named_, Core, OwnName, Nameless
  <2> QED BY <1>1, <2>2, NamesSame
<1>6. CASE Proto = "HTTP"
  <2>1. OwnName(p)
    BY <1>4, <1>6 DEF OwnName, Nameless
  <2>2. NamesApart(p)
    BY <1>6 DEF NamesApart
  <2> QED BY <1>4, <2>1, <2>2
<1>7. CASE /\ Proto = "Z3950" /\ v.sets[r].setname = NoName
           /\ name = IF Named THEN LowestName(v) ELSE DefaultName
  <2>1. OwnName(p)
    <3>1. SUFFICES ASSUME NEW n \in Names, NEW b \in v.server[n] PROVE p.sets[b.set].setname = n
      BY DEF OwnName
    <3>2. v.sets[b.set].setname = n /\ b.set \in ResultSets
      BY <1>3 DEF Core, OwnName, ServerSet
    <3>3. n # NoName
      BY RsAssumption DEF Names, NoName
    <3>4. b.set # r
      BY <1>7, <3>2, <3>3
    <3> QED BY <3>2, <3>4
  <2>2. \A o \in v.resultsets : Named => v.sets[o].setname # name
    BY <1>1, <1>7, LowestNameIs
  <2>3. ~ Named => AtMostOne(v.resultsets)
    BY <1>7 DEF Core, NamesApart
  <2>4. ASSUME NEW a \in v.resultsets, NEW b \in v.resultsets, a # b,
               p.sets[a].setname = p.sets[b].setname
        PROVE  p.sets[a].setname = NoName
    <3>1. Named
      BY <2>3, <2>4 DEF AtMostOne
    <3>2. a # r
      <4>1. SUFFICES ASSUME a = r PROVE FALSE
        OBVIOUS
      <4>2. p.sets[b] = v.sets[b]
        BY <1>3, <2>4, <4>1
      <4> QED BY <2>2, <2>4, <3>1, <4>1, <4>2
    <3>3. b # r
      <4>1. SUFFICES ASSUME b = r PROVE FALSE
        OBVIOUS
      <4>2. p.sets[a] = v.sets[a]
        BY <1>3, <2>4, <4>1
      <4> QED BY <2>2, <2>4, <3>1, <4>1, <4>2
    <3>4. p.sets[a] = v.sets[a] /\ p.sets[b] = v.sets[b]
      BY <1>3, <3>2, <3>3
    <3> QED BY <1>7, <2>4, <3>4 DEF Core, NamesApart
  <2>5. NamesApart(p)
    BY <1>3, <2>3, <2>4 DEF NamesApart
  <2> QED BY <1>4, <2>1, <2>5
<1> QED BY <1>5, <1>6, <1>7 DEF Chosen


\* The limits on piggybacked records
LEMMA PiggybackIs ==
  ASSUME Orderly, NEW x, NEW t, PiggybackCount(x, t) > 0
  PROVE  t.start = 0 /\ t.count > 0 /\ ~ x.sort_spec
<1>1. "expert" \notin Liberties
  BY DEF Orderly
<1>2. SUFFICES ASSUME ~ (t.start = 0 /\ t.count > 0 /\ x.piggyback /\ ~ x.sort_spec) PROVE FALSE
  OBVIOUS
<1>3. PiggybackCount(x, t) = 0
  BY <1>1, <1>2 DEF PiggybackCount
<1> QED BY <1>3

LEMMA SentCaches ==
  ASSUME Orderly, NEW v, Ready(v), Between(v, {}), Head(v.tasks).which = "SEARCH",
         NEW w, Searched(w, v), Mid(w), Alike(w, v), w.wire # {}
  PROVE  Caches(w)
<1> DEFINE t == Head(v.tasks)
           r == t.resultset
           x == v.sets[r]
           k == Head(w.tasks)
<1>1. /\ Mid(v) /\ v.tasks # <<>> /\ r \in ResultSets /\ v.tasks \in Seq(Task) /\ Core(v)
      /\ t \in Task /\ x \in ResultSet
  BY ReadyIs DEF Between
<1>2. PICK q : /\ w.wire = {q} /\ Requested(q, k, x, v) /\ w.error = "NONE"
               /\ w.sets[r] = [x EXCEPT !.setname = q.name]
               /\ \A o \in ResultSets : o # r => w.sets[o] = v.sets[o]
  BY DEF Searched
<1>3. w.server = v.server /\ w.resultsets = v.resultsets /\ Headed(w.tasks, v.tasks, k)
      /\ Advanced(k, t, x)
  BY DEF Searched, Still
<1>4. Shorter(k, t) /\ k \in Task /\ (x.live_set = 2 /\ k.count > 0 => x.size > 0)
  BY <1>1, <1>3, AdvancedIs
<1>5. Fewer(w.tasks, v.tasks)
  BY <1>1, <1>3, <1>4, FewerHeaded DEF Shorter
<1>6. /\ w.sets[r].cache = x.cache /\ w.sets[r].live_set = x.live_set
      /\ w.sets[r].size = x.size /\ w.sets[r].sort_spec = x.sort_spec
      /\ w.sets[r].setname = q.name
  <2> DEFINE y == w.sets[r]
  <2>1. y = [x EXCEPT !.setname = q.name] /\ x \in ResultSet
    BY <1>1, <1>2
  <2> HIDE DEF x, y
  <2>2. /\ y.cache = x.cache /\ y.live_set = x.live_set
        /\ y.size = x.size /\ y.sort_spec = x.sort_spec /\ y.setname = q.name
    BY <2>1 DEF ResultSet
  <2> QED BY <2>2 DEF y
<1>7. /\ q \in Requests /\ q.set = r
      /\ \/ Proto = "HTTP" /\ q.kind = "SRU"
         \/ /\ Proto = "Z3950" /\ x.live_set = 2 /\ q.kind = "PRESENT" /\ q.name = x.setname
            /\ k.count > 0
         \/ /\ Proto = "Z3950" /\ x.live_set = 0 /\ q.kind = "SEARCH"
            /\ q.count = PiggybackCount(x, k)
            /\ q.name = IF x.setname # NoName THEN x.setname
                        ELSE IF Named THEN LowestName(v) ELSE DefaultName
  BY <1>2, <1>4 DEF Requested, Shorter
<1> HIDE DEF k
<1>8. OwnName(w) /\ NamesApart(w) /\ Nameless(w)
  <2>1. Chosen(v, r, q.name)
    BY <1>7 DEF Chosen
  <2> HIDE DEF x
  <2>2. Ready(v) /\ Core(v) /\ Mid(w) /\ Alike(w, v) /\ w.server = v.server
    BY <1>1, <1>3
  <2>3. w.sets[r].setname = q.name
    BY <1>6
  <2>4. \A o \in ResultSets : o # r => w.sets[o] = v.sets[o]
    BY <1>2
  <2> QED BY <2>1, <2>2, <2>3, <2>4, ChosenNames
<1>9. Core(w)
  <2>1. Resent(w, v)
    BY <1>2, <1>3, <1>5, <1>6 DEF Resent
  <2> QED BY <1>1, <1>8, <2>1, ResentCore
<1>10. ASSUME NEW o \in ResultSets PROVE SpecFirst(w, o) /\ (o \notin Searching(w) => Owned(w, o))
  <2>1. Owned(v, o) /\ SpecFirst(v, o)
    BY DEF Between
  <2>2. CASE o # r
    <3>1. w.sets[o] = v.sets[o]
      BY <1>2, <2>2
    <3> QED BY <1>3, <2>1, <3>1 DEF Owned, SpecFirst
  <2>3. CASE o = r
    <3>1. SpecFirst(w, o)
      BY <1>6, <2>1, <2>3 DEF SpecFirst
    <3>2. ASSUME o \notin Searching(w) PROVE Owned(w, o)
      <4>1. q.kind # "SEARCH"
        BY <1>2, <1>7, <2>3, <3>2 DEF Searching
      <4>2. CASE Proto = "HTTP"
        <5>1. w.sets[o].setname \in Names \cup {NoName}
          BY DEF Mid, Typed, RsState, ResultSet
        <5>2. \A n \in Names : w.server[n] = {}
          BY <1>8, <4>2 DEF Nameless
        <5> QED BY <5>1, <5>2 DEF Owned
      <4>3. CASE q.name = x.setname
        BY <1>3, <1>6, <2>1, <2>3, <4>3 DEF Owned
      <4> QED BY <1>7, <4>1, <4>2, <4>3
    <3> QED BY <3>1, <3>2
  <2> QED BY <2>2, <2>3
<1>11. Asked(w, q)
  <2>1. q.kind # "SORT"
    BY <1>7
  <2>2. q.kind = "PRESENT" => w.sets[q.set].size > 0
    BY <1>4, <1>6, <1>7
  <2>3. ASSUME q.kind = "SEARCH", q.count > 0
        PROVE  k.start = 0 /\ k.count > 0 /\ ~ w.sets[q.set].sort_spec
    <3>1. PiggybackCount(x, k) > 0
      BY <1>7, <2>3
    <3> QED BY <1>6, <1>7, <3>1, PiggybackIs
  <2> QED BY <2>1, <2>2, <2>3 DEF Asked, k
<1> QED BY <1>2, <1>9, <1>10, <1>11 DEF Caches, Between

\* The step of a search, and the end of its task if nothing is sent
LEMMA FinishCaches ==
  ASSUME Orderly, NEW v, Ready(v), Between(v, {}), NEW p, p = Finish(SearchStep(v))
  PROVE  Caches(p)
<1> DEFINE w == SearchStep(v)
<1>1. /\ Mid(v) /\ v.wire = {} /\ v.tasks # <<>> /\ v.error = "NONE" /\ Head(v.tasks).running
      /\ v.tasks \in Seq(Task) /\ Head(v.tasks) \in Task
  BY ReadyIs
<1>2. /\ Mid(w) /\ Alike(w, v) /\ w.tasks # <<>> /\ Base(p)
      /\ Head(v.tasks).which = "SORT" => w = v
      /\ Head(v.tasks).which = "SEARCH" => Searched(w, v)
      /\ w.wire # {} => p = w
      /\ w.wire = {} => p = RemoveTask(w)
  BY <1>1, FinishIs
<1> HIDE DEF w
<1>3. Head(v.tasks).which \in {"SEARCH", "SORT"}
  BY <1>1 DEF Task
<1>4. CASE w.wire # {}
  <2>1. Head(v.tasks).which = "SEARCH"
    BY <1>1, <1>2, <1>3, <1>4
  <2> QED BY <1>2, <1>4, <2>1, SentCaches
<1>5. CASE w.wire = {}
  <2>1. Between(w, {})
    <3>1. CASE Head(v.tasks).which = "SORT"
      BY <1>2, <3>1
    <3>2. CASE Head(v.tasks).which = "SEARCH"
      <4> DEFINE t == Head(v.tasks)
                 x == v.sets[t.resultset]
                 k == Head(w.tasks)
      <4>1. w.server = v.server /\ w.resultsets = v.resultsets /\ Headed(w.tasks, v.tasks, k)
            /\ Advanced(k, t, x)
        BY <1>2, <3>2 DEF Searched, Still
      <4>2. w.sets = v.sets
        BY <1>2, <1>5, <3>2 DEF Searched
      <4>3. Shorter(k, t)
        BY <1>1, <4>1, ReadyIs, AdvancedIs
      <4>4. Fewer(w.tasks, v.tasks)
        BY <1>1, <4>1, <4>3, FewerHeaded DEF Shorter
      <4>5. Less(w, v)
        BY <1>1, <4>1, <4>2, <4>4, LessSame
      <4> QED BY <1>1, <1>2, <4>5, LessBetween
    <3> QED BY <1>3, <3>1, <3>2
  <2>2. Mid(p) /\ Less(p, w) /\ p.wire = {}
    BY <1>2, <1>5, RemoveTaskLess
  <2> QED BY <1>2, <2>1, <2>2, CachesNone
<1> QED BY <1>4, <1>5


\* The response is taken off the wire.
LEMMA HeardBetween ==
  ASSUME NEW z, Base(z), Caches(z), NEW q \in z.wire, NEW s, s = Heard(z)
  PROVE  /\ Ready(s) /\ q \in Requests /\ Outstanding(s, q) /\ Asked(s, q)
         /\ Between(s, Searching(z)) /\ Searching(z) \subseteq {q.set}
         /\ q.kind # "SEARCH" => Between(s, {})
<1>1. /\ Ready(s) /\ Still(s, z) /\ s.tasks = z.tasks /\ s.sets = z.sets
      /\ q \in Requests /\ Outstanding(s, q) /\ z.wire = {q}
  BY HeardIs
<1>2. Mid(z) /\ Mid(s) /\ z.tasks \in Seq(Task)
  BY <1>1 DEF Base, Ready, Mid, Typed, RsState
<1>3. Less(s, z)
  BY <1>1, <1>2, FewerSame, LessSame DEF Still
<1>4. Between(s, Searching(z))
  BY <1>2, <1>3, LessBetween DEF Caches
<1>5. Searching(z) \subseteq {q.set} /\ (q.kind # "SEARCH" => Searching(z) = {})
  BY <1>1 DEF Searching
<1>6. Asked(s, q)
  <2>1. Asked(z, q)
    BY DEF Caches
  <2> QED BY <1>1, <2>1 DEF Asked
<1> QED BY <1>1, <1>4, <1>5, <1>6

\* The request of a search is answered for the task at the head of the queue.
LEMMA AskerIs ==
  ASSUME NEW s, Ready(s), NEW q \in Requests, Outstanding(s, q)
  PROVE  /\ q.kind # "SORT" => Head(s.tasks).which = "SEARCH"
         /\ q.kind = "SRU" <=> Proto = "HTTP"
         /\ q.kind # "SRU" => Proto = "Z3950"
<1>1. Head(s.tasks).which \in {"SEARCH", "SORT"}
  BY ReadyIs DEF Task
<1> QED BY <1>1, RsAssumption DEF Outstanding

LEMMA DiagnoseCaches ==
  ASSUME NEW u, Mid(u), u.wire = {}, Between(u, {}), NEW p, p = Diagnose(u)
  PROVE  Caches(p)
<1> DEFINE w == Failed(u)
<1>1. /\ Mid(w) /\ Still(w, u) /\ w.tasks = u.tasks /\ w.wire = {} /\ w.sets = u.sets
  BY FailedIs
<1>2. p = RemoveTasks(w)
  BY DiagnoseBase
<1> HIDE DEF w
<1>3. Fewer(w.tasks, u.tasks)
  BY <1>1, FewerSame DEF Mid, Typed, RsState
<1>4. Less(w, u)
  BY <1>1, <1>3, LessSame DEF Still
<1>5. Between(w, {})
  BY <1>1, <1>4, LessBetween
<1>6. Mid(p) /\ Less(p, w) /\ p.wire = {}
  BY <1>1, <1>2, RemoveTasksLess
<1> QED BY <1>1, <1>5, <1>6, CachesNone

\* What a search finds is the set's own, and it is not sorted yet.
LEMMA SearchAnsweredCaches ==
  ASSUME Orderly, NEW s, Ready(s), NEW q \in Requests, Outstanding(s, q), Asked(s, q),
         Between(s, {q.set}), q.kind = "SEARCH", NEW k \in Nat, k > 0 => q.count > 0,
         NEW p, SearchAnswered(p, s, q, k)
  PROVE  Caches(p)
<1> DEFINE r == q.set
<1>1. PICK b, u, v :
        /\ b \in ServerSet
        /\ b = [set |-> q.set, order |-> 0] /\ Answered(u, s, q, hits[q.set], {b}) /\ Ready(u)
        /\ Handled(v, u, k, b, 0, FALSE) /\ p = SortPresent(v)
  BY DEF SearchAnswered
<1>2. Proto = "Z3950" /\ Head(s.tasks).which = "SEARCH"
  BY AskerIs
<1>3. /\ r = Head(s.tasks).resultset /\ r \in ResultSets /\ q.name \in Names /\ q.name # NoName
      /\ s.sets[r].live_set = 0
  <2>1. s.sets[r].live_set = 0
    BY DEF Outstanding
  <2> QED BY <2>1, OutstandingIs
<1>4. s.sets[r].cache = {}
  BY <1>3 DEF Between, Core, Right, EmptyUnlessLive
<1>5. Suits(s, q, {b})
  BY <1>1, <1>2, <1>3 DEF Suits
<1>6. /\ Between(u, {r}) /\ Owned(u, r) /\ u.sets[r].cache = {}
      /\ u.sets[r].sort_spec = s.sets[r].sort_spec /\ u.sets[r].live_set = 2
      /\ u.sets[r].setname = q.name
  <2>1. Answered(u, s, q, hits[q.set], {b})
    BY <1>1
  <2>2. After(u, s, q, hits[q.set])
    BY <1>5, <2>1, AnsweredBetween
  <2> QED BY <1>4, <2>2 DEF After
<1>7. u.tasks = s.tasks /\ u.server[q.name] = {b}
  BY <1>1 DEF Answered
<1>8. k > 0 => Head(s.tasks).start = 0 /\ Head(s.tasks).count > 0 /\ ~ s.sets[r].sort_spec
  BY DEF Asked
<1>9. Due(u, k, b, 0)
  <2>1. ASSUME NEW n \in Names, NEW c \in u.server[n], c.set = r PROVE c.order = b.order
    <3>1. n = q.name
      BY <1>6, <2>1 DEF Between, Core, OwnName
    <3> QED BY <1>7, <3>1
  <2> QED BY <1>1, <1>3, <1>7, <1>8, <2>1 DEF Due
<1>10. Open(u, k, {r})
  BY <1>3, <1>6, <1>7 DEF Open
<1>11. /\ Between(v, {r})
       /\ \A o \in ResultSets : /\ v.sets[o].setname = u.sets[o].setname
                                /\ v.sets[o].sort_spec = u.sets[o].sort_spec
       /\ k = 0 => v.sets[r].cache = u.sets[r].cache
  <2>1. Ready(u) /\ Handled(v, u, k, b, 0, FALSE) /\ Head(u.tasks).which = "SEARCH"
    BY <1>1, <1>2, <1>7
  <2>2. Head(u.tasks).resultset = r
    BY <1>3, <1>7
  <2>3. Taken(v, u, k, {r})
    BY <1>1, <1>6, <1>9, <1>10, <2>1, FirstBetween
  <2> QED BY <2>2, <2>3 DEF Taken
<1>12. Ready(v) /\ v.server = u.server /\ v.resultsets = u.resultsets
  BY <1>1 DEF Handled, Took
<1>13. Head(v.tasks).resultset = r
  <2>1. Alike(v, u) /\ Ready(u)
    BY <1>1 DEF Handled
  <2>2. /\ Head(v.tasks) = v.tasks[1] /\ Head(u.tasks) = u.tasks[1] /\ 1 \in 1..Len(u.tasks)
    BY <1>12, <2>1, ReadyIs, HeadIs
  <2> QED BY <1>3, <1>7, <2>1, <2>2 DEF Alike
<1>14. Owned(v, r)
  BY <1>3, <1>6, <1>11, <1>12 DEF Owned
<1>15. CASE v.sets[r].sort_spec
  <2>1. k = 0
    <3>1. s.sets[r].sort_spec
      BY <1>3, <1>6, <1>11, <1>15
    <3> QED BY <1>8, <3>1
  <2>2. Plain(v.sets[r]) = {}
    BY <1>6, <1>11, <2>1 DEF Plain, PlainOf
  <2>3. p = SendSort(v, r)
    BY <1>1, <1>13, <1>15 DEF SortPresent
  <2>4. v.sets[r].setname # NoName
    BY <1>3, <1>6, <1>11
  <2> QED BY <1>2, <1>11, <1>12, <1>13, <1>14, <2>2, <2>3, <2>4, SendSortCaches
<1>16. CASE ~ v.sets[r].sort_spec
  <2>1. p = Finish(SearchStep(v))
    BY <1>1, <1>13, <1>16 DEF SortPresent
  <2>2. SpecFirst(v, r)
    BY <1>16 DEF SpecFirst
  <2>3. Between(v, {})
    BY <1>11, <1>14, <2>2 DEF Between
  <2> QED BY <1>12, <2>1, <2>3, FinishCaches
<1> QED BY <1>15, <1>16


\* A search that fails leaves the set empty.
LEMMA SearchRefusedCaches ==
  ASSUME NEW s, Ready(s), NEW q \in Requests, Outstanding(s, q), Between(s, {q.set}),
         q.kind = "SEARCH", NEW p, SearchRefused(p, s, q)
  PROVE  Caches(p)
<1>1. PICK u : Answered(u, s, q, 0, {}) /\ p = Diagnose(u)
  BY DEF SearchRefused
<1>2. Proto = "Z3950" /\ q.set \in ResultSets /\ s.sets[q.set].live_set = 0
  <2>1. s.sets[q.set].live_set = 0
    BY DEF Outstanding
  <2> QED BY <2>1, AskerIs, OutstandingIs
<1>3. s.sets[q.set].cache = {}
  BY <1>2 DEF Between, Core, Right, EmptyUnlessLive
<1>4. Suits(s, q, {})
  BY <1>2 DEF Suits
<1>5. After(u, s, q, 0)
  BY <1>1, <1>4, AnsweredBetween
<1>6. SpecFirst(u, q.set) /\ Owned(u, q.set) /\ Between(u, {q.set})
  BY <1>3, <1>5 DEF After, SpecFirst
<1>7. Between(u, {})
  BY <1>6 DEF Between
<1>8. Mid(u) /\ u.wire = {}
  BY <1>1 DEF Answered, Ready
<1> QED BY <1>1, <1>7, <1>8, DiagnoseCaches

\* What is presented comes from the set's own query, and the set is sorted by
\* then if it is to be sorted at all.
LEMMA PresentAnsweredCaches ==
  ASSUME Orderly, NEW s, Ready(s), NEW q \in Requests, Outstanding(s, q), Asked(s, q),
         Between(s, {}), q.kind = "PRESENT", NEW k \in Nat, NEW p, PresentAnswered(p, s, q, k)
  PROVE  Caches(p)
<1> DEFINE r == q.set
<1>1. PICK b, v :
        b \in s.server[q.name] /\ b \in ServerSet /\ Handled(v, s, k, b, q.start, TRUE) /\ p = Finish(SearchStep(v))
  BY DEF PresentAnswered
<1>2. Proto = "Z3950" /\ Head(s.tasks).which = "SEARCH"
  BY AskerIs
<1>3. /\ r = Head(s.tasks).resultset /\ r \in ResultSets /\ q.name \in Names /\ q.name # NoName
      /\ s.sets[r].setname = q.name
  BY OutstandingIs
<1>4. /\ s.sets[r].live_set = 2 /\ Head(s.tasks).count > 0 /\ q.start = Head(s.tasks).start
  BY DEF Outstanding
<1>5. q.start \in Nat
  BY DEF Requests
<1>6. b.set = r
  <2>1. r \in s.resultsets
    BY <1>3, HeadLinked DEF Ready, Between, Core
  <2>2. Owned(s, r)
    BY <1>3 DEF Between
  <2> QED BY <1>1, <1>3, <2>1, <2>2 DEF Owned
<1>7. Due(s, k, b, q.start)
  <2>1. ASSUME NEW n \in Names, NEW c \in s.server[n], c.set = r PROVE c.order = b.order
    <3>1. n = q.name
      BY <1>3, <2>1 DEF Between, Core, OwnName
    <3>2. AtMostOne(s.server[q.name])
      BY <1>3 DEF Ready, Mid, Typed
    <3>3. c = b
      BY <1>1, <3>1, <3>2 DEF AtMostOne
    <3> QED BY <3>3
  <2> QED BY <1>3, <1>4, <1>6, <2>1 DEF Due
<1>8. Open(s, 1, {})
  <2>1. ~ s.sets[r].sort_spec
    <3>1. SpecFirst(s, r) /\ s.sets[r].size > 0
      BY <1>3 DEF Between, Asked
    <3> QED BY <1>2, <1>4, <3>1 DEF SpecFirst
  <2> QED BY <1>3, <1>4, <2>1 DEF Open
<1>9. Between(v, {})
  <2>1. b \in ServerSet /\ Handled(v, s, k, b, q.start, TRUE)
    BY <1>1
  <2> QED BY <1>2, <1>5, <1>7, <1>8, <2>1, PresentBetween
<1>10. Ready(v)
  BY <1>1 DEF Handled
<1> QED BY <1>1, <1>9, <1>10, FinishCaches

\* A set that has been sorted holds no record from before.
LEMMA SortAnsweredCaches ==
  ASSUME Orderly, NEW s, Ready(s), NEW q \in Requests, Outstanding(s, q), Asked(s, q),
         Between(s, {}), q.kind = "SORT", NEW p, SortAnswered(p, s, q)
  PROVE  Caches(p)
<1> DEFINE r == q.set
<1>1. PICK b, u :
        b \in s.server[q.name] /\ b \in ServerSet /\ Reordered(u, s, q, b) /\ p = Finish(SearchStep(u))
  BY DEF SortAnswered
<1>2. Proto = "Z3950"
  BY AskerIs
<1>3. /\ r = Head(s.tasks).resultset /\ r \in ResultSets /\ q.name \in Names /\ q.name # NoName
      /\ s.sets[r].setname = q.name
  BY OutstandingIs
<1>4. Mid(s) /\ Mid(u) /\ Core(s) /\ Ready(u) /\ s.tasks \in Seq(Task) /\ s.tasks # <<>>
  BY <1>1, ReadyIs DEF Reordered, Ready, Between
<1>5. /\ Alike(u, s) /\ u.tasks = s.tasks /\ u.sets = s.sets /\ u.resultsets = s.resultsets
      /\ \A n \in Names : n # q.name => u.server[n] = s.server[n]
  BY <1>1 DEF Reordered
<1>6. \A c \in u.server[q.name] : c.set = b.set
  <2>1. u.server[q.name] = {[b EXCEPT !.order = @ + 1]}
    BY <1>1 DEF Reordered
  <2>2. b \in ServerSet
    BY <1>1
  <2> QED BY <2>1, <2>2 DEF ServerSet
<1>7. b.set = r
  <2>1. r \in s.resultsets
    BY <1>3, <1>4, HeadLinked DEF Core
  <2>2. Owned(s, r)
    BY <1>3 DEF Between
  <2> QED BY <1>1, <1>3, <2>1, <2>2 DEF Owned
<1>8. UsersConnected(u) /\ OwnName(u) /\ NamesApart(u) /\ Nameless(u)
  <2>1. ASSUME NEW n \in Names, NEW c \in u.server[n] PROVE s.sets[c.set].setname = n
    <3>1. CASE n = q.name
      BY <1>3, <1>6, <1>7, <3>1
    <3>2. CASE n # q.name
      BY <1>4, <1>5, <3>2 DEF Core, OwnName
    <3> QED BY <3>1, <3>2
  <2>2. Named_(u, s)
    BY <1>2, <1>5, <2>1 DEF Named_
  <2> QED BY <1>4, <2>2, NamesSame
<1>9. SortsClear(u)
  <2>1. SUFFICES ASSUME NEW i \in 1..Len(s.tasks), s.tasks[i].which = "SORT" PROVE SortClear(u, i)
    BY <1>5 DEF SortsClear
  <2>2. SortClear(s, i)
    BY <1>4, <2>1 DEF Core, SortsClear
  <2> QED BY <1>5, <2>2 DEF SortClear
<1>10. ASSUME NEW o \in ResultSets PROVE Right(u, o)
  <2>1. Right(s, o)
    BY <1>4 DEF Core
  <2>2. Belongs(u, o) /\ EmptyUnlessLive(u, o)
    BY <1>5, <2>1 DEF Right, Belongs, EmptyUnlessLive
  <2>3. InOrder(u, o)
    <3>1. SUFFICES ASSUME NEW n \in Names, NEW e \in s.sets[o].cache, NEW c \in u.server[n],
                          c.set = o, ~ e.diag
                   PROVE  e.order = c.order
      BY <1>5 DEF InOrder
    <3>2. n # q.name
      <4>1. SUFFICES ASSUME n = q.name PROVE FALSE
        OBVIOUS
      <4>2. o = r
        BY <1>6, <1>7, <3>1, <4>1
      <4>3. Plain(s.sets[r]) = {}
        BY DEF Asked
      <4> QED BY <3>1, <4>2, <4>3 DEF Plain, PlainOf
    <3> QED BY <1>5, <2>1, <3>1, <3>2 DEF Right, InOrder
  <2> QED BY <2>2, <2>3 DEF Right
<1>11. ASSUME NEW o \in ResultSets PROVE Owned(u, o) /\ SpecFirst(u, o)
  <2>1. Owned(s, o) /\ SpecFirst(s, o)
    BY DEF Between
  <2>2. SpecFirst(u, o)
    BY <1>5, <2>1 DEF SpecFirst
  <2>3. Owned(u, o)
    <3>1. SUFFICES ASSUME o \in s.resultsets, s.sets[o].setname # NoName,
                          NEW c \in u.server[s.sets[o].setname]
                   PROVE  c.set = o
      BY <1>5 DEF Owned
    <3>2. s.sets[o].setname \in Names
      BY <1>4, <3>1 DEF Mid, Typed, RsState, ResultSet
    <3>3. CASE s.sets[o].setname = q.name
      BY <1>1, <1>6, <2>1, <3>1, <3>3 DEF Owned
    <3>4. CASE s.sets[o].setname # q.name
      BY <1>5, <2>1, <3>1, <3>2, <3>4 DEF Owned
    <3> QED BY <3>3, <3>4
  <2> QED BY <2>2, <2>3
<1>12. Between(u, {})
  BY <1>8, <1>9, <1>10, <1>11 DEF Between, Core
<1> QED BY <1>1, <1>4, <1>12, FinishCaches


\* An SRU server keeps no sets; every request brings the query along.
SruKept(u, s, q) ==
  /\ Between(u, {}) /\ Mid(u) /\ u.wire = {} /\ u.tasks = s.tasks
  /\ Proto = "HTTP" /\ u.sets[q.set].live_set = 2
  /\ \A m \in Names : u.server[m] = {}

LEMMA SruStored ==
  ASSUME NEW s, Ready(s), NEW q \in Requests, Outstanding(s, q), Between(s, {}), q.kind = "SRU",
         NEW n, NEW u, Answered(u, s, q, n, s.server[q.name])
  PROVE  SruKept(u, s, q)
<1>1. Proto = "HTTP" /\ q.name \in Names /\ q.set \in ResultSets
  BY AskerIs, OutstandingIs
<1>2. s.server[q.name] = {}
  BY <1>1 DEF Between, Core, Nameless
<1>3. Suits(s, q, s.server[q.name])
  BY <1>1, <1>2 DEF Suits
<1>4. Between(s, {q.set})
  BY DEF Between
<1>5. After(u, s, q, n)
  BY <1>3, <1>4, AnsweredBetween
<1>6. SpecFirst(u, q.set)
  <2>1. Proto # "Z3950"
    BY <1>1
  <2> QED BY <2>1 DEF SpecFirst
<1>7. Between(u, {}) /\ u.sets[q.set].live_set = 2
  BY <1>5, <1>6 DEF After, Between
<1>8. Mid(u) /\ u.wire = {} /\ u.tasks = s.tasks
  BY DEF Answered, Ready
<1>9. \A m \in Names : u.server[m] = {}
  BY <1>1, <1>7 DEF Between, Core, Nameless
<1> QED BY <1>1, <1>7, <1>8, <1>9 DEF SruKept

\* A page is taken wherever the server says its records are.
LEMMA PageTakes ==
  ASSUME NEW u, Ready(u), Proto = "HTTP", \A m \in Names : u.server[m] = {},
         NEW q, q.set = Head(u.tasks).resultset, q.start = Head(u.tasks).start,
         u.sets[q.set].live_set = 2, NEW k \in Nat, NEW N, PageOf(u, q, k, N)
  PROVE  Takes(u, N, {})
<1>1. PICK page \in Pages(q, k) : N = SruRecords(u.sets[q.set], Head(u.tasks), q, page)
  BY DEF PageOf
<1>2. Head(u.tasks) \in Task /\ q.set \in ResultSets
  BY ReadyIs
<1>3. \A e \in N : e.set = q.set /\ e.pos = e.at
  BY <1>1, <1>2, SruRecordsAre
<1>4. Fits(u, N)
  BY <1>3 DEF Fits
<1> QED BY <1>4 DEF Takes

LEMMA SruAnsweredCaches ==
  ASSUME Orderly, NEW s, Ready(s), NEW q \in Requests, Outstanding(s, q),
         Between(s, {}), q.kind = "SRU", NEW k \in Nat, NEW p, SruAnswered(p, s, q, k)
  PROVE  Caches(p)
<1>1. PICK n, N, u, v :
        /\ Answered(u, s, q, n, s.server[q.name]) /\ Ready(u) /\ PageOf(u, q, k, N)
        /\ TookSru(v, u, N, k) /\ p = Finish(SearchStep(v))
  BY DEF SruAnswered
<1>2. /\ Between(u, {}) /\ u.tasks = s.tasks /\ Proto = "HTTP" /\ u.sets[q.set].live_set = 2
      /\ \A m \in Names : u.server[m] = {}
  <2>1. Answered(u, s, q, n, s.server[q.name])
    BY <1>1
  <2>2. SruKept(u, s, q)
    BY <2>1, SruStored
  <2> QED BY <2>2 DEF SruKept
<1>3. /\ q.set = Head(u.tasks).resultset /\ Head(u.tasks).which = "SEARCH"
      /\ q.start = Head(u.tasks).start
  <2>1. q.start = Head(s.tasks).start
    BY DEF Outstanding
  <2> QED BY <1>2, <2>1, AskerIs, OutstandingIs
<1>4. Takes(u, N, {})
  <2>1. Ready(u) /\ PageOf(u, q, k, N)
    BY <1>1
  <2> QED BY <1>2, <1>3, <2>1, PageTakes
<1>5. Between(v, {})
  <2>1. Ready(u) /\ TookSru(v, u, N, k)
    BY <1>1
  <2> QED BY <1>2, <1>3, <1>4, <2>1, SruBetween
<1>6. Ready(v) /\ p = Finish(SearchStep(v))
  BY <1>1 DEF TookSru
<1> QED BY <1>5, <1>6, FinishCaches

LEMMA SruRefusedCaches ==
  ASSUME NEW s, Ready(s), NEW q \in Requests, Outstanding(s, q),
         Between(s, {}), q.kind = "SRU", NEW p, SruRefused(p, s, q)
  PROVE  Caches(p)
<1>1. PICK u : Answered(u, s, q, 0, s.server[q.name]) /\ p = RemoveTask(Failed(u))
  BY DEF SruRefused
<1>2. Between(u, {}) /\ Mid(u) /\ u.wire = {} /\ u.tasks = s.tasks
  <2>1. SruKept(u, s, q)
    BY <1>1, SruStored
  <2> QED BY <2>1 DEF SruKept
<1> DEFINE w == Failed(u)
<1>3. Mid(w) /\ Still(w, u) /\ w.tasks = u.tasks /\ w.wire = {} /\ w.sets = u.sets
  BY <1>2, FailedIs
<1>4. p = RemoveTask(w)
  BY <1>1
<1> HIDE DEF w
<1>5. Fewer(w.tasks, u.tasks)
  BY <1>2, <1>3, FewerSame DEF Mid, Typed, RsState
<1>6. Less(w, u)
  BY <1>2, <1>3, <1>5, LessSame DEF Still
<1>7. Between(w, {})
  BY <1>2, <1>3, <1>6, LessBetween
<1>8. w.tasks # <<>>
  BY <1>2, <1>3 DEF Ready
<1>9. Mid(p) /\ Less(p, w) /\ p.wire = {}
  BY <1>3, <1>4, <1>8, RemoveTaskLess
<1> QED BY <1>3, <1>7, <1>9, CachesNone

LEMMA CachesRespond ==
  ASSUME Orderly, Base(zs), Caches(zs), HitsTyped, Respond
  PROVE  Caches(zs')
<1>1. PICK q, k, ok :
        /\ q \in zs.wire
        /\ Ready(Heard(zs)) /\ q \in Requests /\ Outstanding(Heard(zs), q)
        /\ Given(Heard(zs), q, k, ok) /\ Answer(zs', Heard(zs), q, k, ok)
        /\ zs.fault = "NONE" /\ hits[q.set] \in Nat
  BY RespondIs
<1> DEFINE s == Heard(zs)
<1>2. /\ Ready(s) /\ q \in Requests /\ Outstanding(s, q) /\ Asked(s, q)
      /\ Between(s, Searching(zs)) /\ Searching(zs) \subseteq {q.set}
      /\ q.kind # "SEARCH" => Between(s, {})
  BY <1>1, HeardBetween
<1>3. Between(s, {q.set})
  BY <1>2 DEF Between
<1>4. k \in Nat /\ ok \in BOOLEAN /\ (ok => k \in Replies(q)) /\ Answer(zs', s, q, k, ok)
  BY <1>1 DEF Given
<1> HIDE DEF s
<1>5. CASE q.kind = "SEARCH"
  <2>1. CASE ok
    <3>1. k > 0 => q.count > 0
      <4>1. k \in 0 .. Least(q.count, hits[q.set])
        BY <1>4, <1>5, <2>1 DEF Replies
      <4>2. q.count \in Nat /\ hits[q.set] \in Nat
        BY <1>1, <1>2 DEF Requests
      <4> QED BY <1>4, <4>1, <4>2 DEF Least
    <3>2. SearchAnswered(zs', s, q, k)
      BY <1>4, <1>5, <2>1 DEF Answer
    <3> QED BY <1>2, <1>3, <1>4, <1>5, <3>1, <3>2, SearchAnsweredCaches
  <2>2. CASE ~ ok
    <3>1. SearchRefused(zs', s, q)
      BY <1>4, <1>5, <2>2 DEF Answer
    <3> QED BY <1>2, <1>3, <1>5, <3>1, SearchRefusedCaches
  <2> QED BY <2>1, <2>2
<1>6. CASE q.kind \in {"PRESENT", "SORT"} /\ ~ ok
  <2>1. zs' = Diagnose(s)
    BY <1>4, <1>6 DEF Answer
  <2>2. Mid(s) /\ s.wire = {}
    BY <1>2 DEF Ready
  <2> QED BY <1>2, <1>6, <2>1, <2>2, DiagnoseCaches
<1>7. CASE q.kind = "PRESENT" /\ ok
  <2>1. PresentAnswered(zs', s, q, k)
    BY <1>4, <1>7 DEF Answer
  <2> QED BY <1>2, <1>4, <1>7, <2>1, PresentAnsweredCaches
<1>8. CASE q.kind = "SORT" /\ ok
  <2>1. SortAnswered(zs', s, q)
    BY <1>4, <1>8 DEF Answer
  <2> QED BY <1>2, <1>8, <2>1, SortAnsweredCaches
<1>9. CASE q.kind = "SRU"
  <2>1. CASE ok
    <3>1. SruAnswered(zs', s, q, k)
      BY <1>4, <1>9, <2>1 DEF Answer
    <3> QED BY <1>2, <1>4, <1>9, <3>1, SruAnsweredCaches
  <2>2. CASE ~ ok
    <3>1. SruRefused(zs', s, q)
      BY <1>4, <1>9, <2>2 DEF Answer
    <3> QED BY <1>2, <1>9, <3>1, SruRefusedCaches
  <2> QED BY <2>1, <2>2
<1>10. q.kind \in {"SEARCH", "PRESENT", "SORT", "SRU"}
  BY <1>2 DEF Requests
<1> QED BY <1>5, <1>6, <1>7, <1>8, <1>9, <1>10


(***************************************************************************)
(* The event loop                                                          *)
(***************************************************************************)
LEMMA RunningLess ==
  ASSUME NEW s, Mid(s), s.tasks # <<>>, NEW running \in BOOLEAN, NEW u, Running(u, s, running)
  PROVE  Less(u, s) /\ Fewer(u.tasks, s.tasks)
<1> DEFINE t == Head(s.tasks)
           k == [t EXCEPT !.running = running]
<1>1. s.tasks \in Seq(Task) /\ t \in Task
  <2>1. s.tasks \in Seq(Task)
    BY DEF Mid, Typed, RsState
  <2> QED BY <2>1, HeadIs
<1>2. k.resultset = t.resultset /\ k.which = t.which /\ k.count = t.count
  <2> HIDE DEF t
  <2> QED BY <1>1 DEF Task
<1>3. /\ Headed(u.tasks, s.tasks, k) /\ u.sets = s.sets /\ u.resultsets = s.resultsets
      /\ u.server = s.server
  BY DEF Running, Still
<1> HIDE DEF k
<1>4. Fewer(u.tasks, s.tasks)
  BY <1>1, <1>2, <1>3, FewerHeaded
<1> QED BY <1>3, <1>4, LessSame

LEMMA CachesExec ==
  ASSUME Orderly, Base(zs), Caches(zs), Exec
  PROVE  Caches(zs')
<1>1. Executed(zs', zs) /\ Base(zs') /\ zs.wire = {} /\ zs.tasks # <<>>
  BY ExecIs
<1>2. Mid(zs) /\ Mid(zs') /\ Between(zs, {})
  BY <1>1, CachesIdle DEF Base
<1>3. CASE zs' = RemoveTasks(zs)
  <2>1. Less(zs', zs) /\ zs'.wire = {}
    BY <1>1, <1>2, <1>3, RemoveTasksLess
  <2> QED BY <1>2, <2>1, CachesNone
<1>4. ASSUME NEW u, Running(u, zs, TRUE), Ready(u),
             \/ /\ Head(zs.tasks).which = "SORT" /\ Proto = "Z3950"
                /\ zs' = SendSort(u, Head(zs.tasks).resultset)
             \/ Head(zs.tasks).which = "SEARCH" /\ zs' = Finish(SearchStep(u))
      PROVE  Caches(zs')
  <2>1. Less(u, zs) /\ TRUE \in BOOLEAN
    BY <1>1, <1>2, <1>4, RunningLess
  <2>2. Between(u, {})
    BY <1>2, <1>4, <2>1, LessBetween DEF Ready
  <2>3. CASE zs' = Finish(SearchStep(u))
    BY <1>4, <2>2, <2>3, FinishCaches
  <2>4. CASE Head(zs.tasks).which = "SORT" /\ Proto = "Z3950"
             /\ zs' = SendSort(u, Head(zs.tasks).resultset)
    <3> DEFINE r == Head(u.tasks).resultset
    <3>1. /\ u.tasks \in Seq(Task) /\ u.tasks # <<>> /\ r \in ResultSets
          /\ zs.tasks \in Seq(Task)
      BY <1>2, <1>4, ReadyIs DEF Mid, Typed, RsState
    <3>2. /\ Head(u.tasks) = u.tasks[1] /\ 1 \in 1..Len(u.tasks)
          /\ Head(zs.tasks) = zs.tasks[1] /\ 1 \in 1..Len(zs.tasks)
      BY <1>1, <3>1, HeadIs
    <3>3. u.tasks[1].which = "SORT" /\ Head(zs.tasks).resultset = r
      BY <1>4, <2>4, <3>2 DEF Running, Alike
    <3>4. SortClear(u, 1)
      BY <2>2, <3>2, <3>3 DEF Between, Core, SortsClear
    <3>5. Plain(u.sets[r]) = {}
      BY <3>2, <3>4 DEF SortClear
    <3>6. Owned(u, r) /\ SpecFirst(u, r) /\ Between(u, {r})
      BY <2>2, <3>1 DEF Between
    <3>7. zs' = SendSort(u, r)
      BY <2>4, <3>3
    <3> QED BY <1>4, <2>4, <3>5, <3>6, <3>7, SendSortCaches
  <2> QED BY <1>4, <2>3, <2>4
<1> QED BY <1>1, <1>3, <1>4 DEF Executed

LEMMA CachesLose ==
  ASSUME Base(zs), Caches(zs), Lose
  PROVE  Caches(zs')
<1>1. Lost(zs', zs) /\ zs.tasks # <<>>
  BY LoseIs
<1>2. /\ Mid(zs') /\ Mid(zs) /\ zs.tasks \in Seq(Task) /\ zs'.sets = zs.sets
      /\ zs'.resultsets = zs.resultsets /\ zs'.wire = {} /\ \A n \in Names : zs'.server[n] = {}
  BY <1>1 DEF Lost, Base, Mid, Typed, RsState
<1>3. Fewer(zs'.tasks, zs.tasks)
  <2>1. CASE zs'.tasks = zs.tasks
    BY <1>2, <2>1, FewerSame
  <2>2. CASE Headed(zs'.tasks, zs.tasks, [Head(zs.tasks) EXCEPT !.running = FALSE])
    <3> DEFINE t == Head(zs.tasks)
               k == [t EXCEPT !.running = FALSE]
    <3>1. t \in Task
      BY <1>1, <1>2, HeadIs
    <3>2. k.resultset = t.resultset /\ k.which = t.which /\ k.count = t.count
      <4> HIDE DEF t
      <4> QED BY <3>1 DEF Task
    <3>3. Headed(zs'.tasks, zs.tasks, k)
      BY <2>2
    <3> HIDE DEF k
    <3> QED BY <1>1, <1>2, <3>2, <3>3, FewerHeaded
  <2> QED BY <1>1, <2>1, <2>2 DEF Lost
<1>4. Less(zs', zs)
  BY <1>2, <1>3, LessSame
<1> QED BY <1>2, <1>4, CachesGone

(***************************************************************************)
(* The application                                                         *)
(***************************************************************************)
LEMMA KeptLess ==
  ASSUME NEW s, Mid(s), NEW p, Mid(p), SetsKept(p, s), Fewer(p.tasks, s.tasks),
         \A n \in Names : p.server[n] \subseteq s.server[n]
  PROVE  Less(p, s)
<1>1. p.resultsets \subseteq s.resultsets
  <2>1. Linked(s) /\ Linked(p) /\ p.resultsets \subseteq ResultSets
    BY DEF Mid, Refs, Typed, RsState
  <2> QED BY <2>1 DEF Linked, SetsKept
<1> QED BY <1>1 DEF Less

LEMMA CachesDestroy ==
  ASSUME Base(zs), Caches(zs), NEW r \in ResultSets, Destroy(r)
  PROVE  Caches(zs')
<1>1. /\ Base(zs') /\ SetsKept(zs', zs)
      /\ zs'.tasks = zs.tasks /\ zs'.wire = zs.wire /\ zs'.server = zs.server
  BY DestroyIs
<1>2. Mid(zs) /\ Mid(zs') /\ zs.tasks \in Seq(Task)
  BY <1>1 DEF Base, Mid, Typed, RsState
<1>3. Fewer(zs'.tasks, zs.tasks)
  BY <1>1, <1>2, FewerSame
<1>4. Less(zs', zs)
  BY <1>1, <1>2, <1>3, KeptLess
<1> QED BY <1>1, <1>2, <1>4, CachesSame

LEMMA CachesRelease ==
  ASSUME Orderly, Base(zs), Caches(zs), NEW r \in ResultSets, Release(r)
  PROVE  Caches(zs')
<1>1. /\ Base(zs') /\ SetsKept(zs', zs)
      /\ zs'.tasks = zs.tasks /\ zs'.wire = zs.wire /\ zs'.server = zs.server
  <2>1. "releaseBusy" \notin Liberties
    BY DEF Orderly
  <2> QED BY <2>1, ReleaseIs
<1>2. Mid(zs) /\ Mid(zs') /\ zs.tasks \in Seq(Task)
  BY <1>1 DEF Base, Mid, Typed, RsState
<1>3. Fewer(zs'.tasks, zs.tasks)
  BY <1>1, <1>2, FewerSame
<1>4. Less(zs', zs)
  BY <1>1, <1>2, <1>3, KeptLess
<1> QED BY <1>1, <1>2, <1>4, CachesSame

LEMMA CachesDisconnect ==
  ASSUME Base(zs), Caches(zs), Disconnect
  PROVE  Caches(zs')
<1>1. /\ Base(zs') /\ SetsKept(zs', zs) /\ zs'.tasks = <<>> /\ zs'.wire = {}
      /\ \A n \in Names : zs'.server[n] = {}
  BY DisconnectIs
<1>2. Mid(zs) /\ Mid(zs')
  BY <1>1 DEF Base
<1>3. Fewer(zs'.tasks, zs.tasks)
  BY <1>1, FewerNone
<1>4. Less(zs', zs)
  BY <1>1, <1>2, <1>3, KeptLess
<1> QED BY <1>1, <1>2, <1>4, CachesGone

LEMMA CachesConnect ==
  ASSUME Base(zs), Caches(zs), Connect
  PROVE  Caches(zs')
<1>1. /\ Base(zs') /\ zs'.sets = zs.sets /\ zs'.tasks = <<>> /\ zs.tasks = <<>>
      /\ zs'.wire = zs.wire /\ zs'.server = zs.server /\ zs'.resultsets = zs.resultsets
  BY ConnectIs
<1>2. Mid(zs) /\ Mid(zs')
  BY <1>1 DEF Base
<1>3. Fewer(zs'.tasks, zs.tasks)
  BY <1>1, FewerNone
<1>4. Less(zs', zs)
  BY <1>1, <1>2, <1>3, LessSame
<1> QED BY <1>1, <1>2, <1>4, CachesSame


LEMMA PreparedCaches ==
  ASSUME NEW s, Base(s), Caches(s), NEW v, Prepared(v, s)
  PROVE  Caches(v) /\ Base(v)
<1>1. /\ Base(v) /\ v.tasks = s.tasks /\ v.sets = s.sets /\ v.resultsets = s.resultsets
      /\ v.wire = s.wire /\ v.server = s.server
  BY DEF Prepared
<1>2. Mid(s) /\ Mid(v) /\ s.tasks \in Seq(Task)
  BY <1>1 DEF Base, Mid, Typed, RsState
<1>3. Fewer(v.tasks, s.tasks)
  BY <1>1, <1>2, FewerSame
<1>4. Less(v, s)
  BY <1>1, <1>2, <1>3, LessSame
<1> QED BY <1>1, <1>2, <1>4, CachesSame

\* A task may be queued for a connected set; one that sorts it finds it empty.
Fit(s, t) ==
  /\ s.sets[t.resultset].connection
  /\ t.which = "SORT" =>
       /\ Plain(s.sets[t.resultset]) = {}
       /\ \A j \in 1..Len(s.tasks) :
            s.tasks[j].resultset = t.resultset /\ s.tasks[j].which = "SEARCH" =>
              s.tasks[j].count = 0

LEMMA QueuedCaches ==
  ASSUME NEW s, Base(s), Caches(s), NEW t \in Task, Fit(s, t), NEW p, Queued(p, s, t)
  PROVE  Caches(p)
<1> DEFINE r == t.resultset
           x == s.sets[r]
           n == Len(s.tasks)
<1>1. /\ Mid(s) /\ Core(s) /\ s.tasks \in Seq(Task) /\ r \in ResultSets /\ x \in ResultSet
      /\ n \in Nat
  <2>1. Mid(s) /\ Core(s) /\ s.tasks \in Seq(Task) /\ r \in ResultSets /\ x \in ResultSet
    BY DEF Base, Caches, Between, Mid, Typed, RsState, Task
  <2> QED BY <2>1, LenProperties
<1>2. /\ Base(p) /\ p.tasks = Append(s.tasks, t) /\ p.wire = s.wire /\ p.server = s.server
      /\ p.resultsets = s.resultsets
      /\ p.sets[r] = [x EXCEPT !.refcount = x.refcount + 1]
      /\ \A o \in ResultSets : o # r => p.sets[o] = s.sets[o]
  BY DEF Queued
<1>3. /\ p.sets[r].cache = x.cache /\ p.sets[r].setname = x.setname
      /\ p.sets[r].live_set = x.live_set /\ p.sets[r].size = x.size
      /\ p.sets[r].sort_spec = x.sort_spec /\ p.sets[r].connection = x.connection
      /\ p.sets[r].status = x.status
  <2> DEFINE y == p.sets[r]
  <2>1. y = [x EXCEPT !.refcount = x.refcount + 1]
    BY <1>2
  <2> HIDE DEF x, y
  <2>2. /\ y.cache = x.cache /\ y.setname = x.setname /\ y.live_set = x.live_set
        /\ y.size = x.size /\ y.sort_spec = x.sort_spec /\ y.connection = x.connection
        /\ y.status = x.status
    BY <1>1, <2>1 DEF ResultSet
  <2> QED BY <2>2 DEF y
<1>4. \A o \in ResultSets :
        /\ p.sets[o].cache = s.sets[o].cache /\ p.sets[o].setname = s.sets[o].setname
        /\ p.sets[o].live_set = s.sets[o].live_set /\ p.sets[o].size = s.sets[o].size
        /\ p.sets[o].sort_spec = s.sets[o].sort_spec
        /\ p.sets[o].connection = s.sets[o].connection /\ p.sets[o].status = s.sets[o].status
  BY <1>2, <1>3
<1>5. /\ Len(p.tasks) = n + 1 /\ p.tasks[n + 1] = t /\ \A i \in 1..n : p.tasks[i] = s.tasks[i]
  BY <1>1, <1>2, AppendProperties
<1>6. /\ \A i \in 1..(n + 1) : i \in 1..n \/ i = n + 1
      /\ \A i \in 1..n : \A j \in 1..(i - 1) : j \in 1..n
      /\ (n + 1) - 1 = n
  BY <1>1
<1> HIDE DEF n, x
<1>7. UsersConnected(p)
  <2>1. SUFFICES ASSUME NEW o \in ResultSets, On(p.tasks, o) # {} PROVE p.sets[o].connection
    BY DEF UsersConnected
  <2>2. CASE o = r
    BY <1>4, <2>2 DEF Fit
  <2>3. CASE o # r
    <3>1. p.tasks \in Seq(Task)
      BY <1>1, <1>2, SeqClosed
    <3>2. Users(p.tasks, o) = Users(s.tasks, o)
      BY <1>1, <1>2, <2>3, UsersAppend
    <3>3. Users(p.tasks, o) # 0
      BY <2>1, <3>1, UsersType
    <3>4. On(s.tasks, o) # {}
      BY <1>1, <3>2, <3>3, UsersType
    <3> QED BY <1>1, <1>4, <3>4 DEF Core, UsersConnected
  <2> QED BY <2>2, <2>3
<1>8. OwnName(p) /\ NamesApart(p) /\ Nameless(p)
  <2>1. NamesKept(p, s)
    BY <1>2, <1>4 DEF NamesKept
  <2>2. Mid(p) /\ OwnName(s) /\ NamesApart(s) /\ Nameless(s)
    BY <1>1, <1>2 DEF Base, Core
  <2> QED BY <1>1, <2>1, <2>2, KeptNames
<1>9. SortsClear(p)
  <2>1. SUFFICES ASSUME NEW i \in 1..Len(p.tasks), p.tasks[i].which = "SORT" PROVE SortClear(p, i)
    BY DEF SortsClear
  <2>2. CASE i \in 1..n
    <3>1. /\ p.tasks[i] = s.tasks[i] /\ SortClear(s, i) /\ s.tasks[i].resultset \in ResultSets
      BY <1>1, <1>5, <2>1, <2>2, QueuedAlive DEF Core, SortsClear, n
    <3>2. Plain(p.sets[p.tasks[i].resultset]) = {}
      BY <1>4, <3>1 DEF SortClear, Plain
    <3>3. \A j \in 1..(i - 1) : p.tasks[j] = s.tasks[j]
      BY <1>5, <1>6, <2>2
    <3> QED BY <3>1, <3>2, <3>3 DEF SortClear
  <2>3. CASE i = n + 1
    <3>1. p.tasks[i] = t
      BY <1>5, <2>3
    <3>2. Plain(p.sets[r]) = {}
      BY <1>1, <1>4, <2>1, <3>1 DEF Fit, Plain
    <3>3. ASSUME NEW j \in 1..(i - 1), p.tasks[j].resultset = r, p.tasks[j].which = "SEARCH"
          PROVE  p.tasks[j].count = 0
      <4>1. j \in 1..n /\ p.tasks[j] = s.tasks[j]
        BY <1>5, <1>6, <2>3
      <4> QED BY <2>1, <3>1, <3>3, <4>1 DEF Fit, n
    <3> QED BY <3>1, <3>2, <3>3 DEF SortClear
  <2> QED BY <1>5, <1>6, <2>1, <2>2, <2>3
<1>10. ASSUME NEW o \in ResultSets PROVE Right(p, o)
  <2>1. Right(s, o)
    BY <1>1 DEF Core
  <2> QED BY <1>2, <1>4, <2>1 DEF Right, Belongs, InOrder, EmptyUnlessLive
<1>11. Searching(p) = Searching(s)
  BY <1>2 DEF Searching
<1>12. ASSUME NEW o \in ResultSets \ Searching(p) PROVE Owned(p, o) /\ SpecFirst(p, o)
  <2>1. Owned(s, o) /\ SpecFirst(s, o)
    BY <1>11 DEF Caches, Between
  <2> QED BY <1>2, <1>4, <2>1 DEF Owned, SpecFirst
<1>13. ASSUME NEW q \in p.wire PROVE Asked(p, q)
  <2>1. Asked(s, q) /\ Outstanding(s, q) /\ q.set \in ResultSets
    BY <1>1, <1>2 DEF Caches, Base, Mid, Typed, RsState, Requests
  <2>2. Head(p.tasks) = Head(s.tasks)
    <3>1. s.tasks # <<>>
      BY <2>1 DEF Outstanding
    <3> QED BY <1>1, <1>2, <3>1
  <2> QED BY <1>4, <2>1, <2>2 DEF Asked, Plain
<1>14. Core(p)
  BY <1>7, <1>8, <1>9, <1>10 DEF Core
<1> QED BY <1>12, <1>13, <1>14 DEF Caches, Between

LEMMA CreatedCaches ==
  ASSUME Orderly, NEW s, Base(s), Caches(s), NEW r \in ResultSets, s.sets[r].status = "new",
         NEW x \in ResultSet, x.setname = NoName, x.live_set = 0, x.cache = {}, x.connection,
         Named \/ Proto = "HTTP" \/ s.resultsets = {}, On(s.tasks, r) = {},
         NEW u, Created(u, s, r, x)
  PROVE  Caches(u)
<1>1. Mid(s) /\ Core(s) /\ s.tasks \in Seq(Task) /\ Mid(u)
  BY DEF Base, Caches, Between, Mid, Typed, RsState, Created
<1>2. /\ u.tasks = s.tasks /\ u.wire = s.wire /\ u.server = s.server
      /\ u.resultsets = s.resultsets \cup {r} /\ s.resultsets \subseteq ResultSets
      /\ u.sets[r] = x /\ \A o \in ResultSets : o # r => u.sets[o] = s.sets[o]
      /\ \A n \in Names : s.server[n] \subseteq ServerSet
  BY <1>1 DEF Created, Mid, Typed, RsState
<1>3. ASSUME NEW i \in 1..Len(s.tasks)
      PROVE  s.tasks[i].resultset \in ResultSets /\ s.tasks[i].resultset # r
  BY <1>1, QueuedAlive
<1>4. UsersConnected(u)
  BY <1>1, <1>2 DEF UsersConnected, Core
<1>5. OwnName(u)
  <2>1. SUFFICES ASSUME NEW n \in Names, NEW b \in s.server[n] PROVE u.sets[b.set].setname = n
    BY <1>2 DEF OwnName
  <2>2. s.sets[b.set].setname = n /\ b.set \in ResultSets
    BY <1>1, <1>2 DEF Core, OwnName, ServerSet
  <2>3. n # NoName /\ s.sets[r].setname = NoName
    BY <1>1, RsAssumption DEF Names, NoName, Core, Nameless
  <2>4. b.set # r
    BY <2>2, <2>3
  <2> QED BY <1>2, <2>2, <2>4
<1>6. NamesApart(u)
  <2>1. SUFFICES ASSUME Proto = "Z3950"
                 PROVE  /\ \A a, b \in u.resultsets :
                             u.sets[a].setname = u.sets[b].setname /\ a # b =>
                               u.sets[a].setname = NoName
                        /\ ~ Named => AtMostOne(u.resultsets)
    BY DEF NamesApart
  <2>2. ASSUME NEW a \in u.resultsets, NEW b \in u.resultsets,
               u.sets[a].setname = u.sets[b].setname, a # b
        PROVE  u.sets[a].setname = NoName
    <3>1. CASE a = r \/ b = r
      BY <1>2, <2>2, <3>1
    <3>2. CASE a # r /\ b # r
      <4>1. a \in s.resultsets /\ b \in s.resultsets
        BY <1>2, <3>2
      <4>2. u.sets[a] = s.sets[a] /\ u.sets[b] = s.sets[b]
        BY <1>2, <3>2, <4>1
      <4> QED BY <1>1, <2>1, <2>2, <4>1, <4>2 DEF Core, NamesApart
    <3> QED BY <3>1, <3>2
  <2>3. ~ Named => u.resultsets = {r}
    BY <1>2, <2>1
  <2> QED BY <2>2, <2>3 DEF AtMostOne
<1>7. Nameless(u)
  BY <1>1, <1>2 DEF Nameless, Core
<1>8. SortsClear(u)
  <2>1. SUFFICES ASSUME NEW i \in 1..Len(s.tasks), s.tasks[i].which = "SORT" PROVE SortClear(u, i)
    BY <1>2 DEF SortsClear
  <2>2. SortClear(s, i)
    BY <1>1, <2>1 DEF Core, SortsClear
  <2>3. u.sets[s.tasks[i].resultset] = s.sets[s.tasks[i].resultset]
    BY <1>2, <1>3
  <2> QED BY <1>2, <2>2, <2>3 DEF SortClear
<1>9. ASSUME NEW o \in ResultSets PROVE Right(u, o)
  <2>1. CASE o = r
    BY <1>2, <2>1 DEF Right, Belongs, InOrder, EmptyUnlessLive
  <2>2. CASE o # r
    <3>1. u.sets[o] = s.sets[o] /\ Right(s, o)
      BY <1>1, <1>2, <2>2 DEF Core
    <3> QED BY <1>2, <3>1 DEF Right, Belongs, InOrder, EmptyUnlessLive
  <2> QED BY <2>1, <2>2
<1>10. Searching(u) = Searching(s)
  BY <1>2 DEF Searching
<1>11. ASSUME NEW o \in ResultSets \ Searching(u) PROVE Owned(u, o) /\ SpecFirst(u, o)
  <2>1. CASE o = r
    BY <1>2, <2>1 DEF Owned, SpecFirst
  <2>2. CASE o # r
    <3>1. Owned(s, o) /\ SpecFirst(s, o) /\ u.sets[o] = s.sets[o]
      BY <1>2, <1>10, <2>2 DEF Caches, Between
    <3> QED BY <1>2, <2>2, <3>1 DEF Owned, SpecFirst
  <2> QED BY <2>1, <2>2
<1>12. ASSUME NEW q \in u.wire PROVE Asked(u, q)
  <2>1. Asked(s, q) /\ Outstanding(s, q)
    BY <1>2 DEF Caches, Base
  <2>2. s.tasks # <<>> /\ q.set = Head(s.tasks).resultset
    BY <2>1 DEF Outstanding
  <2>3. 1 \in 1..Len(s.tasks) /\ Head(s.tasks) = s.tasks[1]
    BY <1>1, <2>2, HeadIs
  <2>4. u.sets[q.set] = s.sets[q.set]
    BY <1>2, <1>3, <2>2, <2>3
  <2> QED BY <1>2, <2>1, <2>4 DEF Asked
<1>13. Core(u)
  BY <1>4, <1>5, <1>6, <1>7, <1>8, <1>9 DEF Core
<1> QED BY <1>11, <1>12, <1>13 DEF Caches, Between

LEMMA CachesSearch ==
  ASSUME Orderly, Base(zs), Caches(zs), NEW r \in ResultSets, NEW start \in Starts,
         NEW count \in Counts, NEW step \in Steps, NEW piggyback \in Piggybacks,
         NEW sort \in BOOLEAN, NEW valid \in BOOLEAN,
         Search(r, start, count, step, piggyback, sort, valid)
  PROVE  Caches(zs')
<1> DEFINE t == NewTask("SEARCH", r, start, count)
<1>1. PICK x, u, v :
        /\ x \in ResultSet /\ x.connection /\ x.setname = NoName /\ x.live_set = 0 /\ x.cache = {}
        /\ Created(u, zs, r, x) /\ Prepared(v, u) /\ t \in Task /\ Queued(zs', v, t)
        /\ On(zs.tasks, r) = {} /\ zs.sets[r].status = "new"
        /\ Named \/ "share" \in Liberties \/ Proto = "HTTP" \/ zs.resultsets = {}
  BY SearchIs
<1>2. t.resultset = r /\ t.which = "SEARCH"
  BY DEF NewTask
<1> HIDE DEF t
<1>3. Named \/ Proto = "HTTP" \/ zs.resultsets = {}
  BY <1>1 DEF Orderly
<1>4. Caches(u)
  BY <1>1, <1>3, CreatedCaches
<1>5. Base(u)
  BY <1>1 DEF Created
<1>6. Caches(v) /\ Base(v)
  BY <1>1, <1>4, <1>5, PreparedCaches
<1>7. v.sets[r].connection
  BY <1>1 DEF Created, Prepared
<1>8. Fit(v, t)
  BY <1>2, <1>7 DEF Fit
<1> QED BY <1>1, <1>6, <1>8, QueuedCaches

LEMMA CachesRetrieve ==
  ASSUME Base(zs), Caches(zs), NEW r \in ResultSets, NEW start \in Starts, NEW count \in Counts,
         Retrieve(r, start, count)
  PROVE  Caches(zs')
<1> DEFINE t == NewTask("SEARCH", r, start, count)
<1>1. PICK v : Prepared(v, zs) /\ t \in Task /\ Queued(zs', v, t) /\ zs.sets[r].connection
  BY RetrieveIs
<1>2. t.resultset = r /\ t.which = "SEARCH"
  BY DEF NewTask
<1> HIDE DEF t
<1>3. Caches(v) /\ Base(v)
  BY <1>1, PreparedCaches
<1>4. v.sets[r].connection
  BY <1>1 DEF Prepared
<1>5. Fit(v, t)
  BY <1>2, <1>4 DEF Fit
<1> QED BY <1>1, <1>3, <1>5, QueuedCaches

LEMMA EmptiedCaches ==
  ASSUME NEW s, Base(s), Caches(s), NEW r \in ResultSets, NEW u, Emptied(u, s, r)
  PROVE  Caches(u)
<1>1. /\ Base(u) /\ u.tasks = s.tasks /\ u.wire = s.wire /\ u.server = s.server
      /\ u.sets[r] = [s.sets[r] EXCEPT !.cache = {}] /\ s.sets[r] \in ResultSet
      /\ \A o \in ResultSets : o # r => u.sets[o] = s.sets[o]
  BY DEF Emptied, Base, Mid, Typed, RsState
<1>2. Mid(s) /\ Mid(u) /\ s.tasks \in Seq(Task)
  BY <1>1 DEF Base, Mid, Typed, RsState
<1>3. SetsKept(u, s)
  <2>1. SUFFICES ASSUME NEW o \in ResultSets
                 PROVE  /\ u.sets[o].setname = s.sets[o].setname
                        /\ u.sets[o].live_set = s.sets[o].live_set
                        /\ u.sets[o].size = s.sets[o].size
                        /\ u.sets[o].sort_spec = s.sets[o].sort_spec
                        /\ u.sets[o].valid = s.sets[o].valid
                        /\ u.sets[o].cache \subseteq s.sets[o].cache
                        /\ u.sets[o].connection = s.sets[o].connection
                        /\ u.sets[o].status = s.sets[o].status
    BY DEF SetsKept
  <2>2. CASE o = r
    BY <1>1, <2>2 DEF ResultSet
  <2> QED BY <1>1, <2>2
<1>4. Fewer(u.tasks, s.tasks)
  BY <1>1, <1>2, FewerSame
<1>5. Less(u, s)
  BY <1>1, <1>2, <1>3, <1>4, KeptLess
<1> QED BY <1>1, <1>2, <1>5, CachesSame

LEMMA CachesSort ==
  ASSUME Orderly, Base(zs), Caches(zs), NEW r \in ResultSets, Sort(r)
  PROVE  Caches(zs')
<1> DEFINE t == NewTask("SORT", r, 0, 0)
<1>1. \A i \in SearchesOn(zs, r) : zs.tasks[i].count = 0
  BY SortIs DEF Orderly
<1>2. CASE zs' = Fault(zs, "RELEASED")
  <2>1. "RELEASED" \in Faults
    BY DEF Faults
  <2>2. Base(zs')
    BY <1>2, <2>1, FaultBase
  <2>3. Mid(zs) /\ Mid(zs') /\ zs \in RsState /\ zs.tasks \in Seq(Task)
    BY <2>2 DEF Base, Mid, Typed, RsState
  <2>4. /\ zs'.tasks = zs.tasks /\ zs'.wire = zs.wire /\ zs'.server = zs.server
        /\ zs'.sets = zs.sets /\ zs'.resultsets = zs.resultsets
    BY <1>2, <2>1, <2>3, FaultIs DEF Still
  <2>5. Fewer(zs'.tasks, zs.tasks)
    BY <2>3, <2>4, FewerSame
  <2>6. Less(zs', zs)
    BY <2>3, <2>4, <2>5, LessSame
  <2> QED BY <2>3, <2>4, <2>6, CachesSame
<1>3. ASSUME NEW u, zs.sets[r].connection, Emptied(u, zs, r), t \in Task, Queued(zs', u, t)
      PROVE  Caches(zs')
  <2>1. t.resultset = r
    BY DEF NewTask
  <2> HIDE DEF t
  <2>2. /\ Base(u) /\ u.tasks = zs.tasks /\ u.sets[r] = [zs.sets[r] EXCEPT !.cache = {}]
        /\ zs.sets[r] \in ResultSet /\ zs.tasks \in Seq(Task)
    BY <1>3 DEF Emptied, Base, Mid, Typed, RsState
  <2>3. u.sets[r].connection /\ u.sets[r].cache = {}
    BY <1>3, <2>2 DEF ResultSet
  <2>4. \A j \in 1..Len(zs.tasks) :
          zs.tasks[j].resultset = r /\ zs.tasks[j].which = "SEARCH" => zs.tasks[j].count = 0
    <3>1. DOMAIN zs.tasks = 1..Len(zs.tasks)
      BY <2>2, LenProperties
    <3> QED BY <1>1, <3>1 DEF SearchesOn, TasksOn
  <2>5. Fit(u, t)
    BY <2>1, <2>2, <2>3, <2>4 DEF Fit, Plain, PlainOf
  <2>6. Caches(u)
    BY <1>3, EmptiedCaches
  <2> QED BY <1>3, <2>2, <2>5, <2>6, QueuedCaches
<1> QED BY <1>2, <1>3, SortIs

(***************************************************************************)
(* The records of every reachable state                                    *)
(***************************************************************************)
LEMMA CachesInit ==
  ASSUME Init
  PROVE  Caches(zs)
<1>1. /\ zs.tasks = <<>> /\ zs.wire = {} /\ zs.resultsets = {}
      /\ \A r \in ResultSets : zs.sets[r] = Fresh
      /\ \A n \in Names : zs.server[n] = {}
  BY InitIs
<1>2. Fresh.cache = {} /\ Fresh.setname = NoName /\ Fresh.sort_spec = FALSE
  BY FreshIs
<1>3. UsersConnected(zs) /\ SortsClear(zs)
  <2>1. \A r : On(<<>>, r) = {}
    BY DEF On
  <2>2. 1..Len(<<>>) = {}
    BY EmptySeq
  <2> QED BY <1>1, <2>1, <2>2 DEF UsersConnected, SortsClear
<1>4. OwnName(zs) /\ NamesApart(zs) /\ Nameless(zs)
  BY <1>1, <1>2 DEF OwnName, NamesApart, Nameless, AtMostOne
<1>5. \A r \in ResultSets : Right(zs, r) /\ Owned(zs, r) /\ SpecFirst(zs, r)
  BY <1>1, <1>2 DEF Right, Belongs, InOrder, EmptyUnlessLive, Owned, SpecFirst
<1>6. Between(zs, {})
  BY <1>3, <1>4, <1>5 DEF Between, Core
<1> QED BY <1>1, <1>6, CachesIdle

LEMMA CachesStep ==
  ASSUME Orderly, RsInv, Caches(zs), Next
  PROVE  Caches(zs')
<1>1. Base(zs) /\ HitsTyped
  BY DEF RsInv
<1>2. ASSUME NEW r \in ResultSets, NEW start \in Starts, NEW count \in Counts,
             NEW step \in Steps, NEW piggyback \in Piggybacks, NEW sort \in BOOLEAN,
             NEW valid \in BOOLEAN, Search(r, start, count, step, piggyback, sort, valid)
      PROVE  Caches(zs')
  BY <1>1, <1>2, CachesSearch
<1>3. ASSUME NEW r \in ResultSets, NEW start \in Starts, NEW count \in Counts,
             Retrieve(r, start, count)
      PROVE  Caches(zs')
  BY <1>1, <1>3, CachesRetrieve
<1>4. ASSUME NEW r \in ResultSets, Sort(r) PROVE Caches(zs')
  BY <1>1, <1>4, CachesSort
<1>5. ASSUME NEW r \in ResultSets, Destroy(r) PROVE Caches(zs')
  BY <1>1, <1>5, CachesDestroy
<1>6. ASSUME NEW r \in ResultSets, Release(r) PROVE Caches(zs')
  BY <1>1, <1>6, CachesRelease
<1>7. CASE Disconnect
  BY <1>1, <1>7, CachesDisconnect
<1>8. CASE Connect
  BY <1>1, <1>8, CachesConnect
<1>9. CASE Exec
  BY <1>1, <1>9, CachesExec
<1>10. CASE Respond
  BY <1>1, <1>10, CachesRespond
<1>11. CASE Lose
  BY <1>1, <1>11, CachesLose
<1> QED BY <1>2, <1>3, <1>4, <1>5, <1>6, <1>7, <1>8, <1>9, <1>10, <1>11 DEF Next

(* Every record in a result set's cache is one of its own query, kept at   *)
(* the position that it has, and in the order of the server's set now      *)
(* (src/src/zoom-record-cache.c:125 ZOOM_record_cache_add, called with the  *)
(* range of the task at the head of the queue in src/src/zoom-z3950.c:1460 *)
(* handle_Z3950_records; src/src/zoom-c.c:815 ZOOM_resultset_sort1, which  *)
(* empties the cache).  An SRU record lands where its recordPosition says  *)
(* if that is not before the place where the page is counted to, and is    *)
(* dropped if the place is taken (src/src/zoom-sru.c:334-346): it is at    *)
(* its own position, also when the server leaves records out.              *)
THEOREM CachedRightlyHolds ==
  ASSUME Orderly
  PROVE  Spec => []CachedRightly
<1>1. Init => Caches(zs)
  BY CachesInit
<1>2. RsInv /\ Caches(zs) /\ [Next]_vars => Caches(zs)'
  <2>1. ASSUME Caches(zs), UNCHANGED vars PROVE Caches(zs')
    BY <2>1 DEF vars
  <2> QED BY <2>1, CachesStep
<1>3. Caches(zs) => CachedRightly
  BY DEF Caches, Between, Core, Right, Belongs, InOrder, CachedRightly, RecordsBelong, CacheInOrder
<1> QED BY <1>1, <1>2, <1>3, ResultSetInvariant, PTL DEF Spec


(***************************************************************************)
(* What a retrieval has fetched                                            *)
(***************************************************************************)
\* The application does not sort a set while its records are being retrieved,
\* and leaves the limits on piggybacked records alone; a page of an SRU server
\* leaves no record out.
Steady == Liberties \cap {"sortBusy", "expert", "gaps"} = {}

\* The records of the range of t before n are cached.
Filled(x, t, n) == \A i \in t.from .. n - 1 : i \in Cached(x)

\* The rest of the range of t reaches to its end or to that of the set.
Covers(x, t) ==
  t.upto <= t.start + t.count \/ (x.live_set = 2 /\ x.size <= t.start + t.count)

Fetched(x, t) == t.from <= t.start /\ Filled(x, t, t.start) /\ Covers(x, t)

\* A task that asks for nothing more before its set is known has not begun.
Resting(t) == Proto = "Z3950" /\ t.count = 0 => t.start = t.from

\* A response without records ended the retrieval.
Stopped(x, t) ==
  /\ t.count = 0 /\ x.live_set = 2 /\ t.from <= t.start /\ Filled(x, t, t.start)
  /\ \E e \in x.cache : e.diag /\ e.at = t.start

Reached(x, t) == Fetched(x, t) \/ Stopped(x, t)

\* What a retrieval that ends without an error has done.
Satisfied(x, t) ==
  x.status = "alive" =>
    \A i \in t.from .. t.upto - 1 :
      i < x.size => i \in Cached(x) \/ \E e \in x.cache : e.diag /\ e.at \in t.from .. i

Asking(s, i) ==
  s.tasks[i].which = "SEARCH" =>
    Fetched(s.sets[s.tasks[i].resultset], s.tasks[i]) /\ Resting(s.tasks[i])

\* The tasks of s from the nth on.
Asks(s, n) == \A i \in n .. Len(s.tasks) : Asking(s, i)

\* A set is empty until the search is answered; then its size is known.  h is
\* the number of hits of every query.
Known(h, s) ==
  \A r \in ResultSets : /\ s.sets[r].live_set = 0 => s.sets[r].cache = {}
                        /\ s.sets[r].live_set = 2 => s.sets[r].size \in {0, h[r]}

\* A search that is to be sorted asks for no records; records are only asked
\* for if there are any.
Wired(s) ==
  \A q \in s.wire :
    /\ q.kind = "SEARCH" /\ s.sets[q.set].sort_spec => q.count = 0
    /\ q.kind = "SRU" /\ s.sets[q.set].live_set = 2 => s.sets[q.set].size > 0

Fetches(h, s) == Asks(s, 1) /\ Known(h, s) /\ Wired(s)

\* In the middle of a handler the first task may have more behind it.
Midway(h, s) ==
  LET t == Head(s.tasks)
      x == s.sets[t.resultset]
  IN  /\ Asks(s, 2) /\ Known(h, s)
      /\ t.which = "SEARCH" => Reached(x, t) /\ (x.live_set = 0 => Resting(t))

\* The set x becomes y, with no fewer records.
Grows(y, x) ==
  /\ Cached(x) \subseteq Cached(y)
  /\ x.live_set = 2 => y.live_set = 2 /\ y.size <= x.size

\* The task k asks for what t does.
SameRange(k, t) ==
  /\ k.which = t.which /\ k.resultset = t.resultset /\ k.start = t.start /\ k.count = t.count
  /\ k.from = t.from /\ k.upto = t.upto

LEMMA GrowsFetched ==
  ASSUME NEW t \in Task, NEW x \in ResultSet, NEW y \in ResultSet, Grows(y, x), Fetched(x, t)
  PROVE  Fetched(y, t)
<1>1. t.start \in Nat /\ t.count \in Nat /\ t.from \in Nat /\ t.upto \in Nat /\ x.size \in Nat /\ y.size \in Nat
  BY DEF Task, ResultSet
<1>2. Filled(y, t, t.start)
  BY DEF Filled, Grows, Fetched
<1>3. Covers(y, t)
  <2>1. CASE t.upto <= t.start + t.count
    BY <2>1 DEF Covers
  <2>2. CASE x.live_set = 2 /\ x.size <= t.start + t.count
    <3> DEFINE n == t.start + t.count
               a == x.size
               b == y.size
    <3>1. b <= a /\ a <= n /\ n \in Nat /\ a \in Nat /\ b \in Nat /\ y.live_set = 2
      BY <1>1, <2>2 DEF Grows
    <3> HIDE DEF n, a, b
    <3>2. b <= n
      BY <3>1
    <3> QED BY <3>1, <3>2 DEF n, b, Covers
  <2> QED BY <2>1, <2>2 DEF Fetched, Covers
<1> QED BY <1>2, <1>3 DEF Fetched

LEMMA GrowsSame ==
  ASSUME NEW x \in ResultSet, NEW y, y.cache = x.cache, y.live_set = x.live_set, y.size = x.size
  PROVE  Grows(y, x)
<1>1. x.size <= x.size
  BY DEF ResultSet
<1> QED BY <1>1 DEF Grows, Cached

LEMMA AskingSame ==
  ASSUME NEW s, NEW p, Typed(s), Typed(p), NEW i \in 1..Len(s.tasks), NEW j \in 1..Len(p.tasks),
         SameRange(p.tasks[j], s.tasks[i]), Asking(s, i),
         Grows(p.sets[s.tasks[i].resultset], s.sets[s.tasks[i].resultset])
  PROVE  Asking(p, j)
<1> DEFINE t == s.tasks[i]
           k == p.tasks[j]
           r == t.resultset
           x == s.sets[r]
           y == p.sets[r]
<1>1. t \in Task /\ k \in Task /\ r \in ResultSets /\ x \in ResultSet /\ y \in ResultSet
  <2>1. s.tasks \in Seq(Task) /\ p.tasks \in Seq(Task)
    BY DEF Typed, RsState
  <2>2. t \in Task /\ k \in Task
    BY <2>1, ElementOfSeq
  <2>3. r \in ResultSets
    BY <2>2 DEF Task
  <2> QED BY <2>2, <2>3 DEF Typed, RsState
<1>2. SameRange(k, t) /\ Grows(y, x)
  OBVIOUS
<1>3. t.which = "SEARCH" => Fetched(x, t) /\ Resting(t)
  BY DEF Asking
<1>4. k.resultset = r /\ k.which = t.which
  BY <1>2 DEF SameRange
<1> HIDE DEF t, k, x, y
<1>5. ASSUME t.which = "SEARCH" PROVE Fetched(y, k) /\ Resting(k)
  <2>1. Fetched(y, t)
    BY <1>1, <1>2, <1>3, <1>5, GrowsFetched
  <2> QED BY <1>2, <1>3, <1>5, <2>1 DEF SameRange, Fetched, Filled, Covers, Resting
<1>6. k.which = "SEARCH" => Fetched(p.sets[k.resultset], k) /\ Resting(k)
  BY <1>4, <1>5 DEF y
<1> QED BY <1>6 DEF k, Asking

(***************************************************************************)
(* The range of a task as its records come in                              *)
(***************************************************************************)
\* The range moves on over i records that are cached; m of it are left.
LEMMA MovedFetched ==
  ASSUME NEW t \in Task, NEW k \in Task, NEW y \in ResultSet, NEW i \in Nat, NEW m \in Nat,
         t.from <= t.start, Filled(y, t, t.start),
         k.from = t.from, k.upto = t.upto, k.start = t.start + i,
         \A j \in 0 .. i - 1 : t.start + j \in Cached(y),
         k.start + k.count >= t.start + m,
         t.upto <= t.start + m \/ (y.live_set = 2 /\ y.size <= t.start + m)
  PROVE  Fetched(y, k)
<1> DEFINE a == t.start
           b == k.start
           c == k.count
           f == t.from
           u == t.upto
           z == y.size
<1>1. /\ a \in Nat /\ b \in Nat /\ c \in Nat /\ f \in Nat /\ u \in Nat /\ z \in Nat
      /\ f <= a /\ b = a + i /\ b + c >= a + m /\ k.from = f /\ k.upto = u
      /\ u <= a + m \/ (y.live_set = 2 /\ z <= a + m)
  BY DEF Task, ResultSet
<1>2. \A j \in f .. a - 1 : j \in Cached(y)
  BY DEF Filled
<1>3. \A j \in 0 .. i - 1 : a + j \in Cached(y)
  OBVIOUS
<1>4. b \in Nat /\ c \in Nat /\ k.start = b /\ k.count = c /\ y.size = z
  BY <1>1
<1> HIDE DEF a, b, c, f, u, z
<1>5. ASSUME NEW j \in f .. b - 1 PROVE j \in Cached(y)
  <2>1. CASE j < a
    BY <1>1, <1>2, <2>1
  <2>2. CASE ~ (j < a)
    <3>1. j - a \in 0 .. i - 1 /\ a + (j - a) = j
      BY <1>1, <2>2
    <3> QED BY <1>3, <3>1
  <2> QED BY <2>1, <2>2
<1>6. f <= b /\ (u <= b + c \/ (y.live_set = 2 /\ z <= b + c))
  BY <1>1
<1> QED BY <1>1, <1>4, <1>5, <1>6 DEF Fetched, Filled, Covers

\* Records that are cached already are skipped.
LEMMA AdvancedFetched ==
  ASSUME NEW t \in Task, NEW x \in ResultSet, NEW k, Advanced(k, t, x), Fetched(x, t)
  PROVE  Fetched(x, k)
<1> DEFINE n == t.count
           a == t.start
           z == x.size
           m == IF x.live_set = 0 THEN n ELSE IF a >= z THEN 0 ELSE Least(n, z - a)
<1>1. k \in Task /\ k.from = t.from /\ k.upto = t.upto
  BY DEF Advanced
<1>2. PICK i \in 0 .. n : /\ k.start = a + i /\ k.count = m - i
                          /\ \A j \in 0 .. i - 1 : a + j \in Cached(x)
  BY DEF Advanced
<1>3. /\ n \in Nat /\ a \in Nat /\ z \in Nat /\ k.start \in Nat /\ k.count \in Nat
      /\ x.live_set \in {0, 2} /\ t.upto \in Nat
  BY <1>1 DEF Task, ResultSet
<1>4. t.from <= a /\ Filled(x, t, a) /\ (t.upto <= a + n \/ (x.live_set = 2 /\ z <= a + n))
  BY DEF Fetched, Covers
<1>5. m \in Nat /\ (m = n \/ (x.live_set = 2 /\ z <= a + m))
  BY <1>3 DEF Least
<1> HIDE DEF m, n, a, z
<1>6. k.start + k.count >= a + m
  <2> DEFINE b == k.start
             c == k.count
  <2>1. b = a + i /\ c = m - i /\ b \in Nat /\ c \in Nat
    BY <1>2, <1>3
  <2> HIDE DEF b, c
  <2>2. b + c >= a + m
    BY <1>3, <1>5, <2>1
  <2> QED BY <2>2 DEF b, c
<1>7. t.upto <= a + m \/ (x.live_set = 2 /\ z <= a + m)
  BY <1>4, <1>5
<1> QED BY <1>1, <1>2, <1>3, <1>4, <1>5, <1>6, <1>7, MovedFetched DEF a, z

\* Nothing is left to ask for: the range is cached, or the reason is.
LEMMA AdvancedDone ==
  ASSUME NEW t \in Task, NEW x \in ResultSet, NEW k, Advanced(k, t, x), Reached(x, t),
         x.live_set = 2, k.count = 0
  PROVE  Satisfied(x, t)
<1>0. k \in Task /\ k.from = t.from /\ k.upto = t.upto
  BY DEF Advanced
<1>1. /\ t.from \in Nat /\ t.upto \in Nat /\ t.start \in Nat /\ k.start \in Nat /\ x.size \in Nat
  BY <1>0 DEF Task, ResultSet
<1>2. CASE Fetched(x, t)
  <2>1. Fetched(x, k)
    BY <1>2, AdvancedFetched
  <2>2. /\ \A i \in t.from .. k.start - 1 : i \in Cached(x)
        /\ t.upto <= k.start \/ x.size <= k.start
    <3>1. k.start + k.count = k.start
      BY <1>1
    <3> QED BY <1>0, <2>1, <3>1 DEF Fetched, Filled, Covers
  <2>3. ASSUME NEW i \in t.from .. t.upto - 1, i < x.size PROVE i \in Cached(x)
    BY <1>1, <2>2, <2>3
  <2> QED BY <2>3 DEF Satisfied
<1>3. CASE Stopped(x, t)
  <2>1. PICK e \in x.cache : e.diag /\ e.at = t.start
    BY <1>3 DEF Stopped
  <2>2. t.from <= t.start /\ \A i \in t.from .. t.start - 1 : i \in Cached(x)
    BY <1>3 DEF Stopped, Filled
  <2>3. ASSUME NEW i \in t.from .. t.upto - 1
        PROVE  i \in Cached(x) \/ e.at \in t.from .. i
    BY <1>1, <2>1, <2>2
  <2> QED BY <2>1, <2>3 DEF Satisfied
<1> QED BY <1>2, <1>3 DEF Reached

\* A task that goes on has not stopped, and rests if it has not begun.
LEMMA AdvancedOn ==
  ASSUME NEW t \in Task, NEW x \in ResultSet, NEW k, Advanced(k, t, x), Reached(x, t),
         x.live_set = 0 => x.cache = {} /\ Resting(t), x.live_set = 0 \/ k.count > 0
  PROVE  Fetched(x, k) /\ Resting(k)
<1>1. /\ t.start \in Nat /\ t.count \in Nat /\ x.size \in Nat /\ x.live_set \in {0, 2}
  BY DEF Task, ResultSet
<1>2. k \in Task /\ k.from = t.from
  BY DEF Advanced
<1>3. CASE x.live_set = 0
  <2>1. Fetched(x, t)
    BY <1>3 DEF Reached, Stopped
  <2>2. Fetched(x, k)
    BY <2>1, AdvancedFetched
  <2>3. PICK i \in 0 .. t.count : /\ k.start = t.start + i /\ k.count = t.count - i
                                  /\ \A j \in 0 .. i - 1 : t.start + j \in Cached(x)
    BY <1>3 DEF Advanced
  <2>4. i = 0
    <3>1. Cached(x) = {}
      BY <1>3 DEF Cached
    <3>2. i > 0 => 0 \in 0 .. i - 1
      BY <1>1, <2>3
    <3> QED BY <1>1, <2>3, <3>1, <3>2
  <2>5. k.start = t.start /\ k.count = t.count
    BY <1>1, <2>3, <2>4
  <2> QED BY <1>2, <1>3, <2>2, <2>5 DEF Resting
<1>4. CASE x.live_set = 2 /\ k.count > 0
  <2>1. t.count # 0
    <3>1. Shorter(k, t)
      BY AdvancedIs
    <3>2. k.count \in Nat
      BY <1>2 DEF Task
    <3> QED BY <1>4, <3>1, <3>2 DEF Shorter
  <2>2. Fetched(x, t)
    BY <2>1 DEF Reached, Stopped
  <2>3. Fetched(x, k)
    BY <2>2, AdvancedFetched
  <2>4. k.count # 0
    BY <1>2, <1>4 DEF Task
  <2> QED BY <2>3, <2>4 DEF Resting
<1> QED BY <1>1, <1>3, <1>4

LEMMA RenewedCached ==
  ASSUME NEW x, NEW N, NEW y, y.cache = Renewed(x.cache, N)
  PROVE  Cached(x) \subseteq Cached(y) /\ \A n \in N : n.at \in Cached(y)
<1>1. \A e \in x.cache : e \in y.cache \/ \E n \in N : n \in y.cache /\ n.at = e.at
  BY DEF Renewed, Clear
<1>2. \A n \in N : n \in y.cache
  BY DEF Renewed
<1> QED BY <1>1, <1>2 DEF Cached

LEMMA NewCached ==
  ASSUME NEW x, NEW start, NEW k, NEW b, NEW origin, NEW y,
         y.cache = Renewed(x.cache, New(start, k, b, origin))
  PROVE  Cached(x) \subseteq Cached(y) /\ \A j \in 0 .. k - 1 : start + j \in Cached(y)
<1> DEFINE N == New(start, k, b, origin)
<1>1. Cached(x) \subseteq Cached(y) /\ \A n \in N : n.at \in Cached(y)
  BY RenewedCached
<1>2. \A j \in 0 .. k - 1 : \E n \in N : n.at = start + j
  <2>1. ASSUME NEW j \in 0 .. k - 1 PROVE \E n \in N : n.at = start + j
    <3> DEFINE n == [at |-> start + j, set |-> b.set, order |-> b.order, pos |-> origin + j,
                     diag |-> FALSE]
    <3>1. n \in N /\ n.at = start + j
      BY DEF New
    <3> QED BY <3>1
  <2> QED BY <2>1
<1> HIDE DEF N
<1> QED BY <1>1, <1>2

\* The records of a search or present response.
LEMMA HandledFetched ==
  ASSUME NEW t \in Task, NEW x \in ResultSet, x.live_set = 2, Fetched(x, t),
         NEW k \in Nat, NEW b, NEW origin, NEW ph \in BOOLEAN,
         NEW y \in ResultSet, y.cache = HandledCache(t, x, k, b, origin, ph),
         y.live_set = 2, y.size = x.size
  PROVE  /\ Grows(y, x)
         /\ Reached(y, HandledTask(t, x, k, ph))
         /\ ~ ph => Fetched(y, HandledTask(t, x, k, ph))
<1> DEFINE h == HandledTask(t, x, k, ph)
           n == Left(t, x)
<1>1. /\ n \in Nat /\ h \in Task /\ h.from = t.from /\ h.upto = t.upto
      /\ h.start = (IF ph /\ k = 0 THEN t.start ELSE t.start + k)
      /\ h.count = (IF ph /\ k = 0 THEN 0 ELSE n - Least(k, n))
  BY HandledTaskIs
<1>2. /\ t.start \in Nat /\ t.count \in Nat /\ x.size \in Nat
  BY DEF Task, ResultSet
<1>3. t.from <= t.start /\ Filled(x, t, t.start)
      /\ (t.upto <= t.start + t.count \/ x.size <= t.start + t.count)
  BY DEF Fetched, Covers
<1>4. Cached(x) \subseteq Cached(y)
  <2>1. CASE ph /\ k = 0
    BY <2>1, RenewedCached DEF HandledCache
  <2>2. CASE ~ (ph /\ k = 0)
    BY <2>2, NewCached DEF HandledCache
  <2> QED BY <2>1, <2>2
<1>5. Grows(y, x)
  BY <1>2, <1>4 DEF Grows
<1>6. Filled(y, t, t.start)
  BY <1>3, <1>4 DEF Filled
<1>7. CASE ph /\ k = 0
  <2>1. Told(t.start, t.resultset) \in y.cache
    BY <1>7 DEF HandledCache, Renewed
  <2>2. \E e \in y.cache : e.diag /\ e.at = t.start
    BY <2>1 DEF Told
  <2>3. h.count = 0 /\ h.start = t.start
    BY <1>1, <1>7
  <2> HIDE DEF h
  <2>4. Stopped(y, h)
    BY <1>1, <1>3, <1>6, <2>2, <2>3 DEF Stopped, Filled
  <2> QED BY <1>5, <1>7, <2>4 DEF Reached, h
<1>8. CASE ~ (ph /\ k = 0)
  <2>1. \A j \in 0 .. k - 1 : t.start + j \in Cached(y)
    BY <1>8, NewCached DEF HandledCache
  <2>2. n = t.count \/ x.size <= t.start + n
    BY <1>2 DEF Left, Least
  <2>3. h.start = t.start + k /\ h.count = n - Least(k, n)
    BY <1>1, <1>8
  <2> HIDE DEF h, n
  <2>4. h.start + h.count >= t.start + n
    <3> DEFINE a == t.start
               c == h.start
               d == h.count
    <3>1. a \in Nat /\ c = a + k /\ d = n - Least(k, n) /\ n \in Nat
      BY <1>1, <1>2, <2>3
    <3> HIDE DEF a, c, d
    <3>2. c + d >= a + n
      BY <3>1 DEF Least
    <3> QED BY <3>2 DEF a, c, d
  <2>5. t.upto <= t.start + n \/ (y.live_set = 2 /\ y.size <= t.start + n)
    <3> DEFINE a == t.start
               z == x.size
               u == t.upto
    <3>1. /\ a \in Nat /\ z \in Nat /\ u \in Nat /\ n \in Nat /\ y.size = z
          /\ n = t.count \/ z <= a + n
          /\ u <= a + t.count \/ z <= a + t.count
      BY <1>1, <1>2, <1>3, <2>2 DEF Task
    <3> HIDE DEF a, z, u
    <3>2. u <= a + n \/ z <= a + n
      BY <3>1
    <3> QED BY <3>1, <3>2 DEF a, u
  <2>6. Fetched(y, h)
    BY <1>1, <1>3, <1>6, <2>1, <2>3, <2>4, <2>5, MovedFetched
  <2> QED BY <1>5, <2>6 DEF Reached, h
<1> QED BY <1>7, <1>8

\* The records of an SRU response, none of which is left out.
LEMMA SruFetched ==
  ASSUME NEW t \in Task, NEW x \in ResultSet, Fetched(x, t), NEW k \in Nat, NEW N,
         \A j \in 0 .. k - 1 : t.start + j \in Cached(x) \/ \E e \in N : e.at = t.start + j,
         NEW y \in ResultSet, y.cache = Renewed(x.cache, N), y.live_set = x.live_set, y.size = x.size
  PROVE  Grows(y, x) /\ Fetched(y, SruTask(t, k))
<1> DEFINE h == SruTask(t, k)
           n == t.count
<1>1. /\ h \in Task /\ h.from = t.from /\ h.upto = t.upto /\ h.start = t.start + k
      /\ h.count = n - Least(k, n) /\ n \in Nat /\ t.start \in Nat /\ x.size \in Nat
  BY SruTaskIs DEF SruTask, Task, ResultSet
<1>2. Cached(x) \subseteq Cached(y) /\ \A j \in 0 .. k - 1 : t.start + j \in Cached(y)
  <2>1. Cached(x) \subseteq Cached(y) /\ \A e \in N : e.at \in Cached(y)
    BY RenewedCached
  <2>2. ASSUME NEW j \in 0 .. k - 1 PROVE t.start + j \in Cached(y)
    BY <2>1
  <2> QED BY <2>1, <2>2
<1>3. /\ t.from <= t.start /\ Filled(y, t, t.start)
      /\ t.upto <= t.start + n \/ (y.live_set = 2 /\ y.size <= t.start + n)
  BY <1>2 DEF Fetched, Covers, Filled
<1>4. Grows(y, x)
  BY <1>1, <1>2 DEF Grows
<1> HIDE DEF h, n
<1>5. h.start + h.count >= t.start + n
  <2> DEFINE a == t.start
             c == h.start
             d == h.count
  <2>1. a \in Nat /\ c = a + k /\ d = n - Least(k, n) /\ n \in Nat
    BY <1>1
  <2> HIDE DEF a, c, d
  <2>2. c + d >= a + n
    BY <2>1 DEF Least
  <2> QED BY <2>2 DEF a, c, d
<1>6. Fetched(y, h)
  BY <1>1, <1>2, <1>3, <1>5, MovedFetched
<1> QED BY <1>4, <1>6 DEF h

(***************************************************************************)
(* The tasks that are left                                                 *)
(***************************************************************************)
\* The sets change only in what no retrieval depends on.
SameSets(p, s) ==
  \A r \in ResultSets :
    /\ p.sets[r].cache = s.sets[r].cache /\ p.sets[r].live_set = s.sets[r].live_set
    /\ p.sets[r].size = s.sets[r].size

LEMMA SameKnown ==
  ASSUME NEW h, NEW s, Known(h, s), NEW p, SameSets(p, s)
  PROVE  Known(h, p)
BY DEF Known, SameSets

\* The tasks from the nth on stay as they are.
LEMMA AsksSame ==
  ASSUME NEW s, Typed(s), NEW p, Typed(p), Len(p.tasks) = Len(s.tasks), NEW n \in {1, 2}, Asks(s, n),
         \A i \in n .. Len(s.tasks) : SameRange(p.tasks[i], s.tasks[i]),
         \A i \in n .. Len(s.tasks) :
           LET r == s.tasks[i].resultset IN Grows(p.sets[r], s.sets[r])
  PROVE  Asks(p, n)
<1>1. Len(s.tasks) \in Nat
  BY LenProperties DEF Typed, RsState
<1>2. ASSUME NEW i \in n .. Len(p.tasks) PROVE Asking(p, i)
  <2>1. i \in 1..Len(s.tasks) /\ i \in 1..Len(p.tasks) /\ i \in n .. Len(s.tasks)
    BY <1>1
  <2>2. Asking(s, i) /\ SameRange(p.tasks[i], s.tasks[i])
        /\ Grows(p.sets[s.tasks[i].resultset], s.sets[s.tasks[i].resultset])
    BY <2>1 DEF Asks
  <2> QED BY <2>1, <2>2, AskingSame
<1> QED BY <1>2 DEF Asks

LEMMA TaskAt ==
  ASSUME NEW s, Typed(s), NEW i \in 1..Len(s.tasks)
  PROVE  /\ s.tasks[i] \in Task /\ s.tasks[i].resultset \in ResultSets
         /\ s.sets[s.tasks[i].resultset] \in ResultSet
         /\ SameRange(s.tasks[i], s.tasks[i])
<1>1. s.tasks \in Seq(Task) /\ s.sets \in [ResultSets -> ResultSet]
  BY DEF Typed, RsState
<1>2. s.tasks[i] \in Task
  BY <1>1, ElementOfSeq
<1>3. s.tasks[i].resultset \in ResultSets
  BY <1>2 DEF Task
<1> QED BY <1>1, <1>2, <1>3 DEF SameRange

\* The first task has changed, the others and their sets have not.
LEMMA AsksHeaded ==
  ASSUME NEW s, Typed(s), NEW p, Typed(p), NEW k, Headed(p.tasks, s.tasks, k), SameSets(p, s)
  PROVE  /\ Asks(s, 2) => Asks(p, 2)
         /\ Asks(s, 1) /\ SameRange(k, s.tasks[1]) => Asks(p, 1)
<1>1. /\ Len(p.tasks) = Len(s.tasks) /\ p.tasks[1] = k /\ Len(s.tasks) \in Nat
      /\ \A i \in 1..Len(s.tasks) : i # 1 => p.tasks[i] = s.tasks[i]
  BY LenProperties DEF Headed, Typed, RsState
<1>2. ASSUME NEW i \in 1..Len(s.tasks)
      PROVE  LET r == s.tasks[i].resultset IN Grows(p.sets[r], s.sets[r])
  BY TaskAt, GrowsSame DEF SameSets
<1>3. ASSUME Asks(s, 2) PROVE Asks(p, 2)
  <2>1. ASSUME NEW i \in 2..Len(s.tasks)
        PROVE  /\ SameRange(p.tasks[i], s.tasks[i])
               /\ LET r == s.tasks[i].resultset IN Grows(p.sets[r], s.sets[r])
    <3>1. i \in 1..Len(s.tasks) /\ i # 1
      BY <1>1
    <3> QED BY <1>1, <1>2, <3>1, TaskAt
  <2> QED BY <1>1, <1>3, <2>1, AsksSame
<1>4. ASSUME Asks(s, 1), SameRange(k, s.tasks[1]) PROVE Asks(p, 1)
  <2>1. \A i \in 1..Len(s.tasks) : SameRange(p.tasks[i], s.tasks[i])
    BY <1>1, <1>4, TaskAt
  <2> QED BY <1>1, <1>2, <1>4, <2>1, AsksSame
<1> QED BY <1>3, <1>4

LEMMA AsksAll ==
  ASSUME NEW s, Typed(s), NEW p, Typed(p), p.tasks = s.tasks, SameSets(p, s)
  PROVE  /\ Asks(s, 2) => Asks(p, 2)
         /\ Asks(s, 1) => Asks(p, 1)
<1>1. Len(s.tasks) \in Nat
  BY LenProperties DEF Typed, RsState
<1>2. ASSUME NEW n \in {1, 2}, Asks(s, n) PROVE Asks(p, n)
  <2>1. ASSUME NEW i \in n .. Len(s.tasks)
        PROVE  /\ SameRange(p.tasks[i], s.tasks[i])
               /\ LET r == s.tasks[i].resultset IN Grows(p.sets[r], s.sets[r])
    <3>1. i \in 1..Len(s.tasks)
      BY <1>1
    <3> QED BY <3>1, TaskAt, GrowsSame DEF SameSets
  <2> QED BY <1>2, <2>1, AsksSame
<1> QED BY <1>2

LEMMA AsksNone ==
  ASSUME NEW p, p.tasks = <<>>
  PROVE  Asks(p, 1)
BY EmptySeq DEF Asks

\* No request is outstanding.
LEMMA WiredNone ==
  ASSUME NEW p, p.wire = {}
  PROVE  Wired(p)
BY DEF Wired

\* References are dropped.
LEMMA DropsFetches ==
  ASSUME NEW s, Typed(s), NEW p, Mid(p), NEW t, NEW k \in [ResultSets -> Nat], Drops(p, s, t, k)
  PROVE  /\ \A h : Known(h, s) => Known(h, p)
         /\ \A i \in 1..Len(p.tasks) :
              LET r == p.tasks[i].resultset IN Grows(p.sets[r], s.sets[r])
<1>1. ASSUME NEW r \in ResultSets
      PROVE  /\ p.sets[r].live_set = s.sets[r].live_set /\ p.sets[r].size = s.sets[r].size
             /\ p.sets[r].cache \subseteq s.sets[r].cache
  BY SetsStay
<1>2. \A h : Known(h, s) => Known(h, p)
  BY <1>1 DEF Known
<1>3. ASSUME NEW i \in 1..Len(p.tasks), NEW r, r = p.tasks[i].resultset
      PROVE  Grows(p.sets[r], s.sets[r])
  <2>1. r \in ResultSets /\ p.sets[r].status = "alive" /\ s.sets[r] \in ResultSet
    BY <1>3, QueuedAlive DEF Typed, RsState
  <2>2. p.sets[r].cache = s.sets[r].cache
    BY <2>1, DropsAlive
  <2> QED BY <1>1, <2>1, <2>2, GrowsSame
<1> QED BY <1>2, <1>3

LEMMA RemoveTaskFetches ==
  ASSUME NEW h, NEW s, Mid(s), s.tasks # <<>>, Asks(s, 2), Known(h, s), s.wire = {},
         NEW p, p = RemoveTask(s)
  PROVE  /\ Fetches(h, p)
         /\ LET t == Head(s.tasks)
                x == s.sets[t.resultset]
            IN  Satisfied(x, t) => Satisfied(p.sets[t.resultset], t)
<1> DEFINE t == Head(s.tasks)
           r == t.resultset
           k == Loses(r, 1)
<1>1. Mid(p) /\ k \in [ResultSets -> Nat] /\ Drops(p, s, Tail(s.tasks), k) /\ r \in ResultSets
  BY RemoveTaskMid
<1> HIDE DEF k
<1>2. Typed(s) /\ Typed(p) /\ s.tasks \in Seq(Task)
  BY <1>1 DEF Mid, Typed, RsState
<1>3. p.tasks = Tail(s.tasks) /\ p.wire = {}
  BY <1>1 DEF Drops, Rest
<1>4. /\ Known(h, p)
      /\ \A i \in 1..Len(p.tasks) :
           LET q == p.tasks[i].resultset IN Grows(p.sets[q], s.sets[q])
  BY <1>1, <1>2, DropsFetches
<1>5. /\ Len(s.tasks) \in Nat /\ Len(s.tasks) = Len(p.tasks) + 1 /\ Len(p.tasks) \in Nat
      /\ \A i \in 1..Len(p.tasks) : p.tasks[i] = s.tasks[i + 1]
  <2>1. Tail(s.tasks) \in Seq(Task) /\ Len(Tail(s.tasks)) = Len(s.tasks) - 1 /\ Len(s.tasks) \in Nat
        /\ \A i \in 1..Len(Tail(s.tasks)) : Tail(s.tasks)[i] = s.tasks[i + 1]
    BY <1>2, HeadTailProperties, LenProperties
  <2> QED BY <1>3, <2>1, LenProperties
<1>6. ASSUME NEW i \in 1..Len(p.tasks) PROVE Asking(p, i)
  <2>1. i + 1 \in 2..Len(s.tasks) /\ i + 1 \in 1..Len(s.tasks)
    BY <1>5
  <2>2. Asking(s, i + 1) /\ p.tasks[i] = s.tasks[i + 1]
    BY <1>5, <2>1 DEF Asks
  <2>3. SameRange(p.tasks[i], s.tasks[i + 1])
    BY <1>2, <2>1, <2>2, TaskAt
  <2>4. Grows(p.sets[s.tasks[i + 1].resultset], s.sets[s.tasks[i + 1].resultset])
    BY <1>4, <2>2
  <2> QED BY <1>2, <2>1, <2>2, <2>3, <2>4, AskingSame
<1>7. Fetches(h, p)
  BY <1>3, <1>4, <1>6, WiredNone DEF Fetches, Asks
<1>8. ASSUME Satisfied(s.sets[r], t) PROVE Satisfied(p.sets[r], t)
  <2>1. CASE p.sets[r].status = "alive"
    <3>1. p.sets[r].cache = s.sets[r].cache /\ p.sets[r].size = s.sets[r].size
      BY <1>1, <1>2, <2>1, DropsAlive, SetsStay
    <3>2. s.sets[r].status = "alive"
      <4> DEFINE x == s.sets[r]
                 m == k[r]
      <4>1. p.sets[r] = Dropped(x, m) /\ x \in ResultSet /\ m \in Nat
        BY <1>1, <1>2 DEF Drops, Typed, RsState
      <4> HIDE DEF x, m
      <4>2. Dropped(x, m).status \in {x.status, "freed"}
        BY <4>1, DroppedType
      <4> QED BY <2>1, <4>1, <4>2 DEF x
    <3> QED BY <1>8, <3>1, <3>2 DEF Satisfied, Cached
  <2>2. CASE p.sets[r].status # "alive"
    BY <2>2 DEF Satisfied
  <2> QED BY <2>1, <2>2
<1> QED BY <1>7, <1>8

\* Every task is dropped.
LEMMA RemoveTasksFetches ==
  ASSUME NEW h, NEW s, Mid(s), Known(h, s), s.wire = {}, NEW p, p = RemoveTasks(s)
  PROVE  Fetches(h, p)
<1>1. Mid(p) /\ Loss(s) \in [ResultSets -> Nat] /\ Drops(p, s, <<>>, Loss(s))
  BY RemoveTasksMid
<1>2. Typed(s)
  BY DEF Mid
<1>3. Known(h, p)
  BY <1>1, <1>2, DropsFetches
<1>4. p.tasks = <<>> /\ p.wire = {}
  BY <1>1 DEF Drops, Rest
<1> QED BY <1>3, <1>4, AsksNone, WiredNone DEF Fetches

LEMMA DiagnoseFetches ==
  ASSUME NEW h, NEW u, Mid(u), u.wire = {}, Known(h, u), NEW p, p = Diagnose(u)
  PROVE  Fetches(h, p) /\ p.error = "DIAG"
<1> DEFINE w == Failed(u)
<1>1. Mid(w) /\ w.wire = {} /\ w.sets = u.sets /\ w.error = "DIAG"
  BY FailedIs
<1>2. p = RemoveTasks(w)
  BY DiagnoseBase
<1> HIDE DEF w
<1>3. Known(h, w)
  BY <1>1, SameKnown DEF SameSets
<1>4. Fetches(h, p)
  BY <1>1, <1>2, <1>3, RemoveTasksFetches
<1>5. p.error = w.error
  BY <1>1, <1>2, RemoveTasksMid DEF Drops, Rest
<1> QED BY <1>1, <1>4, <1>5

(***************************************************************************)
(* The steps of a handler                                                  *)
(***************************************************************************)
\* A task that ends without an error is satisfied.
Ends(p, s) ==
  LET t == Head(s.tasks) IN
  /\ Len(p.tasks) = Len(s.tasks) - 1 /\ t.which = "SEARCH"
  /\ p.error = "NONE" /\ p.fault = "NONE"
  => Satisfied(p.sets[t.resultset], t)

LEMMA FinishFetches ==
  ASSUME Steady, NEW h, NEW v, Ready(v), Midway(h, v), NEW p, p = Finish(SearchStep(v))
  PROVE  Fetches(h, p) /\ Ends(p, v)
<1> DEFINE w == SearchStep(v)
           t == Head(v.tasks)
           r == t.resultset
           x == v.sets[r]
           k == Head(w.tasks)
<1>1. /\ Mid(v) /\ Typed(v) /\ v.wire = {} /\ v.tasks # <<>> /\ v.error = "NONE" /\ t.running
      /\ v.tasks \in Seq(Task) /\ t \in Task /\ r \in ResultSets /\ x \in ResultSet
  BY ReadyIs
<1>2. /\ Mid(w) /\ Alike(w, v) /\ w.tasks # <<>>
      /\ t.which = "SORT" => w = v
      /\ t.which = "SEARCH" => Searched(w, v)
      /\ w.wire # {} => p = w
      /\ w.wire = {} => p = RemoveTask(w)
  BY <1>1, FinishIs
<1>3. Asks(v, 2) /\ Known(h, v) /\ (t.which = "SEARCH" => Reached(x, t) /\ (x.live_set = 0 => Resting(t)))
  BY DEF Midway
<1> HIDE DEF w
<1>4. CASE t.which = "SORT"
  <2>1. p = RemoveTask(v)
    BY <1>1, <1>2, <1>4
  <2>2. Fetches(h, p)
    BY <1>1, <1>3, <2>1, RemoveTaskFetches
  <2> QED BY <1>4, <2>2 DEF Ends
<1>5. ASSUME t.which = "SEARCH" PROVE Fetches(h, p) /\ Ends(p, v)
  <2>1. /\ Headed(w.tasks, v.tasks, k) /\ Advanced(k, t, x)
        /\ \/ /\ w.wire = {} /\ w.sets = v.sets
              /\ \/ w.error = "NONE" /\ x.live_set = 2 /\ k.count = 0
                 \/ ~ x.valid /\ (w.error # "NONE" \/ w.fault # "NONE")
           \/ \E q : /\ w.wire = {q} /\ Requested(q, k, x, v) /\ w.error = "NONE"
                     /\ w.sets[r] = [x EXCEPT !.setname = q.name]
                     /\ \A o \in ResultSets : o # r => w.sets[o] = v.sets[o]
    BY <1>2, <1>5 DEF Searched
  <2>2. /\ k \in Task /\ k.which = t.which /\ k.resultset = r /\ k.from = t.from /\ k.upto = t.upto
    BY <2>1 DEF Advanced
  <2>3. x.live_set \in {0, 2} /\ (x.live_set = 0 => x.cache = {})
    BY <1>1, <1>3 DEF Known, ResultSet
  <2>4. Typed(w)
    BY <1>2 DEF Mid
  <2>5. CASE w.wire = {}
    <3>1. p = RemoveTask(w) /\ w.sets = v.sets
      BY <1>2, <2>1, <2>5
    <3>2. SameSets(w, v)
      BY <3>1 DEF SameSets
    <3>3. Asks(w, 2) /\ Known(h, w)
      BY <1>1, <1>3, <2>1, <2>4, <3>2, AsksHeaded, SameKnown
    <3>4. /\ Fetches(h, p)
          /\ Satisfied(w.sets[r], k) => Satisfied(p.sets[r], k)
      BY <1>2, <2>2, <2>5, <3>1, <3>3, RemoveTaskFetches
    <3>5. p.error = w.error /\ p.fault = w.fault
      BY <1>2, <3>1, RemoveTaskMid DEF Drops, Rest
    <3>6. ASSUME p.error = "NONE", p.fault = "NONE" PROVE Satisfied(p.sets[r], t)
      <4>1. x.live_set = 2 /\ k.count = 0
        BY <2>1, <2>5, <3>5, <3>6
      <4>2. Satisfied(x, t)
        BY <1>1, <1>3, <1>5, <2>1, <4>1, AdvancedDone
      <4>3. Satisfied(w.sets[r], k)
        BY <2>2, <3>1, <4>2 DEF Satisfied
      <4> QED BY <2>2, <3>4, <4>3 DEF Satisfied
    <3> QED BY <3>4, <3>6 DEF Ends
  <2>6. ASSUME NEW q, w.wire = {q}, Requested(q, k, x, v),
               w.sets[r] = [x EXCEPT !.setname = q.name],
               \A o \in ResultSets : o # r => w.sets[o] = v.sets[o]
        PROVE  Fetches(h, p) /\ Ends(p, v)
    <3>1. p = w
      BY <1>2, <2>6
    <3>2. /\ w.sets[r].cache = x.cache /\ w.sets[r].live_set = x.live_set
          /\ w.sets[r].size = x.size /\ w.sets[r].sort_spec = x.sort_spec
      BY <1>1, <2>6 DEF ResultSet
    <3>3. SameSets(w, v)
      BY <2>6, <3>2 DEF SameSets
    <3>4. Asks(w, 2) /\ Known(h, w)
      BY <1>1, <1>3, <2>1, <2>4, <3>3, AsksHeaded, SameKnown
    <3>5. x.live_set = 0 \/ k.count > 0
      BY <2>3, <2>6 DEF Requested
    <3>6. Fetched(x, k) /\ Resting(k)
      BY <1>1, <1>3, <1>5, <2>1, <2>3, <3>5, AdvancedOn
    <3>7. Fetched(w.sets[r], k)
      BY <3>2, <3>6 DEF Fetched, Filled, Covers, Cached
    <3>8. Asks(w, 1)
      <4>1. /\ w.tasks[1] = k /\ Len(w.tasks) \in Nat
        BY <2>1, LenProperties DEF Headed
      <4>2. Asking(w, 1)
        BY <2>2, <3>6, <3>7, <4>1 DEF Asking
      <4>3. ASSUME NEW i \in 1..Len(w.tasks) PROVE i = 1 \/ i \in 2..Len(w.tasks)
        BY <4>1
      <4> QED BY <3>4, <4>2, <4>3 DEF Asks
    <3>9. Wired(w)
      <4>1. q.set = r /\ q.count \in Nat
        BY <2>2, <2>6 DEF Requested, Requests
      <4>2. q.kind = "SEARCH" /\ x.sort_spec => q.count = 0
        <5>1. "expert" \notin Liberties
          BY DEF Steady
        <5> QED BY <2>6, <5>1 DEF Requested, PiggybackCount
      <4>3. q.kind = "SRU" /\ x.live_set = 2 => x.size > 0
        <5>1. q.kind = "SRU" /\ x.live_set = 2 => k.count > 0
          BY <2>6 DEF Requested
        <5> QED BY <1>1, <2>1, <5>1, AdvancedIs
      <4> QED BY <2>6, <3>2, <4>1, <4>2, <4>3 DEF Wired
    <3>10. Len(p.tasks) = Len(v.tasks) /\ Len(v.tasks) \in Nat
      BY <1>1, <2>1, <3>1, LenProperties DEF Headed
    <3>11. Ends(p, v)
      BY <3>10 DEF Ends
    <3> QED BY <3>1, <3>4, <3>8, <3>9, <3>11 DEF Fetches
  <2> QED BY <2>1, <2>5, <2>6
<1> QED BY <1>1, <1>4, <1>5 DEF Task

\* A sort is asked for: the first task goes on later.
LEMMA SendSortFetches ==
  ASSUME NEW h, NEW v, Ready(v), Proto = "Z3950", Asks(v, 1), Known(h, v),
         NEW p, p = SendSort(v, Head(v.tasks).resultset)
  PROVE  Fetches(h, p) /\ Ends(p, v)
<1> DEFINE r == Head(v.tasks).resultset
           x == v.sets[r]
<1>1. /\ Typed(v) /\ r \in ResultSets /\ x \in ResultSet /\ v.tasks \in Seq(Task)
  BY ReadyIs
<1>2. Base(p) /\ SortSent(p, v, r)
  BY SendSortIs DEF Ready
<1>3. Typed(p) /\ p.tasks = v.tasks
  BY <1>2 DEF Base, Mid, SortSent
<1>4. SameSets(p, v)
  <2>1. CASE x.setname = NoName
    BY <1>2, <2>1 DEF SortSent, SameSets
  <2>2. CASE x.setname # NoName
    <3>1. p.sets[r] = [x EXCEPT !.sort_spec = FALSE]
          /\ \A o \in ResultSets : o # r => p.sets[o] = v.sets[o]
      BY <1>2, <2>2 DEF SortSent
    <3>2. p.sets[r].cache = x.cache /\ p.sets[r].live_set = x.live_set /\ p.sets[r].size = x.size
      BY <1>1, <3>1 DEF ResultSet
    <3> QED BY <3>1, <3>2 DEF SameSets
  <2> QED BY <2>1, <2>2
<1>5. Asks(p, 1) /\ Known(h, p)
  BY <1>1, <1>3, <1>4, AsksAll, SameKnown
<1>6. Wired(p)
  <2>1. p.wire = {} \/ \E q : p.wire = {q} /\ q.kind = "SORT"
    BY <1>2 DEF SortSent
  <2> QED BY <2>1 DEF Wired
<1>7. Ends(p, v)
  <2>1. Len(v.tasks) \in Nat
    BY <1>1, LenProperties
  <2> QED BY <1>3, <2>1 DEF Ends
<1> QED BY <1>5, <1>6, <1>7 DEF Fetches

\* The first task of v is that of s, some records further on.
Continues(v, s) ==
  LET k == Head(v.tasks)
      t == Head(s.tasks)
  IN  /\ Len(v.tasks) = Len(s.tasks) /\ k.which = t.which /\ k.resultset = t.resultset
      /\ k.from = t.from /\ k.upto = t.upto

LEMMA EndsAfter ==
  ASSUME NEW s, NEW v, Continues(v, s), NEW p, Ends(p, v)
  PROVE  Ends(p, s)
<1> DEFINE k == Head(v.tasks)
           t == Head(s.tasks)
<1>1. /\ Len(v.tasks) = Len(s.tasks) /\ k.which = t.which /\ k.resultset = t.resultset
      /\ k.from = t.from /\ k.upto = t.upto
  BY DEF Continues
<1>2. \A x : Satisfied(x, k) => Satisfied(x, t)
  BY <1>1 DEF Satisfied
<1> QED BY <1>1, <1>2 DEF Ends

\* What is known of the first task.
LEMMA HeadAsking ==
  ASSUME NEW s, Ready(s), Asks(s, 1), NEW t, t = Head(s.tasks)
  PROVE  /\ Asks(s, 2) /\ t \in Task /\ t.resultset \in ResultSets
         /\ s.sets[t.resultset] \in ResultSet
         /\ t.which = "SEARCH" => Fetched(s.sets[t.resultset], t) /\ Resting(t)
<1>1. /\ t \in Task /\ t.resultset \in ResultSets /\ s.sets[t.resultset] \in ResultSet
      /\ s.tasks # <<>> /\ s.tasks \in Seq(Task)
  BY ReadyIs
<1>2. t = s.tasks[1] /\ 1 \in 1..Len(s.tasks) /\ Len(s.tasks) \in Nat
  BY <1>1, HeadIs
<1>3. Asking(s, 1) /\ Asks(s, 2)
  BY <1>2 DEF Asks
<1> QED BY <1>1, <1>2, <1>3 DEF Asking

\* A task that starts or goes on as it was.
LEMMA AskingMidway ==
  ASSUME NEW h, NEW s, Ready(s), Asks(s, 1), Known(h, s)
  PROVE  Midway(h, s)
BY HeadAsking DEF Midway, Reached

LEMMA OthersKnown ==
  ASSUME NEW h, NEW s, Known(h, s), NEW r \in ResultSets, NEW p,
         p.sets[r].live_set = 2, p.sets[r].size \in {0, h[r]},
         \A o \in ResultSets : o # r => p.sets[o] = s.sets[o]
  PROVE  Known(h, p)
<1>1. ASSUME NEW o \in ResultSets
      PROVE  /\ p.sets[o].live_set = 0 => p.sets[o].cache = {}
             /\ p.sets[o].live_set = 2 => p.sets[o].size \in {0, h[o]}
  <2>1. CASE o = r
    BY <2>1
  <2>2. CASE o # r
    BY <2>2 DEF Known
  <2> QED BY <2>1, <2>2
<1> QED BY <1>1 DEF Known

\* The first task gets records.
LEMMA TookMidway ==
  ASSUME NEW h, NEW u, Ready(u), Asks(u, 2), Known(h, u), NEW r \in ResultSets,
         u.sets[r].live_set = 2, NEW v, Ready(v), NEW c, NEW k \in Task, Took(v, u, r, c, k),
         k.resultset = r, SameTask(k, Head(u.tasks)),
         Grows(v.sets[r], u.sets[r]), Reached(v.sets[r], k)
  PROVE  /\ Midway(h, v) /\ Continues(v, u) /\ Head(v.tasks) = k /\ v.tasks[1] = k
         /\ Len(v.tasks) \in Nat
<1>1. Typed(u) /\ Typed(v) /\ u.tasks \in Seq(Task) /\ u.sets[r] \in ResultSet
  BY ReadyIs DEF Typed, RsState
<1>2. /\ v.sets[r] = [u.sets[r] EXCEPT !.cache = c] /\ Headed(v.tasks, u.tasks, k)
      /\ \A o \in ResultSets : o # r => v.sets[o] = u.sets[o]
  BY DEF Took
<1>3. v.sets[r].live_set = 2 /\ v.sets[r].size = u.sets[r].size
  BY <1>1, <1>2 DEF ResultSet
<1>4. /\ Len(v.tasks) = Len(u.tasks) /\ v.tasks[1] = k /\ Head(v.tasks) = k /\ Len(u.tasks) \in Nat
      /\ \A i \in 1..Len(u.tasks) : i # 1 => v.tasks[i] = u.tasks[i]
  BY <1>1, <1>2, LenProperties DEF Headed
<1>5. Asks(v, 2)
  <2>1. ASSUME NEW i \in 2..Len(u.tasks)
        PROVE  /\ SameRange(v.tasks[i], u.tasks[i])
               /\ LET o == u.tasks[i].resultset IN Grows(v.sets[o], u.sets[o])
    <3>1. i \in 1..Len(u.tasks) /\ i # 1
      BY <1>4
    <3> DEFINE o == u.tasks[i].resultset
    <3>2. SameRange(v.tasks[i], u.tasks[i]) /\ o \in ResultSets /\ u.sets[o] \in ResultSet
      BY <1>1, <1>4, <3>1, TaskAt
    <3> HIDE DEF o
    <3>3. Grows(v.sets[o], u.sets[o])
      <4>1. CASE o = r
        BY <4>1
      <4>2. CASE o # r
        BY <1>2, <3>2, <4>2, GrowsSame
      <4> QED BY <4>1, <4>2
    <3> QED BY <3>2, <3>3 DEF o
  <2> QED BY <1>1, <1>4, <2>1, AsksSame
<1>6. Known(h, v)
  <2>1. v.sets[r].size \in {0, h[r]}
    BY <1>3 DEF Known
  <2>2. v.sets[r].live_set = 2 /\ \A o \in ResultSets : o # r => v.sets[o] = u.sets[o]
    BY <1>2, <1>3
  <2> QED BY <2>1, <2>2, OthersKnown
<1>7. Midway(h, v)
  <2>1. v.sets[k.resultset].live_set # 0 /\ Reached(v.sets[k.resultset], k)
    BY <1>3
  <2> QED BY <1>4, <1>5, <1>6, <2>1 DEF Midway
<1>8. Continues(v, u)
  BY <1>4 DEF Continues, SameTask
<1> QED BY <1>4, <1>7, <1>8

\* The size of a set becomes known, and never grows.
LEMMA AnsweredFetches ==
  ASSUME NEW h, NEW s, Ready(s), NEW q \in Requests, Outstanding(s, q), Asks(s, 1), Known(h, s),
         NEW n \in Nat, n \in {0, h[q.set]},
         s.sets[q.set].live_set = 2 => n <= s.sets[q.set].size,
         NEW S, NEW u, Answered(u, s, q, n, S)
  PROVE  /\ Asks(u, 1) /\ Known(h, u) /\ Continues(u, s)
         /\ u.sets[q.set].live_set = 2 /\ u.sets[q.set].size = n
         /\ u.sets[q.set].cache = s.sets[q.set].cache
         /\ u.sets[q.set].sort_spec = s.sets[q.set].sort_spec
<1> DEFINE r == q.set
           x == s.sets[r]
           y == u.sets[r]
<1>1. /\ Typed(s) /\ r \in ResultSets /\ x \in ResultSet
  BY ReadyIs, OutstandingIs DEF Typed, RsState
<1>2. /\ Typed(u) /\ u.tasks = s.tasks /\ y = SizedSet(x, n)
      /\ \A o \in ResultSets : o # r => u.sets[o] = s.sets[o]
  BY DEF Answered, Mid
<1>3. y.live_set = 2 /\ y.size = n /\ y.cache = x.cache /\ y.sort_spec = x.sort_spec
  BY <1>1, <1>2 DEF SizedSet, ResultSet
<1>4. Grows(y, x)
  BY <1>3 DEF Grows, Cached
<1> HIDE DEF r, x, y
<1>5. Asks(u, 1)
  <2>1. ASSUME NEW i \in 1..Len(s.tasks)
        PROVE  /\ SameRange(u.tasks[i], s.tasks[i])
               /\ LET o == s.tasks[i].resultset IN Grows(u.sets[o], s.sets[o])
    <3> DEFINE o == s.tasks[i].resultset
    <3>1. SameRange(u.tasks[i], s.tasks[i]) /\ o \in ResultSets /\ s.sets[o] \in ResultSet
      BY <1>1, <1>2, TaskAt
    <3> HIDE DEF o
    <3>2. Grows(u.sets[o], s.sets[o])
      <4>1. CASE o = r
        BY <1>4, <4>1 DEF x, y
      <4>2. CASE o # r
        BY <1>2, <3>1, <4>2, GrowsSame
      <4> QED BY <4>1, <4>2
    <3> QED BY <3>1, <3>2 DEF o
  <2> QED BY <1>1, <1>2, <2>1, AsksSame
<1>6. Known(h, u)
  <2>1. ASSUME NEW o \in ResultSets
        PROVE  /\ u.sets[o].live_set = 0 => u.sets[o].cache = {}
               /\ u.sets[o].live_set = 2 => u.sets[o].size \in {0, h[o]}
    <3>1. CASE o = r
      BY <1>3, <3>1 DEF y, r
    <3>2. CASE o # r
      BY <1>2, <3>2 DEF Known
    <3> QED BY <3>1, <3>2
  <2> QED BY <2>1 DEF Known
<1>7. Continues(u, s)
  BY <1>2 DEF Continues
<1> QED BY <1>3, <1>5, <1>6, <1>7 DEF r, x, y

\* The records of a search or present response.
LEMMA HandledMidway ==
  ASSUME NEW h, NEW u, Ready(u), Asks(u, 1), Known(h, u), NEW t, t = Head(u.tasks),
         t.which = "SEARCH", u.sets[t.resultset].live_set = 2,
         NEW k \in Nat, NEW b, NEW origin, NEW ph \in BOOLEAN, NEW v, Handled(v, u, k, b, origin, ph)
  PROVE  /\ Midway(h, v) /\ Continues(v, u) /\ Ready(v)
         /\ Head(v.tasks) = HandledTask(t, u.sets[t.resultset], k, ph)
         /\ v.sets[t.resultset].sort_spec = u.sets[t.resultset].sort_spec
         /\ ~ ph /\ k = 0 /\ t.start = t.from => Asks(v, 1)
<1> DEFINE r == t.resultset
           x == u.sets[r]
           y == v.sets[r]
           j == HandledTask(t, x, k, ph)
           c == HandledCache(t, x, k, b, origin, ph)
<1>1. /\ t \in Task /\ r \in ResultSets /\ x \in ResultSet /\ Fetched(x, t) /\ Asks(u, 2)
  BY HeadAsking
<1>2. Ready(v) /\ Took(v, u, r, c, j)
  BY DEF Handled
<1>3. /\ y \in ResultSet /\ y.cache = c /\ y.live_set = 2 /\ y.size = x.size
      /\ y.sort_spec = x.sort_spec
  <2>1. y = [x EXCEPT !.cache = c]
    BY <1>2 DEF Took
  <2>2. y \in ResultSet
    BY <1>1, <1>2 DEF Took, RsState
  <2> HIDE DEF x, y, c
  <2>3. x.live_set = 2
    BY DEF x
  <2> QED BY <1>1, <2>1, <2>2, <2>3 DEF ResultSet
<1>5. /\ j \in Task /\ j.which = t.which /\ j.resultset = r /\ j.from = t.from /\ j.upto = t.upto
      /\ j.start = (IF ph /\ k = 0 THEN t.start ELSE t.start + k)
  BY <1>1, HandledTaskIs
<1>6. Grows(y, x) /\ Reached(y, j)
  BY <1>1, <1>3, HandledFetched
<1>7. /\ Midway(h, v) /\ Continues(v, u) /\ Head(v.tasks) = j /\ v.tasks[1] = j /\ Len(v.tasks) \in Nat
  <2>1. SameTask(j, Head(u.tasks))
    BY <1>1, HandledTaskSame
  <2> HIDE DEF j, c
  <2> QED BY <1>1, <1>2, <1>5, <1>6, <2>1, TookMidway
<1>8. ASSUME ~ ph, k = 0, t.start = t.from PROVE Asks(v, 1)
  <2>1. Fetched(y, j)
    BY <1>1, <1>3, <1>8, HandledFetched
  <2>2. Resting(j)
    <3>1. t.start + k = t.start
      BY <1>1, <1>8 DEF Task
    <3> QED BY <1>5, <1>8, <3>1 DEF Resting
  <2> HIDE DEF j
  <2>3. Asking(v, 1)
    BY <1>5, <1>7, <2>1, <2>2 DEF Asking
  <2>4. Asks(v, 2)
    BY <1>7 DEF Midway
  <2>5. ASSUME NEW i \in 1..Len(v.tasks) PROVE i = 1 \/ i \in 2..Len(v.tasks)
    BY <1>7
  <2> QED BY <2>3, <2>4, <2>5 DEF Asks
<1> QED BY <1>2, <1>3, <1>7, <1>8

(***************************************************************************)
(* The responses                                                           *)
(***************************************************************************)
LEMMA SearchAnsweredFetches ==
  ASSUME Steady, HitsTyped, NEW s, Ready(s), NEW q \in Requests, Outstanding(s, q), q.kind = "SEARCH",
         Asks(s, 1), Known(hits, s), NEW k \in Nat, s.sets[q.set].sort_spec => k = 0,
         NEW p, SearchAnswered(p, s, q, k)
  PROVE  Fetches(hits, p) /\ Ends(p, s)
<1> DEFINE r == q.set
           t == Head(s.tasks)
<1>1. PICK b, u, v :
        /\ Answered(u, s, q, hits[q.set], {b}) /\ Ready(u)
        /\ Handled(v, u, k, b, 0, FALSE) /\ p = SortPresent(v)
  BY DEF SearchAnswered
<1>2. /\ Proto = "Z3950" /\ t.which = "SEARCH" /\ r = t.resultset /\ r \in ResultSets
      /\ s.sets[r].live_set = 0 /\ hits[r] \in Nat
  <2>1. Proto = "Z3950" /\ t.which = "SEARCH"
    BY AskerIs
  <2>2. r = t.resultset /\ r \in ResultSets
    BY OutstandingIs
  <2> QED BY <2>1, <2>2 DEF Outstanding, HitsTyped
<1>3. t.start = t.from
  <2>1. t \in Task /\ Fetched(s.sets[r], t)
    BY <1>2, HeadAsking
  <2>2. Cached(s.sets[r]) = {}
    BY <1>2 DEF Known, Cached
  <2>3. t.from <= t.start /\ \A i \in t.from .. t.start - 1 : FALSE
    BY <2>1, <2>2 DEF Fetched, Filled
  <2>4. t.from \in Nat /\ t.start \in Nat
    BY <2>1 DEF Task
  <2> QED BY <2>3, <2>4
<1>4. /\ Asks(u, 1) /\ Known(hits, u) /\ Continues(u, s) /\ u.sets[r].live_set = 2
      /\ u.sets[r].sort_spec = s.sets[r].sort_spec
  BY <1>1, <1>2, AnsweredFetches
<1>5. Head(u.tasks) = t
  BY <1>1 DEF Answered
<1>6. /\ Midway(hits, v) /\ Continues(v, u) /\ Ready(v)
      /\ v.sets[r].sort_spec = u.sets[r].sort_spec
      /\ k = 0 => Asks(v, 1)
  <2>1. PICK ph \in BOOLEAN : ~ ph /\ Handled(v, u, k, b, 0, ph)
    BY <1>1
  <2>2. /\ u.sets[t.resultset].live_set = 2 /\ Head(u.tasks) = t /\ t.which = "SEARCH"
    BY <1>2, <1>4, <1>5
  <2>3. /\ Midway(hits, v) /\ Continues(v, u) /\ Ready(v)
        /\ v.sets[t.resultset].sort_spec = u.sets[t.resultset].sort_spec
        /\ ~ ph /\ k = 0 /\ t.start = t.from => Asks(v, 1)
    <3> HIDE DEF t
    <3> QED BY <1>1, <1>4, <2>1, <2>2, HandledMidway
  <2> QED BY <1>2, <1>3, <2>1, <2>3
<1>7. Head(v.tasks).resultset = r
  BY <1>2, <1>5, <1>6 DEF Continues
<1>8. Fetches(hits, p) /\ Ends(p, v)
  <2>1. CASE v.sets[r].sort_spec
    <3>1. Asks(v, 1)
      <4>1. k = 0
        BY <1>4, <1>6, <2>1
      <4> QED BY <1>6, <4>1
    <3>2. p = SendSort(v, Head(v.tasks).resultset)
      BY <1>1, <1>7, <2>1 DEF SortPresent
    <3>3. Known(hits, v)
      BY <1>6 DEF Midway
    <3> QED BY <1>2, <1>6, <3>1, <3>2, <3>3, SendSortFetches
  <2>2. CASE ~ v.sets[r].sort_spec
    <3>1. p = Finish(SearchStep(v))
      BY <1>1, <1>7, <2>2 DEF SortPresent
    <3> QED BY <1>6, <3>1, FinishFetches
  <2> QED BY <2>1, <2>2
<1>9. Ends(p, s)
  BY <1>4, <1>6, <1>8, EndsAfter
<1> QED BY <1>8, <1>9

LEMMA SearchRefusedFetches ==
  ASSUME NEW h, NEW s, Ready(s), NEW q \in Requests, Outstanding(s, q), Asks(s, 1), Known(h, s),
         NEW p, SearchRefused(p, s, q)
  PROVE  Fetches(h, p) /\ p.error = "DIAG"
<1>1. PICK u : Answered(u, s, q, 0, {}) /\ p = Diagnose(u)
  BY DEF SearchRefused
<1>2. Known(h, u)
  <2>1. s.sets[q.set].size \in Nat
    BY ReadyIs, OutstandingIs DEF RsState, ResultSet
  <2> QED BY <1>1, <2>1, AnsweredFetches
<1>3. Mid(u) /\ u.wire = {}
  BY <1>1, ReadyIs DEF Answered
<1> QED BY <1>1, <1>2, <1>3, DiagnoseFetches

LEMMA PresentAnsweredFetches ==
  ASSUME Steady, NEW h, NEW s, Ready(s), NEW q \in Requests, Outstanding(s, q), q.kind = "PRESENT",
         Asks(s, 1), Known(h, s), NEW k \in Nat, NEW p, PresentAnswered(p, s, q, k)
  PROVE  Fetches(h, p) /\ Ends(p, s)
<1> DEFINE t == Head(s.tasks)
<1>1. PICK b, v : Handled(v, s, k, b, q.start, TRUE) /\ p = Finish(SearchStep(v))
  BY DEF PresentAnswered
<1>2. t.which = "SEARCH" /\ q.set = t.resultset /\ s.sets[t.resultset].live_set = 2
  BY AskerIs DEF Outstanding
<1>3. Midway(h, v) /\ Continues(v, s) /\ Ready(v)
  BY <1>1, <1>2, HandledMidway
<1>4. Fetches(h, p) /\ Ends(p, v)
  BY <1>1, <1>3, FinishFetches
<1> QED BY <1>3, <1>4, EndsAfter

LEMMA SortAnsweredFetches ==
  ASSUME Steady, NEW h, NEW s, Ready(s), NEW q \in Requests, Asks(s, 1), Known(h, s),
         NEW p, SortAnswered(p, s, q)
  PROVE  Fetches(h, p) /\ Ends(p, s)
<1>1. PICK b, u : Reordered(u, s, q, b) /\ p = Finish(SearchStep(u))
  BY DEF SortAnswered
<1>2. Ready(u) /\ u.tasks = s.tasks /\ u.sets = s.sets
  BY <1>1 DEF Reordered
<1>3. Typed(u) /\ Typed(s) /\ SameSets(u, s)
  BY <1>2, ReadyIs DEF SameSets
<1>4. Asks(u, 1) /\ Known(h, u)
  BY <1>2, <1>3, AsksAll, SameKnown
<1>5. Midway(h, u) /\ Continues(u, s)
  BY <1>2, <1>4, AskingMidway DEF Continues
<1>6. Fetches(h, p) /\ Ends(p, u)
  BY <1>1, <1>2, <1>5, FinishFetches
<1> QED BY <1>5, <1>6, EndsAfter

LEMMA SruAnsweredFetches ==
  ASSUME Steady, HitsTyped, NEW s, Ready(s), NEW q \in Requests, Outstanding(s, q), q.kind = "SRU",
         Asks(s, 1), Known(hits, s), s.sets[q.set].live_set = 2 => s.sets[q.set].size > 0,
         NEW k \in Nat, NEW p, SruAnswered(p, s, q, k)
  PROVE  Fetches(hits, p) /\ Ends(p, s)
<1> DEFINE r == q.set
           t == Head(s.tasks)
<1>1. PICK n, N, u, v :
        /\ n \in {0, hits[q.set]}
        /\ Answered(u, s, q, n, s.server[q.name]) /\ Ready(u) /\ PageOf(u, q, k, N)
        /\ TookSru(v, u, N, k) /\ p = Finish(SearchStep(v))
  BY DEF SruAnswered
<1>2. /\ t.which = "SEARCH" /\ r = t.resultset /\ r \in ResultSets /\ hits[r] \in Nat
      /\ s.sets[r] \in ResultSet
  <2>1. t.which = "SEARCH"
    BY AskerIs
  <2>2. r = t.resultset /\ r \in ResultSets
    BY OutstandingIs
  <2> QED BY <2>1, <2>2, ReadyIs DEF HitsTyped
<1>3. n \in Nat /\ (s.sets[r].live_set = 2 => n <= s.sets[r].size)
  <2> DEFINE z == s.sets[r].size
             m == hits[r]
  <2>1. s.sets[r].live_set = 2 => z > 0 /\ z \in {0, m}
    BY <1>2 DEF Known
  <2>2. m \in Nat /\ n \in {0, m} /\ z \in Nat
    BY <1>1, <1>2 DEF ResultSet
  <2> HIDE DEF z, m
  <2>3. n \in Nat /\ (s.sets[r].live_set = 2 => n <= z)
    BY <2>1, <2>2
  <2> QED BY <2>3 DEF z
<1>4. /\ Asks(u, 1) /\ Known(hits, u) /\ Continues(u, s) /\ u.sets[r].live_set = 2
  BY <1>1, <1>2, <1>3, AnsweredFetches
<1>5. Head(u.tasks) = t
  BY <1>1 DEF Answered
<1> DEFINE x == u.sets[r]
           y == v.sets[r]
           c == Renewed(x.cache, N)
           j == SruTask(t, k)
<1>6. Ready(v) /\ Took(v, u, r, c, j)
  BY <1>1, <1>2, <1>5 DEF TookSru
<1>7. x \in ResultSet /\ Fetched(x, t) /\ Asks(u, 2) /\ t \in Task
  BY <1>1, <1>2, <1>4, <1>5, HeadAsking
<1>8. y \in ResultSet /\ y.cache = c /\ y.live_set = x.live_set /\ y.size = x.size
  <2>1. y = [x EXCEPT !.cache = c]
    BY <1>6 DEF Took
  <2>2. y \in ResultSet
    BY <1>2, <1>6 DEF Took, RsState
  <2> HIDE DEF x, y, c
  <2> QED BY <1>7, <2>1, <2>2 DEF ResultSet
<1>a. \A i \in 0 .. k - 1 : t.start + i \in Cached(x) \/ \E e \in N : e.at = t.start + i
  <2>1. PICK page \in Pages(q, k) : N = SruRecords(u.sets[q.set], Head(u.tasks), q, page)
    BY <1>1 DEF PageOf
  <2>2. q.start = t.start
    BY DEF Outstanding
  <2>3. N = SruRecords(x, t, q, page)
    BY <1>5, <2>1
  <2>4. "gaps" \notin Liberties
    BY DEF Steady
  <2> HIDE DEF t, x
  <2> QED BY <1>2, <1>7, <2>2, <2>3, <2>4, SruRecordsAre
<1>9. Grows(y, x) /\ Fetched(y, j)
  <2> HIDE DEF t, x, y
  <2> QED BY <1>7, <1>8, <1>a, SruFetched
<1>10. j \in Task /\ j.resultset = r /\ SameTask(j, Head(u.tasks))
  <2> HIDE DEF t
  <2>1. SameTask(j, t) /\ j \in Task /\ j.resultset = t.resultset
    BY <1>7, SruTaskIs DEF SameTask
  <2> HIDE DEF j
  <2> QED BY <1>2, <1>5, <2>1
<1>11. Midway(hits, v) /\ Continues(v, u)
  <2>1. Grows(v.sets[r], u.sets[r]) /\ Reached(v.sets[r], j)
    BY <1>9 DEF Reached
  <2> HIDE DEF j, c, t, x, y
  <2> QED BY <1>1, <1>2, <1>4, <1>6, <1>7, <1>10, <2>1, TookMidway
<1>12. Fetches(hits, p) /\ Ends(p, v)
  BY <1>1, <1>6, <1>11, FinishFetches
<1> QED BY <1>4, <1>11, <1>12, EndsAfter

LEMMA SruRefusedFetches ==
  ASSUME NEW h, NEW s, Ready(s), NEW q \in Requests, Outstanding(s, q), Asks(s, 1), Known(h, s),
         NEW p, SruRefused(p, s, q)
  PROVE  Fetches(h, p) /\ p.error = "DIAG"
<1>1. PICK u : Answered(u, s, q, 0, s.server[q.name]) /\ p = RemoveTask(Failed(u))
  BY DEF SruRefused
<1>2. Asks(u, 1) /\ Known(h, u)
  <2>1. s.sets[q.set].size \in Nat
    BY ReadyIs, OutstandingIs DEF RsState, ResultSet
  <2> QED BY <1>1, <2>1, AnsweredFetches
<1> DEFINE w == Failed(u)
<1>3. Mid(u) /\ u.tasks = s.tasks /\ u.wire = {} /\ s.tasks # <<>> /\ Typed(u)
  BY <1>1, ReadyIs DEF Answered, Mid
<1>4. /\ Mid(w) /\ w.tasks = u.tasks /\ w.wire = {} /\ w.sets = u.sets /\ w.error = "DIAG"
  BY <1>3, FailedIs
<1> HIDE DEF w
<1>5. Asks(w, 1) /\ Known(h, w)
  <2>1. SameSets(w, u) /\ Typed(w)
    BY <1>4 DEF SameSets, Mid
  <2> QED BY <1>2, <1>3, <1>4, <2>1, AsksAll, SameKnown
<1>6. Asks(w, 2)
  <2>1. Len(w.tasks) \in Nat
    BY <1>4, LenProperties DEF Mid, Typed, RsState
  <2> QED BY <1>5, <2>1 DEF Asks
<1>7. p = RemoveTask(w)
  BY <1>1 DEF w
<1>8. p.error = w.error
  BY <1>3, <1>4, <1>7, RemoveTaskMid DEF Drops, Rest
<1>9. Fetches(h, p)
  BY <1>3, <1>4, <1>5, <1>6, <1>7, RemoveTaskFetches
<1> QED BY <1>4, <1>8, <1>9

(***************************************************************************)
(* The event loop and the application                                      *)
(***************************************************************************)
LEMMA RespondFetches ==
  ASSUME Steady, Base(zs), HitsTyped, Fetches(hits, zs), Respond
  PROVE  Fetches(hits, zs') /\ Ends(zs', zs)
<1>1. PICK q, k, ok :
        /\ q \in zs.wire
        /\ Ready(Heard(zs)) /\ q \in Requests /\ Outstanding(Heard(zs), q)
        /\ Given(Heard(zs), q, k, ok) /\ Answer(zs', Heard(zs), q, k, ok)
  BY RespondIs
<1> DEFINE s == Heard(zs)
<1>2. /\ Ready(s) /\ q \in Requests /\ Outstanding(s, q) /\ Answer(zs', s, q, k, ok)
      /\ k \in Nat /\ ok \in BOOLEAN /\ (ok => k \in Replies(q))
  BY <1>1 DEF Given
<1>3. s.tasks = zs.tasks /\ s.sets = zs.sets
  BY <1>1, HeardIs
<1> HIDE DEF s
<1>4. Asks(s, 1) /\ Known(hits, s)
  BY <1>3 DEF Fetches, Asks, Asking, Known
<1>5. /\ q.kind = "SEARCH" /\ s.sets[q.set].sort_spec => q.count = 0
      /\ q.kind = "SRU" /\ s.sets[q.set].live_set = 2 => s.sets[q.set].size > 0
  BY <1>1, <1>3 DEF Fetches, Wired
<1>6. Ends(zs', s) \/ zs'.error = "DIAG" => Ends(zs', zs)
  BY <1>3 DEF Ends
<1>7. CASE q.kind = "SEARCH"
  <2>1. CASE ok
    <3>1. s.sets[q.set].sort_spec => k = 0
      <4>1. k \in 0 .. Least(q.count, hits[q.set])
        BY <1>2, <1>7, <2>1 DEF Replies
      <4>2. hits[q.set] \in Nat
        BY <1>2, OutstandingIs DEF HitsTyped
      <4> QED BY <1>2, <1>5, <1>7, <4>1, <4>2 DEF Least
    <3>2. SearchAnswered(zs', s, q, k)
      BY <1>2, <1>7, <2>1 DEF Answer
    <3> QED BY <1>2, <1>4, <1>6, <1>7, <3>1, <3>2, SearchAnsweredFetches
  <2>2. CASE ~ ok
    <3>1. SearchRefused(zs', s, q)
      BY <1>2, <1>7, <2>2 DEF Answer
    <3> QED BY <1>2, <1>4, <1>6, <3>1, SearchRefusedFetches
  <2> QED BY <2>1, <2>2
<1>8. CASE q.kind \in {"PRESENT", "SORT"} /\ ~ ok
  <2>1. zs' = Diagnose(s)
    BY <1>2, <1>8 DEF Answer
  <2>2. Mid(s) /\ s.wire = {}
    BY <1>2 DEF Ready
  <2> QED BY <1>4, <1>6, <2>1, <2>2, DiagnoseFetches
<1>9. CASE q.kind = "PRESENT" /\ ok
  <2>1. PresentAnswered(zs', s, q, k)
    BY <1>2, <1>9 DEF Answer
  <2> QED BY <1>2, <1>4, <1>6, <1>9, <2>1, PresentAnsweredFetches
<1>10. CASE q.kind = "SORT" /\ ok
  <2>1. SortAnswered(zs', s, q)
    BY <1>2, <1>10 DEF Answer
  <2> QED BY <1>2, <1>4, <1>6, <2>1, SortAnsweredFetches
<1>11. CASE q.kind = "SRU"
  <2>1. CASE ok
    <3>1. SruAnswered(zs', s, q, k)
      BY <1>2, <1>11, <2>1 DEF Answer
    <3> QED BY <1>2, <1>4, <1>5, <1>6, <1>11, <3>1, SruAnsweredFetches
  <2>2. CASE ~ ok
    <3>1. SruRefused(zs', s, q)
      BY <1>2, <1>11, <2>2 DEF Answer
    <3> QED BY <1>2, <1>4, <1>6, <3>1, SruRefusedFetches
  <2> QED BY <2>1, <2>2
<1>12. q.kind \in {"SEARCH", "PRESENT", "SORT", "SRU"}
  BY <1>2 DEF Requests
<1> QED BY <1>7, <1>8, <1>9, <1>10, <1>11, <1>12

\* The first task is started or put back.
LEMMA RunningFetches ==
  ASSUME NEW h, NEW s, Mid(s), s.tasks # <<>>, Asks(s, 1), Known(h, s), NEW running \in BOOLEAN,
         NEW u, Mid(u), u.sets = s.sets,
         Headed(u.tasks, s.tasks, [Head(s.tasks) EXCEPT !.running = running])
  PROVE  Asks(u, 1) /\ Known(h, u) /\ Continues(u, s)
<1> DEFINE t == Head(s.tasks)
           k == [t EXCEPT !.running = running]
<1>1. Typed(s) /\ Typed(u) /\ s.tasks \in Seq(Task)
  BY DEF Mid, Typed, RsState
<1>2. t \in Task /\ t = s.tasks[1]
  BY <1>1, HeadIs
<1>3. SameRange(k, t)
  <2> HIDE DEF t
  <2> QED BY <1>2 DEF Task, SameRange
<1>4. Headed(u.tasks, s.tasks, k) /\ SameSets(u, s)
  BY DEF SameSets
<1> HIDE DEF k
<1>5. Asks(u, 1) /\ Known(h, u)
  BY <1>1, <1>2, <1>3, <1>4, AsksHeaded, SameKnown
<1>6. Continues(u, s)
  BY <1>3, <1>4 DEF Headed, SameRange, Continues
<1> QED BY <1>5, <1>6

LEMMA ExecFetches ==
  ASSUME Steady, Base(zs), Fetches(hits, zs), Exec
  PROVE  /\ Fetches(hits, zs')
         /\ zs.error = "NONE" /\ zs.up => Ends(zs', zs)
<1>1. Executed(zs', zs) /\ zs.wire = {} /\ zs.tasks # <<>>
  BY ExecIs
<1>2. Mid(zs) /\ Asks(zs, 1) /\ Known(hits, zs)
  BY DEF Base, Fetches
<1>3. CASE (zs.error # "NONE" \/ ~ zs.up) /\ zs' = RemoveTasks(zs)
  BY <1>1, <1>2, <1>3, RemoveTasksFetches
<1>4. ASSUME NEW u, Running(u, zs, TRUE), Ready(u),
             \/ /\ Head(zs.tasks).which = "SORT" /\ Proto = "Z3950"
                /\ zs' = SendSort(u, Head(zs.tasks).resultset)
             \/ Head(zs.tasks).which = "SEARCH" /\ zs' = Finish(SearchStep(u))
      PROVE  Fetches(hits, zs') /\ Ends(zs', zs)
  <2>1. Asks(u, 1) /\ Known(hits, u) /\ Continues(u, zs)
    <3>1. /\ Mid(u) /\ u.sets = zs.sets
          /\ Headed(u.tasks, zs.tasks, [Head(zs.tasks) EXCEPT !.running = TRUE])
      BY <1>4 DEF Running
    <3>2. TRUE \in BOOLEAN
      OBVIOUS
    <3> QED BY <1>1, <1>2, <3>1, <3>2, RunningFetches
  <2>2. Fetches(hits, zs') /\ Ends(zs', u)
    <3>1. CASE Proto = "Z3950" /\ zs' = SendSort(u, Head(zs.tasks).resultset)
      <4>1. Head(u.tasks).resultset = Head(zs.tasks).resultset
        BY <2>1 DEF Continues
      <4> QED BY <1>4, <2>1, <3>1, <4>1, SendSortFetches
    <3>2. CASE zs' = Finish(SearchStep(u))
      <4>1. Midway(hits, u)
        BY <1>4, <2>1, AskingMidway
      <4> QED BY <1>4, <3>2, <4>1, FinishFetches
    <3> QED BY <1>4, <3>1, <3>2
  <2> QED BY <2>1, <2>2, EndsAfter
<1> QED BY <1>1, <1>3, <1>4 DEF Executed

\* No task has ended.
LEMMA NoneEnds ==
  ASSUME NEW s, Typed(s), NEW p, Len(p.tasks) >= Len(s.tasks)
  PROVE  Ends(p, s)
<1>1. Len(s.tasks) \in Nat
  BY LenProperties DEF Typed, RsState
<1> QED BY <1>1 DEF Ends

LEMMA LoseFetches ==
  ASSUME Base(zs), Fetches(hits, zs), Lose
  PROVE  Fetches(hits, zs') /\ Ends(zs', zs)
<1>1. Lost(zs', zs) /\ zs.tasks # <<>>
  BY LoseIs
<1>2. /\ Mid(zs) /\ Typed(zs) /\ Asks(zs, 1) /\ Known(hits, zs)
      /\ Mid(zs') /\ Typed(zs') /\ zs'.sets = zs.sets /\ zs'.wire = {}
  BY <1>1 DEF Base, Mid, Fetches, Lost
<1>3. Asks(zs', 1) /\ Known(hits, zs') /\ Len(zs'.tasks) = Len(zs.tasks)
  <2>1. CASE zs'.tasks = zs.tasks
    BY <1>2, <2>1, AsksAll, SameKnown DEF SameSets
  <2>2. CASE Headed(zs'.tasks, zs.tasks, [Head(zs.tasks) EXCEPT !.running = FALSE])
    <3>1. FALSE \in BOOLEAN
      OBVIOUS
    <3>2. Asks(zs', 1) /\ Known(hits, zs') /\ Continues(zs', zs)
      BY <1>1, <1>2, <2>2, <3>1, RunningFetches
    <3> QED BY <3>2 DEF Continues
  <2> QED BY <1>1, <2>1, <2>2 DEF Lost
<1>4. Ends(zs', zs)
  <2>1. Len(zs.tasks) \in Nat
    BY <1>2, LenProperties DEF Typed, RsState
  <2> QED BY <1>2, <1>3, <2>1, NoneEnds
<1> QED BY <1>2, <1>3, <1>4, WiredNone DEF Fetches

\* The queue and what is outstanding stay, and so do the sets that tasks use.
LEMMA KeptFetches ==
  ASSUME NEW h, NEW s, Typed(s), Fetches(h, s), NEW p, Mid(p), p.tasks = s.tasks, p.wire = s.wire,
         \A o \in ResultSets :
           /\ p.sets[o].live_set = s.sets[o].live_set /\ p.sets[o].size = s.sets[o].size
           /\ p.sets[o].sort_spec = s.sets[o].sort_spec
           /\ p.sets[o].cache \subseteq s.sets[o].cache
           /\ p.sets[o].status = "alive" => p.sets[o].cache = s.sets[o].cache
  PROVE  Fetches(h, p)
<1>1. Typed(p) /\ Len(p.tasks) = Len(s.tasks)
  BY DEF Mid
<1>2. ASSUME NEW i \in 1..Len(s.tasks)
      PROVE  /\ SameRange(p.tasks[i], s.tasks[i])
             /\ LET r == s.tasks[i].resultset IN Grows(p.sets[r], s.sets[r])
  <2> DEFINE r == s.tasks[i].resultset
  <2>1. r \in ResultSets /\ s.sets[r] \in ResultSet /\ SameRange(s.tasks[i], s.tasks[i])
    BY TaskAt
  <2> HIDE DEF r
  <2>2. p.sets[r].status = "alive"
    BY QueuedAlive DEF r
  <2>3. Grows(p.sets[r], s.sets[r])
    BY <2>1, <2>2, GrowsSame
  <2> QED BY <2>1, <2>3 DEF r
<1>3. Asks(p, 1)
  BY <1>1, <1>2, AsksSame DEF Fetches
<1>4. Known(h, p)
  BY DEF Fetches, Known
<1>5. Wired(p)
  <2>1. \A q \in s.wire : q.set \in ResultSets
    BY DEF Typed, RsState, Requests
  <2> QED BY <2>1 DEF Fetches, Wired
<1> QED BY <1>3, <1>4, <1>5 DEF Fetches

LEMMA PreparedFetches ==
  ASSUME NEW h, NEW s, Base(s), Fetches(h, s), NEW p, Prepared(p, s)
  PROVE  Fetches(h, p)
<1>1. Typed(s) /\ Mid(p) /\ p.tasks = s.tasks /\ p.wire = s.wire /\ p.sets = s.sets
  BY DEF Base, Mid, Prepared
<1> QED BY <1>1, KeptFetches

\* A new task has fetched nothing and asks for everything.
LEMMA NewAsks ==
  ASSUME NEW r, NEW start \in Nat, NEW count \in Nat, NEW t, t = NewTask("SEARCH", r, start, count),
         NEW x
  PROVE  Fetched(x, t) /\ Resting(t)
<1>1. t.from = start /\ t.start = start /\ t.count = count /\ t.upto = start + count
  BY DEF NewTask
<1>2. Filled(x, t, t.start)
  BY <1>1 DEF Filled
<1>3. Covers(x, t) /\ t.from <= t.start
  BY <1>1 DEF Covers
<1> QED BY <1>1, <1>2, <1>3 DEF Fetched, Resting

LEMMA QueuedFetches ==
  ASSUME NEW h, NEW s, Base(s), Fetches(h, s), NEW t \in Task, NEW p, Queued(p, s, t),
         t.which = "SEARCH" => \A x : Fetched(x, t) /\ Resting(t)
  PROVE  Fetches(h, p) /\ Ends(p, s)
<1> DEFINE r == t.resultset
<1>1. /\ Typed(s) /\ Typed(p) /\ s.tasks \in Seq(Task) /\ r \in ResultSets
      /\ s.sets[r] \in ResultSet /\ p.wire = s.wire /\ p.tasks = Append(s.tasks, t)
      /\ p.sets[r] = [s.sets[r] EXCEPT !.refcount = s.sets[r].refcount + 1]
      /\ \A o \in ResultSets : o # r => p.sets[o] = s.sets[o]
  BY DEF Queued, Base, Mid, Typed, RsState, Task
<1>2. /\ Len(p.tasks) = Len(s.tasks) + 1 /\ Len(s.tasks) \in Nat
      /\ \A i \in 1..Len(s.tasks) : p.tasks[i] = s.tasks[i]
      /\ p.tasks[Len(s.tasks) + 1] = t
  <2>1. /\ Append(s.tasks, t) \in Seq(Task) /\ Len(Append(s.tasks, t)) = Len(s.tasks) + 1
        /\ \A i \in 1..Len(s.tasks) : Append(s.tasks, t)[i] = s.tasks[i]
        /\ Append(s.tasks, t)[Len(s.tasks) + 1] = t
    BY <1>1, AppendProperties
  <2> QED BY <1>1, <2>1, LenProperties
<1>3. \A o \in ResultSets : /\ p.sets[o].cache = s.sets[o].cache
                            /\ p.sets[o].live_set = s.sets[o].live_set
                            /\ p.sets[o].size = s.sets[o].size
                            /\ p.sets[o].sort_spec = s.sets[o].sort_spec
  <2>1. /\ p.sets[r].cache = s.sets[r].cache /\ p.sets[r].live_set = s.sets[r].live_set
        /\ p.sets[r].size = s.sets[r].size /\ p.sets[r].sort_spec = s.sets[r].sort_spec
    BY <1>1 DEF ResultSet
  <2> QED BY <1>1, <2>1
<1>4. ASSUME NEW i \in 1..Len(s.tasks) PROVE Asking(p, i)
  <2>1. i \in 1..Len(p.tasks)
    BY <1>2
  <2>2. Asking(s, i) /\ SameRange(p.tasks[i], s.tasks[i])
    BY <1>1, <1>2, TaskAt DEF Fetches, Asks
  <2>3. Grows(p.sets[s.tasks[i].resultset], s.sets[s.tasks[i].resultset])
    BY <1>1, <1>3, TaskAt, GrowsSame
  <2> QED BY <1>1, <2>1, <2>2, <2>3, AskingSame
<1>5. Asking(p, Len(s.tasks) + 1)
  BY <1>2 DEF Asking
<1>6. Asks(p, 1)
  <2>1. \A i \in 1..Len(p.tasks) : i \in 1..Len(s.tasks) \/ i = Len(s.tasks) + 1
    BY <1>2
  <2> QED BY <1>4, <1>5, <2>1 DEF Asks
<1>7. Known(h, p)
  BY <1>3, SameKnown DEF Fetches, SameSets
<1>8. Wired(p)
  <2>1. \A q \in s.wire : q.set \in ResultSets
    BY <1>1 DEF Typed, RsState, Requests
  <2> QED BY <1>1, <1>3, <2>1 DEF Fetches, Wired
<1>9. Ends(p, s)
  <2>1. Len(p.tasks) >= Len(s.tasks)
    BY <1>2
  <2> QED BY <1>1, <2>1, NoneEnds
<1> QED BY <1>6, <1>7, <1>8, <1>9 DEF Fetches

LEMMA CreatedFetches ==
  ASSUME NEW h, NEW s, Base(s), Fetches(h, s), NEW r \in ResultSets, s.sets[r].status = "new",
         NEW x, x.live_set = 0, x.cache = {}, NEW u, Created(u, s, r, x)
  PROVE  Fetches(h, u)
<1>1. /\ Mid(s) /\ Typed(s) /\ Typed(u) /\ u.tasks = s.tasks /\ u.wire = s.wire /\ u.sets[r] = x
      /\ \A o \in ResultSets : o # r => u.sets[o] = s.sets[o]
  BY DEF Base, Mid, Created
<1>2. ASSUME NEW i \in 1..Len(s.tasks)
      PROVE  /\ SameRange(u.tasks[i], s.tasks[i]) /\ s.tasks[i].resultset # r
             /\ LET o == s.tasks[i].resultset IN Grows(u.sets[o], s.sets[o])
  <2> DEFINE o == s.tasks[i].resultset
  <2>1. o \in ResultSets /\ s.sets[o] \in ResultSet /\ SameRange(s.tasks[i], s.tasks[i])
    BY <1>1, TaskAt
  <2> HIDE DEF o
  <2>2. s.sets[o].status = "alive"
    BY <1>1, QueuedAlive DEF o
  <2>3. o # r /\ u.sets[o] = s.sets[o]
    BY <1>1, <2>1, <2>2
  <2>4. Grows(u.sets[o], s.sets[o])
    BY <2>1, <2>3, GrowsSame
  <2> QED BY <1>1, <2>1, <2>3, <2>4 DEF o
<1>3. Asks(u, 1)
  BY <1>1, <1>2, AsksSame DEF Fetches
<1>4. Known(h, u)
  <2>1. ASSUME NEW o \in ResultSets
        PROVE  /\ u.sets[o].live_set = 0 => u.sets[o].cache = {}
               /\ u.sets[o].live_set = 2 => u.sets[o].size \in {0, h[o]}
    <3>1. CASE o = r
      BY <1>1, <3>1
    <3>2. CASE o # r
      BY <1>1, <3>2 DEF Fetches, Known
    <3> QED BY <3>1, <3>2
  <2> QED BY <2>1 DEF Known
<1>5. ASSUME NEW q \in s.wire PROVE u.sets[q.set] = s.sets[q.set]
  <2>1. s.tasks # <<>> /\ q.set = Head(s.tasks).resultset /\ s.tasks \in Seq(Task)
    BY <1>1 DEF Base, Outstanding, Typed, RsState
  <2>2. 1 \in 1..Len(s.tasks) /\ Head(s.tasks) = s.tasks[1]
    BY <2>1, HeadIs
  <2>3. q.set \in ResultSets /\ q.set # r
    BY <1>1, <1>2, <2>1, <2>2, TaskAt
  <2> QED BY <1>1, <2>3
<1>6. Wired(u)
  BY <1>1, <1>5 DEF Fetches, Wired
<1> QED BY <1>3, <1>4, <1>6 DEF Fetches

LEMMA EmptiedFetches ==
  ASSUME NEW h, NEW s, Base(s), Fetches(h, s), Proto = "Z3950", NEW r \in ResultSets,
         \A i \in SearchesOn(s, r) : s.tasks[i].count = 0, NEW u, Emptied(u, s, r)
  PROVE  Fetches(h, u)
<1>1. /\ Typed(s) /\ Typed(u) /\ u.tasks = s.tasks /\ u.wire = s.wire /\ s.sets[r] \in ResultSet
      /\ u.sets[r] = [s.sets[r] EXCEPT !.cache = {}] /\ s.tasks \in Seq(Task)
      /\ \A o \in ResultSets : o # r => u.sets[o] = s.sets[o]
  BY DEF Base, Mid, Emptied, Typed, RsState
<1>2. /\ u.sets[r].cache = {} /\ u.sets[r].live_set = s.sets[r].live_set
      /\ u.sets[r].size = s.sets[r].size /\ u.sets[r].sort_spec = s.sets[r].sort_spec
  BY <1>1 DEF ResultSet
<1>3. ASSUME NEW i \in 1..Len(s.tasks) PROVE Asking(u, i)
  <2> DEFINE t == s.tasks[i]
             o == t.resultset
  <2>1. t \in Task /\ o \in ResultSets /\ s.sets[o] \in ResultSet /\ SameRange(t, t) /\ u.tasks[i] = t
    BY <1>1, TaskAt
  <2>2. Asking(s, i)
    BY DEF Fetches, Asks
  <2>3. CASE o = r /\ t.which = "SEARCH"
    <3>1. t.count = 0
      <4>1. DOMAIN s.tasks = 1..Len(s.tasks)
        BY <1>1, LenProperties
      <4> QED BY <2>3, <4>1 DEF SearchesOn, TasksOn
    <3>2. Fetched(s.sets[r], t) /\ Resting(t)
      BY <2>2, <2>3 DEF Asking
    <3> HIDE DEF t
    <3>3. t.start = t.from /\ t.start \in Nat
      BY <2>1, <3>1, <3>2 DEF Resting, Task
    <3>4. Filled(u.sets[r], t, t.start)
      BY <3>3 DEF Filled
    <3>5. Covers(u.sets[r], t) /\ t.from <= t.start
      BY <1>2, <3>2 DEF Fetched, Covers
    <3>6. Fetched(u.sets[r], t)
      BY <3>4, <3>5 DEF Fetched
    <3> QED BY <2>1, <2>3, <3>2, <3>6 DEF Asking
  <2>4. CASE o # r
    <3>1. Grows(u.sets[o], s.sets[o])
      BY <1>1, <2>1, <2>4, GrowsSame
    <3> QED BY <1>1, <2>1, <2>2, <3>1, AskingSame
  <2>5. CASE t.which # "SEARCH"
    BY <2>1, <2>5 DEF Asking
  <2> QED BY <2>3, <2>4, <2>5
<1>4. Asks(u, 1)
  BY <1>1, <1>3 DEF Asks
<1>5. Known(h, u)
  <2>1. ASSUME NEW o \in ResultSets
        PROVE  /\ u.sets[o].live_set = 0 => u.sets[o].cache = {}
               /\ u.sets[o].live_set = 2 => u.sets[o].size \in {0, h[o]}
    <3>1. CASE o = r
      BY <1>2, <3>1 DEF Fetches, Known
    <3>2. CASE o # r
      BY <1>1, <3>2 DEF Fetches, Known
    <3> QED BY <3>1, <3>2
  <2> QED BY <2>1 DEF Known
<1>6. Wired(u)
  <2>1. ASSUME NEW o \in ResultSets
        PROVE  u.sets[o].live_set = s.sets[o].live_set /\ u.sets[o].size = s.sets[o].size
               /\ u.sets[o].sort_spec = s.sets[o].sort_spec
    BY <1>1, <1>2
  <2>2. \A q \in s.wire : q.set \in ResultSets
    BY <1>1 DEF Typed, RsState, Requests
  <2> QED BY <1>1, <2>1, <2>2 DEF Fetches, Wired
<1> QED BY <1>4, <1>5, <1>6 DEF Fetches

LEMMA SearchFetches ==
  ASSUME Base(zs), Fetches(hits, zs), NEW r \in ResultSets, NEW start \in Starts,
         NEW count \in Counts, NEW step \in Steps, NEW piggyback \in Piggybacks,
         NEW sort \in BOOLEAN, NEW valid \in BOOLEAN,
         Search(r, start, count, step, piggyback, sort, valid)
  PROVE  Fetches(hits, zs') /\ Ends(zs', zs)
<1> DEFINE t == NewTask("SEARCH", r, start, count)
<1>1. PICK x, u, v :
        /\ x.live_set = 0 /\ x.cache = {} /\ Created(u, zs, r, x) /\ Prepared(v, u)
        /\ t \in Task /\ Queued(zs', v, t) /\ zs.sets[r].status = "new"
  BY SearchIs
<1>2. start \in Nat /\ count \in Nat
  BY RsAssumption
<1>3. \A y : Fetched(y, t) /\ Resting(t)
  BY <1>2, NewAsks
<1> HIDE DEF t
<1>4. Base(u) /\ Base(v) /\ u.tasks = zs.tasks /\ v.tasks = u.tasks
  BY <1>1 DEF Created, Prepared
<1>5. Fetches(hits, u)
  BY <1>1, CreatedFetches
<1>6. Fetches(hits, v)
  BY <1>1, <1>4, <1>5, PreparedFetches
<1>7. Fetches(hits, zs') /\ Ends(zs', v)
  BY <1>1, <1>3, <1>4, <1>6, QueuedFetches
<1> QED BY <1>4, <1>7 DEF Ends

LEMMA RetrieveFetches ==
  ASSUME Base(zs), Fetches(hits, zs), NEW r \in ResultSets, NEW start \in Starts,
         NEW count \in Counts, Retrieve(r, start, count)
  PROVE  Fetches(hits, zs') /\ Ends(zs', zs)
<1> DEFINE t == NewTask("SEARCH", r, start, count)
<1>1. PICK v : Prepared(v, zs) /\ t \in Task /\ Queued(zs', v, t)
  BY RetrieveIs
<1>2. start \in Nat /\ count \in Nat
  BY RsAssumption
<1>3. \A y : Fetched(y, t) /\ Resting(t)
  BY <1>2, NewAsks
<1> HIDE DEF t
<1>4. Base(v) /\ v.tasks = zs.tasks
  BY <1>1 DEF Prepared
<1>5. Fetches(hits, v)
  BY <1>1, PreparedFetches
<1>6. Fetches(hits, zs') /\ Ends(zs', v)
  BY <1>1, <1>3, <1>4, <1>5, QueuedFetches
<1> QED BY <1>4, <1>6 DEF Ends

LEMMA SortFetches ==
  ASSUME Steady, Base(zs), Fetches(hits, zs), NEW r \in ResultSets, Sort(r)
  PROVE  Fetches(hits, zs') /\ Ends(zs', zs)
<1> DEFINE t == NewTask("SORT", r, 0, 0)
<1>1. Proto = "Z3950" /\ \A i \in SearchesOn(zs, r) : zs.tasks[i].count = 0
  BY SortIs DEF Steady
<1>2. CASE zs' = Fault(zs, "RELEASED")
  <2>1. "RELEASED" \in Faults
    BY DEF Faults
  <2>2. Base(zs')
    BY <1>2, <2>1, FaultBase
  <2>3. Mid(zs') /\ Typed(zs) /\ zs \in RsState
    BY <2>2 DEF Base, Mid, Typed
  <2>4. zs'.tasks = zs.tasks /\ zs'.wire = zs.wire /\ zs'.sets = zs.sets
    BY <1>2, <2>1, <2>3, FaultIs DEF Still
  <2>5. Fetches(hits, zs')
    BY <2>3, <2>4, KeptFetches
  <2>6. Len(zs.tasks) \in Nat
    BY <2>3, LenProperties DEF Typed, RsState
  <2> QED BY <2>3, <2>4, <2>5, <2>6, NoneEnds
<1>3. ASSUME NEW u, Emptied(u, zs, r), t \in Task, Queued(zs', u, t)
      PROVE  Fetches(hits, zs') /\ Ends(zs', zs)
  <2>1. t.which # "SEARCH"
    BY DEF NewTask
  <2> HIDE DEF t
  <2>2. Base(u) /\ u.tasks = zs.tasks
    BY <1>3 DEF Emptied
  <2>3. Fetches(hits, u)
    BY <1>1, <1>3, EmptiedFetches
  <2>4. Fetches(hits, zs') /\ Ends(zs', u)
    BY <1>3, <2>1, <2>2, <2>3, QueuedFetches
  <2> QED BY <2>2, <2>4 DEF Ends
<1> QED BY <1>2, <1>3, SortIs

\* The application gives up a set, or a connection.
LEMMA DestroyFetches ==
  ASSUME Base(zs), Fetches(hits, zs), NEW r \in ResultSets, Destroy(r) \/ Release(r)
  PROVE  Fetches(hits, zs') /\ Ends(zs', zs)
<1>1. /\ Base(zs') /\ zs'.tasks = zs.tasks /\ zs'.wire = zs.wire
      /\ \A o \in ResultSets :
           /\ zs'.sets[o].live_set = zs.sets[o].live_set /\ zs'.sets[o].size = zs.sets[o].size
           /\ zs'.sets[o].sort_spec = zs.sets[o].sort_spec
           /\ zs'.sets[o].cache \subseteq zs.sets[o].cache
           /\ zs'.sets[o].status = "alive" => zs'.sets[o].cache = zs.sets[o].cache
  <2>1. CASE Destroy(r)
    BY <2>1, DestroyIs DEF SetsKept
  <2>2. CASE Release(r)
    BY <2>2, ReleaseIs
  <2> QED BY <2>1, <2>2
<1>2. Typed(zs) /\ Mid(zs')
  BY <1>1 DEF Base, Mid
<1>3. Fetches(hits, zs')
  BY <1>1, <1>2, KeptFetches
<1>4. Len(zs.tasks) \in Nat
  BY <1>2, LenProperties DEF Typed, RsState
<1> QED BY <1>1, <1>2, <1>3, <1>4, NoneEnds

LEMMA DisconnectFetches ==
  ASSUME Base(zs), Fetches(hits, zs), Disconnect
  PROVE  Fetches(hits, zs') /\ zs'.open = FALSE
<1>1. SetsKept(zs', zs) /\ zs'.tasks = <<>> /\ zs'.wire = {} /\ zs'.open = FALSE
  BY DisconnectIs
<1>2. Known(hits, zs')
  BY <1>1 DEF Fetches, Known, SetsKept
<1> QED BY <1>1, <1>2, AsksNone, WiredNone DEF Fetches

LEMMA ConnectFetches ==
  ASSUME Base(zs), Fetches(hits, zs), Connect
  PROVE  Fetches(hits, zs') /\ Ends(zs', zs)
<1>1. /\ Base(zs') /\ zs'.sets = zs.sets /\ zs'.tasks = <<>> /\ zs.tasks = <<>>
      /\ zs'.wire = zs.wire
  BY ConnectIs
<1>2. Typed(zs) /\ Mid(zs')
  BY <1>1 DEF Base, Mid
<1>3. Fetches(hits, zs')
  BY <1>1, <1>2, KeptFetches
<1>4. Len(zs.tasks) \in Nat
  BY <1>2, LenProperties DEF Typed, RsState
<1> QED BY <1>1, <1>2, <1>3, <1>4, NoneEnds

(***************************************************************************)
(* The retrievals of every reachable state                                 *)
(***************************************************************************)
LEMMA FetchesInit ==
  ASSUME Init
  PROVE  Fetches(hits, zs)
<1>1. zs.tasks = <<>> /\ zs.wire = {} /\ \A r \in ResultSets : zs.sets[r] = Fresh
  BY InitIs
<1>2. Known(hits, zs)
  BY <1>1, FreshIs DEF Known
<1> QED BY <1>1, <1>2, AsksNone, WiredNone DEF Fetches

LEMMA FetchesStep ==
  ASSUME Steady, RsInv, Fetches(hits, zs), Next
  PROVE  /\ Fetches(hits, zs')
         /\ zs.error = "NONE" /\ zs.up /\ zs'.open => Ends(zs', zs)
<1>1. Base(zs) /\ HitsTyped
  BY DEF RsInv
<1>2. ASSUME NEW r \in ResultSets, NEW start \in Starts, NEW count \in Counts,
             NEW step \in Steps, NEW piggyback \in Piggybacks, NEW sort \in BOOLEAN,
             NEW valid \in BOOLEAN, Search(r, start, count, step, piggyback, sort, valid)
      PROVE  Fetches(hits, zs') /\ Ends(zs', zs)
  BY <1>1, <1>2, SearchFetches
<1>3. ASSUME NEW r \in ResultSets, NEW start \in Starts, NEW count \in Counts,
             Retrieve(r, start, count)
      PROVE  Fetches(hits, zs') /\ Ends(zs', zs)
  BY <1>1, <1>3, RetrieveFetches
<1>4. ASSUME NEW r \in ResultSets, Sort(r) PROVE Fetches(hits, zs') /\ Ends(zs', zs)
  BY <1>1, <1>4, SortFetches
<1>5. ASSUME NEW r \in ResultSets, Destroy(r) \/ Release(r)
      PROVE  Fetches(hits, zs') /\ Ends(zs', zs)
  BY <1>1, <1>5, DestroyFetches
<1>6. CASE Disconnect
  BY <1>1, <1>6, DisconnectFetches
<1>7. CASE Connect
  BY <1>1, <1>7, ConnectFetches
<1>8. CASE Exec
  BY <1>1, <1>8, ExecFetches
<1>9. CASE Respond
  BY <1>1, <1>9, RespondFetches
<1>10. CASE Lose
  BY <1>1, <1>10, LoseFetches
<1> QED BY <1>2, <1>3, <1>4, <1>5, <1>6, <1>7, <1>8, <1>9, <1>10 DEF Next

(* A retrieval that ends without an error has cached every record of the   *)
(* range it was asked for, below the known size of the set, up to a        *)
(* surrogate diagnostic that tells why it stopped                          *)
(* (src/src/zoom-z3950.c:1416 handle_Z3950_records,                        *)
(* src/src/zoom-sru.c:334-387): over piggybacked records, steps of any     *)
(* size, lost sessions, pages with right, low or no record positions, and  *)
(* retrievals of other ranges and sets.  The application does not sort a   *)
(* set of which a queued retrieval wants records, and leaves the limits on *)
(* piggybacked records alone; and the SRU server leaves no record out.     *)
(* Without that last condition it fails: the code moves on by the number   *)
(* of records received wherever their positions put them.                  *)
THEOREM FetchedOrToldHolds ==
  ASSUME Steady
  PROVE  Spec => FetchedOrTold
<1>1. Init => Fetches(hits, zs)
  BY FetchesInit
<1>2. RsInv /\ Fetches(hits, zs) /\ [Next]_vars => Fetches(hits, zs)'
  <2>1. ASSUME RsInv, Fetches(hits, zs), Next PROVE Fetches(hits, zs)'
    <3>1. hits' = hits
      BY <2>1 DEF Next, Search, Retrieve, Sort, Destroy, Release, Disconnect, Connect, Call,
                  Exec, Respond, Lose
    <3>2. Fetches(hits, zs')
      BY <2>1, FetchesStep
    <3> QED BY <3>1, <3>2
  <2>2. ASSUME Fetches(hits, zs), UNCHANGED vars PROVE Fetches(hits, zs)'
    BY <2>2 DEF vars
  <2> QED BY <2>1, <2>2
<1>3. RsInv /\ Fetches(hits, zs) /\ [Next]_vars => [EndsFetched]_vars
  <2>1. ASSUME RsInv, Fetches(hits, zs), Next PROVE EndsFetched
    <3>1. zs.error = "NONE" /\ zs.up /\ zs'.open => Ends(zs', zs)
      BY <2>1, FetchesStep
    <3> QED BY <3>1 DEF EndsFetched, Ends, Satisfied
  <2> QED BY <2>1
<1> QED BY <1>1, <1>2, <1>3, ResultSetInvariant, PTL DEF Spec, FetchedOrTold
=============================================================================
