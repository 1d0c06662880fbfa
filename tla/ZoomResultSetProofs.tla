------------------------ MODULE ZoomResultSetProofs -------------------------
(***************************************************************************)
(* Proofs about ZoomResultSet: a result set lives exactly as long as it is *)
(* referred to, no assert fails and nothing that is gone is used.          *)
(*                                                                         *)
(* The handlers work on the record zs in several steps, so every part of   *)
(* the invariants is a predicate on such a record, and there is one lemma  *)
(* for each of the operators that the handlers are made of.                *)
(***************************************************************************)
EXTENDS ZoomResultSet, ProofBasics, FiniteSetTheorems

Faults == {"NONE", "ASSERT", "FREED", "RELEASED", "NAME", "QUERY"}

RsState ==
  [tasks : Seq(Task), resultsets : SUBSET ResultSets, open : BOOLEAN, up : BOOLEAN,
   reconnect_ok : BOOLEAN, error : {"NONE", "DIAG", "CONNECTION_LOST"},
   wire : SUBSET Requests, odd : BOOLEAN, fault : Faults,
   sets : [ResultSets -> ResultSet], server : [Names -> SUBSET ServerSet]]

AtMostOne(S) == \A x, y \in S : x = y

Typed(s) ==
  s \in RsState /\ AtMostOne(s.wire) /\ \A n \in Names : AtMostOne(s.server[n])

(***************************************************************************)
(* The tasks that use a result set                                         *)
(***************************************************************************)
On(t, r) == {i \in DOMAIN t : t[i].resultset = r}
Users(t, r) == Cardinality(On(t, r))

\* Finitely many tasks use a set; none does if their number is 0.
LEMMA UsersType ==
  ASSUME NEW t \in Seq(Task), NEW r
  PROVE  /\ IsFiniteSet(On(t, r)) /\ Users(t, r) \in Nat
         /\ Users(t, r) = 0 <=> On(t, r) = {}
         /\ Users(<<>>, r) = 0
<1>1. DOMAIN t = 1..Len(t) /\ Len(t) \in Nat
  BY LenProperties
<1>2. On(t, r) \in SUBSET (1..Len(t))
  BY <1>1 DEF On
<1>3. IsFiniteSet(1..Len(t))
  BY <1>1, FS_Interval
<1>4. IsFiniteSet(On(t, r))
  BY <1>2, <1>3, FS_Subset
<1>5. On(<<>>, r) = {}
  BY DEF On
<1> QED BY <1>4, <1>5, FS_CardinalityType, FS_EmptySet DEF Users

\* Two queues whose tasks use the same sets in the same order.
LEMMA UsersSame ==
  ASSUME NEW t \in Seq(Task), NEW u \in Seq(Task), Len(t) = Len(u),
         \A i \in 1..Len(t) : t[i].resultset = u[i].resultset
  PROVE  \A r : On(t, r) = On(u, r) /\ Users(t, r) = Users(u, r)
<1>1. DOMAIN t = 1..Len(t) /\ DOMAIN u = 1..Len(u)
  BY LenProperties
<1>2. \A r : On(t, r) = On(u, r)
  BY <1>1 DEF On
<1> QED BY <1>2 DEF Users

\* A task that is added uses its set.
LEMMA UsersAppend ==
  ASSUME NEW t \in Seq(Task), NEW k \in Task, NEW r
  PROVE  Users(Append(t, k), r) = IF k.resultset = r THEN Users(t, r) + 1 ELSE Users(t, r)
<1> DEFINE u == Append(t, k)
           n == Len(t)
<1>1. /\ n \in Nat /\ DOMAIN t = 1..n
  BY LenProperties
<1>2. /\ DOMAIN u = 1..(n + 1) /\ u[n + 1] = k /\ \A i \in 1..n : u[i] = t[i]
  <2>1. u \in Seq(Task) /\ Len(u) = n + 1 /\ \A i \in 1..n : u[i] = t[i]
    BY AppendProperties
  <2>2. u[n + 1] = k
    BY AppendProperties
  <2> QED BY <2>1, <2>2, LenProperties
<1> HIDE DEF u, n
<1>3. \A i : i \in 1..(n + 1) <=> i \in 1..n \/ i = n + 1
  BY <1>1
<1>4. n + 1 \notin 1..n
  BY <1>1
<1>5. On(u, r) = IF k.resultset = r THEN On(t, r) \cup {n + 1} ELSE On(t, r)
  BY <1>1, <1>2, <1>3, <1>4 DEF On
<1>6. n + 1 \notin On(t, r)
  BY <1>1, <1>4 DEF On
<1>7. IsFiniteSet(On(t, r))
  BY UsersType
<1> QED BY <1>5, <1>6, <1>7, FS_AddElement DEF Users, u

\* A task that is removed has used its set.
LEMMA UsersTail ==
  ASSUME NEW t \in Seq(Task), t # <<>>, NEW r
  PROVE  Users(t, r) = IF Head(t).resultset = r THEN Users(Tail(t), r) + 1 ELSE Users(Tail(t), r)
<1> DEFINE u == Tail(t)
           n == Len(u)
           S == On(u, r)
           T == {i + 1 : i \in S}
           f == [i \in S |-> i + 1]
<1>1. u \in Seq(Task)
  BY HeadTailProperties
<1>2. n \in Nat /\ DOMAIN u = 1..n /\ Len(t) = n + 1 /\ DOMAIN t = 1..(n + 1)
  <2>1. Len(u) = Len(t) - 1 /\ Len(t) \in Nat
    BY HeadTailProperties, LenProperties
  <2>2. n \in Nat /\ DOMAIN u = 1..n /\ DOMAIN t = 1..Len(t)
    BY <1>1, LenProperties
  <2> QED BY <2>1, <2>2
<1>3. t[1] = Head(t) /\ \A i \in 1..n : u[i] = t[i + 1]
  BY HeadTailProperties
<1> HIDE DEF u, n
<1>4. /\ 1 \in 1..(n + 1) /\ \A j \in 1..n : j + 1 \in 1..(n + 1)
      /\ \A i \in 1..(n + 1) : i = 1 \/ (i - 1 \in 1..n /\ i = (i - 1) + 1)
  BY <1>2
<1>5. \A j \in 1..n : j + 1 # 1
  BY <1>2
<1>6. On(t, r) = IF Head(t).resultset = r THEN T \cup {1} ELSE T
  <2>1. \A i \in T : i \in 1..(n + 1) /\ i # 1 /\ t[i].resultset = r
    BY <1>2, <1>3, <1>4, <1>5 DEF On
  <2>2. \A i \in On(t, r) : i \in T \/ (i = 1 /\ Head(t).resultset = r)
    <3>1. SUFFICES ASSUME NEW i \in 1..(n + 1), t[i].resultset = r, i # 1 PROVE i \in T
      BY <1>2, <1>3 DEF On
    <3>2. i - 1 \in 1..n /\ i = (i - 1) + 1
      BY <1>4, <3>1
    <3>3. i - 1 \in S
      BY <1>2, <1>3, <3>1, <3>2 DEF On
    <3> QED BY <3>2, <3>3
  <2>3. T \subseteq On(t, r)
    BY <1>2, <2>1 DEF On
  <2>4. 1 \in On(t, r) <=> Head(t).resultset = r
    BY <1>2, <1>3, <1>4 DEF On
  <2> HIDE DEF T
  <2> QED BY <2>1, <2>2, <2>3, <2>4
<1>7. 1 \notin T
  BY <1>2, <1>5 DEF On
<1>8. IsFiniteSet(S)
  BY <1>1, UsersType
<1>9. f \in Bijection(S, T)
  <2>1. f \in [S -> T] /\ \A i \in S : f[i] = i + 1 /\ i \in Nat
    BY <1>2 DEF On
  <2>2. \A x \in T : \E i \in S : f[i] = x
    OBVIOUS
  <2> HIDE DEF f, S, T
  <2>3. \A i, j \in Nat : i + 1 = j + 1 => i = j
    OBVIOUS
  <2>4. \A i, j \in S : f[i] = f[j] => i = j
    BY <2>1, <2>3
  <2> QED BY <2>1, <2>2, <2>4 DEF Bijection, Injection, Surjection, IsInjective
<1>10. IsFiniteSet(T) /\ Cardinality(T) = Cardinality(S)
  <2>1. ExistsBijection(S, T)
    BY <1>9 DEF ExistsBijection
  <2> QED BY <1>8, <2>1, FS_Bijection
<1>11. Cardinality(T \cup {1}) = Cardinality(S) + 1
  BY <1>7, <1>10, FS_AddElement
<1> HIDE DEF S, T, f
<1>12. Users(Tail(t), r) = Cardinality(S)
  BY DEF Users, S, u
<1> QED BY <1>6, <1>10, <1>11, <1>12 DEF Users

(***************************************************************************)
(* References                                                              *)
(***************************************************************************)
Held(x) == IF x.handle THEN 1 ELSE 0

Living(x) == x.status = "alive" <=> x.refcount > 0

Linked(s) == \A r \in ResultSets : r \in s.resultsets <=> s.sets[r].connection

\* Every reference is a task's or the application's.
Refs(s) ==
  /\ \A r \in ResultSets : /\ s.sets[r].refcount = Users(s.tasks, r) + Held(s.sets[r])
                           /\ Living(s.sets[r])
  /\ Linked(s)

\* A set that loses n references, and is freed with the last.
Dropped(x, n) ==
  IF n = 0 THEN x
  ELSE IF x.refcount > n THEN [x EXCEPT !.refcount = @ - n]
  ELSE [x EXCEPT !.status = "freed", !.refcount = 0, !.connection = FALSE, !.cache = {}]

Rest(p, s) ==
  /\ p.open = s.open /\ p.up = s.up /\ p.reconnect_ok = s.reconnect_ok
  /\ p.error = s.error /\ p.wire = s.wire /\ p.odd = s.odd /\ p.server = s.server

\* p is s with the tasks t, after every set r has lost k[r] references.
Drops(p, s, t, k) ==
  /\ Rest(p, s) /\ p.tasks = t /\ p.fault = s.fault
  /\ \A r \in ResultSets : p.sets[r] = Dropped(s.sets[r], k[r])
  /\ p.resultsets = {r \in s.resultsets : k[r] = 0 \/ s.sets[r].refcount > k[r]}

Loses(r, n) == [q \in ResultSets |-> IF q = r THEN n ELSE 0]

LEMMA DroppedType ==
  ASSUME NEW x \in ResultSet, NEW n \in Nat
  PROVE  /\ Dropped(x, n) \in ResultSet
         /\ Dropped(x, n).handle = x.handle /\ Dropped(x, n).setname = x.setname
         /\ Dropped(x, n).size = x.size /\ Dropped(x, n).live_set = x.live_set
         /\ Dropped(x, n).sort_spec = x.sort_spec /\ Dropped(x, n).valid = x.valid
         /\ n <= x.refcount => Dropped(x, n).refcount = x.refcount - n
         /\ n = 0 \/ x.refcount > n =>
              /\ Dropped(x, n).connection = x.connection /\ Dropped(x, n).cache = x.cache
              /\ Dropped(x, n).status = x.status
         /\ ~(n = 0 \/ x.refcount > n) =>
              /\ Dropped(x, n).connection = FALSE /\ Dropped(x, n).cache = {}
              /\ Dropped(x, n).status = "freed"
<1>1. CASE n = 0
  BY <1>1 DEF Dropped, ResultSet
<1>2. CASE n # 0 /\ x.refcount > n
  <2>1. x.refcount - n \in Nat
    BY <1>2 DEF ResultSet
  <2>2. Dropped(x, n) = [x EXCEPT !.refcount = x.refcount - n]
    BY <1>2 DEF Dropped, ResultSet
  <2> QED BY <1>2, <2>1, <2>2 DEF ResultSet
<1>3. CASE n # 0 /\ ~(x.refcount > n)
  <2>1. Dropped(x, n) = [x EXCEPT !.status = "freed", !.refcount = 0, !.connection = FALSE,
                                  !.cache = {}]
    BY <1>3 DEF Dropped
  <2>2. n <= x.refcount => 0 = x.refcount - n
    BY <1>3 DEF ResultSet
  <2>3. /\ Dropped(x, n) \in ResultSet
        /\ Dropped(x, n).handle = x.handle /\ Dropped(x, n).setname = x.setname
        /\ Dropped(x, n).size = x.size /\ Dropped(x, n).live_set = x.live_set
        /\ Dropped(x, n).sort_spec = x.sort_spec /\ Dropped(x, n).valid = x.valid
        /\ Dropped(x, n).refcount = 0 /\ Dropped(x, n).connection = FALSE
        /\ Dropped(x, n).cache = {} /\ Dropped(x, n).status = "freed"
    <3> DEFINE y == Dropped(x, n)
    <3> HIDE DEF y
    <3>1. y = [x EXCEPT !.status = "freed", !.refcount = 0, !.connection = FALSE, !.cache = {}]
      BY <2>1 DEF y
    <3>2. y \in ResultSet
      BY <3>1 DEF ResultSet
    <3>3. /\ y.handle = x.handle /\ y.setname = x.setname /\ y.size = x.size
          /\ y.live_set = x.live_set /\ y.sort_spec = x.sort_spec /\ y.valid = x.valid
          /\ y.refcount = 0 /\ y.connection = FALSE /\ y.cache = {} /\ y.status = "freed"
      BY <3>1 DEF ResultSet
    <3> QED BY <3>2, <3>3 DEF y
  <2> QED BY <1>3, <2>2, <2>3
<1> QED BY <1>1, <1>2, <1>3

LEMMA UnrefIs ==
  ASSUME NEW s, Typed(s), Linked(s), NEW r \in ResultSets, NEW n \in Nat,
         NEW p, p = Unref(s, r, n)
  PROVE  p \in RsState /\ Drops(p, s, s.tasks, Loses(r, n))
<1> DEFINE x == s.sets[r]
           y == Dropped(x, n)
<1>1. s \in RsState /\ x \in ResultSet /\ \A q \in ResultSets : s.sets[q] \in ResultSet
  BY DEF Typed, RsState
<1>2. y \in ResultSet
  BY <1>1, DroppedType
<1>3. CASE n = 0
  <2>1. p = s
    BY <1>3 DEF Unref
  <2> QED BY <1>1, <1>3, <2>1 DEF Drops, Rest, Loses, Dropped, RsState
<1>4. CASE n # 0 /\ x.refcount > n
  <2>1. y = [x EXCEPT !.refcount = @ - n]
    BY <1>4 DEF Dropped
  <2>2. p = [s EXCEPT !.sets[r] = y]
    BY <1>1, <1>4, <2>1 DEF Unref, RsState
  <2> HIDE DEF y
  <2>3. p \in RsState
    BY <1>1, <1>2, <2>2 DEF RsState
  <2>4. /\ Rest(p, s) /\ p.tasks = s.tasks /\ p.fault = s.fault /\ p.resultsets = s.resultsets
        /\ p.sets[r] = y /\ \A q \in ResultSets : q # r => p.sets[q] = s.sets[q]
    BY <1>1, <2>2 DEF RsState, Rest
  <2> QED BY <1>1, <1>4, <2>3, <2>4 DEF Drops, Loses, Dropped, RsState, y
<1>5. CASE n # 0 /\ ~(x.refcount > n)
  <2>1. y = [x EXCEPT !.status = "freed", !.refcount = 0, !.connection = FALSE, !.cache = {}]
    BY <1>5 DEF Dropped
  <2>2. p = [s EXCEPT !.sets[r] = y, !.resultsets = s.resultsets \ {r}]
    BY <1>1, <1>5, <2>1 DEF Unref, RsState, Linked
  <2> HIDE DEF y
  <2>3. p \in RsState
    <3> DEFINE f == [s.sets EXCEPT ![r] = y]
               g == s.resultsets \ {r}
    <3>1. f \in [ResultSets -> ResultSet] /\ g \in SUBSET ResultSets
      BY <1>1, <1>2 DEF RsState
    <3>2. p = [s EXCEPT !.sets = f, !.resultsets = g]
      BY <1>1, <2>2
    <3> HIDE DEF f, g
    <3> QED BY <1>1, <3>1, <3>2 DEF RsState
  <2>4. /\ Rest(p, s) /\ p.tasks = s.tasks /\ p.fault = s.fault
        /\ p.resultsets = s.resultsets \ {r}
        /\ p.sets[r] = y /\ \A q \in ResultSets : q # r => p.sets[q] = s.sets[q]
    BY <1>1, <2>2 DEF RsState, Rest
  <2> QED BY <1>1, <1>5, <2>3, <2>4 DEF Drops, Loses, Dropped, RsState, y
<1> QED BY <1>3, <1>4, <1>5

\* ZOOM_connection_remove_task and ZOOM_connection_remove_tasks
LEMMA RemoveTaskIs ==
  ASSUME NEW s, Typed(s), Linked(s), s.tasks # <<>>, NEW p, p = RemoveTask(s)
  PROVE  /\ p \in RsState /\ Head(s.tasks).resultset \in ResultSets
         /\ Drops(p, s, Tail(s.tasks), Loses(Head(s.tasks).resultset, 1))
<1> DEFINE r == Head(s.tasks).resultset
           u == [s EXCEPT !.tasks = Tail(@)]
<1>1. s \in RsState /\ Tail(s.tasks) \in Seq(Task) /\ r \in ResultSets
  <2>1. s \in RsState /\ s.tasks \in Seq(Task)
    BY DEF Typed, RsState
  <2>2. Tail(s.tasks) \in Seq(Task) /\ Head(s.tasks) \in Task
    BY <2>1, SeqClosed
  <2> QED BY <2>1, <2>2 DEF Task
<1>2. /\ u \in RsState /\ Rest(u, s) /\ u.tasks = Tail(s.tasks) /\ u.fault = s.fault
      /\ u.resultsets = s.resultsets /\ u.sets = s.sets
  BY <1>1 DEF RsState, Rest
<1>3. p = Unref(u, r, 1)
  BY DEF RemoveTask
<1> HIDE DEF u, r
<1>4. Typed(u) /\ Linked(u)
  BY <1>2 DEF Typed, Linked, Rest
<1>5. p \in RsState /\ Drops(p, u, u.tasks, Loses(r, 1))
  BY <1>1, <1>3, <1>4, UnrefIs
<1>6. Drops(p, s, Tail(s.tasks), Loses(r, 1))
  BY <1>2, <1>5 DEF Drops, Rest
<1> QED BY <1>1, <1>5, <1>6 DEF r

Loss(s) == [r \in ResultSets |-> Users(s.tasks, r)]

LEMMA RemoveTasksIs ==
  ASSUME NEW s, Typed(s), Linked(s), NEW p, p = RemoveTasks(s)
  PROVE  p \in RsState /\ Drops(p, s, <<>>, Loss(s))
<1> DEFINE gone(r) == Unref(s, r, Cardinality(TasksOn(s, r)))
           sets == [r \in ResultSets |-> gone(r).sets[r]]
           left == {r \in s.resultsets : r \in gone(r).resultsets}
           fault == IF s.fault = "NONE" /\ \E r \in ResultSets : gone(r).fault # "NONE"
                    THEN "ASSERT" ELSE s.fault
<1>1. s \in RsState /\ s.tasks \in Seq(Task) /\ s.resultsets \subseteq ResultSets
  BY DEF Typed, RsState
<1>2. ASSUME NEW r \in ResultSets
      PROVE  /\ Users(s.tasks, r) \in Nat
             /\ gone(r) \in RsState /\ Drops(gone(r), s, s.tasks, Loses(r, Users(s.tasks, r)))
  <2>1. Users(s.tasks, r) \in Nat
    BY <1>1, UsersType
  <2>2. gone(r) = Unref(s, r, Users(s.tasks, r))
    BY DEF Users, On, TasksOn
  <2> HIDE DEF gone
  <2> QED BY <2>1, <2>2, UnrefIs
<1>3. p = [s EXCEPT !.tasks = <<>>, !.sets = sets, !.resultsets = left, !.fault = fault]
  BY DEF RemoveTasks
<1> HIDE DEF gone
<1>4. ASSUME NEW r \in ResultSets
      PROVE  /\ gone(r).sets[r] = Dropped(s.sets[r], Loss(s)[r]) /\ gone(r).sets[r] \in ResultSet
             /\ gone(r).fault = s.fault
             /\ r \in gone(r).resultsets <=>
                  r \in s.resultsets /\ (Loss(s)[r] = 0 \/ s.sets[r].refcount > Loss(s)[r])
  BY <1>2 DEF Drops, Loses, Loss, RsState
<1>5. sets \in [ResultSets -> ResultSet] /\ left \subseteq ResultSets /\ fault = s.fault
  BY <1>1, <1>4
<1>6. \A r \in ResultSets : sets[r] = Dropped(s.sets[r], Loss(s)[r])
  BY <1>4
<1>7. left = {r \in s.resultsets : Loss(s)[r] = 0 \/ s.sets[r].refcount > Loss(s)[r]}
  BY <1>1, <1>4
<1> HIDE DEF sets, left, fault
<1>8. <<>> \in Seq(Task)
  BY SeqClosed
<1>9. /\ p \in RsState /\ Rest(p, s) /\ p.tasks = <<>> /\ p.fault = s.fault
      /\ p.sets = sets /\ p.resultsets = left
  BY <1>1, <1>3, <1>5, <1>8 DEF RsState, Rest
<1> QED BY <1>6, <1>7, <1>9 DEF Drops

\* The references of the sets and of the queue stay in step.
LEMMA DropsRefs ==
  ASSUME NEW s, Typed(s), Linked(s), NEW p, p \in RsState, NEW t, NEW k \in [ResultSets -> Nat],
         Drops(p, s, t, k), t \in Seq(Task),
         \A r \in ResultSets : /\ s.sets[r].refcount = Users(t, r) + k[r] + Held(s.sets[r])
                               /\ Living(s.sets[r])
  PROVE  Typed(p) /\ Refs(p)
<1>1. /\ s \in RsState /\ \A r \in ResultSets : s.sets[r] \in ResultSet /\ k[r] \in Nat
  BY DEF Typed, RsState
<1>2. p.tasks = t /\ \A r \in ResultSets : p.sets[r] = Dropped(s.sets[r], k[r])
  BY DEF Drops
<1>3. Typed(p)
  BY DEF Typed, Drops, Rest
<1>4. ASSUME NEW r \in ResultSets
      PROVE  /\ p.sets[r].refcount = Users(t, r) + Held(p.sets[r]) /\ Living(p.sets[r])
             /\ r \in p.resultsets <=> p.sets[r].connection
  <2> DEFINE x == s.sets[r]
             n == k[r]
             y == Dropped(x, n)
             u == Users(t, r)
             h == Held(x)
  <2>1. u \in Nat /\ h \in Nat /\ n \in Nat
    BY <1>1, UsersType DEF Held
  <2>2. x.refcount = u + n + h /\ Living(x) /\ x.refcount \in Nat /\ x \in ResultSet
    BY <1>1 DEF ResultSet
  <2> HIDE DEF u, n
  <2>3. y.refcount = x.refcount - n /\ Held(y) = h
    <3>1. n <= x.refcount
      BY <2>1, <2>2
    <3>2. y.refcount = x.refcount - n
      BY <2>1, <2>2, <3>1, DroppedType
    <3>3. y.handle = x.handle
      BY <2>1, <2>2, DroppedType
    <3> QED BY <3>2, <3>3 DEF Held
  <2>4. y.refcount = u + h
    <3> HIDE DEF h, y
    <3> QED BY <2>1, <2>2, <2>3
  <2>5. Living(y)
    <3>1. CASE n = 0 \/ x.refcount > n
      <4>1. y.status = x.status
        BY <2>1, <2>2, <3>1, DroppedType
      <4>2. y.refcount > 0 <=> x.refcount > 0
        <5> HIDE DEF y, h
        <5> QED BY <2>1, <2>2, <2>3, <3>1
      <4> QED BY <2>2, <4>1, <4>2 DEF Living
    <3>2. CASE ~(n = 0 \/ x.refcount > n)
      <4>1. y.status = "freed"
        BY <2>1, <2>2, <3>2, DroppedType
      <4>2. ~(y.refcount > 0)
        <5> HIDE DEF y, h
        <5> QED BY <2>1, <2>2, <2>3, <3>2
      <4> QED BY <4>1, <4>2 DEF Living
    <3> QED BY <3>1, <3>2
  <2>6. r \in p.resultsets <=> r \in s.resultsets /\ (n = 0 \/ x.refcount > n)
    BY DEF Drops, n
  <2>7. r \in p.resultsets <=> y.connection
    BY <2>1, <2>2, <2>6, DroppedType DEF Linked
  <2> QED BY <1>2, <2>3, <2>4, <2>5, <2>7 DEF n, u
<1> QED BY <1>2, <1>3, <1>4 DEF Refs, Linked

(***************************************************************************)
(* The queue                                                               *)
(***************************************************************************)
\* p is the queue t with k for its first task.
Headed(p, t, k) ==
  /\ p \in Seq(Task) /\ Len(p) = Len(t) /\ p # <<>> /\ Head(p) = k /\ p[1] = k
  /\ \A i \in 1..Len(t) : i # 1 => p[i] = t[i]

LEMMA HeadIs ==
  ASSUME NEW t \in Seq(Task), t # <<>>
  PROVE  /\ Len(t) \in Nat /\ 1 \in 1..Len(t) /\ DOMAIN t = 1..Len(t)
         /\ Head(t) = t[1] /\ Head(t) \in Task
         /\ \A k \in Task : Headed([t EXCEPT ![1] = k], t, k)
<1>1. Len(t) \in Nat /\ Len(t) # 0 /\ DOMAIN t = 1..Len(t)
  BY LenProperties, EmptySeq
<1>2. Head(t) = t[1] /\ Head(t) \in Task
  BY HeadTailProperties
<1>3. 1 \in 1..Len(t)
  BY <1>1
<1>4. ASSUME NEW k \in Task PROVE Headed([t EXCEPT ![1] = k], t, k)
  <2> DEFINE u == [t EXCEPT ![1] = k]
  <2>1. u \in Seq(Task) /\ Len(u) = Len(t) /\ u[1] = k /\ \A i \in 1..Len(t) : i # 1 => u[i] = t[i]
    BY <1>3, ExceptSeq
  <2> HIDE DEF u
  <2>2. u # <<>> /\ Head(u) = u[1]
    <3>1. Len(u) # 0
      BY <1>1, <2>1
    <3>2. u # <<>>
      BY <3>1, EmptySeq
    <3> QED BY <2>1, <3>2, HeadTailProperties
  <2> QED BY <2>1, <2>2 DEF Headed, u
<1> QED BY <1>1, <1>2, <1>3, <1>4

LEMMA HeadedUsers ==
  ASSUME NEW t \in Seq(Task), t # <<>>, NEW k, k.resultset = Head(t).resultset,
         NEW u, Headed(u, t, k)
  PROVE  \A r : On(u, r) = On(t, r) /\ Users(u, r) = Users(t, r)
<1>1. \A i \in 1..Len(t) : t[i].resultset = u[i].resultset
  BY HeadIs DEF Headed
<1> QED BY <1>1, UsersSame DEF Headed

\* Replacing one result set.
WithSet(s, r, y) == [s EXCEPT !.sets[r] = y]

LEMMA SetIs ==
  ASSUME NEW s \in RsState, NEW r \in ResultSets, NEW y \in ResultSet,
         NEW p, p = WithSet(s, r, y)
  PROVE  /\ p \in RsState
         /\ p.sets[r] = y /\ \A q \in ResultSets : q # r => p.sets[q] = s.sets[q]
         /\ p.sets \in [ResultSets -> ResultSet]
         /\ p.tasks = s.tasks /\ p.error = s.error /\ p.fault = s.fault
         /\ p.open = s.open /\ p.up = s.up /\ p.reconnect_ok = s.reconnect_ok
         /\ p.wire = s.wire /\ p.odd = s.odd /\ p.server = s.server
         /\ p.resultsets = s.resultsets
<1> DEFINE f == [s.sets EXCEPT ![r] = y]
<1>1. /\ f \in [ResultSets -> ResultSet] /\ f[r] = y
      /\ \A q \in ResultSets : q # r => f[q] = s.sets[q]
  BY DEF RsState
<1>2. p = [s EXCEPT !.sets = f]
  BY DEF WithSet
<1> HIDE DEF f
<1>3. p \in RsState
  BY <1>1, <1>2 DEF RsState
<1>4. /\ p.sets = f
      /\ p.tasks = s.tasks /\ p.error = s.error /\ p.fault = s.fault
      /\ p.open = s.open /\ p.up = s.up /\ p.reconnect_ok = s.reconnect_ok
      /\ p.wire = s.wire /\ p.odd = s.odd /\ p.server = s.server
      /\ p.resultsets = s.resultsets
  BY <1>2 DEF RsState
<1> QED BY <1>1, <1>3, <1>4

\* ZOOM_connection_add_task
LEMMA AddTaskIs ==
  ASSUME NEW s, Typed(s), NEW t \in Task, NEW p, p = AddTask(s, t)
  PROVE  /\ Typed(p) /\ p.tasks = Append(s.tasks, t)
         /\ p.error = (IF s.error = "DIAG" THEN "NONE" ELSE s.error)
         /\ p.open = s.open /\ p.up = s.up /\ p.reconnect_ok = s.reconnect_ok
         /\ p.wire = s.wire /\ p.odd = s.odd /\ p.server = s.server /\ p.fault = s.fault
         /\ p.resultsets = s.resultsets
         /\ p.sets[t.resultset]
              = [s.sets[t.resultset] EXCEPT !.refcount = s.sets[t.resultset].refcount + 1]
         /\ \A r \in ResultSets : r # t.resultset => p.sets[r] = s.sets[r]
<1> DEFINE r == t.resultset
           x == s.sets[r]
           y == [x EXCEPT !.refcount = x.refcount + 1]
           e == IF s.error = "DIAG" THEN "NONE" ELSE s.error
           ts == Append(s.tasks, t)
<1>1. s \in RsState /\ r \in ResultSets /\ x \in ResultSet
  BY DEF Typed, RsState, Task
<1>2. y \in ResultSet
  BY <1>1 DEF ResultSet
<1>3. ts \in Seq(Task) /\ e \in {"NONE", "DIAG", "CONNECTION_LOST"}
  BY <1>1, SeqClosed DEF RsState
<1> DEFINE u == [s EXCEPT !.tasks = ts, !.error = e]
<1>a. p = [u EXCEPT !.sets[r].refcount = @ + 1]
  BY DEF AddTask
<1> HIDE DEF ts, e
<1>b. /\ u \in RsState /\ u.sets = s.sets /\ u.tasks = ts /\ u.error = e
      /\ u.open = s.open /\ u.up = s.up /\ u.reconnect_ok = s.reconnect_ok
      /\ u.wire = s.wire /\ u.odd = s.odd /\ u.server = s.server /\ u.fault = s.fault
      /\ u.resultsets = s.resultsets
  BY <1>1, <1>3 DEF RsState
<1> HIDE DEF u
<1>4. p = [u EXCEPT !.sets[r] = y]
  BY <1>1, <1>a, <1>b DEF RsState
<1> HIDE DEF y
<1>5. p \in RsState
  BY <1>b, <1>1, <1>2, <1>4, SetIs DEF WithSet
<1>6. /\ p.tasks = ts /\ p.error = e /\ p.sets[r] = y
      /\ p.open = s.open /\ p.up = s.up /\ p.reconnect_ok = s.reconnect_ok
      /\ p.wire = s.wire /\ p.odd = s.odd /\ p.server = s.server /\ p.fault = s.fault
      /\ p.resultsets = s.resultsets
      /\ \A q \in ResultSets : q # r => p.sets[q] = s.sets[q]
  BY <1>b, <1>1, <1>2, <1>4, SetIs DEF WithSet
<1>7. Typed(p)
  BY <1>5, <1>6 DEF Typed
<1> QED BY <1>6, <1>7 DEF y, ts, e

LEMMA AddTaskRefs ==
  ASSUME NEW s, Typed(s), Refs(s), NEW t \in Task, NEW p, p = AddTask(s, t),
         s.sets[t.resultset].refcount > 0
  PROVE  Refs(p)
<1> DEFINE r == t.resultset
           x == s.sets[r]
<1>1. /\ p.tasks = Append(s.tasks, t) /\ p.resultsets = s.resultsets
      /\ p.sets[r] = [x EXCEPT !.refcount = x.refcount + 1]
      /\ \A q \in ResultSets : q # r => p.sets[q] = s.sets[q]
  BY AddTaskIs
<1>2. s.tasks \in Seq(Task) /\ r \in ResultSets /\ x \in ResultSet
  BY DEF Typed, RsState, Task
<1>3. ASSUME NEW q \in ResultSets
      PROVE  /\ p.sets[q].refcount = Users(p.tasks, q) + Held(p.sets[q]) /\ Living(p.sets[q])
             /\ q \in p.resultsets <=> p.sets[q].connection
  <2>1. /\ s.sets[q].refcount = Users(s.tasks, q) + Held(s.sets[q]) /\ Living(s.sets[q])
        /\ q \in s.resultsets <=> s.sets[q].connection
    BY DEF Refs, Linked
  <2>2. /\ Users(p.tasks, q) = IF r = q THEN Users(s.tasks, q) + 1 ELSE Users(s.tasks, q)
    BY <1>1, <1>2, UsersAppend
  <2>3. CASE q # r
    BY <1>1, <2>1, <2>2, <2>3
  <2>4. CASE q = r
    <3>1. /\ p.sets[r].refcount = x.refcount + 1 /\ p.sets[r].handle = x.handle
          /\ p.sets[r].status = x.status /\ p.sets[r].connection = x.connection
          /\ x.refcount \in Nat
      BY <1>1, <1>2 DEF ResultSet
    <3>2. Held(p.sets[r]) = Held(x) /\ Held(x) \in Nat
      BY <3>1 DEF Held
    <3>3. Users(s.tasks, r) \in Nat
      BY <1>2, UsersType
    <3>4. Living(p.sets[r])
      BY <2>1, <2>4, <3>1 DEF Living
    <3>5. p.sets[r].refcount = Users(p.tasks, r) + Held(p.sets[r])
      <4>1. x.refcount = Users(s.tasks, r) + Held(x)
        BY <2>1, <2>4
      <4>2. \A a, b, h \in Nat : a = b + h => a + 1 = (b + 1) + h
        OBVIOUS
      <4>3. x.refcount + 1 = (Users(s.tasks, r) + 1) + Held(x)
        BY <3>1, <3>2, <3>3, <4>1, <4>2
      <4> QED BY <2>2, <2>4, <3>1, <3>2, <4>3
    <3> QED BY <1>1, <2>1, <2>4, <3>1, <3>4, <3>5
  <2> QED BY <2>3, <2>4
<1> QED BY <1>3 DEF Refs, Linked

(***************************************************************************)
(* What the handlers choose                                                *)
(***************************************************************************)
\* There is always a name left for another set.
LEMMA LowestNameIs ==
  ASSUME NEW s, Typed(s)
  PROVE  LowestName(s) \in Names /\ \A r \in s.resultsets : s.sets[r].setname # LowestName(s)
<1> DEFINE Free == {n \in Names : \A r \in s.resultsets : s.sets[r].setname # n}
           Fits(n) == /\ \A r \in s.resultsets : s.sets[r].setname # n
                      /\ \A m \in 1 .. n - 1 : \E r \in s.resultsets : s.sets[r].setname = m
<1>1. Free # {}
  <2> SUFFICES ASSUME \A n \in Names : \E r \in s.resultsets : s.sets[r].setname = n PROVE FALSE
    OBVIOUS
  <2> DEFINE f == [n \in Names |-> CHOOSE r \in s.resultsets : s.sets[r].setname = n]
  <2>1. \A n \in Names : f[n] \in s.resultsets /\ s.sets[f[n]].setname = n
    OBVIOUS
  <2>2. f \in [Names -> s.resultsets]
    BY <2>1
  <2> HIDE DEF f
  <2>3. /\ IsFiniteSet(Names) /\ Cardinality(Names) = MaxSets + 1
        /\ IsFiniteSet(ResultSets) /\ Cardinality(ResultSets) = MaxSets
    BY RsAssumption, FS_Interval DEF Names, DefaultName, ResultSets
  <2>4. s.resultsets \in SUBSET ResultSets
    BY DEF Typed, RsState
  <2>5. IsFiniteSet(s.resultsets) /\ Cardinality(s.resultsets) <= MaxSets
    BY <2>3, <2>4, FS_Subset
  <2>6. Cardinality(s.resultsets) < Cardinality(Names)
    BY <2>3, <2>5, RsAssumption, FS_CardinalityType
  <2>7. \E x, y \in Names : x # y /\ f[x] = f[y]
    BY <2>2, <2>3, <2>5, <2>6, FS_PigeonHole
  <2> QED BY <2>1, <2>7
<1>2. Free \subseteq Nat
  BY RsAssumption DEF Names, DefaultName
<1>3. PICK n \in Free : \A m \in Free : n <= m
  BY <1>1, <1>2, LeastElement
<1>4. Fits(n)
  <2> SUFFICES ASSUME NEW m \in 1 .. n - 1 PROVE \E r \in s.resultsets : s.sets[r].setname = m
    OBVIOUS
  <2>1. m \in Names /\ m \in Nat /\ ~(n <= m)
    BY RsAssumption DEF Names, DefaultName
  <2> QED BY <1>3, <2>1
<1>5. LowestName(s) = CHOOSE m \in Names : Fits(m)
  BY DEF LowestName
<1> QED BY <1>4, <1>5

\* The cached records at the head of a range.
LEMMA PrefixIs ==
  ASSUME NEW x, NEW start, NEW count \in Nat, NEW i, i = CachedPrefix(x, start, count)
  PROVE  /\ i \in 0 .. count /\ \A j \in 0 .. i - 1 : start + j \in Cached(x)
         /\ i = count \/ start + i \notin Cached(x)
<1> DEFINE Stops == {j \in 0 .. count : j = count \/ start + j \notin Cached(x)}
           Fits(m) == /\ \A j \in 0 .. m - 1 : start + j \in Cached(x)
                      /\ m = count \/ start + m \notin Cached(x)
<1>1. Stops \subseteq Nat /\ Stops # {}
  <2>1. count \in Stops
    OBVIOUS
  <2> QED BY <2>1
<1>2. PICK m \in Stops : \A j \in Stops : m <= j
  <2> HIDE DEF Stops
  <2> QED BY <1>1, LeastElement
<1>3. Fits(m)
  <2> SUFFICES ASSUME NEW j \in 0 .. m - 1 PROVE start + j \in Cached(x)
    OBVIOUS
  <2>1. j \in 0 .. count /\ j # count /\ ~(m <= j)
    OBVIOUS
  <2> QED BY <1>2, <2>1
<1>4. i = CHOOSE k \in 0 .. count : Fits(k)
  BY DEF CachedPrefix
<1> QED BY <1>3, <1>4

(***************************************************************************)
(* The step of a search                                                    *)
(***************************************************************************)
Still(p, s) ==
  /\ p.open = s.open /\ p.up = s.up /\ p.reconnect_ok = s.reconnect_ok
  /\ p.odd = s.odd /\ p.server = s.server /\ p.resultsets = s.resultsets

\* The task k is t after records of x at the head of its range were skipped.
Advanced(k, t, x) ==
  /\ k \in Task /\ k.which = t.which /\ k.resultset = t.resultset /\ k.running = t.running
  /\ k.from = t.from /\ k.upto = t.upto
  /\ \E i \in 0 .. t.count : /\ k.start = t.start + i
                             /\ \A j \in 0 .. i - 1 : t.start + j \in Cached(x)
                             /\ k.count = (IF x.live_set = 0 THEN t.count
                                           ELSE IF t.start >= x.size THEN 0
                                           ELSE Least(t.count, x.size - t.start)) - i

\* The request q for the task k on the set x of the state s.
Requested(q, k, x, s) ==
  /\ q \in Requests /\ q.set = k.resultset
  /\ \/ /\ Proto = "HTTP" /\ q.kind = "SRU" /\ q.start = k.start /\ q.name = DefaultName
        /\ x.live_set = 2 => k.count > 0
     \/ /\ Proto = "Z3950" /\ x.live_set = 2 /\ q.kind = "PRESENT" /\ q.name = x.setname
        /\ q.start = k.start /\ k.count > 0
     \/ /\ Proto = "Z3950" /\ x.live_set = 0 /\ q.kind = "SEARCH" /\ q.start = 0
        /\ q.count = PiggybackCount(x, k)
        /\ q.name = IF x.setname # NoName THEN x.setname
                    ELSE IF Named THEN LowestName(s) ELSE DefaultName

Searched(p, s) ==
  LET t == Head(s.tasks)
      r == t.resultset
      x == s.sets[r]
      k == Head(p.tasks)
  IN  /\ p \in RsState /\ Still(p, s) /\ Headed(p.tasks, s.tasks, k) /\ Advanced(k, t, x)
      /\ x.connection /\ x.valid => p.fault = s.fault
      /\ \/ /\ p.wire = {} /\ p.sets = s.sets
            /\ \/ p.error = "NONE" /\ x.live_set = 2 /\ k.count = 0
               \/ ~ x.valid /\ (p.error # "NONE" \/ p.fault # "NONE")
         \/ \E q : /\ p.wire = {q} /\ Requested(q, k, x, s) /\ p.error = "NONE"
                   /\ p.sets[r] = [x EXCEPT !.setname = q.name]
                   /\ \A o \in ResultSets : o # r => p.sets[o] = s.sets[o]

\* Posting the only request.
Sends(s, q) == Post(s, q.kind, q.name, q.set, q.start, q.count)

LEMMA PostIs ==
  ASSUME NEW s \in RsState, s.wire = {}, NEW q \in Requests,
         NEW p, p = Sends(s, q)
  PROVE  /\ p \in RsState /\ p.wire = {q} /\ Still(p, s) /\ p.tasks = s.tasks /\ p.error = s.error
         /\ p.fault = s.fault /\ p.sets = s.sets
<1> DEFINE c == [kind |-> q.kind, name |-> q.name, set |-> q.set, start |-> q.start,
                 count |-> q.count]
           w == s.wire \cup {c}
<1>1. c = q
  BY DEF Requests
<1>2. w = {q} /\ w \subseteq Requests
  <2> HIDE DEF c
  <2> QED BY <1>1
<1>3. p = [s EXCEPT !.wire = w]
  BY DEF Post, Sends
<1> HIDE DEF w
<1>4. p \in RsState
  BY <1>2, <1>3 DEF RsState
<1>5. /\ p.wire = w /\ Still(p, s) /\ p.tasks = s.tasks /\ p.error = s.error
      /\ p.fault = s.fault /\ p.sets = s.sets
  BY <1>3 DEF RsState, Still
<1> QED BY <1>2, <1>4, <1>5

\* A fault changes nothing else.
LEMMA FaultIs ==
  ASSUME NEW s \in RsState, NEW f \in Faults, NEW p, p = Fault(s, f)
  PROVE  /\ p \in RsState /\ Still(p, s) /\ p.wire = s.wire /\ p.tasks = s.tasks
         /\ p.error = s.error /\ p.sets = s.sets
         /\ p.fault = IF s.fault = "NONE" THEN f ELSE s.fault
<1>1. CASE s.fault = "NONE"
  <2>1. p = [s EXCEPT !.fault = f]
    BY <1>1 DEF Fault
  <2> QED BY <1>1, <2>1 DEF RsState, Still
<1>2. CASE s.fault # "NONE"
  BY <1>2 DEF Fault, Still
<1> QED BY <1>1, <1>2

LEMMA SearchStepIs ==
  ASSUME NEW s, Typed(s), s.wire = {}, s.tasks # <<>>, s.error = "NONE",
         Head(s.tasks).which = "SEARCH",
         \A r \in ResultSets : s.sets[r].live_set = 2 => s.sets[r].setname # NoName,
         NEW p, p = SearchStep(s)
  PROVE  Searched(p, s)
<1> DEFINE t == Head(s.tasks)
           r == t.resultset
           x == s.sets[r]
           count == Wanted(x, t)
           i == CachedPrefix(x, t.start, count)
           rest == Past(t, count, i)
           base == IF i > 0 /\ ~ x.connection THEN Fault(s, "RELEASED") ELSE s
           u == [base EXCEPT !.tasks[1] = rest]
<1>1. /\ s \in RsState /\ s.tasks \in Seq(Task) /\ t \in Task /\ r \in ResultSets
      /\ x \in ResultSet /\ t = s.tasks[1]
  BY HeadIs DEF Typed, RsState, Task
<1>2. /\ t.start \in Nat /\ t.count \in Nat /\ x.size \in Nat /\ x.step \in Nat
      /\ x.live_set \in {0, 2} /\ x.setname \in Names \cup {NoName} /\ x.valid \in BOOLEAN
      /\ x.connection \in BOOLEAN
  BY <1>1 DEF Task, ResultSet
<1>a. p = IF rest.count = 0 /\ x.live_set = 2 THEN u
          ELSE IF Proto = "HTTP" THEN SendSru(u, rest)
          ELSE IF x.live_set = 2 THEN SendPresent(u, rest)
          ELSE SendSearch(u, rest)
  BY ZenonT(40) DEF SearchStep
<1>3. count \in Nat /\ count <= t.count
  <2> HIDE DEF t, x
  <2> QED BY <1>2 DEF Wanted, Least
<1>b. x.live_set = 2 /\ count # 0 => count <= x.size - t.start /\ t.start < x.size
  <2> HIDE DEF t, x
  <2> QED BY <1>2 DEF Wanted, Least
<1>4. /\ i \in 0 .. count /\ \A j \in 0 .. i - 1 : t.start + j \in Cached(x)
  <2> HIDE DEF count, x
  <2> QED BY <1>3, PrefixIs
<1>c. count = IF x.live_set = 0 THEN t.count
              ELSE IF t.start >= x.size THEN 0 ELSE Least(t.count, x.size - t.start)
  BY DEF Wanted
<1> HIDE DEF count, i
<1>5. /\ rest \in Task /\ rest.start = t.start + i /\ rest.count = count - i
      /\ rest.which = t.which /\ rest.resultset = r /\ rest.running = t.running
      /\ rest.from = t.from /\ rest.upto = t.upto /\ rest.count \in Nat /\ rest.start \in Nat
  <2> DEFINE a == t.start + i
             b == count - i
  <2>1. a \in Nat /\ b \in Nat
    BY <1>2, <1>3, <1>4
  <2>2. r = t.resultset /\ rest = [t EXCEPT !.start = a, !.count = b]
    BY DEF Past
  <2> HIDE DEF t, a, b, rest
  <2>3. /\ rest \in Task /\ rest.start = a /\ rest.count = b
        /\ rest.which = t.which /\ rest.resultset = t.resultset /\ rest.running = t.running
        /\ rest.from = t.from /\ rest.upto = t.upto
    BY <1>1, <2>1, <2>2 DEF Task
  <2> QED BY <2>1, <2>2, <2>3 DEF a, b
<1>d. Advanced(rest, t, x)
  <2>1. i \in 0 .. t.count
    BY <1>2, <1>3, <1>4
  <2> HIDE DEF rest, t, x
  <2> QED BY <1>4, <1>5, <1>c, <2>1 DEF Advanced, r
<1>e. \* a record is left to ask for in a set whose size is known
      x.live_set = 2 /\ rest.count # 0 => rest.start < x.size /\ rest.count > 0
  <2> HIDE DEF t, x, rest
  <2> QED BY <1>2, <1>3, <1>4, <1>5, <1>b
<1>6. /\ base \in RsState /\ Still(base, s) /\ base.wire = {} /\ base.tasks = s.tasks
      /\ base.error = "NONE" /\ base.sets = s.sets
      /\ x.connection => base.fault = s.fault
  <2>1. CASE i > 0 /\ ~ x.connection
    <3>1. base = Fault(s, "RELEASED") /\ "RELEASED" \in Faults
      BY <2>1 DEF Faults
    <3> HIDE DEF base
    <3> QED BY <1>1, <2>1, <3>1, FaultIs
  <2>2. CASE ~(i > 0 /\ ~ x.connection)
    BY <1>1, <2>2 DEF Still
  <2> QED BY <2>1, <2>2
<1> HIDE DEF base
<1>7. /\ u \in RsState /\ Still(u, s) /\ u.wire = {} /\ u.error = "NONE" /\ u.sets = s.sets
      /\ Headed(u.tasks, s.tasks, rest)
      /\ x.connection => u.fault = s.fault
  <2> DEFINE ts == [s.tasks EXCEPT ![1] = rest]
  <2>1. Headed(ts, s.tasks, rest) /\ ts \in Seq(Task)
    <3> HIDE DEF rest
    <3> QED BY <1>1, <1>5, HeadIs DEF Headed
  <2>2. u = [base EXCEPT !.tasks = ts]
    BY <1>6
  <2> HIDE DEF ts, u, rest
  <2>3. u \in RsState
    BY <1>6, <2>1, <2>2 DEF RsState
  <2>4. /\ u.tasks = ts /\ Still(u, base) /\ u.wire = base.wire /\ u.error = base.error
        /\ u.sets = base.sets /\ u.fault = base.fault
    BY <1>6, <2>2 DEF RsState, Still
  <2>5. Still(u, s)
    BY <1>6, <2>4 DEF Still
  <2> QED BY <1>6, <2>1, <2>3, <2>4, <2>5
<1> HIDE DEF u, rest
<1> DEFINE Asks(q) == /\ p \in RsState /\ Still(p, u) /\ p.tasks = u.tasks /\ p.fault = u.fault
                      /\ p.wire = {q} /\ Requested(q, rest, x, s) /\ p.error = "NONE"
                      /\ p.sets[r] = [x EXCEPT !.setname = q.name]
                      /\ \A o \in ResultSets : o # r => p.sets[o] = s.sets[o]
<1>8. ASSUME NEW q, Asks(q) PROVE Searched(p, s)
  <2>1. Still(p, s)
    BY <1>7, <1>8 DEF Still
  <2>2. Head(p.tasks) = rest /\ Headed(p.tasks, s.tasks, rest)
    BY <1>7, <1>8 DEF Headed
  <2>3. x.connection /\ x.valid => p.fault = s.fault
    BY <1>7, <1>8
  <2>4. /\ p \in RsState /\ p.wire = {q} /\ Requested(q, rest, x, s) /\ p.error = "NONE"
        /\ p.sets[r] = [x EXCEPT !.setname = q.name]
        /\ \A o \in ResultSets : o # r => p.sets[o] = s.sets[o]
    BY <1>8
  <2> HIDE DEF Asks
  <2> QED BY <1>d, <2>1, <2>2, <2>3, <2>4 DEF Searched
<1>9. CASE rest.count = 0 /\ x.live_set = 2
  <2>1. p = u
    BY <1>9, <1>a
  <2>2. Head(p.tasks) = rest
    BY <1>7, <2>1 DEF Headed
  <2> QED BY <1>9, <1>d, <1>7, <2>1, <2>2 DEF Searched
<1>10. CASE ~(rest.count = 0 /\ x.live_set = 2) /\ Proto = "HTTP" /\ ~ x.valid
  <2>1. p = Fault(u, "QUERY") /\ "QUERY" \in Faults
    BY <1>10, <1>a, <1>5, <1>7 DEF SendSru, Faults
  <2>2. /\ p \in RsState /\ Still(p, u) /\ p.wire = {} /\ p.tasks = u.tasks /\ p.sets = s.sets
        /\ p.fault # "NONE"
    BY <1>7, <2>1, FaultIs
  <2>3. Head(p.tasks) = rest /\ Still(p, s)
    BY <1>7, <2>2 DEF Headed, Still
  <2> QED BY <1>10, <1>d, <1>7, <2>2, <2>3 DEF Searched
<1>11. CASE ~(rest.count = 0 /\ x.live_set = 2) /\ Proto = "HTTP" /\ x.valid
  <2> DEFINE n == IF x.step > 0 /\ x.step < rest.count THEN x.step ELSE rest.count
             y == [x EXCEPT !.setname = DefaultName]
             v == [u EXCEPT !.sets[r] = y]
             q == [kind |-> "SRU", name |-> DefaultName, set |-> r, start |-> rest.start, count |-> n]
  <2>1. p = Post(v, "SRU", DefaultName, r, rest.start, n)
    BY <1>11, <1>a, <1>5, <1>7 DEF SendSru, RsState
  <2>2. DefaultName \in Names /\ n \in Nat
    BY <1>2, <1>5, RsAssumption DEF Names, DefaultName
  <2> HIDE DEF n
  <2>3. y \in ResultSet
    BY <1>1, <2>2 DEF ResultSet
  <2>4. q \in Requests
    BY <1>1, <1>5, <2>2 DEF Requests
  <2> HIDE DEF y, v
  <2>5. v = WithSet(u, r, y)
    BY DEF v, WithSet
  <2>6. /\ v \in RsState /\ v.wire = {} /\ v.sets[r] = y /\ Still(v, u) /\ v.tasks = u.tasks
        /\ v.fault = u.fault /\ v.error = "NONE"
        /\ \A o \in ResultSets : o # r => v.sets[o] = s.sets[o]
    <3>1. u \in RsState /\ r \in ResultSets
      BY <1>1, <1>7
    <3>2. /\ v \in RsState /\ v.wire = u.wire /\ v.sets[r] = y /\ v.tasks = u.tasks
          /\ v.fault = u.fault /\ v.error = u.error /\ v.open = u.open /\ v.up = u.up
          /\ v.reconnect_ok = u.reconnect_ok /\ v.odd = u.odd /\ v.server = u.server
          /\ v.resultsets = u.resultsets
          /\ \A o \in ResultSets : o # r => v.sets[o] = u.sets[o]
      BY <2>3, <2>5, <3>1, SetIs
    <3> QED BY <1>7, <3>2 DEF Still
  <2>7. p = Sends(v, q)
    BY <2>1 DEF Sends
  <2> HIDE DEF q
  <2>8. /\ p \in RsState /\ p.wire = {q} /\ Still(p, v) /\ p.tasks = v.tasks /\ p.error = v.error
        /\ p.fault = v.fault /\ p.sets = v.sets
    <3>1. v \in RsState /\ v.wire = {}
      BY <2>6
    <3> QED BY <2>4, <2>7, <3>1, PostIs
  <2>9. Requested(q, rest, x, s) /\ q.name = DefaultName
    BY <1>11, <1>5, <2>4 DEF Requested, q
  <2>10. Still(p, u)
    BY <2>6, <2>8 DEF Still
  <2>11. Asks(q)
    BY <2>6, <2>8, <2>9, <2>10 DEF y
  <2> QED BY <1>8, <2>11
<1>12. CASE ~(rest.count = 0 /\ x.live_set = 2) /\ Proto # "HTTP" /\ x.live_set = 2
  <2> DEFINE n == IF x.step > 0 /\ x.step < rest.count THEN x.step ELSE rest.count
             requested == IF n + rest.start > x.size THEN x.size - rest.start ELSE n
             q == [kind |-> "PRESENT", name |-> x.setname, set |-> r, start |-> rest.start,
                   count |-> requested]
  <2>1. rest.start < x.size /\ rest.count > 0 /\ requested \in Nat /\ requested > 0
    <3>1. rest.start < x.size /\ rest.count > 0
      BY <1>12, <1>e, <1>5
    <3>2. n \in Nat /\ n > 0
      BY <1>2, <1>5, <3>1
    <3> HIDE DEF n
    <3> QED BY <1>2, <1>5, <3>1, <3>2
  <2>2. x.setname \in Names
    BY <1>1, <1>2, <1>12
  <2>3. q \in Requests
    BY <1>1, <1>5, <2>1, <2>2 DEF Requests
  <2>4. p = Sends(u, q)
    <3>1. p = SendPresent(u, rest) /\ u.sets[rest.resultset] = x /\ rest.resultset = r
      BY <1>12, <1>a, <1>5, <1>7
    <3> HIDE DEF x, r
    <3>2. p = Post(IF rest.start < x.size /\ requested > 0 THEN u ELSE Fault(u, "ASSERT"),
                   "PRESENT", x.setname, r, rest.start, requested)
      BY <3>1 DEF SendPresent
    <3> QED BY <2>1, <3>2 DEF Sends
  <2> HIDE DEF q, n, requested
  <2>5. /\ p \in RsState /\ p.wire = {q} /\ Still(p, u) /\ p.tasks = u.tasks /\ p.error = u.error
        /\ p.fault = u.fault /\ p.sets = u.sets
    BY <1>7, <2>3, <2>4, PostIs
  <2>6. q.name = x.setname /\ q.set = r /\ q.kind = "PRESENT" /\ q.start = rest.start
    BY DEF q
  <2>7. Requested(q, rest, x, s)
    BY <1>12, <1>5, <2>1, <2>3, <2>6, RsAssumption DEF Requested
  <2>8. [x EXCEPT !.setname = q.name] = x
    BY <1>1, <2>6 DEF ResultSet
  <2>9. Asks(q)
    BY <1>7, <2>5, <2>7, <2>8
  <2> QED BY <1>8, <2>9
<1>13. CASE ~(rest.count = 0 /\ x.live_set = 2) /\ Proto # "HTTP" /\ x.live_set # 2 /\ ~ x.valid
  <2>1. p = [u EXCEPT !.error = "DIAG"]
    BY <1>13, <1>a, <1>5, <1>7 DEF SendSearch
  <2>2. /\ p \in RsState /\ Still(p, u) /\ p.wire = {} /\ p.tasks = u.tasks /\ p.sets = s.sets
        /\ p.fault = u.fault /\ p.error # "NONE"
    BY <1>7, <2>1 DEF RsState, Still
  <2>3. Head(p.tasks) = rest /\ Still(p, s)
    BY <1>7, <2>2 DEF Headed, Still
  <2> QED BY <1>13, <1>d, <1>7, <2>2, <2>3 DEF Searched
<1>14. CASE ~(rest.count = 0 /\ x.live_set = 2) /\ Proto # "HTTP" /\ x.live_set # 2 /\ x.valid
  <2> DEFINE name == IF x.setname # NoName THEN x.setname
                     ELSE IF Named THEN LowestName(u) ELSE DefaultName
             n == PiggybackCount(x, rest)
             y == [x EXCEPT !.setname = name]
             v == [u EXCEPT !.sets[r] = y]
             q == [kind |-> "SEARCH", name |-> name, set |-> r, start |-> 0, count |-> n]
  <2>1. LowestName(u) = LowestName(s)
    BY <1>7 DEF LowestName, Still
  <2>2. n \in Nat
    BY <1>2, <1>5 DEF PiggybackCount
  <2>3. name \in Names
    BY <1>2, <2>1, LowestNameIs, RsAssumption DEF Names, DefaultName
  <2>4. p = Post(v, "SEARCH", name, r, 0, n)
    <3>1. p = SendSearch(u, rest) /\ u.sets[rest.resultset] = x /\ rest.resultset = r
      BY <1>14, <1>a, <1>5, <1>7
    <3>2. p = Post([u EXCEPT !.sets[r].setname = name], "SEARCH", name, r, 0, n)
      <4> HIDE DEF x, r
      <4> QED BY <1>14, <3>1 DEF SendSearch
    <3>3. [u EXCEPT !.sets[r].setname = name] = v
      BY <3>1
    <3> QED BY <3>2, <3>3
  <2>5. name = IF x.setname # NoName THEN x.setname
               ELSE IF Named THEN LowestName(s) ELSE DefaultName
    BY <2>1
  <2> HIDE DEF n, name
  <2>6. y \in ResultSet
    BY <1>1, <2>3 DEF ResultSet
  <2>7. q \in Requests
    BY <1>1, <2>2, <2>3 DEF Requests
  <2> HIDE DEF y, v
  <2>8. v = WithSet(u, r, y)
    BY DEF v, WithSet
  <2>9. /\ v \in RsState /\ v.wire = {} /\ v.sets[r] = y /\ Still(v, u) /\ v.tasks = u.tasks
        /\ v.fault = u.fault /\ v.error = "NONE"
        /\ \A o \in ResultSets : o # r => v.sets[o] = s.sets[o]
    <3>1. u \in RsState /\ r \in ResultSets
      BY <1>1, <1>7
    <3>2. /\ v \in RsState /\ v.wire = u.wire /\ v.sets[r] = y /\ v.tasks = u.tasks
          /\ v.fault = u.fault /\ v.error = u.error /\ v.open = u.open /\ v.up = u.up
          /\ v.reconnect_ok = u.reconnect_ok /\ v.odd = u.odd /\ v.server = u.server
          /\ v.resultsets = u.resultsets
          /\ \A o \in ResultSets : o # r => v.sets[o] = u.sets[o]
      BY <2>6, <2>8, <3>1, SetIs
    <3> QED BY <1>7, <3>2 DEF Still
  <2>10. p = Sends(v, q)
    BY <2>4 DEF Sends
  <2>11. /\ q.kind = "SEARCH" /\ q.name = name /\ q.set = r /\ q.start = 0
         /\ q.count = PiggybackCount(x, rest)
    BY DEF n
  <2> HIDE DEF q
  <2>12. /\ p \in RsState /\ p.wire = {q} /\ Still(p, v) /\ p.tasks = v.tasks /\ p.error = v.error
         /\ p.fault = v.fault /\ p.sets = v.sets
    <3>1. v \in RsState /\ v.wire = {}
      BY <2>9
    <3> QED BY <2>7, <2>10, <3>1, PostIs
  <2>13. Requested(q, rest, x, s)
    <3>1. Proto = "Z3950" /\ x.live_set = 0
      BY <1>14, <1>2, RsAssumption
    <3> HIDE DEF x, r
    <3> QED BY <1>5, <2>5, <2>7, <2>11, <3>1 DEF Requested
  <2>14. Still(p, u)
    BY <2>9, <2>12 DEF Still
  <2>15. Asks(q)
    BY <2>9, <2>11, <2>12, <2>13, <2>14 DEF y
  <2> QED BY <1>8, <2>15
<1> QED BY <1>9, <1>10, <1>11, <1>12, <1>13, <1>14

(***************************************************************************)
(* Records and sort requests                                               *)
(***************************************************************************)
New(start, k, b, origin) ==
  {[at |-> start + i, set |-> b.set, order |-> b.order, pos |-> origin + i, diag |-> FALSE] :
     i \in 0 .. k - 1}

Told(p, r) == [at |-> p, set |-> r, order |-> 0, pos |-> p, diag |-> TRUE]

\* The cache c with the records N in place of those at the same positions.
Clear(N, e) == \A n \in N : n.at # e.at
Renewed(c, N) == {e \in c : Clear(N, e)} \cup N

\* The cache of r becomes c, the first task k; a released set is a fault.
Took(p, s, r, c, k) ==
  /\ p \in RsState /\ p.open = s.open /\ p.up = s.up /\ p.reconnect_ok = s.reconnect_ok
  /\ p.server = s.server /\ p.resultsets = s.resultsets /\ p.wire = s.wire /\ p.error = s.error
  /\ s.sets[r].connection => p.fault = s.fault
  /\ p.sets[r] = [s.sets[r] EXCEPT !.cache = c]
  /\ \A q \in ResultSets : q # r => p.sets[q] = s.sets[q]
  /\ Headed(p.tasks, s.tasks, k)

LEMMA NewIs ==
  ASSUME NEW start \in Nat, NEW k \in Nat, NEW b \in ServerSet, NEW origin \in Nat
  PROVE  /\ New(start, k, b, origin) \subseteq Record
         /\ \A e \in Record : Clear(New(start, k, b, origin), e) <=> e.at \notin start .. start + k - 1
         /\ k = 0 => New(start, k, b, origin) = {}
<1> DEFINE N == New(start, k, b, origin)
           f(i) == [at |-> start + i, set |-> b.set, order |-> b.order, pos |-> origin + i,
                    diag |-> FALSE]
<1>1. \A i \in 0 .. k - 1 : start + i \in Nat /\ origin + i \in Nat
  OBVIOUS
<1>2. b.set \in ResultSets /\ b.order \in Nat
  BY DEF ServerSet
<1>3. ASSUME NEW i \in 0 .. k - 1 PROVE f(i) \in Record /\ f(i).at = start + i /\ f(i) \in N
  BY <1>1, <1>2 DEF Record, New
<1>4. \A n \in N : \E i \in 0 .. k - 1 : n = f(i)
  BY DEF New
<1>5. k = 0 => 0 .. k - 1 = {}
  OBVIOUS
<1> HIDE DEF N, f
<1>6. N \subseteq Record /\ (k = 0 => N = {})
  BY <1>3, <1>4, <1>5
<1>7. ASSUME NEW e \in Record PROVE Clear(N, e) <=> e.at \notin start .. start + k - 1
  <2>1. Clear(N, e) <=> \A i \in 0 .. k - 1 : start + i # e.at
    BY <1>3, <1>4 DEF Clear
  <2>2. ASSUME NEW a \in Nat
        PROVE  (\A i \in 0 .. k - 1 : start + i # a) <=> a \notin start .. start + k - 1
    <3>1. \A i \in 0 .. k - 1 : start + i \in start .. start + k - 1
      OBVIOUS
    <3>2. ASSUME a \in start .. start + k - 1 PROVE a - start \in 0 .. k - 1 /\ start + (a - start) = a
      BY <3>2
    <3> QED BY <3>1, <3>2
  <2>3. e.at \in Nat
    BY DEF Record
  <2> QED BY <2>1, <2>2, <2>3
<1> QED BY <1>6, <1>7 DEF N

\* ZOOM_record_cache_add
LEMMA CacheAddIs ==
  ASSUME NEW s \in RsState, NEW r \in ResultSets, NEW start \in Nat, NEW k \in Nat,
         NEW b \in ServerSet, NEW origin \in Nat, s.tasks # <<>>,
         NEW p, p = CacheAdd(s, r, start, k, b, origin)
  PROVE  Took(p, s, r, Renewed(s.sets[r].cache, New(start, k, b, origin)), Head(s.tasks))
<1> DEFINE x == s.sets[r]
           N == New(start, k, b, origin)
           c == Renewed(x.cache, N)
           y == [x EXCEPT !.cache = c]
<1>1. /\ x \in ResultSet /\ x.cache \subseteq Record /\ N \subseteq Record
      /\ s.tasks \in Seq(Task)
  <2>1. x \in ResultSet /\ s.tasks \in Seq(Task)
    BY DEF RsState
  <2> QED BY <2>1, NewIs DEF ResultSet
<1>2. Headed(s.tasks, s.tasks, Head(s.tasks))
  BY <1>1, HeadIs DEF Headed
<1>3. CASE k = 0
  <2>1. c = x.cache
    <3>1. N = {}
      BY <1>3, NewIs
    <3> HIDE DEF N
    <3> QED BY <3>1 DEF Renewed, Clear
  <2>2. [x EXCEPT !.cache = c] = x
    <3> HIDE DEF c
    <3> QED BY <1>1, <2>1 DEF ResultSet
  <2>3. p = [s EXCEPT !.odd = ~ s.odd]
    BY <1>3 DEF CacheAdd
  <2> HIDE DEF c
  <2>4. /\ p \in RsState /\ p.open = s.open /\ p.up = s.up /\ p.reconnect_ok = s.reconnect_ok
        /\ p.server = s.server /\ p.resultsets = s.resultsets /\ p.wire = s.wire
        /\ p.error = s.error /\ p.fault = s.fault /\ p.sets = s.sets /\ p.tasks = s.tasks
    BY <2>3 DEF RsState
  <2>5. Took(p, s, r, c, Head(s.tasks))
    BY <1>2, <2>2, <2>4 DEF Took
  <2> QED BY <2>5 DEF c
<1>4. CASE k # 0
  <2> DEFINE base == IF x.connection THEN s ELSE Fault(s, "RELEASED")
  <2>1. /\ base \in RsState /\ Still(base, s) /\ base.wire = s.wire /\ base.tasks = s.tasks
        /\ base.error = s.error /\ base.sets = s.sets
        /\ x.connection => base.fault = s.fault
    <3>1. CASE x.connection BY <3>1 DEF Still
    <3>2. CASE ~ x.connection
      <4>1. "RELEASED" \in Faults /\ base = Fault(s, "RELEASED") BY <3>2 DEF Faults
      <4> HIDE DEF base
      <4> QED BY <3>2, <4>1, FaultIs
    <3> QED BY <3>1, <3>2
  <2>2. c = {e \in x.cache : e.at \notin start .. start + k - 1} \cup N
    <3>1. \A e \in x.cache : Clear(N, e) <=> e.at \notin start .. start + k - 1
      BY <1>1, NewIs
    <3> HIDE DEF N
    <3> QED BY <3>1 DEF Renewed
  <2>3. p = [base EXCEPT !.sets[r].cache = c]
    <3> HIDE DEF c
    <3> QED BY <1>4, <2>2 DEF CacheAdd, New
  <2>4. y \in ResultSet
    <3>1. c \subseteq Record
      BY <1>1 DEF Renewed
    <3> HIDE DEF c
    <3> QED BY <1>1, <3>1 DEF ResultSet
  <2> HIDE DEF base, c
  <2>5. p = WithSet(base, r, y)
    BY <2>1, <2>3 DEF WithSet
  <2> HIDE DEF y
  <2>6. /\ p \in RsState /\ p.sets[r] = y /\ \A q \in ResultSets : q # r => p.sets[q] = base.sets[q]
        /\ p.tasks = base.tasks /\ p.error = base.error /\ p.fault = base.fault
        /\ p.open = base.open /\ p.up = base.up /\ p.reconnect_ok = base.reconnect_ok
        /\ p.wire = base.wire /\ p.server = base.server /\ p.resultsets = base.resultsets
    <3>1. base \in RsState
      BY <2>1
    <3> QED BY <2>4, <2>5, <3>1, SetIs
  <2>7. Took(p, s, r, c, Head(s.tasks))
    BY <1>2, <2>1, <2>6 DEF Took, Still, y
  <2> QED BY <2>7 DEF c
<1> QED BY <1>3, <1>4

WithHead(s, k) == [s EXCEPT !.tasks[1] = k]

LEMMA TookHead ==
  ASSUME NEW s \in RsState, s.tasks # <<>>, NEW r \in ResultSets, NEW c, NEW t \in Task,
         NEW u, Took(u, s, r, c, t), NEW k \in Task, NEW p, p = WithHead(u, k)
  PROVE  Took(p, s, r, c, k) /\ u.tasks # <<>> /\ u.tasks[1] = t
<1> DEFINE ts == [u.tasks EXCEPT ![1] = k]
<1>1. /\ u \in RsState /\ u.tasks \in Seq(Task) /\ u.tasks # <<>> /\ Len(u.tasks) = Len(s.tasks)
      /\ u.tasks[1] = t /\ \A i \in 1..Len(s.tasks) : i # 1 => u.tasks[i] = s.tasks[i]
  BY DEF Took, Headed, RsState
<1>2. Headed(ts, u.tasks, k) /\ ts \in Seq(Task)
  BY <1>1, HeadIs DEF Headed
<1> HIDE DEF ts
<1>3. p = [u EXCEPT !.tasks = ts]
  BY DEF WithHead, ts
<1>4. p \in RsState
  BY <1>1, <1>2, <1>3 DEF RsState
<1>5. /\ p.tasks = ts /\ p.open = u.open /\ p.up = u.up /\ p.reconnect_ok = u.reconnect_ok
      /\ p.server = u.server /\ p.resultsets = u.resultsets /\ p.wire = u.wire
      /\ p.error = u.error /\ p.fault = u.fault /\ p.sets = u.sets
  BY <1>1, <1>3 DEF RsState
<1>6. Headed(ts, s.tasks, k)
  BY <1>1, <1>2 DEF Headed
<1>7. /\ u.open = s.open /\ u.up = s.up /\ u.reconnect_ok = s.reconnect_ok
      /\ u.server = s.server /\ u.resultsets = s.resultsets /\ u.wire = s.wire
      /\ u.error = s.error /\ s.sets[r].connection => u.fault = s.fault
  BY DEF Took
<1>8. /\ u.sets[r] = [s.sets[r] EXCEPT !.cache = c]
      /\ \A q \in ResultSets : q # r => u.sets[q] = s.sets[q]
  BY DEF Took
<1>9. Took(p, s, r, c, k)
  BY <1>4, <1>5, <1>6, <1>7, <1>8 DEF Took
<1> QED BY <1>1, <1>9

\* A present response without records
LEMMA CacheDiagnosticIs ==
  ASSUME NEW s \in RsState, NEW r \in ResultSets, NEW start \in Nat, s.tasks # <<>>,
         NEW p, p = CacheDiagnostic(s, r, start)
  PROVE  Took(p, s, r, Renewed(s.sets[r].cache, {Told(start, r)}), Head(s.tasks))
<1> DEFINE x == s.sets[r]
           c == Renewed(x.cache, {Told(start, r)})
           y == [x EXCEPT !.cache = c]
           base == IF x.connection THEN s ELSE Fault(s, "RELEASED")
<1>1. x \in ResultSet /\ x.cache \subseteq Record /\ s.tasks \in Seq(Task)
  BY DEF RsState, ResultSet
<1>2. Headed(s.tasks, s.tasks, Head(s.tasks))
  BY <1>1, HeadIs DEF Headed
<1>3. Told(start, r) \in Record
  BY DEF Told, Record
<1>4. /\ base \in RsState /\ Still(base, s) /\ base.wire = s.wire /\ base.tasks = s.tasks
      /\ base.error = s.error /\ base.sets = s.sets
      /\ x.connection => base.fault = s.fault
  <2>1. CASE x.connection BY <2>1 DEF Still
  <2>2. CASE ~ x.connection
    <3>1. "RELEASED" \in Faults /\ base = Fault(s, "RELEASED") BY <2>2 DEF Faults
    <3> HIDE DEF base
    <3> QED BY <2>2, <3>1, FaultIs
  <2> QED BY <2>1, <2>2
<1>5. c = {e \in x.cache : e.at # start} \cup {Told(start, r)}
  BY DEF Renewed, Clear, Told
<1>6. p = [base EXCEPT !.sets[r].cache = c]
  <2> HIDE DEF c
  <2>1. base.sets[r].cache = x.cache
    BY <1>4
  <2> QED BY <1>5, <2>1 DEF CacheDiagnostic, Told
<1>7. y \in ResultSet
  <2>1. c \subseteq Record
    BY <1>1, <1>3 DEF Renewed
  <2> HIDE DEF c
  <2> QED BY <1>1, <2>1 DEF ResultSet
<1> HIDE DEF base, c
<1>8. p = WithSet(base, r, y)
  BY <1>4, <1>6 DEF WithSet
<1> HIDE DEF y
<1>9. /\ p \in RsState /\ p.sets[r] = y /\ \A q \in ResultSets : q # r => p.sets[q] = base.sets[q]
      /\ p.tasks = base.tasks /\ p.error = base.error /\ p.fault = base.fault
      /\ p.open = base.open /\ p.up = base.up /\ p.reconnect_ok = base.reconnect_ok
      /\ p.wire = base.wire /\ p.server = base.server /\ p.resultsets = base.resultsets
  <2>1. base \in RsState
    BY <1>4
  <2> QED BY <1>7, <1>8, <2>1, SetIs
<1>10. Took(p, s, r, c, Head(s.tasks))
  BY <1>2, <1>4, <1>9 DEF Took, Still, y
<1> QED BY <1>10 DEF c

LEMMA TookTwice ==
  ASSUME NEW s \in RsState, s.tasks # <<>>, NEW r \in ResultSets, NEW c, NEW t, NEW u, Took(u, s, r, c, t),
         NEW d, NEW k, NEW p, Took(p, u, r, d, k)
  PROVE  Took(p, s, r, d, k)
<1>1. /\ u.open = s.open /\ u.up = s.up /\ u.reconnect_ok = s.reconnect_ok
      /\ u.server = s.server /\ u.resultsets = s.resultsets /\ u.wire = s.wire
      /\ u.error = s.error /\ (s.sets[r].connection => u.fault = s.fault)
      /\ u.sets[r] = [s.sets[r] EXCEPT !.cache = c] /\ Headed(u.tasks, s.tasks, t)
      /\ \A q \in ResultSets : q # r => u.sets[q] = s.sets[q]
  BY DEF Took
<1>2. /\ p \in RsState /\ p.open = u.open /\ p.up = u.up /\ p.reconnect_ok = u.reconnect_ok
      /\ p.server = u.server /\ p.resultsets = u.resultsets /\ p.wire = u.wire
      /\ p.error = u.error /\ (u.sets[r].connection => p.fault = u.fault)
      /\ p.sets[r] = [u.sets[r] EXCEPT !.cache = d] /\ Headed(p.tasks, u.tasks, k)
      /\ \A q \in ResultSets : q # r => p.sets[q] = u.sets[q]
  BY DEF Took
<1>3. s.sets[r] \in ResultSet
  BY DEF RsState
<1>4. u.sets[r].connection = s.sets[r].connection /\ p.sets[r] = [s.sets[r] EXCEPT !.cache = d]
  <2> DEFINE x == s.sets[r]
  <2>1. x \in ResultSet /\ u.sets[r] = [x EXCEPT !.cache = c]
    BY <1>1, <1>3
  <2> HIDE DEF x
  <2>2. [[x EXCEPT !.cache = c] EXCEPT !.cache = d] = [x EXCEPT !.cache = d]
    BY <2>1 DEF ResultSet
  <2>3. [x EXCEPT !.cache = c].connection = x.connection
    BY <2>1 DEF ResultSet
  <2> QED BY <1>2, <2>1, <2>2, <2>3 DEF x
<1>5. Headed(p.tasks, s.tasks, k)
  BY <1>1, <1>2 DEF Headed
<1> QED BY <1>1, <1>2, <1>4, <1>5 DEF Took

\* What is left of the range of t in the set x.
Left(t, x) == Least(t.count, IF t.start < x.size THEN x.size - t.start ELSE 0)

HandledTask(t, x, k, present_phase) ==
  IF present_phase /\ k = 0 THEN [t EXCEPT !.count = 0]
  ELSE [t EXCEPT !.count = Left(t, x) - Least(k, Left(t, x)), !.start = t.start + k]

HandledCache(t, x, k, b, origin, present_phase) ==
  IF present_phase /\ k = 0 THEN Renewed(x.cache, {Told(t.start, t.resultset)})
  ELSE Renewed(x.cache, New(t.start, k, b, origin))

LEMMA HandledTaskIs ==
  ASSUME NEW t \in Task, NEW x \in ResultSet, NEW k \in Nat, NEW ph \in BOOLEAN
  PROVE  /\ Left(t, x) \in Nat
         /\ HandledTask(t, x, k, ph) \in Task
         /\ HandledTask(t, x, k, ph).which = t.which
         /\ HandledTask(t, x, k, ph).resultset = t.resultset
         /\ HandledTask(t, x, k, ph).running = t.running
         /\ HandledTask(t, x, k, ph).from = t.from /\ HandledTask(t, x, k, ph).upto = t.upto
         /\ HandledTask(t, x, k, ph).start = IF ph /\ k = 0 THEN t.start ELSE t.start + k
         /\ HandledTask(t, x, k, ph).count
              = IF ph /\ k = 0 THEN 0 ELSE Left(t, x) - Least(k, Left(t, x))
<1>1. t.start \in Nat /\ t.count \in Nat /\ x.size \in Nat
  BY DEF Task, ResultSet
<1>2. Left(t, x) \in Nat
  BY <1>1 DEF Left, Least
<1>3. Left(t, x) - Least(k, Left(t, x)) \in Nat /\ t.start + k \in Nat
  BY <1>1, <1>2 DEF Least
<1>4. CASE ph /\ k = 0
  BY <1>2, <1>4 DEF HandledTask, Task
<1>5. CASE ~(ph /\ k = 0)
  <2> DEFINE m == Left(t, x) - Least(k, Left(t, x))
             n == t.start + k
  <2>1. HandledTask(t, x, k, ph) = [t EXCEPT !.count = m, !.start = n]
    BY <1>5 DEF HandledTask
  <2>2. m \in Nat /\ n \in Nat
    BY <1>3
  <2> HIDE DEF m, n
  <2> QED BY <1>2, <1>5, <2>1, <2>2 DEF Task, m, n
<1> QED BY <1>4, <1>5

\* The first task has got k records, and n are left.
MovesOn(s, n, k) == [s EXCEPT !.tasks[1].count = n, !.tasks[1].start = @ + k]

LEMMA MovedOn ==
  ASSUME NEW s \in RsState, s.tasks # <<>>, NEW r \in ResultSets, NEW c, NEW t \in Task,
         NEW added, Took(added, s, r, c, t), NEW n \in Nat, NEW k \in Nat,
         NEW p, p = MovesOn(added, n, k)
  PROVE  Took(p, s, r, c, [t EXCEPT !.count = n, !.start = t.start + k])
<1> DEFINE z == [t EXCEPT !.count = n]
           w == [z EXCEPT !.start = t.start + k]
           u == WithHead(added, z)
<1>1. p = [[added EXCEPT !.tasks[1].count = n] EXCEPT !.tasks[1].start = added.tasks[1].start + k]
  BY DEF MovesOn
<1>2. z \in Task /\ w \in Task
  <2>1. t.start + k \in Nat
    BY DEF Task
  <2>2. z \in Task
    BY DEF Task
  <2> HIDE DEF z
  <2> QED BY <2>1, <2>2 DEF Task
<1>3. added.tasks # <<>> /\ added.tasks[1] = t
  BY DEF Took, Headed
<1>4. Took(u, s, r, c, z) /\ u.tasks[1] = z
  <2> HIDE DEF z, u
  <2>1. u = WithHead(added, z)
    BY DEF u
  <2>2. Took(u, s, r, c, z)
    BY <1>2, <2>1, TookHead
  <2> QED BY <2>2 DEF Took, Headed
<1>5. p = WithHead(u, w)
  <2>1. [added EXCEPT !.tasks[1].count = n] = u
    BY <1>3 DEF WithHead
  <2> HIDE DEF u, z
  <2>2. p = [u EXCEPT !.tasks[1].start = t.start + k]
    BY <1>1, <1>3, <2>1
  <2> QED BY <1>4, <2>2 DEF WithHead
<1>6. Took(p, s, r, c, w)
  <2> HIDE DEF z, w, u
  <2> QED BY <1>2, <1>4, <1>5, TookHead
<1> QED BY <1>6

\* What does not change of the task
SameTask(h, t) ==
  /\ h \in Task /\ h.which = t.which /\ h.resultset = t.resultset
  /\ h.running = t.running /\ h.from = t.from /\ h.upto = t.upto

LEMMA HandledTaskSame ==
  ASSUME NEW t \in Task, NEW x \in ResultSet, NEW k \in Nat
  PROVE  \A ph \in BOOLEAN : SameTask(HandledTask(t, x, k, ph), t)
<1> SUFFICES ASSUME NEW ph \in BOOLEAN, NEW h, h = HandledTask(t, x, k, ph) PROVE SameTask(h, t)
  OBVIOUS
<1> SUFFICES /\ h \in Task /\ h.which = t.which /\ h.resultset = t.resultset
             /\ h.running = t.running /\ h.from = t.from /\ h.upto = t.upto
  BY DEF SameTask
<1>1. Left(t, x) - Least(k, Left(t, x)) \in Nat /\ t.start + k \in Nat
  <2>1. Left(t, x) \in Nat
    BY HandledTaskIs
  <2>2. t.start \in Nat
    BY DEF Task
  <2> QED BY <2>1, <2>2 DEF Least
<1>2. CASE ph /\ k = 0
  <2>1. h = [t EXCEPT !.count = 0]
    BY <1>2 DEF HandledTask
  <2> QED BY <2>1 DEF Task
<1>3. CASE ~(ph /\ k = 0)
  <2> DEFINE m == Left(t, x) - Least(k, Left(t, x))
             n == t.start + k
  <2>1. h = [t EXCEPT !.count = m, !.start = n]
    BY <1>3 DEF HandledTask
  <2>2. m \in Nat /\ n \in Nat
    BY <1>1
  <2> HIDE DEF m, n
  <2> QED BY <2>1, <2>2 DEF Task
<1> QED BY <1>2, <1>3

\* handle_Z3950_records
LEMMA HandleRecordsIs ==
  ASSUME NEW s \in RsState, s.tasks # <<>>,
         NEW k \in Nat, NEW b \in ServerSet, NEW origin \in Nat, NEW ph \in BOOLEAN,
         NEW p, p = HandleRecords(s, k, b, origin, ph)
  PROVE  LET t == Head(s.tasks)
             x == s.sets[t.resultset]
         IN  Took(p, s, t.resultset, HandledCache(t, x, k, b, origin, ph), HandledTask(t, x, k, ph))
<1> DEFINE t == Head(s.tasks)
           r == t.resultset
           x == s.sets[r]
           added == CacheAdd(s, r, t.start, k, b, origin)
           count == Left(t, x)
           told == CacheDiagnostic(added, r, t.start)
<1>1. /\ t \in Task /\ r \in ResultSets /\ x \in ResultSet /\ t.start \in Nat /\ t.count \in Nat
      /\ s.tasks \in Seq(Task)
  <2>1. s.tasks \in Seq(Task)
    BY DEF RsState
  <2>2. t \in Task
    BY <2>1, HeadIs
  <2> QED BY <2>1, <2>2 DEF RsState, Task
<1>2. p = IF ph /\ k = 0 THEN [told EXCEPT !.tasks[1].count = 0]
          ELSE [added EXCEPT !.tasks[1].count = count - Least(k, count), !.tasks[1].start = @ + k]
  BY DEF HandleRecords, Left
<1>a. s.sets[r] = x
  OBVIOUS
<1>b. SUFFICES Took(p, s, r, HandledCache(t, x, k, b, origin, ph), HandledTask(t, x, k, ph))
  OBVIOUS
<1> HIDE DEF t, x
<1>3. Took(added, s, r, Renewed(x.cache, New(t.start, k, b, origin)), t)
  <2> HIDE DEF added
  <2>1. added = CacheAdd(s, r, t.start, k, b, origin)
    BY DEF added
  <2>2. t = Head(s.tasks)
    BY DEF t
  <2> HIDE DEF r
  <2> QED BY <1>1, <2>2, <1>a, <2>1, CacheAddIs
<1> HIDE DEF added
<1>4. CASE ph /\ k = 0
  <2> DEFINE d == Renewed(x.cache, {Told(t.start, r)})
             z == [t EXCEPT !.count = 0]
  <2>1. added \in RsState /\ added.tasks # <<>> /\ Head(added.tasks) = t
    BY <1>3 DEF Took, Headed
  <2>2. added.sets[r].cache = x.cache
    <3>1. New(t.start, k, b, origin) = {}
      BY <1>1, <1>4, NewIs
    <3>2. Renewed(x.cache, New(t.start, k, b, origin)) = x.cache
      BY <3>1 DEF Renewed, Clear
    <3> QED BY <1>1, <1>3, <1>a, <3>2 DEF Took, ResultSet
  <2>3. Took(told, added, r, Renewed(added.sets[r].cache, {Told(t.start, r)}), t)
    <3> HIDE DEF r
    <3> QED BY <1>1, <2>1, CacheDiagnosticIs
  <2>4. Took(told, added, r, d, t)
    BY <2>2, <2>3
  <2> HIDE DEF d, told
  <2>5. Took(told, s, r, d, t)
    <3> HIDE DEF r
    <3> QED BY <1>1, <1>3, <2>4, TookTwice
  <2>6. told.tasks[1] = t
    BY <2>5 DEF Took, Headed
  <2>7. p = WithHead(told, z)
    BY <1>2, <1>4, <2>6 DEF WithHead
  <2>8. z \in Task
    BY <1>1 DEF Task
  <2>9. Took(p, s, r, d, z)
    <3> HIDE DEF r, z
    <3> QED BY <1>1, <2>5, <2>7, <2>8, TookHead
  <2>10. d = HandledCache(t, x, k, b, origin, ph) /\ z = HandledTask(t, x, k, ph)
    BY <1>4 DEF HandledCache, HandledTask, d
  <2> QED BY <2>9, <2>10
<1>5. CASE ~(ph /\ k = 0)
  <2> DEFINE c == Renewed(x.cache, New(t.start, k, b, origin))
             n == count - Least(k, count)
             w == [t EXCEPT !.count = n, !.start = t.start + k]
  <2>1. n \in Nat
    <3>1. count \in Nat
      BY <1>1, HandledTaskIs
    <3> HIDE DEF count
    <3> QED BY <1>1, <3>1 DEF Least
  <2>2. p = MovesOn(added, n, k)
    <3> HIDE DEF count
    <3> QED BY <1>2, <1>5 DEF MovesOn
  <2>3. w = HandledTask(t, x, k, ph)
    <3> HIDE DEF r
    <3> QED BY <1>5 DEF HandledTask
  <2>4. c = HandledCache(t, x, k, b, origin, ph)
    BY <1>5 DEF HandledCache
  <2> HIDE DEF n, c
  <2>5. Took(added, s, r, c, t)
    BY <1>3 DEF c
  <2>6. Took(p, s, r, c, w)
    <3> HIDE DEF r
    <3> QED BY <1>1, <2>1, <2>2, <2>5, MovedOn
  <2> QED BY <2>3, <2>4, <2>6
<1> QED BY <1>4, <1>5

\* The task of an SRU response with k records
SruTask(t, k) == [t EXCEPT !.count = t.count - Least(k, t.count), !.start = t.start + k]

LEMMA SruTaskIs ==
  ASSUME NEW t \in Task, NEW k \in Nat
  PROVE  /\ SruTask(t, k) \in Task /\ t.count - Least(k, t.count) \in Nat
         /\ SruTask(t, k).which = t.which /\ SruTask(t, k).resultset = t.resultset
         /\ SruTask(t, k).running = t.running /\ SruTask(t, k).start = t.start + k
         /\ SruTask(t, k).from = t.from /\ SruTask(t, k).upto = t.upto
<1> DEFINE m == t.count - Least(k, t.count)
           n == t.start + k
<1>1. t.count \in Nat /\ t.start \in Nat
  BY DEF Task
<1>2. m \in Nat /\ n \in Nat
  BY <1>1 DEF Least
<1>3. SruTask(t, k) = [t EXCEPT !.count = m, !.start = n]
  BY DEF SruTask
<1> HIDE DEF m, n
<1>4. /\ SruTask(t, k) \in Task
      /\ SruTask(t, k).which = t.which /\ SruTask(t, k).resultset = t.resultset
      /\ SruTask(t, k).running = t.running /\ SruTask(t, k).start = n
      /\ SruTask(t, k).from = t.from /\ SruTask(t, k).upto = t.upto
  BY <1>2, <1>3 DEF Task
<1> QED BY <1>2, <1>4 DEF m, n

\* A page of k records: each is the record that is counted, or one behind it
\* whose position is told.
Counted(q, x, i) == x.pos = q.start + i - 1 /\ x.told <= x.pos + 1
Behind(q, x, i) == x.pos >= q.start + i /\ x.told = x.pos + 1

LEMMA PageIs ==
  ASSUME NEW q, NEW k \in Nat, NEW page \in Pages(q, k)
  PROVE  /\ DOMAIN page = 1 .. k /\ Len(page) = k /\ (k = 0 <=> page = <<>>)
         /\ \A i \in 1 .. k : /\ page[i].pos \in Nat /\ page[i].told \in Nat
                              /\ Counted(q, page[i], i) \/ ("gaps" \in Liberties /\ Behind(q, page[i], i))
<1> DEFINE Of == [pos : 0 .. MaxHits, told : 0 .. MaxHits]
<1>1. page \in [1 .. k -> Of]
  BY DEF Pages
<1>2. page \in Seq(Of)
  BY <1>1, SeqDef
<1>3. DOMAIN page = 1 .. k /\ Len(page) = k
  <2> HIDE DEF Of
  <2>1. DOMAIN page = 1 .. Len(page) /\ Len(page) \in Nat
    BY <1>2, LenProperties
  <2>2. DOMAIN page = 1 .. k
    BY <1>1
  <2> DEFINE m == Len(page)
  <2>3. m \in Nat /\ 1 .. m = 1 .. k
    BY <2>1, <2>2
  <2> HIDE DEF m
  <2>4. ~ (m < k)
    <3>1. m < k => k \in 1 .. k /\ k \notin 1 .. m
      BY <2>3
    <3> QED BY <2>3, <3>1
  <2>5. ~ (k < m)
    <3>1. k < m => m \in 1 .. m /\ m \notin 1 .. k
      BY <2>3
    <3> QED BY <2>3, <3>1
  <2>6. m = k
    BY <2>3, <2>4, <2>5
  <2> QED BY <2>2, <2>6 DEF m
<1>4. k = 0 <=> page = <<>>
  <2> HIDE DEF Of
  <2> QED BY <1>2, <1>3, EmptySeq
<1>5. ASSUME NEW i \in 1 .. k
      PROVE  /\ page[i].pos \in Nat /\ page[i].told \in Nat
             /\ Counted(q, page[i], i) \/ ("gaps" \in Liberties /\ Behind(q, page[i], i))
  <2>1. page[i] \in Of
    BY <1>1
  <2>2. page[i].pos \in 0 .. MaxHits /\ page[i].told \in 0 .. MaxHits
    BY <2>1
  <2>3. Counted(q, page[i], i) \/ ("gaps" \in Liberties /\ Behind(q, page[i], i))
    BY DEF Pages, Counted, Behind
  <2> QED BY <2>2, <2>3, RsAssumption
<1> QED BY <1>3, <1>4, <1>5

\* A record goes to its own position.
LEMMA PlaceIsPos ==
  ASSUME NEW q, NEW t \in Task, q.start = t.start, NEW k \in Nat, NEW page \in Pages(q, k),
         NEW i \in 1 .. k
  PROVE  /\ SruPlace(t, page, i) = page[i].pos /\ page[i].pos \in Nat
         /\ "gaps" \notin Liberties => SruPlace(t, page, i) = t.start + i - 1
<1> DEFINE a == t.start
           b == page[i].pos
           c == page[i].told
<1>1. a \in Nat /\ b \in Nat /\ c \in Nat /\ i \in Nat
  BY PageIs DEF Task
<1>2. \/ b = a + i - 1 /\ c <= b + 1
      \/ "gaps" \in Liberties /\ b >= a + i /\ c = b + 1
  BY PageIs DEF Counted, Behind
<1>3. SruPlace(t, page, i) = IF c >= a + i THEN c - 1 ELSE a + i - 1
  BY DEF SruPlace
<1> HIDE DEF a, b, c
<1>4. SruPlace(t, page, i) = b
  BY <1>1, <1>2, <1>3
<1> QED BY <1>1, <1>2, <1>4 DEF a, b

\* What a page adds to the cache of x.
LEMMA SruRecordsAre ==
  ASSUME NEW q, q.set \in ResultSets, NEW t \in Task, q.start = t.start,
         NEW k \in Nat, NEW page \in Pages(q, k), NEW x, NEW N, N = SruRecords(x, t, q, page)
  PROVE  /\ N \subseteq Record /\ (k = 0 => N = {})
         /\ \A e \in N : /\ e.set = q.set /\ e.order = 0 /\ e.pos = e.at /\ ~ e.diag
                         /\ e.at \notin Cached(x)
         /\ "gaps" \notin Liberties =>
              \A j \in 0 .. k - 1 : t.start + j \in Cached(x) \/ \E e \in N : e.at = t.start + j
<1> DEFINE at(i) == SruPlace(t, page, i)
           added == {i \in DOMAIN page : /\ at(i) \notin Cached(x)
                                         /\ \A j \in 1 .. i - 1 : at(j) # at(i)}
           e(i) == [at |-> at(i), set |-> q.set, order |-> 0, pos |-> page[i].pos, diag |-> FALSE]
<1>1. N = {e(i) : i \in added}
  BY DEF SruRecords
<1>2. DOMAIN page = 1 .. k /\ t.start \in Nat
  BY PageIs DEF Task
<1>3. \A i \in 1 .. k : at(i) = page[i].pos /\ page[i].pos \in Nat
  BY PlaceIsPos
<1>4. "gaps" \notin Liberties => \A i \in 1 .. k : at(i) = t.start + i - 1
  BY PlaceIsPos
<1> HIDE DEF at
<1>5. ASSUME NEW i \in added
      PROVE  /\ e(i) \in Record /\ e(i).set = q.set /\ e(i).order = 0 /\ e(i).pos = e(i).at
             /\ ~ e(i).diag /\ e(i).at \notin Cached(x) /\ k # 0
  <2>1. i \in 1 .. k /\ at(i) \notin Cached(x)
    BY <1>2
  <2>2. at(i) = page[i].pos /\ at(i) \in Nat
    BY <1>3, <2>1
  <2>3. k # 0
    BY <2>1
  <2> QED BY <2>1, <2>2, <2>3 DEF Record
<1>6. ASSUME "gaps" \notin Liberties, NEW j \in 0 .. k - 1, t.start + j \notin Cached(x)
      PROVE  \E n \in N : n.at = t.start + j
  <2> DEFINE i == j + 1
  <2>1. i \in 1 .. k /\ i \in Nat /\ at(i) = t.start + j
    BY <1>2, <1>4, <1>6
  <2>2. ASSUME NEW m \in 1 .. i - 1 PROVE at(m) # at(i)
    <3>1. m \in 1 .. k /\ m # i
      BY <2>1
    <3>2. at(m) = t.start + m - 1 /\ at(i) = t.start + i - 1
      BY <1>4, <1>6, <2>1, <3>1
    <3> QED BY <1>2, <3>1, <3>2
  <2> HIDE DEF i
  <2>3. i \in added
    BY <1>2, <1>6, <2>1, <2>2
  <2>4. e(i) \in N /\ e(i).at = t.start + j
    BY <1>1, <2>1, <2>3
  <2> HIDE DEF added, e
  <2> QED BY <2>4
<1> HIDE DEF added, e
<1>7. N \subseteq Record
  BY <1>1, <1>5
<1>8. k = 0 => N = {}
  BY <1>1, <1>5
<1>9. \A n \in N : /\ n.set = q.set /\ n.order = 0 /\ n.pos = n.at /\ ~ n.diag
                   /\ n.at \notin Cached(x)
  BY <1>1, <1>5
<1> QED BY <1>6, <1>7, <1>8, <1>9

\* The records are added to the cache
LEMMA SruCacheAddIs ==
  ASSUME NEW s \in RsState, NEW r \in ResultSets, s.tasks # <<>>,
         NEW t, NEW q, NEW page, NEW N, N = SruRecords(s.sets[r], t, q, page), N \subseteq Record,
         \A e \in N : e.at \notin Cached(s.sets[r]), page = <<>> => N = {},
         NEW p, p = SruCacheAdd(s, r, t, q, page)
  PROVE  Took(p, s, r, Renewed(s.sets[r].cache, N), Head(s.tasks))
<1> DEFINE x == s.sets[r]
           c == Renewed(x.cache, N)
           y == [x EXCEPT !.cache = c]
<1>1. x \in ResultSet /\ x.cache \subseteq Record /\ s.tasks \in Seq(Task)
  BY DEF RsState, ResultSet
<1>2. Headed(s.tasks, s.tasks, Head(s.tasks))
  BY <1>1, HeadIs DEF Headed
<1>3. c = x.cache \cup N
  <2>1. \A e \in x.cache : Clear(N, e)
    BY DEF Clear, Cached
  <2> QED BY <2>1 DEF Renewed
<1>4. CASE page = <<>>
  <2>1. c = x.cache
    BY <1>3, <1>4
  <2>2. [x EXCEPT !.cache = c] = x
    <3> HIDE DEF c
    <3> QED BY <1>1, <2>1 DEF ResultSet
  <2>3. p = [s EXCEPT !.odd = ~ s.odd]
    BY <1>4 DEF SruCacheAdd
  <2> HIDE DEF c
  <2>4. /\ p \in RsState /\ p.open = s.open /\ p.up = s.up /\ p.reconnect_ok = s.reconnect_ok
        /\ p.server = s.server /\ p.resultsets = s.resultsets /\ p.wire = s.wire
        /\ p.error = s.error /\ p.fault = s.fault /\ p.sets = s.sets /\ p.tasks = s.tasks
    BY <2>3 DEF RsState
  <2>5. Took(p, s, r, c, Head(s.tasks))
    BY <1>2, <2>2, <2>4 DEF Took
  <2> QED BY <2>5 DEF c
<1>5. CASE page # <<>>
  <2> DEFINE base == IF x.connection THEN s ELSE Fault(s, "RELEASED")
  <2>1. /\ base \in RsState /\ Still(base, s) /\ base.wire = s.wire /\ base.tasks = s.tasks
        /\ base.error = s.error /\ base.sets = s.sets
        /\ x.connection => base.fault = s.fault
    <3>1. CASE x.connection BY <3>1 DEF Still
    <3>2. CASE ~ x.connection
      <4>1. "RELEASED" \in Faults /\ base = Fault(s, "RELEASED") BY <3>2 DEF Faults
      <4> HIDE DEF base
      <4> QED BY <3>2, <4>1, FaultIs
    <3> QED BY <3>1, <3>2
  <2>2. p = [base EXCEPT !.sets[r].cache = @ \cup N]
    BY <1>5 DEF SruCacheAdd
  <2>3. base.sets[r].cache = x.cache
    BY <2>1
  <2> HIDE DEF base
  <2>4. p = [base EXCEPT !.sets[r].cache = c]
    <3> HIDE DEF c, x
    <3> QED BY <1>3, <2>2, <2>3
  <2>5. y \in ResultSet
    <3>1. c \subseteq Record
      BY <1>1, <1>3
    <3> HIDE DEF c
    <3> QED BY <1>1, <3>1 DEF ResultSet
  <2> HIDE DEF c
  <2>6. p = WithSet(base, r, y)
    BY <2>1, <2>4 DEF WithSet
  <2> HIDE DEF y
  <2>7. /\ p \in RsState /\ p.sets[r] = y /\ \A o \in ResultSets : o # r => p.sets[o] = base.sets[o]
        /\ p.tasks = base.tasks /\ p.error = base.error /\ p.fault = base.fault
        /\ p.open = base.open /\ p.up = base.up /\ p.reconnect_ok = base.reconnect_ok
        /\ p.wire = base.wire /\ p.server = base.server /\ p.resultsets = base.resultsets
    <3>1. base \in RsState
      BY <2>1
    <3> QED BY <2>5, <2>6, <3>1, SetIs
  <2>8. Took(p, s, r, c, Head(s.tasks))
    BY <1>2, <2>1, <2>7 DEF Took, Still, y
  <2> QED BY <2>8 DEF c
<1> QED BY <1>4, <1>5

\* The records of an SRU response
TakeSru(s, r, t, q, page) ==
  [SruCacheAdd(s, r, t, q, page)
     EXCEPT !.tasks[1].count = @ - Least(Len(page), @), !.tasks[1].start = @ + Len(page)]

LEMMA TakeSruIs ==
  ASSUME NEW s \in RsState, s.tasks # <<>>, NEW t, t = Head(s.tasks), NEW r, r = t.resultset,
         NEW q, q.set = r, q.start = t.start, NEW k \in Nat, NEW page \in Pages(q, k),
         NEW N, N = SruRecords(s.sets[r], t, q, page), NEW p, p = TakeSru(s, r, t, q, page)
  PROVE  Took(p, s, r, Renewed(s.sets[r].cache, N), SruTask(t, k))
<1> DEFINE added == SruCacheAdd(s, r, t, q, page)
           c == Renewed(s.sets[r].cache, N)
           n == t.count - Least(k, t.count)
<1>1. t \in Task /\ r \in ResultSets /\ t.start \in Nat /\ n \in Nat
  <2>1. s.tasks \in Seq(Task)
    BY DEF RsState
  <2>2. t \in Task
    BY <2>1, HeadIs
  <2> QED BY <2>2, SruTaskIs DEF Task
<1>2. Len(page) = k /\ (k = 0 <=> page = <<>>)
  BY PageIs
<1>3. /\ N \subseteq Record /\ (k = 0 => N = {})
      /\ \A e \in N : e.at \notin Cached(s.sets[r])
  BY <1>1, SruRecordsAre
<1>4. p = MovesOn(added, added.tasks[1].count - Least(k, added.tasks[1].count), k)
  BY <1>2 DEF TakeSru, MovesOn
<1> HIDE DEF added
<1>5. Took(added, s, r, c, t)
  <2>1. added = SruCacheAdd(s, r, t, q, page) /\ (page = <<>> => N = {})
    BY <1>2, <1>3 DEF added
  <2> QED BY <1>1, <1>3, <2>1, SruCacheAddIs
<1>6. added.tasks[1] = t
  BY <1>5 DEF Took, Headed
<1>7. p = MovesOn(added, n, k)
  BY <1>4, <1>6
<1>8. SruTask(t, k) = [t EXCEPT !.count = n, !.start = t.start + k]
  BY DEF SruTask
<1> HIDE DEF c, n
<1>9. Took(p, s, r, c, [t EXCEPT !.count = n, !.start = t.start + k])
  BY <1>1, <1>5, <1>7, MovedOn
<1> QED BY <1>8, <1>9 DEF c

(***************************************************************************)
(* The invariant of every state: references, names and the request         *)
(***************************************************************************)
\* The size of a set is known only once it has a name on the server.
LiveNamed(s) == \A r \in ResultSets : s.sets[r].live_set = 2 => s.sets[r].setname # NoName

HttpSearches(s) == Proto = "HTTP" => \A i \in 1..Len(s.tasks) : s.tasks[i].which = "SEARCH"

\* Between two handlers, and between the steps of one.
Mid(s) == Typed(s) /\ Refs(s) /\ LiveNamed(s) /\ HttpSearches(s)

\* The request q is outstanding for the first task.
Outstanding(s, q) ==
  LET t == Head(s.tasks) IN
  /\ s.tasks # <<>> /\ t.running /\ s.error = "NONE"
  /\ q.set = t.resultset /\ s.sets[q.set].setname = q.name
  /\ t.which = "SORT" => q.kind = "SORT"
  /\ q.start = IF q.kind \in {"PRESENT", "SRU"} THEN t.start ELSE 0
  /\ q.kind = "SRU" <=> Proto = "HTTP"
  /\ q.kind = "PRESENT" => s.sets[q.set].live_set = 2 /\ t.count > 0
  /\ q.kind = "SEARCH" => s.sets[q.set].live_set = 0

Base(s) == Mid(s) /\ \A q \in s.wire : Outstanding(s, q)

LEMMA SetsStay ==
  ASSUME NEW s, Typed(s), NEW p, NEW t, NEW k \in [ResultSets -> Nat], Drops(p, s, t, k),
         NEW r \in ResultSets
  PROVE  /\ p.sets[r].setname = s.sets[r].setname /\ p.sets[r].live_set = s.sets[r].live_set
         /\ p.sets[r].size = s.sets[r].size /\ p.sets[r].sort_spec = s.sets[r].sort_spec
         /\ p.sets[r].valid = s.sets[r].valid /\ p.sets[r].handle = s.sets[r].handle
         /\ p.sets[r].cache \subseteq s.sets[r].cache
         /\ s.sets[r].refcount > k[r] =>
              p.sets[r].connection = s.sets[r].connection /\ p.sets[r].cache = s.sets[r].cache
<1>1. s.sets[r] \in ResultSet /\ k[r] \in Nat /\ p.sets[r] = Dropped(s.sets[r], k[r])
  BY DEF Typed, RsState, Drops
<1> DEFINE x == s.sets[r]
           n == k[r]
<1> HIDE DEF x, n
<1>2. x \in ResultSet /\ n \in Nat /\ p.sets[r] = Dropped(x, n)
  BY <1>1 DEF x, n
<1> DEFINE y == Dropped(x, n)
<1>3. /\ y.setname = x.setname /\ y.live_set = x.live_set /\ y.size = x.size
      /\ y.sort_spec = x.sort_spec /\ y.valid = x.valid /\ y.handle = x.handle
  BY <1>2, DroppedType
<1>4. n = 0 \/ x.refcount > n => y.connection = x.connection /\ y.cache = x.cache
  BY <1>2, DroppedType
<1>5. ~(n = 0 \/ x.refcount > n) => y.cache = {}
  BY <1>2, DroppedType
<1> HIDE DEF y
<1>6. p.sets[r] = y
  BY <1>2 DEF y
<1>7. y.cache \subseteq x.cache /\ (x.refcount > n => y.connection = x.connection /\ y.cache = x.cache)
  BY <1>4, <1>5
<1> QED BY <1>3, <1>6, <1>7 DEF x, n

LEMMA RemoveTaskMid ==
  ASSUME NEW s, Mid(s), s.tasks # <<>>, NEW p, p = RemoveTask(s)
  PROVE  /\ Mid(p) /\ Head(s.tasks).resultset \in ResultSets
         /\ Loses(Head(s.tasks).resultset, 1) \in [ResultSets -> Nat]
         /\ Drops(p, s, Tail(s.tasks), Loses(Head(s.tasks).resultset, 1))
<1> DEFINE r == Head(s.tasks).resultset
           k == Loses(r, 1)
           t == Tail(s.tasks)
<1>1. /\ Typed(s) /\ Linked(s) /\ s.tasks \in Seq(Task) /\ Refs(s)
  BY DEF Mid, Refs, Typed, RsState
<1>2. p \in RsState /\ r \in ResultSets /\ Drops(p, s, t, k)
  BY <1>1, RemoveTaskIs
<1>3. t \in Seq(Task) /\ Len(t) \in Nat /\ Len(s.tasks) = Len(t) + 1
  <2>1. t \in Seq(Task) /\ Len(t) = Len(s.tasks) - 1 /\ Len(s.tasks) \in Nat
    BY <1>1, HeadTailProperties, LenProperties
  <2> QED BY <2>1, LenProperties
<1>4. k \in [ResultSets -> Nat]
  BY DEF Loses
<1>5. ASSUME NEW q \in ResultSets
      PROVE  s.sets[q].refcount = Users(t, q) + k[q] + Held(s.sets[q]) /\ Living(s.sets[q])
  <2>1. s.sets[q].refcount = Users(s.tasks, q) + Held(s.sets[q]) /\ Living(s.sets[q])
    BY <1>1 DEF Refs
  <2>2. Users(s.tasks, q) = Users(t, q) + k[q]
    <3>1. Users(s.tasks, q) = IF r = q THEN Users(t, q) + 1 ELSE Users(t, q)
      BY <1>1, UsersTail
    <3>2. Users(t, q) \in Nat
      BY <1>3, UsersType
    <3>3. k[q] = IF q = r THEN 1 ELSE 0
      BY DEF Loses
    <3> QED BY <3>1, <3>2, <3>3
  <2> QED BY <2>1, <2>2
<1> HIDE DEF k, r, t
<1>6. Typed(p) /\ Refs(p)
  BY <1>1, <1>2, <1>3, <1>4, <1>5, DropsRefs
<1>7. LiveNamed(p)
  BY <1>1, <1>2, <1>4, SetsStay DEF Mid, LiveNamed
<1>8. HttpSearches(p)
  <2>1. p.tasks = t
    BY <1>2 DEF Drops
  <2>2. \A i \in 1..Len(t) : t[i] = s.tasks[i + 1]
    BY <1>1, HeadTailProperties DEF t
  <2>3. \A i \in 1..Len(t) : i + 1 \in 1..Len(s.tasks)
    BY <1>3
  <2> QED BY <2>1, <2>2, <2>3 DEF Mid, HttpSearches
<1>9. Mid(p)
  BY <1>6, <1>7, <1>8 DEF Mid
<1> QED BY <1>2, <1>4, <1>9 DEF k, r, t

LEMMA RemoveTasksMid ==
  ASSUME NEW s, Mid(s), NEW p, p = RemoveTasks(s)
  PROVE  Mid(p) /\ Loss(s) \in [ResultSets -> Nat] /\ Drops(p, s, <<>>, Loss(s))
<1>1. /\ Typed(s) /\ Linked(s) /\ s.tasks \in Seq(Task) /\ Refs(s)
  BY DEF Mid, Refs, Typed, RsState
<1>2. p \in RsState /\ Drops(p, s, <<>>, Loss(s))
  BY <1>1, RemoveTasksIs
<1>3. Loss(s) \in [ResultSets -> Nat] /\ <<>> \in Seq(Task)
  BY <1>1, UsersType, SeqClosed DEF Loss
<1>4. ASSUME NEW q \in ResultSets
      PROVE  s.sets[q].refcount = Users(<<>>, q) + Loss(s)[q] + Held(s.sets[q]) /\ Living(s.sets[q])
  <2>1. s.sets[q].refcount = Users(s.tasks, q) + Held(s.sets[q]) /\ Living(s.sets[q])
    BY <1>1 DEF Refs
  <2>2. Users(<<>>, q) = 0 /\ Loss(s)[q] = Users(s.tasks, q) /\ Users(s.tasks, q) \in Nat
    BY <1>1, UsersType DEF Loss
  <2> QED BY <2>1, <2>2
<1>5. Typed(p) /\ Refs(p)
  BY <1>1, <1>2, <1>3, <1>4, DropsRefs
<1>6. LiveNamed(p)
  BY <1>1, <1>2, <1>3, SetsStay DEF Mid, LiveNamed
<1>7. HttpSearches(p)
  <2>1. p.tasks = <<>> /\ 1..Len(<<>>) = {}
    BY <1>2, EmptySeq DEF Drops
  <2> QED BY <2>1 DEF HttpSearches
<1> QED BY <1>2, <1>3, <1>5, <1>6, <1>7 DEF Mid

\* The same sets are referred to by the same tasks.
Alike(p, s) ==
  /\ p.resultsets = s.resultsets /\ Len(p.tasks) = Len(s.tasks)
  /\ \A i \in 1..Len(s.tasks) : /\ p.tasks[i].resultset = s.tasks[i].resultset
                                /\ p.tasks[i].which = s.tasks[i].which
  /\ \A r \in ResultSets :
       /\ p.sets[r].status = s.sets[r].status /\ p.sets[r].handle = s.sets[r].handle
       /\ p.sets[r].refcount = s.sets[r].refcount /\ p.sets[r].valid = s.sets[r].valid
       /\ p.sets[r].connection = s.sets[r].connection
       /\ s.sets[r].setname # NoName => p.sets[r].setname # NoName

LEMMA AlikeMid ==
  ASSUME NEW s, Mid(s), NEW p, Typed(p), Alike(p, s), LiveNamed(p)
  PROVE  Mid(p) /\ \A r : On(p.tasks, r) = On(s.tasks, r)
<1>1. s.tasks \in Seq(Task) /\ p.tasks \in Seq(Task) /\ Refs(s) /\ HttpSearches(s)
  BY DEF Mid, Typed, RsState
<1>2. \A r : On(s.tasks, r) = On(p.tasks, r) /\ Users(s.tasks, r) = Users(p.tasks, r)
  BY <1>1, UsersSame DEF Alike
<1>3. Refs(p)
  BY <1>1, <1>2 DEF Refs, Linked, Living, Held, Alike
<1>4. HttpSearches(p)
  BY <1>1 DEF HttpSearches, Alike
<1> QED BY <1>2, <1>3, <1>4 DEF Mid

\* The first task changes, but neither its set nor its kind.
LEMMA HeadedAlike ==
  ASSUME NEW t \in Seq(Task), t # <<>>, NEW k, k.resultset = Head(t).resultset,
         k.which = Head(t).which, NEW u, Headed(u, t, k)
  PROVE  /\ Len(u) = Len(t)
         /\ \A i \in 1..Len(t) : u[i].resultset = t[i].resultset /\ u[i].which = t[i].which
BY HeadIs DEF Headed

LEMMA TookMid ==
  ASSUME NEW s, Mid(s), s.tasks # <<>>, NEW r \in ResultSets, NEW c, NEW k, NEW p, Took(p, s, r, c, k),
         k.resultset = Head(s.tasks).resultset, k.which = Head(s.tasks).which
  PROVE  Mid(p) /\ Alike(p, s)
<1>1. s \in RsState /\ s.tasks \in Seq(Task) /\ s.sets[r] \in ResultSet
  BY DEF Mid, Typed, RsState
<1>2. Headed(p.tasks, s.tasks, k) /\ p \in RsState /\ p.wire = s.wire /\ p.server = s.server
      /\ p.resultsets = s.resultsets
  BY DEF Took
<1>3. \A q \in ResultSets :
       /\ p.sets[q].status = s.sets[q].status /\ p.sets[q].handle = s.sets[q].handle
       /\ p.sets[q].refcount = s.sets[q].refcount /\ p.sets[q].valid = s.sets[q].valid
       /\ p.sets[q].connection = s.sets[q].connection
       /\ p.sets[q].setname = s.sets[q].setname /\ p.sets[q].live_set = s.sets[q].live_set
  BY <1>1 DEF Took, ResultSet
<1>4. Typed(p)
  BY <1>2 DEF Mid, Typed
<1>5. LiveNamed(p)
  BY <1>3 DEF Mid, LiveNamed
<1>6. Alike(p, s)
  BY <1>1, <1>2, <1>3, HeadedAlike DEF Alike
<1> QED BY <1>4, <1>5, <1>6, AlikeMid

LEMMA SearchedMid ==
  ASSUME NEW s, Mid(s), s.tasks # <<>>, NEW p, Searched(p, s)
  PROVE  Mid(p) /\ Alike(p, s) /\ p.wire \in SUBSET Requests
<1> DEFINE t == Head(s.tasks)
           r == t.resultset
           x == s.sets[r]
           k == Head(p.tasks)
<1>1. /\ s \in RsState /\ s.tasks \in Seq(Task) /\ t \in Task /\ r \in ResultSets /\ x \in ResultSet
      /\ \A q \in ResultSets : s.sets[q] \in ResultSet
  BY HeadIs DEF Mid, Typed, RsState, Task
<1>2. /\ p \in RsState /\ Still(p, s) /\ Headed(p.tasks, s.tasks, k)
      /\ k.resultset = r /\ k.which = t.which
  BY DEF Searched, Advanced
<1>3. p.resultsets = s.resultsets /\ p.server = s.server
  BY <1>2 DEF Still
<1>4. \/ p.wire = {} /\ p.sets = s.sets
      \/ \E q : /\ p.wire = {q} /\ q.name \in Names /\ p.sets[r] = [x EXCEPT !.setname = q.name]
                /\ \A o \in ResultSets : o # r => p.sets[o] = s.sets[o]
  BY DEF Searched, Requested, Requests
<1>5. AtMostOne(p.wire)
  BY <1>4 DEF AtMostOne
<1>6. Typed(p)
  BY <1>2, <1>3, <1>5 DEF Mid, Typed
<1>n. \A n \in Names : n # NoName
  BY RsAssumption DEF Names, NoName, DefaultName
<1> HIDE DEF t, x
<1> DEFINE Same(q) ==
       /\ p.sets[q].status = s.sets[q].status /\ p.sets[q].handle = s.sets[q].handle
       /\ p.sets[q].refcount = s.sets[q].refcount /\ p.sets[q].valid = s.sets[q].valid
       /\ p.sets[q].connection = s.sets[q].connection
       /\ s.sets[q].setname # NoName => p.sets[q].setname # NoName
       /\ p.sets[q].live_set = s.sets[q].live_set
<1>7. ASSUME NEW o \in ResultSets PROVE Same(o)
  <2>1. CASE p.sets[o] = s.sets[o]
    BY <2>1
  <2>2. CASE p.sets[o] # s.sets[o]
    <3>1. PICK q : /\ q.name \in Names /\ p.sets[r] = [x EXCEPT !.setname = q.name]
                   /\ \A e \in ResultSets : e # r => p.sets[e] = s.sets[e]
      BY <1>4, <2>2
    <3>2. o = r
      BY <2>2, <3>1
    <3>3. /\ p.sets[r].status = x.status /\ p.sets[r].handle = x.handle
          /\ p.sets[r].refcount = x.refcount /\ p.sets[r].valid = x.valid
          /\ p.sets[r].connection = x.connection /\ p.sets[r].live_set = x.live_set
          /\ p.sets[r].setname = q.name
      BY <1>1, <3>1 DEF ResultSet
    <3> HIDE DEF r
    <3> QED BY <1>n, <3>1, <3>2, <3>3 DEF x
  <2> QED BY <2>1, <2>2
<1>8. LiveNamed(p)
  BY <1>7 DEF Mid, LiveNamed
<1>9. Alike(p, s)
  <2>1. Len(p.tasks) = Len(s.tasks) /\ \A i \in 1..Len(s.tasks) :
          p.tasks[i].resultset = s.tasks[i].resultset /\ p.tasks[i].which = s.tasks[i].which
    BY <1>1, <1>2, HeadedAlike DEF t
  <2> QED BY <1>3, <1>7, <2>1 DEF Alike
<1> QED BY <1>2, <1>6, <1>8, <1>9, AlikeMid DEF RsState

\* A task that sorts asks for no records.
LEMMA SortStops ==
  ASSUME NEW s, Head(s.tasks).which = "SORT"
  PROVE  SearchStep(s) = s
BY ZenonT(40) DEF SearchStep

\* The step of a search, and the end of its task if nothing is sent.
LEMMA FinishIs ==
  ASSUME NEW s, Mid(s), s.wire = {}, s.tasks # <<>>, s.error = "NONE", Head(s.tasks).running,
         NEW v, v = SearchStep(s), NEW p, p = Finish(v)
  PROVE  /\ Mid(v) /\ Alike(v, s) /\ v.tasks # <<>>
         /\ Head(s.tasks).which = "SORT" => v = s
         /\ Head(s.tasks).which = "SEARCH" => Searched(v, s)
         /\ v.wire # {} => p = v
         /\ v.wire = {} => p = RemoveTask(v)
         /\ Base(p)
<1> DEFINE t == Head(s.tasks)
           r == t.resultset
           x == s.sets[r]
           k == Head(v.tasks)
<1>1. /\ Typed(s) /\ s \in RsState /\ t \in Task /\ r \in ResultSets /\ x \in ResultSet
      /\ t.which \in {"SEARCH", "SORT"} /\ LiveNamed(s)
  BY HeadIs DEF Mid, Typed, RsState, Task
<1>2. ASSUME t.which = "SORT" PROVE v = s
  BY <1>2, SortStops
<1>3. ASSUME t.which = "SEARCH" PROVE Searched(v, s)
  BY <1>1, <1>3, SearchStepIs DEF LiveNamed
<1>4. Mid(v) /\ Alike(v, s) /\ v.tasks # <<>> /\ v.wire \in SUBSET Requests
  <2>1. CASE t.which = "SORT"
    <3>1. Alike(s, s)
      BY DEF Alike
    <3> QED BY <1>2, <2>1, <3>1
  <2>2. CASE t.which = "SEARCH"
    <3>1. v.tasks # <<>>
      BY <1>3, <2>2 DEF Searched, Headed
    <3> QED BY <1>3, <2>2, <3>1, SearchedMid
  <2> QED BY <1>1, <2>1, <2>2
<1>5. /\ v.wire # {} => p = v
      /\ v.wire = {} => p = RemoveTask(v)
  BY DEF Finish
<1>6. CASE v.wire = {}
  <2>1. p = RemoveTask(v)
    BY <1>5, <1>6
  <2>2. Mid(p) /\ Rest(p, v)
    BY <1>4, <2>1, RemoveTaskMid DEF Drops
  <2> QED BY <1>2, <1>3, <1>4, <1>5, <1>6, <2>2 DEF Base, Rest
<1>7. CASE v.wire # {}
  <2>1. t.which = "SEARCH" /\ Searched(v, s) /\ p = v
    BY <1>1, <1>2, <1>3, <1>5, <1>7
  <2>2. PICK q : /\ v.wire = {q} /\ Requested(q, k, x, s) /\ v.error = "NONE"
                 /\ v.sets[r] = [x EXCEPT !.setname = q.name]
                 /\ \A o \in ResultSets : o # r => v.sets[o] = s.sets[o]
    BY <1>7, <2>1 DEF Searched
  <2>3. Advanced(k, t, x)
    BY <2>1 DEF Searched
  <2>4. v.sets[r].setname = q.name /\ v.sets[r].live_set = x.live_set
    BY <1>1, <2>2 DEF ResultSet
  <2>5. k.running /\ k.which = "SEARCH" /\ k.resultset = r
    BY <2>1, <2>3 DEF Advanced
  <2>6. q.set = r /\ (q.kind = "SRU" <=> Proto = "HTTP")
    BY <2>2, <2>5 DEF Requested
  <2>7. /\ q.start = IF q.kind \in {"PRESENT", "SRU"} THEN k.start ELSE 0
        /\ q.kind = "PRESENT" => x.live_set = 2 /\ k.count > 0
        /\ q.kind = "SEARCH" => x.live_set = 0
    BY <2>2 DEF Requested
  <2> HIDE DEF t, x, k
  <2>8. Outstanding(v, q)
    <3>1. r = q.set
      BY <2>6
    <3> HIDE DEF r
    <3> QED BY <1>4, <2>2, <2>4, <2>5, <2>6, <2>7, <3>1 DEF Outstanding, k
  <2>9. Base(p)
    BY <1>4, <2>1, <2>2, <2>8 DEF Base
  <2> QED BY <1>2, <1>3, <1>4, <1>5, <2>9 DEF t
<1> QED BY <1>6, <1>7

\* send_Z3950_sort: the sort request is posted if the set has a name.
SortSent(p, s, r) ==
  /\ Still(p, s) /\ p.tasks = s.tasks /\ p.error = s.error
  /\ s.sets[r].setname = NoName => p.wire = {} /\ p.sets = s.sets
  /\ s.sets[r].setname # NoName =>
       /\ p.fault = s.fault
       /\ \E q \in Requests : p.wire = {q} /\ q.kind = "SORT" /\ q.set = r
       /\ p.sets[r] = [s.sets[r] EXCEPT !.sort_spec = FALSE]
       /\ \A o \in ResultSets : o # r => p.sets[o] = s.sets[o]

LEMMA SendSortIs ==
  ASSUME NEW s, Mid(s), s.wire = {}, s.tasks # <<>>, s.error = "NONE", Head(s.tasks).running,
         Proto = "Z3950", NEW r, r = Head(s.tasks).resultset, NEW p, p = SendSort(s, r)
  PROVE  Base(p) /\ Alike(p, s) /\ SortSent(p, s, r)
<1> DEFINE x == s.sets[r]
           y == [x EXCEPT !.sort_spec = FALSE]
<1>1. /\ s \in RsState /\ s.tasks \in Seq(Task) /\ r \in ResultSets /\ x \in ResultSet
      /\ Typed(s) /\ LiveNamed(s)
  BY HeadIs DEF Mid, Typed, RsState, Task
<1>2. CASE x.setname = NoName
  <2>1. p = Fault(s, "NAME") /\ "NAME" \in Faults
    BY <1>2 DEF SendSort, Faults
  <2>2. /\ p \in RsState /\ Still(p, s) /\ p.wire = {} /\ p.tasks = s.tasks
        /\ p.error = s.error /\ p.sets = s.sets
    BY <1>1, <2>1, FaultIs
  <2>3. Typed(p) /\ LiveNamed(p) /\ Alike(p, s)
    BY <1>1, <2>2 DEF Typed, LiveNamed, Alike, Still
  <2>4. Base(p)
    BY <2>2, <2>3, AlikeMid DEF Base
  <2> QED BY <1>2, <2>2, <2>3, <2>4 DEF SortSent
<1>3. CASE x.setname # NoName
  <2> DEFINE v == WithSet(s, r, y)
             q == [kind |-> "SORT", name |-> x.setname, set |-> r, start |-> 0, count |-> 0]
  <2>1. y \in ResultSet /\ x.setname \in Names
    BY <1>1, <1>3 DEF ResultSet
  <2>2. q \in Requests
    BY <1>1, <2>1 DEF Requests
  <2>3. [s EXCEPT !.sets[r].sort_spec = FALSE] = v
    BY DEF WithSet
  <2>4. p = Sends(v, q)
    BY <1>3, <2>3 DEF SendSort, Sends
  <2>5. q.kind = "SORT" /\ q.name = x.setname /\ q.set = r /\ q.start = 0
    OBVIOUS
  <2> HIDE DEF q, v
  <2>6. v = WithSet(s, r, y)
    BY DEF v
  <2>y. /\ y.status = x.status /\ y.handle = x.handle /\ y.refcount = x.refcount
        /\ y.valid = x.valid /\ y.connection = x.connection /\ y.setname = x.setname
        /\ y.live_set = x.live_set
    BY <1>1 DEF ResultSet
  <2>e. y = [s.sets[r] EXCEPT !.sort_spec = FALSE]
    OBVIOUS
  <2> HIDE DEF y
  <2>7. /\ v \in RsState /\ v.sets[r] = y /\ v.tasks = s.tasks /\ v.error = s.error
        /\ v.wire = s.wire /\ v.fault = s.fault /\ Still(v, s)
        /\ \A o \in ResultSets : o # r => v.sets[o] = s.sets[o]
    BY <1>1, <2>1, <2>6, SetIs DEF Still
  <2>8. /\ p \in RsState /\ p.wire = {q} /\ Still(p, v) /\ p.tasks = v.tasks /\ p.error = v.error
        /\ p.fault = v.fault /\ p.sets = v.sets
    BY <2>2, <2>4, <2>7, PostIs
  <2>9. Still(p, s) /\ p.server = s.server /\ p.resultsets = s.resultsets
    BY <2>7, <2>8 DEF Still
  <2> HIDE DEF x
  <2>10. \A o \in ResultSets :
           /\ p.sets[o].status = s.sets[o].status /\ p.sets[o].handle = s.sets[o].handle
           /\ p.sets[o].refcount = s.sets[o].refcount /\ p.sets[o].valid = s.sets[o].valid
           /\ p.sets[o].connection = s.sets[o].connection
           /\ p.sets[o].setname = s.sets[o].setname
           /\ p.sets[o].live_set = s.sets[o].live_set
    BY <2>7, <2>8, <2>y DEF x
  <2>11. Typed(p)
    <3>1. AtMostOne(p.wire)
      BY <2>8 DEF AtMostOne
    <3> QED BY <1>1, <2>8, <2>9, <3>1 DEF Typed
  <2>12. LiveNamed(p) /\ Alike(p, s)
    <3>1. LiveNamed(p)
      BY <1>1, <2>10 DEF LiveNamed
    <3>2. p.tasks = s.tasks /\ p.resultsets = s.resultsets
      BY <2>7, <2>8, <2>9
    <3> QED BY <2>10, <3>1, <3>2 DEF Alike
  <2>13. Mid(p)
    BY <2>11, <2>12, AlikeMid
  <2>14. Outstanding(p, q)
    <3>1. p.sets[q.set].setname = q.name
      BY <1>1, <2>5, <2>10 DEF x
    <3> QED BY <2>5, <2>7, <2>8, <3>1 DEF Outstanding
  <2>15. Base(p)
    BY <2>8, <2>13, <2>14 DEF Base
  <2>16. p.sets[r] = [s.sets[r] EXCEPT !.sort_spec = FALSE]
    BY <2>7, <2>8, <2>e
  <2>17. SortSent(p, s, r)
    <3>1. s.sets[r].setname # NoName
      BY <1>3 DEF x
    <3>2. p.tasks = s.tasks /\ p.error = s.error /\ p.fault = s.fault
      BY <2>7, <2>8
    <3>3. \E b \in Requests : p.wire = {b} /\ b.kind = "SORT" /\ b.set = r
      BY <2>2, <2>5, <2>8
    <3>4. \A o \in ResultSets : o # r => p.sets[o] = s.sets[o]
      BY <2>7, <2>8
    <3> QED BY <2>9, <2>16, <3>1, <3>2, <3>3, <3>4 DEF SortSent
  <2> QED BY <2>12, <2>15, <2>17
<1> QED BY <1>2, <1>3

(***************************************************************************)
(* The steps of a response                                                 *)
(***************************************************************************)
\* A response has come for the first task.
Ready(s) ==
  Mid(s) /\ s.wire = {} /\ s.tasks # <<>> /\ s.error = "NONE" /\ Head(s.tasks).running

\* One set changes, but not who refers to it.
LEMMA SetMid ==
  ASSUME NEW s, Mid(s), NEW r \in ResultSets, NEW y \in ResultSet,
         y.status = s.sets[r].status, y.handle = s.sets[r].handle,
         y.refcount = s.sets[r].refcount, y.valid = s.sets[r].valid,
         y.connection = s.sets[r].connection,
         s.sets[r].setname # NoName => y.setname # NoName,
         y.live_set = 2 => y.setname # NoName,
         NEW p, p = WithSet(s, r, y)
  PROVE  Mid(p) /\ Alike(p, s)
<1>1. s \in RsState /\ Typed(s) /\ LiveNamed(s)
  BY DEF Mid, Typed
<1>2. /\ p \in RsState /\ p.sets[r] = y /\ p.tasks = s.tasks /\ p.resultsets = s.resultsets
      /\ p.wire = s.wire /\ p.server = s.server
      /\ \A q \in ResultSets : q # r => p.sets[q] = s.sets[q]
  BY <1>1, SetIs
<1>3. Typed(p)
  BY <1>1, <1>2 DEF Typed
<1>4. LiveNamed(p)
  BY <1>1, <1>2 DEF LiveNamed
<1>5. ASSUME NEW q \in ResultSets
      PROVE  /\ p.sets[q].status = s.sets[q].status /\ p.sets[q].handle = s.sets[q].handle
             /\ p.sets[q].refcount = s.sets[q].refcount /\ p.sets[q].valid = s.sets[q].valid
             /\ p.sets[q].connection = s.sets[q].connection
             /\ s.sets[q].setname # NoName => p.sets[q].setname # NoName
  BY <1>2
<1>6. Alike(p, s)
  BY <1>2, <1>5 DEF Alike
<1> QED BY <1>3, <1>4, <1>6, AlikeMid

\* The size of a set becomes known.
Sized(s, r, n) == [s EXCEPT !.sets[r].size = n, !.sets[r].live_set = 2]
SizedSet(x, n) == [x EXCEPT !.size = n, !.live_set = 2]

LEMMA AlikeTwice ==
  ASSUME NEW s, NEW u, Alike(u, s), NEW p, Alike(p, u)
  PROVE  Alike(p, s)
BY DEF Alike

LEMMA SizedIs ==
  ASSUME NEW s, Mid(s), NEW r \in ResultSets, s.sets[r].setname # NoName, NEW n \in Nat,
         NEW p, p = Sized(s, r, n)
  PROVE  /\ Mid(p) /\ Alike(p, s) /\ Still(p, s) /\ p.tasks = s.tasks /\ p.wire = s.wire
         /\ p.error = s.error /\ p.fault = s.fault
         /\ p.sets[r] = SizedSet(s.sets[r], n) /\ SizedSet(s.sets[r], n) \in ResultSet
         /\ \A q \in ResultSets : q # r => p.sets[q] = s.sets[q]
<1> DEFINE x == s.sets[r]
           y == [x EXCEPT !.size = n, !.live_set = 2]
<1>1. s \in RsState /\ x \in ResultSet
  BY DEF Mid, Typed, RsState
<1>2. /\ y.status = x.status /\ y.handle = x.handle
      /\ y.refcount = x.refcount /\ y.valid = x.valid
      /\ y.connection = x.connection /\ y.setname = x.setname
  BY <1>1 DEF ResultSet
<1>3. y \in ResultSet
  BY <1>1 DEF ResultSet
<1>4. p = WithSet(s, r, y)
  BY DEF Sized, WithSet
<1>5. y = SizedSet(s.sets[r], n)
  BY DEF SizedSet
<1> HIDE DEF y
<1>6. Mid(p) /\ Alike(p, s)
  BY <1>2, <1>3, <1>4, SetMid
<1>7. /\ p.sets[r] = y /\ p.tasks = s.tasks /\ p.wire = s.wire /\ p.error = s.error
      /\ p.fault = s.fault /\ Still(p, s)
      /\ \A q \in ResultSets : q # r => p.sets[q] = s.sets[q]
  BY <1>1, <1>3, <1>4, SetIs DEF Still
<1> QED BY <1>3, <1>5, <1>6, <1>7

\* What the server keeps under a name changes.
Stored(s, m, S) == [s EXCEPT !.server[m] = S]

LEMMA StoredIs ==
  ASSUME NEW s, Mid(s), NEW m \in Names, NEW S \in SUBSET ServerSet, AtMostOne(S),
         NEW p, p = Stored(s, m, S)
  PROVE  /\ Mid(p) /\ Alike(p, s) /\ p.tasks = s.tasks /\ p.wire = s.wire
         /\ p.error = s.error /\ p.fault = s.fault /\ p.sets = s.sets
         /\ p.resultsets = s.resultsets /\ p.open = s.open /\ p.up = s.up
         /\ p.reconnect_ok = s.reconnect_ok /\ p.odd = s.odd
         /\ p.server[m] = S /\ \A n \in Names : n # m => p.server[n] = s.server[n]
<1> DEFINE f == [s.server EXCEPT ![m] = S]
<1>1. s \in RsState /\ Typed(s) /\ LiveNamed(s)
  BY DEF Mid, Typed
<1>2. /\ f \in [Names -> SUBSET ServerSet] /\ f[m] = S
      /\ \A n \in Names : n # m => f[n] = s.server[n]
  BY <1>1 DEF RsState
<1>3. p = [s EXCEPT !.server = f]
  BY DEF Stored
<1> HIDE DEF f
<1>4. p \in RsState
  BY <1>1, <1>2, <1>3 DEF RsState
<1>5. /\ p.server = f /\ p.tasks = s.tasks /\ p.wire = s.wire
      /\ p.error = s.error /\ p.fault = s.fault /\ p.sets = s.sets
      /\ p.resultsets = s.resultsets /\ p.open = s.open /\ p.up = s.up
      /\ p.reconnect_ok = s.reconnect_ok /\ p.odd = s.odd
  BY <1>1, <1>3 DEF RsState
<1>6. Typed(p)
  BY <1>1, <1>2, <1>4, <1>5 DEF Typed
<1>7. LiveNamed(p) /\ Alike(p, s)
  BY <1>1, <1>5 DEF LiveNamed, Alike
<1> QED BY <1>2, <1>5, <1>6, <1>7, AlikeMid

\* The request fails.
Failed(s) == [s EXCEPT !.error = "DIAG"]

LEMMA FailedIs ==
  ASSUME NEW s, Mid(s), NEW p, p = Failed(s)
  PROVE  /\ Mid(p) /\ Alike(p, s) /\ Still(p, s) /\ p.tasks = s.tasks /\ p.wire = s.wire
         /\ p.error = "DIAG" /\ p.fault = s.fault /\ p.sets = s.sets
<1>1. s \in RsState /\ Typed(s) /\ LiveNamed(s)
  BY DEF Mid, Typed
<1>2. p = [s EXCEPT !.error = "DIAG"]
  BY DEF Failed
<1>3. p \in RsState
  BY <1>1, <1>2 DEF RsState
<1>4. /\ p.error = "DIAG" /\ p.tasks = s.tasks /\ p.wire = s.wire /\ Still(p, s)
      /\ p.fault = s.fault /\ p.sets = s.sets /\ p.server = s.server
      /\ p.resultsets = s.resultsets
  BY <1>1, <1>2 DEF RsState, Still
<1>5. Typed(p) /\ LiveNamed(p) /\ Alike(p, s)
  BY <1>1, <1>3, <1>4 DEF Typed, LiveNamed, Alike
<1> QED BY <1>4, <1>5, AlikeMid

LEMMA DiagnoseBase ==
  ASSUME NEW s, Mid(s), s.wire = {}, NEW p, p = Diagnose(s)
  PROVE  Base(p) /\ p = RemoveTasks(Failed(s)) /\ p.wire = {}
<1>1. Mid(Failed(s)) /\ Failed(s).wire = {}
  BY FailedIs
<1>2. p = RemoveTasks(Failed(s))
  BY DEF Diagnose, Failed
<1>3. Mid(p) /\ p.wire = {}
  BY <1>1, <1>2, RemoveTasksMid DEF Drops, Rest
<1> QED BY <1>2, <1>3 DEF Base

LEMMA ReadyIs ==
  ASSUME NEW s, Ready(s)
  PROVE  /\ s \in RsState /\ s.tasks \in Seq(Task) /\ Head(s.tasks) \in Task
         /\ Head(s.tasks).resultset \in ResultSets
         /\ s.sets[Head(s.tasks).resultset] \in ResultSet
         /\ Mid(s) /\ Typed(s) /\ s.tasks # <<>> /\ s.wire = {} /\ s.error = "NONE"
         /\ Head(s.tasks).running
<1>1. s \in RsState /\ s.tasks \in Seq(Task)
  BY DEF Ready, Mid, Typed, RsState
<1>2. Head(s.tasks) \in Task
  BY <1>1, HeadIs DEF Ready
<1> QED BY <1>1, <1>2 DEF Ready, Mid, RsState, Task

LEMMA ReadyTook ==
  ASSUME NEW s, Ready(s), NEW r \in ResultSets, NEW c, NEW k, NEW p, Took(p, s, r, c, k),
         k.resultset = Head(s.tasks).resultset, k.which = Head(s.tasks).which, k.running
  PROVE  Ready(p) /\ Alike(p, s) /\ Head(p.tasks) = k
<1>1. Mid(p) /\ Alike(p, s)
  BY TookMid DEF Ready
<1>2. p.wire = s.wire /\ p.error = s.error /\ p.tasks # <<>> /\ Head(p.tasks) = k
  BY DEF Took, Headed
<1> QED BY <1>1, <1>2 DEF Ready

\* Sort if there is something to sort by, else go on with the search.
LEMMA SortPresentBase ==
  ASSUME NEW s, Ready(s), Proto = "Z3950", NEW p, p = SortPresent(s)
  PROVE  Base(p)
<1> DEFINE r == Head(s.tasks).resultset
<1>1. CASE s.sets[r].sort_spec
  <2>1. p = SendSort(s, r)
    BY <1>1 DEF SortPresent
  <2> QED BY <2>1, SendSortIs DEF Ready
<1>2. CASE ~ s.sets[r].sort_spec
  <2>1. p = Finish(SearchStep(s))
    BY <1>2 DEF SortPresent
  <2> QED BY <2>1, FinishIs DEF Ready
<1> QED BY <1>1, <1>2

\* What a request says of the set that it is about
LEMMA OutstandingIs ==
  ASSUME NEW s, Ready(s), NEW q \in Requests, Outstanding(s, q)
  PROVE  /\ q.set = Head(s.tasks).resultset /\ q.set \in ResultSets /\ q.name \in Names
         /\ s.sets[q.set].setname = q.name /\ s.sets[q.set].setname # NoName
<1>1. q.set = Head(s.tasks).resultset /\ s.sets[q.set].setname = q.name
  BY DEF Outstanding
<1>2. q.name \in Names /\ \A n \in Names : n # NoName
  BY RsAssumption DEF Requests, Names, NoName, DefaultName
<1>3. Head(s.tasks).resultset \in ResultSets
  BY ReadyIs
<1> QED BY <1>1, <1>2, <1>3

\* The set of q gets the size n, and the server keeps S under its name.
Answered(u, s, q, n, S) ==
  /\ Mid(u) /\ Alike(u, s) /\ u.tasks = s.tasks /\ u.fault = s.fault /\ u.wire = s.wire
  /\ u.error = s.error /\ u.resultsets = s.resultsets
  /\ u.sets[q.set] = SizedSet(s.sets[q.set], n) /\ u.sets[q.set] \in ResultSet
  /\ \A o \in ResultSets : o # q.set => u.sets[o] = s.sets[o]
  /\ u.server[q.name] = S /\ \A m \in Names : m # q.name => u.server[m] = s.server[m]

LEMMA AnsweredIs ==
  ASSUME NEW s, Ready(s), NEW q \in Requests, Outstanding(s, q), NEW n \in Nat,
         NEW S \in SUBSET ServerSet, AtMostOne(S),
         NEW z, z = Sized(s, q.set, n), NEW u, u = Stored(z, q.name, S)
  PROVE  Answered(u, s, q, n, S)
<1>1. /\ q.set \in ResultSets /\ q.name \in Names /\ s.sets[q.set].setname # NoName /\ Mid(s)
  BY OutstandingIs, ReadyIs
<1>2. /\ Mid(z) /\ Alike(z, s) /\ Still(z, s) /\ z.tasks = s.tasks /\ z.wire = s.wire
      /\ z.error = s.error /\ z.fault = s.fault
      /\ z.sets[q.set] = SizedSet(s.sets[q.set], n) /\ SizedSet(s.sets[q.set], n) \in ResultSet
      /\ \A o \in ResultSets : o # q.set => z.sets[o] = s.sets[o]
  BY <1>1, SizedIs
<1>3. /\ Mid(u) /\ Alike(u, z) /\ u.tasks = z.tasks /\ u.wire = z.wire
      /\ u.error = z.error /\ u.fault = z.fault /\ u.sets = z.sets /\ u.resultsets = z.resultsets
      /\ u.server[q.name] = S /\ \A m \in Names : m # q.name => u.server[m] = z.server[m]
  <2>1. Mid(z)
    BY <1>2
  <2> QED BY <1>1, <2>1, StoredIs
<1>4. Alike(u, s)
  BY <1>2, <1>3, AlikeTwice
<1>5. z.resultsets = s.resultsets /\ z.server = s.server
  BY <1>2 DEF Still
<1> QED BY <1>2, <1>3, <1>4, <1>5 DEF Answered

\* The k records of b from origin on are taken.
Handled(v, u, k, b, origin, present_phase) ==
  LET t == Head(u.tasks)
      x == u.sets[t.resultset]
  IN  /\ Ready(v) /\ Alike(v, u)
      /\ Took(v, u, t.resultset, HandledCache(t, x, k, b, origin, present_phase),
              HandledTask(t, x, k, present_phase))

LEMMA HandledIs ==
  ASSUME NEW u, Ready(u), NEW k \in Nat, NEW b \in ServerSet, NEW origin \in Nat,
         NEW ph \in BOOLEAN, NEW v, v = HandleRecords(u, k, b, origin, ph)
  PROVE  Handled(v, u, k, b, origin, ph)
<1> DEFINE t == Head(u.tasks)
           r == t.resultset
           x == u.sets[r]
           h == HandledTask(t, x, k, ph)
           c == HandledCache(t, x, k, b, origin, ph)
<1>1. /\ u \in RsState /\ u.tasks # <<>> /\ t \in Task /\ r \in ResultSets /\ x \in ResultSet
      /\ t.running
  BY ReadyIs
<1>2. Took(v, u, r, c, h)
  BY <1>1, HandleRecordsIs
<1>3. h.resultset = t.resultset /\ h.which = t.which /\ h.running = t.running
  <2> HIDE DEF t, x
  <2>1. \A f \in BOOLEAN : SameTask(HandledTask(t, x, k, f), t)
    BY <1>1, HandledTaskSame
  <2>2. SameTask(h, t)
    BY <2>1
  <2> HIDE DEF h
  <2> QED BY <2>2 DEF SameTask
<1> HIDE DEF h, c
<1>4. Ready(v) /\ Alike(v, u)
  BY <1>1, <1>2, <1>3, ReadyTook
<1> QED BY <1>2, <1>4 DEF Handled, h, c

\* The size and the first records of a set come with the search response.
SearchAnswered(p, s, q, k) ==
  \E b, u, v :
    /\ b \in ServerSet
    /\ b = [set |-> q.set, order |-> 0] /\ Answered(u, s, q, hits[q.set], {b}) /\ Ready(u)
    /\ Handled(v, u, k, b, 0, FALSE) /\ p = SortPresent(v)

SearchRefused(p, s, q) == \E u : Answered(u, s, q, 0, {}) /\ p = Diagnose(u)

LEMMA SearchResponseIs ==
  ASSUME NEW s, Ready(s), NEW q \in Requests, Outstanding(s, q), hits[q.set] \in Nat,
         NEW k \in Nat, NEW ok \in BOOLEAN, NEW p, p = SearchResponse(s, q, k, ok)
  PROVE  (ok /\ SearchAnswered(p, s, q, k)) \/ (~ ok /\ SearchRefused(p, s, q))
<1> DEFINE n == hits[q.set]
           b == [set |-> q.set, order |-> 0]
           m == IF ok THEN n ELSE 0
           S == IF ok THEN {b} ELSE {}
           z == Sized(s, q.set, m)
           u == Stored(z, q.name, S)
           v == HandleRecords(u, k, b, 0, FALSE)
<1>1. q.set = Head(s.tasks).resultset /\ q.set \in ResultSets
  BY OutstandingIs
<1>2. b \in ServerSet /\ S \in SUBSET ServerSet /\ AtMostOne(S) /\ m \in Nat
  BY <1>1 DEF ServerSet, AtMostOne
<1>3. \/ ok /\ p = SortPresent(v)
      \/ ~ ok /\ p = Diagnose(u)
  BY <1>1 DEF SearchResponse, Stored, Sized
<1> HIDE DEF b, m, S, z, u, v, n
<1>4. z = Sized(s, q.set, m) /\ u = Stored(z, q.name, S) /\ v = HandleRecords(u, k, b, 0, FALSE)
  BY DEF z, u, v
<1>5. Answered(u, s, q, m, S)
  BY <1>2, <1>4, AnsweredIs
<1>6. Ready(u)
  BY <1>5 DEF Answered, Ready
<1>7. Handled(v, u, k, b, 0, FALSE)
  <2>1. 0 \in Nat /\ FALSE \in BOOLEAN
    OBVIOUS
  <2> QED BY <1>2, <1>4, <1>6, <2>1, HandledIs
<1>8. CASE ok
  <2>1. m = n /\ S = {b} /\ b = [set |-> q.set, order |-> 0]
    BY <1>8 DEF m, S, b
  <2>2. /\ Answered(u, s, q, n, {b}) /\ Ready(u) /\ Handled(v, u, k, b, 0, FALSE)
        /\ p = SortPresent(v)
    BY <1>3, <1>5, <1>6, <1>7, <1>8, <2>1
  <2>3. SearchAnswered(p, s, q, k)
    BY <1>2, <2>1, <2>2 DEF SearchAnswered, n
  <2> QED BY <1>8, <2>3
<1>9. CASE ~ ok
  <2>1. m = 0 /\ S = {}
    BY <1>9 DEF m, S
  <2>2. Answered(u, s, q, 0, {}) /\ p = Diagnose(u)
    BY <1>3, <1>5, <1>9, <2>1
  <2>3. SearchRefused(p, s, q)
    BY <2>2 DEF SearchRefused
  <2> QED BY <1>9, <2>3
<1> QED BY <1>8, <1>9

LEMMA SearchResponseBase ==
  ASSUME NEW s, Ready(s), NEW q \in Requests, Outstanding(s, q), q.kind = "SEARCH",
         hits[q.set] \in Nat, NEW k \in Nat, NEW ok \in BOOLEAN, NEW p, p = SearchResponse(s, q, k, ok)
  PROVE  Base(p)
<1>1. Proto = "Z3950"
  BY RsAssumption DEF Outstanding
<1>2. (ok /\ SearchAnswered(p, s, q, k)) \/ (~ ok /\ SearchRefused(p, s, q))
  BY SearchResponseIs
<1>3. CASE SearchAnswered(p, s, q, k)
  <2>1. PICK v : Ready(v) /\ p = SortPresent(v)
    BY <1>3 DEF SearchAnswered, Handled
  <2> QED BY <1>1, <2>1, SortPresentBase
<1>4. CASE SearchRefused(p, s, q)
  <2>1. PICK u : Mid(u) /\ u.wire = {} /\ p = Diagnose(u)
    BY <1>4, ReadyIs DEF SearchRefused, Answered
  <2> QED BY <2>1, DiagnoseBase
<1> QED BY <1>2, <1>3, <1>4

\* The records of a present response; the server still has the set.
PresentAnswered(p, s, q, k) ==
  \E b, v :
    b \in s.server[q.name] /\ b \in ServerSet /\ Handled(v, s, k, b, q.start, TRUE) /\ p = Finish(SearchStep(v))

LEMMA PresentResponseIs ==
  ASSUME NEW s, Ready(s), NEW q \in Requests, NEW k \in Nat, NEW ok \in BOOLEAN,
         ok => s.server[q.name] # {}, NEW p, p = PresentResponse(s, q, k, ok)
  PROVE  (ok /\ PresentAnswered(p, s, q, k)) \/ (~ ok /\ p = Diagnose(s))
<1>1. CASE ok
  <2> DEFINE b == CHOOSE b \in s.server[q.name] : TRUE
             v == HandleRecords(s, k, b, q.start, TRUE)
  <2>1. b \in s.server[q.name]
    BY <1>1
  <2>2. b \in ServerSet /\ q.start \in Nat
    <3>1. s \in RsState /\ q.name \in Names
      BY ReadyIs DEF Requests
    <3>2. s.server[q.name] \in SUBSET ServerSet
      BY <3>1 DEF RsState
    <3> HIDE DEF b
    <3> QED BY <2>1, <3>2 DEF Requests
  <2>3. p = Finish(SearchStep(v))
    BY <1>1 DEF PresentResponse
  <2> HIDE DEF b, v
  <2>4. v = HandleRecords(s, k, b, q.start, TRUE) /\ TRUE \in BOOLEAN
    BY DEF v
  <2>5. Handled(v, s, k, b, q.start, TRUE)
    BY <2>2, <2>4, HandledIs
  <2> QED BY <1>1, <2>1, <2>2, <2>3, <2>5 DEF PresentAnswered
<1>2. CASE ~ ok
  BY <1>2 DEF PresentResponse
<1> QED BY <1>1, <1>2

\* The server has sorted the set once more.
Reordered(u, s, q, b) ==
  /\ Ready(u) /\ Alike(u, s) /\ u.tasks = s.tasks /\ u.fault = s.fault /\ u.sets = s.sets
  /\ u.resultsets = s.resultsets
  /\ u.server[q.name] = {[b EXCEPT !.order = @ + 1]}
  /\ \A n \in Names : n # q.name => u.server[n] = s.server[n]

SortAnswered(p, s, q) ==
  \E b, u :
    b \in s.server[q.name] /\ b \in ServerSet /\ Reordered(u, s, q, b) /\ p = Finish(SearchStep(u))

LEMMA SortResponseIs ==
  ASSUME NEW s, Ready(s), NEW q \in Requests, NEW ok \in BOOLEAN,
         ok => s.server[q.name] # {}, NEW p, p = SortResponse(s, q, ok)
  PROVE  (ok /\ SortAnswered(p, s, q)) \/ (~ ok /\ p = Diagnose(s))
<1>1. CASE ok
  <2> DEFINE b == CHOOSE b \in s.server[q.name] : TRUE
             S == {[b EXCEPT !.order = @ + 1]}
             u == Stored(s, q.name, S)
  <2>1. b \in s.server[q.name]
    BY <1>1
  <2>2. b \in ServerSet /\ q.name \in Names
    <3>1. s \in RsState /\ q.name \in Names
      BY ReadyIs DEF Requests
    <3>2. s.server[q.name] \in SUBSET ServerSet
      BY <3>1 DEF RsState
    <3> HIDE DEF b
    <3> QED BY <2>1, <3>1, <3>2
  <2>3. p = Finish(SearchStep(u))
    BY <1>1 DEF SortResponse, Stored
  <2> HIDE DEF b
  <2>4. S \in SUBSET ServerSet /\ AtMostOne(S)
    BY <2>2 DEF ServerSet, AtMostOne
  <2>5. S = {[b EXCEPT !.order = @ + 1]}
    OBVIOUS
  <2> HIDE DEF S, u
  <2>6. u = Stored(s, q.name, S)
    BY DEF u
  <2>7. Mid(s) /\ s.tasks # <<>> /\ s.wire = {} /\ s.error = "NONE" /\ Head(s.tasks).running
    BY ReadyIs
  <2>8. /\ Mid(u) /\ Alike(u, s) /\ u.tasks = s.tasks /\ u.wire = s.wire
        /\ u.error = s.error /\ u.fault = s.fault /\ u.sets = s.sets /\ u.resultsets = s.resultsets
        /\ u.server[q.name] = S /\ \A n \in Names : n # q.name => u.server[n] = s.server[n]
    BY <2>2, <2>4, <2>6, <2>7, StoredIs
  <2>9. Ready(u)
    BY <2>7, <2>8 DEF Ready
  <2>10. Reordered(u, s, q, b)
    BY <2>5, <2>8, <2>9 DEF Reordered
  <2> QED BY <1>1, <2>1, <2>2, <2>3, <2>10 DEF SortAnswered
<1>2. CASE ~ ok
  BY <1>2 DEF SortResponse
<1> QED BY <1>1, <1>2

\* The size and the records of an SRU response
TookSru(v, u, N, k) ==
  LET t == Head(u.tasks)
      r == t.resultset
  IN  /\ Ready(v) /\ Alike(v, u)
      /\ Took(v, u, r, Renewed(u.sets[r].cache, N), SruTask(t, k))

\* The records N are those of a page for the task at the head.
PageOf(u, q, k, N) ==
  \E page \in Pages(q, k) : N = SruRecords(u.sets[q.set], Head(u.tasks), q, page)

SruAnswered(p, s, q, k) ==
  \E n, N, u, v :
    /\ n \in {0, hits[q.set]}
    /\ Answered(u, s, q, n, s.server[q.name]) /\ Ready(u) /\ PageOf(u, q, k, N)
    /\ TookSru(v, u, N, k) /\ p = Finish(SearchStep(v))

SruRefused(p, s, q) ==
  \E u : Answered(u, s, q, 0, s.server[q.name]) /\ p = RemoveTask(Failed(u))

LEMMA TookSruIs ==
  ASSUME NEW u, Ready(u), NEW t, t = Head(u.tasks), NEW r, r = t.resultset,
         NEW q, q.set = r, q.start = t.start, NEW k \in Nat, NEW page \in Pages(q, k),
         NEW N, N = SruRecords(u.sets[r], t, q, page), NEW v, v = TakeSru(u, r, t, q, page)
  PROVE  TookSru(v, u, N, k)
<1> DEFINE c == Renewed(u.sets[r].cache, N)
           h == SruTask(t, k)
<1>1. /\ u \in RsState /\ u.tasks # <<>> /\ t \in Task /\ r \in ResultSets /\ t.running
  BY ReadyIs
<1>2. Took(v, u, r, c, h)
  BY <1>1, TakeSruIs
<1>3. h.resultset = t.resultset /\ h.which = t.which /\ h.running
  BY <1>1, SruTaskIs
<1> HIDE DEF h, c
<1>4. Ready(v) /\ Alike(v, u)
  BY <1>1, <1>2, <1>3, ReadyTook
<1> QED BY <1>2, <1>4 DEF TookSru, h, c

LEMMA SizedAnswered ==
  ASSUME NEW s, Ready(s), NEW q \in Requests, Outstanding(s, q), NEW n \in Nat,
         NEW u, u = Sized(s, q.set, n)
  PROVE  Answered(u, s, q, n, s.server[q.name])
<1>1. q.set \in ResultSets /\ s.sets[q.set].setname # NoName /\ Mid(s)
  BY OutstandingIs, ReadyIs
<1>2. /\ Mid(u) /\ Alike(u, s) /\ Still(u, s) /\ u.tasks = s.tasks /\ u.wire = s.wire
      /\ u.error = s.error /\ u.fault = s.fault
      /\ u.sets[q.set] = SizedSet(s.sets[q.set], n) /\ SizedSet(s.sets[q.set], n) \in ResultSet
      /\ \A o \in ResultSets : o # q.set => u.sets[o] = s.sets[o]
  BY <1>1, SizedIs
<1> QED BY <1>2 DEF Answered, Still

LEMMA SruResponseIs ==
  ASSUME NEW s, Ready(s), NEW q \in Requests, Outstanding(s, q), q.kind = "SRU", hits[q.set] \in Nat,
         NEW k \in Nat, NEW page \in Pages(q, k), NEW counted \in BOOLEAN, NEW ok \in BOOLEAN,
         NEW p, p = SruResponse(s, q, page, counted, ok)
  PROVE  (ok /\ SruAnswered(p, s, q, k)) \/ (~ ok /\ SruRefused(p, s, q))
<1> DEFINE t == Head(s.tasks)
           n == IF ok /\ counted THEN hits[q.set] ELSE 0
           u == Sized(s, q.set, n)
           v == TakeSru(u, q.set, t, q, page)
           N == SruRecords(u.sets[q.set], t, q, page)
<1>1. q.set = t.resultset /\ q.set \in ResultSets /\ q.start = t.start
  <2>1. q.set = t.resultset /\ q.set \in ResultSets
    BY OutstandingIs
  <2> QED BY <2>1 DEF Outstanding
<1>2. n \in Nat /\ n \in {0, hits[q.set]}
  OBVIOUS
<1>3. \/ ok /\ p = Finish(SearchStep(v))
      \/ ~ ok /\ p = RemoveTask(Failed(u))
  BY <1>1 DEF SruResponse, Sized, SruSized, TakeSru, Failed
<1>b. ~ ok => n = 0
  OBVIOUS
<1> HIDE DEF t, n, u, v, N
<1>4. u = Sized(s, q.set, n) /\ v = TakeSru(u, q.set, t, q, page) /\ t = Head(s.tasks)
      /\ N = SruRecords(u.sets[q.set], t, q, page)
  BY DEF u, v, t, N
<1>5. Answered(u, s, q, n, s.server[q.name])
  BY <1>2, <1>4, SizedAnswered
<1>6. Ready(u) /\ Head(u.tasks) = t
  BY <1>4, <1>5 DEF Answered, Ready
<1>7. TookSru(v, u, N, k)
  BY <1>1, <1>4, <1>6, TookSruIs
<1>8. PageOf(u, q, k, N)
  BY <1>4, <1>6 DEF PageOf
<1>9. CASE ok
  <2>1. p = Finish(SearchStep(v))
    BY <1>3, <1>9
  <2>2. Ready(u) /\ n \in {0, hits[q.set]}
    BY <1>2, <1>6
  <2>3. SruAnswered(p, s, q, k)
    BY <1>5, <1>7, <1>8, <2>1, <2>2 DEF SruAnswered
  <2> QED BY <1>9, <2>3
<1>10. CASE ~ ok
  <2>1. SruRefused(p, s, q)
    BY <1>3, <1>5, <1>10, <1>b DEF SruRefused
  <2> QED BY <1>10, <2>1
<1> QED BY <1>9, <1>10

(***************************************************************************)
(* Every action keeps the invariant: the event loop                        *)
(***************************************************************************)
\* Nothing changes that the references or names depend on.
LEMMA SameMid ==
  ASSUME NEW s, Mid(s), NEW p, Typed(p), p.tasks = s.tasks, p.sets = s.sets,
         p.resultsets = s.resultsets
  PROVE  Mid(p) /\ Alike(p, s)
<1>1. LiveNamed(p) /\ Alike(p, s)
  BY DEF Mid, LiveNamed, Alike
<1> QED BY <1>1, AlikeMid

\* The request is answered.
Heard(s) == [s EXCEPT !.wire = {}]

LEMMA HeardIs ==
  ASSUME NEW s, Base(s), NEW q \in s.wire, NEW p, p = Heard(s)
  PROVE  /\ Ready(p) /\ Alike(p, s) /\ Still(p, s) /\ p.tasks = s.tasks /\ p.sets = s.sets
         /\ p.fault = s.fault /\ q \in Requests /\ Outstanding(s, q) /\ Outstanding(p, q)
         /\ s.wire = {q}
<1>1. s \in RsState /\ Typed(s) /\ Mid(s) /\ Outstanding(s, q)
  BY DEF Base, Mid, Typed
<1>2. p = [s EXCEPT !.wire = {}]
  BY DEF Heard
<1>3. p \in RsState
  BY <1>1, <1>2 DEF RsState
<1>4. /\ p.wire = {} /\ Still(p, s) /\ p.tasks = s.tasks /\ p.sets = s.sets /\ p.error = s.error
      /\ p.fault = s.fault /\ p.server = s.server /\ p.resultsets = s.resultsets
  BY <1>1, <1>2 DEF RsState, Still
<1>5. Typed(p)
  BY <1>1, <1>3, <1>4 DEF Typed, AtMostOne
<1>6. Mid(p) /\ Alike(p, s)
  BY <1>1, <1>4, <1>5, SameMid
<1>7. Ready(p) /\ Outstanding(p, q)
  BY <1>1, <1>4, <1>6 DEF Ready, Outstanding
<1>8. q \in Requests
  BY <1>1 DEF RsState
<1>9. s.wire = {q}
  BY <1>1 DEF Typed, AtMostOne
<1> QED BY <1>1, <1>4, <1>6, <1>7, <1>8, <1>9

\* What a response leads to.
Answer(p, s, q, k, ok) ==
  \/ /\ q.kind = "SEARCH"
     /\ (ok /\ SearchAnswered(p, s, q, k)) \/ (~ ok /\ SearchRefused(p, s, q))
  \/ /\ q.kind = "PRESENT"
     /\ (ok /\ PresentAnswered(p, s, q, k)) \/ (~ ok /\ p = Diagnose(s))
  \/ /\ q.kind = "SORT"
     /\ (ok /\ SortAnswered(p, s, q)) \/ (~ ok /\ p = Diagnose(s))
  \/ /\ q.kind = "SRU"
     /\ (ok /\ SruAnswered(p, s, q, k)) \/ (~ ok /\ SruRefused(p, s, q))

\* The answers that the server can give in state s.
Given(s, q, k, ok) ==
  /\ k \in Nat /\ ok \in BOOLEAN
  /\ ok => q.kind \in {"SEARCH", "SRU"} \/ s.server[q.name] # {}
  /\ ok => k \in Replies(q)
  /\ ~ ok => k = 0

HitsTyped == hits \in [ResultSets -> 0 .. MaxHits]

LEMMA RespondIs ==
  ASSUME Base(zs), HitsTyped, Respond
  PROVE  \E q, k, ok :
           q \in zs.wire /\ LET s == Heard(zs) IN
           /\ Ready(s) /\ q \in Requests /\ Outstanding(s, q)
           /\ Given(s, q, k, ok) /\ Answer(zs', s, q, k, ok) /\ zs.fault = "NONE"
           /\ hits[q.set] \in Nat /\ Base(zs')
<1> DEFINE s == Heard(zs)
<1>1. PICK q \in zs.wire, k \in 0 .. MaxHits, ok \in BOOLEAN :
        /\ ok => Succeeds(q) /\ k \in Replies(q)
        /\ ~ ok => k = 0
        /\ \/ q.kind = "SEARCH"  /\ zs' = SearchResponse(s, q, k, ok)
           \/ q.kind = "PRESENT" /\ zs' = PresentResponse(s, q, k, ok)
           \/ q.kind = "SORT"    /\ zs' = SortResponse(s, q, ok)
           \/ /\ q.kind = "SRU"
              /\ \E page \in Pages(q, k), counted \in BOOLEAN :
                   zs' = SruResponse(s, q, page, counted, ok)
  BY DEF Respond, Heard
<1>2. /\ Ready(s) /\ Still(s, zs) /\ q \in Requests /\ Outstanding(s, q) /\ zs.fault = "NONE"
  BY HeardIs DEF Respond
<1>3. k \in Nat /\ hits[q.set] \in Nat
  <2>1. q.set \in ResultSets
    BY <1>2 DEF Requests
  <2> QED BY <2>1, RsAssumption DEF HitsTyped
<1> HIDE DEF s
<1>4. ok => q.kind \in {"SEARCH", "SRU"} \/ s.server[q.name] # {}
  BY <1>1, <1>2 DEF Succeeds, Still
<1>5. Given(s, q, k, ok)
  BY <1>1, <1>3, <1>4 DEF Given
<1>6. q.kind \in {"SEARCH", "PRESENT", "SORT", "SRU"}
  BY <1>2 DEF Requests
<1>7. Answer(zs', s, q, k, ok) /\ Base(zs')
  <2>1. CASE q.kind = "SEARCH"
    <3>1. zs' = SearchResponse(s, q, k, ok)
      BY <1>1, <2>1
    <3>2. (ok /\ SearchAnswered(zs', s, q, k)) \/ (~ ok /\ SearchRefused(zs', s, q))
      BY <1>2, <1>3, <3>1, SearchResponseIs
    <3>3. Base(zs')
      BY <1>2, <1>3, <2>1, <3>1, SearchResponseBase
    <3> QED BY <2>1, <3>2, <3>3 DEF Answer
  <2>2. CASE q.kind = "PRESENT"
    <3>1. zs' = PresentResponse(s, q, k, ok)
      BY <1>1, <2>2
    <3>2. ok => s.server[q.name] # {}
      BY <1>4, <2>2
    <3>3. (ok /\ PresentAnswered(zs', s, q, k)) \/ (~ ok /\ zs' = Diagnose(s))
      BY <1>2, <1>3, <3>1, <3>2, PresentResponseIs
    <3>4. CASE PresentAnswered(zs', s, q, k)
      <4>1. PICK v : Ready(v) /\ zs' = Finish(SearchStep(v))
        BY <3>4 DEF PresentAnswered, Handled
      <4>2. Base(zs')
        BY <4>1, FinishIs DEF Ready
      <4> QED BY <2>2, <3>3, <4>2 DEF Answer
    <3>5. CASE zs' = Diagnose(s)
      <4>1. Base(zs')
        BY <1>2, <3>5, DiagnoseBase, ReadyIs
      <4> QED BY <2>2, <3>3, <4>1 DEF Answer
    <3> QED BY <3>3, <3>4, <3>5
  <2>3. CASE q.kind = "SORT"
    <3>1. zs' = SortResponse(s, q, ok)
      BY <1>1, <2>3
    <3>2. ok => s.server[q.name] # {}
      BY <1>4, <2>3
    <3>3. (ok /\ SortAnswered(zs', s, q)) \/ (~ ok /\ zs' = Diagnose(s))
      BY <1>2, <1>3, <3>1, <3>2, SortResponseIs
    <3>4. CASE SortAnswered(zs', s, q)
      <4>1. PICK v : Ready(v) /\ zs' = Finish(SearchStep(v))
        BY <3>4 DEF SortAnswered, Reordered
      <4>2. Base(zs')
        BY <4>1, FinishIs DEF Ready
      <4> QED BY <2>3, <3>3, <4>2 DEF Answer
    <3>5. CASE zs' = Diagnose(s)
      <4>1. Base(zs')
        BY <1>2, <3>5, DiagnoseBase, ReadyIs
      <4> QED BY <2>3, <3>3, <4>1 DEF Answer
    <3> QED BY <3>3, <3>4, <3>5
  <2>4. CASE q.kind = "SRU"
    <3>1. PICK page \in Pages(q, k), counted \in BOOLEAN : zs' = SruResponse(s, q, page, counted, ok)
      BY <1>1, <2>4
    <3>2. (ok /\ SruAnswered(zs', s, q, k)) \/ (~ ok /\ SruRefused(zs', s, q))
      BY <1>2, <1>3, <2>4, <3>1, SruResponseIs
    <3>3. CASE SruAnswered(zs', s, q, k)
      <4>1. PICK v : Ready(v) /\ zs' = Finish(SearchStep(v))
        BY <3>3 DEF SruAnswered, TookSru
      <4>2. Base(zs')
        BY <4>1, FinishIs DEF Ready
      <4> QED BY <2>4, <3>2, <4>2 DEF Answer
    <3>4. CASE SruRefused(zs', s, q)
      <4>1. PICK u : Mid(u) /\ u.wire = {} /\ u.tasks = s.tasks /\ zs' = RemoveTask(Failed(u))
        BY <1>2, <3>4, ReadyIs DEF SruRefused, Answered
      <4>2. Mid(Failed(u)) /\ Failed(u).tasks # <<>> /\ Failed(u).wire = {}
        BY <1>2, <4>1, FailedIs, ReadyIs
      <4>3. Mid(zs') /\ zs'.wire = {}
        BY <4>1, <4>2, RemoveTaskMid DEF Drops, Rest
      <4>4. Base(zs')
        BY <4>3 DEF Base
      <4> QED BY <2>4, <3>2, <4>4 DEF Answer
    <3> QED BY <3>2, <3>3, <3>4
  <2> QED BY <1>6, <2>1, <2>2, <2>3, <2>4
<1> QED BY <1>2, <1>3, <1>5, <1>7 DEF s

\* A task that is queued refers to a set that is alive.
LEMMA QueuedAlive ==
  ASSUME NEW s, Mid(s), NEW i \in 1..Len(s.tasks), NEW r, r = s.tasks[i].resultset
  PROVE  /\ r \in ResultSets /\ On(s.tasks, r) # {} /\ i \in On(s.tasks, r)
         /\ s.sets[r].refcount > 0 /\ s.sets[r].status = "alive"
<1>1. s.tasks \in Seq(Task) /\ s \in RsState /\ DOMAIN s.tasks = 1..Len(s.tasks)
  <2>1. s.tasks \in Seq(Task) /\ s \in RsState
    BY DEF Mid, Typed, RsState
  <2> QED BY <2>1, LenProperties
<1>2. s.tasks[i] \in Task
  BY <1>1, ElementOfSeq
<1>3. r \in ResultSets /\ i \in On(s.tasks, r)
  BY <1>1, <1>2 DEF Task, On
<1>4. Users(s.tasks, r) \in Nat /\ Users(s.tasks, r) # 0
  BY <1>1, <1>3, UsersType
<1>5. s.sets[r].refcount = Users(s.tasks, r) + Held(s.sets[r]) /\ Living(s.sets[r])
  BY <1>3 DEF Mid, Refs
<1>6. Held(s.sets[r]) \in Nat
  BY DEF Held
<1>7. s.sets[r].refcount > 0
  BY <1>4, <1>5, <1>6
<1> QED BY <1>3, <1>5, <1>7 DEF Living

\* The first task is started or put back.
Set(s, running) == [s EXCEPT !.tasks[1].running = running]
Running(u, s, running) ==
  /\ Mid(u) /\ Alike(u, s) /\ Still(u, s) /\ u.wire = s.wire /\ u.error = s.error
  /\ u.fault = s.fault /\ u.sets = s.sets /\ u.tasks # <<>>
  /\ Headed(u.tasks, s.tasks, [Head(s.tasks) EXCEPT !.running = running])

LEMMA RunningIs ==
  ASSUME NEW s, Mid(s), s.tasks # <<>>, NEW running \in BOOLEAN, NEW u, u = Set(s, running)
  PROVE  Running(u, s, running)
<1> DEFINE t == Head(s.tasks)
           k == [t EXCEPT !.running = running]
           ts == [s.tasks EXCEPT ![1] = k]
<1>1. s \in RsState /\ s.tasks \in Seq(Task) /\ Typed(s)
  BY DEF Mid, Typed, RsState
<1>2. t \in Task /\ s.tasks[1] = t
  BY <1>1, HeadIs
<1>3. k \in Task /\ k.resultset = t.resultset /\ k.which = t.which
  BY <1>2 DEF Task
<1>k. k = [Head(s.tasks) EXCEPT !.running = running]
  OBVIOUS
<1>4. u = [s EXCEPT !.tasks = ts]
  BY <1>2 DEF Set
<1> HIDE DEF k
<1>5. Headed(ts, s.tasks, k) /\ ts \in Seq(Task)
  BY <1>1, <1>3, HeadIs DEF Headed
<1> HIDE DEF ts
<1>6. u \in RsState
  BY <1>1, <1>4, <1>5 DEF RsState
<1>7. /\ u.tasks = ts /\ Still(u, s) /\ u.wire = s.wire /\ u.error = s.error
      /\ u.fault = s.fault /\ u.sets = s.sets /\ u.resultsets = s.resultsets /\ u.server = s.server
  BY <1>1, <1>4 DEF RsState, Still
<1>8. Typed(u) /\ LiveNamed(u)
  BY <1>1, <1>6, <1>7 DEF Typed, Mid, LiveNamed
<1>9. Alike(u, s)
  <2>1. Len(ts) = Len(s.tasks) /\ \A i \in 1..Len(s.tasks) :
          ts[i].resultset = s.tasks[i].resultset /\ ts[i].which = s.tasks[i].which
    BY <1>1, <1>3, <1>5, HeadedAlike
  <2> QED BY <1>7, <2>1 DEF Alike
<1>10. Mid(u)
  BY <1>8, <1>9, AlikeMid
<1>11. u.tasks # <<>>
  BY <1>5, <1>7 DEF Headed
<1>12. Headed(u.tasks, s.tasks, k)
  BY <1>5, <1>7
<1> QED BY <1>7, <1>9, <1>10, <1>11, <1>12, <1>k DEF Running

\* ZOOM_connection_exec_task
Executed(p, s) ==
  \/ (s.error # "NONE" \/ ~ s.up) /\ p = RemoveTasks(s)
  \/ \E u :
       /\ s.error = "NONE" /\ Running(u, s, TRUE) /\ Ready(u)
       /\ \/ /\ Head(s.tasks).which = "SORT" /\ Proto = "Z3950"
             /\ p = SendSort(u, Head(s.tasks).resultset)
          \/ Head(s.tasks).which = "SEARCH" /\ p = Finish(SearchStep(u))

LEMMA ExecIs ==
  ASSUME Base(zs), Exec
  PROVE  /\ Executed(zs', zs) /\ Base(zs') /\ zs.fault = "NONE" /\ zs.wire = {} /\ zs.tasks # <<>>
<1> DEFINE t == Head(zs.tasks)
           r == t.resultset
           u == Set(zs, TRUE)
<1>1. /\ Mid(zs) /\ zs \in RsState /\ zs.tasks \in Seq(Task) /\ zs.tasks # <<>> /\ zs.fault = "NONE"
      /\ zs' = ExecTask(zs)
  BY DEF Base, Mid, Typed, RsState, Exec
<1>2. zs.wire = {}
  BY DEF Exec, Base, Outstanding
<1>3. t \in Task /\ t = zs.tasks[1] /\ 1 \in 1..Len(zs.tasks)
  BY <1>1, HeadIs
<1>4. zs.sets[r].status = "alive"
  BY <1>1, <1>3, QueuedAlive
<1>5. zs' = IF zs.error # "NONE" \/ ~ zs.up THEN RemoveTasks(zs)
            ELSE IF t.which = "SORT" THEN SendSort(u, r)
            ELSE Finish(SearchStep(u))
  BY <1>1, <1>4 DEF ExecTask, Set
<1> HIDE DEF u
<1>6. CASE zs.error # "NONE" \/ ~ zs.up
  <2>1. zs' = RemoveTasks(zs)
    BY <1>5, <1>6
  <2>2. Mid(zs') /\ zs'.wire = {}
    BY <1>1, <1>2, <2>1, RemoveTasksMid DEF Drops, Rest
  <2> QED BY <1>1, <1>2, <1>6, <2>1, <2>2 DEF Executed, Base
<1>7. CASE ~(zs.error # "NONE" \/ ~ zs.up)
  <2>1. Running(u, zs, TRUE)
    <3>1. u = Set(zs, TRUE) /\ TRUE \in BOOLEAN
      BY DEF u
    <3> QED BY <1>1, <3>1, RunningIs
  <2>2. /\ Mid(u) /\ u.tasks # <<>> /\ u.wire = {} /\ u.error = "NONE"
        /\ Head(u.tasks) = [t EXCEPT !.running = TRUE]
    BY <1>2, <1>7, <2>1 DEF Running, Headed
  <2>3. Head(u.tasks).running /\ Head(u.tasks).resultset = r
    BY <1>3, <2>2 DEF Task
  <2>4. Ready(u)
    BY <2>2, <2>3 DEF Ready
  <2>5. CASE t.which = "SORT"
    <3>1. Proto = "Z3950"
      BY <1>1, <1>3, <2>5, RsAssumption DEF Mid, HttpSearches
    <3>2. zs' = SendSort(u, r)
      BY <1>5, <1>7, <2>5
    <3>3. Base(zs')
      BY <2>3, <2>4, <3>1, <3>2, SendSortIs DEF Ready
    <3> QED BY <1>1, <1>2, <1>7, <2>1, <2>4, <2>5, <3>1, <3>2, <3>3 DEF Executed
  <2>6. CASE t.which # "SORT"
    <3>1. t.which = "SEARCH"
      BY <1>3, <2>6 DEF Task
    <3>2. zs' = Finish(SearchStep(u))
      BY <1>5, <1>7, <2>6
    <3>3. Base(zs')
      BY <2>4, <3>2, FinishIs DEF Ready
    <3> QED BY <1>1, <1>2, <1>7, <2>1, <2>4, <3>1, <3>2, <3>3 DEF Executed
  <2> QED BY <2>5, <2>6
<1> QED BY <1>6, <1>7

\* The session is gone.
Gone(s) == [s EXCEPT !.wire = {}, !.server = [n \in Names |-> {}]]

LEMMA GoneIs ==
  ASSUME NEW s, Mid(s), NEW p, p = Gone(s)
  PROVE  /\ Mid(p) /\ Alike(p, s) /\ p.tasks = s.tasks /\ p.sets = s.sets /\ p.fault = s.fault
         /\ p.resultsets = s.resultsets /\ p.open = s.open /\ p.error = s.error /\ p.wire = {}
         /\ p.up = s.up /\ p.reconnect_ok = s.reconnect_ok /\ p.odd = s.odd
         /\ \A n \in Names : p.server[n] = {}
<1> DEFINE f == [n \in Names |-> {}]
<1>1. s \in RsState /\ Typed(s)
  BY DEF Mid, Typed
<1>2. f \in [Names -> SUBSET ServerSet] /\ \A n \in Names : f[n] = {}
  OBVIOUS
<1>3. p = [s EXCEPT !.wire = {}, !.server = f]
  BY DEF Gone
<1> HIDE DEF f
<1>4. p \in RsState
  BY <1>1, <1>2, <1>3 DEF RsState
<1>5. /\ p.tasks = s.tasks /\ p.sets = s.sets /\ p.fault = s.fault
      /\ p.resultsets = s.resultsets /\ p.open = s.open /\ p.error = s.error /\ p.wire = {}
      /\ p.up = s.up /\ p.reconnect_ok = s.reconnect_ok /\ p.odd = s.odd /\ p.server = f
  BY <1>1, <1>3 DEF RsState
<1>6. Typed(p)
  BY <1>2, <1>4, <1>5 DEF Typed, AtMostOne
<1> QED BY <1>2, <1>5, <1>6, SameMid

\* p is s without its session and request; the first task may be put back.
Lost(p, s) ==
  /\ Mid(p) /\ Alike(p, s) /\ p.sets = s.sets /\ p.fault = s.fault /\ p.resultsets = s.resultsets
  /\ p.wire = {} /\ p.open = s.open /\ \A n \in Names : p.server[n] = {}
  /\ \/ p.tasks = s.tasks
     \/ Headed(p.tasks, s.tasks, [Head(s.tasks) EXCEPT !.running = FALSE])

LEMMA LoseIs ==
  ASSUME Base(zs), Lose
  PROVE  Lost(zs', zs) /\ Base(zs') /\ zs.fault = "NONE" /\ zs.tasks # <<>>
<1> DEFINE s == Gone(zs)
<1>1. /\ Mid(s) /\ Alike(s, zs) /\ s.tasks = zs.tasks /\ s.sets = zs.sets /\ s.fault = zs.fault
      /\ s.resultsets = zs.resultsets /\ s.open = zs.open /\ s.wire = {}
      /\ \A n \in Names : s.server[n] = {}
  BY GoneIs DEF Base
<1>2. zs.tasks # <<>> /\ zs.fault = "NONE"
  BY DEF Lose, Base, Outstanding
<1>3. \/ zs' = [s EXCEPT !.up = FALSE, !.error = "CONNECTION_LOST"]
      \/ zs' = [s EXCEPT !.reconnect_ok = FALSE, !.tasks[1].running = FALSE]
  BY DEF Lose, Gone
<1> HIDE DEF s
<1>4. s \in RsState /\ Typed(s)
  BY <1>1 DEF Mid, Typed
<1>5. CASE zs' = [s EXCEPT !.up = FALSE, !.error = "CONNECTION_LOST"]
  <2>1. zs' \in RsState
    BY <1>4, <1>5 DEF RsState
  <2>2. /\ zs'.tasks = s.tasks /\ zs'.sets = s.sets /\ zs'.fault = s.fault
        /\ zs'.resultsets = s.resultsets /\ zs'.open = s.open /\ zs'.wire = s.wire
        /\ zs'.server = s.server
    BY <1>4, <1>5 DEF RsState
  <2>3. Typed(zs')
    BY <1>4, <2>1, <2>2 DEF Typed
  <2>4. Mid(zs') /\ Alike(zs', s)
    BY <1>1, <2>2, <2>3, SameMid
  <2>5. Alike(zs', zs)
    BY <1>1, <2>4, AlikeTwice
  <2> QED BY <1>1, <1>2, <2>2, <2>4, <2>5 DEF Lost, Base
<1>6. CASE zs' = [s EXCEPT !.reconnect_ok = FALSE, !.tasks[1].running = FALSE]
  <2> DEFINE u == [s EXCEPT !.reconnect_ok = FALSE]
  <2>1. u \in RsState
    BY <1>4 DEF RsState
  <2>2. /\ u.tasks = s.tasks /\ u.sets = s.sets /\ u.fault = s.fault
        /\ u.resultsets = s.resultsets /\ u.open = s.open /\ u.wire = s.wire
        /\ u.server = s.server
    BY <1>4 DEF RsState
  <2>3. zs' = Set(u, FALSE)
    BY <1>6, <2>2 DEF Set
  <2> HIDE DEF u
  <2>4. Typed(u)
    BY <1>4, <2>1, <2>2 DEF Typed
  <2>5. Mid(u) /\ Alike(u, s)
    BY <1>1, <2>2, <2>4, SameMid
  <2>6. Running(zs', u, FALSE)
    <3>1. u.tasks # <<>> /\ FALSE \in BOOLEAN
      BY <1>1, <1>2, <2>2
    <3> QED BY <2>3, <2>5, <3>1, RunningIs
  <2>7. Alike(zs', s)
    BY <2>5, <2>6, AlikeTwice DEF Running
  <2>8. Alike(zs', zs)
    BY <1>1, <2>7, AlikeTwice
  <2>9. Headed(zs'.tasks, zs.tasks, [Head(zs.tasks) EXCEPT !.running = FALSE])
    BY <1>1, <2>2, <2>6 DEF Running
  <2>10. /\ Mid(zs') /\ zs'.sets = zs.sets /\ zs'.fault = zs.fault /\ zs'.resultsets = zs.resultsets
         /\ zs'.wire = {} /\ zs'.open = zs.open /\ zs'.server = s.server
    BY <1>1, <2>2, <2>6 DEF Running, Still
  <2> QED BY <1>1, <1>2, <2>8, <2>9, <2>10 DEF Lost, Base
<1> QED BY <1>3, <1>5, <1>6

(***************************************************************************)
(* Every action keeps the invariant: the application                       *)
(***************************************************************************)
\* Only the connection changes.
LEMMA SameBase ==
  ASSUME NEW s, Base(s), NEW p, Typed(p), p.tasks = s.tasks, p.sets = s.sets,
         p.resultsets = s.resultsets, p.wire = s.wire,
         p.error = s.error \/ s.tasks = <<>>
  PROVE  Base(p)
<1>1. Mid(p)
  BY SameMid DEF Base
<1>2. ASSUME NEW q \in p.wire PROVE Outstanding(p, q)
  BY DEF Base, Outstanding
<1> QED BY <1>1, <1>2 DEF Base

\* A connection is made on demand.
Prepared(p, s) ==
  /\ Base(p) /\ p.tasks = s.tasks /\ p.sets = s.sets /\ p.resultsets = s.resultsets
  /\ p.wire = s.wire /\ p.error = s.error /\ p.fault = s.fault /\ p.open = s.open
  /\ p.server = s.server

LEMMA PrepareIs ==
  ASSUME NEW s, Base(s), NEW p, p = Prepare(s)
  PROVE  Prepared(p, s)
<1>1. s \in RsState /\ Typed(s)
  BY DEF Base, Mid, Typed
<1>2. \/ p = s
      \/ p = [s EXCEPT !.reconnect_ok = TRUE]
      \/ p = [s EXCEPT !.up = TRUE]
  BY DEF Prepare
<1>3. p \in RsState
  BY <1>1, <1>2 DEF RsState
<1>4. /\ p.tasks = s.tasks /\ p.sets = s.sets /\ p.resultsets = s.resultsets
      /\ p.wire = s.wire /\ p.error = s.error /\ p.fault = s.fault /\ p.open = s.open
      /\ p.server = s.server
  BY <1>1, <1>2 DEF RsState
<1>5. Typed(p)
  BY <1>1, <1>3, <1>4 DEF Typed
<1> QED BY <1>4, <1>5, SameBase DEF Prepared

\* p is s with the task t at the end of the queue, as a user of its set.
Queued(p, s, t) ==
  LET r == t.resultset IN
  /\ Base(p) /\ p.tasks = Append(s.tasks, t)
  /\ p.wire = s.wire /\ p.server = s.server /\ p.fault = s.fault /\ p.open = s.open
  /\ p.resultsets = s.resultsets
  /\ p.sets[r] = [s.sets[r] EXCEPT !.refcount = s.sets[r].refcount + 1]
  /\ \A o \in ResultSets : o # r => p.sets[o] = s.sets[o]

LEMMA AddTaskBase ==
  ASSUME NEW s, Base(s), NEW t \in Task, s.sets[t.resultset].refcount > 0,
         Proto = "HTTP" => t.which = "SEARCH", NEW p, p = AddTask(s, t)
  PROVE  Queued(p, s, t)
<1> DEFINE r == t.resultset
           x == s.sets[r]
<1>1. /\ Mid(s) /\ Typed(s) /\ Refs(s) /\ LiveNamed(s) /\ HttpSearches(s)
      /\ s.tasks \in Seq(Task) /\ r \in ResultSets /\ x \in ResultSet
  BY DEF Base, Mid, Typed, RsState, Task
<1>2. /\ Typed(p) /\ p.tasks = Append(s.tasks, t)
      /\ p.error = (IF s.error = "DIAG" THEN "NONE" ELSE s.error)
      /\ p.open = s.open /\ p.wire = s.wire /\ p.server = s.server /\ p.fault = s.fault
      /\ p.resultsets = s.resultsets
      /\ p.sets[r] = [x EXCEPT !.refcount = x.refcount + 1]
      /\ \A o \in ResultSets : o # r => p.sets[o] = s.sets[o]
  BY <1>1, AddTaskIs
<1>3. Refs(p)
  BY <1>1, AddTaskRefs
<1>4. p.sets[r].setname = x.setname /\ p.sets[r].live_set = x.live_set
  BY <1>1, <1>2 DEF ResultSet
<1>5. \A o \in ResultSets : /\ p.sets[o].setname = s.sets[o].setname
                            /\ p.sets[o].live_set = s.sets[o].live_set
  BY <1>2, <1>4
<1>6. LiveNamed(p)
  BY <1>1, <1>5 DEF LiveNamed
<1>7. /\ p.tasks \in Seq(Task) /\ Len(p.tasks) = Len(s.tasks) + 1 /\ Len(s.tasks) \in Nat
      /\ \A i \in 1..Len(s.tasks) : p.tasks[i] = s.tasks[i]
      /\ p.tasks[Len(s.tasks) + 1] = t
  <2>1. /\ Append(s.tasks, t) \in Seq(Task) /\ Len(Append(s.tasks, t)) = Len(s.tasks) + 1
        /\ \A i \in 1..Len(s.tasks) : Append(s.tasks, t)[i] = s.tasks[i]
        /\ Append(s.tasks, t)[Len(s.tasks) + 1] = t
    BY <1>1, AppendProperties
  <2> QED BY <1>1, <1>2, <2>1, LenProperties
<1>8. HttpSearches(p)
  <2>1. \A i \in 1..(Len(s.tasks) + 1) : i \in 1..Len(s.tasks) \/ i = Len(s.tasks) + 1
    BY <1>7
  <2> QED BY <1>1, <1>7, <2>1 DEF HttpSearches
<1>9. Mid(p)
  BY <1>2, <1>3, <1>6, <1>8 DEF Mid
<1>10. ASSUME NEW q \in p.wire PROVE Outstanding(p, q)
  <2>1. Outstanding(s, q)
    BY <1>2 DEF Base
  <2>2. s.tasks # <<>> /\ q.set = Head(s.tasks).resultset /\ s.error = "NONE"
    BY <2>1 DEF Outstanding
  <2>3. p.tasks # <<>> /\ Head(p.tasks) = Head(s.tasks)
    <3>1. 1 \in 1..Len(s.tasks) /\ Head(s.tasks) = s.tasks[1]
      BY <1>1, <2>2, HeadIs
    <3>2. Len(p.tasks) # 0
      BY <1>7
    <3>3. p.tasks # <<>>
      BY <3>2, EmptySeq
    <3>4. Head(p.tasks) = p.tasks[1]
      BY <1>7, <3>3, HeadIs
    <3> QED BY <1>7, <3>1, <3>3, <3>4
  <2>4. q.set \in ResultSets
    BY <1>1, <2>2, HeadIs DEF Task
  <2>5. p.error = "NONE"
    BY <1>2, <2>2
  <2> QED BY <1>5, <2>1, <2>3, <2>4, <2>5 DEF Outstanding
<1>11. Base(p)
  BY <1>9, <1>10 DEF Base
<1> QED BY <1>2, <1>11 DEF Queued

\* One set changes, but not who refers to it or what it is called.
LEMMA SetBase ==
  ASSUME NEW s, Base(s), NEW r \in ResultSets, NEW y \in ResultSet,
         y.status = s.sets[r].status, y.handle = s.sets[r].handle,
         y.refcount = s.sets[r].refcount, y.valid = s.sets[r].valid,
         y.connection = s.sets[r].connection, y.setname = s.sets[r].setname,
         y.live_set = s.sets[r].live_set,
         NEW p, p = WithSet(s, r, y)
  PROVE  Base(p)
<1>1. Mid(s) /\ LiveNamed(s) /\ s \in RsState
  BY DEF Base, Mid, Typed
<1>2. Mid(p)
  BY <1>1, SetMid DEF LiveNamed
<1>3. /\ p.sets[r] = y /\ p.tasks = s.tasks /\ p.error = s.error /\ p.wire = s.wire
      /\ \A q \in ResultSets : q # r => p.sets[q] = s.sets[q]
  BY <1>1, SetIs
<1>4. \A o \in ResultSets : /\ p.sets[o].setname = s.sets[o].setname
                            /\ p.sets[o].live_set = s.sets[o].live_set
  BY <1>3
<1>5. \A q \in s.wire : q.set \in ResultSets
  BY <1>1 DEF RsState, Requests
<1>6. ASSUME NEW q \in p.wire PROVE Outstanding(p, q)
  BY <1>3, <1>4, <1>5 DEF Base, Outstanding
<1> QED BY <1>2, <1>6 DEF Base

\* u is s with the new result set x, of which only the application knows.
Created(u, s, r, x) ==
  /\ Base(u) /\ u.tasks = s.tasks /\ u.wire = s.wire /\ u.server = s.server
  /\ u.fault = s.fault /\ u.open = s.open /\ u.error = s.error
  /\ u.resultsets = s.resultsets \cup {r}
  /\ u.sets[r] = x /\ \A o \in ResultSets : o # r => u.sets[o] = s.sets[o]

New_(s, r, x) == [s EXCEPT !.sets[r] = x, !.resultsets = s.resultsets \cup {r}]

LEMMA CreatedIs ==
  ASSUME NEW s, Base(s), NEW r \in ResultSets, s.sets[r].status = "new",
         NEW x \in ResultSet, x.status = "alive", x.handle, x.refcount = 1, x.connection,
         x.live_set = 0, NEW u, u = New_(s, r, x)
  PROVE  Created(u, s, r, x) /\ On(s.tasks, r) = {} /\ On(u.tasks, r) = {}
<1>1. /\ Mid(s) /\ Typed(s) /\ Refs(s) /\ LiveNamed(s) /\ HttpSearches(s) /\ s \in RsState
      /\ s.tasks \in Seq(Task) /\ s.sets[r] \in ResultSet
  BY DEF Base, Mid, Typed, RsState
<1> DEFINE v == WithSet(s, r, x)
<1>2. /\ v \in RsState /\ v.sets[r] = x /\ v.tasks = s.tasks /\ v.error = s.error
      /\ v.fault = s.fault /\ v.open = s.open /\ v.wire = s.wire /\ v.server = s.server
      /\ v.resultsets = s.resultsets /\ \A q \in ResultSets : q # r => v.sets[q] = s.sets[q]
  BY <1>1, SetIs
<1>3. u = [v EXCEPT !.resultsets = v.resultsets \cup {r}]
  BY <1>2 DEF New_, WithSet
<1> HIDE DEF v
<1>4. /\ u \in RsState /\ u.sets = v.sets /\ u.tasks = v.tasks /\ u.error = v.error
      /\ u.fault = v.fault /\ u.open = v.open /\ u.wire = v.wire /\ u.server = v.server
      /\ u.resultsets = v.resultsets \cup {r}
  <2>1. v.resultsets \cup {r} \in SUBSET ResultSets
    BY <1>2 DEF RsState
  <2> QED BY <1>2, <1>3, <2>1 DEF RsState
<1>5. Users(s.tasks, r) = 0 /\ On(s.tasks, r) = {}
  <2>1. s.sets[r].refcount = Users(s.tasks, r) + Held(s.sets[r]) /\ ~(s.sets[r].refcount > 0)
    BY <1>1 DEF Refs, Living
  <2>2. Users(s.tasks, r) \in Nat /\ Held(s.sets[r]) \in Nat
    BY <1>1, UsersType DEF Held
  <2>3. Users(s.tasks, r) = 0
    BY <2>1, <2>2
  <2> QED BY <1>1, <2>3, UsersType
<1>6. Typed(u)
  BY <1>1, <1>2, <1>4 DEF Typed
<1>7. Refs(u)
  <2>1. ASSUME NEW q \in ResultSets
        PROVE  /\ u.sets[q].refcount = Users(u.tasks, q) + Held(u.sets[q]) /\ Living(u.sets[q])
               /\ q \in u.resultsets <=> u.sets[q].connection
    <3>1. CASE q = r
      <4>1. u.sets[q] = x /\ Users(u.tasks, q) = 0 /\ q \in u.resultsets
        BY <1>2, <1>4, <1>5, <3>1
      <4> QED BY <4>1 DEF Held, Living
    <3>2. CASE q # r
      <4>1. u.sets[q] = s.sets[q] /\ u.tasks = s.tasks /\ (q \in u.resultsets <=> q \in s.resultsets)
        BY <1>2, <1>4, <3>2
      <4> QED BY <1>1, <4>1 DEF Refs, Linked
    <3> QED BY <3>1, <3>2
  <2> QED BY <2>1 DEF Refs, Linked
<1>8. LiveNamed(u)
  BY <1>1, <1>2, <1>4 DEF LiveNamed
<1>9. HttpSearches(u)
  BY <1>1, <1>2, <1>4 DEF HttpSearches
<1>10. ASSUME NEW q \in u.wire PROVE Outstanding(u, q)
  <2>1. Outstanding(s, q)
    BY <1>2, <1>4 DEF Base
  <2>2. q.set # r /\ q.set \in ResultSets
    <3>1. s.tasks # <<>> /\ q.set = Head(s.tasks).resultset
      BY <2>1 DEF Outstanding
    <3>2. 1 \in 1..Len(s.tasks) /\ Head(s.tasks) = s.tasks[1]
      BY <1>1, <3>1, HeadIs
    <3> QED BY <1>1, <3>1, <3>2, QueuedAlive
  <2>3. u.sets[q.set] = s.sets[q.set] /\ u.tasks = s.tasks /\ u.error = s.error
    BY <1>2, <1>4, <2>2
  <2> QED BY <2>1, <2>3 DEF Outstanding
<1>11. Base(u)
  BY <1>6, <1>7, <1>8, <1>9, <1>10 DEF Base, Mid
<1> QED BY <1>2, <1>4, <1>5, <1>11 DEF Created

\* ZOOM_connection_search: a new set, a connection if there is none, a task.
LEMMA SearchIs ==
  ASSUME Base(zs), NEW r \in ResultSets, NEW start \in Starts, NEW count \in Counts,
         NEW step \in Steps, NEW piggyback \in Piggybacks, NEW sort \in BOOLEAN,
         NEW valid \in BOOLEAN, Search(r, start, count, step, piggyback, sort, valid)
  PROVE  \E x, u, v :
           /\ x \in ResultSet /\ x.connection /\ x.setname = NoName /\ x.live_set = 0
           /\ x.cache = {} /\ x.valid = valid
           /\ Created(u, zs, r, x) /\ Prepared(v, u)
           /\ NewTask("SEARCH", r, start, count) \in Task
           /\ Queued(zs', v, NewTask("SEARCH", r, start, count))
           /\ On(zs.tasks, r) = {} /\ zs.sets[r].status = "new" /\ zs.open /\ zs.fault = "NONE"
           /\ valid \/ "badQuery" \in Liberties
           /\ Named \/ "share" \in Liberties \/ Proto = "HTTP" \/ zs.resultsets = {}
<1> DEFINE x == [Fresh EXCEPT !.status = "alive", !.handle = TRUE, !.refcount = 1,
                              !.connection = TRUE, !.sort_spec = sort, !.valid = valid,
                              !.step = step, !.piggyback = piggyback]
           u == New_(zs, r, x)
           v == Prepare(u)
           t == NewTask("SEARCH", r, start, count)
<1>1. step \in Nat /\ piggyback \in BOOLEAN /\ start \in Nat /\ count \in Nat /\ start + count \in Nat
  BY RsAssumption
<1>2. /\ Fresh \in ResultSet /\ Fresh.setname = NoName /\ Fresh.live_set = 0 /\ Fresh.cache = {}
  BY DEF Fresh, ResultSet
<1>3. x \in ResultSet
  <2> DEFINE y == [Fresh EXCEPT !.status = "alive", !.handle = TRUE, !.refcount = 1,
                                !.connection = TRUE]
  <2>1. y \in ResultSet
    BY <1>2 DEF ResultSet
  <2>2. x = [y EXCEPT !.sort_spec = sort, !.valid = valid, !.step = step, !.piggyback = piggyback]
    BY <1>2 DEF ResultSet
  <2> HIDE DEF x, y
  <2> QED BY <1>1, <2>1, <2>2 DEF ResultSet
<1>4. /\ x.status = "alive" /\ x.handle /\ x.refcount = 1 /\ x.connection /\ x.live_set = 0
      /\ x.setname = NoName /\ x.cache = {} /\ x.valid = valid
  BY <1>1, <1>2 DEF ResultSet
<1>5. t \in Task /\ t.resultset = r /\ t.which = "SEARCH"
  BY <1>1 DEF NewTask, Task
<1>6. /\ zs.sets[r].status = "new" /\ zs.open /\ zs.fault = "NONE"
      /\ valid \/ "badQuery" \in Liberties
      /\ Named \/ "share" \in Liberties \/ Proto = "HTTP" \/ zs.resultsets = {}
      /\ zs' = AddTask(v, t)
  BY DEF Search, Call, New_
<1> HIDE DEF x, t, v, u
<1>7. Created(u, zs, r, x) /\ On(zs.tasks, r) = {}
  BY <1>3, <1>4, <1>6, CreatedIs DEF u
<1>8. Prepared(v, u)
  BY <1>7, PrepareIs DEF Created, v
<1>9. v.sets[r] = x
  BY <1>7, <1>8 DEF Created, Prepared
<1>10. Queued(zs', v, t)
  <2>1. Base(v) /\ v.sets[t.resultset].refcount > 0
    BY <1>4, <1>5, <1>8, <1>9 DEF Prepared
  <2> QED BY <1>5, <1>6, <2>1, AddTaskBase
<1> QED BY <1>3, <1>4, <1>5, <1>6, <1>7, <1>8, <1>10 DEF t

\* A set with a handle is alive.
LEMMA HeldAlive ==
  ASSUME NEW s, Mid(s), NEW r \in ResultSets, s.sets[r].handle
  PROVE  s.sets[r].refcount > 0 /\ s.sets[r].status = "alive"
<1>1. /\ s.sets[r].refcount = Users(s.tasks, r) + Held(s.sets[r]) /\ Living(s.sets[r])
      /\ s.tasks \in Seq(Task)
  BY DEF Mid, Refs, Typed, RsState
<1>2. Users(s.tasks, r) \in Nat /\ Held(s.sets[r]) = 1
  BY <1>1, UsersType DEF Held
<1>3. s.sets[r].refcount > 0
  BY <1>1, <1>2
<1> QED BY <1>1, <1>3 DEF Living

LEMMA RetrieveIs ==
  ASSUME Base(zs), NEW r \in ResultSets, NEW start \in Starts, NEW count \in Counts,
         Retrieve(r, start, count)
  PROVE  \E v : /\ Prepared(v, zs) /\ NewTask("SEARCH", r, start, count) \in Task
                /\ Queued(zs', v, NewTask("SEARCH", r, start, count))
                /\ zs.sets[r].connection /\ zs.fault = "NONE"
<1> DEFINE v == Prepare(zs)
           t == NewTask("SEARCH", r, start, count)
<1>1. start \in Nat /\ count \in Nat /\ start + count \in Nat
  BY RsAssumption
<1>2. t \in Task /\ t.resultset = r /\ t.which = "SEARCH"
  BY <1>1 DEF NewTask, Task
<1>3. /\ zs.sets[r].handle /\ zs.sets[r].connection /\ zs.fault = "NONE"
      /\ zs' = AddTask(v, t)
  BY DEF Retrieve, Call
<1> HIDE DEF v, t
<1>4. Prepared(v, zs)
  BY PrepareIs DEF v
<1>5. v.sets[r].refcount > 0 /\ Base(v)
  BY <1>3, <1>4, HeldAlive DEF Prepared, Base
<1>6. Queued(zs', v, t)
  BY <1>2, <1>3, <1>5, AddTaskBase
<1> QED BY <1>2, <1>3, <1>4, <1>6 DEF t

\* The cache of a set is emptied before it is sorted.
Emptied(u, s, r) ==
  /\ Base(u) /\ u.tasks = s.tasks /\ u.wire = s.wire /\ u.server = s.server
  /\ u.fault = s.fault /\ u.open = s.open /\ u.error = s.error /\ u.resultsets = s.resultsets
  /\ u.sets[r] = [s.sets[r] EXCEPT !.cache = {}]
  /\ \A o \in ResultSets : o # r => u.sets[o] = s.sets[o]

LEMMA SortIs ==
  ASSUME Base(zs), NEW r \in ResultSets, Sort(r)
  PROVE  /\ zs.fault = "NONE" /\ Proto = "Z3950" /\ zs.sets[r].handle
         /\ "sortBusy" \in Liberties \/ \A i \in SearchesOn(zs, r) : zs.tasks[i].count = 0
         /\ "sortUnsent" \in Liberties \/ zs.sets[r].setname # NoName \/ On(zs.tasks, r) # {}
         /\ \/ /\ ~ zs.sets[r].connection /\ "sortReleased" \in Liberties
               /\ zs' = Fault(zs, "RELEASED")
            \/ \E u : /\ zs.sets[r].connection /\ Emptied(u, zs, r)
                      /\ NewTask("SORT", r, 0, 0) \in Task
                      /\ Queued(zs', u, NewTask("SORT", r, 0, 0))
<1> DEFINE x == zs.sets[r]
           y == [x EXCEPT !.cache = {}]
           u == WithSet(zs, r, y)
           t == NewTask("SORT", r, 0, 0)
<1>1. /\ zs.fault = "NONE" /\ Proto = "Z3950" /\ x.handle
      /\ "sortBusy" \in Liberties \/ \A i \in SearchesOn(zs, r) : zs.tasks[i].count = 0
      /\ "sortReleased" \in Liberties \/ x.connection
      /\ "sortUnsent" \in Liberties \/ zs.sets[r].setname # NoName \/ On(zs.tasks, r) # {}
      /\ ~ x.connection => zs' = Fault(zs, "RELEASED")
      /\ x.connection => zs' = AddTask(u, t)
  BY DEF Sort, Call, TasksOn, On, WithSet
<1>2. CASE ~ x.connection
  BY <1>1, <1>2
<1>3. CASE x.connection
  <2>1. zs \in RsState /\ x \in ResultSet /\ Mid(zs)
    BY DEF Base, Mid, Typed, RsState
  <2>2. t \in Task /\ t.resultset = r /\ t.which = "SORT"
    BY DEF NewTask, Task
  <2>3. /\ y \in ResultSet /\ y.status = x.status /\ y.handle = x.handle
        /\ y.refcount = x.refcount /\ y.valid = x.valid /\ y.connection = x.connection
        /\ y.setname = x.setname /\ y.live_set = x.live_set
    BY <2>1 DEF ResultSet
  <2>4. y = [zs.sets[r] EXCEPT !.cache = {}]
    OBVIOUS
  <2>5. x.refcount > 0
    BY <1>1, <2>1, HeldAlive
  <2> HIDE DEF y, t
  <2>6. Base(u)
    BY <2>3, SetBase
  <2>7. /\ u.sets[r] = y /\ \A o \in ResultSets : o # r => u.sets[o] = zs.sets[o]
        /\ u.tasks = zs.tasks /\ u.wire = zs.wire /\ u.server = zs.server
        /\ u.fault = zs.fault /\ u.open = zs.open /\ u.error = zs.error
        /\ u.resultsets = zs.resultsets
    BY <2>1, <2>3, SetIs
  <2> HIDE DEF u
  <2>8. Emptied(u, zs, r)
    BY <2>4, <2>6, <2>7 DEF Emptied
  <2>9. Queued(zs', u, t)
    <3>1. u.sets[t.resultset].refcount > 0
      BY <2>2, <2>3, <2>5, <2>7
    <3>2. zs' = AddTask(u, t)
      BY <1>1, <1>3
    <3> QED BY <1>1, <2>2, <2>6, <3>1, <3>2, AddTaskBase
  <2> QED BY <1>1, <1>3, <2>2, <2>8, <2>9 DEF t
<1> QED BY <1>2, <1>3

LEMMA FaultBase ==
  ASSUME NEW s, Base(s), NEW f \in Faults, NEW p, p = Fault(s, f)
  PROVE  Base(p)
<1>1. s \in RsState /\ Typed(s)
  BY DEF Base, Mid, Typed
<1>2. /\ p \in RsState /\ Still(p, s) /\ p.wire = s.wire /\ p.tasks = s.tasks
      /\ p.error = s.error /\ p.sets = s.sets /\ p.server = s.server
      /\ p.resultsets = s.resultsets
  BY <1>1, FaultIs DEF Still
<1>3. Typed(p)
  BY <1>1, <1>2 DEF Typed
<1> QED BY <1>2, <1>3, SameBase

\* Sets may have been freed or unlinked, but those that tasks use are as they were.
SetsKept(p, s) ==
  \A r \in ResultSets :
    /\ p.sets[r].setname = s.sets[r].setname /\ p.sets[r].live_set = s.sets[r].live_set
    /\ p.sets[r].size = s.sets[r].size /\ p.sets[r].sort_spec = s.sets[r].sort_spec
    /\ p.sets[r].valid = s.sets[r].valid
    /\ p.sets[r].cache \subseteq s.sets[r].cache
    /\ p.sets[r].connection => s.sets[r].connection
    /\ On(p.tasks, r) # {} => p.sets[r].connection = s.sets[r].connection
    /\ p.sets[r].status = "new" => s.sets[r].status = "new"

LEMMA DropsKept ==
  ASSUME NEW s, Typed(s), NEW p, Mid(p), NEW t, NEW k \in [ResultSets -> Nat], Drops(p, s, t, k)
  PROVE  SetsKept(p, s)
<1>1. ASSUME NEW r \in ResultSets
      PROVE  /\ p.sets[r].connection => s.sets[r].connection
             /\ On(p.tasks, r) # {} => p.sets[r].connection = s.sets[r].connection
             /\ p.sets[r].status = "new" => s.sets[r].status = "new"
  <2> DEFINE x == s.sets[r]
             n == k[r]
             y == Dropped(x, n)
  <2>1. x \in ResultSet /\ n \in Nat /\ p.sets[r] = y
    BY DEF Typed, RsState, Drops
  <2>2. CASE n = 0 \/ x.refcount > n
    <3>1. y.connection = x.connection /\ y.status = x.status
      BY <2>1, <2>2, DroppedType
    <3> QED BY <2>1, <3>1
  <2>3. CASE ~(n = 0 \/ x.refcount > n)
    <3>1. y.connection = FALSE /\ y.status = "freed"
      BY <2>1, <2>3, DroppedType
    <3>2. On(p.tasks, r) = {}
      <4>1. p.tasks \in Seq(Task) /\ Living(p.sets[r])
            /\ p.sets[r].refcount = Users(p.tasks, r) + Held(p.sets[r])
        BY DEF Mid, Refs, Typed, RsState
      <4>2. Users(p.tasks, r) \in Nat /\ Held(p.sets[r]) \in Nat
        BY <4>1, UsersType DEF Held
      <4>3. ~(p.sets[r].refcount > 0)
        BY <2>1, <3>1, <4>1 DEF Living
      <4>4. Users(p.tasks, r) = 0
        BY <4>1, <4>2, <4>3
      <4> QED BY <4>1, <4>4, UsersType
    <3> QED BY <2>1, <3>1, <3>2
  <2> QED BY <2>2, <2>3
<1>2. ASSUME NEW r \in ResultSets
      PROVE  /\ p.sets[r].setname = s.sets[r].setname /\ p.sets[r].live_set = s.sets[r].live_set
             /\ p.sets[r].size = s.sets[r].size /\ p.sets[r].sort_spec = s.sets[r].sort_spec
             /\ p.sets[r].valid = s.sets[r].valid /\ p.sets[r].cache \subseteq s.sets[r].cache
  BY SetsStay
<1> QED BY <1>1, <1>2 DEF SetsKept

\* A set that is not freed keeps its records.
LEMMA DropsAlive ==
  ASSUME NEW s, Typed(s), NEW p, NEW t, NEW k \in [ResultSets -> Nat], Drops(p, s, t, k),
         NEW r \in ResultSets, p.sets[r].status = "alive"
  PROVE  p.sets[r].cache = s.sets[r].cache
<1> DEFINE x == s.sets[r]
           n == k[r]
           y == Dropped(x, n)
<1>1. x \in ResultSet /\ n \in Nat /\ p.sets[r] = y
  BY DEF Typed, RsState, Drops
<1> HIDE DEF x, n
<1>2. CASE n = 0 \/ x.refcount > n
  <2>1. y.cache = x.cache
    BY <1>1, <1>2, DroppedType
  <2> QED BY <1>1, <2>1 DEF x
<1>3. CASE ~(n = 0 \/ x.refcount > n)
  <2>1. y.status = "freed"
    BY <1>1, <1>3, DroppedType
  <2> QED BY <1>1, <2>1
<1> QED BY <1>2, <1>3

LEMMA DestroyIs ==
  ASSUME Base(zs), NEW r \in ResultSets, Destroy(r)
  PROVE  /\ Base(zs') /\ SetsKept(zs', zs) /\ zs.fault = "NONE" /\ zs'.fault = zs.fault
         /\ zs'.tasks = zs.tasks /\ zs'.wire = zs.wire /\ zs'.server = zs.server
         /\ zs'.error = zs.error /\ zs'.open = zs.open
         /\ \A o \in ResultSets :
              zs'.sets[o].status = "alive" => zs'.sets[o].cache = zs.sets[o].cache
<1> DEFINE x == zs.sets[r]
           y == [x EXCEPT !.handle = FALSE]
           u == WithSet(zs, r, y)
           k == Loses(r, 1)
<1>1. x.handle /\ zs.fault = "NONE" /\ zs' = Unref(u, r, 1)
  BY DEF Destroy, Call, WithSet
<1>2. /\ Mid(zs) /\ Typed(zs) /\ Refs(zs) /\ zs \in RsState /\ x \in ResultSet
      /\ zs.tasks \in Seq(Task) /\ HttpSearches(zs) /\ LiveNamed(zs)
  BY DEF Base, Mid, Typed, RsState
<1>3. /\ y \in ResultSet /\ y.status = x.status /\ y.handle = FALSE /\ y.setname = x.setname
      /\ y.refcount = x.refcount /\ y.valid = x.valid /\ y.connection = x.connection
      /\ y.live_set = x.live_set /\ y.size = x.size /\ y.sort_spec = x.sort_spec
      /\ y.cache = x.cache
  BY <1>2 DEF ResultSet
<1> HIDE DEF y
<1>4. /\ u \in RsState /\ u.sets[r] = y /\ u.tasks = zs.tasks /\ u.error = zs.error
      /\ u.fault = zs.fault /\ u.open = zs.open /\ u.wire = zs.wire /\ u.server = zs.server
      /\ u.resultsets = zs.resultsets
      /\ \A q \in ResultSets : q # r => u.sets[q] = zs.sets[q]
  BY <1>2, <1>3, SetIs
<1> HIDE DEF u
<1>5. Typed(u) /\ Linked(u)
  <2>1. \A q \in ResultSets : u.sets[q].connection = zs.sets[q].connection
    BY <1>3, <1>4
  <2> QED BY <1>2, <1>4, <2>1 DEF Typed, Linked, Refs
<1>6. zs' \in RsState /\ Drops(zs', u, u.tasks, k)
  <2>1. 1 \in Nat
    OBVIOUS
  <2> QED BY <1>1, <1>5, <2>1, UnrefIs
<1>7. k \in [ResultSets -> Nat]
  BY DEF Loses
<1>8. ASSUME NEW q \in ResultSets
      PROVE  u.sets[q].refcount = Users(u.tasks, q) + k[q] + Held(u.sets[q]) /\ Living(u.sets[q])
  <2>1. zs.sets[q].refcount = Users(zs.tasks, q) + Held(zs.sets[q]) /\ Living(zs.sets[q])
    BY <1>2 DEF Refs
  <2>2. Users(zs.tasks, q) \in Nat
    BY <1>2, UsersType
  <2>3. CASE q = r
    <3>1. k[q] = 1 /\ Held(zs.sets[q]) = 1 /\ Held(u.sets[q]) = 0
      BY <1>1, <1>3, <1>4, <2>3 DEF Loses, Held
    <3>2. \A n \in Nat : n + 1 = n + 1 + 0
      OBVIOUS
    <3>3. Living(u.sets[q])
      BY <1>3, <1>4, <2>1, <2>3 DEF Living
    <3> QED BY <1>3, <1>4, <2>1, <2>2, <2>3, <3>1, <3>2, <3>3
  <2>4. CASE q # r
    <3>1. k[q] = 0 /\ u.sets[q] = zs.sets[q]
      BY <1>4, <2>4 DEF Loses
    <3>2. \A n \in Nat : n + 0 = n
      OBVIOUS
    <3> QED BY <1>4, <2>1, <2>2, <3>1, <3>2
  <2> QED BY <2>3, <2>4
<1> HIDE DEF k
<1>9. Typed(zs') /\ Refs(zs')
  BY <1>2, <1>4, <1>5, <1>6, <1>7, <1>8, DropsRefs
<1>10. /\ zs'.tasks = zs.tasks /\ zs'.wire = zs.wire /\ zs'.server = zs.server
       /\ zs'.error = zs.error /\ zs'.open = zs.open /\ zs'.fault = zs.fault
  BY <1>4, <1>6 DEF Drops, Rest
<1>11. \A q \in ResultSets : /\ zs'.sets[q].setname = u.sets[q].setname
                             /\ zs'.sets[q].live_set = u.sets[q].live_set
  BY <1>5, <1>6, <1>7, SetsStay
<1>12. \A q \in ResultSets : /\ zs'.sets[q].setname = zs.sets[q].setname
                             /\ zs'.sets[q].live_set = zs.sets[q].live_set
  BY <1>3, <1>4, <1>11
<1>13. Mid(zs')
  BY <1>2, <1>9, <1>10, <1>12 DEF Mid, LiveNamed, HttpSearches
<1>14. Base(zs')
  <2>1. ASSUME NEW q \in zs'.wire PROVE Outstanding(zs', q)
    <3>1. q.set \in ResultSets /\ Outstanding(zs, q)
      BY <1>2, <1>10 DEF RsState, Requests, Base
    <3> QED BY <1>10, <1>12, <3>1 DEF Outstanding
  <2> QED BY <1>13, <2>1 DEF Base
<1>15. SetsKept(zs', zs)
  <2>1. SetsKept(zs', u)
    BY <1>5, <1>6, <1>7, <1>13, DropsKept
  <2>2. ASSUME NEW o \in ResultSets
        PROVE  /\ u.sets[o].setname = zs.sets[o].setname /\ u.sets[o].live_set = zs.sets[o].live_set
               /\ u.sets[o].size = zs.sets[o].size /\ u.sets[o].sort_spec = zs.sets[o].sort_spec
               /\ u.sets[o].valid = zs.sets[o].valid /\ u.sets[o].cache = zs.sets[o].cache
               /\ u.sets[o].connection = zs.sets[o].connection
               /\ u.sets[o].status = zs.sets[o].status
    BY <1>3, <1>4
  <2> QED BY <2>1, <2>2 DEF SetsKept
<1>16. ASSUME NEW o \in ResultSets, zs'.sets[o].status = "alive"
       PROVE  zs'.sets[o].cache = zs.sets[o].cache
  <2>1. zs'.sets[o].cache = u.sets[o].cache
    BY <1>5, <1>6, <1>7, <1>16, DropsAlive
  <2> QED BY <1>3, <1>4, <2>1
<1> QED BY <1>1, <1>10, <1>14, <1>15, <1>16

LEMMA ReleaseIs ==
  ASSUME Base(zs), NEW r \in ResultSets, Release(r)
  PROVE  /\ Base(zs') /\ zs.fault = "NONE" /\ zs'.fault = zs.fault
         /\ zs'.tasks = zs.tasks /\ zs'.wire = zs.wire /\ zs'.server = zs.server
         /\ zs'.error = zs.error /\ zs'.open = zs.open
         /\ "releaseBusy" \in Liberties \/ SetsKept(zs', zs)
         /\ \A o \in ResultSets :
              /\ zs'.sets[o].live_set = zs.sets[o].live_set /\ zs'.sets[o].size = zs.sets[o].size
              /\ zs'.sets[o].sort_spec = zs.sets[o].sort_spec
              /\ zs'.sets[o].cache = zs.sets[o].cache
<1> DEFINE x == zs.sets[r]
           y == [x EXCEPT !.connection = FALSE]
           u == WithSet(zs, r, y)
<1>1. /\ x.handle /\ x.connection /\ zs.fault = "NONE"
      /\ "releaseBusy" \in Liberties \/ On(zs.tasks, r) = {}
  BY DEF Release, Call, TasksOn, On
<1>2. /\ Mid(zs) /\ Typed(zs) /\ Refs(zs) /\ zs \in RsState /\ x \in ResultSet
      /\ zs.tasks \in Seq(Task) /\ HttpSearches(zs) /\ LiveNamed(zs)
  BY DEF Base, Mid, Typed, RsState
<1>3. /\ y \in ResultSet /\ y.status = x.status /\ y.handle = x.handle /\ y.setname = x.setname
      /\ y.refcount = x.refcount /\ y.valid = x.valid /\ y.connection = FALSE
      /\ y.live_set = x.live_set /\ y.size = x.size /\ y.sort_spec = x.sort_spec
      /\ y.cache = x.cache
  BY <1>2 DEF ResultSet
<1>4. r \in zs.resultsets
  BY <1>1, <1>2 DEF Refs, Linked
<1>5. zs' = [zs EXCEPT !.sets[r].connection = FALSE, !.resultsets = zs.resultsets \ {r}]
  BY <1>4 DEF Release
<1> HIDE DEF y
<1>6. /\ u \in RsState /\ u.sets[r] = y /\ u.tasks = zs.tasks /\ u.error = zs.error
      /\ u.fault = zs.fault /\ u.open = zs.open /\ u.wire = zs.wire /\ u.server = zs.server
      /\ u.resultsets = zs.resultsets
      /\ \A q \in ResultSets : q # r => u.sets[q] = zs.sets[q]
  BY <1>2, <1>3, SetIs
<1>7. zs' = [u EXCEPT !.resultsets = u.resultsets \ {r}]
  <2>1. [zs EXCEPT !.sets[r].connection = FALSE] = u
    BY <1>2 DEF WithSet, RsState, y
  <2>2. zs' = [[zs EXCEPT !.sets[r].connection = FALSE] EXCEPT !.resultsets = zs.resultsets \ {r}]
    BY <1>5
  <2> HIDE DEF u
  <2> QED BY <1>6, <2>1, <2>2
<1> HIDE DEF u
<1>8. /\ zs' \in RsState /\ zs'.sets = u.sets /\ zs'.tasks = zs.tasks /\ zs'.wire = zs.wire
      /\ zs'.server = zs.server /\ zs'.error = zs.error /\ zs'.open = zs.open
      /\ zs'.fault = zs.fault /\ zs'.resultsets = zs.resultsets \ {r}
  <2>1. u.resultsets \ {r} \in SUBSET ResultSets
    BY <1>6 DEF RsState
  <2> QED BY <1>6, <1>7, <2>1 DEF RsState
<1>9. ASSUME NEW o \in ResultSets
      PROVE  /\ zs'.sets[o].setname = zs.sets[o].setname
             /\ zs'.sets[o].live_set = zs.sets[o].live_set
             /\ zs'.sets[o].size = zs.sets[o].size /\ zs'.sets[o].sort_spec = zs.sets[o].sort_spec
             /\ zs'.sets[o].valid = zs.sets[o].valid /\ zs'.sets[o].cache = zs.sets[o].cache
             /\ zs'.sets[o].status = zs.sets[o].status /\ zs'.sets[o].handle = zs.sets[o].handle
             /\ zs'.sets[o].refcount = zs.sets[o].refcount
             /\ o # r => zs'.sets[o].connection = zs.sets[o].connection
             /\ o = r => zs'.sets[o].connection = FALSE
  BY <1>3, <1>6, <1>8
<1>10. Typed(zs')
  BY <1>2, <1>8 DEF Typed
<1>11. Refs(zs')
  <2>1. ASSUME NEW o \in ResultSets
        PROVE  /\ zs'.sets[o].refcount = Users(zs'.tasks, o) + Held(zs'.sets[o])
               /\ Living(zs'.sets[o])
               /\ o \in zs'.resultsets <=> zs'.sets[o].connection
    <3>1. /\ zs.sets[o].refcount = Users(zs.tasks, o) + Held(zs.sets[o]) /\ Living(zs.sets[o])
          /\ o \in zs.resultsets <=> zs.sets[o].connection
      BY <1>2 DEF Refs, Linked
    <3>2. Held(zs'.sets[o]) = Held(zs.sets[o])
      BY <1>9 DEF Held
    <3>3. Living(zs'.sets[o])
      BY <1>9, <3>1 DEF Living
    <3>4. o \in zs'.resultsets <=> zs'.sets[o].connection
      BY <1>8, <1>9, <3>1
    <3>5. zs'.sets[o].refcount = zs.sets[o].refcount /\ Users(zs'.tasks, o) = Users(zs.tasks, o)
      BY <1>8, <1>9
    <3> QED BY <3>1, <3>2, <3>3, <3>4, <3>5
  <2> QED BY <2>1 DEF Refs, Linked
<1>12. Mid(zs')
  <2>1. LiveNamed(zs')
    <3>1. LiveNamed(zs)
      BY <1>2 DEF Mid
    <3>2. \A o \in ResultSets : /\ zs'.sets[o].live_set = zs.sets[o].live_set
                                /\ zs'.sets[o].setname = zs.sets[o].setname
      BY <1>9
    <3> QED BY <3>1, <3>2 DEF LiveNamed
  <2>2. HttpSearches(zs')
    BY <1>2, <1>8 DEF Mid, HttpSearches
  <2> QED BY <1>10, <1>11, <2>1, <2>2 DEF Mid
<1>13. Base(zs')
  <2>1. ASSUME NEW q \in zs'.wire PROVE Outstanding(zs', q)
    <3>1. q.set \in ResultSets /\ Outstanding(zs, q)
      BY <1>2, <1>8 DEF RsState, Requests, Base
    <3> QED BY <1>8, <1>9, <3>1 DEF Outstanding
  <2> QED BY <1>12, <2>1 DEF Base
<1>14. On(zs.tasks, r) = {} => SetsKept(zs', zs)
  <2>1. ASSUME On(zs.tasks, r) = {}, NEW o \in ResultSets
        PROVE  /\ zs'.sets[o].connection => zs.sets[o].connection
               /\ On(zs'.tasks, o) # {} => zs'.sets[o].connection = zs.sets[o].connection
    BY <1>8, <1>9, <2>1
  <2> QED BY <1>9, <2>1 DEF SetsKept
<1> QED BY <1>1, <1>8, <1>9, <1>13, <1>14

\* ZOOM_connection_destroy, before it removes the tasks
Closed(s) ==
  [s EXCEPT !.open = FALSE, !.up = FALSE, !.wire = {},
            !.server = [n \in Names |-> {}], !.resultsets = {},
            !.sets = [r \in ResultSets |->
                        IF r \in s.resultsets
                        THEN [s.sets[r] EXCEPT !.connection = FALSE] ELSE s.sets[r]]]

LEMMA DisconnectIs ==
  ASSUME Base(zs), Disconnect
  PROVE  /\ Base(zs') /\ SetsKept(zs', zs) /\ zs.fault = "NONE" /\ zs'.fault = zs.fault
         /\ zs'.tasks = <<>> /\ zs'.wire = {} /\ zs'.open = FALSE /\ zs'.error = zs.error
         /\ \A n \in Names : zs'.server[n] = {}
<1> DEFINE f == [r \in ResultSets |->
                   IF r \in zs.resultsets
                   THEN [zs.sets[r] EXCEPT !.connection = FALSE] ELSE zs.sets[r]]
           g == [n \in Names |-> {}]
           u == Closed(zs)
<1>1. zs.fault = "NONE" /\ zs' = RemoveTasks(u)
  BY DEF Disconnect, Call, Closed
<1>2. /\ Mid(zs) /\ Typed(zs) /\ Refs(zs) /\ zs \in RsState
      /\ zs.tasks \in Seq(Task) /\ HttpSearches(zs) /\ LiveNamed(zs)
      /\ zs.sets \in [ResultSets -> ResultSet]
  BY DEF Base, Mid, Typed, RsState
<1>3. ASSUME NEW r \in ResultSets
      PROVE  /\ f[r] \in ResultSet /\ f[r].status = zs.sets[r].status
             /\ f[r].handle = zs.sets[r].handle /\ f[r].setname = zs.sets[r].setname
             /\ f[r].refcount = zs.sets[r].refcount /\ f[r].valid = zs.sets[r].valid
             /\ f[r].connection = FALSE
             /\ f[r].live_set = zs.sets[r].live_set /\ f[r].size = zs.sets[r].size
             /\ f[r].sort_spec = zs.sets[r].sort_spec /\ f[r].cache = zs.sets[r].cache
  <2>1. r \in zs.resultsets <=> zs.sets[r].connection
    BY <1>2 DEF Refs, Linked
  <2>2. zs.sets[r] \in ResultSet
    BY <1>2
  <2>3. CASE r \in zs.resultsets
    BY <2>2, <2>3 DEF ResultSet
  <2>4. CASE r \notin zs.resultsets
    <3>1. f[r] = zs.sets[r]
      BY <2>4
    <3>2. zs.sets[r].connection = FALSE
      BY <2>1, <2>2, <2>4 DEF ResultSet
    <3> QED BY <2>2, <3>1, <3>2
  <2> QED BY <2>3, <2>4
<1>4. f \in [ResultSets -> ResultSet] /\ g \in [Names -> SUBSET ServerSet] /\ \A n \in Names : g[n] = {}
  BY <1>3
<1>5. u = [zs EXCEPT !.open = FALSE, !.up = FALSE, !.wire = {}, !.server = g, !.resultsets = {},
                     !.sets = f]
  BY DEF Closed
<1> HIDE DEF f, g, u
<1>6. u \in RsState
  BY <1>2, <1>4, <1>5 DEF RsState
<1>7. /\ u.tasks = zs.tasks /\ u.wire = {} /\ u.server = g /\ u.error = zs.error
      /\ u.open = FALSE /\ u.fault = zs.fault /\ u.resultsets = {} /\ u.sets = f
  BY <1>2, <1>5 DEF RsState
<1>8. Typed(u)
  BY <1>4, <1>6, <1>7 DEF Typed, AtMostOne
<1>9. Refs(u)
  <2>1. ASSUME NEW o \in ResultSets
        PROVE  /\ u.sets[o].refcount = Users(u.tasks, o) + Held(u.sets[o]) /\ Living(u.sets[o])
               /\ o \in u.resultsets <=> u.sets[o].connection
    <3>1. /\ zs.sets[o].refcount = Users(zs.tasks, o) + Held(zs.sets[o]) /\ Living(zs.sets[o])
      BY <1>2 DEF Refs
    <3>2. Held(u.sets[o]) = Held(zs.sets[o])
      BY <1>3, <1>7 DEF Held
    <3>3. Living(u.sets[o])
      BY <1>3, <1>7, <3>1 DEF Living
    <3> QED BY <1>3, <1>7, <3>1, <3>2, <3>3
  <2> QED BY <2>1 DEF Refs, Linked
<1>10. LiveNamed(u) /\ HttpSearches(u)
  BY <1>2, <1>3, <1>7 DEF LiveNamed, HttpSearches
<1>11. Mid(u)
  BY <1>8, <1>9, <1>10 DEF Mid
<1>12. Mid(zs') /\ Loss(u) \in [ResultSets -> Nat] /\ Drops(zs', u, <<>>, Loss(u))
  BY <1>1, <1>11, RemoveTasksMid
<1>13. /\ zs'.tasks = <<>> /\ zs'.wire = {} /\ zs'.server = g /\ zs'.error = zs.error
       /\ zs'.open = FALSE /\ zs'.fault = zs.fault
  BY <1>7, <1>12 DEF Drops, Rest
<1>14. Base(zs')
  BY <1>12, <1>13 DEF Base
<1>15. SetsKept(zs', u)
  BY <1>8, <1>12, DropsKept
<1>16. SetsKept(zs', zs)
  <2>1. ASSUME NEW o \in ResultSets
        PROVE  /\ u.sets[o].setname = zs.sets[o].setname /\ u.sets[o].live_set = zs.sets[o].live_set
               /\ u.sets[o].size = zs.sets[o].size /\ u.sets[o].sort_spec = zs.sets[o].sort_spec
               /\ u.sets[o].valid = zs.sets[o].valid /\ u.sets[o].cache = zs.sets[o].cache
               /\ u.sets[o].connection = FALSE /\ u.sets[o].status = zs.sets[o].status
               /\ On(zs'.tasks, o) = {}
    <3>1. On(<<>>, o) = {}
      BY DEF On
    <3> QED BY <1>3, <1>7, <1>13, <3>1
  <2>2. SUFFICES ASSUME NEW o \in ResultSets
                 PROVE  /\ zs'.sets[o].setname = zs.sets[o].setname
                        /\ zs'.sets[o].live_set = zs.sets[o].live_set
                        /\ zs'.sets[o].size = zs.sets[o].size
                        /\ zs'.sets[o].sort_spec = zs.sets[o].sort_spec
                        /\ zs'.sets[o].valid = zs.sets[o].valid
                        /\ zs'.sets[o].cache \subseteq zs.sets[o].cache
                        /\ ~ zs'.sets[o].connection /\ On(zs'.tasks, o) = {}
                        /\ zs'.sets[o].status = "new" => zs.sets[o].status = "new"
    BY DEF SetsKept
  <2>3. /\ zs'.sets[o].setname = u.sets[o].setname /\ zs'.sets[o].live_set = u.sets[o].live_set
        /\ zs'.sets[o].size = u.sets[o].size /\ zs'.sets[o].sort_spec = u.sets[o].sort_spec
        /\ zs'.sets[o].valid = u.sets[o].valid /\ zs'.sets[o].cache \subseteq u.sets[o].cache
        /\ zs'.sets[o].connection => u.sets[o].connection
        /\ zs'.sets[o].status = "new" => u.sets[o].status = "new"
    BY <1>15 DEF SetsKept
  <2>4. /\ u.sets[o].setname = zs.sets[o].setname /\ u.sets[o].live_set = zs.sets[o].live_set
        /\ u.sets[o].size = zs.sets[o].size /\ u.sets[o].sort_spec = zs.sets[o].sort_spec
        /\ u.sets[o].valid = zs.sets[o].valid /\ u.sets[o].cache = zs.sets[o].cache
        /\ u.sets[o].connection = FALSE /\ u.sets[o].status = zs.sets[o].status
        /\ On(zs'.tasks, o) = {}
    BY <2>1
  <2> QED BY <2>3, <2>4
<1> QED BY <1>1, <1>4, <1>13, <1>14, <1>16

LEMMA ConnectIs ==
  ASSUME Base(zs), Connect
  PROVE  /\ Base(zs') /\ zs'.sets = zs.sets /\ zs.fault = "NONE" /\ zs'.fault = zs.fault
         /\ zs'.tasks = <<>> /\ zs.tasks = <<>> /\ zs'.wire = zs.wire /\ zs'.server = zs.server
         /\ zs'.open = zs.open /\ zs'.resultsets = zs.resultsets /\ zs'.error = "NONE"
<1>1. /\ zs.fault = "NONE" /\ zs.tasks = <<>> /\ zs \in RsState /\ Typed(zs)
      /\ \/ zs' = [zs EXCEPT !.error = "NONE", !.reconnect_ok = TRUE]
         \/ zs' = [zs EXCEPT !.error = "NONE", !.up = TRUE]
  BY DEF Connect, Call, Base, Mid, Typed
<1>2. zs' \in RsState
  <2>1. CASE zs' = [zs EXCEPT !.error = "NONE", !.reconnect_ok = TRUE]
    BY <1>1, <2>1 DEF RsState
  <2>2. CASE zs' = [zs EXCEPT !.error = "NONE", !.up = TRUE]
    BY <1>1, <2>2 DEF RsState
  <2> QED BY <1>1, <2>1, <2>2
<1>3. /\ zs'.sets = zs.sets /\ zs'.fault = zs.fault
      /\ zs'.tasks = zs.tasks /\ zs'.wire = zs.wire /\ zs'.server = zs.server
      /\ zs'.open = zs.open /\ zs'.resultsets = zs.resultsets /\ zs'.error = "NONE"
  BY <1>1 DEF RsState
<1>4. Typed(zs')
  BY <1>1, <1>2, <1>3 DEF Typed
<1>5. Base(zs')
  BY <1>1, <1>3, <1>4, SameBase
<1> QED BY <1>1, <1>3, <1>5

(***************************************************************************)
(* The types and references of every reachable state                       *)
(***************************************************************************)
LEMMA FreshIs ==
  /\ Fresh \in ResultSet /\ Fresh.status = "new" /\ Fresh.refcount = 0 /\ Fresh.handle = FALSE
  /\ Fresh.connection = FALSE /\ Fresh.live_set = 0 /\ Fresh.cache = {} /\ Fresh.setname = NoName
  /\ Fresh.valid = TRUE /\ Fresh.sort_spec = FALSE /\ Fresh.size = 0
BY DEF Fresh, ResultSet

LEMMA InitIs ==
  ASSUME Init
  PROVE  /\ Base(zs) /\ HitsTyped /\ calls \in Nat
         /\ zs.tasks = <<>> /\ zs.wire = {} /\ zs.fault = "NONE" /\ zs.resultsets = {}
         /\ \A r \in ResultSets : zs.sets[r] = Fresh
         /\ \A n \in Names : zs.server[n] = {}
<1> DEFINE f == [r \in ResultSets |-> Fresh]
           g == [n \in Names |-> {}]
<1>1. /\ f \in [ResultSets -> ResultSet] /\ g \in [Names -> SUBSET ServerSet]
      /\ (\A n \in Names : g[n] = {}) /\ \A r \in ResultSets : f[r] = Fresh
  BY FreshIs
<1>2. /\ hits \in [ResultSets -> 0 .. MaxHits] /\ calls = 0
      /\ zs = [tasks |-> <<>>, resultsets |-> {}, open |-> TRUE, up |-> TRUE,
               reconnect_ok |-> FALSE, error |-> "NONE", wire |-> {}, odd |-> FALSE,
               fault |-> "NONE", sets |-> f, server |-> g]
  BY DEF Init
<1> HIDE DEF f, g
<1>3. <<>> \in Seq(Task) /\ Len(<<>>) = 0
  BY SeqClosed, EmptySeq
<1>4. zs \in RsState
  BY <1>1, <1>2, <1>3 DEF RsState, Faults
<1>5. /\ zs.tasks = <<>> /\ zs.wire = {} /\ zs.fault = "NONE" /\ zs.resultsets = {}
      /\ zs.sets = f /\ zs.server = g
  BY <1>2
<1>6. Typed(zs)
  BY <1>1, <1>4, <1>5 DEF Typed, AtMostOne
<1>7. Refs(zs)
  <2>1. ASSUME NEW o \in ResultSets
        PROVE  /\ zs.sets[o].refcount = Users(zs.tasks, o) + Held(zs.sets[o]) /\ Living(zs.sets[o])
               /\ o \in zs.resultsets <=> zs.sets[o].connection
    <3>1. zs.sets[o] = Fresh /\ Held(Fresh) = 0 /\ Living(Fresh)
      BY <1>1, <1>5, FreshIs DEF Held, Living
    <3>2. Users(<<>>, o) = 0
      BY <1>3, UsersType
    <3> QED BY <1>5, <3>1, <3>2, FreshIs
  <2> QED BY <2>1 DEF Refs, Linked
<1>8. LiveNamed(zs)
  BY <1>1, <1>5, FreshIs DEF LiveNamed
<1>9. HttpSearches(zs)
  <2>1. 1..Len(<<>>) = {}
    BY <1>3
  <2> QED BY <1>5, <2>1 DEF HttpSearches
<1>10. Base(zs)
  BY <1>5, <1>6, <1>7, <1>8, <1>9 DEF Base, Mid
<1> QED BY <1>1, <1>2, <1>5, <1>10 DEF HitsTyped

RsInv == Base(zs) /\ HitsTyped /\ calls \in Nat

LEMMA RsStep ==
  ASSUME RsInv, Next
  PROVE  RsInv'
<1>1. Base(zs) /\ HitsTyped /\ calls \in Nat
  BY DEF RsInv
<1>2. HitsTyped' /\ calls' \in Nat
  <2>1. CASE Call
    BY <1>1, <2>1 DEF Call, HitsTyped
  <2>2. CASE UNCHANGED <<hits, calls>>
    BY <1>1, <2>2 DEF HitsTyped
  <2>3. Call \/ UNCHANGED <<hits, calls>>
    BY DEF Next, Search, Retrieve, Sort, Destroy, Release, Disconnect, Connect, Exec, Respond, Lose
  <2> QED BY <2>1, <2>2, <2>3
<1>3. Base(zs)'
  <2>1. ASSUME NEW r \in ResultSets, NEW start \in Starts, NEW count \in Counts,
               NEW step \in Steps, NEW piggyback \in Piggybacks, NEW sort \in BOOLEAN,
               NEW valid \in BOOLEAN, Search(r, start, count, step, piggyback, sort, valid)
        PROVE  Base(zs')
    BY <1>1, <2>1, SearchIs DEF Queued
  <2>2. ASSUME NEW r \in ResultSets, NEW start \in Starts, NEW count \in Counts,
               Retrieve(r, start, count)
        PROVE  Base(zs')
    BY <1>1, <2>2, RetrieveIs DEF Queued
  <2>3. ASSUME NEW r \in ResultSets, Sort(r) PROVE Base(zs')
    <3>1. CASE zs' = Fault(zs, "RELEASED")
      <4>1. "RELEASED" \in Faults
        BY DEF Faults
      <4> QED BY <1>1, <3>1, <4>1, FaultBase
    <3> QED BY <1>1, <2>3, <3>1, SortIs DEF Queued
  <2>4. ASSUME NEW r \in ResultSets, Destroy(r) PROVE Base(zs')
    BY <1>1, <2>4, DestroyIs
  <2>5. ASSUME NEW r \in ResultSets, Release(r) PROVE Base(zs')
    BY <1>1, <2>5, ReleaseIs
  <2>6. CASE Disconnect
    BY <1>1, <2>6, DisconnectIs
  <2>7. CASE Connect
    BY <1>1, <2>7, ConnectIs
  <2>8. CASE Exec
    BY <1>1, <2>8, ExecIs
  <2>9. CASE Respond
    BY <1>1, <2>9, RespondIs
  <2>10. CASE Lose
    BY <1>1, <2>10, LoseIs
  <2>11. Base(zs')
    BY <2>1, <2>2, <2>3, <2>4, <2>5, <2>6, <2>7, <2>8, <2>9, <2>10 DEF Next
  <2> QED BY <2>11
<1> QED BY <1>2, <1>3 DEF RsInv

(* Whatever the application and the server do, the count of a result set is *)
(* that of its handle and of the tasks queued for it, the set is linked to  *)
(* its connection while it points to it, and a request that is outstanding  *)
(* is that of the task at the head of the queue (src/src/zoom-c.c           *)
(* ZOOM_resultset_addref, resultset_destroy, ZOOM_connection_add_task and   *)
(* ZOOM_connection_remove_task).                                            *)
THEOREM ResultSetInvariant == Spec => []RsInv
<1>1. Init => RsInv
  BY InitIs DEF RsInv
<1>2. RsInv /\ [Next]_vars => RsInv'
  <2>1. ASSUME RsInv, UNCHANGED vars PROVE RsInv'
    BY <2>1 DEF vars, RsInv, HitsTyped
  <2> QED BY <2>1, RsStep
<1> QED BY <1>1, <1>2, PTL DEF Spec

LEMMA AtMostOneIs ==
  ASSUME NEW S, AtMostOne(S)
  PROVE  Cardinality(S) <= 1
<1>1. CASE S = {}
  BY <1>1, FS_EmptySet
<1>2. CASE S # {}
  <2>1. PICK x : x \in S
    BY <1>2
  <2>2. S = {x}
    BY <2>1 DEF AtMostOne
  <2>3. Cardinality({x}) = 1
    BY FS_Singleton
  <2> QED BY <2>2, <2>3
<1> QED BY <1>1, <1>2

(* The state of the result sets is well typed, at most one request is      *)
(* outstanding, and the server keeps at most one set under a name          *)
(* (src/src/zoom-c.c:733, struct ZOOM_resultset_p in src/src/zoom-p.h).    *)
THEOREM TypesKept == Spec => []TypeOK
<1>1. RsInv => TypeOK
  <2>1. SUFFICES ASSUME RsInv PROVE TypeOK
    OBVIOUS
  <2>2. zs \in RsState /\ AtMostOne(zs.wire) /\ \A n \in Names : AtMostOne(zs.server[n])
    BY <2>1 DEF RsInv, Base, Mid, Typed
  <2>3. Cardinality(zs.wire) <= 1 /\ \A n \in Names : Cardinality(zs.server[n]) <= 1
    BY <2>2, AtMostOneIs
  <2>4. /\ zs.tasks \in Seq(Task) /\ zs.resultsets \subseteq ResultSets
        /\ zs.open \in BOOLEAN /\ zs.up \in BOOLEAN /\ zs.reconnect_ok \in BOOLEAN
        /\ zs.error \in {"NONE", "DIAG", "CONNECTION_LOST"} /\ zs.odd \in BOOLEAN
        /\ zs.wire \subseteq Requests /\ zs.fault \in Faults
        /\ zs.sets \in [ResultSets -> ResultSet]
        /\ \A n \in Names : zs.server[n] \subseteq ServerSet
    BY <2>2 DEF RsState
  <2> QED BY <2>1, <2>3, <2>4 DEF TypeOK, RsInv, HitsTyped, Faults
<1> QED BY <1>1, ResultSetInvariant, PTL

(* A result set lives exactly as long as the application or a queued task  *)
(* refers to it, and it is in its connection's list exactly while it       *)
(* points to the connection, whatever the application does and however     *)
(* many tasks are dropped at once (src/src/zoom-c.c resultset_destroy,     *)
(* ZOOM_connection_remove_tasks, ZOOM_resultset_release).                  *)
THEOREM KeptWhileUsedHolds == Spec => []KeptWhileUsed
<1>1. RsInv => KeptWhileUsed
  <2>1. SUFFICES ASSUME RsInv, NEW r \in ResultSets
                 PROVE  LET x == zs.sets[r] IN
                        /\ x.refcount = Cardinality(TasksOn(zs, r)) + (IF x.handle THEN 1 ELSE 0)
                        /\ x.status = "alive" <=> x.refcount > 0
                        /\ r \in zs.resultsets <=> x.connection
    BY DEF KeptWhileUsed
  <2>2. Refs(zs)
    BY <2>1 DEF RsInv, Base, Mid
  <2>3. Users(zs.tasks, r) = Cardinality(TasksOn(zs, r))
    BY DEF Users, On, TasksOn
  <2>4. zs.sets[r].refcount = Users(zs.tasks, r) + Held(zs.sets[r])
    BY <2>1, <2>2 DEF Refs
  <2>5. zs.sets[r].status = "alive" <=> zs.sets[r].refcount > 0
    BY <2>1, <2>2 DEF Refs, Living
  <2>6. r \in zs.resultsets <=> zs.sets[r].connection
    BY <2>1, <2>2 DEF Refs, Linked
  <2> QED BY <2>3, <2>4, <2>5, <2>6 DEF Held
<1> QED BY <1>1, ResultSetInvariant, PTL

(***************************************************************************)
(* No fault: nothing that is gone is used                                  *)
(***************************************************************************)
\* The application keeps to the safe use of the API: it neither sorts a
\* released set nor one that was never searched, releases no set that is in
\* use, and its queries can be parsed.
Safe == Liberties \cap {"sortReleased", "releaseBusy", "sortUnsent", "badQuery"} = {}

UsersConnected(s) == \A r \in ResultSets : On(s.tasks, r) # {} => s.sets[r].connection

\* A task that sorts a set without a name waits for the search that names it.
SearchedBefore(t, i) ==
  \E j \in 1..(i - 1) : t[j].resultset = t[i].resultset /\ t[j].which = "SEARCH"
SortNamed(s) ==
  \A i \in 1..Len(s.tasks) :
    s.tasks[i].which = "SORT" /\ s.sets[s.tasks[i].resultset].setname = NoName =>
      SearchedBefore(s.tasks, i)

AllValid(s) == \A r \in ResultSets : s.sets[r].valid

Clean(s) == s.fault = "NONE" /\ UsersConnected(s) /\ SortNamed(s) /\ AllValid(s)

LEMMA CleanAlike ==
  ASSUME NEW s, Mid(s), Clean(s), NEW p, Typed(p), LiveNamed(p), Alike(p, s), p.fault = "NONE"
  PROVE  Clean(p)
<1>1. \A r : On(p.tasks, r) = On(s.tasks, r)
  BY AlikeMid
<1>2. \A i \in 1..Len(s.tasks) : s.tasks[i].resultset \in ResultSets
  BY QueuedAlive
<1>3. UsersConnected(p)
  BY <1>1 DEF UsersConnected, Alike, Clean
<1>4. SortNamed(p)
  <2>1. SUFFICES ASSUME NEW i \in 1..Len(p.tasks), p.tasks[i].which = "SORT",
                        p.sets[p.tasks[i].resultset].setname = NoName
                 PROVE  SearchedBefore(p.tasks, i)
    BY DEF SortNamed
  <2>2. /\ i \in 1..Len(s.tasks) /\ s.tasks[i].which = "SORT"
        /\ p.tasks[i].resultset = s.tasks[i].resultset
    BY <2>1 DEF Alike
  <2>3. s.sets[s.tasks[i].resultset].setname = NoName
    BY <1>2, <2>1, <2>2 DEF Alike
  <2>4. PICK j \in 1..(i - 1) :
          s.tasks[j].resultset = s.tasks[i].resultset /\ s.tasks[j].which = "SEARCH"
    BY <2>2, <2>3 DEF Clean, SortNamed, SearchedBefore
  <2>5. Len(s.tasks) \in Nat
    <3>1. s.tasks \in Seq(Task)
      BY DEF Mid, Typed, RsState
    <3> QED BY <3>1, LenProperties
  <2>6. j \in 1..Len(s.tasks)
    BY <2>2, <2>5
  <2>7. p.tasks[j].resultset = p.tasks[i].resultset /\ p.tasks[j].which = "SEARCH"
    BY <2>2, <2>4, <2>6 DEF Alike
  <2> QED BY <2>7 DEF SearchedBefore
<1>5. AllValid(p)
  BY DEF Clean, AllValid, Alike
<1> QED BY <1>3, <1>4, <1>5 DEF Clean

LEMMA CleanTail ==
  ASSUME NEW s, Mid(s), Clean(s), s.tasks # <<>>,
         \/ Head(s.tasks).which = "SORT"
         \/ s.sets[Head(s.tasks).resultset].setname # NoName
         \/ Proto = "HTTP",
         NEW p, p = RemoveTask(s)
  PROVE  Clean(p)
<1> DEFINE r == Head(s.tasks).resultset
           t == Tail(s.tasks)
<1>1. /\ Mid(p) /\ r \in ResultSets /\ Loses(r, 1) \in [ResultSets -> Nat]
      /\ Drops(p, s, t, Loses(r, 1)) /\ Typed(s) /\ s.tasks \in Seq(Task)
  BY RemoveTaskMid DEF Mid, Typed, RsState
<1>2. SetsKept(p, s)
  BY <1>1, DropsKept
<1>3. p.tasks = t /\ p.fault = "NONE"
  BY <1>1 DEF Drops, Clean
<1>4. /\ t \in Seq(Task) /\ Len(t) \in Nat /\ Len(s.tasks) = Len(t) + 1
      /\ \A i \in 1..Len(t) : t[i] = s.tasks[i + 1]
      /\ Head(s.tasks) = s.tasks[1]
  <2>1. /\ t \in Seq(Task) /\ Len(t) = Len(s.tasks) - 1 /\ Len(s.tasks) \in Nat
        /\ \A i \in 1..Len(t) : t[i] = s.tasks[i + 1]
        /\ Head(s.tasks) = s.tasks[1]
    BY <1>1, HeadTailProperties, LenProperties
  <2> QED BY <2>1, LenProperties
<1>5. UsersConnected(p)
  <2>1. SUFFICES ASSUME NEW o \in ResultSets, On(t, o) # {} PROVE p.sets[o].connection
    BY <1>3 DEF UsersConnected
  <2>2. PICK i : i \in DOMAIN t /\ t[i].resultset = o
    BY <2>1 DEF On
  <2>3. i \in 1..Len(t)
    BY <1>4, <2>2, LenProperties
  <2>4. i + 1 \in 1..Len(s.tasks) /\ s.tasks[i + 1].resultset = o
    BY <1>4, <2>2, <2>3
  <2>5. On(s.tasks, o) # {}
    BY <2>4, QueuedAlive
  <2>6. s.sets[o].connection
    BY <2>5 DEF Clean, UsersConnected
  <2> QED BY <1>2, <1>3, <2>1, <2>6 DEF SetsKept
<1>6. SortNamed(p)
  <2>1. SUFFICES ASSUME NEW i \in 1..Len(t), t[i].which = "SORT",
                        p.sets[t[i].resultset].setname = NoName
                 PROVE  SearchedBefore(t, i)
    BY <1>3 DEF SortNamed
  <2>2. /\ i + 1 \in 1..Len(s.tasks) /\ t[i] = s.tasks[i + 1] /\ i \in Nat
    BY <1>4
  <2>3. t[i].resultset \in ResultSets
    BY <2>2, QueuedAlive
  <2>4. s.sets[t[i].resultset].setname = NoName
    BY <1>2, <2>1, <2>3 DEF SetsKept
  <2>5. PICK j \in 1..((i + 1) - 1) :
          s.tasks[j].resultset = t[i].resultset /\ s.tasks[j].which = "SEARCH"
    BY <2>1, <2>2, <2>4 DEF Clean, SortNamed, SearchedBefore
  <2>6. j # 1
    <3>1. SUFFICES ASSUME j = 1 PROVE FALSE
      OBVIOUS
    <3>2. Head(s.tasks).which = "SEARCH" /\ s.sets[r].setname = NoName
      BY <1>4, <2>4, <2>5, <3>1
    <3>3. Proto = "HTTP"
      BY <3>2
    <3>4. s.tasks[i + 1].which = "SEARCH"
      BY <2>2, <3>3 DEF Mid, HttpSearches
    <3> QED BY <2>1, <2>2, <3>4
  <2>7. j - 1 \in 1..(i - 1) /\ j - 1 \in 1..Len(t) /\ (j - 1) + 1 = j
    <3>1. j \in Nat /\ 1 <= j /\ j <= i /\ i <= Len(t) /\ Len(t) \in Nat /\ i \in Nat
      BY <1>4, <2>2
    <3> HIDE DEF t
    <3> QED BY <2>6, <3>1
  <2>8. t[j - 1] = s.tasks[j]
    BY <1>4, <2>7
  <2> QED BY <2>5, <2>7, <2>8 DEF SearchedBefore
<1>7. AllValid(p)
  BY <1>2 DEF SetsKept, AllValid, Clean
<1> QED BY <1>3, <1>5, <1>6, <1>7 DEF Clean

\* The queue is empty.
LEMMA CleanNone ==
  ASSUME NEW s, Clean(s), NEW p, p.tasks = <<>>, SetsKept(p, s), p.fault = "NONE"
  PROVE  Clean(p)
<1>1. \A r : On(p.tasks, r) = {}
  BY DEF On
<1>2. 1..Len(p.tasks) = {}
  BY EmptySeq
<1> QED BY <1>1, <1>2 DEF Clean, UsersConnected, SortNamed, AllValid, SetsKept

LEMMA RemoveTasksKept ==
  ASSUME NEW s, Mid(s), NEW p, p = RemoveTasks(s)
  PROVE  /\ Mid(p) /\ SetsKept(p, s) /\ p.tasks = <<>> /\ p.fault = s.fault /\ p.wire = s.wire
         /\ p.server = s.server /\ p.error = s.error
<1>1. Mid(p) /\ Loss(s) \in [ResultSets -> Nat] /\ Drops(p, s, <<>>, Loss(s)) /\ Typed(s)
  BY RemoveTasksMid DEF Mid
<1>2. SetsKept(p, s)
  BY <1>1, DropsKept
<1> QED BY <1>1, <1>2 DEF Drops, Rest

LEMMA DiagnoseClean ==
  ASSUME NEW s, Mid(s), Clean(s), s.wire = {}, NEW p, p = Diagnose(s)
  PROVE  Clean(p)
<1> DEFINE f == Failed(s)
<1>1. Mid(f) /\ Alike(f, s) /\ f.fault = s.fault
  BY FailedIs
<1>2. p = RemoveTasks(f)
  BY DEF Diagnose, Failed
<1> HIDE DEF f
<1>3. Clean(f)
  BY <1>1, CleanAlike DEF Mid, Clean
<1>4. SetsKept(p, f) /\ p.tasks = <<>> /\ p.fault = f.fault
  BY <1>1, <1>2, RemoveTasksKept
<1> QED BY <1>3, <1>4, CleanNone DEF Clean

\* The set of the first task is connected, and its query was parsed.
LEMMA CleanHead ==
  ASSUME NEW s, Mid(s), Clean(s), s.tasks # <<>>, NEW r, r = Head(s.tasks).resultset
  PROVE  r \in ResultSets /\ s.sets[r].connection /\ s.sets[r].valid
<1>1. s.tasks \in Seq(Task)
  BY DEF Mid, Typed, RsState
<1>2. 1 \in 1..Len(s.tasks) /\ Head(s.tasks) = s.tasks[1]
  BY <1>1, HeadIs
<1> QED BY <1>2, QueuedAlive DEF Clean, UsersConnected, AllValid

LEMMA FinishClean ==
  ASSUME NEW s, Ready(s), Clean(s), NEW p, p = Finish(SearchStep(s))
  PROVE  Clean(p)
<1> DEFINE v == SearchStep(s)
           t == Head(s.tasks)
           r == t.resultset
<1>1. /\ Mid(s) /\ s.tasks # <<>> /\ s.wire = {} /\ t \in Task /\ r \in ResultSets
      /\ t.which \in {"SEARCH", "SORT"} /\ LiveNamed(s) /\ s.tasks \in Seq(Task)
  BY ReadyIs DEF Task, Mid
<1>2. /\ Mid(v) /\ Alike(v, s) /\ v.tasks # <<>>
      /\ t.which = "SORT" => v = s
      /\ t.which = "SEARCH" => Searched(v, s)
      /\ v.wire # {} => p = v
      /\ v.wire = {} => p = RemoveTask(v)
  BY FinishIs DEF Ready
<1>3. s.sets[r].connection /\ s.sets[r].valid
  BY <1>1, CleanHead
<1> HIDE DEF v
<1>4. v.fault = "NONE"
  <2>1. v.fault = s.fault
    BY <1>1, <1>2, <1>3 DEF Searched
  <2> QED BY <2>1 DEF Clean
<1>5. Clean(v)
  BY <1>1, <1>2, <1>4, CleanAlike DEF Mid
<1>6. CASE v.wire # {}
  BY <1>2, <1>5, <1>6
<1>7. CASE v.wire = {}
  <2>1. Head(v.tasks).which = t.which /\ Head(v.tasks).resultset = r
    <3>1. v.tasks \in Seq(Task)
      BY <1>2 DEF Mid, Typed, RsState
    <3>2. Head(v.tasks) = v.tasks[1] /\ t = s.tasks[1] /\ 1 \in 1..Len(s.tasks)
      BY <1>1, <1>2, <3>1, HeadIs
    <3> QED BY <1>2, <3>2 DEF Alike
  <2>2. t.which = "SEARCH" => v.sets[r].setname # NoName
    <3>1. SUFFICES ASSUME t.which = "SEARCH" PROVE v.sets[r].setname # NoName
      OBVIOUS
    <3>2. v.sets = s.sets /\ s.sets[r].live_set = 2
      <4>1. Searched(v, s) /\ s.sets[r].valid
        BY <1>2, <1>3, <3>1
      <4> QED BY <1>7, <4>1 DEF Searched
    <3> QED BY <1>1, <3>2 DEF LiveNamed
  <2> QED BY <1>1, <1>2, <1>5, <1>7, <2>1, <2>2, CleanTail
<1> QED BY <1>6, <1>7

LEMMA SendSortClean ==
  ASSUME NEW s, Ready(s), Clean(s), Proto = "Z3950", NEW r, r = Head(s.tasks).resultset,
         s.sets[r].setname # NoName, NEW p, p = SendSort(s, r)
  PROVE  Clean(p)
<1>1. Mid(s) /\ s.wire = {} /\ s.tasks # <<>> /\ s.error = "NONE" /\ Head(s.tasks).running
  BY DEF Ready
<1>2. Base(p) /\ Alike(p, s) /\ SortSent(p, s, r)
  BY <1>1, SendSortIs
<1>3. p.fault = "NONE"
  BY <1>2 DEF SortSent, Clean
<1> QED BY <1>1, <1>2, <1>3, CleanAlike DEF Base, Mid

LEMMA AnsweredClean ==
  ASSUME NEW s, Mid(s), Clean(s), NEW q, NEW n, NEW S, NEW u, Answered(u, s, q, n, S)
  PROVE  Clean(u)
BY CleanAlike DEF Answered, Mid, Clean

LEMMA TookClean ==
  ASSUME NEW s, Ready(s), Clean(s), NEW r, r = Head(s.tasks).resultset, NEW c, NEW k,
         NEW v, Took(v, s, r, c, k), Ready(v), Alike(v, s)
  PROVE  Clean(v)
<1>1. Mid(s) /\ s.tasks # <<>> /\ Mid(v)
  BY DEF Ready
<1>2. s.sets[r].connection
  BY <1>1, CleanHead
<1>3. v.fault = "NONE"
  BY <1>2 DEF Took, Clean
<1> QED BY <1>1, <1>3, CleanAlike DEF Mid

LEMMA AnswerClean ==
  ASSUME NEW s, Ready(s), Clean(s), NEW q \in Requests, Outstanding(s, q), NEW k, NEW ok,
         NEW p, Answer(p, s, q, k, ok)
  PROVE  Clean(p)
<1>1. Mid(s) /\ s.wire = {} /\ s.tasks # <<>>
  BY DEF Ready
<1>2. CASE p = Diagnose(s)
  BY <1>1, <1>2, DiagnoseClean
<1>3. CASE q.kind = "SEARCH" /\ SearchAnswered(p, s, q, k)
  <2>1. PICK b, u, v :
          /\ b \in ServerSet
          /\ Answered(u, s, q, hits[q.set], {b}) /\ Ready(u)
          /\ Handled(v, u, k, b, 0, FALSE) /\ p = SortPresent(v)
    BY <1>3 DEF SearchAnswered
  <2>2. Clean(u)
    BY <1>1, <2>1, AnsweredClean
  <2>3. Ready(v) /\ Clean(v)
    BY <2>1, <2>2, TookClean DEF Handled
  <2>4. v.sets[Head(v.tasks).resultset].setname # NoName
    <3>1. Alike(v, s) /\ v.tasks # <<>>
      BY <2>1, <2>3, AlikeTwice DEF Answered, Handled, Ready
    <3>2. Head(v.tasks) = v.tasks[1] /\ Head(s.tasks) = s.tasks[1] /\ 1 \in 1..Len(s.tasks)
      BY <1>1, <2>3, <3>1, ReadyIs, HeadIs
    <3>3. Head(v.tasks).resultset = Head(s.tasks).resultset
      BY <3>1, <3>2 DEF Alike
    <3>4. q.set = Head(s.tasks).resultset /\ q.set \in ResultSets /\ s.sets[q.set].setname # NoName
      BY OutstandingIs
    <3> QED BY <3>1, <3>3, <3>4 DEF Alike
  <2>5. CASE v.sets[Head(v.tasks).resultset].sort_spec
    <3>1. p = SendSort(v, Head(v.tasks).resultset)
      BY <2>1, <2>5 DEF SortPresent
    <3>2. Proto = "Z3950"
      BY <1>3, RsAssumption DEF Outstanding
    <3> QED BY <2>3, <2>4, <3>1, <3>2, SendSortClean
  <2>6. CASE ~ v.sets[Head(v.tasks).resultset].sort_spec
    <3>1. p = Finish(SearchStep(v))
      BY <2>1, <2>6 DEF SortPresent
    <3> QED BY <2>3, <3>1, FinishClean
  <2> QED BY <2>5, <2>6
<1>4. CASE SearchRefused(p, s, q)
  <2>1. PICK u : Answered(u, s, q, 0, {}) /\ p = Diagnose(u)
    BY <1>4 DEF SearchRefused
  <2>2. Clean(u)
    BY <1>1, <2>1, AnsweredClean
  <2>3. Mid(u) /\ u.wire = {}
    BY <1>1, <2>1 DEF Answered
  <2> QED BY <2>1, <2>2, <2>3, DiagnoseClean
<1>5. CASE PresentAnswered(p, s, q, k)
  <2>1. PICK b, v :
          b \in s.server[q.name] /\ Handled(v, s, k, b, q.start, TRUE) /\ p = Finish(SearchStep(v))
    BY <1>5 DEF PresentAnswered
  <2>2. Ready(v) /\ Clean(v)
    BY <2>1, TookClean DEF Handled
  <2> QED BY <2>1, <2>2, FinishClean
<1>6. CASE SortAnswered(p, s, q)
  <2>1. PICK b, u : b \in s.server[q.name] /\ Reordered(u, s, q, b) /\ p = Finish(SearchStep(u))
    BY <1>6 DEF SortAnswered
  <2>2. Ready(u) /\ Clean(u)
    BY <1>1, <2>1, CleanAlike DEF Reordered, Ready, Mid, Clean
  <2> QED BY <2>1, <2>2, FinishClean
<1>7. CASE SruAnswered(p, s, q, k)
  <2>1. PICK n, N, u, v :
          /\ Answered(u, s, q, n, s.server[q.name]) /\ Ready(u)
          /\ TookSru(v, u, N, k) /\ p = Finish(SearchStep(v))
    BY <1>7 DEF SruAnswered
  <2>2. Clean(u)
    BY <1>1, <2>1, AnsweredClean
  <2>3. Ready(v) /\ Clean(v)
    BY <2>1, <2>2, TookClean DEF TookSru
  <2> QED BY <2>1, <2>3, FinishClean
<1>8. CASE SruRefused(p, s, q)
  <2>1. PICK u : Answered(u, s, q, 0, s.server[q.name]) /\ p = RemoveTask(Failed(u))
    BY <1>8 DEF SruRefused
  <2>a. Clean(u)
    BY <1>1, <2>1, AnsweredClean
  <2>2. Clean(u) /\ Mid(u) /\ Alike(u, s) /\ u.tasks = s.tasks
    BY <2>1, <2>a DEF Answered
  <2> DEFINE f == Failed(u)
  <2>3. Mid(f) /\ Alike(f, u) /\ f.tasks = u.tasks /\ f.fault = u.fault /\ f.sets = u.sets
    BY <2>2, FailedIs
  <2> HIDE DEF f
  <2>4. p = RemoveTask(f)
    BY <2>1 DEF f
  <2>5. Clean(f)
    BY <2>2, <2>3, CleanAlike DEF Mid, Clean
  <2>6. f.tasks # <<>> /\ f.sets[Head(f.tasks).resultset].setname # NoName
    <3>1. q.set = Head(s.tasks).resultset /\ q.set \in ResultSets /\ s.sets[q.set].setname # NoName
      BY OutstandingIs
    <3> QED BY <1>1, <2>2, <2>3, <3>1 DEF Alike
  <2> QED BY <2>3, <2>4, <2>5, <2>6, CleanTail
<1> QED BY <1>2, <1>3, <1>4, <1>5, <1>6, <1>7, <1>8 DEF Answer

LEMMA QueuedClean ==
  ASSUME NEW s, Base(s), Clean(s), NEW t \in Task, s.sets[t.resultset].connection,
         t.which = "SORT" => \/ s.sets[t.resultset].setname # NoName
                             \/ \E j \in 1..Len(s.tasks) : /\ s.tasks[j].resultset = t.resultset
                                                           /\ s.tasks[j].which = "SEARCH",
         NEW p, Queued(p, s, t)
  PROVE  Clean(p)
<1> DEFINE r == t.resultset
           x == s.sets[r]
           n == Len(s.tasks)
<1>1. /\ s.tasks \in Seq(Task) /\ r \in ResultSets /\ x \in ResultSet /\ n \in Nat
  <2>1. s.tasks \in Seq(Task) /\ r \in ResultSets /\ x \in ResultSet
    BY DEF Base, Mid, Typed, RsState, Task
  <2> QED BY <2>1, LenProperties
<1>2. /\ p.tasks = Append(s.tasks, t) /\ p.fault = s.fault
      /\ p.sets[r] = [x EXCEPT !.refcount = x.refcount + 1]
      /\ \A o \in ResultSets : o # r => p.sets[o] = s.sets[o]
  BY DEF Queued
<1>3. p.sets[r].connection = x.connection /\ p.sets[r].setname = x.setname /\ p.sets[r].valid = x.valid
  <2> HIDE DEF x
  <2> QED BY <1>1, <1>2 DEF ResultSet
<1>4. \A o \in ResultSets : /\ p.sets[o].connection = s.sets[o].connection
                            /\ p.sets[o].setname = s.sets[o].setname
                            /\ p.sets[o].valid = s.sets[o].valid
  BY <1>2, <1>3
<1>5. /\ Len(p.tasks) = n + 1 /\ p.tasks[n + 1] = t /\ \A i \in 1..n : p.tasks[i] = s.tasks[i]
  BY <1>1, <1>2, AppendProperties
<1>6. /\ \A i \in 1..(n + 1) : i \in 1..n \/ i = n + 1
      /\ \A i \in 1..n : \A j \in 1..(i - 1) : j \in 1..n
      /\ (n + 1) - 1 = n
  BY <1>1
<1> HIDE DEF n
<1>7. UsersConnected(p)
  <2>1. SUFFICES ASSUME NEW o \in ResultSets, On(p.tasks, o) # {} PROVE p.sets[o].connection
    BY DEF UsersConnected
  <2>2. CASE o = r
    BY <1>4, <2>2
  <2>3. CASE o # r
    <3>1. p.tasks \in Seq(Task)
      BY <1>1, <1>2, SeqClosed
    <3>2. Users(p.tasks, o) = Users(s.tasks, o)
      BY <1>1, <1>2, <2>3, UsersAppend
    <3>3. Users(p.tasks, o) # 0
      BY <2>1, <3>1, UsersType
    <3>4. On(s.tasks, o) # {}
      BY <1>1, <3>2, <3>3, UsersType
    <3> QED BY <1>4, <3>4 DEF Clean, UsersConnected
  <2> QED BY <2>2, <2>3
<1>8. SortNamed(p)
  <2>1. SUFFICES ASSUME NEW i \in 1..Len(p.tasks), p.tasks[i].which = "SORT",
                        p.sets[p.tasks[i].resultset].setname = NoName
                 PROVE  SearchedBefore(p.tasks, i)
    BY DEF SortNamed
  <2>2. CASE i \in 1..n
    <3>1. p.tasks[i] = s.tasks[i] /\ s.tasks[i].resultset \in ResultSets
      BY <1>5, <2>2, QueuedAlive DEF n, Base
    <3>2. SearchedBefore(s.tasks, i)
      BY <1>4, <2>1, <2>2, <3>1 DEF Clean, SortNamed, n
    <3>3. PICK j \in 1..(i - 1) :
            s.tasks[j].resultset = s.tasks[i].resultset /\ s.tasks[j].which = "SEARCH"
      BY <3>2 DEF SearchedBefore
    <3>4. p.tasks[j] = s.tasks[j]
      BY <1>5, <1>6, <2>2
    <3> QED BY <3>1, <3>3, <3>4 DEF SearchedBefore
  <2>3. CASE i = n + 1
    <3>1. p.tasks[i] = t /\ x.setname = NoName
      BY <1>1, <1>4, <1>5, <2>1, <2>3
    <3>2. PICK j \in 1..n : s.tasks[j].resultset = r /\ s.tasks[j].which = "SEARCH"
      BY <2>1, <3>1 DEF n
    <3>3. p.tasks[j] = s.tasks[j] /\ j \in 1..(i - 1)
      BY <1>5, <1>6, <2>3
    <3> QED BY <3>1, <3>2, <3>3 DEF SearchedBefore
  <2> QED BY <1>5, <1>6, <2>1, <2>2, <2>3
<1>9. AllValid(p)
  BY <1>4 DEF AllValid, Clean
<1> QED BY <1>2, <1>7, <1>8, <1>9 DEF Clean

LEMMA CreatedClean ==
  ASSUME NEW s, Base(s), Clean(s), NEW r \in ResultSets, NEW x, x.connection, x.valid,
         On(s.tasks, r) = {}, NEW u, Created(u, s, r, x)
  PROVE  Clean(u)
<1>1. /\ u.tasks = s.tasks /\ u.fault = s.fault
      /\ u.sets[r] = x /\ \A o \in ResultSets : o # r => u.sets[o] = s.sets[o]
  BY DEF Created
<1>2. \A i \in 1..Len(s.tasks) : s.tasks[i].resultset \in ResultSets \ {r}
  BY QueuedAlive DEF Base
<1>3. SortNamed(u)
  BY <1>1, <1>2 DEF Clean, SortNamed
<1>4. UsersConnected(u)
  BY <1>1 DEF Clean, UsersConnected
<1>5. AllValid(u)
  BY <1>1 DEF Clean, AllValid
<1> QED BY <1>1, <1>3, <1>4, <1>5 DEF Clean

LEMMA PreparedClean ==
  ASSUME NEW s, Clean(s), NEW p, Prepared(p, s)
  PROVE  Clean(p) /\ Base(p)
BY DEF Prepared, Clean, UsersConnected, SortNamed, AllValid

LEMMA KeptClean ==
  ASSUME NEW s, Base(s), Clean(s), NEW p, p.tasks = s.tasks, p.fault = s.fault, SetsKept(p, s)
  PROVE  Clean(p)
<1>1. \A i \in 1..Len(s.tasks) : s.tasks[i].resultset \in ResultSets
  BY QueuedAlive DEF Base
<1>2. SortNamed(p)
  BY <1>1 DEF Clean, SortNamed, SetsKept
<1> QED BY <1>2 DEF Clean, UsersConnected, AllValid, SetsKept

LEMMA CleanSearch ==
  ASSUME Safe, Base(zs), Clean(zs), NEW r \in ResultSets, NEW start \in Starts,
         NEW count \in Counts, NEW step \in Steps, NEW piggyback \in Piggybacks,
         NEW sort \in BOOLEAN, NEW valid \in BOOLEAN,
         Search(r, start, count, step, piggyback, sort, valid)
  PROVE  Clean(zs')
<1> DEFINE t == NewTask("SEARCH", r, start, count)
<1>1. PICK x, u, v :
        /\ x.connection /\ x.valid = valid /\ Created(u, zs, r, x) /\ Prepared(v, u) /\ t \in Task
        /\ Queued(zs', v, t) /\ On(zs.tasks, r) = {} /\ (valid \/ "badQuery" \in Liberties)
  BY SearchIs
<1>2. x.valid
  BY <1>1 DEF Safe
<1>3. t.resultset = r /\ t.which = "SEARCH"
  BY DEF NewTask
<1> HIDE DEF t
<1>4. Clean(u)
  BY <1>1, <1>2, CreatedClean
<1>5. Clean(v) /\ Base(v)
  BY <1>1, <1>4, PreparedClean
<1>6. v.sets[r] = x
  BY <1>1 DEF Created, Prepared
<1> QED BY <1>1, <1>3, <1>5, <1>6, QueuedClean

LEMMA CleanRetrieve ==
  ASSUME Base(zs), Clean(zs), NEW r \in ResultSets, NEW start \in Starts, NEW count \in Counts,
         Retrieve(r, start, count)
  PROVE  Clean(zs')
<1> DEFINE t == NewTask("SEARCH", r, start, count)
<1>1. PICK v : Prepared(v, zs) /\ t \in Task /\ Queued(zs', v, t) /\ zs.sets[r].connection
  BY RetrieveIs
<1>2. t.resultset = r /\ t.which = "SEARCH"
  BY DEF NewTask
<1> HIDE DEF t
<1>3. Clean(v) /\ Base(v)
  BY <1>1, PreparedClean
<1>4. v.sets = zs.sets
  BY <1>1 DEF Prepared
<1> QED BY <1>1, <1>2, <1>3, <1>4, QueuedClean

LEMMA CleanSort ==
  ASSUME Safe, Base(zs), Clean(zs), NEW r \in ResultSets, Sort(r)
  PROVE  Clean(zs')
<1> DEFINE t == NewTask("SORT", r, 0, 0)
<1>1. PICK u : /\ zs.sets[r].connection /\ Emptied(u, zs, r) /\ t \in Task /\ Queued(zs', u, t)
  BY SortIs DEF Safe
<1>2. zs.sets[r].setname # NoName \/ On(zs.tasks, r) # {}
  BY SortIs DEF Safe
<1>3. t.resultset = r /\ t.which = "SORT"
  BY DEF NewTask
<1> HIDE DEF t
<1>4. /\ u.tasks = zs.tasks /\ u.fault = zs.fault /\ u.resultsets = zs.resultsets
      /\ u.sets[r] = [zs.sets[r] EXCEPT !.cache = {}]
      /\ \A o \in ResultSets : o # r => u.sets[o] = zs.sets[o]
      /\ Base(u) /\ Mid(zs) /\ zs.sets[r] \in ResultSet /\ zs.tasks \in Seq(Task)
  BY <1>1 DEF Emptied, Base, Mid, Typed, RsState
<1>5. \A o \in ResultSets :
        /\ u.sets[o].connection = zs.sets[o].connection /\ u.sets[o].setname = zs.sets[o].setname
        /\ u.sets[o].valid = zs.sets[o].valid
  BY <1>4 DEF ResultSet
<1>6. \A i \in 1..Len(zs.tasks) : zs.tasks[i].resultset \in ResultSets
  BY <1>4, QueuedAlive
<1>7. Clean(u)
  <2>1. SortNamed(u)
    BY <1>4, <1>5, <1>6 DEF Clean, SortNamed
  <2> QED BY <1>4, <1>5, <2>1 DEF Clean, UsersConnected, AllValid
<1>8. \/ u.sets[r].setname # NoName
      \/ \E j \in 1..Len(u.tasks) : u.tasks[j].resultset = r /\ u.tasks[j].which = "SEARCH"
  <2>1. SUFFICES ASSUME zs.sets[r].setname = NoName
                 PROVE  \E j \in 1..Len(zs.tasks) :
                          zs.tasks[j].resultset = r /\ zs.tasks[j].which = "SEARCH"
    BY <1>4, <1>5
  <2>2. PICK i \in 1..Len(zs.tasks) : zs.tasks[i].resultset = r
    <3>1. DOMAIN zs.tasks = 1..Len(zs.tasks)
      BY <1>4, LenProperties
    <3> QED BY <1>2, <2>1, <3>1 DEF On
  <2>3. CASE zs.tasks[i].which = "SEARCH"
    BY <2>2, <2>3
  <2>4. CASE zs.tasks[i].which = "SORT"
    <3>1. SearchedBefore(zs.tasks, i)
      BY <2>1, <2>2, <2>4 DEF Clean, SortNamed
    <3>2. Len(zs.tasks) \in Nat
      BY <1>4, LenProperties
    <3>3. \A j \in 1..(i - 1) : j \in 1..Len(zs.tasks)
      BY <3>2
    <3> QED BY <2>2, <3>1, <3>3 DEF SearchedBefore
  <2>5. zs.tasks[i] \in Task
    BY <1>4, ElementOfSeq
  <2> QED BY <2>3, <2>4, <2>5 DEF Task
<1>9. u.sets[r].connection
  BY <1>1, <1>5
<1> QED BY <1>1, <1>3, <1>4, <1>7, <1>8, <1>9, QueuedClean

LEMMA CleanExec ==
  ASSUME Base(zs), Clean(zs), Exec
  PROVE  Clean(zs')
<1>1. Executed(zs', zs) /\ Mid(zs) /\ zs.tasks # <<>> /\ zs.tasks \in Seq(Task)
  BY ExecIs DEF Base, Mid, Typed, RsState
<1>2. CASE zs' = RemoveTasks(zs)
  BY <1>1, <1>2, RemoveTasksKept, CleanNone DEF Clean
<1>3. CASE zs' # RemoveTasks(zs)
  <2>1. PICK u :
          /\ Running(u, zs, TRUE) /\ Ready(u)
          /\ \/ /\ Head(zs.tasks).which = "SORT" /\ Proto = "Z3950"
                /\ zs' = SendSort(u, Head(zs.tasks).resultset)
             \/ Head(zs.tasks).which = "SEARCH" /\ zs' = Finish(SearchStep(u))
    BY <1>1, <1>3 DEF Executed
  <2>2. Alike(u, zs) /\ u.fault = zs.fault /\ Mid(u) /\ u.sets = zs.sets
    BY <2>1 DEF Running
  <2>3. Clean(u)
    BY <1>1, <2>2, CleanAlike DEF Mid, Clean
  <2>4. CASE zs' = Finish(SearchStep(u))
    BY <2>1, <2>3, <2>4, FinishClean
  <2>5. CASE /\ Head(zs.tasks).which = "SORT" /\ Proto = "Z3950"
             /\ zs' = SendSort(u, Head(zs.tasks).resultset)
    <3>1. 1 \in 1..Len(zs.tasks) /\ Head(zs.tasks) = zs.tasks[1]
      BY <1>1, HeadIs
    <3>2. ~ SearchedBefore(zs.tasks, 1)
      <4>1. 1..(1 - 1) = {}
        OBVIOUS
      <4> QED BY <4>1 DEF SearchedBefore
    <3>3. zs.sets[Head(zs.tasks).resultset].setname # NoName
      BY <2>5, <3>1, <3>2 DEF Clean, SortNamed
    <3>4. Head(u.tasks).resultset = Head(zs.tasks).resultset
      <4>1. Head(u.tasks) = u.tasks[1]
        BY <2>1, ReadyIs, HeadIs
      <4> QED BY <2>2, <3>1, <4>1 DEF Alike
    <3> QED BY <2>1, <2>2, <2>3, <2>5, <3>3, <3>4, SendSortClean
  <2> QED BY <2>1, <2>4, <2>5
<1> QED BY <1>2, <1>3

LEMMA CleanStep ==
  ASSUME Safe, RsInv, Clean(zs), Next
  PROVE  Clean(zs')
<1>1. Base(zs) /\ HitsTyped /\ Mid(zs)
  BY DEF RsInv, Base
<1>2. ASSUME NEW r \in ResultSets, NEW start \in Starts, NEW count \in Counts,
             NEW step \in Steps, NEW piggyback \in Piggybacks, NEW sort \in BOOLEAN,
             NEW valid \in BOOLEAN, Search(r, start, count, step, piggyback, sort, valid)
      PROVE  Clean(zs')
  BY <1>1, <1>2, CleanSearch
<1>3. ASSUME NEW r \in ResultSets, NEW start \in Starts, NEW count \in Counts,
             Retrieve(r, start, count)
      PROVE  Clean(zs')
  BY <1>1, <1>3, CleanRetrieve
<1>4. ASSUME NEW r \in ResultSets, Sort(r) PROVE Clean(zs')
  BY <1>1, <1>4, CleanSort
<1>5. ASSUME NEW r \in ResultSets, Destroy(r) PROVE Clean(zs')
  BY <1>1, <1>5, DestroyIs, KeptClean
<1>6. ASSUME NEW r \in ResultSets, Release(r) PROVE Clean(zs')
  <2>1. SetsKept(zs', zs)
    BY <1>1, <1>6, ReleaseIs DEF Safe
  <2> QED BY <1>1, <1>6, <2>1, ReleaseIs, KeptClean
<1>7. CASE Disconnect
  BY <1>1, <1>7, DisconnectIs, CleanNone DEF Clean
<1>8. CASE Connect
  <2>1. zs'.sets = zs.sets /\ zs'.tasks = zs.tasks /\ zs'.fault = zs.fault
    BY <1>1, <1>8, ConnectIs
  <2> QED BY <2>1 DEF Clean, UsersConnected, SortNamed, AllValid
<1>9. CASE Exec
  BY <1>1, <1>9, CleanExec
<1>10. CASE Respond
  <2> DEFINE s == Heard(zs)
  <2>1. PICK q, k, ok :
          q \in zs.wire /\ Ready(s) /\ q \in Requests /\ Outstanding(s, q) /\ Answer(zs', s, q, k, ok)
    BY <1>1, <1>10, RespondIs
  <2>2. Alike(s, zs) /\ s.fault = zs.fault
    BY <1>1, <2>1, HeardIs
  <2> HIDE DEF s
  <2>3. Clean(s)
    BY <1>1, <2>1, <2>2, CleanAlike DEF Ready, Mid, Clean
  <2> QED BY <2>1, <2>3, AnswerClean
<1>11. CASE Lose
  <2>1. Lost(zs', zs)
    BY <1>1, <1>11, LoseIs
  <2> QED BY <1>1, <2>1, CleanAlike DEF Lost, Mid, Clean
<1> QED BY <1>2, <1>3, <1>4, <1>5, <1>6, <1>7, <1>8, <1>9, <1>10, <1>11 DEF Next

(* If the application keeps to the safe use of the API then, whatever the  *)
(* server answers and however often sessions come and go, no assert fails  *)
(* and no freed set, missing connection, set name or query is used         *)
(* (src/src/zoom-c.c:890 ZOOM_resultset_release, src/src/zoom-z3950.c      *)
(* Z3950_send_present and send_Z3950_sort).                                *)
THEOREM NoFaultHolds ==
  ASSUME Safe
  PROVE  Spec => []NoFault
<1>1. Init => Clean(zs)
  <2>1. SUFFICES ASSUME Init PROVE Clean(zs)
    OBVIOUS
  <2>2. \A r : On(<<>>, r) = {}
    BY DEF On
  <2>3. 1..Len(<<>>) = {}
    BY EmptySeq
  <2> QED BY <2>1, <2>2, <2>3, InitIs, FreshIs DEF Clean, UsersConnected, SortNamed, AllValid
<1>2. RsInv /\ Clean(zs) /\ [Next]_vars => Clean(zs)'
  <2>1. ASSUME Clean(zs), UNCHANGED vars PROVE Clean(zs')
    BY <2>1 DEF vars
  <2> QED BY <2>1, CleanStep
<1>3. Clean(zs) => NoFault
  BY DEF Clean, NoFault
<1> QED BY <1>1, <1>2, <1>3, ResultSetInvariant, PTL DEF Spec
=============================================================================
