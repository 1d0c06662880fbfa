--------------------------- MODULE GfsServerProofs ---------------------------
(***************************************************************************)
(* The server's event loops: what ServerSafe says of them, for any number  *)
(* of clients and listeners, any command line and any number of faults.    *)
(* The inductive invariant IInv says where every channel of a chain comes  *)
(* from, how the walk over a chain stands to the descriptors polled, whom  *)
(* a process serves, who waits at which listener, and how the number of    *)
(* sessions stands to the limits that the options set.                     *)
(***************************************************************************)
EXTENDS GfsServer, ProofBasics, FiniteSetTheorems

Ids == Clients \cup Addresses
Chan == [id : Ids, dead : BOOLEAN]
Fd == [id : Ids, event : {"input", "timeout", NULL}]

Process ==
  [st : {"none", "run", "zombie", "gone"}, pc : {"poll", "dispatch", "over", "new"},
   chain : Seq(Chan), fds : Seq(Fd), i : Nat, at : Ids \cup {NULL}, sessions : Nat,
   oneShot : BOOLEAN, parent : Ids \cup {NULL}]

Block ==
  [oneShot : BOOLEAN, dynamic : BOOLEAN, threads : BOOLEAN, inetd : BOOLEAN, max : Nat,
   listeners : Seq(Listeners)]

ClientState == {"away", "waits", "open", "left", "done", "stuck"}
Unseen == {"away", "waits"}

Typed ==
  /\ cb \in Block /\ (cb.dynamic => ~cb.threads)
  /\ proc \in [Procs -> Process]
  /\ DOMAIN backlog \subseteq Addresses
  /\ backlog \in [DOMAIN backlog -> Seq(Clients)]
  /\ client \in [Clients -> ClientState]
  /\ wants \subseteq Clients
  /\ faults \in 0..MaxFaults
  /\ starts \in Nat

(* No channel is twice in a chain.                                         *)
Distinct(chain) ==
  \A j, k \in 1..Len(chain) : chain[j].id = chain[k].id => j = k

(* Handlers only put channels in front of the ones that were polled for,   *)
(* so the last of the chain are those of the descriptors.                  *)
Walks(q) ==
  q.pc = "dispatch" =>
    /\ Len(q.fds) <= Len(q.chain)
    /\ \A k \in 1..Len(q.fds) : q.fds[k].id = q.chain[(Len(q.chain) - Len(q.fds)) + k].id
    /\ q.i \in 1..(Len(q.fds) + 1)
    /\ q.at = IF q.i <= Len(q.fds) THEN q.fds[q.i].id ELSE NULL

ChainsWalk == \A p \in Procs : Distinct(proc[p].chain) /\ Walks(proc[p])

(* The main process serves clients itself in static mode only; a listener  *)
(* that was found ready and not yet looked at has somebody waiting.        *)
MainListens ==
  /\ proc[Main].st \in {"run", "gone"} /\ proc[Main].pc # "new"
  /\ \A k \in 1..Len(proc[Main].chain) :
       IF proc[Main].chain[k].id \in Clients THEN cb.inetd \/ ~(cb.dynamic \/ cb.threads)
       ELSE proc[Main].chain[k].id \in DOMAIN backlog
  /\ proc[Main].pc = "dispatch" =>
       \A k \in proc[Main].i..Len(proc[Main].fds) :
         proc[Main].fds[k].id \notin Clients /\ proc[Main].fds[k].event # NULL
           => backlog[proc[Main].fds[k].id] # <<>>

(* A child or a thread serves its own client and nobody else.              *)
WorkersServe ==
  \A c \in Clients :
    /\ Running(c) => (cb.dynamic \/ cb.threads) /\ ~cb.inetd
    /\ \A k \in 1..Len(proc[c].chain) : ~proc[c].chain[k].dead => proc[c].chain[k].id = c
    /\ Running(c) /\ proc[c].pc = "new" => cb.threads /\ proc[c].parent \in DOMAIN backlog

(* Who is in a chain has been accepted.                                    *)
AcceptedOnly ==
  \A p \in Procs : \A k \in 1..Len(proc[p].chain) :
    proc[p].chain[k].id \in Clients => client[proc[p].chain[k].id] \notin Unseen

(* A child or a thread runs for a client that was accepted.                *)
WorkersAccepted == \A c \in Clients : Running(c) => client[c] \notin Unseen

(* Who waits at a listener waits there only, and once.                     *)
QueuesWait ==
  /\ \A l \in DOMAIN backlog : \A k \in 1..Len(backlog[l]) : client[backlog[l][k]] = "waits"
  /\ \A l, m \in DOMAIN backlog : \A j \in 1..Len(backlog[l]), k \in 1..Len(backlog[m]) :
       backlog[l][j] = backlog[m][k] => l = m /\ j = k
  /\ cb.inetd => \A l \in DOMAIN backlog : backlog[l] = <<>>

Seen == {c \in Clients : client[c] \notin Unseen}

StartsCounted == starts <= Cardinality(Seen)

(* The main process has no listener left.                                  *)
Deaf(q) == \A k \in 1..Len(q.chain) : q.chain[k].id \notin Clients => q.chain[k].dead

LimitsKept ==
  LET q == proc[Main]
  IN /\ q.st = "run" /\ ~cb.inetd => q.sessions = starts
     /\ q.st = "run" /\ cb.oneShot => q.oneShot
     /\ ~cb.inetd /\ cb.oneShot => starts <= 1 /\ (starts = 1 /\ q.st = "run" => Deaf(q))
     /\ ~cb.inetd /\ cb.max > 0 /\ ~cb.dynamic /\ ~cb.threads =>
          /\ starts <= cb.max + 1
          /\ q.st = "run" /\ starts >= cb.max => q.oneShot
          /\ q.st = "run" /\ starts > cb.max => Deaf(q)

(* Without -1 and -A no listener of a threaded server goes away.           *)
ListenersStay ==
  proc[Main].st = "run" /\ cb.threads /\ ~cb.oneShot /\ cb.max = 0 =>
    /\ ~proc[Main].oneShot
    /\ \A l \in DOMAIN backlog : \E k \in 1..Len(proc[Main].chain) :
         proc[Main].chain[k] = Channel(l)

IInv ==
  /\ Typed /\ ChainsWalk /\ MainListens /\ WorkersServe /\ AcceptedOnly /\ WorkersAccepted
  /\ QueuesWait /\ StartsCounted /\ LimitsKept /\ ListenersStay

-----------------------------------------------------------------------------
(***************************************************************************)
(* The operators on a process                                              *)
(***************************************************************************)
LEMMA Names ==
  /\ Main \notin Clients /\ NULL \notin Ids /\ Clients \cap Addresses = {}
  /\ Main \in Procs /\ Clients \subseteq Procs /\ Procs \ {Main} = Clients
  /\ Clients \subseteq Ids /\ Addresses \subseteq Ids
BY GfsServerAssumption DEF Main, Ids, Addresses, Procs, NULL

\* What holds of every process, whoever it is.
Sound(q) == q \in Process /\ Distinct(q.chain) /\ Walks(q)

\* A channel's place in a chain of distinct channels.
LEMMA PlaceIs ==
  ASSUME NEW chain \in Seq(Chan), Distinct(chain), NEW k \in 1..Len(chain)
  PROVE  Place(chain, chain[k].id) = k
<1> DEFINE S == {j \in DOMAIN chain : chain[j].id = chain[k].id}
<1>1. DOMAIN chain = 1..Len(chain) /\ Len(chain) \in Nat
  BY LenProperties
<1>2. S = {k}
  BY <1>1 DEF Distinct
<1> HIDE DEF S
<1>3. Lowest(S) = k
  BY <1>1, <1>2 DEF Lowest
<1> QED BY <1>3 DEF Place, S

\* The walk goes on to the channel of the next descriptor.
LEMMA AdvanceWalks ==
  ASSUME NEW q, Sound(q), q.pc = "dispatch", q.at # NULL
  PROVE  /\ Sound(Advance(q))
         /\ Advance(q).i = q.i + 1
         /\ Advance(q).st = q.st /\ Advance(q).pc = q.pc /\ Advance(q).chain = q.chain
         /\ Advance(q).fds = q.fds /\ Advance(q).sessions = q.sessions
         /\ Advance(q).oneShot = q.oneShot /\ Advance(q).parent = q.parent
<1> DEFINE n == Len(q.fds)
           off == Len(q.chain) - Len(q.fds)
           k == Place(q.chain, q.at)
           next == IF k = Len(q.chain) THEN NULL ELSE q.chain[k + 1].id
           r == [q EXCEPT !.i = q.i + 1, !.at = next]
<1>0. /\ q.chain \in Seq(Chan) /\ q.fds \in Seq(Fd) /\ Len(q.chain) \in Nat /\ n \in Nat
      /\ q.i \in 1..(n + 1) /\ n <= Len(q.chain) /\ off \in Nat
      /\ \A j \in 1..n : q.fds[j].id = q.chain[off + j].id
      /\ q.at = IF q.i <= n THEN q.fds[q.i].id ELSE NULL
  BY LenProperties DEF Sound, Process, Walks
<1>1. q.i <= n /\ q.i \in 1..n /\ off + q.i \in 1..Len(q.chain)
  <2>1. q.i <= n BY <1>0
  <2>2. \A a, b, d \in Nat : d \in 1..(b + 1) /\ d <= b /\ b <= a =>
          d \in 1..b /\ (a - b) + d \in 1..a
    OBVIOUS
  <2>3. q.i \in Nat BY <1>0
  <2> QED BY <1>0, <2>1, <2>2, <2>3
<1>2. k = off + q.i
  <2>1. q.at = q.chain[off + q.i].id BY <1>0, <1>1
  <2> QED BY <1>0, <1>1, <2>1, PlaceIs DEF Sound
<1>3. Advance(q) = r
  BY DEF Advance
<1> HIDE DEF k
<1>4. next = IF q.i + 1 <= n THEN q.fds[q.i + 1].id ELSE NULL
  <2>1. CASE q.i = n BY <1>0, <1>1, <1>2, <2>1
  <2>2. CASE q.i # n
    <3>1. \A a, b, d \in Nat : d \in 1..b /\ d # b /\ b <= a =>
            /\ d + 1 \in 1..b /\ d + 1 <= b /\ (a - b) + d # a
            /\ ((a - b) + d) + 1 = (a - b) + (d + 1)
      OBVIOUS
    <3>2. q.i \in Nat BY <1>1
    <3>3. /\ q.i + 1 \in 1..n /\ q.i + 1 <= n /\ k # Len(q.chain) /\ k + 1 = off + (q.i + 1)
      <4>1. Len(q.chain) \in Nat /\ n \in Nat /\ n <= Len(q.chain) /\ q.i \in 1..n
        BY <1>0, <1>1
      <4> HIDE DEF n
      <4>2. k = (Len(q.chain) - n) + q.i BY <1>2 DEF n
      <4>3. /\ q.i + 1 \in 1..n /\ q.i + 1 <= n /\ (Len(q.chain) - n) + q.i # Len(q.chain)
            /\ ((Len(q.chain) - n) + q.i) + 1 = (Len(q.chain) - n) + (q.i + 1)
        BY <2>2, <3>1, <3>2, <4>1
      <4> QED BY <4>2, <4>3 DEF n
    <3>4. q.fds[q.i + 1].id = q.chain[off + (q.i + 1)].id BY <1>0, <3>3
    <3> QED BY <3>3, <3>4
  <2> QED BY <2>1, <2>2
<1>5. next \in Ids \cup {NULL}
  <2>1. ASSUME q.i + 1 <= n PROVE q.fds[q.i + 1] \in Fd
    BY <1>0, <1>1, <2>1, ElementOfSeq
  <2> QED BY <1>4, <2>1 DEF Fd
<1> HIDE DEF next
<1>6. /\ r \in Process /\ r.i = q.i + 1 /\ r.at = next
      /\ r.st = q.st /\ r.pc = q.pc /\ r.chain = q.chain /\ r.fds = q.fds
      /\ r.sessions = q.sessions /\ r.oneShot = q.oneShot /\ r.parent = q.parent
  <2>1. q \in Process /\ q.i + 1 \in Nat BY <1>1 DEF Sound
  <2> QED BY <1>5, <2>1 DEF Process
<1> HIDE DEF r
<1>7. Walks(r)
  <2>1. q.i + 1 \in 1..(n + 1) BY <1>0, <1>1
  <2> QED BY <1>0, <1>4, <1>6, <2>1 DEF Walks
<1> QED BY <1>3, <1>6, <1>7 DEF Sound

\* r is q but for the marks on its channels (and the count of sessions).
Recast(r, q) ==
  /\ r \in Process
  /\ r.st = q.st /\ r.pc = q.pc /\ r.fds = q.fds /\ r.i = q.i /\ r.at = q.at
  /\ r.oneShot = q.oneShot /\ r.parent = q.parent
  /\ Len(r.chain) = Len(q.chain)
  /\ \A k \in 1..Len(q.chain) :
       r.chain[k].id = q.chain[k].id /\ (q.chain[k].dead => r.chain[k].dead)

LEMMA RecastSound ==
  ASSUME NEW q, Sound(q), NEW r, Recast(r, q)
  PROVE  Sound(r)
<1>0. Len(q.chain) \in Nat /\ Len(q.fds) \in Nat
  BY LenProperties DEF Sound, Process
<1>1. Distinct(r.chain)
  BY DEF Sound, Recast, Distinct
<1>2. ASSUME q.pc = "dispatch" PROVE Walks(r)
  <2>1. \A k \in 1..Len(q.fds) : Len(q.fds) <= Len(q.chain) =>
           (Len(q.chain) - Len(q.fds)) + k \in 1..Len(q.chain)
    <3>1. \A a, b \in Nat : \A k \in 1..b : b <= a => (a - b) + k \in 1..a OBVIOUS
    <3> QED BY <1>0, <3>1
  <2>2. /\ Len(q.fds) <= Len(q.chain)
        /\ \A k \in 1..Len(q.fds) : q.fds[k].id = q.chain[(Len(q.chain) - Len(q.fds)) + k].id
        /\ q.i \in 1..Len(q.fds) + 1
        /\ q.at = IF q.i <= Len(q.fds) THEN q.fds[q.i].id ELSE NULL
    BY <1>2 DEF Sound, Walks
  <2>3. /\ r.fds = q.fds /\ r.i = q.i /\ r.at = q.at /\ Len(r.chain) = Len(q.chain)
        /\ \A k \in 1..Len(q.chain) : r.chain[k].id = q.chain[k].id
    BY DEF Recast
  <2>4. \A k \in 1..Len(q.fds) :
           r.chain[(Len(q.chain) - Len(q.fds)) + k].id = q.fds[k].id
    BY <2>1, <2>2, <2>3
  <2> QED BY <2>2, <2>3, <2>4 DEF Walks
<1>3. q.pc # "dispatch" => Walks(r)
  BY DEF Sound, Recast, Walks
<1> QED BY <1>1, <1>2, <1>3 DEF Sound, Recast

\* iochan_destroy marks one channel, remove_listeners all of them.
LEMMA MarksOnly ==
  ASSUME NEW q \in Process
  PROVE  /\ \A id : /\ Recast(Destroy(q, id), q) /\ Destroy(q, id).sessions = q.sessions
                    /\ \A k \in 1..Len(q.chain) :
                         q.chain[k].id # id => Destroy(q, id).chain[k] = q.chain[k]
         /\ Recast(RemoveListeners(q), q) /\ RemoveListeners(q).sessions = q.sessions
         /\ \A k \in 1..Len(q.chain) : RemoveListeners(q).chain[k].dead
<1>0. q.chain \in Seq(Chan) /\ Len(q.chain) \in Nat /\ DOMAIN q.chain = 1..Len(q.chain)
      /\ \A k \in 1..Len(q.chain) : q.chain[k] \in Chan
  BY LenProperties, ElementOfSeq DEF Process
<1>1. ASSUME NEW f, f \in [1..Len(q.chain) -> Chan],
             \A k \in 1..Len(q.chain) : f[k].id = q.chain[k].id /\ (q.chain[k].dead => f[k].dead)
      PROVE  LET r == [q EXCEPT !.chain = f] IN
             Recast(r, q) /\ r.sessions = q.sessions /\ r.chain = f
  <2> DEFINE r == [q EXCEPT !.chain = f]
  <2>1. f \in Seq(Chan) /\ Len(f) = Len(q.chain) BY <1>0, <1>1
  <2>2. /\ r \in Process /\ r.chain = f /\ r.sessions = q.sessions
        /\ r.st = q.st /\ r.pc = q.pc /\ r.fds = q.fds /\ r.i = q.i /\ r.at = q.at
        /\ r.oneShot = q.oneShot /\ r.parent = q.parent
    BY <2>1 DEF Process
  <2> HIDE DEF r
  <2>3. Recast(r, q) BY <1>1, <2>1, <2>2 DEF Recast
  <2> QED BY <2>2, <2>3 DEF r
<1>2. ASSUME NEW id
      PROVE  /\ Recast(Destroy(q, id), q) /\ Destroy(q, id).sessions = q.sessions
             /\ \A k \in 1..Len(q.chain) :
                  q.chain[k].id # id => Destroy(q, id).chain[k] = q.chain[k]
  <2> DEFINE f == [k \in DOMAIN q.chain |->
                     IF q.chain[k].id = id THEN [q.chain[k] EXCEPT !.dead = TRUE] ELSE q.chain[k]]
  <2>1. Destroy(q, id) = [q EXCEPT !.chain = f] BY DEF Destroy
  <2>2. f \in [1..Len(q.chain) -> Chan]
        /\ \A k \in 1..Len(q.chain) : f[k].id = q.chain[k].id /\ (q.chain[k].dead => f[k].dead)
    BY <1>0 DEF Chan
  <2>3. \A k \in 1..Len(q.chain) : q.chain[k].id # id => f[k] = q.chain[k] BY <1>0
  <2> HIDE DEF f
  <2> QED BY <1>1, <2>1, <2>2, <2>3
<1>3. /\ Recast(RemoveListeners(q), q) /\ RemoveListeners(q).sessions = q.sessions
      /\ \A k \in 1..Len(q.chain) : RemoveListeners(q).chain[k].dead
  <2> DEFINE f == [k \in DOMAIN q.chain |-> [q.chain[k] EXCEPT !.dead = TRUE]]
  <2>1. RemoveListeners(q) = [q EXCEPT !.chain = f] BY DEF RemoveListeners
  <2>2. f \in [1..Len(q.chain) -> Chan]
        /\ \A k \in 1..Len(q.chain) : f[k].id = q.chain[k].id /\ f[k].dead
    BY <1>0 DEF Chan
  <2> HIDE DEF f
  <2> QED BY <1>1, <2>1, <2>2
<1> QED BY <1>2, <1>3

\* What the parent goes on with after an accept.
LEMMA AcceptedMarks ==
  ASSUME NEW q \in Process
  PROVE  /\ Recast(Accepted(q), q) /\ Accepted(q).sessions = q.sessions + 1
         /\ q.oneShot => \A k \in 1..Len(q.chain) : Accepted(q).chain[k].dead
         /\ ~q.oneShot => Accepted(q).chain = q.chain
<1> DEFINE b == IF q.oneShot THEN RemoveListeners(q) ELSE q
           r == [b EXCEPT !.sessions = b.sessions + 1]
<1>0. Recast(q, q) BY DEF Recast
<1>1. /\ Recast(b, q) /\ b.sessions = q.sessions
      /\ q.oneShot => \A k \in 1..Len(q.chain) : b.chain[k].dead
      /\ ~q.oneShot => b.chain = q.chain
  BY <1>0, MarksOnly
<1>2. Accepted(q) = r
  BY DEF Accepted
<1> HIDE DEF b
<1>3. /\ r \in Process /\ r.sessions = q.sessions + 1 /\ r.chain = b.chain
      /\ r.st = b.st /\ r.pc = b.pc /\ r.fds = b.fds /\ r.i = b.i /\ r.at = b.at
      /\ r.oneShot = b.oneShot /\ r.parent = b.parent
  <2>1. b \in Process /\ b.sessions + 1 \in Nat BY <1>1 DEF Recast, Process
  <2> QED BY <1>1, <2>1 DEF Process
<1> HIDE DEF r
<1>4. Recast(r, q) BY <1>1, <1>3 DEF Recast
<1> QED BY <1>1, <1>2, <1>3, <1>4

\* new_session puts a channel in front, where the walk is past.
LEMMA NewSessionSound ==
  ASSUME NEW q, Sound(q), NEW c \in Clients, cb \in Block,
         \A k \in 1..Len(q.chain) : q.chain[k].id # c
  PROVE  /\ Sound(NewSession(q, c))
         /\ NewSession(q, c).oneShot = (q.oneShot \/ (cb.max > 0 /\ q.sessions >= cb.max))
         /\ NewSession(q, c).st = q.st /\ NewSession(q, c).pc = q.pc
         /\ NewSession(q, c).fds = q.fds /\ NewSession(q, c).i = q.i
         /\ NewSession(q, c).at = q.at /\ NewSession(q, c).sessions = q.sessions
         /\ Len(NewSession(q, c).chain) = Len(q.chain) + 1
         /\ NewSession(q, c).chain[1] = Channel(c)
         /\ \A k \in 1..Len(q.chain) : NewSession(q, c).chain[k + 1] = q.chain[k]
<1> DEFINE s == <<Channel(c)>> \o q.chain
           one == q.oneShot \/ (cb.max > 0 /\ q.sessions >= cb.max)
           r == [q EXCEPT !.chain = s, !.oneShot = one]
<1>0. q.chain \in Seq(Chan) /\ Len(q.chain) \in Nat /\ Channel(c) \in Chan
      /\ Len(q.fds) \in Nat
  BY Names, LenProperties DEF Sound, Process, Channel, Chan
<1>1. /\ s \in Seq(Chan) /\ Len(s) = Len(q.chain) + 1 /\ s[1] = Channel(c)
      /\ \A k \in 1..Len(q.chain) : s[k + 1] = q.chain[k]
  BY <1>0
<1>2. one \in BOOLEAN
  BY DEF Sound, Process, Block
<1>3. NewSession(q, c) = r
  BY DEF NewSession
<1> HIDE DEF s, one
<1>4. /\ r \in Process /\ r.chain = s /\ r.oneShot = one
      /\ r.st = q.st /\ r.pc = q.pc /\ r.fds = q.fds /\ r.i = q.i /\ r.at = q.at
      /\ r.sessions = q.sessions
  BY <1>1, <1>2 DEF Sound, Process
<1> HIDE DEF r
<1>5. Distinct(r.chain)
  <2> SUFFICES ASSUME NEW j \in 1..Len(s), NEW k \in 1..Len(s), s[j].id = s[k].id PROVE j = k
    BY <1>4 DEF Distinct
  <2>1. \A m \in 1..Len(s) : m # 1 => m - 1 \in 1..Len(q.chain) /\ (m - 1) + 1 = m
    BY <1>0, <1>1
  <2>2. \A m \in 1..Len(s) : m # 1 => s[m] = q.chain[m - 1] BY <1>1, <2>1
  <2>3. s[1].id = c BY <1>1 DEF Channel
  <2>4. CASE j = 1 \/ k = 1 BY <2>1, <2>2, <2>3, <2>4
  <2>5. CASE j # 1 /\ k # 1
    <3>1. j - 1 = k - 1 BY <2>1, <2>2, <2>5 DEF Sound, Distinct
    <3> QED BY <3>1
  <2> QED BY <2>4, <2>5
<1>6. Walks(r)
  <2> SUFFICES ASSUME q.pc = "dispatch" PROVE Walks(r) BY <1>4 DEF Walks
  <2> DEFINE off == Len(q.chain) - Len(q.fds)
  <2>1. Len(q.fds) <= Len(q.chain) /\ Len(r.chain) - Len(r.fds) = off + 1
        /\ Len(r.fds) <= Len(r.chain)
    BY <1>0, <1>1, <1>4 DEF Sound, Walks
  <2>2. ASSUME NEW k \in 1..Len(q.fds) PROVE q.fds[k].id = r.chain[(off + 1) + k].id
    <3>0. \A a, b \in Nat : \A d \in 1..b : b <= a =>
            (a - b) + d \in 1..a /\ ((a - b) + d) + 1 = ((a - b) + 1) + d
      OBVIOUS
    <3>1. off + k \in 1..Len(q.chain) /\ (off + k) + 1 = (off + 1) + k BY <1>0, <2>1, <3>0
    <3>2. q.fds[k].id = q.chain[off + k].id BY DEF Sound, Walks
    <3> QED BY <1>1, <1>4, <3>1, <3>2
  <2> QED BY <1>4, <2>1, <2>2 DEF Sound, Walks
<1> QED BY <1>1, <1>3, <1>4, <1>5, <1>6 DEF Sound, one

-----------------------------------------------------------------------------
(***************************************************************************)
(* A step of one event loop: whatever the loop of p does to its own state, *)
(* as long as its channels are among those it had, in the state they had   *)
(* or destroyed, and no live listener is dropped.                          *)
(***************************************************************************)
Derived(r, q) ==
  /\ Sound(r)
  /\ r.st = "run" /\ r.pc # "new"
  /\ r.sessions = q.sessions /\ r.oneShot = q.oneShot
  /\ \A k \in 1..Len(r.chain) : \E j \in 1..Len(q.chain) :
       r.chain[k].id = q.chain[j].id /\ (q.chain[j].dead => r.chain[k].dead)
  /\ \A j \in 1..Len(q.chain) :
       q.chain[j].id \notin Clients /\ ~q.chain[j].dead =>
         \E k \in 1..Len(r.chain) : r.chain[k] = q.chain[j]

ReadyAhead(r) ==
  r.pc = "dispatch" =>
    \A k \in r.i..Len(r.fds) :
      r.fds[k].id \notin Clients /\ r.fds[k].event # NULL => backlog[r.fds[k].id] # <<>>

LEMMA SoundAlways ==
  ASSUME IInv, NEW p \in Procs
  PROVE  Sound(proc[p]) /\ proc[p] \in Process /\ Len(proc[p].chain) \in Nat
BY LenProperties DEF IInv, Typed, ChainsWalk, Sound, Process

LEMMA LoopStep ==
  ASSUME IInv, NEW p \in Procs, Running(p), NEW r, Derived(r, proc[p]),
         p = Main => ReadyAhead(r),
         proc' = [proc EXCEPT ![p] = r],
         cb' = cb, backlog' = backlog, starts' = starts,
         client' \in [Clients -> ClientState], wants' \subseteq Clients, faults' \in 0..MaxFaults,
         \A c \in Clients : client'[c] = client[c] \/ (client[c] \notin Unseen /\ client'[c] \notin Unseen)
  PROVE  IInv'
<1> DEFINE q == proc[p]
<1>0. /\ \A x \in Procs : proc'[x] = IF x = p THEN r ELSE proc[x]
      /\ proc' \in [Procs -> Process]
  BY DEF IInv, Typed, Derived, Sound
<1>1. Typed'
  BY <1>0 DEF IInv, Typed
<1>2. ChainsWalk'
  <2> SUFFICES ASSUME NEW x \in Procs PROVE Distinct(proc'[x].chain) /\ Walks(proc'[x])
    BY DEF ChainsWalk, Distinct, Walks
  <2>1. CASE x = p BY <1>0, <2>1 DEF Derived, Sound
  <2>2. CASE x # p BY <1>0, <2>2 DEF IInv, ChainsWalk
  <2> QED BY <2>1, <2>2
<1>3. MainListens'
  <2>0. Main \in Procs BY Names
  <2>1. CASE p = Main
    <3>1. proc'[Main] = r BY <1>0, <2>0, <2>1
    <3>2. \A k \in 1..Len(r.chain) :
            IF r.chain[k].id \in Clients THEN cb.inetd \/ ~(cb.dynamic \/ cb.threads)
            ELSE r.chain[k].id \in DOMAIN backlog
      <4> SUFFICES ASSUME NEW k \in 1..Len(r.chain)
                   PROVE  IF r.chain[k].id \in Clients THEN cb.inetd \/ ~(cb.dynamic \/ cb.threads)
                          ELSE r.chain[k].id \in DOMAIN backlog
        OBVIOUS
      <4>1. PICK j \in 1..Len(proc[Main].chain) : r.chain[k].id = proc[Main].chain[j].id
        BY <2>1 DEF Derived
      <4> QED BY <4>1 DEF IInv, MainListens
    <3>3. r.st = "run" /\ r.pc # "new" /\ ReadyAhead(r) BY <2>1 DEF Derived
    <3> HIDE DEF q
    <3> QED BY <3>1, <3>2, <3>3 DEF MainListens, ReadyAhead
  <2>2. CASE p # Main
    <3>1. proc'[Main] = proc[Main] BY <1>0, <2>0, <2>2
    <3> QED BY <3>1 DEF IInv, MainListens
  <2> QED BY <2>1, <2>2
<1>4. WorkersServe'
  <2> SUFFICES ASSUME NEW c \in Clients
               PROVE  /\ proc'[c].st = "run" => (cb.dynamic \/ cb.threads) /\ ~cb.inetd
                      /\ \A k \in 1..Len(proc'[c].chain) :
                           ~proc'[c].chain[k].dead => proc'[c].chain[k].id = c
                      /\ proc'[c].st = "run" /\ proc'[c].pc = "new" =>
                           cb.threads /\ proc'[c].parent \in DOMAIN backlog
    BY DEF WorkersServe, Running
  <2>0. c \in Procs BY Names
  <2>1. CASE p = c
    <3>1. proc'[c] = r BY <1>0, <2>0, <2>1
    <3>2. (cb.dynamic \/ cb.threads) /\ ~cb.inetd BY <2>1 DEF IInv, WorkersServe
    <3>3. ASSUME NEW k \in 1..Len(r.chain), ~r.chain[k].dead PROVE r.chain[k].id = c
      <4>1. PICK j \in 1..Len(proc[c].chain) :
              r.chain[k].id = proc[c].chain[j].id /\ (proc[c].chain[j].dead => r.chain[k].dead)
        BY <2>1 DEF Derived
      <4> QED BY <3>3, <4>1 DEF IInv, WorkersServe
    <3>4. r.pc # "new" BY DEF Derived
    <3> QED BY <3>1, <3>2, <3>3, <3>4
  <2>2. CASE p # c
    <3>1. proc'[c] = proc[c] BY <1>0, <2>0, <2>2
    <3> QED BY <3>1 DEF IInv, WorkersServe, Running
  <2> QED BY <2>1, <2>2
<1>5. AcceptedOnly'
  <2> SUFFICES ASSUME NEW x \in Procs, NEW k \in 1..Len(proc'[x].chain),
                      proc'[x].chain[k].id \in Clients
               PROVE  client'[proc'[x].chain[k].id] \notin Unseen
    BY DEF AcceptedOnly
  <2>1. \E j \in 1..Len(proc[x].chain) : proc'[x].chain[k].id = proc[x].chain[j].id
    BY <1>0 DEF Derived
  <2>2. PICK j \in 1..Len(proc[x].chain) : proc'[x].chain[k].id = proc[x].chain[j].id
    BY <2>1
  <2>3. client[proc'[x].chain[k].id] \notin Unseen
    BY <2>2 DEF IInv, AcceptedOnly
  <2> QED BY <2>3
<1>6. QueuesWait'
  <2>1. ASSUME NEW l \in DOMAIN backlog, NEW k \in 1..Len(backlog[l])
        PROVE  client'[backlog[l][k]] = "waits"
    <3>1. client[backlog[l][k]] = "waits" BY DEF IInv, QueuesWait
    <3>2. backlog[l] \in Seq(Clients) BY DEF IInv, Typed
    <3>3. backlog[l][k] \in Clients BY <3>2, ElementOfSeq
    <3> QED BY <3>1, <3>3 DEF Unseen
  <2> QED BY <2>1 DEF IInv, QueuesWait
<1>7. StartsCounted'
  <2>1. Seen' = Seen BY DEF Seen
  <2> QED BY <2>1 DEF IInv, StartsCounted
<1>8. LimitsKept'
  <2>0. Main \in Procs BY Names
  <2>1. CASE p = Main
    <3>1. proc'[Main] = r BY <1>0, <2>0, <2>1
    <3>2. /\ r.st = "run" /\ r.sessions = proc[Main].sessions /\ r.oneShot = proc[Main].oneShot
          /\ proc[Main].st = "run"
      BY <2>1 DEF Derived, Running
    <3>3. ASSUME Deaf(proc[Main]) PROVE Deaf(r)
      <4> SUFFICES ASSUME NEW k \in 1..Len(r.chain), r.chain[k].id \notin Clients
                   PROVE  r.chain[k].dead
        BY DEF Deaf
      <4>1. PICK j \in 1..Len(proc[Main].chain) :
              r.chain[k].id = proc[Main].chain[j].id /\ (proc[Main].chain[j].dead => r.chain[k].dead)
        BY <2>1 DEF Derived
      <4> QED BY <3>3, <4>1 DEF Deaf
    <3>4. LimitsKept BY DEF IInv
    <3> HIDE DEF q
    <3> QED BY <3>1, <3>2, <3>3, <3>4 DEF LimitsKept, Deaf
  <2>2. CASE p # Main
    <3>1. proc'[Main] = proc[Main] BY <1>0, <2>0, <2>2
    <3> QED BY <3>1 DEF IInv, LimitsKept, Deaf
  <2> QED BY <2>1, <2>2
<1>9. ListenersStay'
  <2>0. Main \in Procs BY Names
  <2>1. CASE p = Main
    <3>1. proc'[Main] = r BY <1>0, <2>0, <2>1
    <3>2. SUFFICES ASSUME cb.threads, ~cb.oneShot, cb.max = 0
                   PROVE  /\ ~r.oneShot
                          /\ \A l \in DOMAIN backlog : \E k \in 1..Len(r.chain) : r.chain[k] = Channel(l)
      BY <3>1 DEF ListenersStay, Channel
    <3>3. /\ ~proc[Main].oneShot
          /\ \A l \in DOMAIN backlog : \E k \in 1..Len(proc[Main].chain) : proc[Main].chain[k] = Channel(l)
      BY <2>1, <3>2 DEF IInv, ListenersStay, Running
    <3>4. ASSUME NEW l \in DOMAIN backlog PROVE \E k \in 1..Len(r.chain) : r.chain[k] = Channel(l)
      <4>1. PICK j \in 1..Len(proc[Main].chain) : proc[Main].chain[j] = Channel(l) BY <3>3
      <4>2. l \notin Clients BY Names DEF IInv, Typed
      <4>3. proc[Main].chain[j].id \notin Clients /\ ~proc[Main].chain[j].dead
        BY <4>1, <4>2 DEF Channel
      <4> QED BY <2>1, <4>1, <4>3 DEF Derived
    <3> QED BY <2>1, <3>3, <3>4 DEF Derived
  <2>2. CASE p # Main
    <3>1. proc'[Main] = proc[Main] BY <1>0, <2>0, <2>2
    <3> QED BY <3>1 DEF IInv, ListenersStay, Channel
  <2> QED BY <2>1, <2>2
<1>10. WorkersAccepted'
  <2> SUFFICES ASSUME NEW c \in Clients, proc'[c].st = "run" PROVE client'[c] \notin Unseen
    BY DEF WorkersAccepted, Running
  <2>1. c \in Procs BY Names
  <2>2. Running(c) BY <1>0, <2>1 DEF Running
  <2> QED BY <2>2 DEF IInv, WorkersAccepted
<1> QED BY <1>1, <1>2, <1>3, <1>4, <1>5, <1>6, <1>7, <1>8, <1>9, <1>10 DEF IInv

-----------------------------------------------------------------------------
(***************************************************************************)
(* What is computed over a whole chain or command line                     *)
(***************************************************************************)
\* The channels kept after a pass are the live ones.
LEMMA KeptLive ==
  ASSUME NEW chain \in Seq(Chan), Distinct(chain)
  PROVE  /\ Kept(chain) \in Seq(Chan) /\ Distinct(Kept(chain))
         /\ \A k \in 1..Len(Kept(chain)) : \E j \in 1..Len(chain) : Kept(chain)[k] = chain[j]
         /\ \A j \in 1..Len(chain) : ~chain[j].dead => \E k \in 1..Len(Kept(chain)) : Kept(chain)[k] = chain[j]
<1> DEFINE V == Seq(Chan)
           N == Len(chain)
           G == [x \in V \X Nat |->
                   IF x[2] \in 1..N /\ ~chain[x[2]].dead THEN Append(x[1], chain[x[2]]) ELSE x[1]]
           Body(f) == [n \in 0..N |-> IF n = 0 THEN <<>>
                                      ELSE IF chain[n].dead THEN f[n - 1] ELSE Append(f[n - 1], chain[n])]
           g == CHOOSE f : f = Body(f)
<1>0. N \in Nat /\ \A n \in 1..N : chain[n] \in Chan
  BY LenProperties, ElementOfSeq
<1>1. G \in [V \X Nat -> V]
  BY <1>0, SeqClosed
<1>2. \E f : f = Body(f)
  <2>0. <<>> \in V BY SeqClosed
  <2>1. PICK f \in [0..N -> V] : \A n \in 0..N : f[n] = IF n = 0 THEN <<>> ELSE G[<<f[n - 1], n>>]
    <3> DEFINE e == <<>>
    <3>1. e \in V /\ N \in Nat BY <1>0, <2>0
    <3> HIDE DEF G, V, N, e
    <3>2. \E f \in [0..N -> V] : ByRecursion(f, N, e, G)
      BY <1>1, <3>1, RecursionExists
    <3> QED BY <3>2 DEF e, ByRecursion
  <2>2. ASSUME NEW n \in 0..N, n # 0
        PROVE  G[<<f[n - 1], n>>] = IF chain[n].dead THEN f[n - 1] ELSE Append(f[n - 1], chain[n])
    <3>1. n \in 1..N /\ n \in Nat /\ n - 1 \in 0..N BY <1>0, <2>2
    <3>2. f[n - 1] \in V BY <2>1, <3>1
    <3>3. <<f[n - 1], n>> \in V \X Nat BY <3>1, <3>2
    <3>4. <<f[n - 1], n>>[1] = f[n - 1] /\ <<f[n - 1], n>>[2] = n OBVIOUS
    <3> HIDE DEF V, N
    <3> QED BY <3>1, <3>3, <3>4
  <2> HIDE DEF G, V
  <2>3. f = Body(f) BY <2>1, <2>2
  <2> QED BY <2>3
<1>3. g = Body(g)
  <2> HIDE DEF Body
  <2> QED BY <1>2
<1>4. Kept(chain) = g[N]
  BY DEF Kept
<1> DEFINE Live(n) ==
             /\ g[n] \in V /\ Distinct(g[n])
             /\ \A k \in 1..Len(g[n]) : \E j \in 1..n : g[n][k] = chain[j]
             /\ \A j \in 1..n : ~chain[j].dead => \E k \in 1..Len(g[n]) : g[n][k] = chain[j]
           S == {n \in Nat : n <= N => Live(n)}
<1> HIDE DEF g
<1>5. 0 \in S
  <2>1. 0 \in 0..N /\ g[0] = <<>> BY <1>0, <1>3
  <2>2. <<>> \in V /\ Len(<<>>) = 0 BY SeqClosed
  <2>3. 1..0 = {} OBVIOUS
  <2>4. Live(0) BY <2>1, <2>2, <2>3 DEF Distinct
  <2> HIDE DEF Live
  <2> QED BY <2>4
<1>6. ASSUME NEW n \in Nat, n \in S PROVE n + 1 \in S
  <2> SUFFICES ASSUME n + 1 <= N PROVE Live(n + 1) OBVIOUS
  <2>1. n <= N /\ n + 1 \in 0..N /\ n + 1 \in 1..N /\ (n + 1) - 1 = n /\ n + 1 # 0 BY <1>0
  <2>2. Live(n) BY <1>6, <2>1
  <2>3. g[n + 1] = IF chain[n + 1].dead THEN g[n] ELSE Append(g[n], chain[n + 1])
    BY <1>3, <2>1
  <2>4. \A j \in 1..(n + 1) : j \in 1..n \/ j = n + 1 BY <1>0
  <2>4a. \A j \in 1..n : j \in 1..(n + 1) OBVIOUS
  <2>5. CASE chain[n + 1].dead
    <3>1. g[n + 1] = g[n] BY <2>3, <2>5
    <3>2. \A k \in 1..Len(g[n]) : \E j \in 1..(n + 1) : g[n][k] = chain[j]
      BY <2>2, <2>4a
    <3>3. \A j \in 1..(n + 1) : ~chain[j].dead => \E k \in 1..Len(g[n]) : g[n][k] = chain[j]
      BY <2>2, <2>4, <2>5
    <3> QED BY <2>2, <3>1, <3>2, <3>3
  <2>6. CASE ~chain[n + 1].dead
    <3> DEFINE m == Len(g[n])
               h == g[n + 1]
    <3>1. m \in Nat /\ h = Append(g[n], chain[n + 1]) /\ chain[n + 1] \in Chan
      BY <1>0, <2>1, <2>2, <2>3, <2>6, LenProperties
    <3>2. h \in V /\ Len(h) = m + 1 /\ h[m + 1] = chain[n + 1] /\ \A k \in 1..m : h[k] = g[n][k]
      BY <2>2, <3>1, AppendProperties
    <3> HIDE DEF h
    <3>3. \A k \in 1..(m + 1) : k \in 1..m \/ k = m + 1
      <4>1. \A b \in Nat : \A k \in 1..(b + 1) : k \in 1..b \/ k = b + 1 OBVIOUS
      <4> HIDE DEF m
      <4> QED BY <3>1, <4>1
    <3>4. ASSUME NEW k \in 1..(m + 1) PROVE \E j \in 1..(n + 1) : h[k] = chain[j]
      <4>1. CASE k \in 1..m
        <5>1. PICK j \in 1..n : g[n][k] = chain[j] BY <2>2, <4>1
        <5> QED BY <2>4a, <3>2, <4>1, <5>1
      <4>2. CASE k = m + 1
        <5>1. n + 1 \in 1..(n + 1) OBVIOUS
        <5> QED BY <3>2, <4>2, <5>1
      <4> QED BY <3>3, <4>1, <4>2
    <3>5. ASSUME NEW j \in 1..(n + 1), ~chain[j].dead PROVE \E k \in 1..(m + 1) : h[k] = chain[j]
      <4>0. m + 1 \in 1..(m + 1) /\ \A k \in 1..m : k \in 1..(m + 1) BY <3>1
      <4>1. CASE j \in 1..n
        <5>1. PICK k \in 1..m : g[n][k] = chain[j] BY <2>2, <3>5, <4>1
        <5> QED BY <3>2, <4>0, <5>1
      <4>2. CASE j = n + 1 BY <3>2, <4>0, <4>2
      <4> QED BY <2>4, <4>1, <4>2
    <3>6. ASSUME NEW i \in 1..m PROVE h[i].id # h[m + 1].id
      <4>1. PICK j \in 1..n : g[n][i] = chain[j] BY <2>2
      <4>2. j \in 1..N /\ j # n + 1 BY <1>0, <2>1
      <4>3. chain[j].id # chain[n + 1].id BY <2>1, <4>2 DEF Distinct
      <4> QED BY <3>2, <4>1, <4>3
    <3>7. Distinct(h)
      <4> SUFFICES ASSUME NEW i \in 1..(m + 1), NEW k \in 1..(m + 1), h[i].id = h[k].id
                   PROVE  i = k
        BY <3>2 DEF Distinct
      <4>1. CASE i \in 1..m /\ k \in 1..m BY <2>2, <3>2, <4>1 DEF Distinct
      <4>2. CASE i \in 1..m /\ k = m + 1 BY <3>6, <4>2
      <4>3. CASE i = m + 1 /\ k \in 1..m BY <3>6, <4>3
      <4>4. CASE i = m + 1 /\ k = m + 1 BY <4>4
      <4> QED BY <3>3, <4>1, <4>2, <4>3, <4>4
    <3> QED BY <3>2, <3>4, <3>5, <3>7 DEF h
  <2> QED BY <2>5, <2>6
<1>7. N \in S
  <2>1. Nat \subseteq S
    <3> HIDE DEF S
    <3> QED BY <1>5, <1>6, SetInduction
  <2> QED BY <1>0, <2>1
<1>8. Live(N) BY <1>0, <1>7
<1> QED BY <1>4, <1>8

Letters == {"1", "S", "T", "i", "A"}

\* One option of the command line.
LEMMA OptionSound ==
  ASSUME NEW b \in Block, NEW o \in Letters \cup Listeners
  PROVE  /\ Option(b, o) \in Block
         /\ (b.dynamic => ~b.threads) => (Option(b, o).dynamic => ~Option(b, o).threads)
         /\ \/ Option(b, o).listeners = b.listeners
            \/ o \in Listeners /\ Option(b, o).listeners = <<o>> \o b.listeners
<1>1. CASE o = "1" BY <1>1 DEF Option, Block
<1>2. CASE o = "S" BY <1>2 DEF Option, Block
<1>3. CASE o = "T" BY <1>3 DEF Option, Block
<1>4. CASE o = "i" BY <1>4 DEF Option, Block
<1>5. CASE o = "A" BY <1>5 DEF Option, Block
<1>6. CASE o \notin Letters
  <2> DEFINE l == <<o>> \o b.listeners
             r == [b EXCEPT !.listeners = l]
  <2>1. o \in Listeners BY <1>6
  <2>2. l \in Seq(Listeners)
    <3>1. <<o>> \in Seq(Listeners) /\ b.listeners \in Seq(Listeners) BY <2>1, SeqClosed DEF Block
    <3> QED BY <3>1, ConcatProperties
  <2>3. Option(b, o) = r BY <1>6 DEF Option, Letters
  <2> HIDE DEF l
  <2>4. r \in Block /\ r.dynamic = b.dynamic /\ r.threads = b.threads /\ r.listeners = l
    BY <2>2 DEF Block
  <2> HIDE DEF r
  <2> QED BY <2>1, <2>3, <2>4 DEF l
<1> QED BY <1>1, <1>2, <1>3, <1>4, <1>5, <1>6 DEF Letters

Once(l) == \A j, k \in 1..Len(l) : l[j] = l[k] => j = k

\* The control block that the command line makes: a server that forks starts
\* no threads, and it listens at every address once.
LEMMA OptionsSound ==
  ASSUME NEW args \in ArgLists
  PROVE  /\ CheckOptions(args) \in Block
         /\ CheckOptions(args).dynamic => ~CheckOptions(args).threads
         /\ Once(CheckOptions(args).listeners)
<1> DEFINE V == Block
           N == Len(args)
           G == [x \in V \X Nat |-> IF x[2] \in 1..N THEN Option(x[1], args[x[2]]) ELSE x[1]]
           Body(f) == [n \in 0..N |-> IF n = 0 THEN Defaults ELSE Option(f[n - 1], args[n])]
           g == CHOOSE f : f = Body(f)
<1>0. /\ args \in Seq(Letters \cup Listeners)
      /\ \A j, k \in DOMAIN args : args[j] \in Listeners /\ args[j] = args[k] => j = k
  BY ArgsAssumption DEF Letters
<1>0a. /\ N \in Nat /\ DOMAIN args = 1..N
       /\ \A n \in 1..N : args[n] \in Letters \cup Listeners
  BY <1>0, LenProperties, ElementOfSeq
<1>0b. Defaults \in Block /\ ~Defaults.threads /\ Defaults.listeners = <<>>
  BY SeqClosed DEF Defaults, Block
<1>1. G \in [V \X Nat -> V]
  BY <1>0a, OptionSound
<1>2. \E f : f = Body(f)
  <2>1. PICK f \in [0..N -> V] : \A n \in 0..N : f[n] = IF n = 0 THEN Defaults ELSE G[<<f[n - 1], n>>]
    <3>1. Defaults \in V /\ N \in Nat BY <1>0a, <1>0b
    <3> HIDE DEF G, V, N
    <3>2. \E f \in [0..N -> V] : ByRecursion(f, N, Defaults, G)
      BY <1>1, <3>1, RecursionExists
    <3> QED BY <3>2 DEF ByRecursion
  <2>2. ASSUME NEW n \in 0..N, n # 0
        PROVE  G[<<f[n - 1], n>>] = Option(f[n - 1], args[n])
    <3>1. n \in 1..N /\ n \in Nat /\ n - 1 \in 0..N BY <1>0a, <2>2
    <3>2. f[n - 1] \in V BY <2>1, <3>1
    <3>3. <<f[n - 1], n>> \in V \X Nat BY <3>1, <3>2
    <3>4. <<f[n - 1], n>>[1] = f[n - 1] /\ <<f[n - 1], n>>[2] = n OBVIOUS
    <3> HIDE DEF V, N
    <3> QED BY <3>1, <3>3, <3>4
  <2> HIDE DEF G, V
  <2>3. f = Body(f) BY <2>1, <2>2
  <2> QED BY <2>3
<1>3. g = Body(g)
  <2> HIDE DEF Body
  <2> QED BY <1>2
<1>4. CheckOptions(args) = g[N]
  BY DEF CheckOptions
<1> DEFINE Given(n) ==
             /\ g[n] \in Block /\ (g[n].dynamic => ~g[n].threads)
             /\ Once(g[n].listeners)
             /\ \A k \in 1..Len(g[n].listeners) :
                  \E j \in 1..n : args[j] \in Listeners /\ g[n].listeners[k] = args[j]
           S == {n \in Nat : n <= N => Given(n)}
<1> HIDE DEF g
<1>5. 0 \in S
  <2>1. 0 \in 0..N /\ g[0] = Defaults BY <1>0a, <1>3
  <2>2. Len(g[0].listeners) = 0 /\ 1..0 = {} BY <1>0b, <2>1
  <2>3. Given(0) BY <1>0b, <2>1, <2>2 DEF Once
  <2> HIDE DEF Given
  <2> QED BY <2>3
<1>6. ASSUME NEW n \in Nat, n \in S PROVE n + 1 \in S
  <2> SUFFICES ASSUME n + 1 <= N PROVE Given(n + 1) OBVIOUS
  <2> DEFINE o == args[n + 1]
             l == g[n].listeners
             h == g[n + 1]
  <2>1. n <= N /\ n + 1 \in 0..N /\ n + 1 \in 1..N /\ (n + 1) - 1 = n /\ n + 1 # 0 BY <1>0a
  <2>2. Given(n) BY <1>6, <2>1
  <2>3. h = Option(g[n], o) BY <1>3, <2>1
  <2>3a. o \in Letters \cup Listeners BY <1>0a, <2>1
  <2>4. \A j \in 1..n : j \in 1..(n + 1) OBVIOUS
  <2>5. /\ h \in Block /\ (h.dynamic => ~h.threads)
        /\ h.listeners = l \/ (o \in Listeners /\ h.listeners = <<o>> \o l)
    <3>1. g[n] \in Block /\ (g[n].dynamic => ~g[n].threads) BY <2>2
    <3> HIDE DEF o, h
    <3> QED BY <2>3, <2>3a, <3>1, OptionSound
  <2> HIDE DEF h
  <2>6. CASE h.listeners = l
    <3>1. \A k \in 1..Len(h.listeners) :
            \E j \in 1..(n + 1) : args[j] \in Listeners /\ h.listeners[k] = args[j]
      BY <2>2, <2>4, <2>6
    <3>2. Once(h.listeners) BY <2>2, <2>6
    <3> QED BY <2>5, <3>1, <3>2 DEF h
  <2>7. CASE o \in Listeners /\ h.listeners = <<o>> \o l
    <3> DEFINE m == Len(l)
               s == h.listeners
    <3>0. l \in Seq(Listeners) /\ m \in Nat BY <2>2, LenProperties DEF Block
    <3>1. Len(s) = m + 1 /\ s[1] = o /\ \A k \in 1..m : s[k + 1] = l[k]
      <4> HIDE DEF l
      <4> QED BY <2>7, <3>0
    <3> HIDE DEF s
    <3>2. \A k \in 1..(m + 1) : k = 1 \/ (k - 1 \in 1..m /\ (k - 1) + 1 = k)
      <4>1. \A b \in Nat : \A k \in 1..(b + 1) : k = 1 \/ (k - 1 \in 1..b /\ (k - 1) + 1 = k) OBVIOUS
      <4> HIDE DEF m
      <4> QED BY <3>0, <4>1
    <3>3. \A k \in 1..(m + 1) : k # 1 => s[k] = l[k - 1] BY <3>1, <3>2
    <3>4. ASSUME NEW k \in 1..m PROVE l[k] # o
      <4>1. PICK j \in 1..n : args[j] \in Listeners /\ l[k] = args[j] BY <2>2
      <4>2. j \in 1..N /\ j # n + 1 BY <1>0a, <2>1
      <4> QED BY <1>0, <1>0a, <2>1, <4>1, <4>2
    <3>5. Once(s)
      <4> SUFFICES ASSUME NEW i \in 1..(m + 1), NEW k \in 1..(m + 1), s[i] = s[k] PROVE i = k
        BY <3>1 DEF Once
      <4>1. CASE i = 1 \/ k = 1
        <5>1. \A j \in 1..(m + 1) : j # 1 => s[j] # o
          <6>1. SUFFICES ASSUME NEW j \in 1..(m + 1), j # 1 PROVE s[j] # o OBVIOUS
          <6>2. s[j] = l[j - 1] /\ j - 1 \in 1..m BY <3>2, <3>3, <6>1
          <6> QED BY <3>4, <6>2
        <5> QED BY <3>1, <4>1, <5>1
      <4>2. CASE i # 1 /\ k # 1
        <5>1. i - 1 = k - 1 BY <2>2, <3>2, <3>3, <4>2 DEF Once
        <5> QED BY <3>2, <4>2, <5>1
      <4> QED BY <4>1, <4>2
    <3>6. ASSUME NEW k \in 1..(m + 1) PROVE \E j \in 1..(n + 1) : args[j] \in Listeners /\ s[k] = args[j]
      <4>1. CASE k = 1
        <5>1. n + 1 \in 1..(n + 1) OBVIOUS
        <5> QED BY <2>7, <3>1, <4>1, <5>1
      <4>2. CASE k # 1
        <5>1. k - 1 \in 1..m BY <3>2, <4>2
        <5>2. PICK j \in 1..n : args[j] \in Listeners /\ l[k - 1] = args[j] BY <2>2, <5>1
        <5> QED BY <2>4, <3>3, <4>2, <5>2
      <4> QED BY <4>1, <4>2
    <3> QED BY <2>5, <3>1, <3>5, <3>6 DEF h, s
  <2> QED BY <2>5, <2>6, <2>7
<1>7. N \in S
  <2>1. Nat \subseteq S
    <3> HIDE DEF S
    <3> QED BY <1>5, <1>6, SetInduction
  <2> QED BY <1>0a, <2>1
<1>8. Given(N) BY <1>0a, <1>7
<1> QED BY <1>4, <1>8

-----------------------------------------------------------------------------
(***************************************************************************)
(* The start                                                               *)
(***************************************************************************)
\* The chain that the server starts with: its listeners, or its session too.
LEMMA StartSound ==
  ASSUME NEW b \in Block, Once(b.listeners), NEW inet \in Clients,
         NEW s, s = StartChain(b, inet)
  PROVE  /\ s \in Seq(Chan) /\ Distinct(s)
         /\ \A k \in 1..Len(s) : /\ s[k] = Channel(s[k].id)
                                 /\ s[k].id \in Clients => b.inetd /\ s[k].id = inet
<1> DEFINE l == b.listeners
           m == Len(l)
           t == [i \in DOMAIN l |-> Channel(l[i])]
<1>0. l \in Seq(Listeners) /\ m \in Nat /\ DOMAIN l = 1..m
      /\ \A i \in 1..m : l[i] \in Listeners
  BY LenProperties, ElementOfSeq DEF Block
<1>1. ASSUME NEW id \in Ids PROVE Channel(id) \in Chan /\ Channel(id).id = id
  BY DEF Channel, Chan
<1>2. Listeners \subseteq Ids /\ Listeners \cap Clients = {} /\ inet \in Ids
      /\ "tcp:@:9999" \in Ids /\ "tcp:@:9999" \notin Clients
  BY Names DEF Addresses, Ids
<1>3. /\ t \in Seq(Chan) /\ Len(t) = m
      /\ \A i \in 1..m : t[i] = Channel(t[i].id) /\ t[i].id = l[i] /\ t[i].id \notin Clients
  <2>1. t \in [1..m -> Chan] BY <1>0, <1>1, <1>2
  <2>2. \A i \in 1..m : t[i] = Channel(l[i]) /\ t[i].id = l[i] BY <1>0, <1>1, <1>2
  <2>3. \A i \in 1..m : t[i] = Channel(t[i].id) /\ t[i].id = l[i] /\ t[i].id \notin Clients
    BY <1>0, <1>2, <2>2
  <2> HIDE DEF t, m
  <2>4. t \in Seq(Chan) /\ Len(t) = m BY <1>0, <2>1
  <2> QED BY <2>3, <2>4
<1>3a. \A j, k \in 1..m : l[j] = l[k] => j = k
  BY DEF Once
<1> HIDE DEF t, m, l
<1>4. Distinct(t)
  BY <1>3, <1>3a DEF Distinct
<1>5. CASE b.inetd
  <2>1. s = <<Channel(inet)>> \o t BY <1>5 DEF StartChain, t, l
  <2>2. Channel(inet) \in Chan /\ Channel(inet).id = inet BY <1>1, <1>2
  <2>3. s \in Seq(Chan) /\ Len(s) = m + 1 /\ s[1] = Channel(inet) /\ \A k \in 1..m : s[k + 1] = t[k]
    BY <1>0, <1>3, <2>1, <2>2
  <2>4. \A k \in 1..(m + 1) : k = 1 \/ (k - 1 \in 1..m /\ (k - 1) + 1 = k) BY <1>0
  <2>5. \A k \in 1..(m + 1) : k # 1 => s[k] = t[k - 1] BY <2>3, <2>4
  <2>6. Distinct(s)
    <3> SUFFICES ASSUME NEW i \in 1..(m + 1), NEW k \in 1..(m + 1), s[i].id = s[k].id PROVE i = k
      BY <2>3 DEF Distinct
    <3>1. CASE i = 1 \/ k = 1 BY <1>3, <2>2, <2>3, <2>4, <2>5, <3>1
    <3>2. CASE i # 1 /\ k # 1
      <4>1. i - 1 = k - 1 BY <1>3, <1>4, <2>4, <2>5, <3>2 DEF Distinct
      <4> QED BY <2>4, <3>2, <4>1
    <3> QED BY <3>1, <3>2
  <2>7. ASSUME NEW k \in 1..(m + 1)
        PROVE  s[k] = Channel(s[k].id) /\ (s[k].id \in Clients => b.inetd /\ s[k].id = inet)
    BY <1>3, <1>5, <2>2, <2>3, <2>4, <2>5
  <2> QED BY <2>3, <2>6, <2>7
<1>6. CASE ~b.inetd /\ b.listeners = <<>>
  <2>1. s = <<Channel("tcp:@:9999")>> BY <1>6 DEF StartChain
  <2>2. Channel("tcp:@:9999") \in Chan /\ Channel("tcp:@:9999").id = "tcp:@:9999" BY <1>1, <1>2
  <2>3. s \in Seq(Chan) /\ Len(s) = 1 /\ s[1] = Channel("tcp:@:9999") BY <2>1, <2>2
  <2>4. \A k \in 1..1 : k = 1 OBVIOUS
  <2> QED BY <1>2, <2>2, <2>3, <2>4 DEF Distinct
<1>7. CASE ~b.inetd /\ b.listeners # <<>>
  <2>1. s = t BY <1>7 DEF StartChain, t, l
  <2> QED BY <1>3, <1>4, <2>1
<1> QED BY <1>5, <1>6, <1>7

LEMMA InitSound == Init => IInv
<1> SUFFICES ASSUME Init PROVE IInv
  OBVIOUS
<1>1. PICK args \in ArgLists, inet \in Clients :
        /\ cb = CheckOptions(args)
        /\ proc = [p \in Procs |-> IF p = Main THEN Loop(StartChain(cb, inet), 0, cb.oneShot) ELSE Absent]
        /\ backlog = [l \in {ch.id : ch \in Range(StartChain(cb, inet))} \ Clients |-> <<>>]
        /\ client = [c \in Clients |-> IF cb.inetd /\ c = inet THEN "open" ELSE "away"]
        /\ wants = {} /\ killed = FALSE /\ faults = 0
        /\ starts = IF cb.inetd THEN 1 ELSE 0
  BY DEF Init
<1> DEFINE s == StartChain(cb, inet)
           q == Loop(s, 0, cb.oneShot)
<1>2. cb \in Block /\ (cb.dynamic => ~cb.threads) /\ Once(cb.listeners)
  BY <1>1, OptionsSound
<1>3. /\ s \in Seq(Chan) /\ Distinct(s)
      /\ \A k \in 1..Len(s) : /\ s[k] = Channel(s[k].id)
                              /\ s[k].id \in Clients => cb.inetd /\ s[k].id = inet
  BY <1>2, StartSound
<1>4. DOMAIN s = 1..Len(s) /\ \A k \in 1..Len(s) : s[k] \in Chan
  BY <1>3, LenProperties, ElementOfSeq
<1> HIDE DEF s
<1>5. /\ q \in Process /\ q.chain = s /\ q.st = "run" /\ q.pc = "poll" /\ q.sessions = 0
      /\ q.oneShot = cb.oneShot
  <2>1. <<>> \in Seq(Fd) BY SeqClosed
  <2>2. cb.oneShot \in BOOLEAN BY <1>2 DEF Block
  <2> QED BY <1>3, <2>1, <2>2 DEF Loop, Process
<1>6. /\ Absent \in Process /\ Absent.chain = <<>> /\ Absent.st = "none" /\ Absent.pc = "poll"
  <2>1. <<>> \in Seq(Fd) /\ <<>> \in Seq(Chan) BY SeqClosed
  <2> QED BY <2>1 DEF Absent, Loop, Process
<1> HIDE DEF q
<1>7. proc = [p \in Procs |-> IF p = Main THEN q ELSE Absent]
  BY <1>1 DEF q, s
<1>7a. proc[Main] = q /\ \A c \in Clients : proc[c] = Absent
  BY <1>7, Names
<1>8. /\ DOMAIN backlog = {s[k].id : k \in 1..Len(s)} \ Clients
      /\ \A l \in DOMAIN backlog : backlog[l] = <<>>
  <2>1. {ch.id : ch \in Range(s)} = {s[k].id : k \in 1..Len(s)} BY <1>4 DEF Range
  <2> QED BY <1>1, <2>1 DEF s
<1>9. Typed
  <2>1. DOMAIN backlog \subseteq Addresses BY <1>4, <1>8 DEF Chan, Ids
  <2>2. backlog \in [DOMAIN backlog -> Seq(Clients)]
    <3>1. <<>> \in Seq(Clients) BY SeqClosed
    <3>2. backlog = [l \in DOMAIN backlog |-> backlog[l]] BY <1>1
    <3> QED BY <1>8, <3>1, <3>2
  <2>3. proc \in [Procs -> Process] BY <1>5, <1>6, <1>7
  <2>4. client \in [Clients -> ClientState] BY <1>1 DEF ClientState
  <2>5. faults \in 0..MaxFaults BY <1>1, GfsServerAssumption
  <2>6. wants \subseteq Clients /\ starts \in Nat BY <1>1
  <2> QED BY <1>2, <2>1, <2>2, <2>3, <2>4, <2>5, <2>6 DEF Typed
<1>9a. 1..0 = {} /\ Len(<<>>) = 0 OBVIOUS
<1>10. ChainsWalk
  <2> SUFFICES ASSUME NEW p \in Procs PROVE Distinct(proc[p].chain) /\ Walks(proc[p])
    BY DEF ChainsWalk
  <2>1. CASE p = Main BY <1>3, <1>5, <1>7a, <2>1 DEF Walks
  <2>2. CASE p # Main BY <1>6, <1>7, <1>9a, <2>2 DEF Walks, Distinct
  <2> QED BY <2>1, <2>2
<1>11. MainListens
  BY <1>3, <1>5, <1>7a, <1>8 DEF MainListens
<1>12. WorkersServe
  BY <1>6, <1>7a, <1>9a DEF WorkersServe, Running
<1>13. AcceptedOnly
  <2> SUFFICES ASSUME NEW p \in Procs, NEW k \in 1..Len(proc[p].chain), proc[p].chain[k].id \in Clients
               PROVE  client[proc[p].chain[k].id] \notin Unseen
    BY DEF AcceptedOnly
  <2>1. p = Main BY <1>6, <1>7, <1>9a
  <2>2. cb.inetd /\ proc[p].chain[k].id = inet BY <1>3, <1>5, <1>7a, <2>1
  <2> QED BY <1>1, <2>2 DEF Unseen
<1>14. QueuesWait
  BY <1>8, <1>9a DEF QueuesWait
<1>15. StartsCounted
  <2>1. CASE cb.inetd
    <3>1. Seen = {inet} BY <1>1, <2>1 DEF Seen, Unseen
    <3>2. Cardinality({inet}) = 1 BY FS_Singleton
    <3> QED BY <1>1, <2>1, <3>1, <3>2 DEF StartsCounted
  <2>2. CASE ~cb.inetd
    <3>1. Seen \subseteq Clients /\ IsFiniteSet(Clients) BY GfsServerAssumption DEF Seen
    <3>2. Cardinality(Seen) \in Nat BY <3>1, FS_Subset, FS_CardinalityType
    <3> QED BY <1>1, <2>2, <3>2 DEF StartsCounted
  <2> QED BY <2>1, <2>2
<1>16. LimitsKept
  <2>1. cb.max \in Nat BY <1>2 DEF Block
  <2> QED BY <1>1, <1>5, <1>7a, <2>1 DEF LimitsKept
<1>17. ListenersStay
  <2>1. \A l \in DOMAIN backlog : \E k \in 1..Len(s) : s[k] = Channel(l) BY <1>3, <1>8
  <2> QED BY <1>5, <1>7a, <2>1 DEF ListenersStay
<1>18. WorkersAccepted
  BY <1>6, <1>7a DEF WorkersAccepted, Running
<1> QED BY <1>9, <1>10, <1>11, <1>12, <1>13, <1>14, <1>15, <1>16, <1>17, <1>18 DEF IInv

-----------------------------------------------------------------------------
(***************************************************************************)
(* The steps of one event loop                                             *)
(***************************************************************************)
\* While a channel is looked at, it is the one of its descriptor.
LEMMA LooksAt ==
  ASSUME NEW q, Sound(q), q.pc = "dispatch", q.at # NULL
  PROVE  /\ q.i \in 1..Len(q.fds) /\ q.fds[q.i].id = q.at /\ q.at \in Ids
         /\ \E k \in 1..Len(q.chain) : q.chain[k].id = q.at /\ Place(q.chain, q.at) = k
<1>0. /\ q.chain \in Seq(Chan) /\ q.fds \in Seq(Fd) /\ Len(q.chain) \in Nat /\ Len(q.fds) \in Nat
      /\ q.at \in Ids \cup {NULL}
  BY LenProperties DEF Sound, Process
<1>1. q.i \in 1..Len(q.fds) /\ q.fds[q.i].id = q.at
  <2>1. q.i \in 1..(Len(q.fds) + 1) /\ q.i <= Len(q.fds) BY DEF Sound, Walks
  <2> QED BY <1>0, <2>1 DEF Sound, Walks
<1>2. (Len(q.chain) - Len(q.fds)) + q.i \in 1..Len(q.chain)
  <2>1. \A a, b \in Nat : \A d \in 1..b : b <= a => (a - b) + d \in 1..a OBVIOUS
  <2> QED BY <1>0, <1>1, <2>1 DEF Sound, Walks
<1>3. q.chain[(Len(q.chain) - Len(q.fds)) + q.i].id = q.at
  BY <1>1 DEF Sound, Walks
<1>4. Place(q.chain, q.at) = (Len(q.chain) - Len(q.fds)) + q.i
  BY <1>0, <1>2, <1>3, PlaceIs DEF Sound
<1> QED BY <1>0, <1>1, <1>2, <1>3, <1>4

\* The walk goes on after a handler that destroyed at most sessions.
LEMMA AdvanceDerived ==
  ASSUME NEW q, Sound(q), q.st = "run", q.pc = "dispatch", q.at # NULL,
         NEW r, Recast(r, q), r.sessions = q.sessions,
         \A j \in 1..Len(q.chain) : q.chain[j].id \notin Clients => r.chain[j] = q.chain[j]
  PROVE  Derived(Advance(r), q) /\ (ReadyAhead(q) => ReadyAhead(Advance(r)))
<1> DEFINE s == Advance(r)
<1>1. Sound(r) BY RecastSound
<1>2. r.st = "run" /\ r.pc = "dispatch" /\ r.at # NULL /\ r.fds = q.fds /\ r.i = q.i
      /\ r.oneShot = q.oneShot /\ Len(r.chain) = Len(q.chain)
  BY DEF Recast
<1>3. /\ Sound(s) /\ s.i = r.i + 1 /\ s.st = r.st /\ s.pc = r.pc /\ s.chain = r.chain
      /\ s.fds = r.fds /\ s.sessions = r.sessions /\ s.oneShot = r.oneShot
  BY <1>1, <1>2, AdvanceWalks
<1> HIDE DEF s
<1>4. Derived(s, q)
  <2>1. ASSUME NEW k \in 1..Len(s.chain)
        PROVE  \E j \in 1..Len(q.chain) :
                 s.chain[k].id = q.chain[j].id /\ (q.chain[j].dead => s.chain[k].dead)
    BY <1>2, <1>3 DEF Recast
  <2>2. ASSUME NEW j \in 1..Len(q.chain), q.chain[j].id \notin Clients
        PROVE  \E k \in 1..Len(s.chain) : s.chain[k] = q.chain[j]
    BY <1>2, <1>3, <2>2
  <2> QED BY <1>2, <1>3, <2>1, <2>2 DEF Derived
<1>5. ASSUME ReadyAhead(q) PROVE ReadyAhead(s)
  <2>1. q.i \in Nat /\ Len(q.fds) \in Nat BY LenProperties DEF Sound, Process
  <2>2. \A k \in (q.i + 1)..Len(q.fds) : k \in q.i..Len(q.fds) BY <2>1
  <2> QED BY <1>2, <1>3, <1>5, <2>2 DEF ReadyAhead
<1> QED BY <1>4, <1>5 DEF s

LEMMA MainReady ==
  ASSUME IInv PROVE ReadyAhead(proc[Main])
BY DEF IInv, MainListens, ReadyAhead

LEMMA PollSound ==
  ASSUME IInv, NEW p \in Procs, Poll(p)
  PROVE  IInv'
<1> DEFINE q == proc[p]
           n == Len(q.chain)
<1>0. /\ Sound(q) /\ q \in Process /\ n \in Nat /\ q.chain \in Seq(Chan) /\ DOMAIN q.chain = 1..n
      /\ \A k \in 1..n : q.chain[k] \in Chan
      /\ Running(p) /\ q.st = "run" /\ q.pc = "poll"
  BY SoundAlways, LenProperties, ElementOfSeq DEF Poll, Running, Process
<1>1. PICK idle \in SUBSET {q.chain[k].id : k \in DOMAIN q.chain} :
        /\ \A id \in idle : ~IsListener(id) /\ ~Ready(id)
        /\ idle # {} \/ \E k \in DOMAIN q.chain : Ready(q.chain[k].id)
        /\ proc' = [proc EXCEPT ![p] =
             [q EXCEPT !.pc = "dispatch", !.i = 1, !.at = q.chain[1].id,
                !.fds = [k \in DOMAIN q.chain |->
                           [id |-> q.chain[k].id,
                            event |-> IF Ready(q.chain[k].id) THEN "input"
                                      ELSE IF q.chain[k].id \in idle THEN "timeout" ELSE NULL]]]]
  BY DEF Poll
<1> DEFINE ev == [k \in DOMAIN q.chain |-> IF Ready(q.chain[k].id) THEN "input"
                                           ELSE IF q.chain[k].id \in idle THEN "timeout" ELSE NULL]
           fds == [k \in DOMAIN q.chain |-> [id |-> q.chain[k].id, event |-> ev[k]]]
           r == [q EXCEPT !.pc = "dispatch", !.i = 1, !.at = q.chain[1].id, !.fds = fds]
<1>2. proc' = [proc EXCEPT ![p] = r]
  BY <1>1
<1>3. \A k \in 1..n : ev[k] \in {"input", "timeout", NULL}
      /\ (q.chain[k].id \notin Clients /\ ev[k] # NULL => backlog[q.chain[k].id] # <<>>)
  BY <1>0, <1>1 DEF IsListener, Ready
<1> HIDE DEF ev
<1>4. fds \in Seq(Fd) /\ Len(fds) = n /\ \A k \in 1..n : fds[k].id = q.chain[k].id /\ fds[k].event = ev[k]
  <2>1. fds \in [1..n -> Fd] /\ \A k \in 1..n : fds[k].id = q.chain[k].id /\ fds[k].event = ev[k]
    BY <1>0, <1>3 DEF Fd, Chan
  <2> HIDE DEF fds, n
  <2> QED BY <1>0, <2>1
<1> HIDE DEF fds
<1>5. 1 \in 1..n /\ q.chain[1].id \in Ids
  <2>1. n # 0 BY <1>0, <1>1
  <2>2. \A a \in Nat : a # 0 => 1 \in 1..a OBVIOUS
  <2>3. 1 \in 1..n
    <3> HIDE DEF n
    <3> QED BY <1>0, <2>1, <2>2
  <2> QED BY <1>0, <2>3 DEF Chan
<1>6. /\ r \in Process /\ r.st = "run" /\ r.pc = "dispatch" /\ r.i = 1 /\ r.at = q.chain[1].id
      /\ r.fds = fds /\ r.chain = q.chain /\ r.sessions = q.sessions /\ r.oneShot = q.oneShot
  BY <1>0, <1>4, <1>5 DEF Process
<1> HIDE DEF r
<1>7. Walks(r)
  <2>1. n - n = 0 /\ n <= n /\ 1 \in 1..(n + 1) /\ 1 <= n /\ \A k \in 1..n : 0 + k = k
    <3>1. \A a \in Nat : 1 \in 1..a => a - a = 0 /\ a <= a /\ 1 \in 1..(a + 1) /\ 1 <= a /\ \A k \in 1..a : 0 + k = k
      OBVIOUS
    <3> HIDE DEF n
    <3> QED BY <1>0, <1>5, <3>1
  <2> QED BY <1>4, <1>5, <1>6, <2>1 DEF Walks
<1>8. Derived(r, q)
  BY <1>0, <1>6, <1>7 DEF Derived, Sound
<1>9. ReadyAhead(r)
  <2> SUFFICES ASSUME NEW k \in 1..n, fds[k].id \notin Clients, fds[k].event # NULL
               PROVE  backlog[fds[k].id] # <<>>
    BY <1>4, <1>6 DEF ReadyAhead
  <2> QED BY <1>3, <1>4
<1>10. /\ cb' = cb /\ backlog' = backlog /\ starts' = starts
       /\ client' \in [Clients -> ClientState] /\ wants' \subseteq Clients /\ faults' \in 0..MaxFaults
       /\ client' = client
  BY DEF Poll, IInv, Typed
<1> QED BY <1>0, <1>2, <1>8, <1>9, <1>10, LoopStep

LEMMA InterruptedSound ==
  ASSUME IInv, Interrupted
  PROVE  IInv'
<1> DEFINE q == proc[Main]
           r == [q EXCEPT !.pc = "over"]
<1>0. Main \in Procs /\ Sound(q) /\ q \in Process /\ Running(Main) /\ q.st = "run"
  BY SoundAlways, Names DEF Interrupted, Running
<1>1. proc' = [proc EXCEPT ![Main] = r]
  BY DEF Interrupted
<1>2. /\ r \in Process /\ r.st = "run" /\ r.pc = "over" /\ r.chain = q.chain
      /\ r.sessions = q.sessions /\ r.oneShot = q.oneShot
  BY <1>0 DEF Process
<1> HIDE DEF r
<1>3. Derived(r, q) /\ ReadyAhead(r)
  BY <1>0, <1>2 DEF Derived, Sound, Walks, ReadyAhead
<1>4. /\ cb' = cb /\ backlog' = backlog /\ starts' = starts
      /\ client' \in [Clients -> ClientState] /\ wants' \subseteq Clients /\ faults' \in 0..MaxFaults
      /\ client' = client
  BY DEF Interrupted, IInv, Typed
<1> QED BY <1>0, <1>1, <1>3, <1>4, LoopStep

LEMMA SweepSound ==
  ASSUME IInv, NEW p \in Procs, Sweep(p)
  PROVE  IInv'
<1> DEFINE q == proc[p]
           kept == Kept(q.chain)
           pc == IF kept = <<>> THEN "over" ELSE "poll"
           r == [q EXCEPT !.chain = kept, !.fds = <<>>, !.i = 0, !.pc = pc]
<1>0. Sound(q) /\ q \in Process /\ Running(p) /\ q.st = "run" /\ q.chain \in Seq(Chan) /\ Distinct(q.chain)
  BY SoundAlways DEF Sweep, Running, Sound, Process
<1>1. proc' = [proc EXCEPT ![p] = r]
  BY DEF Sweep
<1>2. /\ kept \in Seq(Chan) /\ Distinct(kept)
      /\ \A k \in 1..Len(kept) : \E j \in 1..Len(q.chain) : kept[k] = q.chain[j]
      /\ \A j \in 1..Len(q.chain) : ~q.chain[j].dead => \E k \in 1..Len(kept) : kept[k] = q.chain[j]
  BY <1>0, KeptLive
<1>3. pc \in {"over", "poll"}
  OBVIOUS
<1> HIDE DEF kept, pc
<1>4. /\ r \in Process /\ r.st = "run" /\ r.pc = pc /\ r.chain = kept
      /\ r.sessions = q.sessions /\ r.oneShot = q.oneShot
  <2>1. <<>> \in Seq(Fd) BY SeqClosed
  <2> QED BY <1>0, <1>2, <1>3, <2>1 DEF Process
<1> HIDE DEF r
<1>5. Derived(r, q) /\ ReadyAhead(r)
  <2>1. \A k \in 1..Len(r.chain) : \E j \in 1..Len(q.chain) :
          r.chain[k].id = q.chain[j].id /\ (q.chain[j].dead => r.chain[k].dead)
    BY <1>2, <1>4
  <2>2. \A j \in 1..Len(q.chain) : q.chain[j].id \notin Clients /\ ~q.chain[j].dead =>
          \E k \in 1..Len(r.chain) : r.chain[k] = q.chain[j]
    BY <1>2, <1>4
  <2> QED BY <1>2, <1>3, <1>4, <2>1, <2>2 DEF Derived, Sound, Walks, ReadyAhead
<1>6. /\ cb' = cb /\ backlog' = backlog /\ starts' = starts
      /\ client' \in [Clients -> ClientState] /\ wants' \subseteq Clients /\ faults' \in 0..MaxFaults
      /\ client' = client
  BY DEF Sweep, IInv, Typed
<1> QED BY <1>0, <1>1, <1>5, <1>6, LoopStep

LEMMA NoEventSound ==
  ASSUME IInv, NEW p \in Procs, NoEvent(p)
  PROVE  IInv'
<1> DEFINE q == proc[p]
<1>0. /\ Sound(q) /\ q \in Process /\ Running(p) /\ q.st = "run" /\ q.pc = "dispatch" /\ q.at # NULL
  BY SoundAlways DEF NoEvent, Dispatching, Running
<1>1. proc' = [proc EXCEPT ![p] = Advance(q)]
  BY DEF NoEvent
<1>2. Derived(Advance(q), q) /\ (ReadyAhead(q) => ReadyAhead(Advance(q)))
  <2>1. Recast(q, q) BY <1>0 DEF Recast
  <2> HIDE DEF q
  <2> QED BY <1>0, <2>1, AdvanceDerived
<1>3. /\ cb' = cb /\ backlog' = backlog /\ starts' = starts
      /\ client' \in [Clients -> ClientState] /\ wants' \subseteq Clients /\ faults' \in 0..MaxFaults
      /\ client' = client
  BY DEF NoEvent, IInv, Typed
<1> QED BY <1>0, <1>1, <1>2, <1>3, MainReady, LoopStep

LEMMA AcceptFailsSound ==
  ASSUME IInv, AcceptFails
  PROVE  IInv'
<1> DEFINE q == proc[Main]
<1>0. /\ Sound(q) /\ q \in Process /\ Running(Main) /\ q.st = "run" /\ q.pc = "dispatch" /\ q.at # NULL
      /\ Main \in Procs
  BY SoundAlways, Names DEF AcceptFails, Dispatching, Running
<1>1. proc' = [proc EXCEPT ![Main] = Advance(q)]
  BY DEF AcceptFails
<1>2. Derived(Advance(q), q) /\ ReadyAhead(Advance(q))
  <2>1. Recast(q, q) BY <1>0 DEF Recast
  <2>2. ReadyAhead(q) BY MainReady
  <2> HIDE DEF q
  <2> QED BY <1>0, <2>1, <2>2, AdvanceDerived
<1>3. /\ cb' = cb /\ backlog' = backlog /\ starts' = starts
      /\ client' \in [Clients -> ClientState] /\ wants' \subseteq Clients
      /\ client' = client
  BY DEF AcceptFails, IInv, Typed
<1>4. faults' \in 0..MaxFaults
  BY GfsServerAssumption DEF AcceptFails, IInv, Typed
<1> QED BY <1>0, <1>1, <1>2, <1>3, <1>4, LoopStep

LEMMA SessionEventSound ==
  ASSUME IInv, NEW p \in Procs, SessionEvent(p)
  PROVE  IInv'
<1> DEFINE q == proc[p]
           ends == client[q.at] = "left" \/ Event(q) = "timeout"
           r == IF ends THEN Destroy(q, q.at) ELSE q
<1>0. /\ Sound(q) /\ q \in Process /\ Running(p) /\ q.st = "run" /\ q.pc = "dispatch" /\ q.at # NULL
      /\ q.at \in Clients
  <2>1. /\ Sound(q) /\ q \in Process /\ Running(p) /\ q.st = "run" /\ q.pc = "dispatch" /\ q.at # NULL
    BY SoundAlways DEF SessionEvent, Dispatching, Running
  <2>2. q.at \in Clients BY DEF SessionEvent, IsListener
  <2> QED BY <2>1, <2>2
<1>1. /\ proc' = [proc EXCEPT ![p] = Advance(r)]
      /\ client' = [client EXCEPT ![q.at] = IF ends THEN "done" ELSE @]
      /\ wants' = wants \ {q.at}
  BY DEF SessionEvent
<1>2. /\ Recast(r, q) /\ r.sessions = q.sessions
      /\ \A j \in 1..Len(q.chain) : q.chain[j].id \notin Clients => r.chain[j] = q.chain[j]
  <2>1. Recast(q, q) BY <1>0 DEF Recast
  <2>2. /\ Recast(Destroy(q, q.at), q) /\ Destroy(q, q.at).sessions = q.sessions
        /\ \A k \in 1..Len(q.chain) : q.chain[k].id # q.at => Destroy(q, q.at).chain[k] = q.chain[k]
    BY <1>0, MarksOnly
  <2> QED BY <1>0, <2>1, <2>2
<1> HIDE DEF r, ends
<1>3. Derived(Advance(r), q) /\ (ReadyAhead(q) => ReadyAhead(Advance(r)))
  <2> HIDE DEF q
  <2> QED BY <1>0, <1>2, AdvanceDerived
<1>4. client[q.at] \notin Unseen
  <2>1. PICK k \in 1..Len(q.chain) : q.chain[k].id = q.at BY <1>0, LooksAt
  <2> QED BY <1>0, <2>1 DEF IInv, AcceptedOnly
<1>5. /\ cb' = cb /\ backlog' = backlog /\ starts' = starts /\ faults' \in 0..MaxFaults
  BY DEF SessionEvent, IInv, Typed
<1>6. client \in [Clients -> ClientState] /\ wants \subseteq Clients
  BY DEF IInv, Typed
<1>7. client' \in [Clients -> ClientState] /\ wants' \subseteq Clients
  BY <1>0, <1>1, <1>6 DEF ClientState
<1>8. \A c \in Clients : client'[c] = client[c] \/ (client[c] \notin Unseen /\ client'[c] \notin Unseen)
  BY <1>0, <1>1, <1>4, <1>6 DEF Unseen
<1> QED BY <1>0, <1>1, <1>3, <1>5, <1>7, <1>8, MainReady, LoopStep

-----------------------------------------------------------------------------
(***************************************************************************)
(* A connection is accepted                                                *)
(***************************************************************************)
\* What the main process is afterwards: q, past the listener, with one more
\* session, which it serves itself in static mode.
Accepts(m, q, c) ==
  /\ Sound(m) /\ m.st = "run" /\ m.pc = "dispatch" /\ m.fds = q.fds /\ m.i = q.i + 1
  /\ m.sessions = q.sessions + 1
  /\ q.oneShot => m.oneShot /\ Deaf(m)
  /\ \A k \in 1..Len(m.chain) : \/ m.chain[k].id = c /\ ~cb.dynamic /\ ~cb.threads
                                \/ \E j \in 1..Len(q.chain) : m.chain[k].id = q.chain[j].id
  /\ cb.max > 0 /\ ~cb.dynamic /\ ~cb.threads /\ m.sessions >= cb.max => m.oneShot
  /\ cb.threads /\ ~q.oneShot /\ cb.max = 0 =>
       ~m.oneShot /\ \A j \in 1..Len(q.chain) : \E k \in 1..Len(m.chain) : m.chain[k] = q.chain[j]

\* What the child or thread of client c is.
Worker(w, c) ==
  /\ Sound(w)
  /\ w.st = "run" => cb.dynamic \/ cb.threads
  /\ w.st = "run" /\ w.pc = "new" => cb.threads /\ w.parent \in DOMAIN backlog
  /\ \A k \in 1..Len(w.chain) : /\ ~w.chain[k].dead => w.chain[k].id = c
                                /\ w.chain[k].id \in Clients =>
                                     w.chain[k].id = c \/ client[w.chain[k].id] \notin Unseen

\* The main process looks at a listener that was found ready: somebody waits
\* there, whom nobody serves yet, and the server still listens.
LEMMA SomebodyWaits ==
  ASSUME IInv, NEW q, q = proc[Main], Dispatching(Main), IsListener(q.at), Event(q) # NULL
  PROVE  /\ Sound(q) /\ q \in Process /\ q.st = "run" /\ q.pc = "dispatch" /\ q.at # NULL
         /\ q.at \in DOMAIN backlog /\ q.at \notin Clients
         /\ backlog[q.at] \in Seq(Clients) /\ backlog[q.at] # <<>>
         /\ Head(backlog[q.at]) \in Clients /\ client[Head(backlog[q.at])] = "waits"
         /\ ~cb.inetd /\ ~Deaf(q)
         /\ \A p \in Procs : \A k \in 1..Len(proc[p].chain) :
              proc[p].chain[k].id # Head(backlog[q.at])
         /\ \A k \in (q.i + 1)..Len(q.fds) : q.fds[k].id # q.at
<1>0. /\ Sound(q) /\ q \in Process /\ q.st = "run" /\ q.pc = "dispatch" /\ q.at # NULL
      /\ Main \in Procs
  BY SoundAlways, Names DEF Dispatching, Running
<1>1. q.at \notin Clients
  BY DEF IsListener
<1>2. /\ q.i \in 1..Len(q.fds) /\ q.fds[q.i].id = q.at
  BY <1>0, LooksAt
<1>3. PICK k \in 1..Len(q.chain) : q.chain[k].id = q.at /\ Place(q.chain, q.at) = k
  BY <1>0, LooksAt
<1>4. ~q.chain[k].dead /\ q.fds[q.i].event # NULL
  BY <1>3 DEF Event
<1>5. q.at \in DOMAIN backlog
  BY <1>1, <1>3 DEF IInv, MainListens
<1>6. backlog[q.at] # <<>>
  <2>1. q.i \in q.i..Len(q.fds)
    <3>1. \A n \in Nat : \A i \in 1..n : i \in i..n OBVIOUS
    <3>2. Len(q.fds) \in Nat BY <1>0, LenProperties DEF Process
    <3> QED BY <1>2, <3>1, <3>2
  <2> QED BY <1>0, <1>1, <1>2, <1>4, <2>1 DEF IInv, MainListens
<1>7. backlog[q.at] \in Seq(Clients)
  BY <1>5 DEF IInv, Typed
<1>8. /\ Len(backlog[q.at]) \in Nat /\ 1 \in 1..Len(backlog[q.at])
      /\ Head(backlog[q.at]) = backlog[q.at][1] /\ Head(backlog[q.at]) \in Clients
  BY <1>6, <1>7
<1>9. client[Head(backlog[q.at])] = "waits"
  BY <1>5, <1>8 DEF IInv, QueuesWait
<1>10. ~cb.inetd
  BY <1>5, <1>6 DEF IInv, QueuesWait
<1>11. ~Deaf(q)
  BY <1>1, <1>3, <1>4 DEF Deaf
<1>12. ASSUME NEW p \in Procs, NEW j \in 1..Len(proc[p].chain)
       PROVE  proc[p].chain[j].id # Head(backlog[q.at])
  BY <1>8, <1>9 DEF IInv, AcceptedOnly, Unseen
<1>13. ASSUME NEW j \in (q.i + 1)..Len(q.fds) PROVE q.fds[j].id # q.at
  <2> DEFINE off == Len(q.chain) - Len(q.fds)
  <2>0. Len(q.chain) \in Nat /\ Len(q.fds) \in Nat /\ Len(q.fds) <= Len(q.chain)
    BY <1>0, LenProperties DEF Process, Sound, Walks
  <2>1. j \in 1..Len(q.fds) /\ j # q.i /\ off + j \in 1..Len(q.chain) /\ off + q.i \in 1..Len(q.chain)
        /\ off + j # off + q.i
    <3>1. \A a, b \in Nat : \A i \in 1..b : \A d \in (i + 1)..b : b <= a =>
            d \in 1..b /\ d # i /\ (a - b) + d \in 1..a /\ (a - b) + i \in 1..a /\ (a - b) + d # (a - b) + i
      OBVIOUS
    <3> QED BY <1>2, <2>0, <3>1
  <2>2. q.fds[j].id = q.chain[off + j].id /\ q.fds[q.i].id = q.chain[off + q.i].id
    BY <1>0, <1>2, <2>1 DEF Sound, Walks
  <2> HIDE DEF off
  <2>3. q.chain[off + j].id # q.chain[off + q.i].id
    <3>1. Distinct(q.chain) BY <1>0 DEF Sound
    <3> QED BY <2>1, <3>1 DEF Distinct
  <2> QED BY <1>2, <2>2, <2>3
<1> QED BY <1>0, <1>1, <1>5, <1>6, <1>7, <1>8, <1>9, <1>10, <1>11, <1>12, <1>13

\* The client at the head of the queue of listener l is taken from there, and
\* main process and worker become m and w.
Taken(l, c, v) ==
  /\ backlog' = [backlog EXCEPT ![l] = Tail(@)]
  /\ client' = [client EXCEPT ![c] = v]
  /\ starts' = starts + 1 /\ cb' = cb /\ wants' = wants

Become(c, m, w) ==
  /\ proc' \in [Procs -> Process]
  /\ \A x \in Procs : proc'[x] = IF x = Main THEN m ELSE IF x = c THEN w ELSE proc[x]

LEMMA AcceptStep ==
  ASSUME IInv, NEW q, q = proc[Main], Dispatching(Main), IsListener(q.at), Event(q) # NULL,
         NEW c, c = Head(backlog[q.at]),
         NEW v \in ClientState \ Unseen,
         NEW m, Accepts(m, q, c), NEW w, Worker(w, c),
         Become(c, m, w), Taken(q.at, c, v), faults' \in 0..MaxFaults
  PROVE  IInv'
<1> USE DEF Become, Taken
<1>0. /\ Sound(q) /\ q \in Process /\ q.st = "run" /\ q.pc = "dispatch" /\ q.at # NULL
      /\ q.at \in DOMAIN backlog /\ q.at \notin Clients
      /\ backlog[q.at] \in Seq(Clients) /\ backlog[q.at] # <<>>
      /\ c \in Clients /\ client[c] = "waits"
      /\ ~cb.inetd /\ ~Deaf(q)
      /\ \A p \in Procs : \A k \in 1..Len(proc[p].chain) : proc[p].chain[k].id # c
      /\ \A k \in (q.i + 1)..Len(q.fds) : q.fds[k].id # q.at
  BY SomebodyWaits
<1>0a. /\ proc'[Main] = m /\ proc'[c] = w /\ Main # c /\ Main \in Procs /\ c \in Procs
       /\ \A x \in Clients : proc'[x] = IF x = c THEN w ELSE proc[x]
  BY <1>0, Names
<1>0b. /\ DOMAIN backlog' = DOMAIN backlog
       /\ \A l \in DOMAIN backlog : backlog'[l] = IF l = q.at THEN Tail(backlog[l]) ELSE backlog[l]
       /\ backlog \in [DOMAIN backlog -> Seq(Clients)]
       /\ client \in [Clients -> ClientState]
       /\ \A x \in Clients : client'[x] = IF x = c THEN v ELSE client[x]
  BY <1>0 DEF IInv, Typed
<1>0c. starts \in Nat /\ cb.max \in Nat /\ q.sessions \in Nat
  BY <1>0 DEF IInv, Typed, Block, Process
<1>1. Typed'
  <2>1. \A l \in DOMAIN backlog : backlog'[l] \in Seq(Clients)
    <3>1. Tail(backlog[q.at]) \in Seq(Clients) BY <1>0, SeqClosed
    <3> QED BY <1>0b, <3>1
  <2>2. backlog' \in [DOMAIN backlog' -> Seq(Clients)]
    <3>1. backlog' = [l \in DOMAIN backlog |-> backlog'[l]] BY <1>0b
    <3> QED BY <1>0b, <2>1, <3>1
  <2>3. client' \in [Clients -> ClientState] BY <1>0b
  <2>4. starts' \in Nat BY <1>0c
  <2> QED BY <1>0b, <2>2, <2>3, <2>4 DEF IInv, Typed
<1>2. ChainsWalk'
  <2> SUFFICES ASSUME NEW x \in Procs PROVE Distinct(proc'[x].chain) /\ Walks(proc'[x])
    BY DEF ChainsWalk, Distinct, Walks
  <2>1. CASE x = Main BY <1>0a, <2>1 DEF Accepts, Sound
  <2>2. CASE x = c BY <1>0a, <2>2 DEF Worker, Sound
  <2>3. CASE x # Main /\ x # c BY <2>3 DEF IInv, ChainsWalk
  <2> QED BY <2>1, <2>2, <2>3
<1>3. MainListens'
  <2>1. ASSUME NEW k \in 1..Len(m.chain)
        PROVE  IF m.chain[k].id \in Clients THEN cb.inetd \/ ~(cb.dynamic \/ cb.threads)
               ELSE m.chain[k].id \in DOMAIN backlog
    <3>1. CASE m.chain[k].id = c /\ ~cb.dynamic /\ ~cb.threads BY <1>0, <3>1
    <3>2. CASE \E j \in 1..Len(q.chain) : m.chain[k].id = q.chain[j].id
      BY <3>2 DEF IInv, MainListens
    <3> QED BY <3>1, <3>2 DEF Accepts
  <2>2. ASSUME NEW k \in (q.i + 1)..Len(q.fds), q.fds[k].id \notin Clients, q.fds[k].event # NULL
        PROVE  backlog'[q.fds[k].id] # <<>>
    <3>1. q.i \in Nat /\ Len(q.fds) \in Nat BY <1>0, LenProperties DEF Process
    <3>2. k \in q.i..Len(q.fds) BY <3>1
    <3>3. backlog[q.fds[k].id] # <<>> BY <1>0, <2>2, <3>2 DEF IInv, MainListens
    <3>4. q.fds[k].id # q.at BY <1>0
    <3>5. backlog'[q.fds[k].id] = backlog[q.fds[k].id] BY <1>0, <3>4
    <3> QED BY <3>3, <3>5
  <2>3. m.st = "run" /\ m.pc = "dispatch" /\ m.fds = q.fds /\ m.i = q.i + 1 BY DEF Accepts
  <2> QED BY <1>0a, <1>0b, <2>1, <2>2, <2>3 DEF MainListens
<1>4. WorkersServe'
  <2> SUFFICES ASSUME NEW x \in Clients
               PROVE  /\ proc'[x].st = "run" => (cb.dynamic \/ cb.threads) /\ ~cb.inetd
                      /\ \A k \in 1..Len(proc'[x].chain) :
                           ~proc'[x].chain[k].dead => proc'[x].chain[k].id = x
                      /\ proc'[x].st = "run" /\ proc'[x].pc = "new" =>
                           cb.threads /\ proc'[x].parent \in DOMAIN backlog
    BY <1>0b DEF WorkersServe, Running
  <2>1. CASE x = c BY <1>0, <1>0a, <2>1 DEF Worker
  <2>2. CASE x # c BY <1>0a, <2>2 DEF IInv, WorkersServe, Running
  <2> QED BY <2>1, <2>2
<1>5. AcceptedOnly'
  <2> SUFFICES ASSUME NEW x \in Procs, NEW k \in 1..Len(proc'[x].chain),
                      proc'[x].chain[k].id \in Clients
               PROVE  client'[proc'[x].chain[k].id] \notin Unseen
    BY DEF AcceptedOnly
  <2>0. SUFFICES ASSUME proc'[x].chain[k].id # c
                 PROVE  client[proc'[x].chain[k].id] \notin Unseen
    BY <1>0b
  <2>1. CASE x = Main
    <3>1. PICK j \in 1..Len(q.chain) : proc'[x].chain[k].id = q.chain[j].id
      BY <1>0a, <2>0, <2>1 DEF Accepts
    <3> QED BY <1>0a, <3>1 DEF IInv, AcceptedOnly
  <2>2. CASE x = c BY <1>0a, <2>0, <2>2 DEF Worker
  <2>3. CASE x # Main /\ x # c BY <2>3 DEF IInv, AcceptedOnly
  <2> QED BY <2>1, <2>2, <2>3
<1>6. QueuesWait'
  <2> DEFINE b == backlog[q.at]
  <2>1. /\ Len(b) \in Nat /\ Len(Tail(b)) = Len(b) - 1 /\ b[1] = c /\ 1 \in 1..Len(b)
        /\ \A k \in 1..Len(Tail(b)) : Tail(b)[k] = b[k + 1] /\ k + 1 \in 1..Len(b) /\ k + 1 # 1
    BY <1>0
  <2> DEFINE At(l, k) == IF l = q.at THEN k + 1 ELSE k
  <2>2. ASSUME NEW l \in DOMAIN backlog, NEW k \in 1..Len(backlog'[l])
        PROVE  /\ At(l, k) \in 1..Len(backlog[l]) /\ backlog'[l][k] = backlog[l][At(l, k)]
               /\ l = q.at => At(l, k) # 1
    BY <1>0b, <2>1
  <2> HIDE DEF At
  <2>3. ASSUME NEW l \in DOMAIN backlog, NEW k \in 1..Len(backlog'[l])
        PROVE  client'[backlog'[l][k]] = "waits"
    <3>1. /\ At(l, k) \in 1..Len(backlog[l]) /\ backlog'[l][k] = backlog[l][At(l, k)]
          /\ l = q.at => At(l, k) # 1
      BY <2>2
    <3>2. backlog[l] \in Seq(Clients) BY <1>0b
    <3>3. backlog[l][At(l, k)] \in Clients BY <3>1, <3>2, ElementOfSeq
    <3>4. backlog[l][At(l, k)] # c
      <4>1. ASSUME backlog[l][At(l, k)] = b[1] PROVE l = q.at /\ At(l, k) = 1
        BY <1>0, <2>1, <3>1, <4>1 DEF IInv, QueuesWait
      <4> QED BY <2>1, <3>1, <4>1
    <3>5. client[backlog[l][At(l, k)]] = "waits" BY <3>1 DEF IInv, QueuesWait
    <3> QED BY <1>0b, <3>1, <3>3, <3>4, <3>5
  <2>4. ASSUME NEW l \in DOMAIN backlog, NEW n \in DOMAIN backlog,
               NEW j \in 1..Len(backlog'[l]), NEW k \in 1..Len(backlog'[n]),
               backlog'[l][j] = backlog'[n][k]
        PROVE  l = n /\ j = k
    <3>1. /\ At(l, j) \in 1..Len(backlog[l]) /\ backlog'[l][j] = backlog[l][At(l, j)]
          /\ At(n, k) \in 1..Len(backlog[n]) /\ backlog'[n][k] = backlog[n][At(n, k)]
      BY <2>2
    <3>2. l = n /\ At(l, j) = At(n, k) BY <2>4, <3>1 DEF IInv, QueuesWait
    <3>3. \A a, d \in Int : a + 1 = d + 1 => a = d OBVIOUS
    <3>4. j \in Int /\ k \in Int OBVIOUS
    <3> QED BY <3>2, <3>3, <3>4 DEF At
  <2>5. ~cb'.inetd /\ DOMAIN backlog' = DOMAIN backlog BY <1>0, <1>0b
  <2> HIDE DEF Taken, Become
  <2> QED BY <2>3, <2>4, <2>5 DEF QueuesWait
<1>7. StartsCounted'
  <2>1. Seen' = Seen \cup {c} /\ c \notin Seen BY <1>0, <1>0b DEF Seen, Unseen
  <2>2. IsFiniteSet(Seen)
    <3>1. Seen \subseteq Clients /\ IsFiniteSet(Clients) BY GfsServerAssumption DEF Seen
    <3> QED BY <3>1, FS_Subset
  <2>3. Cardinality(Seen) \in Nat BY <2>2, FS_CardinalityType
  <2>4. Cardinality(Seen \cup {c}) = Cardinality(Seen) + 1 BY <2>1, <2>2, FS_AddElement
  <2>5. starts <= Cardinality(Seen) BY DEF IInv, StartsCounted
  <2> QED BY <1>0c, <2>1, <2>3, <2>4, <2>5 DEF StartsCounted
<1>8. LimitsKept'
  <2>1. /\ q.sessions = starts
        /\ cb.oneShot => q.oneShot /\ starts = 0
        /\ cb.max > 0 /\ ~cb.dynamic /\ ~cb.threads => starts <= cb.max /\ (starts >= cb.max => q.oneShot)
    <3>1. /\ q.sessions = starts
          /\ cb.oneShot => q.oneShot /\ starts <= 1 /\ starts # 1
          /\ cb.max > 0 /\ ~cb.dynamic /\ ~cb.threads => ~(starts > cb.max) /\ (starts >= cb.max => q.oneShot)
      BY <1>0 DEF IInv, LimitsKept
    <3> QED BY <1>0c, <3>1
  <2>2. /\ m.st = "run" /\ m.sessions = starts + 1 /\ (q.oneShot => m.oneShot /\ Deaf(m))
        /\ cb.max > 0 /\ ~cb.dynamic /\ ~cb.threads /\ starts + 1 >= cb.max => m.oneShot
    BY <2>1 DEF Accepts
  <2>3. ASSUME cb.oneShot PROVE starts + 1 <= 1 /\ Deaf(m) /\ m.oneShot
    BY <2>1, <2>2, <2>3
  <2>4. ASSUME cb.max > 0, ~cb.dynamic, ~cb.threads
        PROVE  /\ starts + 1 <= cb.max + 1
               /\ starts + 1 >= cb.max => m.oneShot
               /\ starts + 1 > cb.max => Deaf(m)
    <3>1. starts <= cb.max /\ (starts >= cb.max => q.oneShot) BY <2>1, <2>4
    <3>2. starts + 1 <= cb.max + 1 /\ (starts + 1 > cb.max => starts >= cb.max) BY <1>0c, <3>1
    <3> QED BY <2>2, <2>4, <3>1, <3>2
  <2>5. Deaf(proc[Main])' = Deaf(m) BY <1>0a DEF Deaf
  <2> QED BY <1>0a, <2>2, <2>3, <2>4, <2>5 DEF LimitsKept
<1>9. ListenersStay'
  <2> SUFFICES ASSUME cb.threads, ~cb.oneShot, cb.max = 0
               PROVE  /\ ~m.oneShot
                      /\ \A l \in DOMAIN backlog : \E k \in 1..Len(m.chain) : m.chain[k] = Channel(l)
    BY <1>0a, <1>0b DEF ListenersStay, Channel
  <2>1. /\ ~q.oneShot
        /\ \A l \in DOMAIN backlog : \E k \in 1..Len(q.chain) : q.chain[k] = Channel(l)
    BY <1>0 DEF IInv, ListenersStay
  <2>2. ~m.oneShot /\ \A j \in 1..Len(q.chain) : \E k \in 1..Len(m.chain) : m.chain[k] = q.chain[j]
    BY <2>1 DEF Accepts
  <2>3. ASSUME NEW l \in DOMAIN backlog PROVE \E k \in 1..Len(m.chain) : m.chain[k] = Channel(l)
    <3>1. PICK j \in 1..Len(q.chain) : q.chain[j] = Channel(l) BY <2>1
    <3>2. PICK k \in 1..Len(m.chain) : m.chain[k] = q.chain[j] BY <2>2
    <3> QED BY <3>1, <3>2
  <2> QED BY <2>2, <2>3
<1>10. WorkersAccepted'
  <2> SUFFICES ASSUME NEW x \in Clients, proc'[x].st = "run" PROVE client'[x] \notin Unseen
    BY DEF WorkersAccepted, Running
  <2>1. CASE x = c BY <1>0b, <2>1
  <2>2. CASE x # c BY <1>0a, <1>0b, <2>2 DEF IInv, WorkersAccepted, Running
  <2> QED BY <2>1, <2>2
<1> QED BY <1>1, <1>2, <1>3, <1>4, <1>5, <1>6, <1>7, <1>8, <1>9, <1>10 DEF IInv

\* The parent of a child or a thread goes on with its own channels.
LEMMA ParentAccepts ==
  ASSUME NEW q, Sound(q), q.st = "run", q.pc = "dispatch", q.at # NULL, NEW c \in Clients,
         cb \in Block, cb.dynamic \/ cb.threads,
         NEW r, Recast(r, q), r.sessions = q.sessions + 1,
         q.oneShot => \A k \in 1..Len(q.chain) : r.chain[k].dead,
         cb.threads /\ ~q.oneShot => r.chain = q.chain
  PROVE  Accepts(Advance(r), q, c)
<1> DEFINE m == Advance(r)
<1>1. Sound(r) /\ r.st = "run" /\ r.pc = "dispatch" /\ r.at # NULL /\ r.fds = q.fds /\ r.i = q.i
      /\ r.oneShot = q.oneShot /\ Len(r.chain) = Len(q.chain)
  BY RecastSound DEF Recast
<1>2. /\ Sound(m) /\ m.i = r.i + 1 /\ m.st = r.st /\ m.pc = r.pc /\ m.chain = r.chain
      /\ m.fds = r.fds /\ m.sessions = r.sessions /\ m.oneShot = r.oneShot
  BY <1>1, AdvanceWalks
<1> HIDE DEF m
<1>3. q.oneShot => Deaf(m)
  BY <1>1, <1>2 DEF Deaf
<1>4. \A k \in 1..Len(m.chain) : \E j \in 1..Len(q.chain) : m.chain[k].id = q.chain[j].id
  BY <1>1, <1>2 DEF Recast
<1>5. cb.threads /\ ~q.oneShot => \A j \in 1..Len(q.chain) : \E k \in 1..Len(m.chain) : m.chain[k] = q.chain[j]
  BY <1>1, <1>2
<1>6. Accepts(m, q, c)
  BY <1>1, <1>2, <1>3, <1>4, <1>5 DEF Accepts
<1> QED BY <1>6 DEF m

\* A child or thread that there is goes on as it was.
LEMMA OldWorker ==
  ASSUME IInv, NEW c \in Clients
  PROVE  Worker(proc[c], c)
<1>1. Sound(proc[c]) /\ c \in Procs BY Names, SoundAlways
<1>2. ASSUME NEW k \in 1..Len(proc[c].chain)
      PROVE  /\ ~proc[c].chain[k].dead => proc[c].chain[k].id = c
             /\ proc[c].chain[k].id \in Clients => client[proc[c].chain[k].id] \notin Unseen
  BY <1>1 DEF IInv, WorkersServe, AcceptedOnly
<1>3. /\ proc[c].st = "run" => cb.dynamic \/ cb.threads
      /\ proc[c].st = "run" /\ proc[c].pc = "new" => cb.threads /\ proc[c].parent \in DOMAIN backlog
  BY DEF IInv, WorkersServe, Running
<1> QED BY <1>1, <1>2, <1>3 DEF Worker

\* The child of a fork serves the client that was accepted.
LEMMA ChildServes ==
  ASSUME IInv, NEW q, q = proc[Main], q.st = "run", q.pc = "dispatch", q.at # NULL,
         NEW c \in Clients, \A k \in 1..Len(q.chain) : q.chain[k].id # c,
         NEW r, Recast(r, q), cb.dynamic
  PROVE  Worker(ChildLoop(r, c), c)
<1> DEFINE s == RemoveListeners(r)
           t == NewSession(s, c)
           w == Advance(t)
<1>0. Main \in Procs /\ Sound(q) /\ q \in Process /\ cb \in Block
  BY Names, SoundAlways DEF IInv, Typed
<1>1. Sound(r) /\ r \in Process
  BY <1>0, RecastSound DEF Recast
<1>2. Recast(s, r) /\ \A k \in 1..Len(r.chain) : s.chain[k].dead
  BY <1>1, MarksOnly
<1>3. Sound(s)
  BY <1>1, <1>2, RecastSound
<1> HIDE DEF s
<1>4. /\ Len(s.chain) = Len(q.chain) /\ \A k \in 1..Len(q.chain) : s.chain[k].id = q.chain[k].id
      /\ s.st = "run" /\ s.pc = "dispatch" /\ s.at # NULL
  BY <1>2 DEF Recast
<1>5. /\ Sound(t) /\ t.st = s.st /\ t.pc = s.pc /\ t.at = s.at
      /\ Len(t.chain) = Len(s.chain) + 1 /\ t.chain[1] = Channel(c)
      /\ \A k \in 1..Len(s.chain) : t.chain[k + 1] = s.chain[k]
  <2>1. \A k \in 1..Len(s.chain) : s.chain[k].id # c BY <1>4
  <2>2. cb \in Block BY <1>0
  <2> QED BY <1>3, <2>1, <2>2, NewSessionSound
<1> HIDE DEF t
<1>6. Sound(w) /\ w.st = "run" /\ w.pc = "dispatch" /\ w.chain = t.chain
  BY <1>4, <1>5, AdvanceWalks
<1> HIDE DEF w
<1>7. ASSUME NEW k \in 1..Len(w.chain)
      PROVE  /\ ~w.chain[k].dead => w.chain[k].id = c
             /\ w.chain[k].id \in Clients => w.chain[k].id = c \/ client[w.chain[k].id] \notin Unseen
  <2>0. Len(s.chain) \in Nat BY <1>3, LenProperties DEF Sound, Process
  <2>1. CASE k = 1 BY <1>5, <1>6, <2>1 DEF Channel
  <2>2. CASE k # 1
    <3>1. k - 1 \in 1..Len(s.chain) /\ (k - 1) + 1 = k
      <4>1. \A a \in Nat : \A j \in 1..(a + 1) : j # 1 => j - 1 \in 1..a /\ (j - 1) + 1 = j OBVIOUS
      <4> QED BY <1>5, <1>6, <2>0, <2>2, <4>1
    <3>2. w.chain[k] = s.chain[k - 1] BY <1>5, <1>6, <3>1
    <3>3. w.chain[k].dead /\ w.chain[k].id = q.chain[k - 1].id /\ k - 1 \in 1..Len(q.chain)
      BY <1>2, <1>4, <3>1, <3>2 DEF Recast
    <3> QED BY <1>0, <3>3 DEF IInv, AcceptedOnly
  <2> QED BY <2>1, <2>2
<1>8. Worker(w, c)
  BY <1>6, <1>7 DEF Worker
<1> QED BY <1>8 DEF ChildLoop, w, t, s

\* In static mode the main process serves the client itself.
LEMMA StaticAccepts ==
  ASSUME NEW q, Sound(q), q.st = "run", q.pc = "dispatch", q.at # NULL, NEW c \in Clients,
         \A k \in 1..Len(q.chain) : q.chain[k].id # c,
         cb \in Block, ~cb.dynamic, ~cb.threads,
         NEW r, Recast(r, q), r.sessions = q.sessions + 1,
         q.oneShot => \A k \in 1..Len(q.chain) : r.chain[k].dead
  PROVE  Accepts(Advance(NewSession(r, c)), q, c)
<1> DEFINE s == NewSession(r, c)
           m == Advance(s)
<1>1. Sound(r) /\ r.st = "run" /\ r.pc = "dispatch" /\ r.at # NULL /\ r.fds = q.fds /\ r.i = q.i
      /\ r.oneShot = q.oneShot /\ Len(r.chain) = Len(q.chain)
      /\ \A k \in 1..Len(r.chain) : r.chain[k].id # c
  BY RecastSound DEF Recast
<1>2. /\ Sound(s) /\ s.oneShot = (r.oneShot \/ (cb.max > 0 /\ r.sessions >= cb.max))
      /\ s.st = r.st /\ s.pc = r.pc /\ s.fds = r.fds /\ s.i = r.i /\ s.at = r.at
      /\ s.sessions = r.sessions
      /\ Len(s.chain) = Len(r.chain) + 1 /\ s.chain[1] = Channel(c)
      /\ \A k \in 1..Len(r.chain) : s.chain[k + 1] = r.chain[k]
  BY <1>1, NewSessionSound
<1> HIDE DEF s
<1>3. /\ Sound(m) /\ m.i = s.i + 1 /\ m.st = s.st /\ m.pc = s.pc /\ m.chain = s.chain
      /\ m.fds = s.fds /\ m.sessions = s.sessions /\ m.oneShot = s.oneShot
  BY <1>1, <1>2, AdvanceWalks
<1> HIDE DEF m
<1>4. ASSUME NEW k \in 1..Len(m.chain)
      PROVE  \/ m.chain[k].id = c
             \/ k - 1 \in 1..Len(q.chain) /\ m.chain[k] = r.chain[k - 1]
  <2>0. Len(q.chain) \in Nat BY LenProperties DEF Sound, Process
  <2>1. CASE k = 1 BY <1>2, <1>3, <2>1 DEF Channel
  <2>2. CASE k # 1
    <3>1. \A a \in Nat : \A j \in 1..(a + 1) : j # 1 => j - 1 \in 1..a /\ (j - 1) + 1 = j OBVIOUS
    <3>2. k - 1 \in 1..Len(q.chain) /\ (k - 1) + 1 = k BY <1>1, <1>2, <1>3, <2>0, <2>2, <3>1
    <3> QED BY <1>1, <1>2, <1>3, <3>2
  <2> QED BY <2>1, <2>2
<1>5. ASSUME q.oneShot PROVE Deaf(m)
  <2> SUFFICES ASSUME NEW k \in 1..Len(m.chain), m.chain[k].id \notin Clients PROVE m.chain[k].dead
    BY DEF Deaf
  <2>1. k - 1 \in 1..Len(q.chain) /\ m.chain[k] = r.chain[k - 1] BY <1>4
  <2> QED BY <1>5, <2>1
<1>6. ASSUME NEW k \in 1..Len(m.chain)
      PROVE  m.chain[k].id = c \/ \E j \in 1..Len(q.chain) : m.chain[k].id = q.chain[j].id
  BY <1>4 DEF Recast
<1>7. Accepts(m, q, c)
  BY <1>1, <1>2, <1>3, <1>5, <1>6 DEF Accepts
<1> QED BY <1>7 DEF m, s

LEMMA AcceptSound ==
  ASSUME IInv, Accept
  PROVE  IInv'
<1> DEFINE q == proc[Main]
           c == Head(backlog[q.at])
           r == Accepted(q)
<1>0. Dispatching(Main) /\ IsListener(q.at) /\ Event(q) # NULL
  BY DEF Accept
<1>1. /\ Sound(q) /\ q \in Process /\ q.st = "run" /\ q.pc = "dispatch" /\ q.at # NULL
      /\ q.at \in DOMAIN backlog /\ c \in Clients
      /\ \A p \in Procs : \A k \in 1..Len(proc[p].chain) : proc[p].chain[k].id # c
  BY <1>0, SomebodyWaits
<1>1a. Main \in Procs /\ c \in Procs /\ c # Main /\ cb \in Block /\ (cb.dynamic => ~cb.threads)
       /\ proc \in [Procs -> Process]
  BY <1>1, Names DEF IInv, Typed
<1>1b. \A k \in 1..Len(q.chain) : q.chain[k].id # c
  BY <1>1, <1>1a
<1>2. /\ Recast(r, q) /\ r.sessions = q.sessions + 1
      /\ q.oneShot => \A k \in 1..Len(q.chain) : r.chain[k].dead
      /\ ~q.oneShot => r.chain = q.chain
  BY <1>1, AcceptedMarks
<1>3. /\ backlog' = [backlog EXCEPT ![q.at] = Tail(@)]
      /\ client' = [client EXCEPT ![c] = "open"]
      /\ starts' = starts + 1 /\ cb' = cb /\ wants' = wants /\ faults' \in 0..MaxFaults
  BY DEF Accept, IInv, Typed
<1>4. proc' = IF cb.dynamic
              THEN [proc EXCEPT ![Main] = AfterFork(r, c), ![c] = ChildLoop(r, c)]
              ELSE IF cb.threads
              THEN [proc EXCEPT ![Main] = Advance(r),
                                ![c] = [Absent EXCEPT !.st = "run", !.pc = "new", !.parent = q.at]]
              ELSE [proc EXCEPT ![Main] = Advance(NewSession(r, c))]
  BY DEF Accept
<1>5. "open" \in ClientState \ Unseen
  BY DEF ClientState, Unseen
<1>6. ASSUME NEW m, Accepts(m, q, c), NEW w, Worker(w, c),
             \A x \in Procs : proc'[x] = IF x = Main THEN m ELSE IF x = c THEN w ELSE proc[x],
             DOMAIN proc' = Procs, proc' = [x \in Procs |-> proc'[x]]
      PROVE  IInv'
  <2>1. m \in Process /\ w \in Process BY <1>6 DEF Accepts, Worker, Sound
  <2>2. proc' \in [Procs -> Process] BY <1>1a, <1>6, <2>1
  <2>3. q = proc[Main] /\ c = Head(backlog[q.at]) OBVIOUS
  <2> HIDE DEF q, c
  <2>4. Become(c, m, w) /\ Taken(q.at, c, "open") /\ faults' \in 0..MaxFaults
    BY <1>3, <1>6, <2>2 DEF Become, Taken
  <2> QED BY <1>0, <1>5, <1>6, <2>3, <2>4, AcceptStep
<1> HIDE DEF r
<1>7. CASE cb.dynamic
  <2> DEFINE m == Advance(r)
             w == ChildLoop(r, c)
  <2>1. Accepts(m, q, c)
    <3> HIDE DEF q, c
    <3> QED BY <1>1, <1>1a, <1>2, <1>7, ParentAccepts
  <2>2. Worker(w, c)
    BY <1>1, <1>1b, <1>2, <1>7, ChildServes
  <2>3. proc' = [proc EXCEPT ![Main] = m, ![c] = w] BY <1>4, <1>7 DEF AfterFork
  <2> HIDE DEF m, w, c
  <2>4. /\ \A x \in Procs : proc'[x] = IF x = Main THEN m ELSE IF x = c THEN w ELSE proc[x]
        /\ DOMAIN proc' = Procs /\ proc' = [x \in Procs |-> proc'[x]]
    BY <1>1a, <2>3
  <2> QED BY <1>6, <2>1, <2>2, <2>4
<1>8. CASE ~cb.dynamic /\ cb.threads
  <2> DEFINE m == Advance(r)
             w == [Absent EXCEPT !.st = "run", !.pc = "new", !.parent = q.at]
  <2>1. Accepts(m, q, c)
    <3> HIDE DEF q, c
    <3> QED BY <1>1, <1>1a, <1>2, <1>8, ParentAccepts
  <2>2. Worker(w, c)
    <3>1. <<>> \in Seq(Fd) /\ <<>> \in Seq(Chan) /\ Len(<<>>) = 0 /\ 1..0 = {} BY SeqClosed
    <3>2. q.at \in Ids BY <1>1, LooksAt
    <3>3. w \in Process /\ w.chain = <<>> /\ w.pc = "new" /\ w.parent = q.at
      BY <3>1, <3>2 DEF Absent, Loop, Process
    <3> HIDE DEF w
    <3> QED BY <1>1, <1>8, <3>1, <3>3 DEF Worker, Sound, Distinct, Walks
  <2>3. proc' = [proc EXCEPT ![Main] = m, ![c] = w] BY <1>4, <1>8
  <2> HIDE DEF m, w, c
  <2>4. /\ \A x \in Procs : proc'[x] = IF x = Main THEN m ELSE IF x = c THEN w ELSE proc[x]
        /\ DOMAIN proc' = Procs /\ proc' = [x \in Procs |-> proc'[x]]
    BY <1>1a, <2>3
  <2> QED BY <1>6, <2>1, <2>2, <2>4
<1>9. CASE ~cb.dynamic /\ ~cb.threads
  <2> DEFINE m == Advance(NewSession(r, c))
  <2>1. Accepts(m, q, c)
    <3> HIDE DEF q, c
    <3> QED BY <1>1, <1>1a, <1>1b, <1>2, <1>9, StaticAccepts
  <2>2. Worker(proc[c], c) BY <1>1, OldWorker
  <2>3. proc' = [proc EXCEPT ![Main] = m] BY <1>4, <1>9
  <2> HIDE DEF m, c
  <2>4. /\ \A x \in Procs : proc'[x] = IF x = Main THEN m ELSE IF x = c THEN proc[c] ELSE proc[x]
        /\ DOMAIN proc' = Procs /\ proc' = [x \in Procs |-> proc'[x]]
    BY <1>1a, <2>3
  <2> QED BY <1>6, <2>1, <2>2, <2>4
<1> QED BY <1>7, <1>8, <1>9

LEMMA ForkFailsSound ==
  ASSUME IInv, ForkFails
  PROVE  IInv'
<1> DEFINE q == proc[Main]
           c == Head(backlog[q.at])
           r == Accepted(q)
           s == Destroy(r, q.at)
           m == Advance(s)
<1>0. Dispatching(Main) /\ IsListener(q.at) /\ Event(q) # NULL /\ cb.dynamic
  BY DEF ForkFails
<1>1. /\ Sound(q) /\ q \in Process /\ q.st = "run" /\ q.pc = "dispatch" /\ q.at # NULL
      /\ q.at \in DOMAIN backlog /\ c \in Clients
  BY <1>0, SomebodyWaits
<1>1a. Main \in Procs /\ c \in Procs /\ c # Main /\ cb \in Block /\ (cb.dynamic => ~cb.threads)
       /\ proc \in [Procs -> Process]
  BY <1>1, Names DEF IInv, Typed
<1>2. /\ Recast(r, q) /\ r.sessions = q.sessions + 1
      /\ q.oneShot => \A k \in 1..Len(q.chain) : r.chain[k].dead
  BY <1>1, AcceptedMarks
<1> HIDE DEF r
<1>3. Recast(s, r) /\ s.sessions = r.sessions
  <2>1. r \in Process BY <1>2 DEF Recast
  <2> QED BY <2>1, MarksOnly
<1> HIDE DEF s
<1>4. /\ Recast(s, q) /\ s.sessions = q.sessions + 1
      /\ q.oneShot => \A k \in 1..Len(q.chain) : s.chain[k].dead
  BY <1>2, <1>3 DEF Recast
<1>5. Accepts(m, q, c)
  <2> HIDE DEF q, c
  <2> QED BY <1>0, <1>1, <1>1a, <1>4, ParentAccepts
<1>6. Worker(proc[c], c) BY <1>1, OldWorker
<1>7. proc' = [proc EXCEPT ![Main] = m]
  BY DEF ForkFails, r, s
<1> HIDE DEF m
<1>8. /\ backlog' = [backlog EXCEPT ![q.at] = Tail(@)]
      /\ client' = [client EXCEPT ![c] = "stuck"]
      /\ starts' = starts + 1 /\ cb' = cb /\ wants' = wants
  BY DEF ForkFails
<1>9. faults' \in 0..MaxFaults
  BY GfsServerAssumption DEF ForkFails, IInv, Typed
<1>10. "stuck" \in ClientState \ Unseen
  BY DEF ClientState, Unseen
<1>11. m \in Process BY <1>5 DEF Accepts, Sound
<1>12. /\ proc' \in [Procs -> Process]
       /\ \A x \in Procs : proc'[x] = IF x = Main THEN m ELSE IF x = c THEN proc[c] ELSE proc[x]
  <2> HIDE DEF c
  <2> QED BY <1>1a, <1>7, <1>11
<1>13. q = proc[Main] /\ c = Head(backlog[q.at])
  OBVIOUS
<1> HIDE DEF q, c
<1>14. Become(c, m, proc[c]) /\ Taken(q.at, c, "stuck")
  BY <1>8, <1>12 DEF Become, Taken
<1> QED BY <1>0, <1>5, <1>6, <1>9, <1>10, <1>13, <1>14, AcceptStep

-----------------------------------------------------------------------------
(***************************************************************************)
(* Workers start and end, and clients come and go                          *)
(***************************************************************************)
\* A worker as it was, or one that ended or began to serve its client.
WorkerNext(w, c) ==
  \/ w = proc[c]
  \/ /\ Sound(w) /\ w.pc # "new" /\ (w.st = "run" => Running(c))
     /\ \A k \in 1..Len(w.chain) : w.chain[k].id = c /\ Running(c)

\* The main process as it was, but that -A may make it one-shot.
MainNext(m) ==
  /\ m.st = proc[Main].st /\ m.pc = proc[Main].pc /\ m.chain = proc[Main].chain
  /\ m.fds = proc[Main].fds /\ m.i = proc[Main].i /\ m.at = proc[Main].at
  /\ m.sessions = proc[Main].sessions
  /\ proc[Main].oneShot => m.oneShot
  /\ m.oneShot => proc[Main].oneShot \/ (cb.threads /\ cb.max > 0)

LEMMA WorkersStep ==
  ASSUME IInv, proc' \in [Procs -> Process], MainNext(proc'[Main]),
         \A c \in Clients : WorkerNext(proc'[c], c),
         UNCHANGED <<cb, backlog, client, wants, faults, starts>>
  PROVE  IInv'
<1> DEFINE q == proc[Main]
           m == proc'[Main]
<1>0. /\ m.st = q.st /\ m.pc = q.pc /\ m.chain = q.chain /\ m.fds = q.fds /\ m.i = q.i /\ m.at = q.at
      /\ m.sessions = q.sessions /\ (q.oneShot => m.oneShot)
      /\ m.oneShot => q.oneShot \/ (cb.threads /\ cb.max > 0)
  BY DEF MainNext
<1>0a. Main \in Procs /\ \A x \in Procs : x = Main \/ x \in Clients
  BY Names
<1>1. Typed'
  BY DEF IInv, Typed
<1>2. ChainsWalk'
  <2> SUFFICES ASSUME NEW x \in Procs PROVE Distinct(proc'[x].chain) /\ Walks(proc'[x])
    BY DEF ChainsWalk, Distinct, Walks
  <2>1. CASE x = Main
    <3>1. Distinct(q.chain) /\ Walks(q) BY <1>0a DEF IInv, ChainsWalk
    <3> HIDE DEF q, m
    <3>2. Walks(m)
      <4>1. m.pc = q.pc /\ m.chain = q.chain /\ m.fds = q.fds /\ m.i = q.i /\ m.at = q.at BY <1>0
      <4> QED BY <3>1, <4>1 DEF Walks
    <3>3. Distinct(m.chain) BY <1>0, <3>1
    <3> QED BY <2>1, <3>2, <3>3 DEF m
  <2>2. CASE x \in Clients BY <2>2 DEF IInv, ChainsWalk, WorkerNext, Sound
  <2> QED BY <1>0a, <2>1, <2>2
<1>3. MainListens'
  <2>1. MainListens BY DEF IInv
  <2> QED BY <1>0, <2>1 DEF MainListens
<1>4. WorkersServe'
  <2> SUFFICES ASSUME NEW x \in Clients
               PROVE  /\ proc'[x].st = "run" => (cb.dynamic \/ cb.threads) /\ ~cb.inetd
                      /\ \A k \in 1..Len(proc'[x].chain) :
                           ~proc'[x].chain[k].dead => proc'[x].chain[k].id = x
                      /\ proc'[x].st = "run" /\ proc'[x].pc = "new" =>
                           cb.threads /\ proc'[x].parent \in DOMAIN backlog
    BY DEF WorkersServe, Running
  <2>1. CASE proc'[x] = proc[x] BY <2>1 DEF IInv, WorkersServe, Running
  <2>2. CASE proc'[x] # proc[x] BY <2>2 DEF WorkerNext, IInv, WorkersServe
  <2> QED BY <2>1, <2>2
<1>5. AcceptedOnly'
  <2> SUFFICES ASSUME NEW x \in Procs, NEW k \in 1..Len(proc'[x].chain),
                      proc'[x].chain[k].id \in Clients
               PROVE  client[proc'[x].chain[k].id] \notin Unseen
    BY DEF AcceptedOnly
  <2>1. CASE x = Main BY <1>0, <2>1 DEF IInv, AcceptedOnly
  <2>2. CASE x \in Clients /\ proc'[x] = proc[x] BY <2>2 DEF IInv, AcceptedOnly
  <2>3. CASE x \in Clients /\ proc'[x] # proc[x]
    <3>1. proc'[x].chain[k].id = x /\ Running(x) BY <2>3 DEF WorkerNext
    <3> QED BY <2>3, <3>1 DEF IInv, WorkersAccepted
  <2> QED BY <1>0a, <2>1, <2>2, <2>3
<1>6. WorkersAccepted'
  <2> SUFFICES ASSUME NEW x \in Clients, proc'[x].st = "run" PROVE client[x] \notin Unseen
    BY DEF WorkersAccepted, Running
  <2>1. Running(x) BY DEF WorkerNext, Running
  <2> QED BY <2>1 DEF IInv, WorkersAccepted
<1>7. QueuesWait' /\ StartsCounted'
  BY DEF IInv, QueuesWait, StartsCounted, Seen
<1>8. LimitsKept'
  <2>1. LimitsKept BY DEF IInv
  <2>2. Deaf(proc[Main])' = Deaf(proc[Main]) BY <1>0 DEF Deaf
  <2> QED BY <1>0, <2>1, <2>2 DEF LimitsKept
<1>9. ListenersStay'
  <2>1. ListenersStay BY DEF IInv
  <2>2. cb.max = 0 => ~(cb.max > 0) OBVIOUS
  <2> QED BY <1>0, <2>1, <2>2 DEF ListenersStay, Channel
<1> QED BY <1>1, <1>2, <1>3, <1>4, <1>5, <1>6, <1>7, <1>8, <1>9 DEF IInv

\* A process that is no more.
LEMMA GoneIs ==
  ASSUME NEW st \in {"zombie", "gone"}
  PROVE  LET w == [Absent EXCEPT !.st = st]
         IN Sound(w) /\ w.pc = "poll" /\ w.st = st /\ w.chain = <<>> /\ Len(w.chain) = 0
<1> DEFINE w == [Absent EXCEPT !.st = st]
<1>1. <<>> \in Seq(Fd) /\ <<>> \in Seq(Chan) /\ Len(<<>>) = 0 /\ 1..0 = {} BY SeqClosed
<1>2. w \in Process /\ w.chain = <<>> /\ w.pc = "poll" /\ w.st = st
  BY <1>1 DEF Absent, Loop, Process
<1> HIDE DEF w
<1>3. Sound(w) BY <1>1, <1>2 DEF Sound, Distinct, Walks
<1> QED BY <1>1, <1>2, <1>3 DEF w

LEMMA ThreadStartsSound ==
  ASSUME IInv, NEW c \in Clients, ThreadStarts(c)
  PROVE  IInv'
<1> DEFINE one == proc[Main].oneShot \/ (cb.max > 0 /\ proc[Main].sessions >= cb.max)
           w == Loop(<<Channel(c)>>, 0, FALSE)
           m == [proc[Main] EXCEPT !.oneShot = one]
<1>0. /\ Main \in Procs /\ c \in Procs /\ c # Main /\ proc \in [Procs -> Process] /\ cb \in Block
      /\ proc[Main] \in Process /\ Running(c) /\ cb.threads
  <2>1. Running(c) /\ proc[c].pc = "new" BY DEF ThreadStarts
  <2> QED BY <2>1, Names DEF IInv, Typed, WorkersServe
<1>1. proc' = [proc EXCEPT ![c] = w, ![Main] = m]
  <2>1. proc' = [proc EXCEPT ![c] = w,
                             ![Main].oneShot = @ \/ (cb.max > 0 /\ proc[Main].sessions >= cb.max)]
    BY DEF ThreadStarts
  <2> HIDE DEF w
  <2> QED BY <1>0, <2>1
<1>2. one \in BOOLEAN
  BY <1>0 DEF Process, Block
<1>3. one => proc[Main].oneShot \/ cb.max > 0
  OBVIOUS
<1>4. proc[Main].oneShot => one
  OBVIOUS
<1> HIDE DEF one
<1>5. /\ m \in Process /\ m.oneShot = one /\ m.st = proc[Main].st /\ m.pc = proc[Main].pc
      /\ m.chain = proc[Main].chain /\ m.fds = proc[Main].fds /\ m.i = proc[Main].i
      /\ m.at = proc[Main].at /\ m.sessions = proc[Main].sessions
  BY <1>0, <1>2 DEF Process
<1> HIDE DEF m
<1>6. /\ w \in Process /\ w.st = "run" /\ w.pc = "poll" /\ w.chain = <<Channel(c)>>
  <2>1. Channel(c) \in Chan BY Names DEF Channel, Chan
  <2>2. <<Channel(c)>> \in Seq(Chan) /\ <<>> \in Seq(Fd) BY <2>1, SeqClosed
  <2> QED BY <2>2 DEF Loop, Process
<1> HIDE DEF w
<1>7. /\ proc' \in [Procs -> Process] /\ proc'[Main] = m
      /\ \A x \in Clients : proc'[x] = IF x = c THEN w ELSE proc[x]
  BY <1>0, <1>1, <1>5, <1>6, Names
<1>8. MainNext(proc'[Main])
  BY <1>0, <1>3, <1>4, <1>5, <1>7 DEF MainNext
<1>9. WorkerNext(w, c)
  <2>1. Len(w.chain) = 1 /\ w.chain[1] = Channel(c) /\ \A k \in 1..1 : k = 1 BY <1>6
  <2>2. Sound(w) BY <1>6, <2>1 DEF Sound, Distinct, Walks
  <2> QED BY <1>0, <1>6, <2>1, <2>2 DEF WorkerNext, Channel
<1>10. \A x \in Clients : WorkerNext(proc'[x], x)
  BY <1>7, <1>9 DEF WorkerNext
<1>11. UNCHANGED <<cb, backlog, client, wants, faults, starts>>
  BY DEF ThreadStarts
<1> QED BY <1>7, <1>8, <1>10, <1>11, WorkersStep

LEMMA LoopEndsSound ==
  ASSUME IInv, NEW c \in Clients, LoopEnds(c)
  PROVE  IInv'
<1> DEFINE st == IF cb.dynamic /\ Running(Main) THEN "zombie" ELSE "gone"
           w == [Absent EXCEPT !.st = st]
<1>0. Main \in Procs /\ c \in Procs /\ c # Main /\ proc \in [Procs -> Process]
  BY Names DEF IInv, Typed
<1>1. proc' = [proc EXCEPT ![c] = w]
  BY DEF LoopEnds
<1>2. st \in {"zombie", "gone"}
  OBVIOUS
<1> HIDE DEF st
<1>3. Sound(w) /\ w.pc = "poll" /\ w.st = st /\ Len(w.chain) = 0
  BY <1>2, GoneIs
<1> HIDE DEF w
<1>4. WorkerNext(w, c)
  <2>1. 1..0 = {} OBVIOUS
  <2> QED BY <1>2, <1>3, <2>1 DEF WorkerNext
<1>5. w \in Process BY <1>3 DEF Sound
<1>6. /\ proc' \in [Procs -> Process] /\ proc'[Main] = proc[Main]
      /\ \A x \in Clients : proc'[x] = IF x = c THEN w ELSE proc[x]
  BY <1>0, <1>1, <1>5, Names
<1>7. MainNext(proc'[Main])
  BY <1>6 DEF MainNext
<1>8. \A x \in Clients : WorkerNext(proc'[x], x)
  BY <1>4, <1>6 DEF WorkerNext
<1>9. UNCHANGED <<cb, backlog, client, wants, faults, starts>>
  BY DEF LoopEnds
<1> QED BY <1>6, <1>7, <1>8, <1>9, WorkersStep

LEMMA CatchChldSound ==
  ASSUME IInv, CatchChld
  PROVE  IInv'
<1> DEFINE zombies == {c \in Clients : proc[c].st = "zombie"}
           w == [Absent EXCEPT !.st = "gone"]
<1>0. Main \in Procs /\ Main \notin Clients /\ Clients \subseteq Procs /\ proc \in [Procs -> Process]
  BY Names DEF IInv, Typed
<1>1. proc' = [c \in Procs |-> IF c \in zombies THEN w ELSE proc[c]]
  BY DEF CatchChld, Reaped
<1>3. Sound(w) /\ w.pc = "poll" /\ w.st = "gone" /\ Len(w.chain) = 0
  BY GoneIs
<1> HIDE DEF w
<1>4. \A c \in Clients : WorkerNext(w, c)
  <2>1. 1..0 = {} OBVIOUS
  <2> QED BY <1>3, <2>1 DEF WorkerNext
<1>5. w \in Process BY <1>3 DEF Sound
<1>6. /\ proc' \in [Procs -> Process] /\ proc'[Main] = proc[Main]
      /\ \A x \in Clients : proc'[x] = w \/ proc'[x] = proc[x]
  BY <1>0, <1>1, <1>5
<1>7. MainNext(proc'[Main])
  BY <1>6 DEF MainNext
<1>8. \A x \in Clients : WorkerNext(proc'[x], x)
  BY <1>4, <1>6 DEF WorkerNext
<1>9. UNCHANGED <<cb, backlog, client, wants, faults, starts>>
  BY DEF CatchChld
<1> QED BY <1>6, <1>7, <1>8, <1>9, WorkersStep

LEMMA ServerExitSound ==
  ASSUME IInv, ServerExit
  PROVE  IInv'
<1> DEFINE ends(c) == client[c] # "away" /\ ~(cb.dynamic /\ Running(c))
           w == [Absent EXCEPT !.st = "gone"]
           stops(p) == p = Main \/ ~cb.dynamic \/ proc[p].st = "zombie"
<1>0. /\ Main \in Procs /\ Main \notin Clients /\ Clients \subseteq Procs
      /\ proc \in [Procs -> Process] /\ \A x \in Procs : x = Main \/ x \in Clients
      /\ client \in [Clients -> ClientState] /\ wants \subseteq Clients
  BY Names DEF IInv, Typed
<1>1. /\ client' = [c \in Clients |-> IF ends(c) THEN "done" ELSE client[c]]
      /\ wants' = {c \in wants : ~ends(c)}
      /\ proc' = [p \in Procs |-> IF stops(p) THEN w ELSE proc[p]]
      /\ backlog' = [l \in DOMAIN backlog |-> <<>>]
      /\ cb' = cb /\ faults' = faults /\ starts' = starts
  BY DEF ServerExit
<1>2. Sound(w) /\ w.pc = "poll" /\ w.st = "gone" /\ Len(w.chain) = 0 /\ 1..0 = {} /\ Len(<<>>) = 0
  BY GoneIs
<1> HIDE DEF w
<1>3. /\ proc'[Main] = w /\ \A x \in Clients : proc'[x] = w \/ proc'[x] = proc[x]
      /\ proc' \in [Procs -> Process]
  BY <1>0, <1>1, <1>2 DEF Sound
<1>4. /\ \A x \in Clients : client'[x] = client[x] \/ client'[x] = "done"
      /\ client' \in [Clients -> ClientState]
  BY <1>0, <1>1 DEF ClientState
<1>4a. \A x \in Clients : client[x] \notin Unseen => client'[x] \notin Unseen
  BY <1>4 DEF Unseen
<1>5. /\ DOMAIN backlog' = DOMAIN backlog /\ \A l \in DOMAIN backlog : backlog'[l] = <<>>
      /\ wants' \subseteq Clients
  BY <1>0, <1>1
<1>6. Typed'
  <2>1. <<>> \in Seq(Clients) BY SeqClosed
  <2>2. backlog' \in [DOMAIN backlog' -> Seq(Clients)] BY <1>1, <1>5, <2>1
  <2> QED BY <1>1, <1>3, <1>4, <1>5, <2>2 DEF IInv, Typed
<1>7. ChainsWalk'
  <2> SUFFICES ASSUME NEW x \in Procs PROVE Distinct(proc'[x].chain) /\ Walks(proc'[x])
    BY DEF ChainsWalk, Distinct, Walks
  <2> QED BY <1>0, <1>2, <1>3 DEF IInv, ChainsWalk, Sound
<1>8. MainListens'
  BY <1>2, <1>3 DEF MainListens
<1>9. WorkersServe'
  <2> SUFFICES ASSUME NEW x \in Clients
               PROVE  /\ proc'[x].st = "run" => (cb.dynamic \/ cb.threads) /\ ~cb.inetd
                      /\ \A k \in 1..Len(proc'[x].chain) :
                           ~proc'[x].chain[k].dead => proc'[x].chain[k].id = x
                      /\ proc'[x].st = "run" /\ proc'[x].pc = "new" =>
                           cb.threads /\ proc'[x].parent \in DOMAIN backlog
    BY <1>1, <1>5 DEF WorkersServe, Running
  <2>1. CASE proc'[x] = w BY <1>2, <2>1
  <2>2. CASE proc'[x] = proc[x] BY <2>2 DEF IInv, WorkersServe, Running
  <2> QED BY <1>3, <2>1, <2>2
<1>10. AcceptedOnly'
  <2> SUFFICES ASSUME NEW x \in Procs, NEW k \in 1..Len(proc'[x].chain),
                      proc'[x].chain[k].id \in Clients
               PROVE  client'[proc'[x].chain[k].id] \notin Unseen
    BY DEF AcceptedOnly
  <2>1. proc'[x] = proc[x] BY <1>0, <1>2, <1>3
  <2> QED BY <1>4a, <2>1 DEF IInv, AcceptedOnly
<1>11. WorkersAccepted'
  <2> SUFFICES ASSUME NEW x \in Clients, proc'[x].st = "run" PROVE client'[x] \notin Unseen
    BY DEF WorkersAccepted, Running
  <2>1. Running(x) BY <1>2, <1>3 DEF Running
  <2> QED BY <1>4a, <2>1 DEF IInv, WorkersAccepted
<1>12. QueuesWait'
  BY <1>2, <1>5 DEF QueuesWait
<1>13. StartsCounted'
  <2>1. Seen \subseteq Seen' BY <1>4a DEF Seen
  <2>2. Seen' \subseteq Clients /\ IsFiniteSet(Clients) BY GfsServerAssumption DEF Seen
  <2>3. IsFiniteSet(Seen') BY <2>2, FS_Subset
  <2>4. IsFiniteSet(Seen) /\ Cardinality(Seen) <= Cardinality(Seen') BY <2>1, <2>3, FS_Subset
  <2>5. Cardinality(Seen) \in Nat /\ Cardinality(Seen') \in Nat BY <2>3, <2>4, FS_CardinalityType
  <2>6. starts \in Nat /\ starts <= Cardinality(Seen) BY DEF IInv, Typed, StartsCounted
  <2>7. starts <= Cardinality(Seen') BY <2>4, <2>5, <2>6
  <2> QED BY <1>1, <2>7 DEF StartsCounted
<1>14. LimitsKept'
  <2>1. LimitsKept BY DEF IInv
  <2>2. proc'[Main].st # "run" BY <1>2, <1>3
  <2> QED BY <1>1, <2>1, <2>2 DEF LimitsKept
<1>15. ListenersStay'
  BY <1>2, <1>3 DEF ListenersStay
<1> QED BY <1>6, <1>7, <1>8, <1>9, <1>10, <1>11, <1>12, <1>13, <1>14, <1>15 DEF IInv

LEMMA ConnectSound ==
  ASSUME IInv, NEW c \in Clients, NEW l \in Addresses, Connect(c, l)
  PROVE  IInv'
<1>0. /\ client[c] = "away" /\ l \in DOMAIN backlog /\ ~cb.inetd
      /\ backlog' = [backlog EXCEPT ![l] = Append(@, c)]
      /\ client' = [client EXCEPT ![c] = "waits"]
      /\ cb' = cb /\ proc' = proc /\ wants' = wants /\ faults' = faults /\ starts' = starts
  BY DEF Connect
<1>1. /\ client \in [Clients -> ClientState] /\ backlog \in [DOMAIN backlog -> Seq(Clients)]
  BY DEF IInv, Typed
<1>2. /\ DOMAIN backlog' = DOMAIN backlog
      /\ \A k \in DOMAIN backlog : backlog'[k] = IF k = l THEN Append(backlog[l], c) ELSE backlog[k]
      /\ \A x \in Clients : client'[x] = IF x = c THEN "waits" ELSE client[x]
      /\ backlog' = [k \in DOMAIN backlog |-> backlog'[k]]
  BY <1>0, <1>1
<1> DEFINE n == Len(backlog[l])
<1>3. /\ Append(backlog[l], c) \in Seq(Clients) /\ n \in Nat /\ Len(Append(backlog[l], c)) = n + 1
      /\ Append(backlog[l], c)[n + 1] = c
      /\ \A k \in 1..n : Append(backlog[l], c)[k] = backlog[l][k]
      /\ Append(backlog[l], c) # <<>>
  <2>1. backlog[l] \in Seq(Clients) BY <1>0, <1>1
  <2> QED BY <2>1
<1>4. Typed'
  <2>1. client' \in [Clients -> ClientState] BY <1>0, <1>1 DEF ClientState
  <2>2. backlog' \in [DOMAIN backlog' -> Seq(Clients)]
    <3>1. \A k \in DOMAIN backlog : backlog'[k] \in Seq(Clients) BY <1>1, <1>2, <1>3
    <3> QED BY <1>2, <3>1
  <2> QED BY <1>0, <1>2, <2>1, <2>2 DEF IInv, Typed
<1>5. \A x \in Clients : client[x] \notin Unseen => client'[x] \notin Unseen
  BY <1>0, <1>2 DEF Unseen
<1>6. ChainsWalk' /\ WorkersServe'
  BY <1>0, <1>2 DEF IInv, ChainsWalk, WorkersServe, Running
<1>7. MainListens'
  <2>1. MainListens BY DEF IInv
  <2>2. \A k : backlog[k] # <<>> /\ k \in DOMAIN backlog => backlog'[k] # <<>> BY <1>2, <1>3
  <2>3. ASSUME proc[Main].pc = "dispatch", NEW k \in proc[Main].i..Len(proc[Main].fds),
               proc[Main].fds[k].id \notin Clients, proc[Main].fds[k].event # NULL
        PROVE  backlog'[proc[Main].fds[k].id] # <<>>
    <3> DEFINE q == proc[Main]
    <3>0. Main \in Procs /\ Sound(q) BY Names, SoundAlways
    <3>1. Len(q.chain) \in Nat /\ Len(q.fds) \in Nat /\ q.i \in 1..(Len(q.fds) + 1) /\ Len(q.fds) <= Len(q.chain)
      BY <2>3, <3>0, LenProperties DEF Sound, Process, Walks
    <3>2. k \in 1..Len(q.fds) /\ (Len(q.chain) - Len(q.fds)) + k \in 1..Len(q.chain)
      <4>1. \A a, b \in Nat : \A i \in 1..(b + 1) : \A d \in i..b : b <= a =>
              d \in 1..b /\ (a - b) + d \in 1..a
        OBVIOUS
      <4> QED BY <3>1, <4>1
    <3>3. q.fds[k].id = q.chain[(Len(q.chain) - Len(q.fds)) + k].id
      BY <2>3, <3>0, <3>2 DEF Sound, Walks
    <3>4. q.fds[k].id \in DOMAIN backlog BY <2>1, <2>3, <3>2, <3>3 DEF MainListens
    <3>5. backlog[q.fds[k].id] # <<>> BY <2>1, <2>3 DEF MainListens
    <3> QED BY <2>2, <3>4, <3>5
  <2> QED BY <1>0, <1>2, <2>1, <2>3 DEF MainListens
<1>8. AcceptedOnly' /\ WorkersAccepted'
  BY <1>0, <1>5 DEF IInv, AcceptedOnly, WorkersAccepted, Running
<1>9. QueuesWait'
  <2>1. ASSUME NEW k \in DOMAIN backlog, NEW j \in 1..Len(backlog[k])
        PROVE  client[backlog[k][j]] = "waits" /\ backlog[k][j] # c /\ backlog[k][j] \in Clients
    <3>1. client[backlog[k][j]] = "waits" BY DEF IInv, QueuesWait
    <3>2. backlog[k] \in Seq(Clients) BY <1>1
    <3> QED BY <1>0, <3>1, <3>2, ElementOfSeq
  <2>2. ASSUME NEW k \in DOMAIN backlog, NEW j \in 1..Len(backlog'[k])
        PROVE  \/ j \in 1..Len(backlog[k]) /\ backlog'[k][j] = backlog[k][j]
               \/ k = l /\ j = n + 1 /\ backlog'[k][j] = c
    <3>1. CASE k = l
      <4>1. j \in 1..(n + 1) BY <1>2, <1>3, <3>1
      <4>2. j \in 1..n \/ j = n + 1
        <5>1. \A a \in Nat : \A i \in 1..(a + 1) : i \in 1..a \/ i = a + 1 OBVIOUS
        <5> QED BY <1>3, <4>1, <5>1
      <4> QED BY <1>2, <1>3, <3>1, <4>2
    <3>2. CASE k # l BY <1>2, <3>2
    <3> QED BY <3>1, <3>2
  <2>3. ASSUME NEW k \in DOMAIN backlog, NEW j \in 1..Len(backlog'[k])
        PROVE  client'[backlog'[k][j]] = "waits"
    BY <1>2, <2>1, <2>2
  <2>4. ASSUME NEW k \in DOMAIN backlog, NEW h \in DOMAIN backlog,
               NEW i \in 1..Len(backlog'[k]), NEW j \in 1..Len(backlog'[h]),
               backlog'[k][i] = backlog'[h][j]
        PROVE  k = h /\ i = j
    <3>1. CASE i \in 1..Len(backlog[k]) /\ backlog'[k][i] = backlog[k][i]
               /\ j \in 1..Len(backlog[h]) /\ backlog'[h][j] = backlog[h][j]
      <4>1. backlog[k][i] = backlog[h][j] BY <2>4, <3>1
      <4>2. \A x, y \in DOMAIN backlog : \A a \in 1..Len(backlog[x]), b \in 1..Len(backlog[y]) :
              backlog[x][a] = backlog[y][b] => x = y /\ a = b
        BY DEF IInv, QueuesWait
      <4> QED BY <3>1, <4>1, <4>2
    <3>2. CASE backlog'[k][i] = c
      <4>1. k = l /\ i = n + 1 BY <2>1, <2>2, <3>2
      <4>2. h = l /\ j = n + 1 BY <2>1, <2>2, <2>4, <3>2
      <4> QED BY <4>1, <4>2
    <3> QED BY <2>2, <2>4, <3>1, <3>2
  <2> QED BY <1>0, <1>2, <2>3, <2>4 DEF QueuesWait
<1>10. StartsCounted'
  <2>1. Seen' = Seen BY <1>0, <1>2 DEF Seen, Unseen
  <2> QED BY <1>0, <2>1 DEF IInv, StartsCounted
<1>11. LimitsKept' /\ ListenersStay'
  BY <1>0, <1>2 DEF IInv, LimitsKept, ListenersStay, Deaf, Channel
<1> QED BY <1>4, <1>6, <1>7, <1>8, <1>9, <1>10, <1>11 DEF IInv

\* Input that arrives, a client that leaves, a signal.
LEMMA OutsideSound ==
  ASSUME IInv, UNCHANGED <<cb, proc, backlog, faults, starts>>,
         client' \in [Clients -> ClientState], wants' \subseteq Clients,
         \A c \in Clients : client'[c] = client[c] \/ (client[c] \notin Unseen /\ client'[c] \notin Unseen)
  PROVE  IInv'
<1>1. Typed'
  BY DEF IInv, Typed
<1>2. ChainsWalk' /\ MainListens' /\ WorkersServe'
  BY DEF IInv, ChainsWalk, MainListens, WorkersServe, Running
<1>3. AcceptedOnly' /\ WorkersAccepted'
  BY DEF IInv, AcceptedOnly, WorkersAccepted, Running
<1>4. QueuesWait'
  <2>1. ASSUME NEW l \in DOMAIN backlog, NEW k \in 1..Len(backlog[l])
        PROVE  client'[backlog[l][k]] = "waits"
    <3>1. client[backlog[l][k]] = "waits" BY DEF IInv, QueuesWait
    <3>2. backlog[l] \in Seq(Clients) BY DEF IInv, Typed
    <3>3. backlog[l][k] \in Clients BY <3>2, ElementOfSeq
    <3> QED BY <3>1, <3>3 DEF Unseen
  <2> QED BY <2>1 DEF IInv, QueuesWait
<1>5. StartsCounted'
  <2>1. Seen' = Seen BY DEF Seen
  <2> QED BY <2>1 DEF IInv, StartsCounted
<1>6. LimitsKept' /\ ListenersStay'
  BY DEF IInv, LimitsKept, ListenersStay, Deaf, Channel
<1> QED BY <1>1, <1>2, <1>3, <1>4, <1>5, <1>6 DEF IInv

-----------------------------------------------------------------------------
(***************************************************************************)
(* The inductive invariant, and the server's safety                        *)
(***************************************************************************)
LEMMA NextSound ==
  ASSUME IInv, [Next]_vars
  PROVE  IInv'
<1>0. client \in [Clients -> ClientState] /\ wants \subseteq Clients
  BY DEF IInv, Typed
<1>1. ASSUME NEW c \in Clients, NEW l \in Addresses, Connect(c, l) PROVE IInv'
  BY <1>1, ConnectSound
<1>2. ASSUME NEW c \in Clients, Send(c) PROVE IInv'
  BY <1>0, <1>2, OutsideSound DEF Send
<1>3. ASSUME NEW c \in Clients, Leave(c) PROVE IInv'
  <2>1. UNCHANGED <<cb, proc, backlog, faults, starts>> /\ client' \in [Clients -> ClientState]
        /\ wants' \subseteq Clients
    BY <1>0, <1>3 DEF Leave, ClientState
  <2>2. \A x \in Clients : client'[x] = client[x] \/ (client[x] \notin Unseen /\ client'[x] \notin Unseen)
    BY <1>0, <1>3 DEF Leave, Unseen
  <2> QED BY <2>1, <2>2, OutsideSound
<1>4. ASSUME Kill PROVE IInv'
  BY <1>0, <1>4, OutsideSound DEF Kill
<1>5. CASE UNCHANGED vars
  BY <1>0, <1>5, OutsideSound DEF vars
<1>6. ASSUME NEW c \in Clients, ThreadStarts(c) \/ LoopEnds(c) PROVE IInv'
  BY <1>6, ThreadStartsSound, LoopEndsSound
<1>7. ASSUME NEW p \in Procs, Poll(p) \/ NoEvent(p) \/ SessionEvent(p) \/ Sweep(p) PROVE IInv'
  BY <1>7, PollSound, NoEventSound, SessionEventSound, SweepSound
<1>8. CASE Interrupted \/ AcceptFails \/ Accept \/ ForkFails \/ CatchChld \/ ServerExit
  BY <1>8, InterruptedSound, AcceptFailsSound, AcceptSound, ForkFailsSound, CatchChldSound, ServerExitSound
<1> QED BY <1>1, <1>2, <1>3, <1>4, <1>5, <1>6, <1>7, <1>8 DEF Next

\* The inductive invariant holds of the server in every state.
THEOREM ServerInvariant == Spec => []IInv
<1>1. Init => IInv BY InitSound
<1>2. IInv /\ [Next]_vars => IInv' BY NextSound
<1> QED BY <1>1, <1>2, PTL DEF Spec

-----------------------------------------------------------------------------
(***************************************************************************)
(* The signal of a child that ended.  Only the end of a loop makes a       *)
(* zombie, and it leaves the signal pending; the handler takes the signal  *)
(* with every zombie there is.                                             *)
(***************************************************************************)
SignalInv == chld \in BOOLEAN /\ ZombieSignalled

\* A process that runs, whatever its loop has come to.
Alive(q) == "st" \in DOMAIN q /\ q.st = "run"

LEMMA AliveStays ==
  ASSUME NEW q, Alive(q)
  PROVE  /\ Alive(Advance(q)) /\ Alive(Accepted(q)) /\ Alive(RemoveListeners(q))
         /\ \A id : Alive(Destroy(q, id)) /\ Alive(NewSession(q, id))
<1>1. Alive(Advance(q)) BY DEF Alive, Advance
<1>2. Alive(RemoveListeners(q)) BY DEF Alive, RemoveListeners
<1>3. Alive(Accepted(q)) BY <1>2 DEF Alive, Accepted
<1>4. ASSUME NEW id PROVE Alive(Destroy(q, id)) BY DEF Alive, Destroy
<1>5. ASSUME NEW id PROVE Alive(NewSession(q, id)) BY DEF Alive, NewSession
<1> QED BY <1>1, <1>2, <1>3, <1>4, <1>5

\* A step that makes no zombie and takes no signal.
NoZombie ==
  /\ chld' = chld
  /\ \A c \in Clients : proc'[c].st = "zombie" => proc[c].st = "zombie"
  /\ proc'[Main].st = "run" => proc[Main].st = "run"

LEMMA NoZombieKeeps ==
  ASSUME SignalInv, NoZombie
  PROVE  SignalInv'
BY DEF SignalInv, ZombieSignalled, NoZombie, Running

\* One running process goes on.
LEMMA OneGoesOn ==
  ASSUME IInv, NEW p \in Procs, Running(p), NEW r, Alive(r),
         proc' = [proc EXCEPT ![p] = r], chld' = chld
  PROVE  NoZombie
<1>1. proc \in [Procs -> Process] /\ Main \in Procs /\ Clients \subseteq Procs
  BY Names DEF IInv, Typed
<1>2. \A x \in Procs : proc'[x] = IF x = p THEN r ELSE proc[x] BY <1>1
<1> QED BY <1>1, <1>2 DEF NoZombie, Alive, Running

LEMMA RunningAlive ==
  ASSUME IInv, NEW p \in Procs, Running(p)
  PROVE  Alive(proc[p])
BY SoundAlways DEF Process, Alive, Running

\* The processes of an accept: the main process goes on, and a child or a
\* thread is there that runs.
LEMMA TwoGoOn ==
  ASSUME IInv, Running(Main), NEW c, NEW m, Alive(m), NEW w, Alive(w),
         proc' = [proc EXCEPT ![Main] = m, ![c] = w], chld' = chld
  PROVE  NoZombie
<1>1. proc \in [Procs -> Process] /\ Main \in Procs /\ Clients \subseteq Procs
  BY Names DEF IInv, Typed
<1>2. \A x \in Procs : proc'[x] = IF x = c THEN w ELSE IF x = Main THEN m ELSE proc[x] BY <1>1
<1> QED BY <1>1, <1>2 DEF NoZombie, Alive, Running

LEMMA PassesMakeNone ==
  ASSUME IInv, NEW p \in Procs, Poll(p) \/ NoEvent(p) \/ SessionEvent(p) \/ Sweep(p)
  PROVE  NoZombie
<1>0. Running(p) /\ Alive(proc[p])
  BY RunningAlive DEF Poll, NoEvent, SessionEvent, Sweep, Dispatching
<1>1. CASE Poll(p)
  <2>1. PICK fds : proc' = [proc EXCEPT ![p] =
               [@ EXCEPT !.pc = "dispatch", !.i = 1, !.at = proc[p].chain[1].id, !.fds = fds]]
    BY <1>1 DEF Poll
  <2> DEFINE r == [proc[p] EXCEPT !.pc = "dispatch", !.i = 1, !.at = proc[p].chain[1].id, !.fds = fds]
  <2>2. Alive(r) BY <1>0 DEF Alive
  <2>3. proc' = [proc EXCEPT ![p] = r] /\ chld' = chld BY <1>1, <2>1 DEF Poll
  <2> HIDE DEF r
  <2> QED BY <1>0, <2>2, <2>3, OneGoesOn
<1>2. CASE NoEvent(p)
  <2>1. proc' = [proc EXCEPT ![p] = Advance(proc[p])] /\ chld' = chld BY <1>2 DEF NoEvent
  <2> QED BY <1>0, <2>1, AliveStays, OneGoesOn
<1>3. CASE SessionEvent(p)
  <2>1. PICK b \in BOOLEAN :
          proc' = [proc EXCEPT ![p] =
                     Advance(IF b THEN Destroy(proc[p], proc[p].at) ELSE proc[p])]
    <3>1. proc' = [proc EXCEPT ![p] =
                     Advance(IF client[proc[p].at] = "left" \/ Event(proc[p]) = "timeout"
                             THEN Destroy(proc[p], proc[p].at) ELSE proc[p])]
      BY <1>3 DEF SessionEvent
    <3> QED BY <3>1
  <2> DEFINE r == IF b THEN Destroy(proc[p], proc[p].at) ELSE proc[p]
  <2>2. Alive(r) BY <1>0, AliveStays
  <2>3. proc' = [proc EXCEPT ![p] = Advance(r)] /\ chld' = chld BY <1>3, <2>1 DEF SessionEvent
  <2> HIDE DEF r
  <2> QED BY <1>0, <2>2, <2>3, AliveStays, OneGoesOn
<1>4. CASE Sweep(p)
  <2>1. PICK kept, pc : proc' = [proc EXCEPT ![p] = [@ EXCEPT !.chain = kept, !.fds = <<>>, !.i = 0, !.pc = pc]]
    BY <1>4 DEF Sweep
  <2> DEFINE r == [proc[p] EXCEPT !.chain = kept, !.fds = <<>>, !.i = 0, !.pc = pc]
  <2>2. Alive(r) BY <1>0 DEF Alive
  <2>3. proc' = [proc EXCEPT ![p] = r] /\ chld' = chld BY <1>4, <2>1 DEF Sweep
  <2> HIDE DEF r
  <2> QED BY <1>0, <2>2, <2>3, OneGoesOn
<1> QED BY <1>1, <1>2, <1>3, <1>4

LEMMA AcceptsMakeNone ==
  ASSUME IInv, Interrupted \/ AcceptFails \/ Accept \/ ForkFails
  PROVE  NoZombie
<1> DEFINE q == proc[Main]
           a == Accepted(q)
<1>0. Main \in Procs /\ Running(Main) /\ Alive(q)
  BY Names, RunningAlive DEF Interrupted, AcceptFails, Accept, ForkFails, Dispatching
<1>1. CASE Interrupted
  <2> DEFINE r == [q EXCEPT !.pc = "over"]
  <2>1. Alive(r) BY <1>0 DEF Alive
  <2>2. proc' = [proc EXCEPT ![Main] = r] /\ chld' = chld BY <1>1 DEF Interrupted
  <2> HIDE DEF r
  <2> QED BY <1>0, <2>1, <2>2, OneGoesOn
<1>2. CASE AcceptFails
  <2>1. proc' = [proc EXCEPT ![Main] = Advance(q)] /\ chld' = chld BY <1>2 DEF AcceptFails
  <2>2. Alive(Advance(q)) BY <1>0, AliveStays
  <2> HIDE DEF q
  <2> QED BY <1>0, <2>1, <2>2, OneGoesOn
<1>3. CASE ForkFails
  <2> DEFINE r == Advance(Destroy(a, q.at))
  <2>1. Alive(a) BY <1>0, AliveStays
  <2> HIDE DEF a
  <2>2. Alive(r) BY <2>1, AliveStays
  <2>3. proc' = [proc EXCEPT ![Main] = r] /\ chld' = chld BY <1>3 DEF ForkFails, a
  <2> HIDE DEF q, r
  <2> QED BY <1>0, <2>2, <2>3, OneGoesOn
<1>4. CASE Accept
  <2> DEFINE c == Head(backlog[q.at])
             child == ChildLoop(a, c)
             thread == [Absent EXCEPT !.st = "run", !.pc = "new", !.parent = q.at]
             own == Advance(NewSession(a, c))
  <2>1. Alive(a) BY <1>0, AliveStays
  <2>2. chld' = chld /\ proc' = IF cb.dynamic
                THEN [proc EXCEPT ![Main] = Advance(a), ![c] = child]
                ELSE IF cb.threads
                THEN [proc EXCEPT ![Main] = Advance(a), ![c] = thread]
                ELSE [proc EXCEPT ![Main] = own]
    BY <1>4 DEF Accept, AfterFork
  <2>3. Alive(thread) BY DEF Alive, Absent, Loop
  <2> HIDE DEF q, a, thread, c
  <2>4. Alive(Advance(a)) /\ Alive(own) BY <2>1, AliveStays
  <2>5. Alive(child) BY <2>1, AliveStays DEF ChildLoop
  <2> HIDE DEF child, own
  <2>6. CASE cb.dynamic
    <3>1. proc' = [proc EXCEPT ![Main] = Advance(a), ![c] = child] /\ chld' = chld BY <2>2, <2>6
    <3> QED BY <1>0, <2>4, <2>5, <3>1, TwoGoOn
  <2>7. CASE ~cb.dynamic /\ cb.threads
    <3>1. proc' = [proc EXCEPT ![Main] = Advance(a), ![c] = thread] /\ chld' = chld BY <2>2, <2>7
    <3> QED BY <1>0, <2>3, <2>4, <3>1, TwoGoOn
  <2>8. CASE ~cb.dynamic /\ ~cb.threads
    <3>1. proc' = [proc EXCEPT ![Main] = own] /\ chld' = chld BY <2>2, <2>8
    <3> QED BY <1>0, <2>4, <3>1, OneGoesOn
  <2> QED BY <2>6, <2>7, <2>8
<1> QED BY <1>1, <1>2, <1>3, <1>4

LEMMA SignalKept ==
  ASSUME IInv, SignalInv, [Next]_vars
  PROVE  SignalInv'
<1>0. proc \in [Procs -> Process] /\ Main \in Procs /\ Main \notin Clients /\ Clients \subseteq Procs
      /\ cb \in Block
  BY Names DEF IInv, Typed
<1>1. ASSUME UNCHANGED <<proc, chld>> PROVE SignalInv'
  BY <1>1 DEF SignalInv, ZombieSignalled, Running
<1>2. ASSUME NEW p \in Procs, Poll(p) \/ NoEvent(p) \/ SessionEvent(p) \/ Sweep(p) PROVE SignalInv'
  BY <1>2, PassesMakeNone, NoZombieKeeps
<1>3. CASE Interrupted \/ AcceptFails \/ Accept \/ ForkFails
  BY <1>3, AcceptsMakeNone, NoZombieKeeps
<1>4. ASSUME NEW c \in Clients, ThreadStarts(c) PROVE SignalInv'
  <2> DEFINE w == Loop(<<Channel(c)>>, 0, FALSE)
  <2>1. PICK one : proc' = [proc EXCEPT ![c] = w, ![Main].oneShot = one] BY <1>4 DEF ThreadStarts
  <2>2. Running(Main) /\ chld' = chld /\ Alive(proc[Main])
    BY <1>0, <1>4, RunningAlive DEF ThreadStarts
  <2>3. proc'[c] = w /\ (\A x \in Clients : x # c => proc'[x] = proc[x])
    BY <1>0, <2>1
  <2>4. w.st = "run" BY DEF Loop
  <2> HIDE DEF w
  <2>5. NoZombie BY <2>2, <2>3, <2>4 DEF NoZombie, Running
  <2> QED BY <2>5, NoZombieKeeps
<1>5. ASSUME NEW c \in Clients, LoopEnds(c) PROVE SignalInv'
  <2> DEFINE end == IF cb.dynamic /\ Running(Main) THEN "zombie" ELSE "gone"
             w == [Absent EXCEPT !.st = end]
  <2>1. proc' = [proc EXCEPT ![c] = w] /\ chld' = (chld \/ (cb.dynamic /\ Running(Main)))
    BY <1>5 DEF LoopEnds
  <2>2. w.st = end BY DEF Absent, Loop
  <2> HIDE DEF w
  <2>3. proc'[c].st = end /\ proc'[Main] = proc[Main] /\ \A x \in Clients : x # c => proc'[x] = proc[x]
    BY <1>0, <2>1, <2>2
  <2>4. cb.dynamic \in BOOLEAN BY <1>0 DEF Block
  <2>5. chld' \in BOOLEAN BY <2>1
  <2>6. ASSUME NEW x \in Clients, proc'[x].st = "zombie", Running(Main)' PROVE chld'
    <3>1. Running(Main) BY <2>3, <2>6 DEF Running
    <3>2. CASE x = c
      <4>1. cb.dynamic /\ Running(Main) BY <2>3, <2>6, <3>1, <3>2
      <4> QED BY <2>1, <4>1
    <3>3. CASE x # c
      <4>1. chld BY <2>3, <2>6, <3>1, <3>3 DEF SignalInv, ZombieSignalled
      <4> QED BY <2>1, <4>1
    <3> QED BY <3>2, <3>3
  <2> QED BY <2>5, <2>6 DEF SignalInv, ZombieSignalled
<1>6. CASE CatchChld
  <2> DEFINE zombies == {c \in Clients : proc[c].st = "zombie"}
             w == [Absent EXCEPT !.st = "gone"]
  <2>1. proc' = [c \in Procs |-> IF c \in zombies THEN w ELSE proc[c]] /\ chld' = FALSE
    BY <1>6 DEF CatchChld, Reaped
  <2>2. w.st = "gone" BY DEF Absent, Loop
  <2> HIDE DEF w
  <2>3. \A c \in Clients : proc'[c].st # "zombie" BY <1>0, <2>1, <2>2
  <2> QED BY <2>1, <2>3 DEF SignalInv, ZombieSignalled
<1>7. CASE ServerExit
  <2> DEFINE w == [Absent EXCEPT !.st = "gone"]
  <2>1. chld' = FALSE /\ proc'[Main] = w BY <1>0, <1>7 DEF ServerExit
  <2>2. w.st = "gone" BY DEF Absent, Loop
  <2> QED BY <2>1, <2>2 DEF SignalInv, ZombieSignalled, Running
<1>8. ASSUME NEW c \in Clients, (\E l \in Addresses : Connect(c, l)) \/ Send(c) \/ Leave(c) PROVE SignalInv'
  BY <1>1, <1>8 DEF Connect, Send, Leave
<1>9. CASE Kill \/ UNCHANGED vars
  BY <1>1, <1>9 DEF Kill, vars
<1> QED BY <1>2, <1>3, <1>4, <1>5, <1>6, <1>7, <1>8, <1>9 DEF Next

\* No child that ended is forgotten, in every state.
THEOREM SignalInvariant == Spec => [](IInv /\ SignalInv)
<1>1. Init => IInv BY InitSound
<1>2. Init => SignalInv
  <2> SUFFICES ASSUME Init PROVE SignalInv
    OBVIOUS
  <2>1. chld = FALSE /\ \E chain, one : proc = [p \in Procs |-> IF p = Main THEN Loop(chain, 0, one) ELSE Absent]
    BY DEF Init
  <2>2. Absent.st = "none" BY DEF Absent, Loop
  <2>3. \A c \in Clients : proc[c] = Absent BY <2>1, Names
  <2> QED BY <2>1, <2>2, <2>3 DEF SignalInv, ZombieSignalled
<1>3. IInv /\ [Next]_vars => IInv' BY NextSound
<1>4. IInv /\ SignalInv /\ [Next]_vars => SignalInv' BY SignalKept
<1> QED BY <1>1, <1>2, <1>3, <1>4, PTL DEF Spec

-----------------------------------------------------------------------------
\* The parts of ServerSafe follow from the two invariants.
LEMMA TypesKept == IInv /\ SignalInv => TypeOK
<1> SUFFICES ASSUME IInv, SignalInv PROVE TypeOK
  OBVIOUS
<1>1. ASSUME NEW p \in Procs
      PROVE  /\ proc[p].st \in {"none", "run", "zombie", "gone"}
             /\ proc[p].pc \in {"poll", "dispatch", "over", "new"}
             /\ Range(proc[p].chain) \subseteq [id : Clients \cup Addresses, dead : BOOLEAN]
             /\ proc[p].at \in Clients \cup Addresses \cup {NULL}
  <2>1. proc[p] \in Process BY SoundAlways
  <2>2. proc[p].chain \in Seq(Chan) BY <2>1 DEF Process
  <2>3. DOMAIN proc[p].chain = 1..Len(proc[p].chain)
        /\ \A k \in 1..Len(proc[p].chain) : proc[p].chain[k] \in Chan
    BY <2>2, LenProperties, ElementOfSeq
  <2>4. Range(proc[p].chain) \subseteq Chan BY <2>3 DEF Range
  <2> QED BY <2>1, <2>4 DEF Process, Chan, Ids
<1>2. starts \in 0..Cardinality(Clients)
  <2>1. Seen \subseteq Clients /\ IsFiniteSet(Clients) BY GfsServerAssumption DEF Seen
  <2>2. IsFiniteSet(Seen) /\ Cardinality(Seen) <= Cardinality(Clients) BY <2>1, FS_Subset
  <2>3. Cardinality(Seen) \in Nat /\ Cardinality(Clients) \in Nat BY <2>1, <2>2, FS_CardinalityType
  <2>4. starts \in Nat /\ starts <= Cardinality(Seen) BY DEF IInv, Typed, StartsCounted
  <2> QED BY <2>2, <2>3, <2>4
<1> QED BY <1>1, <1>2 DEF TypeOK, IInv, Typed, ClientState, SignalInv

LEMMA WalkAligned == IInv => FdsAligned
<1> SUFFICES ASSUME IInv, NEW p \in Procs, Dispatching(p)
             PROVE  proc[p].i \in DOMAIN proc[p].fds /\ proc[p].fds[proc[p].i].id = proc[p].at
  BY DEF FdsAligned
<1>1. Sound(proc[p]) /\ proc[p] \in Process BY SoundAlways
<1>2. proc[p].i \in 1..Len(proc[p].fds) /\ proc[p].fds[proc[p].i].id = proc[p].at
  BY <1>1, LooksAt DEF Dispatching
<1>3. DOMAIN proc[p].fds = 1..Len(proc[p].fds) BY <1>1, LenProperties DEF Process
<1> QED BY <1>2, <1>3

LEMMA OneServes == IInv => ServedOnce
<1> SUFFICES ASSUME IInv, NEW c \in Clients
             PROVE  LET by == {p \in Procs : Running(p) /\ \E k \in DOMAIN proc[p].chain :
                                                             proc[p].chain[k] = Channel(c)}
                    IN /\ Cardinality(by) <= 1
                       /\ (cb.dynamic \/ cb.threads) /\ ~cb.inetd => Main \notin by
                       /\ \A p \in by \ {Main} : \A k \in DOMAIN proc[p].chain :
                            IsListener(proc[p].chain[k].id) => proc[p].chain[k].dead
  BY DEF ServedOnce
<1> DEFINE by == {p \in Procs : Running(p) /\ \E k \in DOMAIN proc[p].chain :
                                                proc[p].chain[k] = Channel(c)}
<1>0. \A p \in Procs : DOMAIN proc[p].chain = 1..Len(proc[p].chain)
  BY SoundAlways, LenProperties DEF Process
<1>1. Channel(c).id = c /\ ~Channel(c).dead
  BY DEF Channel
<1>2. ASSUME NEW p \in by, p # Main
      PROVE  p = c /\ (cb.dynamic \/ cb.threads) /\ ~cb.inetd
  <2>1. p \in Clients /\ Running(p) BY <1>2, Names
  <2>2. PICK k \in 1..Len(proc[p].chain) : proc[p].chain[k] = Channel(c) BY <1>0
  <2> QED BY <1>1, <2>1, <2>2 DEF IInv, WorkersServe
<1>3. ASSUME Main \in by PROVE cb.inetd \/ ~(cb.dynamic \/ cb.threads)
  <2>1. PICK k \in 1..Len(proc[Main].chain) : proc[Main].chain[k] = Channel(c) BY <1>0, <1>3
  <2> QED BY <1>1, <2>1 DEF IInv, MainListens
<1>4. by \subseteq {Main} \/ by \subseteq {c}
  BY <1>2, <1>3
<1>5. Cardinality(by) <= 1
  <2>1. ASSUME NEW x, by \subseteq {x} PROVE Cardinality(by) <= 1
    <3>1. IsFiniteSet({x}) /\ Cardinality({x}) = 1 BY FS_Singleton
    <3> HIDE DEF by
    <3> QED BY <2>1, <3>1, FS_Subset
  <2> QED BY <1>4, <2>1
<1>6. ASSUME NEW p \in by \ {Main}, NEW k \in DOMAIN proc[p].chain, IsListener(proc[p].chain[k].id)
      PROVE  proc[p].chain[k].dead
  <2>1. p \in Clients /\ k \in 1..Len(proc[p].chain) BY <1>0, <1>6, Names
  <2> QED BY <1>6, <2>1 DEF IInv, WorkersServe, IsListener
<1> QED BY <1>3, <1>5, <1>6

LEMMA LimitsHold == IInv => SessionLimit
BY DEF IInv, LimitsKept, SessionLimit

LEMMA ParentsThere == IInv => ParentChannelThere
<1> SUFFICES ASSUME IInv, NEW c \in Clients,
                    Running(c), proc[c].pc = "new", Running(Main), ~cb.oneShot, cb.max = 0
             PROVE  Place(proc[Main].chain, proc[c].parent) > 0
  BY DEF ParentChannelThere
<1>1. cb.threads /\ proc[c].parent \in DOMAIN backlog
  BY DEF IInv, WorkersServe
<1>2. PICK k \in 1..Len(proc[Main].chain) : proc[Main].chain[k] = Channel(proc[c].parent)
  BY <1>1 DEF IInv, ListenersStay, Running
<1>3. proc[Main].chain \in Seq(Chan) /\ Distinct(proc[Main].chain)
  BY Names, SoundAlways DEF Sound, Process
<1>4. Place(proc[Main].chain, proc[Main].chain[k].id) = k
  BY <1>3, PlaceIs
<1>5. proc[Main].chain[k].id = proc[c].parent BY <1>2 DEF Channel
<1> QED BY <1>4, <1>5

\* What run gfs_server checks, for any clients, listeners and command lines:
\* an event is handed to the channel that it was polled for, a client is
\* served by one process, -1 and -A bound the sessions, a thread finds the
\* channel of the listener that it came from, and a signal is pending while a
\* child waits to be waited for.
THEOREM ServerSafeHolds == Spec => []ServerSafe
<1>1. IInv /\ SignalInv => ServerSafe
  BY TypesKept, WalkAligned, OneServes, LimitsHold, ParentsThere DEF ServerSafe, SignalInv
<1> QED BY <1>1, SignalInvariant, PTL
=============================================================================
