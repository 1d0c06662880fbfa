-------------------------- MODULE GfsSessionProofs --------------------------
(***************************************************************************)
(* Proofs about a session of the generic frontend server, for every number *)
(* of packages, every mix of them, every set of hosts and handlers and     *)
(* every length of answers.                                                *)
(***************************************************************************)
EXTENDS GfsSession, ProofBasics

-----------------------------------------------------------------------------
(* The loop of process_gdu_response.                                       *)

\* The sequence of states that the loop goes through exists.
LEMMA TurnsExist ==
  ASSUME NEW a, NEW k \in Nat
  PROVE  \E f : f = [n \in 0..k |-> IF n = 0 THEN a ELSE DrainOne(f[n - 1])]
<1> DEFINE Is(f, m) == f = [n \in 0..m |-> IF n = 0 THEN a ELSE DrainOne(f[n - 1])]
           S == {m \in Nat : \E f : Is(f, m)}
<1>1. 0 \in S
  <2> DEFINE g == [n \in 0..0 |-> a]
  <2>1. Is(g, 0)
    OBVIOUS
  <2> QED BY <2>1
<1>2. ASSUME NEW m \in Nat, m \in S PROVE m + 1 \in S
  <2>1. PICK f : Is(f, m)
    BY <1>2
  <2> DEFINE g == [n \in 0..(m + 1) |-> IF n = m + 1 THEN DrainOne(f[m]) ELSE f[n]]
  <2>2. ASSUME NEW n \in 0..(m + 1)
        PROVE  g[n] = IF n = 0 THEN a ELSE DrainOne(g[n - 1])
    <3>1. CASE n = 0
      BY <2>1, <3>1
    <3>2. CASE n = m + 1
      <4>1. g[n] = DrainOne(f[m]) /\ n # 0 /\ n - 1 = m /\ m \in 0..(m + 1) /\ m # m + 1
        BY <3>2
      <4>2. g[m] = f[m]
        BY <4>1
      <4> QED BY <4>1, <4>2
    <3>3. CASE n # 0 /\ n # m + 1
      <4>1. n \in 0..m /\ n - 1 \in 0..(m + 1) /\ n - 1 # m + 1
        BY <3>3
      <4>2. g[n] = f[n] /\ g[n - 1] = f[n - 1]
        BY <3>3, <4>1
      <4>3. f[n] = DrainOne(f[n - 1])
        BY <2>1, <3>3, <4>1
      <4> QED BY <3>3, <4>2, <4>3
    <3> QED BY <3>1, <3>2, <3>3
  <2>3. Is(g, m + 1)
    BY <2>2
  <2>4. \E e : Is(e, m + 1)
    BY <2>3
  <2> QED BY <2>4
<1>3. Nat \subseteq S
  <2> HIDE DEF S
  <2> QED BY <1>1, <1>2, SetInduction
<1> QED BY <1>3

\* What it is: it begins with a, and every turn is one of DrainOne.
LEMMA TurnsAre ==
  ASSUME NEW a, a.incoming \in Seq(Package), a.net \in Seq(Package)
  PROVE  \E f : LET turns == Len(a.incoming) + Len(a.net)
                IN /\ turns \in Nat
                   /\ f[0] = a
                   /\ \A n \in 0..turns : n # turns => f[n + 1] = DrainOne(f[n])
                   /\ Drain(a) = f[turns]
<1> DEFINE turns == Len(a.incoming) + Len(a.net)
           after[n \in 0..turns] == IF n = 0 THEN a ELSE DrainOne(after[n - 1])
<1>1. turns \in Nat
  <2> HIDE DEF after
  <2>1. Len(a.incoming) \in Nat /\ Len(a.net) \in Nat
    BY LenProperties
  <2>2. \A m, n \in Nat : m + n \in Nat
    OBVIOUS
  <2> QED BY <2>1, <2>2, Zenon
<1>2. Drain(a) = after[turns]
  BY DEF Drain
<1>3. after = [n \in 0..turns |-> IF n = 0 THEN a ELSE DrainOne(after[n - 1])]
  <2> HIDE DEF turns
  <2>1. \E f : f = [n \in 0..turns |-> IF n = 0 THEN a ELSE DrainOne(f[n - 1])]
    BY <1>1, TurnsExist
  <2> QED BY <2>1
<1> HIDE DEF turns, after
<1>4. after[0] = a
  BY <1>1, <1>3
<1>5. ASSUME NEW n \in 0..turns, n # turns PROVE after[n + 1] = DrainOne(after[n])
  <2>1. n + 1 \in 0..turns /\ n + 1 # 0 /\ (n + 1) - 1 = n
    BY <1>1, <1>5
  <2> QED BY <1>3, <2>1
<1>6. \A n \in 0..turns : n # turns => after[n + 1] = DrainOne(after[n])
  BY <1>5
<1> QED BY <1>1, <1>2, <1>4, <1>6 DEF turns

\* A set that no turn leaves is not left by the loop.
LEMMA DrainStays ==
  ASSUME NEW T, NEW a \in T, a.incoming \in Seq(Package), a.net \in Seq(Package),
         \A b \in T : DrainOne(b) \in T
  PROVE  Drain(a) \in T
<1> DEFINE turns == Len(a.incoming) + Len(a.net)
<1>1. PICK f : /\ turns \in Nat
               /\ f[0] = a
               /\ \A n \in 0..turns : n # turns => f[n + 1] = DrainOne(f[n])
               /\ Drain(a) = f[turns]
  BY TurnsAre
<1> HIDE DEF turns
<1> DEFINE S == {n \in Nat : n <= turns => f[n] \in T}
<1>2. 0 \in S
  BY <1>1
<1>3. ASSUME NEW n \in Nat, n \in S PROVE n + 1 \in S
  BY <1>1, <1>3
<1>4. Nat \subseteq S
  <2> HIDE DEF S
  <2> QED BY <1>2, <1>3, SetInduction
<1> QED BY <1>1, <1>4

-----------------------------------------------------------------------------
(* The shape of what the handlers do.                                      *)

(***************************************************************************)
(* A session record as it ever is: within its type, and an open backend    *)
(* belongs to an initialised association and has its handle counted.       *)
(***************************************************************************)
Fit(a) == a \in Session /\ (a.backend => a.init /\ a.handles > 0)

(* b has the queues, the masks for output and the link of a.               *)
Alike(a, b) ==
  /\ b.put = a.put /\ b.flags = a.flags /\ b.force = a.force /\ b.accept = a.accept
  /\ b.incoming = a.incoming /\ b.outgoing = a.outgoing /\ b.taken = a.taken
  /\ b.net = a.net /\ b.eof = a.eof /\ b.towrite = a.towrite /\ b.written = a.written
  /\ b.destroyed = a.destroyed /\ b.unanswered = a.unanswered

Balanced(a) == a.handles = (IF a.backend THEN 1 ELSE 0)

(* On a server that is configured for every host that a client may name,   *)
(* no handle is lost on the way from a to b and nothing is amiss in b that *)
(* was not in a.                                                           *)
Sound(a, b) ==
  Known = Hosts => /\ b.fault = a.fault
                   /\ Balanced(a) => Balanced(b)

\* control_association keeps what the queues and the link hold.
LEMMA ControlAssociationFits ==
  ASSUME NEW a, Fit(a), NEW host \in Hosts, NEW force \in BOOLEAN,
         NEW c, c = ControlAssociation(a, host, force)
  PROVE  /\ Fit(c) /\ Alike(a, c) /\ Sound(a, c)
         /\ Known = Hosts => c.control # None
         /\ force /\ Known = Hosts => ~c.backend
         /\ c.fault = a.fault
<1> DEFINE away == force \/ (a.control # host /\ a.backend)
<1>0. a \in Session /\ (a.backend => a.init /\ a.handles > 0)
  BY DEF Fit
<1>1. CASE host \notin Known
  <2>1. c = [a EXCEPT !.control = None]
    BY <1>1 DEF ControlAssociation
  <2>2. Known # Hosts
    BY <1>1
  <2> QED BY <1>0, <2>1, <2>2 DEF Fit, Alike, Sound, Session
<1>2. CASE host \in Known
  <2>1. c = [a EXCEPT !.control = host,
               !.handles = IF away /\ a.backend /\ a.init THEN @ - 1 ELSE @,
               !.backend = @ /\ ~away, !.init = @ /\ ~away]
    BY <1>2 DEF ControlAssociation
  <2>2. host # None
    BY SessionAssumption DEF None
  <2>3. CASE ~away
    <3>1. c = [a EXCEPT !.control = host, !.handles = a.handles,
                        !.backend = a.backend, !.init = a.init]
      BY <1>0, <2>1, <2>3 DEF Session
    <3>2. ~force
      BY <2>3
    <3>a. Fit(c)
      <4>1. c \in Session
        BY <1>0, <3>1, <3>2, ZenonT(40) DEF Session
      <4>2. c.backend => c.init /\ c.handles > 0
        BY <1>0, <3>1 DEF Session
      <4> QED BY <4>1, <4>2 DEF Fit
    <3>b. Alike(a, c)
      BY <1>0, <3>1 DEF Alike, Session
    <3>c. c.fault = a.fault /\ c.control = host
      BY <1>0, <3>1 DEF Session
    <3>d. Balanced(a) => Balanced(c)
      BY <1>0, <3>1 DEF Balanced, Session
    <3>e. ~force
      BY <3>2
    <3> QED BY <2>2, <3>a, <3>b, <3>c, <3>d, <3>e DEF Sound
  <2>4. CASE away
    <3>1. c = [a EXCEPT !.control = host,
                 !.handles = IF a.backend THEN a.handles - 1 ELSE a.handles,
                 !.backend = FALSE, !.init = FALSE]
      BY <1>0, <2>1, <2>4 DEF Session
    <3> HIDE DEF away
    <3>2. (IF a.backend THEN a.handles - 1 ELSE a.handles) \in Nat
      BY <1>0 DEF Session
    <3>a. Fit(c)
      <4>1. c \in Session
        BY <1>0, <3>1, <3>2, ZenonT(40) DEF Session
      <4>2. c.backend => c.init /\ c.handles > 0
        BY <1>0, <3>1 DEF Session
      <4> QED BY <4>1, <4>2 DEF Fit
    <3>b. Alike(a, c)
      BY <1>0, <3>1 DEF Alike, Session
    <3>c. c.fault = a.fault /\ c.control = host
      BY <1>0, <3>1 DEF Session
    <3>d. Balanced(a) => Balanced(c)
      BY <1>0, <3>1 DEF Balanced, Session
    <3>e. ~c.backend
      BY <1>0, <3>1 DEF Session
    <3> QED BY <2>2, <3>a, <3>b, <3>c, <3>d, <3>e DEF Sound
  <2> QED BY <2>3, <2>4
<1> QED BY <1>1, <1>2

\* A response that joins the queue, and a Close that replaces it.
LEMMA RespondFits ==
  ASSUME NEW a, Fit(a)
  PROVE  /\ \A req \in Package : Fit(Answered(a, req)) /\ Sound(a, Answered(a, req))
         /\ \A id \in 0..MaxPackages : Fit(DoClose(a, id)) /\ Sound(a, DoClose(a, id))
<1>1. ASSUME NEW r \in Response PROVE Append(a.outgoing, r) \in Seq(Response)
  BY SeqClosed DEF Fit, Session
<1>2. ASSUME NEW req \in Package PROVE Fit(Answered(a, req)) /\ Sound(a, Answered(a, req))
  <2>1. [id |-> req.id, bye |-> FALSE, len |-> AnswerLength] \in Response
    BY SessionAssumption DEF Response, Package
  <2> QED BY <1>1, <2>1 DEF Answered, Respond, Fit, Session, Inp, Outp, Sound, Balanced
<1>3. ASSUME NEW id \in 0..MaxPackages PROVE Fit(DoClose(a, id)) /\ Sound(a, DoClose(a, id))
  <2>1. [id |-> id, bye |-> TRUE, len |-> CloseLength] \in Response
    BY SessionAssumption DEF Response
  <2>2. /\ <<>> \in Seq(Package) /\ <<>> \in Seq(Response)
        /\ Append(<<>>, [id |-> id, bye |-> TRUE, len |-> CloseLength]) \in Seq(Response)
    BY <2>1, SeqClosed
  <2> QED BY <2>2 DEF DoClose, Respond, Fit, Session, Inp, Outp, Sound, Balanced
<1> QED BY <1>2, <1>3

\* process_http_request: a record like the one before is answered.
LEMMA HttpOutcome ==
  ASSUME NEW a, Fit(a), NEW req \in Package
  PROVE  \E b : /\ Fit(b) /\ Alike(a, b) /\ Sound(a, b)
                /\ HttpRequest(a, req) = Answered(b, req)
<1>0. req.host \in Hosts
  BY DEF Package
<1> DEFINE c == ControlAssociation(a, req.host, FALSE)
           d == ServeHttp(a, req)
           b == IF req.kind = "httpClose"
                THEN [d EXCEPT !.state = "DEAD", !.get = {}]
                ELSE [d EXCEPT !.idle = TRUE, !.fault = @ \/ d.control = None]
<1>1. /\ Fit(c) /\ Alike(a, c) /\ Sound(a, c)
      /\ Known = Hosts => c.control # None
  BY <1>0, ControlAssociationFits
<1>2. d = c \/ d = SrwBendInit(c, req.kind)
  BY DEF ServeHttp
<1>3. HttpRequest(a, req) = Answered(b, req)
  BY DEF HttpRequest, KeepAlive
<1> HIDE DEF c
<1>4. /\ Fit(d) /\ Alike(a, d) /\ Sound(a, d)
      /\ Known = Hosts => d.control # None
  <2>1. CASE d = c
    BY <1>1, <2>1
  <2>2. CASE d # c
    <3> HIDE DEF d
    <3>1. d = SrwBendInit(c, req.kind) /\ ~c.init /\ ~c.backend
      BY <1>1, <1>2, <2>2 DEF SrwBendInit, Fit
    <3>2. c \in Session
      BY <1>1 DEF Fit
    <3>3. CASE req.kind # "httpRefused"
      <4>1. d = [c EXCEPT !.init = TRUE, !.backend = TRUE, !.handles = c.handles + 1,
                          !.state = c.state]
        BY <3>1, <3>2, <3>3 DEF SrwBendInit, Session
      <4>2. d \in Session /\ d.init = TRUE /\ d.handles > 0
        <5>1. c.handles + 1 \in Nat /\ c.handles + 1 > 0
          BY <3>2 DEF Session
        <5> QED BY <3>2, <4>1, <5>1 DEF Session
      <4>3. Alike(a, d) /\ d.control = c.control /\ d.fault = c.fault
        BY <1>1, <3>2, <4>1 DEF Alike, Session
      <4>4. Balanced(c) => Balanced(d)
        BY <3>1, <3>2, <4>1 DEF Balanced, Session
      <4> QED BY <1>1, <4>2, <4>3, <4>4 DEF Fit, Sound
    <3>4. CASE req.kind = "httpRefused"
      <4>1. d = [c EXCEPT !.init = TRUE, !.backend = FALSE, !.handles = c.handles,
                          !.state = "DEAD"]
        BY <3>1, <3>2, <3>4 DEF SrwBendInit, Session
      <4>2. d \in Session /\ d.backend = FALSE
        BY <3>2, <4>1 DEF Session
      <4>3. Alike(a, d) /\ d.control = c.control /\ d.fault = c.fault
        BY <1>1, <3>2, <4>1 DEF Alike, Session
      <4>4. Balanced(c) => Balanced(d)
        BY <3>1, <3>2, <4>1 DEF Balanced, Session
      <4> QED BY <1>1, <4>2, <4>3, <4>4 DEF Fit, Sound
    <3> QED BY <3>3, <3>4
  <2> QED BY <2>1, <2>2
<1>5. d \in Session
  BY <1>4 DEF Fit
<1> HIDE DEF d
<1>6. b \in Session
  BY <1>5 DEF Session
<1>7. Alike(a, b) /\ b.backend = d.backend /\ b.init = d.init /\ b.handles = d.handles
  BY <1>4, <1>5 DEF Alike, Session
<1>8. Known = Hosts => b.fault = d.fault
  BY <1>4, <1>5 DEF Session
<1> HIDE DEF b
<1>9. Fit(b) /\ Sound(a, b)
  BY <1>4, <1>6, <1>7, <1>8 DEF Fit, Sound, Balanced
<1> QED BY <1>3, <1>7, <1>9

\* process_initRequest: a record like the one before is answered or closed.
LEMMA InitOutcome ==
  ASSUME NEW a, Fit(a), NEW req \in Package
  PROVE  \E b : /\ Fit(b) /\ Alike(a, b) /\ Sound(a, b)
                /\ InitRequest(a, req) \in {Answered(b, req), DoClose(b, req.id)}
<1>0. req.host \in Hosts
  BY DEF Package
<1> DEFINE c == ControlAssociation(a, req.host, TRUE)
           reset == [c EXCEPT !.init = TRUE, !.backend = FALSE, !.idle = TRUE]
           opens == c.control # None /\ req.kind \in {"init2", "init3"}
           opened == [reset EXCEPT
                        !.backend = opens,
                        !.handles = IF opens THEN @ + 1 ELSE @,
                        !.version = IF req.kind = "init2" THEN 2 ELSE 3,
                        !.state = IF opens THEN "UP" ELSE "DEAD"]
<1>1. /\ Fit(c) /\ Alike(a, c) /\ Sound(a, c)
      /\ Known = Hosts => ~c.backend
      /\ c.fault = a.fault
  BY <1>0, ControlAssociationFits
<1>2. InitRequest(a, req) \in {Answered(opened, req), DoClose(reset, req.id)}
  BY DEF InitRequest
<1> HIDE DEF c
<1>3. c \in Session
  BY <1>1 DEF Fit
<1>4. reset \in Session /\ reset.backend = FALSE /\ reset.init = TRUE
  BY <1>3 DEF Session
<1>5. Alike(a, reset) /\ reset.fault = c.fault /\ reset.handles = c.handles
  BY <1>1, <1>3 DEF Alike, Session
<1>6. Fit(reset) /\ Sound(a, reset)
  BY <1>1, <1>3, <1>4, <1>5 DEF Fit, Sound, Balanced, Session
<1> HIDE DEF reset
<1>7. CASE opens
  <2>1. opened = [reset EXCEPT !.backend = TRUE, !.handles = reset.handles + 1,
                     !.version = IF req.kind = "init2" THEN 2 ELSE 3, !.state = "UP"]
    BY <1>4, <1>7 DEF Session
  <2> HIDE DEF opened, opens
  <2>2. opened \in Session /\ opened.init = TRUE /\ opened.handles > 0
    <3>1. reset.handles + 1 \in Nat /\ reset.handles + 1 > 0
      BY <1>4 DEF Session
    <3>2. (IF req.kind = "init2" THEN 2 ELSE 3) \in 0..3
      OBVIOUS
    <3> QED BY <1>4, <2>1, <3>1, <3>2 DEF Session
  <2>3. Alike(a, opened) /\ opened.fault = reset.fault
    BY <1>4, <1>5, <2>1 DEF Alike, Session
  <2>4. Balanced(reset) => Balanced(opened)
    BY <1>4, <2>1 DEF Balanced, Session
  <2>5. Fit(opened) /\ Sound(a, opened)
    BY <1>6, <2>2, <2>3, <2>4 DEF Fit, Sound
  <2> QED BY <1>2, <1>5, <1>6, <2>3, <2>5
<1>8. CASE ~opens
  <2>1. opened = [reset EXCEPT !.backend = FALSE, !.handles = reset.handles,
                     !.version = IF req.kind = "init2" THEN 2 ELSE 3, !.state = "DEAD"]
    BY <1>4, <1>8 DEF Session
  <2> HIDE DEF opened, opens
  <2>2. opened \in Session /\ opened.backend = FALSE
    <3>1. (IF req.kind = "init2" THEN 2 ELSE 3) \in 0..3
      OBVIOUS
    <3> QED BY <1>4, <2>1, <3>1 DEF Session
  <2>3. Alike(a, opened) /\ opened.fault = reset.fault
    BY <1>4, <1>5, <2>1 DEF Alike, Session
  <2>4. Balanced(reset) => Balanced(opened)
    BY <1>4, <2>1 DEF Balanced, Session
  <2>5. Fit(opened) /\ Sound(a, opened)
    BY <1>6, <2>2, <2>3, <2>4 DEF Fit, Sound
  <2> QED BY <1>2, <1>5, <1>6, <2>3, <2>5
<1> QED BY <1>7, <1>8

(* b is a after n packages have arrived of which the first m are queued.   *)
Loaded(a, b, n, m) ==
  /\ b.net = SubSeq(a.net, n + 1, Len(a.net)) /\ b.taken = a.taken + n
  /\ b.incoming = a.incoming \o SubSeq(a.net, 1, m)
  /\ b.put = a.put /\ b.flags = a.flags /\ b.force = a.force /\ b.accept = a.accept
  /\ b.outgoing = a.outgoing /\ b.eof = a.eof /\ b.towrite = a.towrite
  /\ b.written = a.written /\ b.destroyed = a.destroyed /\ b.unanswered = a.unanswered

\* ir_read: what is read is queued up to the first package that is no
\* request, which is answered (HTTP) or ends the session.
LEMMA ReadOutcome ==
  ASSUME NEW a, Fit(a), NEW k \in 1..Len(a.net)
  PROVE  \E b : \E n \in 1..k, m \in 0..k :
           /\ Fit(b) /\ Sound(a, b) /\ Loaded(a, b, n, m)
           /\ \/ /\ n = k /\ m = k /\ ReadPackages(a, k) = b
                 /\ \A i \in 1..k : a.net[i].kind \notin Garbage
              \/ /\ m = n - 1 /\ a.net[n].kind \in Garbage
                 /\ \/ /\ a.net[n].kind = "httpGarbage" /\ b.state = "DEAD"
                       /\ ReadPackages(a, k) = Answered(b, a.net[n])
                    \/ ReadPackages(a, k) = DoClose(b, 0)
<1> DEFINE batch == SubSeq(a.net, 1, k)
           bad == {i \in 1..k : batch[i].kind \in Garbage}
           n == IF bad = {} THEN k ELSE CHOOSE i \in bad : \A j \in bad : i <= j
           good == IF bad = {} THEN batch ELSE SubSeq(batch, 1, n - 1)
           m == IF bad = {} THEN k ELSE n - 1
           queued == [a EXCEPT !.get = {Inp}, !.net = SubSeq(@, n + 1, Len(@)),
                               !.taken = @ + n, !.incoming = @ \o good]
           b == [queued EXCEPT !.state =
                   IF bad # {} /\ batch[n].kind = "httpGarbage" THEN "DEAD" ELSE @]
<1>0. a \in Session /\ a.net \in Seq(Package) /\ a.incoming \in Seq(Package) /\ a.taken \in Nat
  BY DEF Fit, Session
<1>1. Len(a.net) \in Nat /\ k \in Nat /\ k \in 0..Len(a.net) /\ k # 0
  BY <1>0, LenProperties
<1>2. batch \in Seq(Package) /\ Len(batch) = k /\ \A i \in 1..k : batch[i] = a.net[i]
  BY <1>0, <1>1, Parts
<1>3. n \in 1..k /\ (bad # {} => n \in bad)
  <2>1. CASE bad = {}
    BY <1>1, <2>1
  <2>2. CASE bad # {}
    <3>1. bad \subseteq Nat
      BY <1>1
    <3>2. \E i \in bad : \A j \in bad : i <= j
      <4> HIDE DEF bad
      <4> QED BY <2>2, <3>1, LeastElement
    <3>3. n \in bad
      <4> HIDE DEF bad
      <4> QED BY <2>2, <3>2
    <3> QED BY <3>3
  <2> QED BY <2>1, <2>2
<1>4. m \in 0..k /\ (bad = {} => m = k) /\ (bad # {} => m = n - 1)
  <2> HIDE DEF bad
  <2>1. n - 1 \in 0..k
    <3> HIDE DEF n
    <3> QED BY <1>1, <1>3
  <2> HIDE DEF n
  <2> QED BY <1>1, <2>1
<1>5. good = SubSeq(a.net, 1, m)
  <2>1. CASE bad = {}
    BY <2>1
  <2>2. CASE bad # {}
    <3>1. good = SubSeq(batch, 1, m)
      <4> HIDE DEF batch, n, bad
      <4> QED BY <2>2
    <3> HIDE DEF good, batch, m, n, bad
    <3>2. m \in 0..Len(batch) /\ m \in 0..Len(a.net) /\ m \in Nat
      BY <1>1, <1>2, <1>4
    <3>3. /\ good \in Seq(Package) /\ Len(good) = m
          /\ \A i \in 1..m : good[i] = batch[i]
      BY <1>2, <3>1, <3>2, Parts
    <3>4. /\ SubSeq(a.net, 1, m) \in Seq(Package) /\ Len(SubSeq(a.net, 1, m)) = m
          /\ \A i \in 1..m : SubSeq(a.net, 1, m)[i] = a.net[i]
      BY <1>0, <3>2, Parts
    <3>5. \A i \in 1..m : batch[i] = a.net[i]
      BY <1>1, <1>2, <1>4, <3>2
    <3>6. \A i \in 1..Len(good) : good[i] = SubSeq(a.net, 1, m)[i]
      BY <3>3, <3>4, <3>5
    <3> QED BY <3>3, <3>4, <3>6, SeqEqual
  <2> QED BY <2>1, <2>2
<1>6. ReadPackages(a, k) = IF bad = {} THEN queued
                           ELSE IF batch[n].kind = "httpGarbage"
                           THEN Answered([queued EXCEPT !.state = "DEAD"], batch[n])
                           ELSE DoClose(queued, 0)
  <2>1. ReadPackages(a, k) = CASE bad = {} -> queued
                               [] bad # {} /\ batch[n].kind = "httpGarbage" ->
                                    Answered([queued EXCEPT !.state = "DEAD"], batch[n])
                               [] OTHER -> DoClose(queued, 0)
    BY DEF ReadPackages
  <2> HIDE DEF batch, bad, n, queued
  <2> QED BY <2>1
<1>7. batch[n] = a.net[n]
  <2> HIDE DEF n, batch
  <2> QED BY <1>2, <1>3
<1>8. \A i \in 1..k : bad = {} => a.net[i].kind \notin Garbage
  BY <1>2
<1>9. bad # {} => a.net[n].kind \in Garbage
  <2>1. bad # {} => batch[n].kind \in Garbage
    <3> HIDE DEF n
    <3> QED BY <1>3
  <2> QED BY <1>7, <2>1
<1> HIDE DEF n, bad, good, m, batch
<1>10. queued \in Session
  <2>1. n \in 0..Len(a.net) /\ m \in 0..Len(a.net)
    BY <1>1, <1>3, <1>4
  <2>2. SubSeq(a.net, n + 1, Len(a.net)) \in Seq(Package) /\ good \in Seq(Package)
    BY <1>0, <1>5, <2>1, Parts
  <2>3. a.incoming \o good \in Seq(Package) /\ a.taken + n \in Nat
    BY <1>0, <1>3, <2>2, SeqClosed
  <2> QED BY <1>0, <2>2, <2>3 DEF Session
<1>11. /\ queued.net = SubSeq(a.net, n + 1, Len(a.net)) /\ queued.taken = a.taken + n
       /\ queued.incoming = a.incoming \o good
       /\ queued.put = a.put /\ queued.flags = a.flags /\ queued.force = a.force
       /\ queued.accept = a.accept
       /\ queued.outgoing = a.outgoing /\ queued.eof = a.eof /\ queued.towrite = a.towrite
       /\ queued.written = a.written /\ queued.destroyed = a.destroyed
       /\ queued.unanswered = a.unanswered /\ queued.fault = a.fault
       /\ queued.backend = a.backend /\ queued.init = a.init /\ queued.handles = a.handles
  BY <1>0 DEF Session
<1> HIDE DEF queued
<1>12. b \in Session
  BY <1>10 DEF Session
<1>13. /\ b.net = queued.net /\ b.taken = queued.taken /\ b.incoming = queued.incoming
       /\ b.put = queued.put /\ b.flags = queued.flags /\ b.force = queued.force
       /\ b.accept = queued.accept
       /\ b.outgoing = queued.outgoing /\ b.eof = queued.eof /\ b.towrite = queued.towrite
       /\ b.written = queued.written /\ b.destroyed = queued.destroyed
       /\ b.unanswered = queued.unanswered /\ b.fault = queued.fault
       /\ b.backend = queued.backend /\ b.init = queued.init /\ b.handles = queued.handles
  BY <1>10 DEF Session
<1>14. Fit(b) /\ Sound(a, b) /\ Loaded(a, b, n, m)
  <2> HIDE DEF b
  <2> QED BY <1>5, <1>11, <1>12, <1>13 DEF Fit, Sound, Balanced, Loaded
<1>15. CASE bad = {}
  <2>1. b = queued
    BY <1>10, <1>15 DEF Session
  <2>2. n = k
    BY <1>15 DEF n
  <2>3. ReadPackages(a, k) = b
    BY <1>6, <1>15, <2>1
  <2> HIDE DEF b
  <2> QED BY <1>3, <1>4, <1>8, <1>14, <1>15, <2>2, <2>3
<1>16. CASE bad # {} /\ batch[n].kind = "httpGarbage"
  <2>1. b = [queued EXCEPT !.state = "DEAD"] /\ b.state = "DEAD"
    BY <1>10, <1>16 DEF Session
  <2>2. ReadPackages(a, k) = Answered(b, a.net[n])
    BY <1>6, <1>7, <1>16, <2>1
  <2> HIDE DEF b
  <2> QED BY <1>3, <1>4, <1>7, <1>9, <1>14, <1>16, <2>1, <2>2
<1>17. CASE bad # {} /\ batch[n].kind # "httpGarbage"
  <2>1. b = queued
    BY <1>10, <1>17 DEF Session
  <2>2. ReadPackages(a, k) = DoClose(b, 0)
    BY <1>6, <1>17, <2>1
  <2> HIDE DEF b
  <2> QED BY <1>3, <1>4, <1>9, <1>14, <1>17, <2>2
<1> QED BY <1>15, <1>16, <1>17

\* What is sound goes on being so.
LEMMA SoundChain ==
  ASSUME NEW a, NEW b, NEW c, Sound(a, b), Sound(b, c)
  PROVE  Sound(a, c)
BY DEF Sound

\* A record is like itself.
LEMMA AlikeSelf ==
  ASSUME NEW a
  PROVE  Alike(a, a) /\ Sound(a, a)
BY DEF Alike, Sound

\* ir_read keeps the record well formed.
LEMMA ReadFits ==
  ASSUME NEW a, Fit(a), NEW k \in 1..Len(a.net)
  PROVE  Fit(ReadPackages(a, k)) /\ Sound(a, ReadPackages(a, k))
<1>0. PICK b : \E n \in 1..k :
        /\ Fit(b) /\ Sound(a, b)
        /\ ReadPackages(a, k) \in {b, Answered(b, a.net[n]), DoClose(b, 0)}
  BY ReadOutcome
<1>1. PICK n \in 1..k :
        /\ Fit(b) /\ Sound(a, b)
        /\ ReadPackages(a, k) \in {b, Answered(b, a.net[n]), DoClose(b, 0)}
  BY <1>0
<1>2. a.net[n] \in Package /\ 0 \in 0..MaxPackages
  <2>1. a.net \in Seq(Package)
    BY DEF Fit, Session
  <2>2. n \in 1..Len(a.net)
    BY <2>1, LenProperties
  <2> QED BY <2>1, <2>2, ElementOfSeq, SessionAssumption
<1>3. CASE ReadPackages(a, k) = b
  BY <1>1, <1>3
<1>4. CASE ReadPackages(a, k) = Answered(b, a.net[n])
  BY <1>1, <1>2, <1>4, RespondFits, SoundChain
<1>5. CASE ReadPackages(a, k) = DoClose(b, 0)
  BY <1>1, <1>2, <1>5, RespondFits, SoundChain
<1> QED BY <1>1, <1>3, <1>4, <1>5

\* So does the end of the client's stream.
LEMMA ReadEofFits ==
  ASSUME NEW a, Fit(a)
  PROVE  Fit(ReadEof(a)) /\ Sound(a, ReadEof(a)) /\ Alike(a, ReadEof(a))
<1> DEFINE b == ReadEof(a)
<1>1. a \in Session /\ b = [a EXCEPT !.get = {Inp}, !.state = "DEAD"]
  BY DEF Fit, ReadEof
<1> HIDE DEF b
<1>2. b \in Session
  BY <1>1 DEF Session
<1>3. /\ b.backend = a.backend /\ b.init = a.init /\ b.handles = a.handles
      /\ b.fault = a.fault
  BY <1>1 DEF Session
<1>4. Alike(a, b)
  BY <1>1 DEF Alike, Session
<1>5. Fit(b) /\ Sound(a, b)
  BY <1>2, <1>3 DEF Fit, Sound, Balanced
<1> QED BY <1>4, <1>5 DEF b

\* What bend_assoc_is_alive may find.
LEMMA IsAliveOutcome ==
  ASSUME NEW a, Fit(a)
  PROVE  /\ Fit(IsAlive(a)) /\ Sound(a, IsAlive(a))
         /\ ~Polling => IsAlive(a) = a
         /\ \/ IsAlive(a) = a \/ IsAlive(a) = ReadEof(a)
            \/ /\ Len(a.net) \in 1..Len(a.net)
               /\ IsAlive(a) = ReadPackages(a, Len(a.net))
<1>1. a.net \in Seq(Package) /\ Len(a.net) \in Nat /\ (a.net # <<>> => Len(a.net) # 0)
  <2>1. a.net \in Seq(Package)
    BY DEF Fit, Session
  <2> QED BY <2>1, LenProperties, EmptySeq
<1>2. /\ ~Polling => IsAlive(a) = a
      /\ \/ IsAlive(a) = a \/ IsAlive(a) = ReadEof(a)
         \/ a.net # <<>> /\ IsAlive(a) = ReadPackages(a, Len(a.net))
  <2>1. CASE a.state = "DEAD" \/ ~Polling
    BY <2>1 DEF IsAlive
  <2>2. CASE ~(a.state = "DEAD" \/ ~Polling) /\ a.net # <<>>
    BY <2>2 DEF IsAlive
  <2>3. CASE ~(a.state = "DEAD" \/ ~Polling) /\ a.net = <<>> /\ a.eof
    BY <2>3 DEF IsAlive
  <2>4. CASE ~(a.state = "DEAD" \/ ~Polling) /\ a.net = <<>> /\ ~a.eof
    BY <2>4 DEF IsAlive
  <2> QED BY <2>1, <2>2, <2>3, <2>4
<1>3. a.net # <<>> => Len(a.net) \in 1..Len(a.net)
  BY <1>1
<1>4. CASE IsAlive(a) = a
  BY <1>2, <1>4, AlikeSelf
<1>5. CASE IsAlive(a) = ReadEof(a)
  BY <1>2, <1>5, ReadEofFits
<1>6. CASE a.net # <<>> /\ IsAlive(a) = ReadPackages(a, Len(a.net))
  BY <1>2, <1>3, <1>6, ReadFits
<1> QED BY <1>2, <1>4, <1>5, <1>6

\* process_gdu_request: whatever the request, a record that has the queues
\* of the one before (or in which a polling backend has queued more) is left
\* as it is, gets a response, or is closed.
LEMMA RequestOutcome ==
  ASSUME NEW a, Fit(a), NEW req \in Package
  PROVE  \E b : /\ Fit(b) /\ Sound(a, b)
                /\ Alike(a, b) \/ (Polling /\ b = IsAlive(a))
                /\ ProcessRequest(a, req) \in {b, Answered(b, req), DoClose(b, req.id)}
<1> DEFINE p == ProcessRequest(a, req)
<1>1. p \in {HttpRequest(a, req), InitRequest(a, req), DoClose(a, req.id), CloseRequest(a, req),
             a, Answered(IsAlive(a), req), Answered(a, req)}
  BY DEF ProcessRequest
<1> HIDE DEF p
<1>2. CASE p = HttpRequest(a, req)
  BY <1>2, HttpOutcome DEF p
<1>3. CASE p = InitRequest(a, req)
  BY <1>3, InitOutcome DEF p
<1>4. CASE p \in {DoClose(a, req.id), a, Answered(a, req)}
  BY <1>4, AlikeSelf DEF p
<1>5. CASE p = Answered(IsAlive(a), req)
  BY <1>5, IsAliveOutcome, AlikeSelf, SessionAssumption DEF p
<1>6. CASE p = CloseRequest(a, req)
  <2> DEFINE b == [a EXCEPT !.version = IF @ < 3 THEN 3 ELSE @]
  <2>1. p = DoClose(b, req.id)
    BY <1>6 DEF CloseRequest
  <2>2. a \in Session /\ (a.backend => a.init /\ a.handles > 0)
    BY DEF Fit
  <2>3. (IF a.version < 3 THEN 3 ELSE a.version) \in 0..3
    BY <2>2 DEF Session
  <2>4. b \in Session
    BY <2>2, <2>3 DEF Session
  <2>5. /\ b.backend = a.backend /\ b.init = a.init /\ b.handles = a.handles
        /\ b.fault = a.fault
    BY <2>2 DEF Session
  <2>6. Alike(a, b)
    BY <2>2 DEF Alike, Session
  <2> HIDE DEF b
  <2>7. Fit(b) /\ Sound(a, b)
    BY <2>2, <2>4, <2>5 DEF Fit, Sound, Balanced
  <2> QED BY <2>1, <2>6, <2>7 DEF p
<1> QED BY <1>1, <1>2, <1>3, <1>4, <1>5, <1>6

-----------------------------------------------------------------------------
(* The queues and the masks.                                               *)

\* What Answered does, field by field.
LEMMA AnsweredIs ==
  ASSUME NEW a, Fit(a), NEW req \in Package, NEW p, p = Answered(a, req)
  PROVE  /\ p.outgoing = Append(a.outgoing, [id |-> req.id, bye |-> FALSE, len |-> AnswerLength])
         /\ p.put = {Outp} /\ p.flags = a.flags \cup {Outp}
         /\ p.state = a.state /\ p.incoming = a.incoming /\ p.net = a.net /\ p.taken = a.taken
         /\ p.accept = a.accept /\ p.destroyed = a.destroyed /\ p.eof = a.eof
         /\ p.towrite = a.towrite /\ p.written = a.written /\ p.unanswered = a.unanswered
BY DEF Answered, Respond, Fit, Session

\* What do_close_req does, field by field.
LEMMA DoCloseIs ==
  ASSUME NEW a, Fit(a), NEW id \in 0..MaxPackages, NEW p, p = DoClose(a, id)
  PROVE  /\ \/ p.outgoing = <<>> /\ p.put = {}
            \/ /\ p.outgoing = <<[id |-> id, bye |-> TRUE, len |-> CloseLength]>>
               /\ p.put = {Outp} /\ Outp \in p.flags
         /\ p.state = "DEAD" /\ p.incoming = <<>> /\ p.net = a.net /\ p.taken = a.taken
         /\ p.accept = a.accept /\ p.destroyed = a.destroyed /\ p.eof = a.eof
         /\ p.towrite = a.towrite /\ p.written = a.written /\ p.unanswered = a.unanswered
<1>1. Append(<<>>, [id |-> id, bye |-> TRUE, len |-> CloseLength])
        = <<[id |-> id, bye |-> TRUE, len |-> CloseLength]>>
  OBVIOUS
<1>2. CASE a.version >= 3
  BY <1>1, <1>2 DEF DoClose, Respond, Fit, Session
<1>3. CASE ~(a.version >= 3)
  BY <1>3 DEF DoClose, Respond, Fit, Session
<1> QED BY <1>2, <1>3

(* The output handler is armed exactly while a response waits.             *)
Masks(a) == IF a.outgoing = <<>> THEN a.put = {} ELSE a.put = {Outp} /\ Outp \in a.flags

(* The requests that have been read or can be.                             *)
Load(a) == Len(a.incoming) + Len(a.net)

(* What any amount of processing leads to from a.                          *)
Goes(a, p) ==
  /\ Fit(p) /\ Masks(p) /\ Sound(a, p)
  /\ p.accept = a.accept /\ p.destroyed = a.destroyed /\ p.eof = a.eof
  /\ p.towrite = a.towrite /\ p.written = a.written /\ p.unanswered = a.unanswered
  /\ Load(p) <= Load(a)

\* The load is a number.
LEMMA LoadType ==
  ASSUME NEW a, Fit(a)
  PROVE  /\ Load(a) \in Nat /\ Len(a.incoming) \in Nat /\ Len(a.net) \in Nat
         /\ a.incoming \in Seq(Package) /\ a.net \in Seq(Package) /\ a.outgoing \in Seq(Response)
         /\ a.incoming = <<>> <=> Len(a.incoming) = 0
<1>1. a.incoming \in Seq(Package) /\ a.net \in Seq(Package) /\ a.outgoing \in Seq(Response)
  BY DEF Fit, Session
<1>2. Len(a.incoming) \in Nat /\ Len(a.net) \in Nat
  BY <1>1, LenProperties
<1>3. \A m, n \in Nat : m + n \in Nat
  OBVIOUS
<1>4. Load(a) \in Nat
  BY <1>2, <1>3, Zenon DEF Load
<1>5. a.incoming = <<>> <=> Len(a.incoming) = 0
  BY <1>1, EmptySeq
<1> QED BY <1>1, <1>2, <1>4, <1>5

\* Processing may be followed by processing.
LEMMA GoesChain ==
  ASSUME NEW a, Fit(a), NEW b, NEW c, Goes(a, b), Goes(b, c)
  PROVE  Goes(a, c)
<1>1. Load(a) \in Nat /\ Load(b) \in Nat /\ Load(c) \in Nat
  BY LoadType DEF Goes
<1>2. Load(c) <= Load(a)
  BY <1>1 DEF Goes
<1>3. Sound(a, c)
  BY SoundChain DEF Goes
<1> QED BY <1>2, <1>3 DEF Goes

\* A record like it, a response and a Close are such processing.
LEMMA GoesSteps ==
  ASSUME NEW a, Fit(a)
  PROVE  /\ Masks(a) => Goes(a, a)
         /\ \A b : Masks(a) /\ Fit(b) /\ Sound(a, b) /\ Alike(a, b) => Goes(a, b)
         /\ \A req \in Package : Goes(a, Answered(a, req))
         /\ \A id \in 0..MaxPackages : Goes(a, DoClose(a, id))
<1>0. Load(a) \in Nat /\ Len(a.net) \in Nat /\ Len(a.incoming) \in Nat /\ Load(a) <= Load(a)
  BY LoadType
<1>1. ASSUME NEW b, Masks(a), Fit(b), Sound(a, b), Alike(a, b) PROVE Goes(a, b)
  <2>1. Masks(b)
    BY <1>1 DEF Masks, Alike
  <2>2. Load(b) = Load(a)
    BY <1>1 DEF Load, Alike
  <2> QED BY <1>0, <1>1, <2>1, <2>2 DEF Goes, Alike
<1>2. ASSUME NEW req \in Package PROVE Goes(a, Answered(a, req))
  <2> DEFINE p == Answered(a, req)
             r == [id |-> req.id, bye |-> FALSE, len |-> AnswerLength]
  <2>1. Fit(p) /\ Sound(a, p)
    BY RespondFits
  <2>2. /\ p.outgoing = Append(a.outgoing, r)
        /\ p.put = {Outp} /\ p.flags = a.flags \cup {Outp}
        /\ p.incoming = a.incoming /\ p.net = a.net
        /\ p.accept = a.accept /\ p.destroyed = a.destroyed /\ p.eof = a.eof
        /\ p.towrite = a.towrite /\ p.written = a.written /\ p.unanswered = a.unanswered
    BY AnsweredIs
  <2>3. Append(a.outgoing, r) # <<>>
    <3>1. r \in Response
      BY SessionAssumption DEF Response, Package
    <3>2. a.outgoing \in Seq(Response)
      BY LoadType
    <3> HIDE DEF r
    <3> QED BY <3>1, <3>2, AppendProperties
  <2> HIDE DEF p, r
  <2>4. Masks(p)
    BY <2>2, <2>3 DEF Masks
  <2>5. Load(p) = Load(a)
    BY <2>2 DEF Load
  <2>6. Goes(a, p)
    BY <1>0, <2>1, <2>2, <2>4, <2>5 DEF Goes
  <2> QED BY <2>6 DEF p
<1>3. ASSUME NEW id \in 0..MaxPackages PROVE Goes(a, DoClose(a, id))
  <2> DEFINE p == DoClose(a, id)
             r == [id |-> id, bye |-> TRUE, len |-> CloseLength]
  <2>1. Fit(p) /\ Sound(a, p)
    BY RespondFits
  <2>2. /\ \/ p.outgoing = <<>> /\ p.put = {}
           \/ p.outgoing = <<r>> /\ p.put = {Outp} /\ Outp \in p.flags
        /\ p.incoming = <<>> /\ p.net = a.net
        /\ p.accept = a.accept /\ p.destroyed = a.destroyed /\ p.eof = a.eof
        /\ p.towrite = a.towrite /\ p.written = a.written /\ p.unanswered = a.unanswered
    BY DoCloseIs
  <2> HIDE DEF p, r
  <2>3. Masks(p)
    <3>1. <<r>> # <<>>
      OBVIOUS
    <3> QED BY <2>2, <3>1 DEF Masks
  <2>4. Load(p) <= Load(a)
    <3>1. Load(p) = 0 + Len(a.net)
      BY <2>2 DEF Load
    <3>2. \A m, n \in Nat : 0 + n <= m + n
      OBVIOUS
    <3> QED BY <1>0, <3>1, <3>2, Zenon DEF Load
  <2>5. Goes(a, p)
    BY <2>1, <2>2, <2>3, <2>4 DEF Goes
  <2> QED BY <2>5 DEF p
<1>4. Masks(a) => Goes(a, a)
  BY <1>1, AlikeSelf
<1> QED BY <1>1, <1>2, <1>3, <1>4

\* Reading packages is: each that leaves the wire is queued at most once.
LEMMA LoadedGoes ==
  ASSUME NEW a, Fit(a), Masks(a), NEW b, Fit(b), Sound(a, b),
         NEW n \in 1..Len(a.net), NEW m \in 0..n, Loaded(a, b, n, m)
  PROVE  Goes(a, b)
<1>1. /\ a.incoming \in Seq(Package) /\ a.net \in Seq(Package)
      /\ Len(a.incoming) \in Nat /\ Len(a.net) \in Nat
  BY LoadType
<1>2. n \in 0..Len(a.net) /\ m \in 0..Len(a.net) /\ n \in Nat /\ m \in Nat /\ m <= n
  BY <1>1
<1>3. /\ SubSeq(a.net, 1, m) \in Seq(Package) /\ Len(SubSeq(a.net, 1, m)) = m
      /\ Len(SubSeq(a.net, n + 1, Len(a.net))) = Len(a.net) - n
  BY <1>1, <1>2, Parts
<1>4. Len(b.incoming) = Len(a.incoming) + m /\ Len(b.net) = Len(a.net) - n
  <2>1. Len(a.incoming \o SubSeq(a.net, 1, m)) = Len(a.incoming) + Len(SubSeq(a.net, 1, m))
    BY <1>1, <1>3, ConcatProperties
  <2> QED BY <1>3, <2>1, Zenon DEF Loaded
<1>5. \A i, j \in Nat : (i + m) + (j - n) <= i + j
  BY <1>2
<1>6. Load(b) <= Load(a)
  BY <1>1, <1>4, <1>5, Zenon DEF Load
<1>7. Masks(b)
  BY DEF Masks, Loaded
<1> QED BY <1>6, <1>7 DEF Goes, Loaded

LEMMA ReadGoes ==
  ASSUME NEW a, Fit(a), Masks(a), NEW k \in 1..Len(a.net)
  PROVE  Goes(a, ReadPackages(a, k))
<1>1. PICK b : \E n \in 1..k, m \in 0..k :
           /\ Fit(b) /\ Sound(a, b) /\ Loaded(a, b, n, m) /\ (m = n \/ m = n - 1)
           /\ ReadPackages(a, k) \in {b, Answered(b, a.net[n]), DoClose(b, 0)}
  BY ReadOutcome
<1>2. PICK n \in 1..k, m \in 0..k :
           /\ Fit(b) /\ Sound(a, b) /\ Loaded(a, b, n, m) /\ (m = n \/ m = n - 1)
           /\ ReadPackages(a, k) \in {b, Answered(b, a.net[n]), DoClose(b, 0)}
  BY <1>1
<1>3. a.net \in Seq(Package) /\ Len(a.net) \in Nat
  BY LoadType
<1>4. n \in 1..Len(a.net) /\ m \in 0..n
  BY <1>2, <1>3
<1>5. a.net[n] \in Package /\ 0 \in 0..MaxPackages
  BY <1>3, <1>4, ElementOfSeq, SessionAssumption
<1>6. Goes(a, b)
  BY <1>2, <1>4, LoadedGoes
<1>7. Goes(b, Answered(b, a.net[n])) /\ Goes(b, DoClose(b, 0))
  BY <1>2, <1>5, GoesSteps
<1> QED BY <1>2, <1>6, <1>7, GoesChain

\* One request is.
LEMMA RequestGoes ==
  ASSUME NEW a, Fit(a), Masks(a), NEW req \in Package
  PROVE  Goes(a, ProcessRequest(a, req))
<1>1. PICK b : /\ Fit(b) /\ Sound(a, b)
               /\ Alike(a, b) \/ (Polling /\ b = IsAlive(a))
               /\ ProcessRequest(a, req) \in {b, Answered(b, req), DoClose(b, req.id)}
  BY RequestOutcome
<1>2. req.id \in 0..MaxPackages
  BY SessionAssumption DEF Package
<1>3. Goes(a, b)
  <2>1. CASE Alike(a, b)
    BY <1>1, <2>1, GoesSteps
  <2>2. CASE b = IsAlive(a)
    <3>1. CASE b = a
      BY <3>1, GoesSteps
    <3>2. CASE b = ReadEof(a)
      BY <1>1, <3>2, GoesSteps, ReadEofFits
    <3>3. CASE Len(a.net) \in 1..Len(a.net) /\ b = ReadPackages(a, Len(a.net))
      BY <3>3, ReadGoes
    <3> QED BY <2>2, <3>1, <3>2, <3>3, IsAliveOutcome
  <2> QED BY <1>1, <2>1, <2>2
<1>4. Goes(b, Answered(b, req)) /\ Goes(b, DoClose(b, req.id))
  BY <1>1, <1>2, GoesSteps
<1> QED BY <1>1, <1>3, <1>4, GoesChain

\* Taking the head of the queue leaves a record like the one before.
LEMMA HeadTaken ==
  ASSUME NEW a, Fit(a), a.incoming # <<>>, NEW c, c = [a EXCEPT !.incoming = Tail(@)]
  PROVE  /\ Head(a.incoming) \in Package /\ Head(a.incoming) = a.incoming[1]
         /\ Fit(c) /\ Sound(a, c) /\ (Masks(a) => Masks(c))
         /\ Load(c) = Load(a) - 1
         /\ c.incoming = Tail(a.incoming)
         /\ Len(c.incoming) = Len(a.incoming) - 1
         /\ \A i \in 1..(Len(a.incoming) - 1) : c.incoming[i] = a.incoming[i + 1]
         /\ c.outgoing = a.outgoing /\ c.net = a.net /\ c.taken = a.taken
         /\ c.put = a.put /\ c.flags = a.flags /\ c.accept = a.accept
         /\ c.destroyed = a.destroyed /\ c.eof = a.eof /\ c.towrite = a.towrite
         /\ c.written = a.written /\ c.unanswered = a.unanswered
         /\ c.state = a.state
<1>0. a \in Session /\ (a.backend => a.init /\ a.handles > 0)
  BY DEF Fit
<1>1. a.incoming \in Seq(Package) /\ Len(a.incoming) \in Nat /\ Len(a.net) \in Nat
  BY LoadType
<1>2. /\ Tail(a.incoming) \in Seq(Package) /\ Head(a.incoming) \in Package
      /\ Len(Tail(a.incoming)) = Len(a.incoming) - 1
      /\ \A i \in 1..Len(Tail(a.incoming)) : Tail(a.incoming)[i] = a.incoming[i + 1]
  BY <1>1, HeadTailProperties
<1>3. c \in Session
  BY <1>0, <1>2 DEF Session
<1>4. /\ c.outgoing = a.outgoing /\ c.net = a.net /\ c.taken = a.taken
      /\ c.put = a.put /\ c.flags = a.flags /\ c.accept = a.accept
      /\ c.destroyed = a.destroyed /\ c.eof = a.eof /\ c.towrite = a.towrite
      /\ c.written = a.written /\ c.unanswered = a.unanswered
      /\ c.backend = a.backend /\ c.init = a.init /\ c.handles = a.handles
      /\ c.fault = a.fault /\ c.incoming = Tail(a.incoming) /\ c.state = a.state
  BY <1>0 DEF Session
<1>5. Fit(c) /\ Sound(a, c) /\ (Masks(a) => Masks(c))
  BY <1>0, <1>3, <1>4 DEF Fit, Sound, Balanced, Masks
<1>6. \A i, j \in Nat : (i - 1) + j = (i + j) - 1
  OBVIOUS
<1>7. Load(c) = Load(a) - 1
  BY <1>1, <1>2, <1>4, <1>6, Zenon DEF Load
<1>8. Head(a.incoming) = a.incoming[1]
  BY <1>1
<1> QED BY <1>2, <1>4, <1>5, <1>7, <1>8

\* One turn of the loop takes a request away.
LEMMA HeadGoes ==
  ASSUME NEW a, Fit(a), Masks(a), a.incoming # <<>>
  PROVE  Goes(a, ProcessHead(a)) /\ Load(ProcessHead(a)) < Load(a)
<1> DEFINE c == [a EXCEPT !.incoming = Tail(@)]
           p == ProcessHead(a)
<1>1. /\ Fit(c) /\ Sound(a, c) /\ Masks(c) /\ Load(c) = Load(a) - 1
      /\ Head(a.incoming) \in Package
      /\ c.accept = a.accept
      /\ c.destroyed = a.destroyed /\ c.eof = a.eof /\ c.towrite = a.towrite
      /\ c.written = a.written /\ c.unanswered = a.unanswered
  BY HeadTaken
<1>2. p = ProcessRequest(c, Head(a.incoming))
  BY DEF ProcessHead
<1> HIDE DEF c, p
<1>3. Goes(c, p)
  BY <1>1, <1>2, RequestGoes
<1>4. Load(a) \in Nat /\ Load(c) \in Nat /\ Load(p) \in Nat
  BY <1>1, <1>3, LoadType DEF Goes
<1>5. Goes(a, c)
  BY <1>1, <1>4 DEF Goes
<1>6. Load(p) < Load(a)
  BY <1>1, <1>3, <1>4 DEF Goes
<1>7. Goes(a, p)
  BY <1>3, <1>5, GoesChain
<1> QED BY <1>6, <1>7 DEF p

\* The loop ends with no request waiting, whatever a polling backend queues.
LEMMA DrainGoes ==
  ASSUME NEW a, Fit(a), Masks(a)
  PROVE  Goes(a, Drain(a)) /\ Drain(a).incoming = <<>>
<1>0. a.incoming \in Seq(Package) /\ a.net \in Seq(Package)
  BY LoadType
<1>1. PICK f : /\ Load(a) \in Nat
               /\ f[0] = a
               /\ \A n \in 0..Load(a) : n # Load(a) => f[n + 1] = DrainOne(f[n])
               /\ Drain(a) = f[Load(a)]
  BY <1>0, TurnsAre DEF Load
<1> DEFINE k == Load(a)
           P(n) == Goes(a, f[n]) /\ (f[n].incoming = <<>> \/ Load(f[n]) <= k - n)
           S == {n \in Nat : n <= k => P(n)}
<1> HIDE DEF k
<1>2. 0 \in S
  BY <1>1, GoesSteps DEF k
<1>3. ASSUME NEW n \in Nat, n \in S PROVE n + 1 \in S
  <2>1. SUFFICES ASSUME n + 1 <= k PROVE P(n + 1)
    OBVIOUS
  <2>2. k \in Nat /\ n \in 0..k /\ n # k /\ n <= k
    BY <1>1, <2>1 DEF k
  <2>3. P(n) /\ f[n + 1] = DrainOne(f[n])
    BY <1>1, <1>3, <2>2 DEF k
  <2> DEFINE b == f[n]
  <2>4. Fit(b) /\ Masks(b)
    BY <2>3 DEF Goes
  <2>5. CASE b.incoming = <<>>
    BY <2>3, <2>5 DEF DrainOne
  <2>6. CASE b.incoming # <<>>
    <3>1. f[n + 1] = ProcessHead(b)
      BY <2>3, <2>6 DEF DrainOne
    <3>2. Goes(b, ProcessHead(b)) /\ Load(ProcessHead(b)) < Load(b)
      BY <2>4, <2>6, HeadGoes
    <3>3. Load(ProcessHead(b)) \in Nat /\ Load(b) \in Nat
      BY <2>4, <3>2, LoadType DEF Goes
    <3>4. Load(b) <= k - n
      BY <2>3, <2>6
    <3>5. Load(ProcessHead(b)) <= k - (n + 1)
      BY <2>2, <3>2, <3>3, <3>4
    <3>6. Goes(a, ProcessHead(b))
      BY <2>3, <3>2, GoesChain
    <3> QED BY <3>1, <3>5, <3>6
  <2> QED BY <2>5, <2>6
<1>4. Nat \subseteq S
  <2> HIDE DEF S
  <2> QED BY <1>2, <1>3, SetInduction
<1>5. P(k)
  BY <1>1, <1>4 DEF k
<1>6. Goes(a, Drain(a)) /\ (Drain(a).incoming = <<>> \/ Load(Drain(a)) <= k - k)
  BY <1>1, <1>5 DEF k
<1>7. CASE Load(Drain(a)) <= k - k
  <2> DEFINE d == Drain(a)
  <2>1. Fit(d)
    BY <1>6 DEF Goes
  <2> HIDE DEF d
  <2>2. /\ Load(d) \in Nat /\ Len(d.incoming) \in Nat /\ Len(d.net) \in Nat
        /\ d.incoming = <<>> <=> Len(d.incoming) = 0
    BY <2>1, LoadType
  <2>3. Load(d) <= 0
    BY <1>1, <1>7 DEF k, d
  <2>4. \A i, j \in Nat : i + j <= 0 => i = 0
    OBVIOUS
  <2>5. Len(d.incoming) = 0
    BY <2>2, <2>3, <2>4, Zenon DEF Load
  <2> QED BY <1>6, <2>2, <2>5 DEF d
<1> QED BY <1>6, <1>7

-----------------------------------------------------------------------------
(* The invariant of the session's record.                                  *)

(* On a server for all hosts: nothing is amiss, the handles add up.        *)
Clean(a) == Known = Hosts => ~a.fault /\ Balanced(a)

(* A session that the handlers for input and output may work on.           *)
Working(a) == Fit(a) /\ Masks(a) /\ ~a.destroyed /\ a.accept = {} /\ Clean(a)

SessionInv(a) ==
  /\ Fit(a) /\ Clean(a)
  /\ a.destroyed => a.incoming = <<>> /\ a.outgoing = <<>>
  /\ ~a.destroyed => Masks(a)
  /\ a.accept # {} => a.state = "NEW" /\ a.outgoing = <<>>
  /\ a.incoming # <<>> => a.unanswered

Inv == TypeOK /\ SessionInv(s) /\ (s.destroyed => pending = {})

\* Processing leads from a session at work to one at work.
LEMMA GoesWorking ==
  ASSUME NEW a, Working(a), NEW p, Goes(a, p)
  PROVE  Working(p)
BY DEF Working, Goes, Sound, Clean

\* A session at work whose queue is empty, or rightly waits, is in order.
LEMMA WorkingInv ==
  ASSUME NEW a, Working(a), a.incoming # <<>> => a.unanswered
  PROVE  SessionInv(a)
BY DEF Working, SessionInv

\* The note whether the last request had an answer.
LEMMA NotedWorking ==
  ASSUME NEW a, Working(a), NEW u \in BOOLEAN, NEW b, b = [a EXCEPT !.unanswered = u]
  PROVE  Working(b) /\ b.unanswered = u /\ b.incoming = a.incoming
<1>1. a \in Session
  BY DEF Working, Fit
<1>2. b \in Session
  BY <1>1 DEF Session
<1>3. /\ b.unanswered = u /\ b.incoming = a.incoming /\ b.backend = a.backend
      /\ b.init = a.init /\ b.handles = a.handles /\ b.fault = a.fault
      /\ b.outgoing = a.outgoing /\ b.put = a.put /\ b.flags = a.flags
      /\ b.destroyed = a.destroyed /\ b.accept = a.accept
  BY <1>1 DEF Session
<1> QED BY <1>2, <1>3 DEF Working, Fit, Masks, Clean, Balanced

\* destroy_association closes the backend and empties the queues.
LEMMA DestroyInv ==
  ASSUME NEW a, SessionInv(a), NEW b, b = DestroyAssociation(a)
  PROVE  /\ SessionInv(b) /\ b.destroyed = TRUE /\ b.taken = a.taken
         /\ b.state = a.state /\ b.net = a.net
<1>1. /\ a \in Session /\ (a.backend => a.init /\ a.handles > 0)
      /\ a.accept # {} => a.state = "NEW"
  BY DEF SessionInv, Fit
<1>2. b = [a EXCEPT !.destroyed = TRUE, !.backend = FALSE,
                    !.handles = IF a.backend THEN a.handles - 1 ELSE a.handles,
                    !.incoming = <<>>, !.outgoing = <<>>]
  BY <1>1 DEF DestroyAssociation, Session
<1>3. (IF a.backend THEN a.handles - 1 ELSE a.handles) \in Nat
  BY <1>1 DEF Session
<1>4. <<>> \in Seq(Package) /\ <<>> \in Seq(Response)
  BY SeqClosed
<1>5. b \in Session
  BY <1>1, <1>2, <1>3, <1>4, ZenonT(40) DEF Session
<1>6. /\ b.destroyed = TRUE /\ b.backend = FALSE /\ b.incoming = <<>> /\ b.outgoing = <<>>
      /\ b.handles = (IF a.backend THEN a.handles - 1 ELSE a.handles)
      /\ b.fault = a.fault /\ b.accept = a.accept /\ b.state = a.state /\ b.taken = a.taken
      /\ b.net = a.net
  BY <1>1, <1>2 DEF Session
<1>7. Balanced(a) => Balanced(b)
  <2>1. a.handles \in Nat
    BY <1>1 DEF Session
  <2> QED BY <1>1, <1>6, <2>1 DEF Balanced
<1>8. Fit(b) /\ Clean(b)
  BY <1>5, <1>6, <1>7 DEF SessionInv, Fit, Clean
<1> QED BY <1>1, <1>6, <1>8 DEF SessionInv

\* What ir_session does with the packages that ir_read has read.
LEMMA InputInv ==
  ASSUME NEW a, Working(a), NEW k \in 1..Len(a.net), NEW bad,
         bad <=> (\E i \in 1..k : a.net[i].kind \in Garbage),
         NEW p, p = IF bad THEN Drain(ReadPackages(a, k)) ELSE TakeRequests(ReadPackages(a, k))
  PROVE  Working(p) /\ SessionInv(p)
<1> DEFINE r == ReadPackages(a, k)
<1>0. Fit(a) /\ Masks(a)
  BY DEF Working
<1>1. Goes(a, r) /\ Working(r)
  BY <1>0, ReadGoes, GoesWorking
<1>2. Fit(r) /\ Masks(r)
  BY <1>1 DEF Goes
<1>3. CASE bad
  <2>1. p = Drain(r)
    BY <1>3
  <2> HIDE DEF r
  <2>2. Goes(r, p) /\ p.incoming = <<>>
    BY <1>2, <2>1, DrainGoes
  <2>3. Working(p)
    BY <1>1, <2>2, GoesWorking
  <2> QED BY <2>2, <2>3, WorkingInv
<1>4. CASE ~bad
  <2>1. r.incoming # <<>>
    <3>1. PICK b : \E n \in 1..k, m \in 0..k :
             /\ Loaded(a, b, n, m) /\ m = k /\ r = b
      <4>1. \A n \in 1..k : a.net[n].kind \notin Garbage
        BY <1>4
      <4>2. k \in 1..k
        BY <1>0, LoadType
      <4> HIDE DEF r
      <4> QED BY <1>0, <4>1, <4>2, ReadOutcome DEF r
    <3>2. r.incoming = a.incoming \o SubSeq(a.net, 1, k)
      <4> HIDE DEF r
      <4> QED BY <3>1 DEF Loaded
    <3>3. a.incoming \in Seq(Package) /\ a.net \in Seq(Package) /\ Len(a.net) \in Nat
      BY <1>0, LoadType
    <3>4. k \in 0..Len(a.net) /\ k \in Nat /\ k # 0
      BY <3>3
    <3>5. SubSeq(a.net, 1, k) \in Seq(Package) /\ Len(SubSeq(a.net, 1, k)) = k
      BY <3>3, <3>4, Parts
    <3>6. SubSeq(a.net, 1, k) # <<>>
      BY <3>4, <3>5, EmptySeq
    <3>7. ASSUME NEW q \in Seq(Package), NEW t \in Seq(Package), t # <<>>
          PROVE  q \o t # <<>>
      BY <3>7, ConcatEqualIffEmpty
    <3>8. a.incoming \o SubSeq(a.net, 1, k) # <<>>
      BY <3>3, <3>5, <3>6, <3>7
    <3> QED BY <3>2, <3>8
  <2> DEFINE b == ProcessHead(r)
  <2>2. p = IF b.outgoing # r.outgoing
            THEN [Drain(b) EXCEPT !.unanswered = FALSE] ELSE [b EXCEPT !.unanswered = TRUE]
    BY <1>4 DEF TakeRequests
  <2> HIDE DEF r
  <2>3. Goes(r, b) /\ Working(b)
    BY <1>1, <1>2, <2>1, HeadGoes, GoesWorking
  <2>4. Fit(b) /\ Masks(b)
    BY <2>3 DEF Goes
  <2> HIDE DEF b
  <2>5. CASE b.outgoing # r.outgoing
    <3>1. Goes(b, Drain(b)) /\ Drain(b).incoming = <<>>
      BY <2>4, DrainGoes
    <3>2. Working(Drain(b))
      BY <2>3, <3>1, GoesWorking
    <3>3. p = [Drain(b) EXCEPT !.unanswered = FALSE]
      BY <2>2, <2>5
    <3>4. Working(p) /\ p.incoming = <<>>
      BY <3>1, <3>2, <3>3, NotedWorking
    <3> QED BY <3>4, WorkingInv
  <2>6. CASE ~(b.outgoing # r.outgoing)
    <3>1. p = [b EXCEPT !.unanswered = TRUE]
      BY <2>2, <2>6
    <3>2. Working(p) /\ p.unanswered = TRUE
      BY <2>3, <3>1, NotedWorking
    <3> QED BY <3>2, WorkingInv
  <2> QED BY <2>5, <2>6
<1> QED BY <1>3, <1>4

\* What the invariant does not depend on may change.
LEMMA UntouchedInv ==
  ASSUME NEW a, SessionInv(a), NEW b \in Session,
         b.backend = a.backend, b.init = a.init, b.handles = a.handles, b.fault = a.fault,
         b.destroyed = a.destroyed, b.incoming = a.incoming, b.outgoing = a.outgoing,
         b.put = a.put, b.flags = a.flags, b.accept = a.accept,
         a.accept # {} => b.state = a.state, b.unanswered = a.unanswered
  PROVE  SessionInv(b)
BY DEF SessionInv, Fit, Masks, Clean, Balanced

\* The client's steps and the poll change nothing that the invariant is about.
LEMMA SmallInv ==
  ASSUME NEW a, SessionInv(a)
  PROVE  /\ \A pkg \in Package : SessionInv([a EXCEPT !.net = Append(@, pkg)])
         /\ SessionInv([a EXCEPT !.eof = TRUE])
         /\ SessionInv([a EXCEPT !.force = FALSE])
         /\ \A m, n \in Nat : SessionInv([a EXCEPT !.towrite = m, !.written = n])
<1>0. a \in Session /\ a.net \in Seq(Package)
  BY DEF SessionInv, Fit, Session
<1>1. ASSUME NEW pkg \in Package PROVE SessionInv([a EXCEPT !.net = Append(@, pkg)])
  <2> DEFINE b == [a EXCEPT !.net = Append(@, pkg)]
  <2>1. Append(a.net, pkg) \in Seq(Package)
    BY <1>0, SeqClosed
  <2>2. b \in Session
    BY <1>0, <2>1 DEF Session
  <2>3. /\ b.backend = a.backend /\ b.init = a.init /\ b.handles = a.handles
        /\ b.fault = a.fault /\ b.destroyed = a.destroyed /\ b.incoming = a.incoming
        /\ b.outgoing = a.outgoing /\ b.put = a.put /\ b.flags = a.flags
        /\ b.accept = a.accept /\ b.state = a.state /\ b.unanswered = a.unanswered
    BY <1>0 DEF Session
  <2> HIDE DEF b
  <2>4. SessionInv(b)
    BY <2>2, <2>3, UntouchedInv
  <2> QED BY <2>4 DEF b
<1>2. SessionInv([a EXCEPT !.eof = TRUE])
  <2> DEFINE b == [a EXCEPT !.eof = TRUE]
  <2>2. b \in Session
    BY <1>0 DEF Session
  <2>3. /\ b.backend = a.backend /\ b.init = a.init /\ b.handles = a.handles
        /\ b.fault = a.fault /\ b.destroyed = a.destroyed /\ b.incoming = a.incoming
        /\ b.outgoing = a.outgoing /\ b.put = a.put /\ b.flags = a.flags
        /\ b.accept = a.accept /\ b.state = a.state /\ b.unanswered = a.unanswered
    BY <1>0 DEF Session
  <2> HIDE DEF b
  <2>4. SessionInv(b)
    BY <2>2, <2>3, UntouchedInv
  <2> QED BY <2>4 DEF b
<1>3. SessionInv([a EXCEPT !.force = FALSE])
  <2> DEFINE b == [a EXCEPT !.force = FALSE]
  <2>2. b \in Session
    BY <1>0 DEF Session
  <2>3. /\ b.backend = a.backend /\ b.init = a.init /\ b.handles = a.handles
        /\ b.fault = a.fault /\ b.destroyed = a.destroyed /\ b.incoming = a.incoming
        /\ b.outgoing = a.outgoing /\ b.put = a.put /\ b.flags = a.flags
        /\ b.accept = a.accept /\ b.state = a.state /\ b.unanswered = a.unanswered
    BY <1>0 DEF Session
  <2> HIDE DEF b
  <2>4. SessionInv(b)
    BY <2>2, <2>3, UntouchedInv
  <2> QED BY <2>4 DEF b
<1>4. ASSUME NEW m \in Nat, NEW n \in Nat
      PROVE  SessionInv([a EXCEPT !.towrite = m, !.written = n])
  <2> DEFINE b == [a EXCEPT !.towrite = m, !.written = n]
  <2>2. b \in Session
    BY <1>0 DEF Session
  <2>3. /\ b.backend = a.backend /\ b.init = a.init /\ b.handles = a.handles
        /\ b.fault = a.fault /\ b.destroyed = a.destroyed /\ b.incoming = a.incoming
        /\ b.outgoing = a.outgoing /\ b.put = a.put /\ b.flags = a.flags
        /\ b.accept = a.accept /\ b.state = a.state /\ b.unanswered = a.unanswered
    BY <1>0 DEF Session
  <2> HIDE DEF b
  <2>4. SessionInv(b)
    BY <2>2, <2>3, UntouchedInv
  <2> QED BY <2>4 DEF b
<1> QED BY <1>1, <1>2, <1>3, <1>4

\* A response is written to its end: the next one, if there is one, waits.
LEMMA WrittenInv ==
  ASSUME NEW a, SessionInv(a), ~a.destroyed, a.accept = {}, a.outgoing # <<>>,
         NEW b, b = [a EXCEPT !.towrite = 0, !.written = 0, !.outgoing = Tail(a.outgoing),
                        !.put = IF Tail(a.outgoing) = <<>> THEN {} ELSE {Outp},
                        !.flags = IF Tail(a.outgoing) = <<>> THEN a.get ELSE @,
                        !.force = @ \/ (Tail(a.outgoing) = <<>> /\ a.state = "DEAD")]
  PROVE  /\ SessionInv(b) /\ b.outgoing = Tail(a.outgoing) /\ b.incoming = a.incoming
         /\ b.state = a.state /\ b.taken = a.taken /\ b.net = a.net /\ b.destroyed = a.destroyed
         /\ b.towrite = 0 /\ b.written = 0
<1> DEFINE rest == Tail(a.outgoing)
<1>1. a \in Session /\ a.outgoing \in Seq(Response) /\ a.get \in SUBSET {Inp, Outp}
  BY DEF SessionInv, Fit, Session
<1>2. rest \in Seq(Response)
  BY <1>1, SeqClosed
<1> HIDE DEF rest
<1>3. b = [a EXCEPT !.towrite = 0, !.written = 0, !.outgoing = rest,
                    !.put = IF rest = <<>> THEN {} ELSE {Outp},
                    !.flags = IF rest = <<>> THEN a.get ELSE @,
                    !.force = @ \/ (rest = <<>> /\ a.state = "DEAD")]
  BY DEF rest
<1>4. b \in Session
  <2> DEFINE put == IF rest = <<>> THEN {} ELSE {Outp}
             flags == IF rest = <<>> THEN a.get ELSE a.flags
             force == a.force \/ (rest = <<>> /\ a.state = "DEAD")
  <2>1. put \in SUBSET {Inp, Outp}
    OBVIOUS
  <2>2. flags \in SUBSET {Inp, Outp}
    BY <1>1 DEF Session
  <2>3. force \in BOOLEAN
    OBVIOUS
  <2>4. b = [a EXCEPT !.towrite = 0, !.written = 0, !.outgoing = rest,
                      !.put = put, !.flags = flags, !.force = force]
    BY <1>3
  <2> HIDE DEF put, flags, force
  <2> DEFINE c == [a EXCEPT !.towrite = 0, !.written = 0, !.outgoing = rest]
  <2>5. c \in Session
    BY <1>1, <1>2 DEF Session
  <2>6. b = [c EXCEPT !.put = put, !.flags = flags, !.force = force]
    BY <2>4
  <2> HIDE DEF c
  <2> QED BY <2>1, <2>2, <2>3, <2>5, <2>6, ZenonT(40) DEF Session
<1>5. /\ b.backend = a.backend /\ b.init = a.init /\ b.handles = a.handles /\ b.fault = a.fault
      /\ b.destroyed = a.destroyed /\ b.incoming = a.incoming /\ b.outgoing = rest
      /\ b.put = (IF rest = <<>> THEN {} ELSE {Outp})
      /\ b.flags = (IF rest = <<>> THEN a.get ELSE a.flags)
      /\ b.accept = a.accept /\ b.state = a.state /\ b.unanswered = a.unanswered
      /\ b.taken = a.taken /\ b.net = a.net /\ b.towrite = 0 /\ b.written = 0
  BY <1>1, <1>3 DEF Session
<1>6. Masks(b)
  BY <1>5 DEF SessionInv, Masks
<1>7. Fit(b) /\ Clean(b)
  BY <1>4, <1>5 DEF SessionInv, Fit, Clean, Balanced
<1> QED BY <1>5, <1>6, <1>7 DEF SessionInv, rest

\* While the accept is not complete the flags follow it.
LEMMA AcceptInv ==
  ASSUME NEW a, SessionInv(a), a.accept # {}, ~a.destroyed, NEW acc \in Accepts,
         NEW b, b = [a EXCEPT !.accept = acc,
                       !.get = IF acc = {} THEN {Inp} ELSE @,
                       !.flags = (@ \ {Outp}) \cup (IF acc = {} THEN {Inp} ELSE acc)]
  PROVE  /\ SessionInv(b) /\ b.destroyed = a.destroyed /\ b.taken = a.taken /\ b.net = a.net
         /\ b.incoming = a.incoming /\ b.outgoing = a.outgoing /\ b.state = a.state
         /\ b.towrite = a.towrite /\ b.written = a.written
<1>1. /\ a \in Session /\ acc \in SUBSET {Inp, Outp} /\ a.flags \in SUBSET {Inp, Outp}
      /\ a.get \in SUBSET {Inp, Outp}
  BY SessionAssumption DEF SessionInv, Fit, Session, Inp, Outp
<1>2. b \in Session
  BY <1>1, ZenonT(40) DEF Session
<1>3. /\ b.backend = a.backend /\ b.init = a.init /\ b.handles = a.handles /\ b.fault = a.fault
      /\ b.destroyed = a.destroyed /\ b.incoming = a.incoming /\ b.outgoing = a.outgoing
      /\ b.put = a.put /\ b.state = a.state /\ b.unanswered = a.unanswered
      /\ b.taken = a.taken /\ b.net = a.net
      /\ b.towrite = a.towrite /\ b.written = a.written
  BY <1>1 DEF Session
<1>4. a.state = "NEW" /\ a.outgoing = <<>> /\ a.put = {}
  BY DEF SessionInv, Masks
<1>5. Masks(b)
  BY <1>3, <1>4 DEF Masks
<1>6. Fit(b) /\ Clean(b)
  BY <1>2, <1>3 DEF SessionInv, Fit, Clean, Balanced
<1> QED BY <1>3, <1>4, <1>5, <1>6 DEF SessionInv

-----------------------------------------------------------------------------
(* The invariant of the specification.                                     *)

\* What a handler leaves is in order if the record it returns is.
LEMMA HandledInv ==
  ASSUME Inv, NEW e, NEW a, SessionInv(a), Handled(e, a), wire' \in Wire
  PROVE  Inv'
<1>1. a \in Session
  BY DEF SessionInv, Fit
<1>2. s' = a /\ sent' = sent /\ pending' = IF a.destroyed THEN {} ELSE pending \ {e}
  BY DEF Handled
<1>3. TypeOK'
  BY <1>1, <1>2 DEF Inv, TypeOK
<1>4. SessionInv(s)'
  BY <1>2
<1>5. (s.destroyed => pending = {})'
  BY <1>2
<1> QED BY <1>3, <1>4, <1>5 DEF Inv

\* What the client holds stays what it is said to be.
LEMMA PutType ==
  ASSUME wire \in Wire, NEW r \in Response, NEW n
  PROVE  Put(r, n) \in Wire
<1>1. wire.answers \in Seq(0..MaxPackages) /\ wire.part \in Seq(Response) /\ wire.torn \in BOOLEAN
  BY DEF Wire
<1>2. (IF r.bye THEN 0 ELSE r.id) \in 0..MaxPackages
  BY SessionAssumption DEF Response
<1>3. Append(wire.answers, IF r.bye THEN 0 ELSE r.id) \in Seq(0..MaxPackages)
  BY <1>1, <1>2, SeqClosed
<1>4. <<r>> \in Seq(Response) /\ <<>> \in Seq(Response)
  BY SeqClosed
<1> QED BY <1>1, <1>3, <1>4 DEF Put, Wire

LEMMA InitInv == Init => Inv
<1>1. SUFFICES ASSUME Init PROVE Inv
  OBVIOUS
<1>2. PICK acc \in Accepts : s = NewSession(acc)
  BY <1>1 DEF Init
<1>3. acc \in SUBSET {Inp, Outp} /\ <<>> \in Seq(Package) /\ <<>> \in Seq(Response)
  BY SessionAssumption, SeqClosed DEF Inp, Outp
<1>4. s \in Session
  BY <1>2, <1>3 DEF NewSession, Session
<1>5. SessionInv(s)
  BY <1>2, <1>4 DEF NewSession, SessionInv, Fit, Clean, Balanced, Masks
<1>6. wire \in Wire /\ sent \in 0..MaxPackages /\ pending = {}
  BY <1>1, SessionAssumption, SeqClosed DEF Init, Wire
<1> QED BY <1>4, <1>5, <1>6 DEF Inv, TypeOK

LEMMA ClientInv ==
  ASSUME Inv, Client
  PROVE  Inv'
<1>0. SessionInv(s) /\ TypeOK /\ (s.destroyed => pending = {})
  BY DEF Inv
<1>00. s \in Session
  BY <1>0 DEF TypeOK
<1>1. CASE HangUp
  <2>1. /\ s' = [s EXCEPT !.eof = TRUE] /\ sent' = sent /\ pending' = pending /\ wire' = wire
        /\ ~s.destroyed
    BY <1>1 DEF HangUp
  <2>2. SessionInv(s)' /\ s' \in Session
    <3>1. SessionInv([s EXCEPT !.eof = TRUE])
      BY <1>0, SmallInv
    <3> QED BY <2>1, <3>1 DEF SessionInv, Fit
  <2>3. s'.destroyed = s.destroyed
    BY <1>00, <2>1 DEF Session
  <2> QED BY <1>0, <2>1, <2>2, <2>3 DEF Inv, TypeOK
<1>2. ASSUME NEW k \in Kinds, NEW h \in HostsOf(k), Send(k, h) PROVE Inv'
  <2> DEFINE pkg == [id |-> sent + 1, kind |-> k, host |-> h]
  <2>1. /\ s' = [s EXCEPT !.net = Append(@, pkg)] /\ sent' = sent + 1
        /\ pending' = pending /\ wire' = wire /\ ~s.destroyed /\ sent < MaxPackages
    BY <1>2 DEF Send
  <2>2. sent \in 0..MaxPackages /\ MaxPackages \in Nat
    BY <1>0, SessionAssumption DEF TypeOK
  <2>3. sent + 1 \in 1..MaxPackages /\ sent + 1 \in 0..MaxPackages
    BY <2>1, <2>2
  <2>4. h \in Hosts
    BY SessionAssumption DEF HostsOf
  <2>5. pkg \in Package
    BY <2>3, <2>4, SessionAssumption DEF Package
  <2> HIDE DEF pkg
  <2>6. SessionInv(s)' /\ s' \in Session
    <3>1. SessionInv([s EXCEPT !.net = Append(@, pkg)])
      BY <1>0, <2>5, SmallInv
    <3> QED BY <2>1, <3>1 DEF SessionInv, Fit
  <2>7. s'.destroyed = s.destroyed
    BY <1>00, <2>1 DEF Session
  <2> QED BY <1>0, <2>1, <2>3, <2>6, <2>7 DEF Inv, TypeOK
<1> QED BY <1>1, <1>2 DEF Client

LEMMA PollInv ==
  ASSUME Inv, Poll
  PROVE  Inv'
<1>0. SessionInv(s) /\ TypeOK /\ s \in Session
  BY DEF Inv, TypeOK
<1>1. /\ s' = [s EXCEPT !.force = FALSE] /\ sent' = sent /\ wire' = wire /\ ~s.destroyed
  BY DEF Poll
<1>2. pending' \subseteq {Inp, Outp, Except, Timeout}
  BY DEF Poll, Readable, Broken, Forced
<1>3. SessionInv(s)' /\ s' \in Session
  <2>1. SessionInv([s EXCEPT !.force = FALSE])
    BY <1>0, SmallInv
  <2> QED BY <1>1, <2>1 DEF SessionInv, Fit
<1>4. s'.destroyed = s.destroyed
  BY <1>0, <1>1 DEF Session
<1> QED BY <1>0, <1>1, <1>2, <1>3, <1>4 DEF Inv, TypeOK

LEMMA AcceptMoreInv ==
  ASSUME Inv, NEW e, AcceptMore(e)
  PROVE  Inv'
<1>1. SessionInv(s) /\ wire' \in Wire /\ s.accept # {} /\ pending # {} /\ ~s.destroyed
  BY DEF Inv, TypeOK, AcceptMore, Due
<1>2. CASE Handled(e, DestroyAssociation(s))
  BY <1>1, <1>2, DestroyInv, HandledInv
<1>3. ASSUME NEW acc \in Accepts,
             Handled(e, [s EXCEPT !.accept = acc,
                          !.get = IF acc = {} THEN {Inp} ELSE @,
                          !.flags = (@ \ {Outp}) \cup (IF acc = {} THEN {Inp} ELSE acc)])
      PROVE Inv'
  <2> DEFINE b == [s EXCEPT !.accept = acc,
                     !.get = IF acc = {} THEN {Inp} ELSE @,
                     !.flags = (@ \ {Outp}) \cup (IF acc = {} THEN {Inp} ELSE acc)]
  <2>1. SessionInv(b)
    BY <1>1, AcceptInv
  <2>2. Handled(e, b)
    BY <1>3
  <2> HIDE DEF b
  <2> QED BY <1>1, <2>1, <2>2, HandledInv
<1> QED BY <1>2, <1>3 DEF AcceptMore

LEMMA InputStepInv ==
  ASSUME Inv, Input
  PROVE  Inv'
<1>1. /\ SessionInv(s) /\ wire' \in Wire /\ s.accept = {} /\ pending # {} /\ ~s.destroyed
      /\ Fit(s)
  BY DEF Inv, TypeOK, Input, Due, SessionInv
<1>2. Working(s)
  BY <1>1 DEF SessionInv, Working
<1>3. CASE Handled(Inp, s)
  BY <1>1, <1>3, HandledInv
<1>4. CASE Handled(Inp, DestroyAssociation(s))
  BY <1>1, <1>4, DestroyInv, HandledInv
<1>5. CASE Handled(Inp, ReadEof(s))
  <2>1. Fit(ReadEof(s)) /\ Sound(s, ReadEof(s)) /\ Alike(s, ReadEof(s))
    BY <1>1, ReadEofFits
  <2>2. SessionInv(ReadEof(s))
    BY <1>1, <2>1 DEF SessionInv, Sound, Alike, Masks, Clean
  <2> QED BY <1>1, <1>5, <2>2, HandledInv
<1>6. ASSUME NEW k \in 1..Len(s.net),
             Handled(Inp, IF \E i \in 1..k : s.net[i].kind \in Garbage
                          THEN Drain(ReadPackages(s, k)) ELSE TakeRequests(ReadPackages(s, k)))
      PROVE Inv'
  <2> DEFINE p == IF \E i \in 1..k : s.net[i].kind \in Garbage
                  THEN Drain(ReadPackages(s, k)) ELSE TakeRequests(ReadPackages(s, k))
  <2>1. SessionInv(p)
    BY <1>2, InputInv
  <2>2. Handled(Inp, p)
    BY <1>6
  <2> HIDE DEF p
  <2> QED BY <1>1, <2>1, <2>2, HandledInv
<1> QED BY <1>3, <1>4, <1>5, <1>6 DEF Input

LEMMA OutputInv ==
  ASSUME Inv, Output
  PROVE  Inv'
<1>1. /\ SessionInv(s) /\ wire \in Wire /\ s.accept = {} /\ pending # {} /\ ~s.destroyed
      /\ s \in Session
  BY DEF Inv, TypeOK, Output, Due
<1>2. CASE Outp \notin s.put
  BY <1>1, <1>2, HandledInv DEF Output
<1>3. CASE Outp \in s.put
  <2>1. s.outgoing # <<>>
    BY <1>1, <1>3 DEF SessionInv, Masks
  <2> DEFINE r == Head(s.outgoing)
             rest == Tail(s.outgoing)
  <2>2. r \in Response
    <3>1. s.outgoing \in Seq(Response)
      BY <1>1 DEF Session
    <3> QED BY <2>1, <3>1, SeqClosed
  <2>3. \/ Handled(Outp, DestroyAssociation(s)) /\ UNCHANGED wire
        \/ \E n \in 1..(r.len - s.written - 1) :
             /\ wire' = Put(r, n)
             /\ Handled(Outp, [s EXCEPT !.towrite = r.len, !.written = @ + n])
        \/ /\ wire' = Put(r, r.len - s.written)
           /\ Handled(Outp, [s EXCEPT
                     !.towrite = 0, !.written = 0, !.outgoing = rest,
                     !.put = IF rest = <<>> THEN {} ELSE {Outp},
                     !.flags = IF rest = <<>> THEN s.get ELSE @,
                     !.force = @ \/ (rest = <<>> /\ s.state = "DEAD")])
    BY <1>3, <2>1 DEF Output
  <2>4. CASE Handled(Outp, DestroyAssociation(s)) /\ UNCHANGED wire
    BY <1>1, <2>4, DestroyInv, HandledInv
  <2>5. ASSUME NEW n \in 1..(r.len - s.written - 1), wire' = Put(r, n),
               Handled(Outp, [s EXCEPT !.towrite = r.len, !.written = @ + n])
        PROVE Inv'
    <3>1. wire' \in Wire
      BY <1>1, <2>2, <2>5, PutType
    <3>2. r.len \in Nat /\ s.written \in Nat
      BY <1>1, <2>2 DEF Response, Session
    <3>3. s.written + n \in Nat
      BY <3>2
    <3> DEFINE m == s.written + n
    <3>4. SessionInv([s EXCEPT !.towrite = r.len, !.written = m])
      <4> HIDE DEF r, m
      <4> QED BY <1>1, <3>2, <3>3, SmallInv DEF m
    <3>5. [s EXCEPT !.towrite = r.len, !.written = @ + n]
            = [s EXCEPT !.towrite = r.len, !.written = m]
      BY <1>1 DEF Session
    <3> QED BY <2>5, <3>1, <3>4, <3>5, HandledInv
  <2>6. CASE /\ wire' = Put(r, r.len - s.written)
             /\ Handled(Outp, [s EXCEPT
                     !.towrite = 0, !.written = 0, !.outgoing = rest,
                     !.put = IF rest = <<>> THEN {} ELSE {Outp},
                     !.flags = IF rest = <<>> THEN s.get ELSE @,
                     !.force = @ \/ (rest = <<>> /\ s.state = "DEAD")])
    <3>1. wire' \in Wire
      BY <1>1, <2>2, <2>6, PutType
    <3> DEFINE b == [s EXCEPT
                     !.towrite = 0, !.written = 0, !.outgoing = rest,
                     !.put = IF rest = <<>> THEN {} ELSE {Outp},
                     !.flags = IF rest = <<>> THEN s.get ELSE @,
                     !.force = @ \/ (rest = <<>> /\ s.state = "DEAD")]
    <3>2. SessionInv(b)
      BY <1>1, <2>1, WrittenInv
    <3>3. Handled(Outp, b)
      BY <2>6
    <3> HIDE DEF b
    <3> QED BY <3>1, <3>2, <3>3, HandledInv
  <2> QED BY <2>3, <2>4, <2>5, <2>6
<1> QED BY <1>2, <1>3

LEMMA EndingInv ==
  ASSUME Inv, Exception \/ TimeOut
  PROVE  Inv'
<1>1. SessionInv(s) /\ wire' \in Wire /\ pending # {} /\ ~s.destroyed /\ Fit(s)
  BY DEF Inv, TypeOK, Exception, TimeOut, Due, SessionInv
<1>2. PICK e : \/ Handled(e, DestroyAssociation(s))
               \/ Handled(e, DoClose(s, 0)) /\ s.state = "UP"
  BY DEF Exception, TimeOut
<1>3. CASE Handled(e, DestroyAssociation(s))
  BY <1>1, <1>3, DestroyInv, HandledInv
<1>4. CASE Handled(e, DoClose(s, 0)) /\ s.state = "UP"
  <2>1. 0 \in 0..MaxPackages
    BY SessionAssumption
  <2>2. Goes(s, DoClose(s, 0)) /\ DoClose(s, 0).incoming = <<>>
    <3>1. Goes(s, DoClose(s, 0))
      BY <1>1, <2>1, GoesSteps
    <3>2. DoClose(s, 0).incoming = <<>>
      BY <1>1, <2>1, DoCloseIs, ZenonT(40)
    <3> QED BY <3>1, <3>2
  <2>3. Working(s)
    BY <1>1, <1>4 DEF SessionInv, Working
  <2>4. SessionInv(DoClose(s, 0))
    BY <2>2, <2>3, GoesWorking, WorkingInv
  <2> QED BY <1>1, <1>4, <2>4, HandledInv
<1> QED BY <1>2, <1>3, <1>4

LEMMA NextInv == Inv /\ [Next]_vars => Inv'
<1>1. ASSUME Inv, Next PROVE Inv'
  BY <1>1, ClientInv, PollInv, AcceptMoreInv, InputStepInv, OutputInv, EndingInv
     DEF Next, Handle
<1>2. ASSUME Inv, UNCHANGED vars PROVE Inv'
  BY <1>2 DEF Inv, TypeOK, vars
<1> QED BY <1>1, <1>2

(***************************************************************************)
(* The queues and the masks of a session agree in every state, whatever    *)
(* the client sends, however its packages come and whatever the backend    *)
(* does: every response that waits is watched for, and requests wait only  *)
(* behind one that has no response.                                        *)
(***************************************************************************)
THEOREM SessionInvariant == Spec => []Inv
<1>1. Inv /\ [Next]_vars => Inv'
  BY NextInv
<1> QED BY <1>1, InitInv, PTL DEF Spec

(* TypeOK: the number of open backend handles, too, never falls below 0.   *)
THEOREM TypeCorrect == Spec => []TypeOK
<1>1. Inv => TypeOK
  BY DEF Inv
<1> QED BY <1>1, SessionInvariant, PTL

(* ResponsesWatched and WaitsBehindUnanswered, for every backend.          *)
THEOREM QueuesAreServed == Spec => [](ResponsesWatched /\ WaitsBehindUnanswered)
<1>1. Inv => ResponsesWatched /\ WaitsBehindUnanswered
  BY DEF Inv, SessionInv, Masks, ResponsesWatched, WaitsBehindUnanswered
<1> QED BY <1>1, SessionInvariant, PTL

(* NoFault: on a server for every host that its clients name, no handler   *)
(* takes from an empty queue and last_control is never NULL.               *)
THEOREM NoFaultHolds == ASSUME Known = Hosts PROVE Spec => []NoFault
<1>1. Inv => NoFault
  BY DEF Inv, SessionInv, Clean, NoFault
<1> QED BY <1>1, SessionInvariant, PTL

(* HandlesBalanced: on such a server every handle of the backend is the    *)
(* association's current one or has been closed.                           *)
THEOREM HandlesBalancedHolds == ASSUME Known = Hosts PROVE Spec => []HandlesBalanced
<1>1. Inv => HandlesBalanced
  BY DEF Inv, SessionInv, Clean, Balanced, HandlesBalanced
<1> QED BY <1>1, SessionInvariant, PTL

-----------------------------------------------------------------------------
(* The order of what the client gets.  A backend that polls may have a     *)
(* Close queued before the answer of its own search, and a bad HTTP        *)
(* request is answered before the requests in front of it: what follows is *)
(* about the other sessions.                                               *)

(***************************************************************************)
(* The numbers of the answers given, of the responses that wait and of the *)
(* requests that wait rise from the one last answered to the last taken.   *)
(***************************************************************************)
InLine(a, last) ==
  "httpGarbage" \notin Kinds =>
    /\ last <= a.taken
    /\ \A i \in 1..Len(a.incoming) : last < a.incoming[i].id /\ a.incoming[i].id <= a.taken
    /\ \A i, j \in 1..Len(a.incoming) : i < j => a.incoming[i].id < a.incoming[j].id
    /\ \A i \in 1..Len(a.outgoing) : last < a.outgoing[i].id /\ a.outgoing[i].id <= a.taken
    /\ \A i, j \in 1..Len(a.outgoing) : i < j => a.outgoing[i].id < a.outgoing[j].id
    /\ \A i \in 1..Len(a.outgoing), j \in 1..Len(a.incoming) :
         a.outgoing[i].id < a.incoming[j].id

(* No Close waits, and the response that is written in part is the first.  *)
Open(a, part, last) ==
  /\ \A i \in 1..Len(a.outgoing) : ~a.outgoing[i].bye /\ a.outgoing[i].len = AnswerLength
  /\ part # <<>> => a.outgoing # <<>> /\ a.outgoing[1] = part[1]
  /\ InLine(a, last)

(* The session is dead, and nothing but a Close is going to be sent; what  *)
(* is written in part may be a response that was purged.                   *)
Shut(a, part) ==
  /\ a.state = "DEAD" /\ a.incoming = <<>>
  /\ a.outgoing # <<>> => /\ Len(a.outgoing) = 1 /\ a.outgoing[1].bye
                          /\ a.outgoing[1].len = CloseLength
  /\ part # <<>> => \/ a.outgoing # <<>> /\ a.outgoing[1] = part[1]
                    \/ ~part[1].bye /\ part[1].len = AnswerLength

(* A request may be answered now.                                          *)
IsNext(a, req, last) ==
  "httpGarbage" \notin Kinds =>
    /\ last < req.id /\ req.id <= a.taken
    /\ \A i \in 1..Len(a.outgoing) : a.outgoing[i].id < req.id
    /\ \A i \in 1..Len(a.incoming) : req.id < a.incoming[i].id

\* A response joins those that wait.
LEMMA OpenAnswered ==
  ASSUME NEW a, Fit(a), NEW part, NEW last, Open(a, part, last),
         NEW req \in Package, IsNext(a, req, last)
  PROVE  Open(Answered(a, req), part, last)
<1> DEFINE p == Answered(a, req)
           r == [id |-> req.id, bye |-> FALSE, len |-> AnswerLength]
<1>1. p.outgoing = Append(a.outgoing, r) /\ p.incoming = a.incoming /\ p.taken = a.taken
  BY AnsweredIs
<1>2. r \in Response /\ r.id = req.id /\ ~r.bye /\ r.len = AnswerLength
  BY SessionAssumption DEF Response, Package
<1> HIDE DEF p, r
<1>3. a.outgoing \in Seq(Response) /\ Len(a.outgoing) \in Nat
  <2>1. a.outgoing \in Seq(Response)
    BY LoadType
  <2> QED BY <2>1, LenProperties
<1>4. /\ Len(p.outgoing) = Len(a.outgoing) + 1
      /\ \A i \in 1..Len(a.outgoing) : p.outgoing[i] = a.outgoing[i]
      /\ p.outgoing[Len(a.outgoing) + 1] = r
      /\ p.outgoing # <<>>
  BY <1>1, <1>2, <1>3, AppendProperties
<1>5. ASSUME NEW i \in 1..Len(p.outgoing)
      PROVE  \/ i \in 1..Len(a.outgoing) /\ p.outgoing[i] = a.outgoing[i]
             \/ i = Len(a.outgoing) + 1 /\ p.outgoing[i] = r
  BY <1>3, <1>4
<1>6. \A i \in 1..Len(p.outgoing) : ~p.outgoing[i].bye /\ p.outgoing[i].len = AnswerLength
  <2>1. \A i \in 1..Len(a.outgoing) : ~a.outgoing[i].bye /\ a.outgoing[i].len = AnswerLength
    BY DEF Open
  <2> QED BY <1>2, <1>5, <2>1
<1>7. part # <<>> => p.outgoing # <<>> /\ p.outgoing[1] = part[1]
  <2>1. a.outgoing # <<>> => 1 \in 1..Len(a.outgoing)
    BY <1>3, EmptySeq
  <2> QED BY <1>4, <2>1 DEF Open
<1>8. InLine(p, last)
  <2>1. SUFFICES ASSUME "httpGarbage" \notin Kinds PROVE InLine(p, last)
    BY DEF InLine
  <2>2. /\ last <= a.taken
        /\ \A i \in 1..Len(a.incoming) : last < a.incoming[i].id /\ a.incoming[i].id <= a.taken
        /\ \A i, j \in 1..Len(a.incoming) : i < j => a.incoming[i].id < a.incoming[j].id
        /\ \A i \in 1..Len(a.outgoing) : last < a.outgoing[i].id /\ a.outgoing[i].id <= a.taken
        /\ \A i, j \in 1..Len(a.outgoing) : i < j => a.outgoing[i].id < a.outgoing[j].id
        /\ \A i \in 1..Len(a.outgoing), j \in 1..Len(a.incoming) :
             a.outgoing[i].id < a.incoming[j].id
    BY <2>1 DEF Open, InLine
  <2>3. /\ last < req.id /\ req.id <= a.taken
        /\ \A i \in 1..Len(a.outgoing) : a.outgoing[i].id < req.id
        /\ \A i \in 1..Len(a.incoming) : req.id < a.incoming[i].id
    BY <2>1 DEF IsNext
  <2>4. \A i \in 1..Len(p.outgoing) : last < p.outgoing[i].id /\ p.outgoing[i].id <= a.taken
    BY <1>2, <1>5, <2>2, <2>3
  <2>5. ASSUME NEW i \in 1..Len(p.outgoing), NEW j \in 1..Len(p.outgoing), i < j
        PROVE  p.outgoing[i].id < p.outgoing[j].id
    <3>1. i \in 1..Len(a.outgoing) /\ p.outgoing[i] = a.outgoing[i]
      BY <1>3, <1>4, <2>5
    <3> QED BY <1>2, <1>5, <2>2, <2>3, <2>5, <3>1
  <2>6. \A i \in 1..Len(p.outgoing), j \in 1..Len(p.incoming) :
          p.outgoing[i].id < p.incoming[j].id
    BY <1>1, <1>2, <1>5, <2>2, <2>3
  <2> QED BY <1>1, <2>2, <2>4, <2>5, <2>6 DEF InLine
<1>9. Open(p, part, last)
  BY <1>6, <1>7, <1>8 DEF Open
<1> QED BY <1>9 DEF p

\* do_close_req shuts the session, also when a response is half written.
LEMMA OpenDoClose ==
  ASSUME NEW a, Fit(a), NEW part, NEW last, Open(a, part, last), NEW id \in 0..MaxPackages
  PROVE  Shut(DoClose(a, id), part)
<1> DEFINE p == DoClose(a, id)
           r == [id |-> id, bye |-> TRUE, len |-> CloseLength]
<1>1. /\ p.outgoing = <<>> \/ p.outgoing = <<r>>
      /\ p.state = "DEAD" /\ p.incoming = <<>>
  BY DoCloseIs
<1>2. r.bye /\ r.len = CloseLength
  OBVIOUS
<1> HIDE DEF p, r
<1>3. part # <<>> => ~part[1].bye /\ part[1].len = AnswerLength
  <2>1. a.outgoing \in Seq(Response)
    BY LoadType
  <2>2. a.outgoing # <<>> => 1 \in 1..Len(a.outgoing)
    BY <2>1, EmptySeq
  <2> QED BY <2>2 DEF Open
<1>4. p.outgoing # <<>> => Len(p.outgoing) = 1 /\ p.outgoing[1] = r
  <2>1. Len(<<r>>) = 1 /\ <<r>>[1] = r
    OBVIOUS
  <2> QED BY <1>1, <2>1, Zenon
<1>5. Shut(p, part)
  BY <1>1, <1>2, <1>3, <1>4 DEF Shut
<1> QED BY <1>5 DEF p

(* The packages on the way are numbered on from those taken.               *)
Supply(a) ==
  \A i \in 1..Len(a.net) : a.net[i].id = a.taken + i /\ a.net[i].kind \in Kinds

\* The first request that waits is the next to be answered.
LEMMA HeadOpen ==
  ASSUME NEW a, Fit(a), a.incoming # <<>>, NEW part, NEW last, Open(a, part, last),
         NEW c, c = [a EXCEPT !.incoming = Tail(@)]
  PROVE  Open(c, part, last) /\ IsNext(c, Head(a.incoming), last)
<1>1. /\ Head(a.incoming) = a.incoming[1]
      /\ Len(c.incoming) = Len(a.incoming) - 1
      /\ \A i \in 1..(Len(a.incoming) - 1) : c.incoming[i] = a.incoming[i + 1]
      /\ c.outgoing = a.outgoing /\ c.taken = a.taken
  BY HeadTaken
<1>2. Len(a.incoming) \in Nat /\ Len(a.incoming) # 0
  BY LoadType
<1>3. 1 \in 1..Len(a.incoming)
  BY <1>2
<1>4. ASSUME NEW i \in 1..Len(c.incoming)
      PROVE  i + 1 \in 1..Len(a.incoming) /\ 1 < i + 1 /\ c.incoming[i] = a.incoming[i + 1]
  BY <1>1, <1>2
<1>5. InLine(c, last) /\ IsNext(c, Head(a.incoming), last)
  <2>1. SUFFICES ASSUME "httpGarbage" \notin Kinds
                 PROVE  InLine(c, last) /\ IsNext(c, Head(a.incoming), last)
    BY DEF InLine, IsNext
  <2>2. /\ last <= a.taken
        /\ \A i \in 1..Len(a.incoming) : last < a.incoming[i].id /\ a.incoming[i].id <= a.taken
        /\ \A i, j \in 1..Len(a.incoming) : i < j => a.incoming[i].id < a.incoming[j].id
        /\ \A i \in 1..Len(a.outgoing) : last < a.outgoing[i].id /\ a.outgoing[i].id <= a.taken
        /\ \A i, j \in 1..Len(a.outgoing) : i < j => a.outgoing[i].id < a.outgoing[j].id
        /\ \A i \in 1..Len(a.outgoing), j \in 1..Len(a.incoming) :
             a.outgoing[i].id < a.incoming[j].id
    BY <2>1 DEF Open, InLine
  <2>3. \A i \in 1..Len(c.incoming) : last < c.incoming[i].id /\ c.incoming[i].id <= c.taken
    BY <1>1, <1>4, <2>2
  <2>4. ASSUME NEW i \in 1..Len(c.incoming), NEW j \in 1..Len(c.incoming), i < j
        PROVE  c.incoming[i].id < c.incoming[j].id
    <3>1. i + 1 < j + 1
      BY <1>1, <1>2, <2>4
    <3> QED BY <1>4, <2>2, <3>1
  <2>5. \A i \in 1..Len(c.outgoing), j \in 1..Len(c.incoming) :
          c.outgoing[i].id < c.incoming[j].id
    BY <1>1, <1>4, <2>2
  <2>6. InLine(c, last)
    BY <1>1, <2>2, <2>3, <2>4, <2>5 DEF InLine
  <2>7. \A i \in 1..Len(c.incoming) : a.incoming[1].id < c.incoming[i].id
    BY <1>3, <1>4, <2>2
  <2>8. IsNext(c, Head(a.incoming), last)
    BY <1>1, <1>3, <2>2, <2>7 DEF IsNext
  <2> QED BY <2>6, <2>8
<1> QED BY <1>1, <1>5 DEF Open

\* Packages that are read join the line at its end.
LEMMA LoadedOpen ==
  ASSUME NEW a, Fit(a), NEW part, NEW last \in Nat, Open(a, part, last), Supply(a), NEW b,
         NEW n \in 1..Len(a.net), NEW m \in 0..n, Loaded(a, b, n, m)
  PROVE  Open(b, part, last) /\ Supply(b)
<1>1. /\ a.incoming \in Seq(Package) /\ a.net \in Seq(Package) /\ a.taken \in Nat
      /\ Len(a.incoming) \in Nat /\ Len(a.net) \in Nat
  BY LoadType DEF Fit, Session
<1>2. n \in 0..Len(a.net) /\ m \in 0..Len(a.net) /\ n \in Nat /\ m \in Nat /\ m <= n
  BY <1>1
<1> DEFINE q == SubSeq(a.net, 1, m)
           rest == SubSeq(a.net, n + 1, Len(a.net))
           k == Len(a.incoming)
<1>3. /\ q \in Seq(Package) /\ Len(q) = m /\ \A i \in 1..m : q[i] = a.net[i]
      /\ Len(rest) = Len(a.net) - n /\ \A i \in 1..(Len(a.net) - n) : rest[i] = a.net[n + i]
  BY <1>1, <1>2, Parts
<1>4. /\ b.net = rest /\ b.taken = a.taken + n /\ b.incoming = a.incoming \o q
      /\ b.outgoing = a.outgoing
  BY DEF Loaded
<1> HIDE DEF q, rest
<1>5. /\ Len(b.incoming) = k + m
      /\ \A i \in 1..(k + m) : b.incoming[i] = IF i <= k THEN a.incoming[i] ELSE q[i - k]
  <2>1. /\ Len(a.incoming \o q) = k + Len(q)
        /\ \A i \in 1..(k + Len(q)) :
             (a.incoming \o q)[i] = IF i <= k THEN a.incoming[i] ELSE q[i - k]
    BY <1>1, <1>3, ConcatProperties
  <2> QED BY <1>3, <1>4, <2>1, Zenon
<1>6. Supply(b)
  <2>1. SUFFICES ASSUME NEW i \in 1..Len(b.net)
                 PROVE  b.net[i].id = b.taken + i /\ b.net[i].kind \in Kinds
    BY DEF Supply
  <2>2. i \in 1..(Len(a.net) - n) /\ n + i \in 1..Len(a.net)
    BY <1>1, <1>2, <1>3, <1>4
  <2>3. b.net[i] = a.net[n + i]
    BY <1>3, <1>4, <2>2
  <2>4. a.net[n + i].id = a.taken + (n + i) /\ a.net[n + i].kind \in Kinds
    BY <2>2 DEF Supply
  <2>5. a.taken + (n + i) = (a.taken + n) + i
    BY <1>1, <1>2, <2>2
  <2> QED BY <1>4, <2>3, <2>4, <2>5
<1>7. ASSUME NEW i \in 1..Len(b.incoming)
      PROVE  \/ i \in 1..k /\ b.incoming[i] = a.incoming[i]
             \/ i \in Nat /\ i > k /\ i - k \in 1..m /\ b.incoming[i].id = a.taken + (i - k)
  <2>1. CASE i <= k
    BY <1>1, <1>2, <1>5, <2>1
  <2>2. CASE ~(i <= k)
    <3>1. i \in Nat /\ i > k /\ i - k \in 1..m /\ i - k \in 1..Len(a.net)
      BY <1>1, <1>2, <1>5, <2>2
    <3>2. b.incoming[i] = a.net[i - k]
      BY <1>3, <1>5, <2>2, <3>1
    <3> QED BY <3>1, <3>2 DEF Supply
  <2> QED BY <2>1, <2>2
<1>8. InLine(b, last)
  <2>1. SUFFICES ASSUME "httpGarbage" \notin Kinds PROVE InLine(b, last)
    BY DEF InLine
  <2>2. /\ last <= a.taken
        /\ \A i \in 1..k : last < a.incoming[i].id /\ a.incoming[i].id <= a.taken
        /\ \A i, j \in 1..k : i < j => a.incoming[i].id < a.incoming[j].id
        /\ \A i \in 1..Len(a.outgoing) : last < a.outgoing[i].id /\ a.outgoing[i].id <= a.taken
        /\ \A i, j \in 1..Len(a.outgoing) : i < j => a.outgoing[i].id < a.outgoing[j].id
        /\ \A i \in 1..Len(a.outgoing), j \in 1..k : a.outgoing[i].id < a.incoming[j].id
    BY <2>1 DEF Open, InLine
  <2> HIDE DEF k
  <2>3. k \in Nat
    BY <1>1 DEF k
  <2>4. \A i \in 1..k : a.incoming[i].id \in Nat
    <3>1. \A i \in 1..k : a.incoming[i] \in Package
      BY <1>1, ElementOfSeq DEF k
    <3> QED BY <3>1 DEF Package
  <2>5. \A i \in 1..Len(a.outgoing) : a.outgoing[i].id \in Nat
    <3>1. a.outgoing \in Seq(Response)
      BY LoadType
    <3>2. \A i \in 1..Len(a.outgoing) : a.outgoing[i] \in Response
      BY <3>1, ElementOfSeq
    <3> QED BY <3>2 DEF Response
  <2> DEFINE Id(i) == b.incoming[i].id
  <2>a. ASSUME NEW i \in 1..Len(b.incoming)
        PROVE  \/ i \in 1..k /\ Id(i) = a.incoming[i].id
               \/ i \in Nat /\ i > k /\ i - k \in 1..m /\ Id(i) = a.taken + (i - k)
    BY <1>7 DEF k
  <2> HIDE DEF Id
  <2>b. Len(b.incoming) \in Nat
    BY <1>2, <1>5, <2>3 DEF k
  <2>6. ASSUME NEW i \in 1..Len(b.incoming)
        PROVE last < Id(i) /\ Id(i) <= b.taken
    <3>1. CASE i \in 1..k /\ Id(i) = a.incoming[i].id
      <4>1. last < a.incoming[i].id /\ a.incoming[i].id <= a.taken /\ a.incoming[i].id \in Nat
        BY <2>2, <2>4, <3>1
      <4> QED BY <1>1, <1>2, <1>4, <3>1, <4>1
    <3>2. CASE i \in Nat /\ i > k /\ i - k \in 1..m /\ Id(i) = a.taken + (i - k)
      BY <1>1, <1>2, <1>4, <2>2, <2>3, <3>2
    <3> QED BY <2>a, <3>1, <3>2
  <2>7. ASSUME NEW i \in 1..Len(b.incoming), NEW j \in 1..Len(b.incoming), i < j
        PROVE  Id(i) < Id(j)
    <3>1. CASE i \in 1..k /\ Id(i) = a.incoming[i].id /\ j \in 1..k /\ Id(j) = a.incoming[j].id
      BY <2>2, <2>7, <3>1
    <3>2. CASE /\ i \in 1..k /\ Id(i) = a.incoming[i].id
               /\ j \in Nat /\ j > k /\ j - k \in 1..m /\ Id(j) = a.taken + (j - k)
      <4>1. a.incoming[i].id \in Nat /\ a.incoming[i].id <= a.taken
        BY <2>2, <2>4, <3>2
      <4>2. \A t, u, v, w \in Nat : u <= t /\ v > w => u < t + (v - w)
        OBVIOUS
      <4> QED BY <1>1, <2>3, <3>2, <4>1, <4>2
    <3>3. CASE /\ i \in Nat /\ i > k /\ i - k \in 1..m /\ Id(i) = a.taken + (i - k)
               /\ j \in Nat /\ j > k /\ j - k \in 1..m /\ Id(j) = a.taken + (j - k)
      <4>1. \A t, u, v, w \in Nat : u < v /\ u > w /\ v > w => t + (u - w) < t + (v - w)
        OBVIOUS
      <4> QED BY <1>1, <2>3, <2>7, <3>3, <4>1
    <3>4. CASE i \in Nat /\ i > k /\ j \in 1..k
      BY <2>3, <2>7, <3>4
    <3> QED BY <2>a, <3>1, <3>2, <3>3, <3>4
  <2>8. ASSUME NEW i \in 1..Len(b.outgoing), NEW j \in 1..Len(b.incoming)
        PROVE  b.outgoing[i].id < Id(j)
    <3>1. i \in 1..Len(a.outgoing) /\ b.outgoing[i].id = a.outgoing[i].id
      BY <1>4
    <3>2. CASE j \in 1..k /\ Id(j) = a.incoming[j].id
      BY <2>2, <3>1, <3>2
    <3>3. CASE j \in Nat /\ j > k /\ j - k \in 1..m /\ Id(j) = a.taken + (j - k)
      <4>1. a.outgoing[i].id <= a.taken /\ a.outgoing[i].id \in Nat
        BY <2>2, <2>5, <3>1
      <4>2. \A t, u, v, w \in Nat : u <= t /\ v > w => u < t + (v - w)
        OBVIOUS
      <4> QED BY <1>1, <2>3, <3>1, <3>3, <4>1, <4>2
    <3> QED BY <2>a, <3>2, <3>3
  <2>9. \A i \in 1..Len(b.outgoing) : last < b.outgoing[i].id /\ b.outgoing[i].id <= b.taken
    BY <1>1, <1>2, <1>4, <2>2, <2>5
  <2>10. last <= b.taken
    BY <1>1, <1>2, <1>4, <2>2
  <2>11. \A i, j \in 1..Len(b.outgoing) : i < j => b.outgoing[i].id < b.outgoing[j].id
    BY <1>4, <2>2
  <2> QED BY <2>6, <2>7, <2>8, <2>9, <2>10, <2>11 DEF InLine, Id
<1> QED BY <1>4, <1>6, <1>8 DEF Open

\* What a session does with the requests it has is not taking another.
LEMMA TakenStays ==
  ASSUME NEW a, Fit(a)
  PROVE  /\ \A req \in Package : /\ Answered(a, req).taken = a.taken
                                 /\ Answered(a, req).net = a.net
         /\ \A id \in 0..MaxPackages : /\ DoClose(a, id).taken = a.taken
                                        /\ DoClose(a, id).net = a.net
<1>1. ASSUME NEW req \in Package
      PROVE  Answered(a, req).taken = a.taken /\ Answered(a, req).net = a.net
  BY DEF Answered, Respond, Fit, Session
<1>2. ASSUME NEW id \in 0..MaxPackages
      PROVE  DoClose(a, id).taken = a.taken /\ DoClose(a, id).net = a.net
  BY DEF DoClose, Respond, Fit, Session
<1> QED BY <1>1, <1>2

\* Only the queues count for the line, and the state for its end.
LEMMA SameLine ==
  ASSUME NEW a, NEW b, NEW part, NEW last,
         b.taken = a.taken, b.incoming = a.incoming, b.outgoing = a.outgoing
  PROVE  /\ Open(a, part, last) => Open(b, part, last)
         /\ b.state = a.state /\ Shut(a, part) => Shut(b, part)
<1>1. InLine(a, last) => InLine(b, last)
  BY DEF InLine
<1>2. Open(a, part, last) => Open(b, part, last)
  BY <1>1 DEF Open
<1>3. b.state = a.state /\ Shut(a, part) => Shut(b, part)
  BY DEF Shut
<1> QED BY <1>2, <1>3

(* The sessions that have taken t requests, with q still on the wire, and  *)
(* what the client has is part and, last of all, the answer to last.       *)
Flow(part, last, t, q) ==
  {b \in Session : /\ Fit(b) /\ Masks(b) /\ b.taken = t /\ b.net = q
                   /\ Open(b, part, last) \/ Shut(b, part)}

\* A request is answered in its turn, or shuts the session.
LEMMA HeadFlow ==
  ASSUME ~Polling, NEW a, Fit(a), a.incoming # <<>>,
         NEW part, NEW last, Open(a, part, last), NEW p, p = ProcessHead(a)
  PROVE  /\ p.taken = a.taken /\ p.net = a.net
         /\ Open(p, part, last) \/ Shut(p, part)
<1> DEFINE c == [a EXCEPT !.incoming = Tail(@)]
           req == Head(a.incoming)
<1>1. Fit(c) /\ req \in Package /\ c.taken = a.taken /\ c.net = a.net
  BY HeadTaken
<1>2. Open(c, part, last) /\ IsNext(c, req, last)
  BY HeadOpen
<1>3. p = ProcessRequest(c, req)
  BY DEF ProcessHead
<1> HIDE DEF c, req
<1>4. PICK b : /\ Fit(b)
               /\ Alike(c, b) \/ (Polling /\ b = IsAlive(c))
               /\ ProcessRequest(c, req) \in {b, Answered(b, req), DoClose(b, req.id)}
  BY <1>1, RequestOutcome
<1>5. Alike(c, b)
  BY <1>4
<1>6. Open(b, part, last) /\ IsNext(b, req, last) /\ b.taken = a.taken /\ b.net = a.net
  BY <1>1, <1>2, <1>5 DEF Alike, Open, IsNext, InLine
<1>7. req.id \in 0..MaxPackages
  BY <1>1, SessionAssumption DEF Package
<1>8. CASE p = b
  BY <1>6, <1>8
<1>9. CASE p = Answered(b, req)
  <2>1. Open(Answered(b, req), part, last)
    BY <1>1, <1>4, <1>6, OpenAnswered
  <2>2. p.taken = b.taken /\ p.net = b.net
    BY <1>1, <1>4, <1>9, TakenStays, Zenon
  <2>3. Open(p, part, last)
    BY <1>9, <2>1
  <2> QED BY <1>6, <2>2, <2>3
<1>10. CASE p = DoClose(b, req.id)
  <2>1. Shut(DoClose(b, req.id), part)
    BY <1>4, <1>6, <1>7, OpenDoClose
  <2>2. p.taken = b.taken /\ p.net = b.net
    BY <1>4, <1>7, <1>10, TakenStays, Zenon
  <2>3. Shut(p, part)
    BY <1>10, <2>1
  <2> QED BY <1>6, <2>2, <2>3
<1> QED BY <1>3, <1>4, <1>8, <1>9, <1>10

\* So is every request of the loop.
LEMMA DrainFlow ==
  ASSUME ~Polling, NEW part, NEW last, NEW t, NEW q, NEW a \in Flow(part, last, t, q)
  PROVE  Drain(a) \in Flow(part, last, t, q)
<1>1. a.incoming \in Seq(Package) /\ a.net \in Seq(Package)
  BY LoadType DEF Flow
<1>2. ASSUME NEW b \in Flow(part, last, t, q) PROVE DrainOne(b) \in Flow(part, last, t, q)
  <2>1. CASE b.incoming = <<>>
    BY <2>1 DEF DrainOne
  <2>2. CASE b.incoming # <<>>
    <3>1. /\ Fit(b) /\ Masks(b) /\ Open(b, part, last) /\ b.taken = t /\ b.net = q
      BY <2>2 DEF Flow, Shut
    <3> DEFINE p == ProcessHead(b)
    <3>2. DrainOne(b) = p
      BY <2>2 DEF DrainOne
    <3>3. p.taken = t /\ p.net = q /\ (Open(p, part, last) \/ Shut(p, part))
      BY <2>2, <3>1, HeadFlow
    <3>4. Goes(b, p)
      BY <2>2, <3>1, HeadGoes
    <3> HIDE DEF p
    <3>5. Fit(p) /\ Masks(p) /\ p \in Session
      BY <3>4 DEF Goes, Fit
    <3> QED BY <3>2, <3>3, <3>5 DEF Flow
  <2> QED BY <2>1, <2>2
<1> QED BY <1>1, <1>2, DrainStays

\* What ir_session does with input, for the client's view.
LEMMA InputFlow ==
  ASSUME ~Polling, NEW a, Working(a), NEW k \in 1..Len(a.net), NEW bad,
         bad <=> (\E i \in 1..k : a.net[i].kind \in Garbage),
         NEW p, p = IF bad THEN Drain(ReadPackages(a, k)) ELSE TakeRequests(ReadPackages(a, k)),
         NEW part, NEW last \in Nat, Open(a, part, last), Supply(a)
  PROVE  /\ p.taken \in Nat /\ p.taken > a.taken
         /\ p.taken + Len(p.net) = a.taken + Len(a.net)
         /\ Supply(p) /\ (Open(p, part, last) \/ Shut(p, part))
         /\ p.towrite = a.towrite /\ p.written = a.written /\ p.destroyed = a.destroyed
<1> DEFINE r == ReadPackages(a, k)
<1>0. Fit(a) /\ Masks(a)
  BY DEF Working
<1>1. PICK b : \E n \in 1..k, m \in 0..k :
         /\ Fit(b) /\ Loaded(a, b, n, m)
         /\ \/ /\ n = k /\ m = k /\ r = b
               /\ \A i \in 1..k : a.net[i].kind \notin Garbage
            \/ /\ m = n - 1 /\ a.net[n].kind \in Garbage
               /\ \/ a.net[n].kind = "httpGarbage" /\ r = Answered(b, a.net[n])
                  \/ r = DoClose(b, 0)
  BY <1>0, ReadOutcome
<1>2. PICK n \in 1..k, m \in 0..k :
         /\ Fit(b) /\ Loaded(a, b, n, m)
         /\ \/ /\ n = k /\ m = k /\ r = b
               /\ \A i \in 1..k : a.net[i].kind \notin Garbage
            \/ /\ m = n - 1 /\ a.net[n].kind \in Garbage
               /\ \/ a.net[n].kind = "httpGarbage" /\ r = Answered(b, a.net[n])
                  \/ r = DoClose(b, 0)
  BY <1>1
<1>3. a.net \in Seq(Package) /\ Len(a.net) \in Nat /\ a.taken \in Nat
  BY <1>0, LoadType DEF Fit, Session
<1>4. n \in 1..Len(a.net) /\ m \in 0..n /\ n \in Nat /\ n > 0
  BY <1>2, <1>3
<1>5. Open(b, part, last) /\ Supply(b)
  BY <1>0, <1>2, <1>4, LoadedOpen
<1>6. /\ b.taken \in Nat /\ b.taken > a.taken
      /\ b.taken + Len(b.net) = a.taken + Len(a.net)
  <2>1. b.taken = a.taken + n /\ b.net = SubSeq(a.net, n + 1, Len(a.net))
    BY <1>2 DEF Loaded
  <2>2. n \in 0..Len(a.net)
    BY <1>3, <1>4
  <2>3. Len(b.net) = Len(a.net) - n
    BY <1>3, <2>1, <2>2, Parts
  <2>4. \A i, j \in Nat : /\ i + n \in Nat /\ i + n > i
                          /\ (i + n) + (j - n) = i + j
    BY <1>4
  <2> QED BY <1>3, <2>1, <2>3, <2>4, Zenon
<1>7. /\ r.taken = b.taken /\ r.net = b.net
      /\ Open(r, part, last) \/ Shut(r, part)
  <2>1. CASE r = b
    BY <1>5, <2>1
  <2>2. CASE a.net[n].kind = "httpGarbage" /\ r = Answered(b, a.net[n])
    <3>1. a.net[n] \in Package /\ a.net[n].kind \in Kinds
      BY <1>3, <1>4, ElementOfSeq DEF Supply
    <3>2. IsNext(b, a.net[n], last)
      BY <2>2, <3>1 DEF IsNext
    <3>3. Open(Answered(b, a.net[n]), part, last)
      BY <1>2, <1>5, <3>1, <3>2, OpenAnswered
    <3> HIDE DEF r
    <3>4. r.taken = b.taken /\ r.net = b.net
      BY <1>2, <2>2, <3>1, TakenStays, Zenon
    <3> QED BY <2>2, <3>3, <3>4
  <2>3. CASE r = DoClose(b, 0)
    <3>1. 0 \in 0..MaxPackages
      BY SessionAssumption
    <3>2. Shut(DoClose(b, 0), part)
      BY <1>2, <1>5, <3>1, OpenDoClose
    <3> HIDE DEF r
    <3>3. r.taken = b.taken /\ r.net = b.net
      BY <1>2, <2>3, <3>1, TakenStays, Zenon
    <3> QED BY <2>3, <3>2, <3>3
  <2> QED BY <1>2, <2>1, <2>2, <2>3
<1>8. Goes(a, r)
  BY <1>0, ReadGoes
<1>9. CASE bad
  <2>1. p = Drain(r)
    BY <1>9
  <2> HIDE DEF r
  <2>2. r \in Flow(part, last, b.taken, b.net) /\ Fit(r) /\ Masks(r)
    BY <1>7, <1>8 DEF Flow, Goes, Fit
  <2>3. p \in Flow(part, last, b.taken, b.net)
    BY <2>1, <2>2, DrainFlow
  <2>4. Goes(r, p)
    BY <2>1, <2>2, DrainGoes
  <2>5. Supply(p)
    BY <1>5, <2>3 DEF Flow, Supply
  <2>6. p.taken = b.taken /\ p.net = b.net
    BY <2>3 DEF Flow
  <2> QED BY <1>6, <1>8, <2>3, <2>4, <2>5, <2>6 DEF Flow, Goes
<1>10. CASE ~bad
  <2>1. r = b /\ n = k /\ m = k
    BY <1>2, <1>10
  <2>2. r.incoming # <<>>
    <3>1. r.incoming = a.incoming \o SubSeq(a.net, 1, k)
      BY <1>2, <2>1 DEF Loaded
    <3>2. a.incoming \in Seq(Package)
      BY <1>0, LoadType
    <3>3. k \in 0..Len(a.net) /\ k \in Nat /\ k # 0
      BY <1>3
    <3>4. SubSeq(a.net, 1, k) \in Seq(Package) /\ Len(SubSeq(a.net, 1, k)) = k
      BY <1>3, <3>3, Parts
    <3>5. SubSeq(a.net, 1, k) # <<>>
      BY <3>3, <3>4, EmptySeq
    <3>6. ASSUME NEW t \in Seq(Package), NEW u \in Seq(Package), u # <<>>
          PROVE  t \o u # <<>>
      BY <3>6, ConcatEqualIffEmpty
    <3>7. a.incoming \o SubSeq(a.net, 1, k) # <<>>
      BY <3>2, <3>4, <3>5, <3>6
    <3> QED BY <3>1, <3>7
  <2> DEFINE c == ProcessHead(r)
  <2>3. p = IF c.outgoing # r.outgoing
            THEN [Drain(c) EXCEPT !.unanswered = FALSE] ELSE [c EXCEPT !.unanswered = TRUE]
    BY <1>10 DEF TakeRequests
  <2> HIDE DEF r
  <2>4. Fit(r) /\ Masks(r) /\ Open(r, part, last)
    BY <1>5, <1>8, <2>1 DEF Goes
  <2>5. /\ c.taken = b.taken /\ c.net = b.net
        /\ Open(c, part, last) \/ Shut(c, part)
    BY <1>7, <2>2, <2>4, HeadFlow
  <2>6. Goes(r, c)
    BY <2>2, <2>4, HeadGoes
  <2> HIDE DEF c
  <2>7. c \in Flow(part, last, b.taken, b.net) /\ Fit(c) /\ Masks(c)
    BY <2>5, <2>6 DEF Flow, Goes, Fit
  <2>8. Drain(c) \in Flow(part, last, b.taken, b.net) /\ Goes(c, Drain(c))
    BY <2>7, DrainFlow, DrainGoes
  <2>9. ASSUME NEW d \in Flow(part, last, b.taken, b.net), NEW u \in BOOLEAN, Goes(c, d),
               p = [d EXCEPT !.unanswered = u]
        PROVE  /\ p.taken = b.taken /\ p.net = b.net
               /\ Open(p, part, last) \/ Shut(p, part)
               /\ p.towrite = a.towrite /\ p.written = a.written /\ p.destroyed = a.destroyed
    <3>1. /\ d \in Session /\ d.taken = b.taken /\ d.net = b.net
          /\ Open(d, part, last) \/ Shut(d, part)
      BY DEF Flow
    <3>2. /\ p.taken = d.taken /\ p.net = d.net /\ p.incoming = d.incoming
          /\ p.outgoing = d.outgoing /\ p.state = d.state /\ p.towrite = d.towrite
          /\ p.written = d.written /\ p.destroyed = d.destroyed
      BY <2>9, <3>1 DEF Session
    <3>3. Open(p, part, last) \/ Shut(p, part)
      BY <3>1, <3>2, SameLine
    <3>4. /\ r.towrite = a.towrite /\ r.written = a.written /\ r.destroyed = a.destroyed
          /\ c.towrite = r.towrite /\ c.written = r.written /\ c.destroyed = r.destroyed
          /\ d.towrite = c.towrite /\ d.written = c.written /\ d.destroyed = c.destroyed
      BY <1>8, <2>6, <2>9 DEF Goes
    <3> QED BY <3>1, <3>2, <3>3, <3>4
  <2>10. /\ p.taken = b.taken /\ p.net = b.net
         /\ Open(p, part, last) \/ Shut(p, part)
         /\ p.towrite = a.towrite /\ p.written = a.written /\ p.destroyed = a.destroyed
    <3>1. CASE c.outgoing # r.outgoing
      BY <2>3, <2>8, <2>9, <3>1
    <3>2. CASE ~(c.outgoing # r.outgoing)
      BY <2>3, <2>7, <2>9, <3>2, GoesSteps
    <3> QED BY <3>1, <3>2
  <2>11. Supply(p)
    BY <1>5, <2>10 DEF Supply
  <2> QED BY <1>6, <2>10, <2>11
<1> QED BY <1>9, <1>10

(* The number last answered, as GfsAnswers has it, and whether the client  *)
(* has been told that the session ends.                                    *)
Latest(w) == IF w.answers = <<>> THEN 0 ELSE w.answers[Len(w.answers)]
Told(w) == \E i \in DOMAIN w.answers : w.answers[i] = 0

Ordered == "httpGarbage" \notin Kinds

(* The session goes on, or is at its end; only the latter has said so.     *)
Course(a, w) ==
  \/ Open(a, w.part, Latest(w)) /\ (Ordered => ~Told(w))
  \/ Shut(a, w.part) /\ (Ordered => (Told(w) => a.outgoing = <<>>))

(* The session a, of whose client n packages have come and whose client    *)
(* has w.  The counters of cs_put are those of the response in part.       *)
Stream(a, w, n) ==
  /\ Supply(a) /\ n = a.taken + Len(a.net)
  /\ w.part = <<>> => a.towrite = 0 /\ a.written = 0
  /\ w.part # <<>> => w.part = <<w.part[1]>> /\ a.towrite = w.part[1].len
  /\ Course(a, w)

FlowInv ==
  /\ AnswerLength # CloseLength => ~wire.torn
  /\ ~s.destroyed => Stream(s, wire, sent)

\* A session that is not dead has nothing of its end yet.
LEMMA AliveOpen ==
  ASSUME NEW a, NEW w, NEW n, Stream(a, w, n), a.state # "DEAD"
  PROVE  Open(a, w.part, Latest(w)) /\ (Ordered => ~Told(w))
BY DEF Stream, Course, Shut

\* What leaves the queues and the link alone keeps the stream; only a session
\* that is alive changes its state.
LEMMA StreamKept ==
  ASSUME NEW a, NEW w, NEW n, Stream(a, w, n), NEW b,
         b.taken = a.taken, b.incoming = a.incoming, b.outgoing = a.outgoing,
         b.net = a.net, b.towrite = a.towrite, b.written = a.written,
         b.state = a.state \/ a.state # "DEAD"
  PROVE  Stream(b, w, n)
<1>1. Supply(b)
  BY DEF Stream, Supply
<1>2. Course(b, w)
  <2>1. CASE Open(a, w.part, Latest(w)) /\ (Ordered => ~Told(w))
    BY <2>1, SameLine DEF Course
  <2>2. CASE Shut(a, w.part) /\ (Ordered => (Told(w) => a.outgoing = <<>>))
    <3>1. b.state = a.state
      BY <2>2 DEF Shut
    <3> QED BY <2>2, <3>1, SameLine DEF Course
  <2> QED BY <2>1, <2>2 DEF Stream, Course
<1> QED BY <1>1, <1>2 DEF Stream

\* The client sends one more package.
LEMMA StreamSent ==
  ASSUME NEW a, Fit(a), NEW w, NEW n, Stream(a, w, n), NEW q \in Package,
         q.id = n + 1, q.kind \in Kinds, NEW b, b = [a EXCEPT !.net = Append(@, q)]
  PROVE  Stream(b, w, n + 1)
<1>1. a.net \in Seq(Package) /\ Len(a.net) \in Nat /\ a.taken \in Nat
  BY LoadType DEF Fit, Session
<1>2. /\ Len(Append(a.net, q)) = Len(a.net) + 1
      /\ Append(a.net, q)[Len(a.net) + 1] = q
      /\ \A i \in 1..Len(a.net) : Append(a.net, q)[i] = a.net[i]
  BY <1>1, AppendProperties
<1>3. /\ b.net = Append(a.net, q) /\ b.taken = a.taken /\ b.incoming = a.incoming
      /\ b.outgoing = a.outgoing /\ b.state = a.state
      /\ b.towrite = a.towrite /\ b.written = a.written
  BY DEF Fit, Session
<1>4. n = a.taken + Len(a.net)
  BY DEF Stream
<1>5. n + 1 = b.taken + Len(b.net)
  BY <1>1, <1>2, <1>3, <1>4
<1>6. Supply(b)
  <2>1. SUFFICES ASSUME NEW i \in 1..Len(b.net)
                 PROVE  b.net[i].id = b.taken + i /\ b.net[i].kind \in Kinds
    BY DEF Supply
  <2>2. i \in 1..Len(a.net) \/ i = Len(a.net) + 1
    BY <1>1, <1>2, <1>3
  <2>3. CASE i \in 1..Len(a.net)
    <3>1. b.net[i] = a.net[i]
      BY <1>2, <1>3, <2>3
    <3> QED BY <1>3, <2>3, <3>1 DEF Stream, Supply
  <2>4. CASE i = Len(a.net) + 1
    <3>1. b.net[i] = q
      BY <1>2, <1>3, <2>4
    <3>2. n + 1 = a.taken + i
      BY <1>1, <1>4, <2>4
    <3> QED BY <1>3, <3>1, <3>2
  <2> QED BY <2>2, <2>3, <2>4
<1>7. Course(b, w)
  BY <1>3, SameLine DEF Stream, Course
<1> QED BY <1>3, <1>5, <1>6, <1>7 DEF Stream

LEMMA LatestType ==
  ASSUME NEW w \in Wire
  PROVE  Latest(w) \in Nat
<1>1. w.answers \in Seq(0..MaxPackages)
  BY DEF Wire
<1>2. CASE w.answers = <<>>
  BY <1>2 DEF Latest
<1>3. CASE w.answers # <<>>
  <2>1. Len(w.answers) \in Nat \ {0}
    BY <1>1, <1>3, EmptySeq
  <2>2. Len(w.answers) \in 1..Len(w.answers)
    BY <2>1
  <2>3. w.answers[Len(w.answers)] \in 0..MaxPackages
    BY <1>1, <2>2, ElementOfSeq
  <2> QED BY <1>3, <2>3, SessionAssumption DEF Latest
<1> QED BY <1>2, <1>3

\* ir_session on input.
LEMMA StreamInput ==
  ASSUME ~Polling, NEW a, Working(a), NEW w \in Wire, NEW n, Stream(a, w, n), a.state # "DEAD",
         NEW k \in 1..Len(a.net), NEW bad,
         bad <=> (\E i \in 1..k : a.net[i].kind \in Garbage),
         NEW p, p = IF bad THEN Drain(ReadPackages(a, k)) ELSE TakeRequests(ReadPackages(a, k))
  PROVE  Stream(p, w, n) /\ p.taken \in Nat /\ p.taken > a.taken /\ p.destroyed = a.destroyed
<1>1. Open(a, w.part, Latest(w)) /\ (Ordered => ~Told(w)) /\ Supply(a)
      /\ n = a.taken + Len(a.net)
  BY AliveOpen DEF Stream
<1>2. Latest(w) \in Nat
  BY LatestType
<1> DEFINE part == w.part
           last == Latest(w)
<1>3. /\ p.taken \in Nat /\ p.taken > a.taken
      /\ p.taken + Len(p.net) = a.taken + Len(a.net)
      /\ Supply(p) /\ (Open(p, part, last) \/ Shut(p, part))
      /\ p.towrite = a.towrite /\ p.written = a.written /\ p.destroyed = a.destroyed
  <2> HIDE DEF part, last
  <2>1. last \in Nat /\ Open(a, part, last)
    BY <1>1, <1>2 DEF part, last
  <2> QED BY <1>1, <2>1, InputFlow
<1>4. Course(p, w)
  BY <1>1, <1>3 DEF Course
<1> QED BY <1>1, <1>3, <1>4 DEF Stream

\* do_close_req of a session that is alive.
LEMMA StreamClosed ==
  ASSUME NEW a, Fit(a), NEW w, NEW n, Stream(a, w, n), a.state # "DEAD",
         NEW b, b = DoClose(a, 0)
  PROVE  Stream(b, w, n) /\ b.taken = a.taken /\ b.destroyed = a.destroyed
<1>1. Open(a, w.part, Latest(w)) /\ (Ordered => ~Told(w))
  BY AliveOpen
<1>2. 0 \in 0..MaxPackages
  BY SessionAssumption
<1>3. Shut(b, w.part)
  <2>1. Shut(DoClose(a, 0), w.part)
    BY <1>1, <1>2, OpenDoClose
  <2> QED BY <2>1
<1>4. /\ b.taken = a.taken /\ b.net = a.net /\ b.destroyed = a.destroyed
      /\ b.towrite = a.towrite /\ b.written = a.written
  BY DEF DoClose, Respond, Fit, Session
<1>5. Supply(b)
  BY <1>4 DEF Stream, Supply
<1> QED BY <1>1, <1>3, <1>4, <1>5 DEF Stream, Course

\* What cs_put is given is the first response of the queue.
LEMMA FirstIs ==
  ASSUME Fit(s), s.outgoing # <<>>, NEW r, r = Head(s.outgoing)
  PROVE  /\ r \in Response /\ r = s.outgoing[1] /\ Len(s.outgoing) \in Nat \ {0}
         /\ 1 \in 1..Len(s.outgoing)
         /\ Len(Tail(s.outgoing)) = Len(s.outgoing) - 1
         /\ \A i \in 1..(Len(s.outgoing) - 1) : Tail(s.outgoing)[i] = s.outgoing[i + 1]
         /\ Tail(s.outgoing) = <<>> <=> Len(s.outgoing) = 1
<1>1. s.outgoing \in Seq(Response)
  BY DEF Fit, Session
<1>2. /\ Head(s.outgoing) \in Response /\ Tail(s.outgoing) \in Seq(Response)
      /\ Len(Tail(s.outgoing)) = Len(s.outgoing) - 1
      /\ \A i \in 1..Len(Tail(s.outgoing)) : Tail(s.outgoing)[i] = s.outgoing[i + 1]
  BY <1>1, HeadTailProperties
<1>3. Len(s.outgoing) \in Nat \ {0}
  BY <1>1, EmptySeq
<1>4. Head(s.outgoing) = s.outgoing[1]
  BY <1>1
<1>5. Tail(s.outgoing) = <<>> <=> Len(Tail(s.outgoing)) = 0
  BY <1>2, EmptySeq
<1> QED BY <1>2, <1>3, <1>4, <1>5

\* The check of tcpip_put on the length of its buffer tells a Close from the
\* answer it has taken the place of, if their lengths differ.
LEMMA RightBuffer ==
  ASSUME Fit(s), NEW n, Stream(s, wire, n), s.outgoing # <<>>,
         NEW r, r = Head(s.outgoing), ~WrongBuf(r), AnswerLength # CloseLength,
         wire.part # <<>>
  PROVE  wire.part = <<r>>
<1>1. /\ r = s.outgoing[1] /\ wire.part = <<wire.part[1]>>
      /\ s.towrite = wire.part[1].len /\ Course(s, wire)
  BY FirstIs DEF Stream
<1>2. CASE Open(s, wire.part, Latest(wire))
  BY <1>1, <1>2 DEF Open
<1>3. CASE Shut(s, wire.part)
  <2>1. s.outgoing[1].len = CloseLength
    BY <1>3 DEF Shut
  <2>2. CASE s.outgoing[1] = wire.part[1]
    BY <1>1, <2>2
  <2>3. CASE wire.part[1].len = AnswerLength
    <3>1. s.towrite # 0 /\ s.towrite # r.len
      BY <1>1, <2>1, <2>3, SessionAssumption
    <3> QED BY <3>1 DEF WrongBuf
  <2> QED BY <1>3, <2>2, <2>3 DEF Shut
<1> QED BY <1>1, <1>2, <1>3 DEF Course

\* cs_put writes a part of the response.
LEMMA StreamPart ==
  ASSUME Fit(s), wire \in Wire, NEW n, Stream(s, wire, n), s.outgoing # <<>>,
         NEW r, r = Head(s.outgoing), ~WrongBuf(r), NEW m \in 1..(r.len - s.written - 1),
         NEW v, v = Put(r, m), NEW b, b = [s EXCEPT !.towrite = r.len, !.written = @ + m]
  PROVE  /\ Stream(b, v, n) /\ v.answers = wire.answers /\ b.taken = s.taken
         /\ b.destroyed = s.destroyed
         /\ AnswerLength # CloseLength /\ ~wire.torn => ~v.torn
<1>1. /\ r \in Response /\ r = s.outgoing[1] /\ s.written \in Nat /\ r.len \in Nat
      /\ wire.torn \in BOOLEAN
  <2>1. s \in Session /\ wire.torn \in BOOLEAN
    BY DEF Fit, Wire
  <2>2. r \in Response /\ r = s.outgoing[1]
    BY FirstIs
  <2> QED BY <2>1, <2>2 DEF Session, Response
<1>2. s.written + m # r.len
  BY <1>1
<1>3. v.part = <<r>> /\ v.answers = wire.answers
  BY <1>2 DEF Put, Wire
<1>4. v.torn = (wire.torn \/ (wire.part # <<>> /\ wire.part # <<r>>))
  BY DEF Put, Wire
<1>5. AnswerLength # CloseLength /\ ~wire.torn => ~v.torn
  BY <1>4, RightBuffer
<1>6. /\ b.taken = s.taken /\ b.net = s.net /\ b.incoming = s.incoming /\ b.outgoing = s.outgoing
      /\ b.state = s.state /\ b.towrite = r.len /\ b.destroyed = s.destroyed
  BY DEF Fit, Session
<1>7. Supply(b) /\ n = b.taken + Len(b.net)
  BY <1>6 DEF Stream, Supply
<1>8. v.part[1] = r /\ v.part # <<>>
  BY <1>3
<1>9. Latest(v) = Latest(wire) /\ (Told(v) <=> Told(wire))
  BY <1>3 DEF Latest, Told
<1>10. Course(b, v)
  <2>1. CASE Open(s, wire.part, Latest(wire)) /\ (Ordered => ~Told(wire))
    <3>1. Open(s, v.part, Latest(v))
      BY <1>1, <1>8, <1>9, <2>1 DEF Open
    <3>2. Open(b, v.part, Latest(v))
      BY <1>6, <3>1, SameLine
    <3> QED BY <1>9, <2>1, <3>2 DEF Course
  <2>2. CASE Shut(s, wire.part) /\ (Ordered => (Told(wire) => s.outgoing = <<>>))
    <3>1. Shut(s, v.part)
      BY <1>1, <1>8, <2>2 DEF Shut
    <3>2. Shut(b, v.part)
      BY <1>6, <3>1, SameLine
    <3> QED BY <1>6, <1>9, <2>2, <3>2 DEF Course
  <2> QED BY <2>1, <2>2 DEF Stream, Course
<1>11. Stream(b, v, n)
  BY <1>3, <1>6, <1>7, <1>8, <1>10 DEF Stream
<1> QED BY <1>3, <1>5, <1>6, <1>11

\* The line moves up when its first response is the client's.
LEMMA FirstDone ==
  ASSUME Fit(s), NEW part, NEW last, Open(s, part, last), s.outgoing # <<>>,
         NEW r, r = Head(s.outgoing), NEW b, b.outgoing = Tail(s.outgoing),
         b.incoming = s.incoming, b.taken = s.taken
  PROVE  Open(b, <<>>, r.id)
<1>1. /\ r \in Response /\ r = s.outgoing[1] /\ Len(s.outgoing) \in Nat \ {0}
      /\ 1 \in 1..Len(s.outgoing)
      /\ Len(b.outgoing) = Len(s.outgoing) - 1
      /\ \A i \in 1..(Len(s.outgoing) - 1) : b.outgoing[i] = s.outgoing[i + 1]
  BY FirstIs
<1>2. ASSUME NEW i \in 1..Len(b.outgoing)
      PROVE  i + 1 \in 1..Len(s.outgoing) /\ 1 < i + 1 /\ b.outgoing[i] = s.outgoing[i + 1]
  BY <1>1
<1>3. \A i \in 1..Len(b.outgoing) : ~b.outgoing[i].bye /\ b.outgoing[i].len = AnswerLength
  BY <1>2 DEF Open
<1>4. ASSUME Ordered
      PROVE  /\ r.id <= b.taken
             /\ \A i \in 1..Len(b.incoming) : r.id < b.incoming[i].id /\ b.incoming[i].id <= b.taken
             /\ \A i, j \in 1..Len(b.incoming) : i < j => b.incoming[i].id < b.incoming[j].id
             /\ \A i \in 1..Len(b.outgoing) : r.id < b.outgoing[i].id /\ b.outgoing[i].id <= b.taken
             /\ \A i, j \in 1..Len(b.outgoing) : i < j => b.outgoing[i].id < b.outgoing[j].id
             /\ \A i \in 1..Len(b.outgoing), j \in 1..Len(b.incoming) :
                  b.outgoing[i].id < b.incoming[j].id
  <2>1. /\ \A i \in 1..Len(s.incoming) : s.incoming[i].id <= s.taken
        /\ \A i, j \in 1..Len(s.incoming) : i < j => s.incoming[i].id < s.incoming[j].id
        /\ \A i \in 1..Len(s.outgoing) : s.outgoing[i].id <= s.taken
        /\ \A i, j \in 1..Len(s.outgoing) : i < j => s.outgoing[i].id < s.outgoing[j].id
        /\ \A i \in 1..Len(s.outgoing), j \in 1..Len(s.incoming) :
             s.outgoing[i].id < s.incoming[j].id
    BY <1>4 DEF Open, InLine, Ordered
  <2>2. r.id <= b.taken
    BY <1>1, <2>1
  <2>3. \A i \in 1..Len(b.incoming) : r.id < b.incoming[i].id /\ b.incoming[i].id <= b.taken
    BY <1>1, <2>1
  <2>4. \A i, j \in 1..Len(b.incoming) : i < j => b.incoming[i].id < b.incoming[j].id
    BY <2>1
  <2>5. \A i \in 1..Len(b.outgoing) : r.id < b.outgoing[i].id /\ b.outgoing[i].id <= b.taken
    BY <1>1, <1>2, <2>1
  <2>6. ASSUME NEW i \in 1..Len(b.outgoing), NEW j \in 1..Len(b.outgoing), i < j
        PROVE  b.outgoing[i].id < b.outgoing[j].id
    <3>1. i + 1 < j + 1
      BY <1>1, <2>6
    <3> QED BY <1>2, <2>1, <3>1
  <2>7. \A i \in 1..Len(b.outgoing), j \in 1..Len(b.incoming) :
          b.outgoing[i].id < b.incoming[j].id
    BY <1>2, <2>1
  <2> QED BY <2>2, <2>3, <2>4, <2>5, <2>6, <2>7
<1>5. InLine(b, r.id)
  BY <1>4 DEF InLine, Ordered
<1> QED BY <1>3, <1>5 DEF Open

\* cs_put writes the rest of the response: the client has it.
LEMMA StreamDone ==
  ASSUME Fit(s), wire \in Wire, NEW n, Stream(s, wire, n), s.outgoing # <<>>,
         NEW r, r = Head(s.outgoing), ~WrongBuf(r),
         NEW v, v = Put(r, r.len - s.written), NEW b, b.outgoing = Tail(s.outgoing),
         b.incoming = s.incoming, b.taken = s.taken, b.net = s.net, b.state = s.state,
         b.towrite = 0, b.written = 0
  PROVE  /\ Stream(b, v, n) /\ (AnswerLength # CloseLength /\ ~wire.torn => ~v.torn)
         /\ Ordered =>
              /\ ~Told(wire)
              /\ \/ ~Told(v) /\ \E id \in (Latest(wire) + 1)..s.taken :
                                  v.answers = Append(wire.answers, id)
                 \/ Told(v) /\ v.answers = Append(wire.answers, 0)
<1>1. /\ r \in Response /\ r = s.outgoing[1] /\ s.written \in Nat /\ r.len \in Nat
      /\ r.id \in 0..MaxPackages
      /\ wire.torn \in BOOLEAN /\ wire.answers \in Seq(0..MaxPackages) /\ s.taken \in Nat
      /\ 1 \in 1..Len(s.outgoing) /\ (Tail(s.outgoing) = <<>> <=> Len(s.outgoing) = 1)
  <2>1. /\ r \in Response /\ r = s.outgoing[1] /\ 1 \in 1..Len(s.outgoing)
        /\ (Tail(s.outgoing) = <<>> <=> Len(s.outgoing) = 1)
    BY FirstIs
  <2>2. s.written \in Nat /\ s.taken \in Nat
    BY DEF Fit, Session
  <2> QED BY <2>1, <2>2 DEF Response, Wire
<1>2. s.written + (r.len - s.written) = r.len
  BY <1>1
<1> DEFINE x == IF r.bye THEN 0 ELSE r.id
<1>3. /\ v.part = <<>> /\ v.answers = Append(wire.answers, x)
      /\ v.torn = (wire.torn \/ (wire.part # <<>> /\ wire.part # <<r>>))
  <2>1. wire = [answers |-> wire.answers, part |-> wire.part, torn |-> wire.torn]
    BY DEF Wire
  <2> QED BY <1>2, <2>1 DEF Put
<1>4. AnswerLength # CloseLength /\ ~wire.torn => ~v.torn
  BY <1>3, RightBuffer
<1>5. Supply(b) /\ n = b.taken + Len(b.net)
  BY DEF Stream, Supply
<1>6. x \in 0..MaxPackages
  BY <1>1, SessionAssumption
<1> HIDE DEF x
<1>7. /\ Len(v.answers) = Len(wire.answers) + 1 /\ v.answers[Len(v.answers)] = x
      /\ v.answers # <<>> /\ Len(wire.answers) \in Nat
      /\ DOMAIN v.answers = 1..(Len(wire.answers) + 1) /\ DOMAIN wire.answers = 1..Len(wire.answers)
      /\ \A i \in 1..Len(wire.answers) : v.answers[i] = wire.answers[i]
  <2>1. v.answers \in Seq(0..MaxPackages)
    BY <1>1, <1>3, <1>6, SeqClosed
  <2>2. /\ Len(wire.answers) \in Nat /\ DOMAIN wire.answers = 1..Len(wire.answers)
        /\ DOMAIN v.answers = 1..Len(v.answers)
    BY <1>1, <2>1, LenProperties
  <2> DEFINE q == wire.answers
  <2>3. /\ Append(q, x) # <<>> /\ Len(Append(q, x)) = Len(q) + 1
        /\ \A i \in 1..Len(q) : Append(q, x)[i] = q[i]
        /\ Append(q, x)[Len(q) + 1] = x
    <3> DEFINE T == 0..MaxPackages
    <3>1. q \in Seq(T) /\ x \in T
      BY <1>1, <1>6
    <3> HIDE DEF T, q
    <3> QED BY <3>1, AppendProperties
  <2>4. v.answers = Append(q, x)
    BY <1>3
  <2>5. v.answers # <<>> /\ Len(v.answers) = Len(q) + 1 /\ v.answers[Len(q) + 1] = x
    BY <2>3, <2>4, Zenon
  <2>6. \A i \in 1..Len(q) : v.answers[i] = q[i]
    BY <2>3, <2>4, Zenon
  <2> QED BY <2>2, <2>5, <2>6, Zenon
<1>8. Latest(v) = x /\ (Told(v) <=> Told(wire) \/ x = 0)
  <2>1. Latest(v) = x
    BY <1>7 DEF Latest
  <2> DEFINE k == Len(wire.answers)
  <2>2. k \in Nat /\ 1..(k + 1) = 1..k \cup {k + 1} /\ v.answers[k + 1] = x
    BY <1>7
  <2>3. Told(v) <=> \E i \in 1..k \cup {k + 1} : v.answers[i] = 0
    BY <1>7, <2>2 DEF Told
  <2>4. Told(wire) <=> \E i \in 1..k : v.answers[i] = 0
    BY <1>7 DEF Told
  <2> QED BY <2>1, <2>2, <2>3, <2>4
<1>9. CASE Open(s, wire.part, Latest(wire)) /\ (Ordered => ~Told(wire))
  <2>1. ~r.bye
    BY <1>1, <1>9 DEF Open
  <2>2. x = r.id
    BY <2>1 DEF x
  <2>3. Open(b, v.part, Latest(v))
    BY <1>3, <1>8, <1>9, <2>2, FirstDone
  <2>4. Ordered => Latest(wire) < r.id /\ r.id <= s.taken
    BY <1>1, <1>9 DEF Open, InLine, Ordered
  <2>5. Latest(wire) \in Nat
    BY LatestType
  <2>6. Ordered => x # 0 /\ x \in (Latest(wire) + 1)..s.taken
    BY <1>1, <2>2, <2>4, <2>5
  <2>7. Ordered => ~Told(v)
    BY <1>8, <1>9, <2>6
  <2>8. Stream(b, v, n)
    BY <1>3, <1>5, <2>3, <2>7 DEF Stream, Course
  <2> QED BY <1>3, <1>4, <1>9, <2>6, <2>7, <2>8
<1>10. CASE Shut(s, wire.part) /\ (Ordered => (Told(wire) => s.outgoing = <<>>))
  <2>1. r.bye /\ Tail(s.outgoing) = <<>> /\ s.state = "DEAD" /\ s.incoming = <<>>
    BY <1>1, <1>10 DEF Shut
  <2>2. x = 0
    BY <2>1 DEF x
  <2>3. Shut(b, v.part)
    BY <1>3, <2>1 DEF Shut
  <2>4. Stream(b, v, n)
    BY <1>3, <1>5, <2>1, <2>3 DEF Stream, Course
  <2> QED BY <1>3, <1>4, <1>8, <1>10, <2>2, <2>4
<1> QED BY <1>9, <1>10 DEF Stream, Course

(* What GfsAnswers sees of a session.                                      *)
Over == s.destroyed \/ Told(wire)
View == <<s.taken, wire.answers, Over>>
Seen == Ordered => [Answers!Next]_View

\* A step that the client does not see.
LEMMA QuietFlow ==
  ASSUME FlowInv, NEW a, s' = a, wire' = wire, Stream(a, wire, sent'),
         a.taken = s.taken, a.destroyed = s.destroyed
  PROVE  FlowInv' /\ Seen
<1>1. FlowInv'
  BY DEF FlowInv
<1>2. UNCHANGED View
  BY DEF View, Over
<1> QED BY <1>1, <1>2 DEF Seen

\* destroy_association, for the client.
LEMMA DestroyFlow ==
  ASSUME Inv, FlowInv, NEW e, Handled(e, DestroyAssociation(s)), wire' = wire
  PROVE  FlowInv' /\ Seen
<1>1. s'.destroyed = TRUE /\ s'.taken = s.taken
  <2> DEFINE b == DestroyAssociation(s)
  <2>1. b.destroyed = TRUE /\ b.taken = s.taken
    BY DestroyInv DEF Inv
  <2>2. s' = b
    BY DEF Handled
  <2> QED BY <2>1, <2>2
<1>2. FlowInv'
  BY <1>1 DEF FlowInv
<1>3. Answers!End
  BY <1>1 DEF Answers!End, Told
<1> QED BY <1>2, <1>3 DEF Seen, Answers!Next

LEMMA ClientFlow ==
  ASSUME Inv, FlowInv, Client
  PROVE  FlowInv' /\ Seen
<1>1. s \in Session /\ Fit(s)
  BY DEF Inv, TypeOK, SessionInv
<1>2. CASE HangUp
  <2>1. Stream(s, wire, sent) /\ s' = [s EXCEPT !.eof = TRUE] /\ wire' = wire /\ sent' = sent
    BY <1>2 DEF HangUp, FlowInv
  <2> DEFINE a == [s EXCEPT !.eof = TRUE]
  <2>2. /\ a.taken = s.taken /\ a.incoming = s.incoming /\ a.outgoing = s.outgoing
        /\ a.net = s.net /\ a.towrite = s.towrite /\ a.written = s.written /\ a.state = s.state
        /\ a.destroyed = s.destroyed
    BY <1>1 DEF Session
  <2> HIDE DEF a
  <2>3. Stream(a, wire, sent)
    BY <2>1, <2>2, StreamKept
  <2> QED BY <2>1, <2>2, <2>3, QuietFlow DEF a
<1>3. ASSUME NEW kind \in Kinds, NEW host \in HostsOf(kind), Send(kind, host)
      PROVE FlowInv' /\ Seen
  <2> DEFINE q == [id |-> sent + 1, kind |-> kind, host |-> host]
             a == [s EXCEPT !.net = Append(@, q)]
  <2>1. /\ Stream(s, wire, sent) /\ s' = a /\ wire' = wire /\ sent' = sent + 1
        /\ sent < MaxPackages
    BY <1>3 DEF Send, FlowInv
  <2>2. q \in Package /\ q.id = sent + 1 /\ q.kind \in Kinds
    <3>1. host \in Hosts
      BY SessionAssumption DEF HostsOf
    <3>2. sent + 1 \in 1..MaxPackages
      BY <2>1, SessionAssumption DEF Inv, TypeOK
    <3> QED BY <3>1, <3>2, SessionAssumption DEF Package
  <2>3. Stream(a, wire, sent + 1)
    <3> HIDE DEF q
    <3> QED BY <1>1, <2>1, <2>2, StreamSent
  <2>4. a.taken = s.taken /\ a.destroyed = s.destroyed
    BY <1>1 DEF Session
  <2> HIDE DEF a
  <2>5. Stream(a, wire, sent')
    BY <2>1, <2>3
  <2> QED BY <2>1, <2>4, <2>5, QuietFlow
<1> QED BY <1>2, <1>3 DEF Client

LEMMA PollFlow ==
  ASSUME Inv, FlowInv, Poll
  PROVE  FlowInv' /\ Seen
<1> DEFINE a == [s EXCEPT !.force = FALSE]
<1>1. Stream(s, wire, sent) /\ s' = a /\ wire' = wire /\ sent' = sent /\ s \in Session
  BY DEF Poll, FlowInv, Inv, TypeOK
<1>2. /\ a.taken = s.taken /\ a.incoming = s.incoming /\ a.outgoing = s.outgoing
      /\ a.net = s.net /\ a.towrite = s.towrite /\ a.written = s.written /\ a.state = s.state
      /\ a.destroyed = s.destroyed
  BY <1>1 DEF Session
<1> HIDE DEF a
<1>3. Stream(a, wire, sent)
  BY <1>1, <1>2, StreamKept
<1> QED BY <1>1, <1>2, <1>3, QuietFlow

LEMMA AcceptMoreFlow ==
  ASSUME Inv, FlowInv, NEW e, AcceptMore(e)
  PROVE  FlowInv' /\ Seen
<1>1. /\ SessionInv(s) /\ ~s.destroyed /\ s.accept # {} /\ wire' = wire
      /\ Stream(s, wire, sent)
  BY DEF Inv, FlowInv, AcceptMore, Due
<1>2. CASE Handled(e, DestroyAssociation(s))
  BY <1>1, <1>2, DestroyFlow
<1>3. ASSUME NEW acc \in Accepts,
             Handled(e, [s EXCEPT !.accept = acc,
                               !.get = IF acc = {} THEN {Inp} ELSE @,
                               !.flags = (@ \ {Outp}) \cup (IF acc = {} THEN {Inp} ELSE acc)])
      PROVE FlowInv' /\ Seen
  <2> DEFINE a == [s EXCEPT !.accept = acc,
                               !.get = IF acc = {} THEN {Inp} ELSE @,
                               !.flags = (@ \ {Outp}) \cup (IF acc = {} THEN {Inp} ELSE acc)]
  <2>1. s' = a /\ sent' = sent
    BY <1>3 DEF Handled
  <2>2. /\ a.taken = s.taken /\ a.incoming = s.incoming /\ a.outgoing = s.outgoing
        /\ a.net = s.net /\ a.towrite = s.towrite /\ a.written = s.written /\ a.state = s.state
        /\ a.destroyed = s.destroyed
    <3> DEFINE g == IF acc = {} THEN {Inp} ELSE s.get
               f == (s.flags \ {Outp}) \cup (IF acc = {} THEN {Inp} ELSE acc)
    <3>1. s \in Session
      BY <1>1 DEF SessionInv, Fit
    <3>2. a = [s EXCEPT !.accept = acc, !.get = g, !.flags = f]
      BY <3>1 DEF Session
    <3> HIDE DEF a, g, f
    <3> QED BY <3>1, <3>2 DEF Session
  <2> HIDE DEF a
  <2>3. Stream(a, wire, sent)
    BY <1>1, <2>2, StreamKept
  <2> QED BY <1>1, <2>1, <2>2, <2>3, QuietFlow
<1> QED BY <1>2, <1>3 DEF AcceptMore

LEMMA InputStepFlow ==
  ASSUME ~Polling, Inv, FlowInv, Input
  PROVE  FlowInv' /\ Seen
<1>1. /\ SessionInv(s) /\ ~s.destroyed /\ s.accept = {} /\ wire' = wire /\ wire \in Wire
      /\ Stream(s, wire, sent) /\ s \in Session
  BY DEF Inv, TypeOK, FlowInv, Input, Due
<1>2. Working(s) /\ Fit(s)
  BY <1>1 DEF SessionInv, Working
<1>3. CASE Handled(Inp, s)
  <2>1. s' = s /\ sent' = sent
    BY <1>3 DEF Handled
  <2> QED BY <1>1, <2>1, QuietFlow
<1>4. CASE Handled(Inp, DestroyAssociation(s))
  BY <1>1, <1>4, DestroyFlow
<1>5. CASE s.state # "DEAD" /\ Handled(Inp, ReadEof(s))
  <2> DEFINE a == ReadEof(s)
  <2>1. s' = a /\ sent' = sent
    BY <1>5 DEF Handled
  <2>2. /\ a.taken = s.taken /\ a.incoming = s.incoming /\ a.outgoing = s.outgoing
        /\ a.net = s.net /\ a.towrite = s.towrite /\ a.written = s.written
        /\ a.destroyed = s.destroyed
    BY <1>1 DEF ReadEof, Session
  <2> HIDE DEF a
  <2>3. Stream(a, wire, sent)
    BY <1>1, <1>5, <2>2, StreamKept
  <2> QED BY <1>1, <2>1, <2>2, <2>3, QuietFlow
<1>6. ASSUME s.state # "DEAD", NEW k \in 1..Len(s.net),
             Handled(Inp, IF \E i \in 1..k : s.net[i].kind \in Garbage
                          THEN Drain(ReadPackages(s, k)) ELSE TakeRequests(ReadPackages(s, k)))
      PROVE FlowInv' /\ Seen
  <2> DEFINE bad == \E i \in 1..k : s.net[i].kind \in Garbage
             p == IF bad THEN Drain(ReadPackages(s, k)) ELSE TakeRequests(ReadPackages(s, k))
  <2>1. s' = p /\ sent' = sent
    BY <1>6 DEF Handled
  <2>2. Stream(p, wire, sent) /\ p.taken \in Nat /\ p.taken > s.taken /\ p.destroyed = s.destroyed
    <3>1. bad <=> (\E i \in 1..k : s.net[i].kind \in Garbage)
      OBVIOUS
    <3> HIDE DEF bad
    <3> QED BY <1>1, <1>2, <1>6, <3>1, StreamInput
  <2> HIDE DEF p
  <2>3. FlowInv'
    BY <1>1, <2>1, <2>2 DEF FlowInv
  <2>4. Answers!Take
    BY <1>1, <2>1, <2>2 DEF Answers!Take
  <2> QED BY <2>3, <2>4 DEF Seen, Answers!Next
<1> QED BY <1>3, <1>4, <1>5, <1>6 DEF Input

LEMMA OutputFlow ==
  ASSUME Inv, FlowInv, Output
  PROVE  FlowInv' /\ Seen
<1>1. /\ SessionInv(s) /\ ~s.destroyed /\ s.accept = {} /\ wire \in Wire
      /\ Stream(s, wire, sent) /\ s \in Session
  BY DEF Inv, TypeOK, FlowInv, Output, Due
<1>2. CASE Outp \notin s.put
  <2>1. s' = s /\ sent' = sent /\ wire' = wire
    BY <1>2 DEF Output, Handled
  <2> QED BY <1>1, <2>1, QuietFlow
<1>3. CASE Outp \in s.put
  <2>1. s.outgoing # <<>> /\ Fit(s)
    BY <1>1, <1>3 DEF SessionInv, Masks
  <2> DEFINE r == Head(s.outgoing)
             rest == Tail(s.outgoing)
  <2>2. \/ Handled(Outp, DestroyAssociation(s)) /\ UNCHANGED wire
        \/ /\ ~WrongBuf(r)
           /\ \E n \in 1..(r.len - s.written - 1) :
                /\ wire' = Put(r, n)
                /\ Handled(Outp, [s EXCEPT !.towrite = r.len, !.written = @ + n])
        \/ /\ ~WrongBuf(r)
           /\ wire' = Put(r, r.len - s.written)
           /\ Handled(Outp, [s EXCEPT
                     !.towrite = 0, !.written = 0, !.outgoing = rest,
                     !.put = IF rest = <<>> THEN {} ELSE {Outp},
                     !.flags = IF rest = <<>> THEN s.get ELSE @,
                     !.force = @ \/ (rest = <<>> /\ s.state = "DEAD")])
    BY <1>3, <2>1 DEF Output
  <2>3. CASE Handled(Outp, DestroyAssociation(s)) /\ UNCHANGED wire
    BY <1>1, <2>3, DestroyFlow
  <2>4. ASSUME ~WrongBuf(r), NEW n \in 1..(r.len - s.written - 1), wire' = Put(r, n),
               Handled(Outp, [s EXCEPT !.towrite = r.len, !.written = @ + n])
        PROVE FlowInv' /\ Seen
    <3> DEFINE v == Put(r, n)
               a == [s EXCEPT !.towrite = r.len, !.written = @ + n]
    <3>1. s' = a /\ sent' = sent /\ wire' = v
      BY <2>4 DEF Handled
    <3>2. /\ Stream(a, v, sent) /\ v.answers = wire.answers /\ a.taken = s.taken
          /\ a.destroyed = s.destroyed
          /\ AnswerLength # CloseLength /\ ~wire.torn => ~v.torn
      <4> HIDE DEF r
      <4> QED BY <1>1, <2>1, <2>4, StreamPart DEF r
    <3> HIDE DEF a, v
    <3>3. FlowInv'
      BY <3>1, <3>2 DEF FlowInv
    <3>4. UNCHANGED View
      BY <3>1, <3>2 DEF View, Over, Told
    <3> QED BY <3>3, <3>4 DEF Seen
  <2>5. CASE /\ ~WrongBuf(r)
             /\ wire' = Put(r, r.len - s.written)
             /\ Handled(Outp, [s EXCEPT
                     !.towrite = 0, !.written = 0, !.outgoing = rest,
                     !.put = IF rest = <<>> THEN {} ELSE {Outp},
                     !.flags = IF rest = <<>> THEN s.get ELSE @,
                     !.force = @ \/ (rest = <<>> /\ s.state = "DEAD")])
    <3> DEFINE v == Put(r, r.len - s.written)
               b == [s EXCEPT
                     !.towrite = 0, !.written = 0, !.outgoing = rest,
                     !.put = IF rest = <<>> THEN {} ELSE {Outp},
                     !.flags = IF rest = <<>> THEN s.get ELSE @,
                     !.force = @ \/ (rest = <<>> /\ s.state = "DEAD")]
    <3>1. s' = b /\ sent' = sent /\ wire' = v
      BY <2>5 DEF Handled
    <3>2. /\ b.outgoing = Tail(s.outgoing) /\ b.incoming = s.incoming /\ b.state = s.state
          /\ b.taken = s.taken /\ b.net = s.net /\ b.destroyed = s.destroyed
          /\ b.towrite = 0 /\ b.written = 0
      <4> DEFINE p == IF rest = <<>> THEN {} ELSE {Outp}
                 f == IF rest = <<>> THEN s.get ELSE s.flags
                 g == s.force \/ (rest = <<>> /\ s.state = "DEAD")
      <4>1. b = [s EXCEPT !.towrite = 0, !.written = 0, !.outgoing = rest,
                          !.put = p, !.flags = f, !.force = g]
        BY <1>1 DEF Session
      <4> HIDE DEF b, p, f, g
      <4> QED BY <1>1, <4>1 DEF Session
    <3> HIDE DEF b
    <3>3. /\ Stream(b, v, sent) /\ (AnswerLength # CloseLength /\ ~wire.torn => ~v.torn)
          /\ Ordered =>
               /\ ~Told(wire)
               /\ \/ ~Told(v) /\ \E id \in (Latest(wire) + 1)..s.taken :
                                   v.answers = Append(wire.answers, id)
                  \/ Told(v) /\ v.answers = Append(wire.answers, 0)
      <4> HIDE DEF r
      <4> QED BY <1>1, <2>1, <2>5, <3>2, StreamDone DEF r
    <3> HIDE DEF v
    <3>4. FlowInv'
      BY <3>1, <3>3 DEF FlowInv
    <3>5. ASSUME Ordered PROVE Answers!Answer \/ Answers!SayBye
      <4>1. CASE ~Told(v) /\ \E id \in (Latest(wire) + 1)..s.taken :
                               v.answers = Append(wire.answers, id)
        <5>1. Answers!Answer
          BY <1>1, <3>1, <3>2, <3>3, <3>5, <4>1
             DEF Answers!Answer, Answers!LastAnswered, Latest, Told
        <5> QED BY <5>1
      <4>2. CASE Told(v) /\ v.answers = Append(wire.answers, 0)
        <5>1. Answers!SayBye
          BY <1>1, <3>1, <3>2, <3>3, <3>5, <4>2 DEF Answers!SayBye, Answers!Bye, Told
        <5> QED BY <5>1
      <4> QED BY <3>3, <3>5, <4>1, <4>2
    <3> QED BY <3>4, <3>5 DEF Seen, Answers!Next
  <2> QED BY <2>2, <2>3, <2>4, <2>5
<1> QED BY <1>2, <1>3

LEMMA EndingFlow ==
  ASSUME Inv, FlowInv, Exception \/ TimeOut
  PROVE  FlowInv' /\ Seen
<1>1. /\ Fit(s) /\ ~s.destroyed /\ wire' = wire /\ Stream(s, wire, sent)
  BY DEF Inv, SessionInv, FlowInv, Exception, TimeOut, Due
<1>2. PICK e : \/ Handled(e, DestroyAssociation(s))
               \/ Handled(e, DoClose(s, 0)) /\ s.state = "UP"
  BY DEF Exception, TimeOut
<1>3. CASE Handled(e, DestroyAssociation(s))
  BY <1>1, <1>3, DestroyFlow
<1>4. CASE Handled(e, DoClose(s, 0)) /\ s.state = "UP"
  <2> DEFINE b == DoClose(s, 0)
  <2>1. s' = b /\ sent' = sent
    BY <1>4 DEF Handled
  <2>2. Stream(b, wire, sent) /\ b.taken = s.taken /\ b.destroyed = s.destroyed
    BY <1>1, <1>4, StreamClosed
  <2> HIDE DEF b
  <2> QED BY <1>1, <2>1, <2>2, QuietFlow
<1> QED BY <1>2, <1>3, <1>4

LEMMA NextFlow ==
  ASSUME ~Polling, Inv, FlowInv, [Next]_vars
  PROVE  FlowInv' /\ Seen
<1>1. CASE Next
  BY <1>1, ClientFlow, PollFlow, AcceptMoreFlow, InputStepFlow, OutputFlow, EndingFlow
     DEF Next, Handle
<1>2. CASE UNCHANGED vars
  <2>1. s' = s /\ wire' = wire /\ sent' = sent
    BY <1>2 DEF vars
  <2>2. FlowInv'
    BY <2>1 DEF FlowInv
  <2>3. UNCHANGED View
    BY <2>1 DEF View, Over
  <2> QED BY <2>2, <2>3 DEF Seen
<1> QED BY <1>1, <1>2

LEMMA InitFlow ==
  ASSUME Init
  PROVE  FlowInv /\ Answers!Init
<1>1. PICK acc \in Accepts : s = NewSession(acc)
  BY DEF Init
<1>2. /\ s.taken = 0 /\ s.net = <<>> /\ s.incoming = <<>> /\ s.outgoing = <<>>
      /\ s.towrite = 0 /\ s.written = 0 /\ s.destroyed = FALSE
  BY <1>1 DEF NewSession
<1>3. /\ wire.part = <<>> /\ wire.answers = <<>> /\ wire.torn = FALSE /\ sent = 0
  BY DEF Init
<1>4. Len(<<>>) = 0 /\ 1..0 = {}
  OBVIOUS
<1>5. Latest(wire) = 0 /\ ~Told(wire)
  BY <1>3 DEF Latest, Told
<1>6. Open(s, wire.part, Latest(wire))
  BY <1>2, <1>3, <1>4, <1>5 DEF Open, InLine
<1>7. Stream(s, wire, sent)
  BY <1>2, <1>3, <1>4, <1>5, <1>6 DEF Stream, Supply, Course
<1>8. Answers!Init
  BY <1>2, <1>3 DEF Answers!Init
<1> QED BY <1>2, <1>3, <1>7, <1>8 DEF FlowInv

(***************************************************************************)
(* SessionSafe: what the client receives, too, is made of whole responses, *)
(* on a server for every host that its clients name, with a backend that   *)
(* does not call back to poll.  A Close of the length of an answer would   *)
(* pass the check of tcpip_put: the lengths are taken to differ.           *)
(***************************************************************************)
THEOREM SessionSafeHolds ==
  ASSUME Known = Hosts, ~Polling, AnswerLength # CloseLength
  PROVE  Spec => []SessionSafe
<1>1. Inv /\ FlowInv /\ [Next]_vars => FlowInv'
  BY NextFlow
<1>2. Init => FlowInv
  BY InitFlow
<1>3. Inv /\ FlowInv => SessionSafe
  BY DEF Inv, SessionInv, Clean, Masks, FlowInv, SessionSafe, NoFault, StreamIntact,
         ResponsesWatched, WaitsBehindUnanswered
<1> QED BY <1>1, <1>2, <1>3, SessionInvariant, PTL DEF Spec

(***************************************************************************)
(* AnswersInOrder: the session implements GfsAnswers, whatever hosts the   *)
(* server knows, unless its backend polls or its clients send bad HTTP.    *)
(***************************************************************************)
THEOREM AnswersInOrderHolds ==
  ASSUME ~Polling, "httpGarbage" \notin Kinds
  PROVE  Spec => AnswersInOrder
<1>1. Init => FlowInv /\ Answers!Init
  BY InitFlow
<1>2. Inv /\ FlowInv /\ [Next]_vars => FlowInv'
  BY NextFlow
<1>3. Inv /\ FlowInv /\ [Next]_vars
        => [Answers!Next]_<<s.taken, wire.answers,
                            s.destroyed \/ \E i \in DOMAIN wire.answers : wire.answers[i] = 0>>
  BY NextFlow DEF Seen, Ordered, View, Over, Told
<1> QED BY <1>1, <1>2, <1>3, SessionInvariant, PTL DEF Spec, AnswersInOrder, Answers!Spec
=============================================================================
