----------------------------- MODULE GfsSession -----------------------------
(***************************************************************************)
(* One session of the generic frontend server (src/src/seshigh.c,          *)
(* src/src/requestq.c) with its channel of the event loop (eventl.c): the  *)
(* queues of pipelined requests and of encoded responses, the masks that   *)
(* say which event means what, Close, keep-alive, virtual hosts and the    *)
(* life of the backend's handle.                                           *)
(*                                                                         *)
(* The client is the environment: it sends packages and hangs up.  A       *)
(* package is of one of the Kinds, which name all that the handlers tell   *)
(* apart; what they compute for it is in GfsServices.                      *)
(***************************************************************************)
EXTENDS Naturals, Sequences, FiniteSets, SequencesExt

CONSTANTS
  Kinds,        \* the kinds of package the client sends
  Hosts,        \* the virtual hosts a client may name
  Known,        \* the hosts that a server is configured for
  Handlers,     \* the optional backend handlers that are installed
  AnswerLength, \* pieces in which an answer may be written
  CloseLength,  \* pieces in which a Close may be written
  MaxPackages,  \* bound on what the client sends
  Accepts,      \* what an accept that is not complete may wait for
  Polling       \* the backend calls bend_assoc_is_alive while it searches

Operations == {"search", "present", "scan", "es", "sort", "delete"}
InitKinds == {"init2", "init3", "initRefused", "initNull"}
HttpKinds == {"http", "httpClose", "httpPlain", "httpRefused"}
Garbage == {"garbage", "httpGarbage", "oversize"}

AllKinds == Operations \cup InitKinds \cup HttpKinds \cup Garbage
            \cup {"segment", "close", "trigger", "bad", "noresult", "foreign"}

ASSUME SessionAssumption ==
  /\ Kinds \subseteq AllKinds
  /\ Known \subseteq Hosts /\ Hosts # {} /\ "none" \notin Hosts
  /\ Handlers \subseteq Operations \ {"search", "present"}
  /\ AnswerLength \in Nat \ {0}
  /\ CloseLength \in Nat \ {0}
  /\ MaxPackages \in Nat
  /\ Accepts \subseteq SUBSET {"INPUT", "OUTPUT"}
  /\ Polling \in BOOLEAN

VARIABLES
  s,        \* the association, its channel and its link
  sent,     \* number of packages sent by the client
  pending,  \* events of the current round of the event loop not yet handled
  wire      \* what the client has received

vars == <<s, sent, pending, wire>>

Inp == "INPUT"
Outp == "OUTPUT"
Except == "EXCEPT"
Timeout == "TIMEOUT"
None == "none"

(* A package of the client and the structure request that carries it.      *)
Package == [id : 1..MaxPackages, kind : AllKinds, host : Hosts]

(* An encoded response: the request it answers (0 for a Close of the       *)
(* server's own), whether it is a Close, its length in pieces.             *)
Response == [id : 0..MaxPackages, bye : BOOLEAN, len : Nat]

(* struct association, struct iochan and, of the COMSTACK, the two counters *)
(* that cs_put goes by and the complete packages in its buffers.           *)
Session ==
  [state : {"NEW", "UP", "DEAD"}, init : BOOLEAN, version : 0..3,
   backend : BOOLEAN, control : Hosts \cup {None}, handles : Nat,
   get : SUBSET {Inp, Outp}, put : SUBSET {Inp, Outp}, accept : SUBSET {Inp, Outp},
   incoming : Seq(Package), outgoing : Seq(Response), taken : Nat,
   flags : SUBSET {Inp, Outp}, force : BOOLEAN, idle : BOOLEAN,
   destroyed : BOOLEAN, towrite : Nat, written : Nat,
   net : Seq(Package), eof : BOOLEAN,
   fault : BOOLEAN, unanswered : BOOLEAN]

(* The client's view: the answers it has in full (0 for a Close), the      *)
(* response it has in part, and whether two responses were mixed.          *)
Wire == [answers : Seq(0..MaxPackages), part : Seq(Response), torn : BOOLEAN]

-----------------------------------------------------------------------------
(* create_association and new_session: an accept that did not complete     *)
(* (TLS) is finished by the session itself.                                *)
NewSession(acc) ==
  [state |-> "NEW", init |-> FALSE, version |-> 0, backend |-> FALSE,
   control |-> None, handles |-> 0,
   get |-> IF acc = {} THEN {Inp} ELSE {}, put |-> {}, accept |-> acc,
   incoming |-> <<>>, outgoing |-> <<>>, taken |-> 0,
   flags |-> IF acc = {} THEN {Inp} ELSE acc, force |-> FALSE, idle |-> TRUE,
   destroyed |-> FALSE, towrite |-> 0, written |-> 0,
   net |-> <<>>, eof |-> FALSE, fault |-> FALSE, unanswered |-> FALSE]

(* destroy_association, with cs_close and iochan_destroy: the backend is   *)
(* closed and the queues are freed.                                        *)
DestroyAssociation(a) ==
  [a EXCEPT !.destroyed = TRUE, !.backend = FALSE,
            !.handles = IF a.backend THEN @ - 1 ELSE @,
            !.incoming = <<>>, !.outgoing = <<>>]

(* process_gdu_response up to the loop over the other requests: the        *)
(* response joins the outgoing queue and the output handler is woken.      *)
Respond(a, r) ==
  [a EXCEPT !.outgoing = Append(@, r), !.flags = @ \cup {Outp}, !.put = {Outp}]

Answered(a, req) ==
  Respond(a, [id |-> req.id, bye |-> FALSE, len |-> AnswerLength])

\* (mutant) the responses that wait are not purged
DoClose_KeepsOutgoing(a, id) ==
  LET purged == [a EXCEPT !.incoming = <<>>, !.state = "DEAD"]
  IN IF a.version >= 3
     THEN [purged EXCEPT !.outgoing = <<[id |-> id, bye |-> TRUE, len |-> CloseLength]>> \o @,
                         !.flags = @ \cup {Outp}, !.put = {Outp}]
     ELSE [purged EXCEPT !.force = TRUE, !.put = {}]

(* do_close_req: the queues are purged; a version 3 client is told.        *)
DoClose(a, id) ==
  LET purged == [a EXCEPT !.incoming = <<>>, !.outgoing = <<>>]
      told == [Respond(purged, [id |-> id, bye |-> TRUE, len |-> CloseLength])
                 EXCEPT !.idle = TRUE]
      silent == [purged EXCEPT !.force = TRUE, !.put = {}]
  IN [(IF a.version >= 3 THEN told ELSE silent) EXCEPT !.state = "DEAD"]

\* (mutant) the backend of the other server is forgotten
ControlAssociation_Forgets(a, host, force) ==
  IF host \notin Known THEN [a EXCEPT !.control = None]
  ELSE LET away == force \/ a.control # host
       IN [a EXCEPT !.control = host, !.backend = @ /\ ~away, !.init = @ /\ ~away]

(* control_association: the server for the virtual host; a backend of      *)
(* another server is closed.  No server is found: nothing is closed.       *)
ControlAssociation(a, host, force) ==
  IF host \notin Known
  THEN [a EXCEPT !.control = None]
  ELSE LET away == force \/ (a.control # host /\ a.backend)
       IN [a EXCEPT !.control = host,
             !.handles = IF away /\ a.backend /\ a.init THEN @ - 1 ELSE @,
             !.backend = @ /\ ~away,
             !.init = @ /\ ~away]

(* process_initRequest: the backend is opened anew; one that refuses, or a *)
(* host that no server is configured for, leaves a dead association.       *)
InitRequest(a, req) ==
  LET c == ControlAssociation(a, req.host, TRUE)
      reset == [c EXCEPT !.init = TRUE, !.backend = FALSE, !.idle = TRUE]
      opens == c.control # None /\ req.kind \in {"init2", "init3"}
      opened == [reset EXCEPT
                   !.backend = opens,
                   !.handles = IF opens THEN @ + 1 ELSE @,
                   !.version = IF req.kind = "init2" THEN 2 ELSE 3,
                   !.state = IF opens THEN "UP" ELSE "DEAD"]
  IN IF c.control # None /\ req.kind = "initNull"
     THEN DoClose(reset, req.id)
     ELSE Answered(opened, req)

(* srw_bend_init: the first request that needs the backend opens it.       *)
SrwBendInit(a, kind) ==
  IF a.init THEN a
  ELSE [a EXCEPT !.init = TRUE,
                 !.backend = (kind # "httpRefused"),
                 !.handles = IF kind # "httpRefused" THEN @ + 1 ELSE @,
                 !.state = IF kind = "httpRefused" THEN "DEAD" ELSE @]

(* process_http_request up to the response: the server for the host, then  *)
(* a file of its document path (or nothing known) or an SRU operation.     *)
ServeHttp(a, req) ==
  LET c == ControlAssociation(a, req.host, FALSE)
  IN IF c.control = None \/ req.kind = "httpPlain"
     THEN c ELSE SrwBendInit(c, req.kind)

(* process_http_request from there on: the connection is kept or not, the  *)
(* answer queued.  last_control is NULL when no server was found.          *)
KeepAlive(a, req) ==
  Answered(IF req.kind = "httpClose"
           THEN [a EXCEPT !.state = "DEAD", !.get = {}]
           ELSE [a EXCEPT !.idle = TRUE, !.fault = @ \/ a.control = None],
           req)

HttpRequest(a, req) == KeepAlive(ServeHttp(a, req), req)

(* process_close: even a version 2 client is answered with a Close.        *)
CloseRequest(a, req) ==
  DoClose([a EXCEPT !.version = IF @ < 3 THEN 3 ELSE @], req.id)

-----------------------------------------------------------------------------
(* ir_read after the checks: k packages are read, one after the other while *)
(* cs_more says that another is complete.  What cannot be read or decoded  *)
(* ends the session; a bad HTTP request is answered before those queued.   *)
ReadPackages(a, k) ==
  LET batch == SubSeq(a.net, 1, k)
      bad == {i \in 1..k : batch[i].kind \in Garbage}
      n == IF bad = {} THEN k ELSE CHOOSE i \in bad : \A j \in bad : i <= j
      good == IF bad = {} THEN batch ELSE SubSeq(batch, 1, n - 1)
      queued == [a EXCEPT !.get = {Inp}, !.net = SubSeq(@, n + 1, Len(@)),
                          !.taken = @ + n, !.incoming = @ \o good]
  IN CASE bad = {} -> queued
       [] bad # {} /\ batch[n].kind = "httpGarbage" ->
            Answered([queued EXCEPT !.state = "DEAD"], batch[n])
       [] OTHER -> DoClose(queued, 0)

(* ir_read at the end of the client's stream.                              *)
ReadEof(a) == [a EXCEPT !.get = {Inp}, !.state = "DEAD"]

(* bend_assoc_is_alive, called by a backend in the middle of a search:     *)
(* what has arrived is read (and queued) there and then.                   *)
IsAlive(a) ==
  IF a.state = "DEAD" \/ ~Polling THEN a
  ELSE IF a.net # <<>> THEN ReadPackages(a, Len(a.net))
  ELSE IF a.eof THEN ReadEof(a) ELSE a

(* process_gdu_request and process_z_request.  triggerResourceControl has  *)
(* no response; a Segment's handler has none and so closes the session.    *)
ProcessRequest(a, req) ==
  CASE req.kind \in HttpKinds -> HttpRequest(a, req)
    [] req.kind \in InitKinds -> InitRequest(a, req)
    [] req.kind \notin HttpKinds \cup InitKinds /\ (~a.init \/ req.kind = "foreign")
         -> DoClose(a, req.id)
    [] req.kind = "close" /\ a.init -> CloseRequest(a, req)
    [] req.kind = "trigger" /\ a.init -> a
    [] req.kind \in {"search", "present"} \cup Handlers /\ a.init
         -> Answered(IF req.kind = "search" THEN IsAlive(a) ELSE a, req)
    [] OTHER -> DoClose(a, req.id)

(* request_deq of the head and its processing.                             *)
ProcessHead(a) ==
  ProcessRequest([a EXCEPT !.incoming = Tail(@)], Head(a.incoming))

(* The loop of process_gdu_response: as long as there are requests.  Every *)
(* turn takes one, and a backend that polls may queue more meanwhile.      *)
DrainOne(a) == IF a.incoming = <<>> THEN a ELSE ProcessHead(a)

Drain(a) ==
  LET turns == Len(a.incoming) + Len(a.net)
      after[n \in 0..turns] == IF n = 0 THEN a ELSE DrainOne(after[n - 1])
  IN after[turns]

(* The input handler takes one request; the loop is reached only when that *)
(* one got a response.                                                     *)
TakeRequests(a) ==
  LET b == ProcessHead(a)
  IN IF b.outgoing # a.outgoing
     THEN [Drain(b) EXCEPT !.unanswered = FALSE]
     ELSE [b EXCEPT !.unanswered = TRUE]

-----------------------------------------------------------------------------
Init == /\ s \in {NewSession(acc) : acc \in Accepts}
        /\ sent = 0
        /\ pending = {}
        /\ wire = [answers |-> <<>>, part |-> <<>>, torn |-> FALSE]

(* The client sends a package, or hangs up.                                *)
Send(kind, host) ==
  /\ ~s.eof /\ ~s.destroyed
  /\ sent < MaxPackages
  /\ sent' = sent + 1
  /\ s' = [s EXCEPT !.net = Append(@, [id |-> sent + 1, kind |-> kind, host |-> host])]
  /\ UNCHANGED <<pending, wire>>

HangUp ==
  /\ ~s.eof /\ ~s.destroyed
  /\ s' = [s EXCEPT !.eof = TRUE]
  /\ UNCHANGED <<sent, pending, wire>>

(* One round of iochan_event_loop for this channel: yaz_poll, and which    *)
(* handlers are due.  Input that is there is always reported, room for     *)
(* output when there is some; an idle timeout only when nothing else is.   *)
Readable == IF Inp \in s.flags /\ (s.net # <<>> \/ s.eof) THEN {Inp} ELSE {}
Broken == IF s.eof THEN {{}, {Except}} ELSE {{}}
Forced == IF s.force THEN {Timeout} ELSE {}

Poll ==
  /\ pending = {} /\ ~s.destroyed
  /\ \E w \in SUBSET (s.flags \cap {Outp}), x \in Broken :
       LET due == Readable \cup w \cup x \cup Forced
       IN /\ due # {} \/ s.idle
          /\ pending' = IF due = {} THEN {Timeout} ELSE due
  /\ s' = [s EXCEPT !.force = FALSE]
  /\ UNCHANGED <<sent, wire>>

(* The same when the client has made room for what it is to be sent.       *)
PollWritable == Poll /\ (s.flags \cap {Outp}) \subseteq pending'

(* The handlers are called in this order, those of a destroyed channel not.*)
Due(e) == /\ e \in pending
          /\ e = Outp => Inp \notin pending
          /\ e = Except => pending \cap {Inp, Outp} = {}
          /\ e = Timeout => pending = {Timeout}

Handled(e, a) ==
  /\ s' = a
  /\ pending' = IF a.destroyed THEN {} ELSE pending \ {e}
  /\ UNCHANGED sent

(* ir_session while the accept is not complete.                            *)
AcceptMore(e) ==
  /\ Due(e) /\ e \in s.accept
  /\ \/ Handled(e, DestroyAssociation(s))
     \/ \E acc \in Accepts :
          Handled(e, [s EXCEPT !.accept = acc,
                               !.get = IF acc = {} THEN {Inp} ELSE @,
                               !.flags = (@ \ {Outp}) \cup (IF acc = {} THEN {Inp} ELSE acc)])
  /\ UNCHANGED wire

(* ir_session and ir_read on input.                                        *)
Input ==
  /\ Due(Inp) /\ s.accept = {}
  /\ UNCHANGED wire
  /\ \/ /\ Inp \notin s.get
        /\ Handled(Inp, s)
     \/ /\ Inp \in s.get /\ s.state = "DEAD"
        /\ Handled(Inp, DestroyAssociation(s))
     \/ /\ Inp \in s.get /\ s.state # "DEAD"
        /\ \/ s.net = <<>> /\ Handled(Inp, ReadEof(s))
           \/ \E k \in 1..Len(s.net) :
                LET a == ReadPackages(s, k)
                    bad == \E i \in 1..k : s.net[i].kind \in Garbage
                IN Handled(Inp, IF bad THEN Drain(a) ELSE TakeRequests(a))

(* cs_put: tcpip_put goes on where the last call stopped, whatever buffer  *)
(* it is given, unless that has another length.                            *)
Put(r, n) ==
  [wire EXCEPT !.torn = @ \/ (wire.part # <<>> /\ wire.part # <<r>>),
               !.part = IF s.written + n = r.len THEN <<>> ELSE <<r>>,
               !.answers = IF s.written + n = r.len
                           THEN Append(@, IF r.bye THEN 0 ELSE r.id) ELSE @]

\* (mutant) the length of the buffer is not compared
WrongBuf_Never(r) == FALSE

WrongBuf(r) == s.towrite # 0 /\ s.towrite # r.len

(* ir_session on output: the response is written in part, or to its end,   *)
(* or the link fails.                                                      *)
Output ==
  /\ Due(Outp) /\ s.accept = {}
  /\ IF Outp \notin s.put
     THEN Handled(Outp, s) /\ UNCHANGED wire
     ELSE IF s.outgoing = <<>>
     THEN Handled(Outp, [s EXCEPT !.fault = TRUE]) /\ UNCHANGED wire
     ELSE LET r == Head(s.outgoing)
              rest == Tail(s.outgoing)
          IN \/ /\ WrongBuf(r) \/ s.eof
                /\ Handled(Outp, DestroyAssociation(s))
                /\ UNCHANGED wire
             \/ /\ ~WrongBuf(r)
                /\ \E n \in 1..(r.len - s.written - 1) :
                     /\ wire' = Put(r, n)
                     /\ Handled(Outp, [s EXCEPT !.towrite = r.len, !.written = @ + n])
             \/ /\ ~WrongBuf(r)
                /\ wire' = Put(r, r.len - s.written)
                /\ Handled(Outp, [s EXCEPT
                     !.towrite = 0, !.written = 0, !.outgoing = rest,
                     !.put = IF rest = <<>> THEN {} ELSE {Outp},
                     !.flags = IF rest = <<>> THEN s.get ELSE @,
                     !.force = @ \/ (rest = <<>> /\ s.state = "DEAD")])

(* ir_session on an exception and on a timeout.                            *)
Exception ==
  /\ Due(Except)
  /\ Handled(Except, DestroyAssociation(s))
  /\ UNCHANGED wire

\* (mutant) the timeout of a closed session sends one more Close
TimeOut_ClosesAgain ==
  /\ Due(Timeout)
  /\ Handled(Timeout, IF s.init THEN DoClose(s, 0) ELSE DestroyAssociation(s))
  /\ UNCHANGED wire

TimeOut ==
  /\ Due(Timeout)
  /\ Handled(Timeout, IF s.state = "UP" THEN DoClose(s, 0) ELSE DestroyAssociation(s))
  /\ UNCHANGED wire

Handle == AcceptMore(Inp) \/ AcceptMore(Outp) \/ Input \/ Output \/ Exception \/ TimeOut

(* Only an Init and an HTTP request name a host.                           *)
HostsOf(kind) == IF kind \in InitKinds \cup HttpKinds THEN Hosts
                 ELSE {CHOOSE h \in Hosts : TRUE}

Client == HangUp \/ \E k \in Kinds : \E h \in HostsOf(k) : Send(k, h)

Next == Client \/ Poll \/ Handle

(* The event loop keeps running; the client reads what it is sent.         *)
Fairness == WF_vars(Poll) /\ WF_vars(Handle) /\ SF_vars(PollWritable)

Spec == Init /\ [][Next]_vars

FairSpec == Spec /\ Fairness

-----------------------------------------------------------------------------
TypeOK == /\ s \in Session
          /\ sent \in 0..MaxPackages
          /\ pending \subseteq {Inp, Outp, Except, Timeout}
          /\ wire \in Wire

(* No handler takes a request or a response from an empty queue, and the   *)
(* HTTP handler never follows a NULL last_control (src/src/seshigh.c:436,  *)
(* :2008).                                                                 *)
NoFault == ~s.fault

(* What the client receives is made of whole responses: a Close that       *)
(* purges a response of which a part is written never goes on in its place *)
(* (src/src/seshigh.c:240).                                                *)
StreamIntact == ~wire.torn

(* A response that waits is going to be written: the channel polls for     *)
(* room and the handler knows what to do with it (src/src/seshigh.c:2167). *)
ResponsesWatched == s.outgoing # <<>> => Outp \in s.flags /\ s.put = {Outp}

(* Every backend handle that bend_init gave is the association's current   *)
(* one or has been closed: over several Inits, changes of virtual host,    *)
(* refusals and every way a session ends (src/src/statserv.c:321).         *)
HandlesBalanced == s.handles = (IF s.backend THEN 1 ELSE 0)

(* Pipelined requests wait unprocessed only behind one that has no         *)
(* response at all (src/src/seshigh.c:2122).                               *)
WaitsBehindUnanswered == s.incoming # <<>> => s.unanswered

(* The client's view of the session.                                       *)
Answers == INSTANCE GfsAnswers
             WITH asked <- s.taken, answers <- wire.answers,
                  over <- s.destroyed \/ \E i \in DOMAIN wire.answers : wire.answers[i] = 0

(* The session implements the client's view of it: answers in order, at    *)
(* most one for a request, the Close last.                                 *)
AnswersInOrder == Answers!Spec

(* An association that is dead is destroyed, and its connection closed:    *)
(* none lingers because no event is due any more.                          *)
DeadIsDestroyed == s.state = "DEAD" ~> s.destroyed

(* What holds of a session at every step, whatever the client sends and    *)
(* when it hangs up: the queues and masks agree, no handler acts on an     *)
(* empty queue, pipelined requests are processed, and the client's stream  *)
(* is never torn (src/src/seshigh.c:240, :436, :2122, :2167).              *)
SessionSafe ==
  TypeOK /\ NoFault /\ StreamIntact /\ ResponsesWatched /\ WaitsBehindUnanswered
=============================================================================
