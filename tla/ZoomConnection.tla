--------------------------- MODULE ZoomConnection ---------------------------
(***************************************************************************)
(* The ZOOM client connection object: src/src/zoom-c.c, zoom-event.c,      *)
(* zoom-socket.c and the control part of zoom-z3950.c and zoom-sru.c.      *)
(*                                                                         *)
(* A connection owns a queue of tasks (connect, search, scan, package,     *)
(* sort), a queue of events for the application, one COMSTACK and the      *)
(* select mask that it waits for.  The application queues tasks and calls  *)
(* ZOOM_event; every handler below is the whole C function, written as an  *)
(* operator from the connection's record to its next record.  What the     *)
(* network does inside a handler is a parameter of the handler:            *)
(*   w  what cs_put does                                                   *)
(*   k  what cs_create_host2 and cs_connect do                             *)
(*   r  what cs_rcvconnect or cs_get does                                  *)
(*   a  what the peer's answer says.                                       *)
(***************************************************************************)
EXTENDS Naturals, Sequences

CONSTANTS
  HostProto,        \* protocol of host_port: "Z3950" or "HTTP"
  TaskKinds,        \* the kinds of task that the application queues
  ConnectWhenBusy,  \* may it call ZOOM_connection_connect amid an operation?
  CallOnError,      \* may it queue a task before ZOOM_event has given up the
                    \* tasks of a failed one?
  ReuseAfterRedirect, \* may it use the connection after a failed redirect?
  Redirects,        \* may the HTTP server answer with a redirect?
  MaxRedirects,     \* the 10 of handle_http
  MaxRounds,        \* bound: requests beyond the first that a search needs
  MaxPieces,        \* bound: partial reads, partial writes, connect retries
  MaxCalls          \* bound: API calls of the application

ASSUME ProtoAssumption == HostProto \in {"Z3950", "HTTP"}
ASSUME KindsAssumption == TaskKinds \subseteq {"SEARCH", "SCAN", "PACKAGE", "SORT"}
ASSUME FlagAssumption ==
  /\ ConnectWhenBusy \in BOOLEAN
  /\ CallOnError \in BOOLEAN
  /\ ReuseAfterRedirect \in BOOLEAN
  /\ Redirects \in BOOLEAN
ASSUME BoundAssumption ==
  /\ MaxRedirects \in Nat
  /\ MaxRounds \in Nat
  /\ MaxPieces \in Nat
  /\ MaxCalls \in Nat

VARIABLES
  conn,    \* struct ZOOM_connection_p, and the transport connection it owns
  calls    \* API calls made so far

vars == <<conn, calls>>

(***************************************************************************)
(* Values                                                                  *)
(***************************************************************************)
Which == {"CONNECT", "SEARCH", "SCAN", "PACKAGE", "SORT"}

\* What is sent: a task's request (the Init request for CONNECT), or the GET
\* of send_HTTP_redirect that repeats the first task's at another host.
Request == Which \cup {"REDIRECT"}

\* One ZOOM_task.  need: a request must be sent; its answer is in the record
\* cache (or there is nothing to sort by); its query cannot be sent.  rounds:
\* how many requests after the first a search may take.
Need == {"request", "nothing", "invalid"}
Task == [which : Which, running : BOOLEAN, need : Need, rounds : Nat]

\* ZOOM_EVENT_* (RECV_RECORD stands for the RECV_SEARCH and RECV_RECORD
\* events of one response).
Event == {"CONNECT", "SEND_APDU", "SEND_DATA", "RECV_DATA", "RECV_APDU",
          "RECV_RECORD", "TIMEOUT", "END"}

\* The errors that the switch of clear_error keeps.
Kept == {"CONNECT", "DECODE", "CONNECTION_LOST", "INIT", "INTERNAL",
         "UNSUPPORTED_PROTOCOL"}

\* The errors that its comment wants to keep: Init Refused is INIT when the
\* response says no more, and INITDIAG when it comes with a diagnostic.
Fatal == Kept \cup {"INITDIAG"}

\* DIAG is any other diagnostic or query error; like TIMEOUT and INITDIAG,
\* clear_error resets it.
Error == Kept \cup {"NONE", "TIMEOUT", "DIAG", "INITDIAG"}

\* none: c->cs is NULL.  unbound: connect failed, c->cs kept (CS_NONE).
\* connecting, data: cs_look says CS_CONNECT, CS_DATA.
Comstack == {"none", "unbound", "connecting", "data"}

Select == {"READ", "WRITE", "EXCEPT"}

\* wire: the requests that the peer has received on this COMSTACK and not
\* answered.  buf_out: the request that was encoded last.  towrite:
\* the request that the COMSTACK has begun to write and not finished.
\* fault: a failed assert or a NULL dereference ended the process.
Connection ==
  [proto : {"Z3950", "HTTP"}, cs : Comstack,
   state : {"IDLE", "CONNECTING", "ESTABLISHED"}, mask : SUBSET Select,
   reconnect_ok : BOOLEAN, error : Error, tasks : Seq(Task),
   events : Seq(Event), last_event : Event \cup {"NONE"},
   location : BOOLEAN, no_redirects : Nat,
   buf_out : Request, towrite : Request \cup {"NONE"}, wire : Seq(Request),
   pieces : Nat, fault : {"NONE", "NULL", "ASSERT"}]

TypeOK == conn \in Connection /\ calls \in Nat

(***************************************************************************)
(* The event queue: zoom-event.c                                           *)
(***************************************************************************)
PutEvent(c, e) == [c EXCEPT !.events = Append(@, e)]

GetEvent(c) ==
  IF c.events = <<>> THEN [c EXCEPT !.last_event = "NONE"]
  ELSE [c EXCEPT !.last_event = Head(c.events), !.events = Tail(c.events)]

RemoveEvents(c) == [c EXCEPT !.events = <<>>, !.last_event = "NONE"]

(***************************************************************************)
(* Errors and tasks                                                        *)
(***************************************************************************)
SetError(c, e) == [c EXCEPT !.error = e]

\* (mutant) a lost connection counts as recoverable
ClearErrorForgetsLost(c) ==
  [RemoveEvents(c) EXCEPT
     !.error = IF @ \in Kept \ {"CONNECTION_LOST"} THEN @ ELSE "NONE"]

ClearError(c) ==
  [RemoveEvents(c) EXCEPT !.error = IF @ \in Kept THEN @ ELSE "NONE"]

NewTask(which, need, rounds) ==
  [which |-> which, running |-> FALSE, need |-> need, rounds |-> rounds]

AddTask(c, t) == ClearError([c EXCEPT !.tasks = Append(@, t)])

InsertConnect(c) == [c EXCEPT !.tasks = <<NewTask("CONNECT", "request", 0)>> \o @]

\* (mutant) every task that ends is reported as the last one
RemoveTaskAlwaysEnds(c) ==
  IF c.tasks = <<>> THEN c ELSE PutEvent([c EXCEPT !.tasks = Tail(@)], "END")

RemoveTask(c) ==
  IF c.tasks = <<>> THEN c
  ELSE IF Len(c.tasks) = 1 THEN PutEvent([c EXCEPT !.tasks = <<>>], "END")
  ELSE [c EXCEPT !.tasks = Tail(@)]

RemoveTasks(c) ==
  IF c.tasks = <<>> THEN c ELSE PutEvent([c EXCEPT !.tasks = <<>>], "END")

\* ZOOM_connection_close
Close(c) ==
  [c EXCEPT !.cs = "none", !.mask = {}, !.state = "IDLE",
            !.wire = <<>>, !.towrite = "NONE"]

\* (mutant) the interrupted task is not put back
ReconnectKeepsRunning(c) ==
  IF c.tasks = <<>> THEN [Close(c) EXCEPT !.fault = "NULL"]
  ELSE PutEvent(InsertConnect([Close(c) EXCEPT !.reconnect_ok = FALSE]), "CONNECT")

\* ZOOM_test_reconnect, once reconnect_ok is known to be set.  It dereferences
\* c->tasks without looking.
Reconnect(c) ==
  IF c.tasks = <<>> THEN [Close(c) EXCEPT !.fault = "NULL"]
  ELSE PutEvent(InsertConnect([Close(c) EXCEPT !.reconnect_ok = FALSE,
                                               !.tasks[1].running = FALSE]),
                "CONNECT")

\* (mutant) the connection is closed and nothing says why
LoseSilently(c, error) ==
  IF c.reconnect_ok THEN Reconnect(c) ELSE Close(c)

\* The reaction to a broken connection that do_read, do_io and the Close APDU
\* share: start over if that is allowed, else report the error and close.
Lose(c, error) ==
  IF c.reconnect_ok THEN Reconnect(c) ELSE Close(SetError(c, error))

(***************************************************************************)
(* Sending: do_write_ex, send_APDU, ZOOM_send_GDU                          *)
(***************************************************************************)
\* cs_put refuses a buffer that is not the one it is in the middle of (the
\* sizes differ), and a socket that is not connected.
CannotPut(c) ==
  \/ c.towrite # "NONE" /\ c.towrite # c.buf_out
  \/ c.cs = "unbound"

\* retry: send() failed and tcpip_put turned to the host's next address.
SendBuf(c, w) ==
  LET d == PutEvent(c, "SEND_DATA") IN
  IF CannotPut(c) \/ w = "fail"
  THEN Lose(d, IF c.state = "CONNECTING" THEN "CONNECT" ELSE "CONNECTION_LOST")
  ELSE IF w = "sent"
  THEN [d EXCEPT !.mask = {"READ", "EXCEPT"}, !.towrite = "NONE",
                 !.wire = Append(@, c.buf_out)]
  ELSE IF w = "partial"
  THEN [d EXCEPT !.mask = {"WRITE", "EXCEPT"}, !.towrite = c.buf_out,
                 !.pieces = @ + 1]
  ELSE [d EXCEPT !.mask = Select, !.towrite = c.buf_out, !.cs = "connecting",
                 !.pieces = @ + 1]

SendRequest(c, which, w) ==
  SendBuf(PutEvent([c EXCEPT !.buf_out = which], "SEND_APDU"), w)

\* Did SendRequest return zoom_complete?
SendCompletes(c, which, w) ==
  /\ w = "fail" \/ CannotPut([c EXCEPT !.buf_out = which])
  /\ ~ c.reconnect_ok

(***************************************************************************)
(* Connecting and running tasks                                            *)
(***************************************************************************)
\* do_connect_host.  established (cs_connect returned 0) is for a Z39.50
\* server on a local socket: TCP resolves the name in a thread first.
DoConnectHost(c, w, k) ==
  LET closed == [c EXCEPT !.cs = "none", !.wire = <<>>, !.towrite = "NONE"]
      created == [closed EXCEPT !.proto = IF HostProto = "HTTP" THEN "HTTP" ELSE @]
  IN  CASE k = "nohost" ->
             [closed EXCEPT !.state = "IDLE", !.error = "CONNECT"]
        [] k = "refused" ->
             [created EXCEPT !.cs = "unbound", !.state = "IDLE", !.error = "CONNECT"]
        [] k = "pending" ->
             [created EXCEPT !.cs = "connecting", !.state = "CONNECTING", !.mask = Select]
        [] k = "established" ->
             [SendRequest(PutEvent([created EXCEPT !.cs = "data"], "CONNECT"), "CONNECT", w)
                EXCEPT !.state = "ESTABLISHED"]

\* ZOOM_connection_exec_task
ExecTask(c, w, k) ==
  LET which == Head(c.tasks).which
      started == [c EXCEPT !.tasks[1].running = TRUE]
  IN  IF c.tasks = <<>> THEN c
      ELSE IF c.error # "NONE" THEN RemoveTasks(c)
      ELSE IF Head(c.tasks).running THEN c
      ELSE IF which = "CONNECT" THEN
        IF k \in {"nohost", "refused"}
        THEN RemoveTask(DoConnectHost(started, w, k))
        ELSE DoConnectHost(started, w, k)
      ELSE IF c.cs = "none" THEN RemoveTasks(started)
      ELSE IF Head(c.tasks).need = "invalid" THEN RemoveTask(SetError(started, "DIAG"))
      ELSE IF Head(c.tasks).need = "nothing" THEN RemoveTask(started)
      ELSE IF SendCompletes(started, which, w)
      THEN RemoveTask(SendRequest(started, which, w))
      ELSE SendRequest(started, which, w)

\* cs_rcvconnect in ZOOM_connection_do_io, and what follows when the
\* connection is up: the Init request, or (HTTP) the request itself.
Connected(c, w, k) ==
  LET up == PutEvent([c EXCEPT !.cs = "data"], "CONNECT")
      ready == IF Head(c.tasks).which = "CONNECT"
               THEN [RemoveTask(up) EXCEPT !.mask = {}] ELSE up
      next == IF c.proto = "Z3950" THEN SendRequest(up, "CONNECT", w)
              ELSE IF c.tasks = <<>> THEN [up EXCEPT !.fault = "NULL"]
              ELSE IF c.location
              THEN SendRequest([ready EXCEPT !.location = FALSE], "REDIRECT", w)
              ELSE ExecTask(ready, w, k)
  IN  [next EXCEPT !.state = IF next.cs = "data" THEN "ESTABLISHED" ELSE @]

RcvConnect(c, r, w, k) ==
  CASE r = "again" -> PutEvent([c EXCEPT !.mask = Select, !.pieces = @ + 1], "CONNECT")
    [] r = "up"    -> Connected(c, w, k)
    [] r = "down"  -> Close(SetError(c, "CONNECT"))

(***************************************************************************)
(* Receiving: ZOOM_handle_Z3950_apdu                                       *)
(***************************************************************************)
\* (mutant) the mask is not cleared
TakeResponseKeepsMask(c) == [c EXCEPT !.wire = Tail(@)]

\* Both handlers first stop listening.
TakeResponse(c) == [c EXCEPT !.mask = {}, !.wire = Tail(@)]

HeadIs(c, which) == c.tasks # <<>> /\ Head(c.tasks).which = which

InitResponse(c, a, w, k) ==
  CASE a = "refuse"     -> SetError(c, "INIT")
    [] a = "refusediag" -> SetError(c, "INITDIAG")
    [] OTHER ->
         IF c.tasks # <<>> /\ ~ HeadIs(c, "CONNECT") THEN [c EXCEPT !.fault = "ASSERT"]
         ELSE ExecTask(RemoveTask(c), w, k)

\* Search, Present and Sort responses end in ZOOM_connection_Z3950_search,
\* which asserts that the head is a search unless it is a sort.
NextPresent(c, w) ==
  IF c.tasks = <<>> THEN c
  ELSE IF HeadIs(c, "SORT") THEN RemoveTask(c)
  ELSE IF ~ HeadIs(c, "SEARCH") THEN [c EXCEPT !.fault = "ASSERT"]
  ELSE IF SendCompletes(c, "SEARCH", w)
  THEN RemoveTask(SendRequest(c, "SEARCH", w))
  ELSE SendRequest(c, "SEARCH", w)

\* (mutant) the records of one response are counted twice
NextChunkTwice(c) ==
  PutEvent([c EXCEPT !.tasks[1].rounds = @ - 2], "RECV_RECORD")

\* A response with records, after which the search needs another request.
NextChunk(c) == PutEvent([c EXCEPT !.tasks[1].rounds = @ - 1], "RECV_RECORD")

SearchResponse(c, a, w) ==
  IF ~ HeadIs(c, "SEARCH") THEN NextPresent(c, w)
  ELSE CASE a = "diag" -> RemoveTasks(SetError(c, "DIAG"))
         [] a = "more" -> NextPresent(NextChunk(c), w)
         [] OTHER -> RemoveTask(PutEvent(c, "RECV_RECORD"))

SortResponse(c, a, w) ==
  NextPresent(IF a = "diag" THEN RemoveTasks(SetError(c, "DIAG")) ELSE c, w)

ScanResponse(c, a) ==
  RemoveTask(IF a = "diag" /\ HeadIs(c, "SCAN") THEN SetError(c, "DIAG") ELSE c)

EsResponse(c, a) ==
  IF c.tasks = <<>> THEN c
  ELSE IF ~ HeadIs(c, "PACKAGE") THEN [c EXCEPT !.fault = "ASSERT"]
  ELSE RemoveTask(IF a = "diag" THEN SetError(c, "DIAG") ELSE c)

HandleZ3950(c, a, w, k) ==
  LET d == TakeResponse(c) IN
  CASE Head(c.wire) = "CONNECT" -> InitResponse(d, a, w, k)
    [] Head(c.wire) = "SEARCH"  -> SearchResponse(d, a, w)
    [] Head(c.wire) = "SORT"    -> SortResponse(d, a, w)
    [] Head(c.wire) = "SCAN"    -> ScanResponse(d, a)
    [] Head(c.wire) = "PACKAGE" -> EsResponse(d, a)

(***************************************************************************)
(* Receiving: handle_http and ZOOM_handle_sru                              *)
(***************************************************************************)

\* The end of handle_http: complete says that cret is zoom_complete.
FinishHttp(c, complete, must_close) ==
  LET d == IF complete THEN RemoveTask(c) ELSE c
      e == Close(d)
  IN  IF ~ must_close THEN [d EXCEPT !.reconnect_ok = TRUE]
      ELSE IF e.tasks = <<>> THEN e
      ELSE InsertConnect([e EXCEPT !.reconnect_ok = FALSE, !.tasks[1].running = FALSE])

\* A response that ZOOM_handle_sru accepted: if it ended a redirect, the
\* connection is closed to return to the original host.
EndRedirect(c) ==
  [IF c.no_redirects > 0 THEN Close(c) ELSE c EXCEPT !.no_redirects = 0]

\* (mutant) redirects are not counted
FollowUncounted(c) == [c EXCEPT !.location = TRUE]

FollowRedirect(c) == [c EXCEPT !.no_redirects = @ + 1, !.location = TRUE]

HandleHttp(c, a, must_close, w, k) ==
  LET d == TakeResponse(c)
      records == PutEvent(d, "RECV_RECORD")
      further == NextChunk(d)
  IN  CASE a = "redirect" ->
             IF d.no_redirects + 1 > MaxRedirects
             THEN FinishHttp(Close([d EXCEPT !.error = "DIAG", !.no_redirects = 0]),
                             TRUE, must_close)
             ELSE DoConnectHost(FollowRedirect(d), w, k)
        [] a = "more" ->
             FinishHttp(EndRedirect(SendRequest(further, "SEARCH", w)),
                        SendCompletes(further, "SEARCH", w), must_close)
        [] a = "done" -> FinishHttp(EndRedirect(records), TRUE, must_close)
        [] a = "diag" -> FinishHttp(EndRedirect(SetError(d, "DIAG")), TRUE, must_close)
        [] a \in {"badstatus", "badbody"} ->
             FinishHttp(Close([d EXCEPT !.error = IF a = "badbody" THEN "DECODE" ELSE "DIAG",
                                        !.no_redirects = 0]),
                        TRUE, must_close)

(***************************************************************************)
(* do_read and ZOOM_connection_do_io                                       *)
(***************************************************************************)
DoRead(c, r, a, must_close, w, k) ==
  LET d == PutEvent(c, "RECV_DATA")
      e == PutEvent(d, "RECV_APDU")
  IN  CASE r = "incomplete" -> [d EXCEPT !.pieces = @ + 1]
        [] r = "error"      -> Close(SetError(d, "DECODE"))
        [] r = "eof"        -> Lose(d, "CONNECTION_LOST")
        [] r = "garbled"    -> Lose(e, "DECODE")
        [] r = "closeapdu"  -> Lose([e EXCEPT !.mask = {}], "CONNECTION_LOST")
        [] r = "response"   -> IF c.proto = "Z3950" THEN HandleZ3950(e, a, w, k)
                               ELSE HandleHttp(e, a, must_close, w, k)

DoIO(c, m, r, a, must_close, w, k) ==
  IF c.cs = "unbound" THEN PutEvent(Close(SetError(c, "CONNECT")), "CONNECT")
  ELSE IF c.cs = "connecting" THEN RcvConnect(c, r, w, k)
  ELSE IF "EXCEPT" \in m THEN Lose(c, "CONNECTION_LOST")
  ELSE LET d == IF "READ" \in m THEN DoRead(c, r, a, must_close, w, k) ELSE c
       IN  IF d.cs # "none" /\ "WRITE" \in m THEN SendBuf(d, w) ELSE d

(***************************************************************************)
(* The application                                                         *)
(***************************************************************************)
Init ==
  /\ conn = [proto |-> "Z3950", cs |-> "none", state |-> "IDLE", mask |-> {},
             reconnect_ok |-> FALSE, error |-> "NONE", tasks |-> <<>>,
             events |-> <<>>, last_event |-> "NONE", location |-> FALSE,
             no_redirects |-> 0, buf_out |-> "CONNECT", towrite |-> "NONE",
             wire |-> <<>>, pieces |-> 0, fault |-> "NONE"]
  /\ calls = 0

\* An API call: the process is alive and the bound allows the call.
Call ==
  /\ conn.fault = "NONE"
  /\ ReuseAfterRedirect \/ ~ (conn.location /\ conn.cs # "connecting")
  /\ calls < MaxCalls
  /\ calls' = calls + 1

\* A call that queues a task; ZOOM_connection_connect has been called before.
QueueCall ==
  /\ Call
  /\ calls > 0
  /\ CallOnError \/ conn.error = "NONE" \/ conn.tasks = <<>>

\* ZOOM_connection_connect: o is the outcome of reading the options.
Connect(o) ==
  /\ Call
  /\ ConnectWhenBusy \/ conn.tasks = <<>> \/ conn.cs = "none"
  /\ LET c == RemoveTasks(SetError(conn, "NONE")) IN
     conn' = IF c.cs # "none" THEN [c EXCEPT !.reconnect_ok = TRUE]
             ELSE CASE o = "ok" -> AddTask(c, NewTask("CONNECT", "request", 0))
                    [] o = "badsru" -> SetError(c, "UNSUPPORTED_PROTOCOL")
                    [] o = "badlog" -> SetError(c, "INTERNAL")
                    [] o = "badcache" -> SetError(c, "DIAG")

\* What ZOOM_connection_search, ZOOM_resultset_retrieve and
\* ZOOM_resultset_sort1 do first on HTTP, where a connection is made on demand.
PrepareHttp(c) ==
  IF c.proto # "HTTP" THEN c
  ELSE IF c.cs = "none" THEN AddTask(c, NewTask("CONNECT", "request", 0))
  ELSE [c EXCEPT !.reconnect_ok = TRUE]

Search(need, rounds) ==
  /\ QueueCall
  /\ "SEARCH" \in TaskKinds
  /\ conn' = AddTask(PrepareHttp(conn), NewTask("SEARCH", need, rounds))

Sort(need) ==
  /\ QueueCall
  /\ "SORT" \in TaskKinds
  /\ conn' = AddTask(PrepareHttp(conn), NewTask("SORT", need, 0))

\* ZOOM_connection_scan1 and ZOOM_package_send queue a task and nothing else.
Scan(need) ==
  /\ QueueCall
  /\ "SCAN" \in TaskKinds
  /\ need # "nothing"
  /\ conn' = AddTask(conn, NewTask("SCAN", need, 0))

PackageSend ==
  /\ QueueCall
  /\ "PACKAGE" \in TaskKinds
  /\ conn' = AddTask(conn, NewTask("PACKAGE", "request", 0))

(***************************************************************************)
(* The event loop: ZOOM_event, or the application's own loop               *)
(***************************************************************************)
MorePieces == conn.pieces < MaxPieces

Puts == {"sent", "fail"} \cup (IF MorePieces THEN {"partial", "retry"} ELSE {})

\* cs_connect returns 0 only for a Z39.50 server on a local socket.
Connects == {"pending", "refused", "nohost"}
              \cup (IF HostProto = "Z3950" THEN {"established"} ELSE {})

\* What can happen on the socket now.  The peer answers the requests that it
\* has received, in order; a search is answered with more to come only while
\* its rounds last.
Arrivals ==
  CASE conn.cs = "connecting" -> {"up", "down"} \cup (IF MorePieces THEN {"again"} ELSE {})
    [] conn.cs = "data" ->
         {"error", "eof", "garbled"}
           \cup (IF MorePieces THEN {"incomplete"} ELSE {})
           \cup (IF conn.proto = "Z3950" THEN {"closeapdu"} ELSE {})
           \cup (IF conn.wire # <<>> THEN {"response"} ELSE {})
    [] OTHER -> {"down"}

Answers ==
  IF conn.wire = <<>> THEN {"done"}
  ELSE LET more == IF HeadIs(conn, "SEARCH") /\ Head(conn.tasks).rounds > 0
                   THEN {"more"} ELSE {}
       IN  IF conn.proto = "HTTP"
           THEN {"done", "diag", "badstatus", "badbody"} \cup more
                  \cup (IF Redirects THEN {"redirect"} ELSE {})
           ELSE IF Head(conn.wire) = "CONNECT" THEN {"accept", "refuse", "refusediag"}
           ELSE {"done", "diag"} \cup more

\* ZOOM_connection_get_mask: the socket is polled only while there is one.
Waits == conn.mask # {} /\ conn.cs # "none"

\* ZOOM_connection_process
Process ==
  /\ conn.fault = "NONE"
  /\ \/ conn.events # <<>>
     \/ conn.tasks # <<>> /\ (conn.error # "NONE" \/ ~ Head(conn.tasks).running)
  /\ IF conn.events # <<>> THEN conn' = GetEvent(conn)
     ELSE \E w \in Puts, k \in Connects : conn' = GetEvent(ExecTask(conn, w, k))
  /\ UNCHANGED calls

\* ZOOM_connection_fire_event_socket, for the part m of the mask that is ready
FireSocket ==
  /\ conn.fault = "NONE"
  /\ Waits
  /\ \E m \in SUBSET conn.mask \ {{}}, r \in Arrivals, a \in Answers,
        must_close \in BOOLEAN, w \in Puts, k \in Connects :
       conn' = DoIO(conn, m, r, a, must_close, w, k)
  /\ UNCHANGED calls

\* (mutant) the connection survives the timeout, and so does the late answer
FireTimeoutKeepsOpen ==
  /\ conn.fault = "NONE"
  /\ Waits
  /\ conn' = PutEvent(SetError(conn, "TIMEOUT"), "TIMEOUT")
  /\ UNCHANGED calls

\* ZOOM_connection_fire_event_timeout
FireTimeout ==
  /\ conn.fault = "NONE"
  /\ Waits
  /\ conn' = PutEvent(Close(SetError(conn, "TIMEOUT")), "TIMEOUT")
  /\ UNCHANGED calls

Next ==
  \/ \E o \in {"ok", "badsru", "badlog", "badcache"} : Connect(o)
  \/ \E need \in Need, rounds \in 0 .. MaxRounds : Search(need, rounds)
  \/ \E need \in Need : Sort(need)
  \/ \E need \in Need : Scan(need)
  \/ PackageSend
  \/ Process
  \/ FireSocket
  \/ FireTimeout

Spec == Init /\ [][Next]_vars

\* An application that keeps calling ZOOM_event: pending events and tasks are
\* processed, and yaz_poll returns with a ready socket or with a timeout.
FairSpec == Spec /\ WF_vars(Process) /\ WF_vars(FireSocket \/ FireTimeout)

(***************************************************************************)
(* Properties                                                              *)
(***************************************************************************)
\* No assert of the connection's code fails and c->tasks is never
\* dereferenced while it is NULL (zoom-c.c ZOOM_test_reconnect and
\* ZOOM_connection_do_io, zoom-z3950.c ZOOM_connection_Z3950_search,
\* handle_Z3950_es_response and ZOOM_handle_Z3950_apdu).
NoFault == conn.fault = "NONE"

\* Only the first task runs: what was started is finished, or put back by a
\* reconnect, before the next task starts.
OnlyHeadRuns ==
  \A i \in 2 .. Len(conn.tasks) : ~ conn.tasks[i].running

\* At most one request is outstanding and it is the running task's: Z39.50
\* responses carry no reference, the next one is taken for the first task's.
AnswerBelongsToHead ==
  conn.wire # <<>> =>
    /\ Len(conn.wire) = 1
    /\ conn.cs = "data"
    /\ conn.tasks # <<>>
    /\ Head(conn.tasks).running
    /\ conn.wire[1] \in {Head(conn.tasks).which, "REDIRECT"}

\* When ZOOM_event has nothing to report and nothing to wait for (it returns
\* 0), no task is left: a running task always waits for the socket, whose
\* poll ends at the latest with a timeout.
ZeroMeansDone ==
  (/\ conn.fault = "NONE"
   /\ conn.events = <<>>
   /\ conn.error = "NONE"
   /\ ~ Waits)
  => conn.tasks = <<>> \/ ~ Head(conn.tasks).running

\* ZOOM_EVENT_END is the last event: when the application sees it, no task
\* is queued and no event follows, until it queues the next task.
EndIsLast ==
  \A i \in 1 .. Len(conn.events) :
    conn.events[i] = "END" => i = Len(conn.events) /\ conn.tasks = <<>>

\* Only ZOOM_connection_connect may replace an error of E.
Persists(E) ==
  conn.error \in E /\ conn'.error # conn.error
    => \E o \in {"ok", "badsru", "badlog", "badcache"} : Connect(o)

\* An error that the switch of clear_error keeps is not hidden by the tasks
\* that the application queues, nor by what the event loop does with those
\* queued before, until the application connects anew (zoom-c.c:114-126).
KeptErrorPersists == [][Persists(Kept)]_vars

\* What the comment of clear_error says: "problems such as Connection Lost or
\* Init Refused are not cleared, because they are not recoverable"
\* (zoom-c.c:106-112).
FatalErrorPersists == [][Persists(Fatal)]_vars

\* Every queued task is finished or given up, and the application is told.
TasksFinish == conn.tasks # <<>> ~> conn.tasks = <<>>

(***************************************************************************)
(* The inductive invariant behind the safety properties.  A connection is  *)
(* either idle (it waits for nothing), or it listens to the socket on      *)
(* behalf of its first task; a running task is never left idle without an  *)
(* error.                                                                  *)
(***************************************************************************)
HeadRuns(c) == c.tasks # <<>> /\ c.tasks[1].running

RestWaits(s) == \A i \in 2 .. Len(s) : ~ s[i].running

RoundsFit(s) == MaxRounds = 0 => \A i \in 1 .. Len(s) : s[i].rounds = 0

\* Facts that hold in both modes.
Base(c) ==
  /\ c.fault = "NONE"
  /\ RestWaits(c.tasks)
  /\ RoundsFit(c.tasks)
  /\ c.proto = "HTTP" => HostProto = "HTTP"
  /\ c.cs # "none" => c.proto = HostProto
  /\ c.buf_out = "REDIRECT" => c.proto = "HTTP"
  /\ c.location => c.proto = "HTTP"
  /\ c.location \/ c.no_redirects > 0 => Redirects

\* A redirect that could not be followed leaves location behind, with an error.
Idle(c) ==
  /\ c.mask = {}
  /\ c.wire = <<>>
  /\ c.cs # "connecting"
  /\ c.location => c.error # "NONE"

\* When the connection comes up, the handler sends the Init request, the
\* redirected request, the next task's, or goes on with the one begun.
ListensToConnect(c) ==
  /\ c.cs = "connecting"
  /\ c.mask = Select
  /\ c.wire = <<>>
  /\ c.proto = "Z3950" /\ c.towrite \in {"NONE", "CONNECT"} => c.tasks[1].which = "CONNECT"
  /\ c.location => c.tasks[1].which # "CONNECT"
  /\ c.proto = "HTTP" /\ ~ c.location /\ c.tasks[1].which # "CONNECT" =>
       c.buf_out \in {c.tasks[1].which, "REDIRECT"}

\* The request is either still being written or all at the peer.
ListensToData(c) ==
  /\ c.cs = "data"
  /\ ~ c.location
  /\ c.buf_out \in {c.tasks[1].which, "REDIRECT"}
  /\ c.proto = "HTTP" => c.tasks[1].which # "CONNECT"
  /\ c.wire = IF "WRITE" \in c.mask THEN <<>> ELSE <<c.buf_out>>

Listening(c) ==
  /\ c.mask # {}
  /\ HeadRuns(c)
  /\ c.error = "NONE"
  /\ ListensToConnect(c) \/ ListensToData(c)

ModeInv(c) ==
  /\ Base(c)
  /\ \/ Idle(c) /\ (HeadRuns(c) => c.error # "NONE")
     \/ Listening(c)

\* The connection listens exactly while its first task runs and no error is
\* set, for the answer to that task's own request.
IdleOrListening == ModeInv(conn)
====
