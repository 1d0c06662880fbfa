------------------------ MODULE ZoomConnectionSafety ------------------------
(***************************************************************************)
(* The types and the safety of ZoomConnection, for every number of calls,  *)
(* tasks, pieces, rounds and redirects: every handler keeps the            *)
(* connection's record well formed, whatever the application and the peer  *)
(* do, and the safety invariants hold with an application that keeps to    *)
(* Discipline.                                                             *)
(***************************************************************************)
EXTENDS ZoomConnection, SequenceTheorems, TLAPS

-----------------------------------------------------------------------------
(***************************************************************************)
(* The types.  A Z39.50 connection never has an HTTP redirect to send or   *)
(* to be answered, which ZOOM_handle_Z3950_apdu relies on.                 *)
(***************************************************************************)
Typed(c) ==
  /\ c \in Connection
  /\ c.proto = "Z3950" => c.buf_out \in Which /\ c.wire \in Seq(Which)

\* The sequence operations of the handlers stay in the sequence's type.
LEMMA SeqTypes ==
  ASSUME NEW S
  PROVE  /\ <<>> \in Seq(S)
         /\ \A s \in Seq(S), e \in S : Append(s, e) \in Seq(S)
         /\ \A s \in Seq(S) : s # <<>> => Tail(s) \in Seq(S) /\ Head(s) \in S /\ Head(s) = s[1]
         /\ \A s \in Seq(S), e \in S : <<e>> \o s \in Seq(S)
<1>1. \A s \in Seq(S), e \in S : Append(s, e) \in Seq(S)
  BY AppendProperties
<1>2. \A s \in Seq(S) : s # <<>> => Tail(s) \in Seq(S) /\ Head(s) \in S /\ Head(s) = s[1]
  BY HeadTailProperties
<1>3. ASSUME NEW s \in Seq(S), NEW e \in S PROVE <<e>> \o s \in Seq(S)
  BY ConcatProperties
<1> QED BY <1>1, <1>2, <1>3, EmptySeq

\* Replacing a field of the first task keeps the queue a sequence of tasks.
LEMMA HeadExceptType ==
  ASSUME NEW s \in Seq(Task), s # <<>>
  PROVE  /\ \A b \in BOOLEAN : [s EXCEPT ![1].running = b] \in Seq(Task)
         /\ \A n \in Nat : [s EXCEPT ![1].rounds = n] \in Seq(Task)
<1>1. 1 \in 1 .. Len(s) /\ s[1] \in Task
  BY EmptySeq, ElementOfSeq
<1>2. ASSUME NEW b \in BOOLEAN PROVE [s EXCEPT ![1].running = b] \in Seq(Task)
  <2>1. [s[1] EXCEPT !.running = b] \in Task
    BY <1>1 DEF Task
  <2> QED BY <1>1, <2>1, ExceptSeq
<1>3. ASSUME NEW n \in Nat PROVE [s EXCEPT ![1].rounds = n] \in Seq(Task)
  <2>1. [s[1] EXCEPT !.rounds = n] \in Task
    BY <1>1 DEF Task
  <2> QED BY <1>1, <2>1, ExceptSeq
<1> QED BY <1>2, <1>3

\* The small updates that the handlers are made of keep the record's type.
LEMMA UpdateType ==
  ASSUME NEW c, Typed(c)
  PROVE  /\ \A e \in Event : Typed(PutEvent(c, e))
         /\ Typed(GetEvent(c))
         /\ Typed(RemoveEvents(c))
         /\ \A e \in Error : Typed(SetError(c, e))
         /\ Typed(ClearError(c))
         /\ Typed(Close(c))
<1> USE DEF Typed
<1>0. /\ <<>> \in Seq(Event) /\ <<>> \in Seq(Request) /\ <<>> \in Seq(Which)
      /\ c.events \in Seq(Event)
  BY SeqTypes DEF Connection
<1>1. ASSUME NEW e \in Event PROVE Typed(PutEvent(c, e))
  <2>1. Append(c.events, e) \in Seq(Event) BY <1>0, SeqTypes
  <2> QED BY <2>1 DEF PutEvent, Connection
<1>2. Typed(GetEvent(c))
  <2>1. CASE c.events = <<>>
    BY <2>1 DEF GetEvent, Connection
  <2>2. CASE c.events # <<>>
    <3>1. Head(c.events) \in Event /\ Tail(c.events) \in Seq(Event)
      BY <1>0, <2>2, SeqTypes
    <3> QED BY <3>1, <2>2 DEF GetEvent, Connection
  <2> QED BY <2>1, <2>2
<1>3. Typed(RemoveEvents(c))
  BY <1>0 DEF RemoveEvents, Connection
<1>4. ASSUME NEW e \in Error PROVE Typed(SetError(c, e))
  BY DEF SetError, Connection
<1>5. Typed(ClearError(c))
  <2> DEFINE d == RemoveEvents(c)
  <2>1. ClearError(c) = [d EXCEPT !.error = IF @ \in Kept THEN @ ELSE "NONE"]
    BY DEF ClearError
  <2> HIDE DEF d
  <2>2. Typed(d) BY <1>3 DEF d
  <2> QED BY <2>1, <2>2, ZenonT(60) DEF Connection, Error
<1>6. Typed(Close(c))
  BY <1>0 DEF Close, Connection, Comstack
<1> QED BY <1>1, <1>2, <1>3, <1>4, <1>5, <1>6

\* The operations on the task queue keep the record's type.
LEMMA TaskType ==
  ASSUME NEW c, Typed(c)
  PROVE  /\ \A t \in Task : Typed(AddTask(c, t))
         /\ Typed(InsertConnect(c))
         /\ Typed(RemoveTask(c))
         /\ Typed(RemoveTasks(c))
         /\ c.tasks # <<>> => Typed([c EXCEPT !.tasks[1].running = TRUE])
         /\ c.tasks # <<>> => Typed([c EXCEPT !.tasks[1].running = FALSE])
<1>0. c.tasks \in Seq(Task) /\ <<>> \in Seq(Task)
  BY SeqTypes DEF Typed, Connection
<1>1. ASSUME NEW s \in Seq(Task) PROVE Typed([c EXCEPT !.tasks = s])
  BY DEF Typed, Connection
<1>2. ASSUME NEW t \in Task PROVE Typed(AddTask(c, t))
  <2>1. Append(c.tasks, t) \in Seq(Task) BY <1>0, SeqTypes
  <2>2. Typed([c EXCEPT !.tasks = Append(c.tasks, t)]) BY <1>1, <2>1
  <2> QED BY <2>2, UpdateType DEF AddTask
<1>3. Typed(InsertConnect(c))
  <2>1. NewTask("CONNECT", "request", 0) \in Task
    BY DEF NewTask, Task, Which, Need
  <2>2. <<NewTask("CONNECT", "request", 0)>> \o c.tasks \in Seq(Task)
    BY <1>0, <2>1, SeqTypes
  <2> QED BY <1>1, <2>2 DEF InsertConnect
<1>4. "END" \in Event
  BY DEF Event
<1>5. Typed(RemoveTask(c))
  <2>1. CASE c.tasks = <<>> BY <2>1 DEF RemoveTask
  <2>2. CASE c.tasks # <<>> /\ Len(c.tasks) = 1
    <3>1. Typed([c EXCEPT !.tasks = <<>>]) BY <1>0, <1>1
    <3> QED BY <2>2, <3>1, <1>4, UpdateType DEF RemoveTask
  <2>3. CASE c.tasks # <<>> /\ Len(c.tasks) # 1
    <3>1. Tail(c.tasks) \in Seq(Task) BY <1>0, <2>3, SeqTypes
    <3> QED BY <2>3, <3>1, <1>1 DEF RemoveTask
  <2> QED BY <2>1, <2>2, <2>3
<1>6. Typed(RemoveTasks(c))
  <2>1. Typed([c EXCEPT !.tasks = <<>>]) BY <1>0, <1>1
  <2> QED BY <2>1, <1>4, UpdateType DEF RemoveTasks
<1>7. ASSUME NEW b \in BOOLEAN, c.tasks # <<>>
      PROVE  Typed([c EXCEPT !.tasks[1].running = b])
  <2>1. [c.tasks EXCEPT ![1].running = b] \in Seq(Task)
    BY <1>0, <1>7, HeadExceptType
  <2>2. Typed([c EXCEPT !.tasks = [c.tasks EXCEPT ![1].running = b]])
    BY <1>1, <2>1
  <2> QED BY <2>2
<1> QED BY <1>2, <1>3, <1>5, <1>6, <1>7

\* Losing the connection and starting over keep the type.
LEMMA LoseType ==
  ASSUME NEW c, Typed(c), NEW e \in Error
  PROVE  Typed(Lose(c, e))
<1>1. Typed(Close(SetError(c, e)))
  BY UpdateType
<1>2. Typed(Reconnect(c))
  <2>1. CASE c.tasks = <<>>
    <3> DEFINE d == Close(c)
    <3>1. Typed(d) BY UpdateType
    <3>2. Reconnect(c) = [d EXCEPT !.fault = "NULL"] BY <2>1 DEF Reconnect
    <3> HIDE DEF d
    <3> QED BY <3>1, <3>2 DEF Typed, Connection
  <2>2. CASE c.tasks # <<>>
    <3> DEFINE d == Close(c)
               f == [d EXCEPT !.reconnect_ok = FALSE]
               g == [f EXCEPT !.tasks[1].running = FALSE]
    <3>0. d.tasks = c.tasks BY DEF Close, Typed, Connection
    <3>1. Typed(d) /\ d.tasks = c.tasks BY <3>0, UpdateType
    <3>2. Reconnect(c) = PutEvent(InsertConnect([d EXCEPT !.reconnect_ok = FALSE,
                                            !.tasks[1].running = FALSE]), "CONNECT")
      BY <2>2 DEF Reconnect
    <3> HIDE DEF d
    <3>3. Typed(f) /\ f.tasks = d.tasks
      BY <3>1, ZenonT(60) DEF Typed, Connection
    <3>4. [d EXCEPT !.reconnect_ok = FALSE, !.tasks[1].running = FALSE] = g
      BY <3>1 DEF Typed, Connection
    <3>5. Typed(g) BY <3>1, <3>3, <2>2, TaskType DEF f
    <3> HIDE DEF g, f
    <3>6. "CONNECT" \in Event BY DEF Event
    <3> QED BY <3>2, <3>4, <3>5, <3>6, TaskType, UpdateType
  <2> QED BY <2>1, <2>2
<1> QED BY <1>1, <1>2 DEF Lose

\* What cs_put, cs_connect, and cs_rcvconnect or cs_get can do.
PutResult == {"sent", "fail", "partial", "retry"}
ConnectResult == {"pending", "refused", "nohost", "established"}

\* Sending keeps the type, if an HTTP redirect is sent on HTTP only.
LEMMA SendType ==
  ASSUME NEW c, Typed(c), NEW w \in PutResult
  PROVE  /\ Typed(SendBuf(c, w))
         /\ \A which \in Request :
              (which = "REDIRECT" => c.proto = "HTTP") => Typed(SendRequest(c, which, w))
<1>1. ASSUME NEW d, Typed(d) PROVE Typed(SendBuf(d, w))
  <2> DEFINE p == PutEvent(d, "SEND_DATA")
  <2>1. Typed(p)
    BY <1>1, UpdateType DEF Event
  <2>2. /\ p.wire = d.wire /\ p.proto = d.proto /\ p.pieces \in Nat /\ d.buf_out \in Request
        /\ d.wire \in Seq(Request)
        /\ d.proto = "Z3950" => d.buf_out \in Which /\ d.wire \in Seq(Which)
        /\ p.buf_out = d.buf_out
    BY <1>1 DEF PutEvent, Typed, Connection
  <2>3. /\ Append(d.wire, d.buf_out) \in Seq(Request)
        /\ d.proto = "Z3950" => Append(d.wire, d.buf_out) \in Seq(Which)
        /\ p.pieces + 1 \in Nat
    <3>1. Append(d.wire, d.buf_out) \in Seq(Request) BY <2>2, SeqTypes
    <3>2. ASSUME d.proto = "Z3950" PROVE Append(d.wire, d.buf_out) \in Seq(Which)
      BY <2>2, <3>2, SeqTypes
    <3>3. p.pieces + 1 \in Nat BY <2>2
    <3> QED BY <3>1, <3>2, <3>3
  <2>4. /\ Typed(Lose(p, "CONNECT"))
        /\ Typed(Lose(p, "CONNECTION_LOST"))
    BY <2>1, LoseType DEF Error, Kept
  <2> HIDE DEF p
  <2>5. Typed([p EXCEPT !.mask = {"READ", "EXCEPT"}, !.towrite = "NONE",
                        !.wire = Append(p.wire, d.buf_out)])
    BY <2>1, <2>2, <2>3, ZenonT(60) DEF Typed, Connection, Select
  <2>6. Typed([p EXCEPT !.mask = {"WRITE", "EXCEPT"}, !.towrite = d.buf_out,
                        !.pieces = p.pieces + 1])
    BY <2>1, <2>2, <2>3, ZenonT(60) DEF Typed, Connection, Select
  <2>7. Typed([p EXCEPT !.mask = Select, !.towrite = d.buf_out, !.cs = "connecting",
                        !.pieces = p.pieces + 1])
    <3>1. Select \in SUBSET Select OBVIOUS
    <3> QED BY <2>1, <2>2, <2>3, <3>1, ZenonT(60) DEF Typed, Connection, Comstack
  <2> QED BY <2>4, <2>5, <2>6, <2>7 DEF SendBuf, p
<1>2. ASSUME NEW which \in Request, which = "REDIRECT" => c.proto = "HTTP"
      PROVE  Typed(SendRequest(c, which, w))
  <2>1. Typed([c EXCEPT !.buf_out = which])
    BY <1>2 DEF Typed, Connection, Request
  <2>2. Typed(PutEvent([c EXCEPT !.buf_out = which], "SEND_APDU"))
    BY <2>1, UpdateType DEF Event
  <2> QED BY <2>2, <1>1 DEF SendRequest
<1> QED BY <1>1, <1>2

\* Connecting keeps the type.
LEMMA DoConnectHostType ==
  ASSUME NEW c, Typed(c), NEW w \in PutResult, NEW k \in ConnectResult
  PROVE  Typed(DoConnectHost(c, w, k))
<1> DEFINE closed == [c EXCEPT !.cs = "none", !.wire = <<>>, !.towrite = "NONE"]
           created == [closed EXCEPT !.proto = IF HostProto = "HTTP" THEN "HTTP" ELSE @]
           up == PutEvent([created EXCEPT !.cs = "data"], "CONNECT")
<1>0. /\ <<>> \in Seq(Request) /\ <<>> \in Seq(Which)
      /\ "CONNECT" \in Error
  BY SeqTypes DEF Error, Kept
<1>1. Typed(closed)
  BY <1>0 DEF Typed, Connection, Comstack
<1>2. Typed(created)
  <2> HIDE DEF closed
  <2> QED BY <1>1, ZenonT(60) DEF Typed, Connection
<1> HIDE DEF closed, created
<1>3. Typed([closed EXCEPT !.state = "IDLE", !.error = "CONNECT"])
  BY <1>0, <1>1 DEF Typed, Connection
<1>4. Typed([created EXCEPT !.cs = "unbound", !.state = "IDLE", !.error = "CONNECT"])
  BY <1>0, <1>2, ZenonT(60) DEF Typed, Connection, Comstack
<1>5. Typed([created EXCEPT !.cs = "connecting", !.state = "CONNECTING", !.mask = Select])
  BY <1>2, ZenonT(60) DEF Typed, Connection, Comstack
<1>6. Typed([SendRequest(up, "CONNECT", w) EXCEPT !.state = "ESTABLISHED"])
  <2>1. Typed([created EXCEPT !.cs = "data"])
    BY <1>2, ZenonT(60) DEF Typed, Connection, Comstack
  <2>2. Typed(up) BY <2>1, UpdateType DEF Event
  <2>3. Typed(SendRequest(up, "CONNECT", w)) BY <2>2, SendType DEF Request, Which
  <2> QED BY <2>3, ZenonT(60) DEF Typed, Connection
<1> QED BY <1>3, <1>4, <1>5, <1>6 DEF DoConnectHost, closed, created, ConnectResult

\* Starting the first task keeps the type.
LEMMA ExecTaskType ==
  ASSUME NEW c, Typed(c), NEW w \in PutResult, NEW k \in ConnectResult
  PROVE  Typed(ExecTask(c, w, k))
<1> DEFINE started == [c EXCEPT !.tasks[1].running = TRUE]
<1>1. Typed(RemoveTasks(c))
  BY TaskType
<1>2. CASE c.tasks = <<>>
  BY <1>2 DEF ExecTask
<1>3. CASE c.tasks # <<>>
  <2>1. Typed(started) BY <1>3, TaskType
  <2>2. Head(c.tasks).which \in Request /\ Head(c.tasks).which # "REDIRECT"
    <3>1. Head(c.tasks) \in Task BY <1>3, SeqTypes DEF Typed, Connection
    <3> QED BY <3>1 DEF Task, Request, Which
  <2> HIDE DEF started
  <2>3. Typed(DoConnectHost(started, w, k)) BY <2>1, DoConnectHostType
  <2>4. Typed(SendRequest(started, Head(c.tasks).which, w)) BY <2>1, <2>2, SendType
  <2>5. Typed(SetError(started, "DIAG")) BY <2>1, UpdateType DEF Error
  <2> QED BY <1>1, <1>3, <2>1, <2>3, <2>4, <2>5, TaskType DEF ExecTask, started
<1> QED BY <1>2, <1>3

\* The end of a connection attempt keeps the type.
LEMMA RcvConnectType ==
  ASSUME NEW c, Typed(c), NEW r \in {"again", "up", "down"},
         NEW w \in PutResult, NEW k \in ConnectResult
  PROVE  Typed(RcvConnect(c, r, w, k))
<1>1. CASE r = "again"
  <2>1. Typed([c EXCEPT !.mask = Select, !.pieces = c.pieces + 1])
    <3>1. c.pieces + 1 \in Nat BY DEF Typed, Connection
    <3>2. Select \in SUBSET Select OBVIOUS
    <3> QED BY <3>1, <3>2 DEF Typed, Connection
  <2> QED BY <1>1, <2>1, UpdateType DEF RcvConnect, Event
<1>2. CASE r = "down"
  <2>1. Typed(SetError(c, "CONNECT")) BY UpdateType DEF Error, Kept
  <2> QED BY <1>2, <2>1, UpdateType DEF RcvConnect
<1>3. CASE r = "up"
  <2> DEFINE up == PutEvent([c EXCEPT !.cs = "data"], "CONNECT")
             ready == IF Head(c.tasks).which = "CONNECT"
                      THEN [RemoveTask(up) EXCEPT !.mask = {}] ELSE up
             next == IF c.proto = "Z3950" THEN SendRequest(up, "CONNECT", w)
                     ELSE IF c.tasks = <<>> THEN [up EXCEPT !.fault = "NULL"]
                     ELSE IF c.location
                     THEN SendRequest([ready EXCEPT !.location = FALSE], "REDIRECT", w)
                     ELSE ExecTask(ready, w, k)
  <2>1. Typed(up)
    <3>1. Typed([c EXCEPT !.cs = "data"]) BY DEF Typed, Connection, Comstack
    <3> QED BY <3>1, UpdateType DEF Event
  <2>2. up.proto = c.proto
    BY DEF PutEvent, Typed, Connection
  <2>3. RemoveTask(up).proto = up.proto
    BY <2>1 DEF RemoveTask, PutEvent, Typed, Connection
  <2> HIDE DEF up
  <2>4. Typed(RemoveTask(up)) BY <2>1, TaskType
  <2>5. Typed([RemoveTask(up) EXCEPT !.mask = {}])
        /\ [RemoveTask(up) EXCEPT !.mask = {}].proto = up.proto
    BY <2>3, <2>4 DEF Typed, Connection
  <2>6. Typed(ready) /\ ready.proto = c.proto
    BY <2>1, <2>2, <2>5
  <2> HIDE DEF ready
  <2>7. Typed(next)
    <3>1. Typed(SendRequest(up, "CONNECT", w)) BY <2>1, SendType DEF Request, Which
    <3>2. Typed([up EXCEPT !.fault = "NULL"]) BY <2>1, ZenonT(60) DEF Typed, Connection
    <3>3. Typed([ready EXCEPT !.location = FALSE])
          /\ [ready EXCEPT !.location = FALSE].proto = c.proto
      BY <2>6 DEF Typed, Connection
    <3>4. c.proto # "Z3950" => c.proto = "HTTP" BY DEF Typed, Connection
    <3>5. c.proto # "Z3950" =>
            Typed(SendRequest([ready EXCEPT !.location = FALSE], "REDIRECT", w))
      BY <3>3, <3>4, SendType DEF Request
    <3>6. Typed(ExecTask(ready, w, k)) BY <2>6, ExecTaskType
    <3> QED BY <3>1, <3>2, <3>5, <3>6
  <2>8. RcvConnect(c, r, w, k)
          = [next EXCEPT !.state = IF next.cs = "data" THEN "ESTABLISHED" ELSE next.state]
    BY <1>3 DEF RcvConnect, Connected, up, ready
  <2> HIDE DEF next
  <2> QED BY <2>7, <2>8 DEF Typed, Connection
<1> QED BY <1>1, <1>2, <1>3

\* Answers of the peer, and what they say of the task that waits.
Answer == {"accept", "refuse", "refusediag", "done", "diag", "more",
           "badstatus", "badbody", "redirect"}

MoreFits(c, a) == a = "more" => HeadIs(c, "SEARCH") /\ c.tasks[1].rounds > 0

\* A further chunk of records keeps the type, when one is due.
LEMMA NextChunkType ==
  ASSUME NEW c, Typed(c), MoreFits(c, "more")
  PROVE  Typed(NextChunk(c)) /\ NextChunk(c).proto = c.proto
<1>1. c.tasks \in Seq(Task) /\ c.tasks # <<>> /\ c.tasks[1].rounds > 0
  BY DEF MoreFits, HeadIs, Typed, Connection
<1>2. c.tasks[1] \in Task
  BY <1>1, SeqTypes
<1>3. c.tasks[1].rounds - 1 \in Nat
  BY <1>1, <1>2 DEF Task
<1> DEFINE s == [c.tasks EXCEPT ![1].rounds = c.tasks[1].rounds - 1]
           d == [c EXCEPT !.tasks = s]
<1>4. s \in Seq(Task)
  BY <1>1, <1>3, HeadExceptType
<1>5. NextChunk(c) = PutEvent(d, "RECV_RECORD")
  BY DEF NextChunk
<1> HIDE DEF s
<1>6. Typed(d) /\ d.proto = c.proto
  BY <1>4 DEF Typed, Connection
<1> HIDE DEF d
<1>7. PutEvent(d, "RECV_RECORD").proto = d.proto
  BY <1>6 DEF PutEvent, Typed, Connection
<1> QED BY <1>5, <1>6, <1>7, UpdateType DEF Event

\* Handling a Z39.50 response keeps the type.
LEMMA HandleZ3950Type ==
  ASSUME NEW c, Typed(c), c.wire # <<>>, c.proto = "Z3950",
         NEW a \in Answer, MoreFits(c, a),
         NEW w \in PutResult, NEW k \in ConnectResult
  PROVE  Typed(HandleZ3950(c, a, w, k))
<1> DEFINE d == TakeResponse(c)
<1>0. Tail(c.wire) \in Seq(Request) /\ Tail(c.wire) \in Seq(Which) /\ Head(c.wire) \in Which
  <2>1. c.wire \in Seq(Request) /\ c.wire \in Seq(Which) BY DEF Typed, Connection
  <2>2. Tail(c.wire) \in Seq(Request) BY <2>1, SeqTypes
  <2>3. Tail(c.wire) \in Seq(Which) /\ Head(c.wire) \in Which BY <2>1, SeqTypes
  <2> QED BY <2>2, <2>3
<1>1. Typed(d) /\ d.tasks = c.tasks /\ d.proto = c.proto
  BY <1>0 DEF TakeResponse, Typed, Connection
<1>2. MoreFits(d, a)
  BY <1>1 DEF MoreFits, HeadIs
<1> HIDE DEF d
<1>3. ASSUME NEW e, Typed(e) PROVE Typed([e EXCEPT !.fault = "ASSERT"])
  BY <1>3, ZenonT(60) DEF Typed, Connection
<1>4. ASSUME NEW e, Typed(e) PROVE Typed(NextPresent(e, w))
  <2>1. Typed(SendRequest(e, "SEARCH", w)) BY <1>4, SendType DEF Request, Which
  <2> QED BY <1>3, <1>4, <2>1, TaskType DEF NextPresent
<1>5. Typed(SetError(d, "INIT")) /\ Typed(SetError(d, "INITDIAG")) /\ Typed(SetError(d, "DIAG"))
  BY <1>1, UpdateType DEF Error, Kept
<1>6. Typed(InitResponse(d, a, w, k))
  <2>1. Typed(ExecTask(RemoveTask(d), w, k)) BY <1>1, TaskType, ExecTaskType
  <2> QED BY <1>1, <1>3, <1>5, <2>1 DEF InitResponse
<1>7. Typed(SearchResponse(d, a, w))
  <2>1. Typed(RemoveTask(PutEvent(d, "RECV_RECORD")))
    BY <1>1, UpdateType, TaskType DEF Event
  <2>2. Typed(RemoveTasks(SetError(d, "DIAG"))) BY <1>5, TaskType
  <2>3. a = "more" => Typed(NextPresent(NextChunk(d), w))
    BY <1>1, <1>2, <1>4, NextChunkType
  <2> QED BY <1>1, <1>4, <2>1, <2>2, <2>3 DEF SearchResponse
<1>8. Typed(SortResponse(d, a, w))
  BY <1>1, <1>4, <1>5, TaskType DEF SortResponse
<1>9. Typed(ScanResponse(d, a))
  BY <1>1, <1>5, TaskType DEF ScanResponse
<1>10. Typed(EsResponse(d, a))
  BY <1>1, <1>3, <1>5, TaskType DEF EsResponse
<1> QED BY <1>0, <1>6, <1>7, <1>8, <1>9, <1>10 DEF HandleZ3950, d, Which

\* Handling an HTTP response keeps the type.
LEMMA HandleHttpType ==
  ASSUME NEW c, Typed(c), c.wire # <<>>, c.proto = "HTTP",
         NEW a \in Answer \ {"accept", "refuse", "refusediag"}, MoreFits(c, a),
         NEW must_close \in BOOLEAN, NEW w \in PutResult, NEW k \in ConnectResult
  PROVE  Typed(HandleHttp(c, a, must_close, w, k))
<1> DEFINE d == TakeResponse(c)
<1>0. Tail(c.wire) \in Seq(Request)
  BY SeqTypes DEF Typed, Connection
<1>1. Typed(d) /\ d.tasks = c.tasks /\ d.proto = c.proto
  BY <1>0 DEF TakeResponse, Typed, Connection
<1>2. MoreFits(d, a)
  BY <1>1 DEF MoreFits, HeadIs
<1> HIDE DEF d
<1>3. ASSUME NEW e, Typed(e), NEW complete \in BOOLEAN
      PROVE  Typed(FinishHttp(e, complete, must_close))
  <2> DEFINE f == IF complete THEN RemoveTask(e) ELSE e
             g == Close(f)
  <2>1. Typed(f) BY <1>3, TaskType
  <2> HIDE DEF f
  <2>2. Typed(g) BY <2>1, UpdateType
  <2> HIDE DEF g
  <2>3. Typed([f EXCEPT !.reconnect_ok = TRUE]) BY <2>1 DEF Typed, Connection
  <2>4. ASSUME g.tasks # <<>>
        PROVE  Typed(InsertConnect([g EXCEPT !.reconnect_ok = FALSE, !.tasks[1].running = FALSE]))
    <3> DEFINE h == [g EXCEPT !.reconnect_ok = FALSE]
    <3>1. Typed(h) /\ h.tasks = g.tasks BY <2>2, ZenonT(60) DEF Typed, Connection
    <3>2. [g EXCEPT !.reconnect_ok = FALSE, !.tasks[1].running = FALSE]
            = [h EXCEPT !.tasks[1].running = FALSE]
      BY <2>2 DEF Typed, Connection
    <3> HIDE DEF h
    <3>3. Typed([h EXCEPT !.tasks[1].running = FALSE]) BY <2>4, <3>1, TaskType
    <3> QED BY <3>2, <3>3, TaskType
  <2> QED BY <2>2, <2>3, <2>4 DEF FinishHttp, f, g
<1>4. ASSUME NEW e, Typed(e) PROVE Typed(EndRedirect(e))
  <2>1. ASSUME NEW f, Typed(f) PROVE Typed([f EXCEPT !.no_redirects = 0])
    BY <2>1 DEF Typed, Connection
  <2>2. Typed(IF e.no_redirects > 0 THEN Close(e) ELSE e) BY <1>4, UpdateType
  <2> QED BY <2>1, <2>2 DEF EndRedirect
<1>5. ASSUME NEW e \in {"DIAG", "DECODE"}
      PROVE  Typed([d EXCEPT !.error = e, !.no_redirects = 0])
  <2>1. e \in Error BY <1>5 DEF Error, Kept
  <2> QED BY <1>1, <2>1, ZenonT(60) DEF Typed, Connection
<1>6. CASE a = "redirect"
  <2>1. Typed(FollowRedirect(d))
    <3>1. d.no_redirects + 1 \in Nat BY <1>1 DEF Typed, Connection
    <3> QED BY <1>1, <3>1 DEF FollowRedirect, Typed, Connection
  <2>2. Typed(DoConnectHost(FollowRedirect(d), w, k)) BY <2>1, DoConnectHostType
  <2>3. Typed(Close([d EXCEPT !.error = "DIAG", !.no_redirects = 0])) BY <1>5, UpdateType
  <2>4. Typed(FinishHttp(Close([d EXCEPT !.error = "DIAG", !.no_redirects = 0]), TRUE, must_close))
    BY <1>3, <2>3
  <2> QED BY <1>6, <2>2, <2>4 DEF HandleHttp, d
<1>7. CASE a = "more"
  <2>1. Typed(SendRequest(NextChunk(d), "SEARCH", w))
    BY <1>1, <1>2, <1>7, NextChunkType, SendType DEF Request, Which
  <2>2. SendCompletes(NextChunk(d), "SEARCH", w) \in BOOLEAN
    BY DEF SendCompletes
  <2>3. Typed(FinishHttp(EndRedirect(SendRequest(NextChunk(d), "SEARCH", w)),
                         SendCompletes(NextChunk(d), "SEARCH", w), must_close))
    BY <1>3, <1>4, <2>1, <2>2
  <2> QED BY <1>7, <2>3 DEF HandleHttp, d
<1>8. CASE a \in {"done", "diag"}
  <2>1. Typed(PutEvent(d, "RECV_RECORD")) /\ Typed(SetError(d, "DIAG"))
    BY <1>1, UpdateType DEF Event, Error
  <2>2. /\ Typed(FinishHttp(EndRedirect(PutEvent(d, "RECV_RECORD")), TRUE, must_close))
        /\ Typed(FinishHttp(EndRedirect(SetError(d, "DIAG")), TRUE, must_close))
    BY <1>3, <1>4, <2>1
  <2> QED BY <1>8, <2>2 DEF HandleHttp, d
<1>9. CASE a \in {"badstatus", "badbody"}
  <2> DEFINE e == IF a = "badbody" THEN "DECODE" ELSE "DIAG"
  <2>1. Typed(Close([d EXCEPT !.error = e, !.no_redirects = 0])) BY <1>5, UpdateType
  <2>2. Typed(FinishHttp(Close([d EXCEPT !.error = e, !.no_redirects = 0]), TRUE, must_close))
    BY <1>3, <2>1
  <2> QED BY <1>9, <2>2 DEF HandleHttp, d
<1> QED BY <1>6, <1>7, <1>8, <1>9 DEF Answer

\* What cs_get can deliver while the answer a fits the state.
Arrival == {"incomplete", "error", "eof", "garbled", "closeapdu", "response"}

ResponseFits(c, r, a) ==
  r = "response" =>
    /\ c.wire # <<>>
    /\ MoreFits(c, a)
    /\ c.proto = "HTTP" => a \notin {"accept", "refuse", "refusediag"}

LEMMA DoReadType ==
  ASSUME NEW c, Typed(c), NEW r \in Arrival, NEW a \in Answer, ResponseFits(c, r, a),
         NEW must_close \in BOOLEAN, NEW w \in PutResult, NEW k \in ConnectResult
  PROVE  Typed(DoRead(c, r, a, must_close, w, k))
<1> DEFINE d == PutEvent(c, "RECV_DATA")
           e == PutEvent(d, "RECV_APDU")
<1>1. Typed(d) /\ Typed(e)
  BY UpdateType DEF Event
<1>2. e.wire = c.wire /\ e.tasks = c.tasks /\ e.proto = c.proto
  BY DEF PutEvent, Typed, Connection
<1>3. DoRead(c, r, a, must_close, w, k) =
        CASE r = "incomplete" -> [d EXCEPT !.pieces = @ + 1]
          [] r = "error"      -> Close(SetError(d, "DECODE"))
          [] r = "eof"        -> Lose(d, "CONNECTION_LOST")
          [] r = "garbled"    -> Lose(e, "DECODE")
          [] r = "closeapdu"  -> Lose([e EXCEPT !.mask = {}], "CONNECTION_LOST")
          [] r = "response"   -> IF c.proto = "Z3950" THEN HandleZ3950(e, a, w, k)
                                 ELSE HandleHttp(e, a, must_close, w, k)
  BY DEF DoRead
<1> HIDE DEF d, e
<1>4. Typed([d EXCEPT !.pieces = d.pieces + 1])
  <2>1. d.pieces \in Nat BY <1>1 DEF Typed, Connection
  <2>2. d.pieces + 1 \in Nat BY <2>1
  <2> QED BY <1>1, <2>2 DEF Typed, Connection
<1>5. /\ Typed(Close(SetError(d, "DECODE")))
      /\ Typed(Lose(d, "CONNECTION_LOST"))
      /\ Typed(Lose(e, "DECODE"))
  BY <1>1, UpdateType, LoseType DEF Error, Kept
<1>6. Typed(Lose([e EXCEPT !.mask = {}], "CONNECTION_LOST"))
  <2>1. Typed([e EXCEPT !.mask = {}]) BY <1>1 DEF Typed, Connection
  <2> QED BY <2>1, LoseType DEF Error, Kept
<1>7. ASSUME r = "response", c.proto = "Z3950" PROVE Typed(HandleZ3950(e, a, w, k))
  BY <1>1, <1>2, <1>7, HandleZ3950Type DEF ResponseFits, MoreFits, HeadIs
<1>8. ASSUME r = "response", c.proto # "Z3950" PROVE Typed(HandleHttp(e, a, must_close, w, k))
  <2>1. c.proto = "HTTP" BY <1>8 DEF Typed, Connection
  <2> QED BY <1>1, <1>2, <1>8, <2>1, HandleHttpType DEF ResponseFits, MoreFits, HeadIs
<1> QED BY <1>3, <1>4, <1>5, <1>6, <1>7, <1>8 DEF Arrival

\* What happens on the socket, as ZOOM_connection_do_io sees it.
IOFits(c, r, a) ==
  /\ c.cs = "connecting" => r \in {"again", "up", "down"}
  /\ c.cs = "data" => r \in Arrival /\ ResponseFits(c, r, a)

LEMMA DoIOType ==
  ASSUME NEW c, Typed(c), NEW m, NEW r, NEW a \in Answer, c.cs # "none", IOFits(c, r, a),
         NEW must_close \in BOOLEAN, NEW w \in PutResult, NEW k \in ConnectResult
  PROVE  Typed(DoIO(c, m, r, a, must_close, w, k))
<1>1. /\ Typed(PutEvent(Close(SetError(c, "CONNECT")), "CONNECT"))
      /\ Typed(Lose(c, "CONNECTION_LOST"))
  BY UpdateType, LoseType DEF Error, Kept, Event
<1>2. c.cs = "connecting" => Typed(RcvConnect(c, r, w, k))
  BY RcvConnectType DEF IOFits
<1>3. c.cs = "data" => Typed(DoRead(c, r, a, must_close, w, k))
  BY DoReadType DEF IOFits
<1>4. c.cs \in {"unbound", "connecting", "data"}
  BY DEF Typed, Connection, Comstack
<1> QED BY <1>1, <1>2, <1>3, <1>4, SendType DEF DoIO

\* The event loop offers the handlers what fits the state.
LEMMA EventLoopFits ==
  /\ Puts \subseteq PutResult
  /\ Connects \subseteq ConnectResult
  /\ Answers \subseteq Answer
  /\ Typed(conn) =>
       \A r \in Arrivals, a \in Answers : IOFits(conn, r, a)
<1>1. Puts \subseteq PutResult /\ Connects \subseteq ConnectResult
  BY DEF Puts, PutResult, Connects, ConnectResult
<1>2. Answers \subseteq Answer
  BY DEF Answers, Answer
<1>3. ASSUME Typed(conn), NEW r \in Arrivals, NEW a \in Answers
      PROVE  IOFits(conn, r, a)
  <2>1. ASSUME conn.cs = "connecting" PROVE r \in {"again", "up", "down"}
    BY <2>1 DEF Arrivals
  <2>2. ASSUME conn.cs = "data" PROVE r \in Arrival
    BY <2>2 DEF Arrivals, Arrival
  <2>3. ASSUME conn.cs = "data", r = "response" PROVE conn.wire # <<>>
    BY <2>3 DEF Arrivals
  <2>4. ASSUME conn.wire # <<>> PROVE MoreFits(conn, a)
    BY <1>3, <2>4, SeqTypes DEF Answers, MoreFits, HeadIs, Typed, Connection
  <2>5. ASSUME conn.wire # <<>>, conn.proto = "HTTP"
        PROVE  a \notin {"accept", "refuse", "refusediag"}
    BY <2>5 DEF Answers
  <2> QED BY <2>1, <2>2, <2>3, <2>4, <2>5 DEF IOFits, ResponseFits
<1> QED BY <1>1, <1>2, <1>3

LEMMA NewTaskType ==
  ASSUME NEW which \in Which, NEW need \in Need, NEW rounds \in Nat
  PROVE  NewTask(which, need, rounds) \in Task
BY DEF NewTask, Task

\* The application's calls keep the type.
LEMMA CallType ==
  ASSUME Typed(conn), calls \in Nat,
         \/ \E o \in {"ok", "badsru", "badlog", "badcache"} : Connect(o)
         \/ \E need \in Need, rounds \in 0 .. MaxRounds : Search(need, rounds)
         \/ \E need \in Need : Sort(need)
         \/ \E need \in Need : Scan(need)
         \/ PackageSend
  PROVE  Typed(conn') /\ calls' \in Nat
<1> DEFINE connect == NewTask("CONNECT", "request", 0)
<1>1. connect \in Task
  BY NewTaskType DEF Which, Need
<1>2. Typed(PrepareHttp(conn))
  <2>1. Typed([conn EXCEPT !.reconnect_ok = TRUE]) BY DEF Typed, Connection
  <2>2. Typed(AddTask(conn, connect)) BY <1>1, TaskType
  <2> QED BY <2>1, <2>2 DEF PrepareHttp
<1>3. ASSUME NEW o \in {"ok", "badsru", "badlog", "badcache"}, Connect(o)
      PROVE  Typed(conn') /\ calls' \in Nat
  <2> DEFINE c == RemoveTasks(SetError(conn, "NONE"))
  <2>1. Typed(c)
    BY UpdateType, TaskType DEF Error
  <2>2. /\ conn' = IF c.cs # "none" THEN [c EXCEPT !.reconnect_ok = TRUE]
             ELSE CASE o = "ok" -> AddTask(c, connect)
                    [] o = "badsru" -> SetError(c, "UNSUPPORTED_PROTOCOL")
                    [] o = "badlog" -> SetError(c, "INTERNAL")
                    [] o = "badcache" -> SetError(c, "DIAG")
        /\ calls' = calls + 1
    BY <1>3 DEF Connect, Call
  <2> HIDE DEF c, connect
  <2>3. Typed([c EXCEPT !.reconnect_ok = TRUE]) BY <2>1 DEF Typed, Connection
  <2>4. Typed(AddTask(c, connect)) BY <1>1, <2>1, TaskType
  <2>5. /\ Typed(SetError(c, "UNSUPPORTED_PROTOCOL"))
        /\ Typed(SetError(c, "INTERNAL"))
        /\ Typed(SetError(c, "DIAG"))
    BY <2>1, UpdateType DEF Error, Kept
  <2> QED BY <1>3, <2>2, <2>3, <2>4, <2>5
<1>4. ASSUME NEW need \in Need, NEW rounds \in 0 .. MaxRounds, Search(need, rounds)
      PROVE  Typed(conn') /\ calls' \in Nat
  <2>1. NewTask("SEARCH", need, rounds) \in Task
    BY NewTaskType, BoundAssumption DEF Which
  <2>2. Typed(AddTask(PrepareHttp(conn), NewTask("SEARCH", need, rounds))) BY <1>2, <2>1, TaskType
  <2>3. calls' \in Nat BY <1>4 DEF Search, QueueCall, Call
  <2> QED BY <1>4, <2>2, <2>3 DEF Search
<1>5. ASSUME NEW need \in Need, Sort(need) PROVE Typed(conn') /\ calls' \in Nat
  <2>1. NewTask("SORT", need, 0) \in Task BY NewTaskType DEF Which
  <2>2. Typed(AddTask(PrepareHttp(conn), NewTask("SORT", need, 0))) BY <1>2, <2>1, TaskType
  <2>3. calls' \in Nat BY <1>5 DEF Sort, QueueCall, Call
  <2> QED BY <1>5, <2>2, <2>3 DEF Sort
<1>6. ASSUME NEW need \in Need, Scan(need) PROVE Typed(conn') /\ calls' \in Nat
  <2>1. NewTask("SCAN", need, 0) \in Task BY NewTaskType DEF Which
  <2>2. Typed(AddTask(conn, NewTask("SCAN", need, 0))) BY <2>1, TaskType
  <2>3. calls' \in Nat BY <1>6 DEF Scan, QueueCall, Call
  <2> QED BY <1>6, <2>2, <2>3 DEF Scan
<1>7. ASSUME PackageSend PROVE Typed(conn') /\ calls' \in Nat
  <2>1. NewTask("PACKAGE", "request", 0) \in Task BY NewTaskType DEF Which, Need
  <2>2. Typed(AddTask(conn, NewTask("PACKAGE", "request", 0))) BY <2>1, TaskType
  <2>3. calls' \in Nat BY <1>7 DEF PackageSend, QueueCall, Call
  <2> QED BY <1>7, <2>2, <2>3 DEF PackageSend
<1> QED BY <1>3, <1>4, <1>5, <1>6, <1>7

\* The steps of the event loop keep the type.
LEMMA LoopType ==
  ASSUME Typed(conn), calls \in Nat, Process \/ FireSocket \/ FireTimeout
  PROVE  Typed(conn') /\ calls' \in Nat
<1>1. CASE Process
  <2>1. CASE conn.events # <<>>
    BY <1>1, <2>1, UpdateType DEF Process
  <2>2. CASE conn.events = <<>>
    <3>1. PICK w \in Puts, k \in Connects : conn' = GetEvent(ExecTask(conn, w, k))
      BY <1>1, <2>2 DEF Process
    <3>2. Typed(ExecTask(conn, w, k)) BY ExecTaskType, EventLoopFits
    <3> QED BY <1>1, <3>1, <3>2, UpdateType DEF Process
  <2> QED BY <2>1, <2>2
<1>2. CASE FireSocket
  <2>1. PICK m \in SUBSET conn.mask \ {{}}, r \in Arrivals, a \in Answers,
             must_close \in BOOLEAN, w \in Puts, k \in Connects :
               conn' = DoIO(conn, m, r, a, must_close, w, k)
    BY <1>2 DEF FireSocket
  <2>2. IOFits(conn, r, a) /\ conn.cs # "none" /\ a \in Answer
    BY <1>2, EventLoopFits DEF FireSocket, Waits
  <2>3. w \in PutResult /\ k \in ConnectResult
    BY EventLoopFits
  <2> QED BY <1>2, <2>1, <2>2, <2>3, DoIOType DEF FireSocket
<1>3. CASE FireTimeout
  <2>1. Typed(SetError(conn, "TIMEOUT")) BY UpdateType DEF Error
  <2> QED BY <1>3, <2>1, UpdateType DEF FireTimeout, Event
<1> QED BY <1>1, <1>2, <1>3

\* The strengthened type invariant, for every application, network and peer.
LEMMA TypedAlways == Spec => [](Typed(conn) /\ calls \in Nat)
<1> DEFINE TInv == Typed(conn) /\ calls \in Nat
<1>1. Init => TInv
  <2> SUFFICES ASSUME Init PROVE TInv OBVIOUS
  <2>1. /\ <<>> \in Seq(Task) /\ <<>> \in Seq(Event)
        /\ <<>> \in Seq(Request) /\ <<>> \in Seq(Which)
    BY SeqTypes
  <2> QED BY <2>1 DEF Init, Typed, Connection, Comstack, Error, Request, Which
<1>2. TInv /\ [Next]_vars => TInv'
  <2> SUFFICES ASSUME TInv, [Next]_vars PROVE TInv' OBVIOUS
  <2>1. CASE Next BY <2>1, CallType, LoopType DEF Next
  <2>2. CASE UNCHANGED vars BY <2>2 DEF vars
  <2> QED BY <2>1, <2>2
<1> QED BY <1>1, <1>2, PTL DEF Spec

\* Every value that the connection's fields, its task queue and its event
\* queue ever hold is one that the code knows: in particular no response
\* handler of zoom-c.c, zoom-z3950.c or zoom-sru.c meets a request kind that
\* it has no case for, and the rounds of a search never go below zero,
\* whatever the application and the peer do.
THEOREM TypeCorrect == Spec => []TypeOK
<1>1. Typed(conn) /\ calls \in Nat => TypeOK
  BY DEF Typed, TypeOK
<1> QED BY <1>1, TypedAlways, PTL

-----------------------------------------------------------------------------
(***************************************************************************)
(* The application does not call ZOOM_connection_connect amid an operation *)
(* and lets ZOOM_event give up failed tasks before it queues new ones; if  *)
(* the server redirects, searches are answered by one response and the     *)
(* connection is not used after a redirect that failed.  Each condition is *)
(* needed: README.md names the steps that lead astray without it.          *)
(***************************************************************************)
Discipline ==
  /\ ~ ConnectWhenBusy
  /\ ~ CallOnError
  /\ Redirects => ~ ReuseAfterRedirect /\ MaxRounds = 0

(***************************************************************************)
(* The task queue                                                          *)
(***************************************************************************)
\* Taking the first task off leaves tasks that do not run.
LEMMA QueueTail ==
  ASSUME NEW s \in Seq(Task), s # <<>>, RestWaits(s), RoundsFit(s)
  PROVE  /\ RestWaits(Tail(s)) /\ RoundsFit(Tail(s))
         /\ Tail(s) # <<>> => ~ Tail(s)[1].running
<1>1. /\ Tail(s) \in Seq(Task)
      /\ Len(s) \in Nat
      /\ Len(Tail(s)) = Len(s) - 1
      /\ \A i \in 1 .. Len(Tail(s)) : Tail(s)[i] = s[i + 1]
  BY HeadTailProperties, LenProperties
<1>2. RestWaits(Tail(s))
  BY <1>1 DEF RestWaits
<1>3. RoundsFit(Tail(s))
  BY <1>1 DEF RoundsFit
<1>4. ASSUME Tail(s) # <<>> PROVE ~ Tail(s)[1].running
  <2>1. 1 \in 1 .. Len(Tail(s)) /\ 2 \in 2 .. Len(s)
    BY <1>1, <1>4, EmptySeq
  <2> QED BY <1>1, <2>1 DEF RestWaits
<1> QED BY <1>2, <1>3, <1>4

\* Queueing a task that does not run leaves the first one first.
LEMMA QueueAppend ==
  ASSUME NEW s \in Seq(Task), RestWaits(s), RoundsFit(s),
         NEW t \in Task, ~ t.running, MaxRounds = 0 => t.rounds = 0
  PROVE  /\ Append(s, t) # <<>>
         /\ RestWaits(Append(s, t)) /\ RoundsFit(Append(s, t))
         /\ Append(s, t)[1] = IF s = <<>> THEN t ELSE s[1]
<1>1. /\ Append(s, t) \in Seq(Task)
      /\ Len(s) \in Nat
      /\ Len(Append(s, t)) = Len(s) + 1
      /\ \A i \in 1 .. Len(s) : Append(s, t)[i] = s[i]
      /\ Append(s, t)[Len(s) + 1] = t
  BY AppendProperties, LenProperties
<1>2. RestWaits(Append(s, t))
  BY <1>1 DEF RestWaits
<1>3. RoundsFit(Append(s, t))
  BY <1>1 DEF RoundsFit
<1>4. Append(s, t) # <<>>
  BY <1>1, EmptySeq
<1>5. Append(s, t)[1] = IF s = <<>> THEN t ELSE s[1]
  BY <1>1, EmptySeq
<1> QED BY <1>2, <1>3, <1>4, <1>5

\* Starting the first task, or putting it back.
LEMMA QueueSetRunning ==
  ASSUME NEW s \in Seq(Task), s # <<>>, RestWaits(s), RoundsFit(s), NEW b \in BOOLEAN
  PROVE  LET u == [s EXCEPT ![1].running = b]
         IN  /\ u \in Seq(Task) /\ u # <<>>
             /\ RestWaits(u) /\ RoundsFit(u)
             /\ u[1].running = b /\ u[1].which = s[1].which
<1> DEFINE u == [s EXCEPT ![1].running = b]
<1>1. /\ s[1] \in Task
      /\ 1 \in 1 .. Len(s)
      /\ Len(s) \in Nat
  BY EmptySeq, ElementOfSeq, LenProperties
<1>2. [s[1] EXCEPT !.running = b] \in Task
  BY <1>1 DEF Task
<1>3. /\ u \in Seq(Task) /\ Len(u) = Len(s)
      /\ \A j \in 1 .. Len(s) : u[j] = IF j = 1 THEN [s[1] EXCEPT !.running = b] ELSE s[j]
  BY <1>1, <1>2, ExceptSeq
<1> HIDE DEF u
<1>4. u[1] = [s[1] EXCEPT !.running = b]
  BY <1>1, <1>3
<1>5. u[1].running = b /\ u[1].which = s[1].which /\ u[1].rounds = s[1].rounds
  BY <1>1, <1>4 DEF Task
<1>6. RestWaits(u)
  BY <1>3 DEF RestWaits
<1>7. RoundsFit(u)
  BY <1>1, <1>3, <1>5 DEF RoundsFit
<1>8. u # <<>>
  BY <1>1, <1>3, EmptySeq
<1> QED BY <1>3, <1>5, <1>6, <1>7, <1>8 DEF u

\* A CONNECT task in front of tasks that do not run.
LEMMA QueueInsert ==
  ASSUME NEW s \in Seq(Task), RestWaits(s), RoundsFit(s), s # <<>> => ~ s[1].running
  PROVE  LET u == <<NewTask("CONNECT", "request", 0)>> \o s
         IN  /\ u # <<>>
             /\ RestWaits(u) /\ RoundsFit(u)
             /\ ~ u[1].running
<1> DEFINE t == NewTask("CONNECT", "request", 0)
           u == <<t>> \o s
<1>1. t \in Task /\ ~ t.running /\ t.rounds = 0
  BY NewTaskType DEF NewTask, Which, Need
<1> HIDE DEF t
<1>2. <<t>> \in Seq(Task) /\ Len(<<t>>) = 1 /\ <<t>>[1] = t
  BY <1>1
<1>3. /\ u \in Seq(Task) /\ Len(s) \in Nat /\ Len(u) = 1 + Len(s)
      /\ \A i \in 1 .. 1 + Len(s) : u[i] = IF i <= 1 THEN <<t>>[i] ELSE s[i - 1]
  BY <1>2, ConcatProperties, LenProperties
<1> HIDE DEF u
<1>4. u[1] = t
  BY <1>2, <1>3
<1>5. \A i \in 2 .. Len(u) : u[i] = s[i - 1] /\ i - 1 \in 1 .. Len(s)
  BY <1>3
<1>6. \A i \in 1 .. Len(s) : ~ s[i].running
  BY <1>3, EmptySeq DEF RestWaits
<1>7. RestWaits(u)
  BY <1>5, <1>6 DEF RestWaits
<1>8. RoundsFit(u)
  BY <1>1, <1>3, <1>4, <1>5 DEF RoundsFit
<1>9. u # <<>>
  BY <1>3, EmptySeq
<1> QED BY <1>1, <1>4, <1>7, <1>8, <1>9 DEF u, t

(***************************************************************************)
(* The modes                                                               *)
(***************************************************************************)
\* Two records that agree in all that ModeInv is about.
Same(d, c) ==
  /\ d.proto = c.proto /\ d.cs = c.cs /\ d.mask = c.mask /\ d.error = c.error
  /\ d.tasks = c.tasks /\ d.location = c.location /\ d.no_redirects = c.no_redirects
  /\ d.buf_out = c.buf_out /\ d.towrite = c.towrite /\ d.wire = c.wire
  /\ d.fault = c.fault

\* A record that ModeInv cannot tell from one in its mode is in that mode.
LEMMA SameModes ==
  ASSUME NEW c, NEW d, Same(d, c)
  PROVE  /\ Base(d) = Base(c)
         /\ Idle(d) = Idle(c)
         /\ HeadRuns(d) = HeadRuns(c)
         /\ Listening(d) = Listening(c)
         /\ ModeInv(d) = ModeInv(c)
BY DEF Same, Base, Idle, HeadRuns, Listening, ListensToConnect, ListensToData, ModeInv

\* Events do not matter to the mode.
LEMMA EventSame ==
  ASSUME NEW c, Typed(c)
  PROVE  /\ \A e \in Event : Same(PutEvent(c, e), c) /\ PutEvent(c, e).reconnect_ok = c.reconnect_ok
         /\ Same(GetEvent(c), c)
         /\ Same(RemoveEvents(c), c)
BY DEF Same, PutEvent, GetEvent, RemoveEvents, Typed, Connection

\* What ZOOM_connection_close leaves and what it changes.
LEMMA CloseFields ==
  ASSUME NEW c, Typed(c)
  PROVE  LET d == Close(c) IN
         /\ d.cs = "none" /\ d.mask = {} /\ d.wire = <<>> /\ d.towrite = "NONE"
         /\ d.proto = c.proto /\ d.error = c.error /\ d.tasks = c.tasks
         /\ d.location = c.location /\ d.no_redirects = c.no_redirects
         /\ d.buf_out = c.buf_out /\ d.fault = c.fault
BY DEF Close, Typed, Connection

LEMMA SetErrorFields ==
  ASSUME NEW c, Typed(c), NEW e \in Error
  PROVE  LET d == SetError(c, e) IN
         /\ d.error = e
         /\ d.proto = c.proto /\ d.cs = c.cs /\ d.mask = c.mask
         /\ d.tasks = c.tasks /\ d.location = c.location /\ d.no_redirects = c.no_redirects
         /\ d.buf_out = c.buf_out /\ d.towrite = c.towrite /\ d.wire = c.wire
         /\ d.fault = c.fault
BY DEF SetError, Typed, Connection

\* Replacing the queue changes nothing else.
LEMMA TasksFields ==
  ASSUME NEW c, Typed(c), NEW s \in Seq(Task)
  PROVE  LET d == [c EXCEPT !.tasks = s] IN
         /\ d.tasks = s
         /\ d.proto = c.proto /\ d.cs = c.cs /\ d.mask = c.mask /\ d.error = c.error
         /\ d.location = c.location /\ d.no_redirects = c.no_redirects
         /\ d.buf_out = c.buf_out /\ d.towrite = c.towrite /\ d.wire = c.wire
         /\ d.fault = c.fault
BY DEF Typed, Connection

\* Removing tasks of an idle connection leaves it idle and with no task that
\* runs.
LEMMA RemoveModes ==
  ASSUME NEW c, Typed(c), Base(c), Idle(c),
         NEW d \in {RemoveTask(c), RemoveTasks(c)}
  PROVE  /\ Base(d) /\ Idle(d) /\ ~ HeadRuns(d) /\ ModeInv(d)
         /\ d.error = c.error /\ d.location = c.location /\ d.cs = c.cs /\ d.proto = c.proto
<1>0. c.tasks \in Seq(Task) /\ <<>> \in Seq(Task)
  BY SeqTypes DEF Typed, Connection
<1>1. ASSUME NEW s \in Seq(Task), RestWaits(s), RoundsFit(s), s # <<>> => ~ s[1].running,
             NEW f, Same(f, [c EXCEPT !.tasks = s])
      PROVE  /\ Base(f) /\ Idle(f) /\ ~ HeadRuns(f)
             /\ f.error = c.error /\ f.location = c.location /\ f.cs = c.cs /\ f.proto = c.proto
  BY <1>1, TasksFields DEF Base, Idle, HeadRuns, Same
<1>2. RestWaits(<<>>) /\ RoundsFit(<<>>)
  BY EmptySeq DEF RestWaits, RoundsFit
<1>3. ASSUME NEW s \in Seq(Task) PROVE Typed([c EXCEPT !.tasks = s])
  BY DEF Typed, Connection
<1>4. \A s \in Seq(Task) : /\ Same(PutEvent([c EXCEPT !.tasks = s], "END"), [c EXCEPT !.tasks = s])
                          /\ Same([c EXCEPT !.tasks = s], [c EXCEPT !.tasks = s])
  BY <1>3, EventSame, ZenonT(60) DEF Event, Same
<1>5. CASE c.tasks = <<>>
  <2>1. d = c BY <1>5 DEF RemoveTask, RemoveTasks
  <2> QED BY <1>5, <2>1 DEF HeadRuns, ModeInv
<1>6. CASE c.tasks # <<>> /\ d = PutEvent([c EXCEPT !.tasks = <<>>], "END")
  BY <1>0, <1>1, <1>2, <1>4, <1>6 DEF ModeInv
<1>7. CASE c.tasks # <<>> /\ d = [c EXCEPT !.tasks = Tail(c.tasks)]
  <2>1. /\ Tail(c.tasks) \in Seq(Task)
        /\ RestWaits(Tail(c.tasks)) /\ RoundsFit(Tail(c.tasks))
        /\ Tail(c.tasks) # <<>> => ~ Tail(c.tasks)[1].running
    BY <1>0, <1>7, QueueTail, SeqTypes DEF Base
  <2> QED BY <1>1, <1>4, <1>7, <2>1 DEF ModeInv
<1> QED BY <1>5, <1>6, <1>7 DEF RemoveTask, RemoveTasks

\* A running task's connection may be closed with an error.
LEMMA CloseModes ==
  ASSUME NEW c, Typed(c), Base(c), c.location \/ HeadRuns(c) => c.error # "NONE"
  PROVE  Base(Close(c)) /\ Idle(Close(c)) /\ ModeInv(Close(c)) /\ Close(c).error = c.error
BY CloseFields DEF Base, Idle, HeadRuns, ModeInv

\* Closing and putting the running task back behind a CONNECT task.
LEMMA ReinsertModes ==
  ASSUME NEW c, Typed(c), Base(c), ~ c.location \/ c.error # "NONE", c.tasks # <<>>
  PROVE  LET d == Close(c)
             f == InsertConnect([d EXCEPT !.reconnect_ok = FALSE, !.tasks[1].running = FALSE])
         IN  Typed(f) /\ Base(f) /\ Idle(f) /\ ~ HeadRuns(f) /\ ModeInv(f)
<1> DEFINE d == Close(c)
           g == [d EXCEPT !.reconnect_ok = FALSE, !.tasks[1].running = FALSE]
           s == [c.tasks EXCEPT ![1].running = FALSE]
           u == <<NewTask("CONNECT", "request", 0)>> \o s
           f == InsertConnect(g)
<1>1. Typed(d)
  BY UpdateType
<1>2. c.tasks \in Seq(Task)
  BY DEF Typed, Connection
<1>3. /\ s \in Seq(Task) /\ RestWaits(s) /\ RoundsFit(s) /\ s # <<>> /\ ~ s[1].running
  BY <1>2, QueueSetRunning DEF Base
<1>4. g = [d EXCEPT !.reconnect_ok = FALSE, !.tasks = s]
  BY CloseFields
<1>5. Typed(g) /\ g.tasks = s
  <2> HIDE DEF d, s, g
  <2> QED BY <1>1, <1>3, <1>4 DEF Typed, Connection
<1>6. /\ g.proto = c.proto /\ g.cs = "none" /\ g.mask = {} /\ g.error = c.error
      /\ g.location = c.location /\ g.no_redirects = c.no_redirects
      /\ g.buf_out = c.buf_out /\ g.wire = <<>> /\ g.fault = c.fault
  BY <1>4 DEF Close, Typed, Connection
<1>7. RestWaits(u) /\ RoundsFit(u) /\ ~ u[1].running
  BY <1>3, QueueInsert
<1>8. f = [g EXCEPT !.tasks = u]
  BY <1>5 DEF InsertConnect
<1>9. Typed(f) /\ u \in Seq(Task)
  <2>1. Typed(f) BY <1>5, TaskType
  <2>2. u \in Seq(Task) BY <1>3, NewTaskType, SeqTypes DEF Which, Need
  <2> QED BY <2>1, <2>2
<1> HIDE DEF g, u
<1>10. /\ f.tasks = u
       /\ f.proto = c.proto /\ f.cs = "none" /\ f.mask = {} /\ f.error = c.error
       /\ f.location = c.location /\ f.no_redirects = c.no_redirects
       /\ f.buf_out = c.buf_out /\ f.wire = <<>> /\ f.fault = c.fault
  BY <1>5, <1>6, <1>8, <1>9, TasksFields
<1> HIDE DEF f
<1>11. Base(f) /\ Idle(f) /\ ~ HeadRuns(f)
  BY <1>7, <1>10 DEF Base, Idle, HeadRuns
<1> QED BY <1>9, <1>11 DEF ModeInv, f, g

\* The connection of a running task may break.
LEMMA LoseModes ==
  ASSUME NEW c, Typed(c), Base(c), ~ c.location, c.tasks # <<>>,
         NEW e \in Error \ {"NONE"}
  PROVE  /\ ModeInv(Lose(c, e)) /\ Lose(c, e).cs = "none"
         /\ ~ c.reconnect_ok => Base(Lose(c, e)) /\ Idle(Lose(c, e)) /\ Lose(c, e).error = e
<1>1. CASE ~ c.reconnect_ok
  <2> DEFINE d == SetError(c, e)
  <2>1. Typed(d) /\ Base(d) /\ d.error = e
    BY UpdateType, SetErrorFields DEF Base
  <2> HIDE DEF d
  <2>2. Base(Close(d)) /\ Idle(Close(d)) /\ ModeInv(Close(d)) /\ Close(d).error = e
    BY <2>1, CloseModes
  <2>3. Close(d).cs = "none" BY <2>1, CloseFields
  <2> QED BY <1>1, <2>2, <2>3 DEF Lose, d
<1>2. CASE c.reconnect_ok
  <2> DEFINE f == InsertConnect([Close(c) EXCEPT !.reconnect_ok = FALSE, !.tasks[1].running = FALSE])
  <2>1. Lose(c, e) = PutEvent(f, "CONNECT")
    BY <1>2 DEF Lose, Reconnect
  <2>2. Typed(f) /\ ModeInv(f) BY ReinsertModes
  <2>3. f.cs = "none" BY DEF InsertConnect, Close, Typed, Connection
  <2> HIDE DEF f
  <2>4. Same(PutEvent(f, "CONNECT"), f) BY <2>2, EventSame DEF Event
  <2> QED BY <1>2, <2>1, <2>2, <2>3, <2>4, SameModes DEF Same
<1> QED BY <1>1, <1>2

\* The running task's connection is up and nothing is outstanding on it.
MaySend(c) ==
  /\ Base(c)
  /\ HeadRuns(c)
  /\ c.error = "NONE"
  /\ c.wire = <<>>
  /\ ~ c.location
  /\ c.cs \in {"data", "unbound"}
  /\ c.proto = "HTTP" => c.tasks[1].which # "CONNECT"

\* Writing the running task's request ends in one of the two modes, and it
\* is idle when the request is given up.
LEMMA SendBufModes ==
  ASSUME NEW c, Typed(c), MaySend(c), c.buf_out \in {c.tasks[1].which, "REDIRECT"},
         NEW w \in PutResult
  PROVE  /\ ModeInv(SendBuf(c, w))
         /\ (CannotPut(c) \/ w = "fail") /\ ~ c.reconnect_ok
              => Base(SendBuf(c, w)) /\ Idle(SendBuf(c, w)) /\ SendBuf(c, w).error # "NONE"
<1> DEFINE d == PutEvent(c, "SEND_DATA")
<1>1. Typed(d) /\ Same(d, c) /\ d.reconnect_ok = c.reconnect_ok
  BY EventSame, UpdateType DEF Event
<1>2. MaySend(d) /\ d.buf_out \in {d.tasks[1].which, "REDIRECT"}
  BY <1>1, SameModes DEF MaySend, Same
<1>3. SendBuf(c, w) =
        IF CannotPut(c) \/ w = "fail"
        THEN Lose(d, IF c.state = "CONNECTING" THEN "CONNECT" ELSE "CONNECTION_LOST")
        ELSE IF w = "sent"
        THEN [d EXCEPT !.mask = {"READ", "EXCEPT"}, !.towrite = "NONE",
                       !.wire = Append(@, c.buf_out)]
        ELSE IF w = "partial"
        THEN [d EXCEPT !.mask = {"WRITE", "EXCEPT"}, !.towrite = c.buf_out,
                       !.pieces = @ + 1]
        ELSE [d EXCEPT !.mask = Select, !.towrite = c.buf_out, !.cs = "connecting",
                       !.pieces = @ + 1]
  BY DEF SendBuf
<1> HIDE DEF d
<1>4. CASE CannotPut(c) \/ w = "fail"
  <2> DEFINE e == IF c.state = "CONNECTING" THEN "CONNECT" ELSE "CONNECTION_LOST"
  <2>1. e \in Error \ {"NONE"} BY DEF Error, Kept
  <2>2. SendBuf(c, w) = Lose(d, e) BY <1>3, <1>4
  <2> HIDE DEF e
  <2>3. Base(d) /\ ~ d.location /\ d.tasks # <<>> BY <1>2 DEF MaySend, HeadRuns
  <2> QED BY <1>1, <2>1, <2>2, <2>3, LoseModes
<1>5. CASE ~ CannotPut(c) /\ w # "fail"
  <2>1. d.cs = "data"
    BY <1>1, <1>2, <1>5 DEF CannotPut, MaySend, Same
  <2>2. CASE w = "sent"
    <3> DEFINE f == [d EXCEPT !.mask = {"READ", "EXCEPT"}, !.towrite = "NONE",
                              !.wire = Append(d.wire, d.buf_out)]
    <3>1. Append(d.wire, d.buf_out) = <<d.buf_out>>
      BY <1>2 DEF MaySend
    <3>2. /\ f.mask = {"READ", "EXCEPT"} /\ f.wire = <<d.buf_out>> /\ f.towrite = "NONE"
          /\ f.cs = d.cs /\ f.proto = d.proto /\ f.error = d.error /\ f.tasks = d.tasks
          /\ f.location = d.location /\ f.no_redirects = d.no_redirects
          /\ f.buf_out = d.buf_out /\ f.fault = d.fault
      BY <1>1, <3>1 DEF Typed, Connection
    <3>3. f = SendBuf(c, w) BY <1>1, <1>3, <1>5, <2>2 DEF Same
    <3> HIDE DEF f
    <3>4. Base(f) BY <1>2, <3>2 DEF Base, MaySend
    <3>5. Listening(f)
      BY <1>2, <2>1, <3>2 DEF Listening, ListensToData, MaySend, HeadRuns
    <3> QED BY <1>5, <3>3, <3>4, <3>5 DEF ModeInv
  <2>3. CASE w = "partial"
    <3> DEFINE f == [d EXCEPT !.mask = {"WRITE", "EXCEPT"}, !.towrite = d.buf_out,
                              !.pieces = d.pieces + 1]
    <3>2. /\ f.mask = {"WRITE", "EXCEPT"} /\ f.wire = d.wire /\ f.towrite = d.buf_out
          /\ f.cs = d.cs /\ f.proto = d.proto /\ f.error = d.error /\ f.tasks = d.tasks
          /\ f.location = d.location /\ f.no_redirects = d.no_redirects
          /\ f.buf_out = d.buf_out /\ f.fault = d.fault
      BY <1>1 DEF Typed, Connection
    <3>3. f = SendBuf(c, w) BY <1>1, <1>3, <1>5, <2>3 DEF Same
    <3> HIDE DEF f
    <3>4. Base(f) BY <1>2, <3>2 DEF Base, MaySend
    <3>5. Listening(f)
      BY <1>2, <2>1, <3>2 DEF Listening, ListensToData, MaySend, HeadRuns
    <3> QED BY <1>5, <3>3, <3>4, <3>5 DEF ModeInv
  <2>4. CASE w = "retry"
    <3> DEFINE f == [d EXCEPT !.mask = Select, !.towrite = d.buf_out, !.cs = "connecting",
                              !.pieces = d.pieces + 1]
    <3>2. /\ f.mask = Select /\ f.wire = d.wire /\ f.towrite = d.buf_out
          /\ f.cs = "connecting" /\ f.proto = d.proto /\ f.error = d.error /\ f.tasks = d.tasks
          /\ f.location = d.location /\ f.no_redirects = d.no_redirects
          /\ f.buf_out = d.buf_out /\ f.fault = d.fault
      BY <1>1 DEF Typed, Connection
    <3>3. f = SendBuf(c, w) BY <1>1, <1>3, <1>5, <2>4 DEF Same
    <3> HIDE DEF f
    <3>4. Base(f) BY <1>2, <2>1, <3>2 DEF Base, MaySend
    <3>5. Select # {} BY DEF Select
    <3>6. ListensToConnect(f)
      BY <1>1, <1>2, <3>2 DEF ListensToConnect, MaySend, Base, Typed, Which
    <3>7. Listening(f)
      BY <1>2, <3>2, <3>5, <3>6 DEF Listening, MaySend, HeadRuns
    <3> QED BY <1>5, <3>3, <3>4, <3>7 DEF ModeInv
  <2> QED BY <1>5, <2>2, <2>3, <2>4 DEF PutResult
<1> QED BY <1>4, <1>5

\* Sending the running task's request, or its redirected form.
LEMMA SendModes ==
  ASSUME NEW c, Typed(c), MaySend(c), NEW w \in PutResult,
         NEW which \in Request, which \in {c.tasks[1].which, "REDIRECT"},
         which = "REDIRECT" => c.proto = "HTTP"
  PROVE  /\ Typed(SendRequest(c, which, w)) /\ ModeInv(SendRequest(c, which, w))
         /\ SendCompletes(c, which, w) =>
              /\ Base(SendRequest(c, which, w))
              /\ Idle(SendRequest(c, which, w))
              /\ SendRequest(c, which, w).error # "NONE"
<1> DEFINE b == [c EXCEPT !.buf_out = which]
           d == PutEvent(b, "SEND_APDU")
<1>1. /\ Typed(b)
      /\ b.buf_out = which /\ b.reconnect_ok = c.reconnect_ok
      /\ b.proto = c.proto /\ b.cs = c.cs /\ b.mask = c.mask /\ b.error = c.error
      /\ b.tasks = c.tasks /\ b.location = c.location /\ b.no_redirects = c.no_redirects
      /\ b.towrite = c.towrite /\ b.wire = c.wire /\ b.fault = c.fault
  BY DEF Typed, Connection, Request
<1>2. SendCompletes(c, which, w) <=> (w = "fail" \/ CannotPut(b)) /\ ~ c.reconnect_ok
  BY DEF SendCompletes
<1> HIDE DEF b
<1>3. MaySend(b)
  BY <1>1 DEF MaySend, Base, HeadRuns
<1>4. Typed(d) /\ Same(d, b) /\ d.reconnect_ok = b.reconnect_ok
  BY <1>1, EventSame, UpdateType DEF Event
<1>5. SendRequest(c, which, w) = SendBuf(d, w)
  BY DEF SendRequest, b
<1> HIDE DEF d
<1>6. MaySend(d) /\ d.buf_out \in {d.tasks[1].which, "REDIRECT"}
  BY <1>1, <1>3, <1>4, SameModes DEF MaySend, Same
<1>7. CannotPut(d) = CannotPut(b)
  BY <1>4 DEF CannotPut, Same
<1>8. Typed(SendRequest(c, which, w))
  BY SendType
<1> QED BY <1>1, <1>2, <1>4, <1>5, <1>6, <1>7, <1>8, SendBufModes

\* do_connect_host for the running CONNECT task, or for a running task that
\* was redirected.
LEMMA DoConnectHostModes ==
  ASSUME NEW c, Typed(c), Base(c), HeadRuns(c), c.mask = {}, c.error = "NONE",
         c.location <=> c.tasks[1].which # "CONNECT",
         NEW w \in PutResult, NEW k \in Connects
  PROVE  LET d == DoConnectHost(c, w, k) IN
         /\ Typed(d) /\ ModeInv(d)
         /\ k \in {"nohost", "refused"} => Base(d) /\ Idle(d) /\ d.error # "NONE"
<1> DEFINE closed == [c EXCEPT !.cs = "none", !.wire = <<>>, !.towrite = "NONE"]
           created == [closed EXCEPT !.proto = IF HostProto = "HTTP" THEN "HTTP" ELSE @]
           d == DoConnectHost(c, w, k)
<1>0. k \in ConnectResult /\ (k = "established" => HostProto = "Z3950")
  BY EventLoopFits DEF Connects
<1>1. Typed(d)
  BY <1>0, DoConnectHostType
<1>2. /\ Typed(closed)
      /\ closed.cs = "none" /\ closed.wire = <<>> /\ closed.towrite = "NONE"
      /\ closed.proto = c.proto /\ closed.mask = {} /\ closed.error = "NONE"
      /\ closed.tasks = c.tasks /\ closed.location = c.location
      /\ closed.no_redirects = c.no_redirects /\ closed.buf_out = c.buf_out
      /\ closed.fault = c.fault
  BY SeqTypes DEF Typed, Connection, Comstack
<1> HIDE DEF closed
<1>3. /\ created.cs = "none" /\ created.wire = <<>> /\ created.towrite = "NONE"
      /\ created.mask = {} /\ created.error = "NONE"
      /\ created.tasks = c.tasks /\ created.location = c.location
      /\ created.no_redirects = c.no_redirects /\ created.buf_out = c.buf_out
      /\ created.fault = c.fault
  BY <1>2 DEF Typed, Connection
<1>4. Typed(created) /\ created.proto = HostProto
  <2>1. created.proto = IF HostProto = "HTTP" THEN "HTTP" ELSE c.proto
    BY <1>2 DEF Typed, Connection
  <2>2. c.proto \in {"Z3950", "HTTP"} BY DEF Typed, Connection
  <2>3. created.proto = HostProto BY <2>1, <2>2, ProtoAssumption DEF Base
  <2>4. Typed(created) BY <1>2, ZenonT(60) DEF Typed, Connection
  <2> QED BY <2>3, <2>4
<1> HIDE DEF created
<1>5. CASE k = "nohost"
  <2> DEFINE f == [closed EXCEPT !.state = "IDLE", !.error = "CONNECT"]
  <2>1. d = f BY <1>5 DEF DoConnectHost, closed
  <2>2. /\ f.error = "CONNECT" /\ f.cs = "none" /\ f.wire = <<>>
        /\ f.proto = c.proto /\ f.mask = {} /\ f.tasks = c.tasks /\ f.location = c.location
        /\ f.no_redirects = c.no_redirects /\ f.buf_out = c.buf_out /\ f.fault = c.fault
    BY <1>2 DEF Typed, Connection
  <2> HIDE DEF f
  <2>3. Base(f) /\ Idle(f) BY <2>2 DEF Base, Idle
  <2> QED BY <1>1, <2>1, <2>2, <2>3 DEF ModeInv
<1>6. CASE k = "refused"
  <2> DEFINE f == [created EXCEPT !.cs = "unbound", !.state = "IDLE", !.error = "CONNECT"]
  <2>1. d = f BY <1>6 DEF DoConnectHost, closed, created
  <2>2. /\ f.error = "CONNECT" /\ f.cs = "unbound" /\ f.wire = <<>>
        /\ f.proto = HostProto /\ f.mask = {} /\ f.tasks = c.tasks /\ f.location = c.location
        /\ f.no_redirects = c.no_redirects /\ f.buf_out = c.buf_out /\ f.fault = c.fault
    BY <1>3, <1>4 DEF Typed, Connection
  <2> HIDE DEF f
  <2>3. f.proto = "HTTP" \/ c.proto = f.proto
    BY <2>2, ProtoAssumption DEF Base, Typed, Connection
  <2>4. Base(f) /\ Idle(f) BY <2>2, <2>3 DEF Base, Idle
  <2> QED BY <1>1, <2>1, <2>2, <2>4 DEF ModeInv
<1>7. CASE k = "pending"
  <2> DEFINE f == [created EXCEPT !.cs = "connecting", !.state = "CONNECTING", !.mask = Select]
  <2>1. d = f BY <1>7 DEF DoConnectHost, closed, created
  <2>2. /\ f.error = "NONE" /\ f.cs = "connecting" /\ f.wire = <<>> /\ f.towrite = "NONE"
        /\ f.proto = HostProto /\ f.mask = Select /\ f.tasks = c.tasks /\ f.location = c.location
        /\ f.no_redirects = c.no_redirects /\ f.buf_out = c.buf_out /\ f.fault = c.fault
    BY <1>3, <1>4 DEF Typed, Connection
  <2> HIDE DEF f
  <2>3. f.proto = "HTTP" \/ c.proto = f.proto
    BY <2>2, ProtoAssumption DEF Base, Typed, Connection
  <2>4. Base(f) BY <2>2, <2>3 DEF Base
  <2>5. Select # {} BY DEF Select
  <2>6. ListensToConnect(f)
    BY <2>2, <2>3 DEF ListensToConnect, Base
  <2>7. Listening(f) BY <2>2, <2>5, <2>6 DEF Listening, HeadRuns
  <2> QED BY <1>1, <1>7, <2>1, <2>4, <2>7 DEF ModeInv
<1>8. CASE k = "established"
  <2> DEFINE b == [created EXCEPT !.cs = "data"]
             up == PutEvent(b, "CONNECT")
             f == SendRequest(up, "CONNECT", w)
  <2>1. d = [f EXCEPT !.state = "ESTABLISHED"]
    BY <1>8 DEF DoConnectHost, closed, created
  <2>2. /\ Typed(b) /\ b.cs = "data" /\ b.wire = <<>> /\ b.error = "NONE" /\ b.proto = HostProto
        /\ b.tasks = c.tasks /\ b.location = c.location /\ b.no_redirects = c.no_redirects
        /\ b.buf_out = c.buf_out /\ b.fault = c.fault
    BY <1>3, <1>4, ZenonT(60) DEF Typed, Connection, Comstack
  <2>3. c.proto = "Z3950" /\ HostProto = "Z3950"
    BY <1>0, <1>8 DEF Base, Typed, Connection
  <2> HIDE DEF b
  <2>4. MaySend(b)
    BY <2>2, <2>3 DEF MaySend, Base, HeadRuns
  <2>5. Typed(up) /\ Same(up, b)
    BY <2>2, UpdateType, EventSame DEF Event
  <2> HIDE DEF up
  <2>6. MaySend(up) /\ up.tasks[1].which = "CONNECT"
    BY <2>2, <2>3, <2>4, <2>5, SameModes DEF MaySend, Same, Base
  <2>7. Typed(f) /\ ModeInv(f)
    BY <2>5, <2>6, SendModes DEF Request, Which
  <2> HIDE DEF f
  <2>8. Same(d, f)
    BY <2>1, <2>7 DEF Same, Typed, Connection
  <2> QED BY <1>1, <1>8, <2>7, <2>8, SameModes
<1> QED BY <1>0, <1>5, <1>6, <1>7, <1>8 DEF ConnectResult

\* ZOOM_connection_exec_task on an idle connection.
LEMMA ExecTaskModes ==
  ASSUME NEW c, Typed(c), ModeInv(c), Idle(c), NEW w \in PutResult, NEW k \in Connects
  PROVE  ModeInv(ExecTask(c, w, k))
<1> DEFINE s == [c.tasks EXCEPT ![1].running = TRUE]
           started == [c EXCEPT !.tasks = s]
           which == Head(c.tasks).which
<1>0. Base(c) /\ (HeadRuns(c) => c.error # "NONE")
  BY DEF ModeInv, Idle, Listening
<1>1. CASE c.tasks = <<>> \/ c.error # "NONE"
  BY <1>0, <1>1, RemoveModes DEF ExecTask
<1>2. CASE c.tasks # <<>> /\ c.error = "NONE"
  <2>0. /\ c.tasks \in Seq(Task) /\ c.tasks[1] \in Task
        /\ ~ Head(c.tasks).running /\ Head(c.tasks) = c.tasks[1] /\ ~ c.location
    BY <1>0, <1>2, SeqTypes DEF Typed, Connection, HeadRuns, Idle
  <2>1. /\ s \in Seq(Task) /\ s # <<>> /\ RestWaits(s) /\ RoundsFit(s)
        /\ s[1].running /\ s[1].which = which
    BY <1>0, <1>2, <2>0, QueueSetRunning DEF Base
  <2>2. which \in Which
    BY <2>0 DEF Task
  <2>3. ExecTask(c, w, k) =
          IF which = "CONNECT" THEN
            IF k \in {"nohost", "refused"}
            THEN RemoveTask(DoConnectHost(started, w, k))
            ELSE DoConnectHost(started, w, k)
          ELSE IF c.cs = "none" THEN RemoveTasks(started)
          ELSE IF Head(c.tasks).need = "invalid" THEN RemoveTask(SetError(started, "DIAG"))
          ELSE IF Head(c.tasks).need = "nothing" THEN RemoveTask(started)
          ELSE IF SendCompletes(started, which, w)
          THEN RemoveTask(SendRequest(started, which, w))
          ELSE SendRequest(started, which, w)
    BY <1>2, <2>0 DEF ExecTask
  <2> HIDE DEF s, which
  <2>4. /\ Typed(started)
        /\ started.tasks = s
        /\ started.proto = c.proto /\ started.cs = c.cs /\ started.mask = c.mask
        /\ started.error = c.error
        /\ started.location = c.location /\ started.no_redirects = c.no_redirects
        /\ started.buf_out = c.buf_out /\ started.towrite = c.towrite /\ started.wire = c.wire
        /\ started.fault = c.fault
    BY <2>1, TasksFields DEF Typed, Connection
  <2> HIDE DEF started
  <2>5. Base(started) /\ Idle(started) /\ HeadRuns(started)
    BY <1>0, <2>1, <2>4 DEF Base, Idle, HeadRuns
  <2>6. ASSUME which = "CONNECT" PROVE ModeInv(ExecTask(c, w, k))
    <3> DEFINE d == DoConnectHost(started, w, k)
    <3>1. /\ Typed(d) /\ ModeInv(d)
          /\ k \in {"nohost", "refused"} => Base(d) /\ Idle(d)
      BY <1>2, <2>0, <2>1, <2>4, <2>5, <2>6, DoConnectHostModes DEF Idle
    <3>2. k \in {"nohost", "refused"} => ModeInv(RemoveTask(d)) BY <3>1, RemoveModes
    <3> QED BY <2>3, <2>6, <3>1, <3>2
  <2>7. ModeInv(RemoveTasks(started)) /\ ModeInv(RemoveTask(started))
    BY <2>4, <2>5, RemoveModes
  <2>8. ModeInv(RemoveTask(SetError(started, "DIAG")))
    <3> DEFINE d == SetError(started, "DIAG")
    <3>1. Typed(d) /\ Base(d) /\ Idle(d)
      BY <2>4, <2>5, UpdateType, SetErrorFields DEF Base, Idle, Error
    <3> QED BY <3>1, RemoveModes
  <2>9. ASSUME which # "CONNECT", c.cs # "none"
        PROVE  /\ ModeInv(SendRequest(started, which, w))
               /\ SendCompletes(started, which, w) =>
                    ModeInv(RemoveTask(SendRequest(started, which, w)))
    <3>1. c.cs \in {"data", "unbound"}
      BY <2>9 DEF Idle, Typed, Connection, Comstack
    <3>2. MaySend(started)
      BY <1>2, <2>0, <2>1, <2>4, <2>5, <2>9, <3>1 DEF MaySend, Idle
    <3>3. which \in Request /\ which \in {started.tasks[1].which, "REDIRECT"} /\ which # "REDIRECT"
      BY <2>1, <2>2, <2>4 DEF Request, Which
    <3>4. /\ Typed(SendRequest(started, which, w)) /\ ModeInv(SendRequest(started, which, w))
          /\ SendCompletes(started, which, w) =>
               Base(SendRequest(started, which, w)) /\ Idle(SendRequest(started, which, w))
      BY <2>4, <3>2, <3>3, SendModes
    <3> QED BY <3>4, RemoveModes
  <2> QED BY <2>3, <2>6, <2>7, <2>8, <2>9
<1> QED BY <1>1, <1>2

\* The end of a connection attempt.
LEMMA RcvConnectModes ==
  ASSUME NEW c, Typed(c), Base(c), Listening(c), c.cs = "connecting",
         NEW r \in {"again", "up", "down"}, NEW w \in PutResult, NEW k \in Connects
  PROVE  ModeInv(RcvConnect(c, r, w, k))
<1>0. /\ ListensToConnect(c) /\ HeadRuns(c) /\ c.error = "NONE" /\ c.mask = Select
      /\ c.wire = <<>> /\ c.proto = HostProto /\ c.proto \in {"Z3950", "HTTP"}
      /\ c.tasks # <<>> /\ c.tasks \in Seq(Task) /\ Head(c.tasks) = c.tasks[1]
  BY SeqTypes DEF Listening, ListensToConnect, ListensToData, Base, Typed, Connection, HeadRuns
<1>1. CASE r = "again"
  <2> DEFINE f == [c EXCEPT !.mask = Select, !.pieces = c.pieces + 1]
  <2>1. Typed(f)
    <3>1. c.pieces + 1 \in Nat /\ Select \in SUBSET Select BY DEF Typed, Connection
    <3> QED BY <3>1 DEF Typed, Connection
  <2>2. Same(f, c) BY <1>0 DEF Same, Typed, Connection
  <2>3. RcvConnect(c, r, w, k) = PutEvent(f, "CONNECT") BY <1>1 DEF RcvConnect
  <2> HIDE DEF f
  <2>4. Same(PutEvent(f, "CONNECT"), f) BY <2>1, EventSame DEF Event
  <2>5. ModeInv(c) BY DEF ModeInv
  <2> QED BY <2>2, <2>3, <2>4, <2>5, SameModes
<1>2. CASE r = "down"
  <2> DEFINE d == SetError(c, "CONNECT")
  <2>0. "CONNECT" \in Error BY DEF Error, Kept
  <2>1. Typed(d) /\ Base(d) /\ d.error # "NONE"
    BY <2>0, UpdateType, SetErrorFields DEF Base
  <2>2. RcvConnect(c, r, w, k) = Close(d) BY <1>2 DEF RcvConnect
  <2> QED BY <2>1, <2>2, CloseModes
<1>3. CASE r = "up"
  <2> DEFINE b == [c EXCEPT !.cs = "data"]
             up == PutEvent(b, "CONNECT")
             ready == IF Head(c.tasks).which = "CONNECT"
                      THEN [RemoveTask(up) EXCEPT !.mask = {}] ELSE up
             next == IF c.proto = "Z3950" THEN SendRequest(up, "CONNECT", w)
                     ELSE IF c.tasks = <<>> THEN [up EXCEPT !.fault = "NULL"]
                     ELSE IF c.location
                     THEN SendRequest([ready EXCEPT !.location = FALSE], "REDIRECT", w)
                     ELSE ExecTask(ready, w, k)
  <2>1. /\ Typed(b) /\ b.cs = "data" /\ b.proto = c.proto /\ b.mask = c.mask
        /\ b.error = c.error /\ b.tasks = c.tasks /\ b.location = c.location
        /\ b.no_redirects = c.no_redirects /\ b.buf_out = c.buf_out
        /\ b.towrite = c.towrite /\ b.wire = c.wire /\ b.fault = c.fault
    BY DEF Typed, Connection, Comstack
  <2> HIDE DEF b
  <2>2. Typed(up) /\ Same(up, b) BY <2>1, UpdateType, EventSame DEF Event
  <2>3. Base(up) /\ HeadRuns(up)
    BY <1>0, <2>1, <2>2 DEF Base, HeadRuns, Same
  <2>4. Connected(c, w, k)
          = [next EXCEPT !.state = IF next.cs = "data" THEN "ESTABLISHED" ELSE next.state]
    BY DEF Connected, b
  <2> HIDE DEF up
  <2>5. k \in ConnectResult BY EventLoopFits
  <2>6. CASE c.proto = "Z3950"
    <3>1. next = SendRequest(up, "CONNECT", w) BY <2>6
    <3>2. ~ c.location /\ "CONNECT" \in Request
      BY <2>6 DEF Base, Request, Which
    <3>3. MaySend(up)
      BY <1>0, <2>1, <2>2, <2>3, <2>6, <3>2 DEF MaySend, Same
    <3>4. ASSUME c.towrite \in {"NONE", "CONNECT"} PROVE ModeInv(next)
      <4>1. up.tasks[1].which = "CONNECT"
        BY <1>0, <2>1, <2>2, <2>6, <3>4 DEF ListensToConnect, Same
      <4> QED BY <2>2, <3>1, <3>2, <3>3, <4>1, SendModes
    <3>5. ASSUME c.towrite \notin {"NONE", "CONNECT"} PROVE ModeInv(next)
      <4> DEFINE g == [up EXCEPT !.buf_out = "CONNECT"]
                 h == PutEvent(g, "SEND_APDU")
                 j == PutEvent(h, "SEND_DATA")
                 e == IF h.state = "CONNECTING" THEN "CONNECT" ELSE "CONNECTION_LOST"
      <4>0. "CONNECT" \in Which BY DEF Which
      <4>1. /\ Typed(g) /\ g.buf_out = "CONNECT"
            /\ g.towrite = up.towrite /\ g.location = up.location
            /\ g.tasks = up.tasks /\ g.proto = up.proto /\ g.cs = up.cs /\ g.fault = up.fault
            /\ g.no_redirects = up.no_redirects
        BY <2>2, <3>2, <4>0 DEF Typed, Connection
      <4>9. up.towrite = c.towrite /\ up.location = c.location
        BY <2>1, <2>2 DEF Same
      <4> HIDE DEF g
      <4>2. Typed(h) /\ Same(h, g) BY <4>1, UpdateType, EventSame DEF Event
      <4> HIDE DEF h
      <4>3. Typed(j) /\ Same(j, h) BY <4>2, UpdateType, EventSame DEF Event
      <4>4. CannotPut(h) BY <3>5, <4>1, <4>2, <4>9 DEF CannotPut, Same
      <4>5. next = Lose(j, e) BY <3>1, <4>4 DEF SendRequest, SendBuf, g, h
      <4> HIDE DEF j
      <4>6. Base(j) /\ ~ j.location /\ j.tasks # <<>>
        BY <2>3, <3>2, <4>1, <4>2, <4>3, <4>9 DEF Base, HeadRuns, Same
      <4>7. e \in Error \ {"NONE"} BY DEF Error, Kept
      <4> HIDE DEF e
      <4>8. Typed(Lose(j, e)) BY <4>3, <4>7, LoseType
      <4> QED BY <4>3, <4>5, <4>6, <4>7, <4>8, LoseModes
    <3> HIDE DEF next
    <3>6. Typed(next) /\ ModeInv(next)
      <4>1. Typed(next) BY <2>2, <3>1, <3>2, SendType
      <4> QED BY <3>4, <3>5, <4>1
    <3>7. Same(Connected(c, w, k), next)
      BY <2>4, <3>6 DEF Same, Typed, Connection
    <3> QED BY <1>3, <3>6, <3>7, SameModes DEF RcvConnect
  <2>7. CASE c.proto = "HTTP" /\ c.location
    <3> DEFINE g == [up EXCEPT !.location = FALSE]
    <3>1. Head(c.tasks).which # "CONNECT" BY <1>0, <2>7 DEF ListensToConnect
    <3>2. next = SendRequest(g, "REDIRECT", w) BY <1>0, <2>7, <3>1
    <3>3. /\ Typed(g) /\ ~ g.location
          /\ g.proto = up.proto /\ g.cs = up.cs /\ g.error = up.error /\ g.tasks = up.tasks
          /\ g.no_redirects = up.no_redirects /\ g.buf_out = up.buf_out
          /\ g.wire = up.wire /\ g.fault = up.fault
      BY <2>2 DEF Typed, Connection
    <3> HIDE DEF g
    <3>4. MaySend(g)
      BY <1>0, <2>1, <2>2, <2>3, <3>1, <3>3 DEF MaySend, Base, HeadRuns, Same
    <3>5. g.proto = "HTTP" BY <2>1, <2>2, <2>7, <3>3 DEF Same
    <3>6. Typed(next) /\ ModeInv(next)
      BY <3>2, <3>3, <3>4, <3>5, SendModes DEF Request
    <3> HIDE DEF next
    <3>7. Same(Connected(c, w, k), next)
      BY <2>4, <3>6 DEF Same, Typed, Connection
    <3> QED BY <1>3, <3>6, <3>7, SameModes DEF RcvConnect
  <2>8. CASE c.proto = "HTTP" /\ ~ c.location /\ Head(c.tasks).which = "CONNECT"
    <3> DEFINE g == [up EXCEPT !.mask = {}]
    <3>1. next = ExecTask([RemoveTask(up) EXCEPT !.mask = {}], w, k)
      BY <1>0, <2>8
    <3>2. /\ Typed(g) /\ g.mask = {}
          /\ g.proto = up.proto /\ g.cs = up.cs /\ g.error = up.error /\ g.tasks = up.tasks
          /\ g.location = up.location /\ g.no_redirects = up.no_redirects
          /\ g.buf_out = up.buf_out /\ g.wire = up.wire /\ g.fault = up.fault
      BY <2>2 DEF Typed, Connection
    <3>3. [RemoveTask(up) EXCEPT !.mask = {}] = RemoveTask(g)
      BY <2>2 DEF RemoveTask, PutEvent, Typed, Connection
    <3> HIDE DEF g
    <3>4. Base(g) /\ Idle(g)
      BY <1>0, <2>1, <2>2, <2>3, <2>8, <3>2, ZenonT(60) DEF Base, Idle, Same
    <3>5. Typed(RemoveTask(g)) /\ ModeInv(RemoveTask(g)) /\ Idle(RemoveTask(g))
      BY <3>2, <3>4, RemoveModes, TaskType
    <3> DEFINE h == RemoveTask(g)
    <3> HIDE DEF h, next
    <3>8. Typed(ExecTask(h, w, k)) /\ ModeInv(ExecTask(h, w, k))
      BY <2>5, <3>5, ExecTaskModes, ExecTaskType DEF h
    <3>6. Typed(next) /\ ModeInv(next)
      BY <3>1, <3>3, <3>8 DEF h
    <3> HIDE DEF next
    <3>7. Same(Connected(c, w, k), next)
      BY <2>4, <3>6 DEF Same, Typed, Connection
    <3> QED BY <1>3, <3>6, <3>7, SameModes DEF RcvConnect
  <2>9. CASE c.proto = "HTTP" /\ ~ c.location /\ Head(c.tasks).which # "CONNECT"
    <3>1. /\ up.tasks = c.tasks /\ up.error = "NONE" /\ up.mask = Select /\ up.cs = "data"
          /\ up.wire = <<>> /\ up.location = c.location /\ up.buf_out = c.buf_out
      BY <1>0, <2>1, <2>2 DEF Same
    <3>2. next = up
      BY <1>0, <2>9, <3>1 DEF ExecTask, HeadRuns
    <3>3. ListensToData(up)
      BY <1>0, <2>9, <3>1 DEF ListensToData, ListensToConnect, Select
    <3>4. Typed(next) /\ ModeInv(next)
      BY <1>0, <2>2, <2>3, <3>1, <3>2, <3>3 DEF ModeInv, Listening, HeadRuns
    <3> HIDE DEF next
    <3>5. Same(Connected(c, w, k), next)
      BY <2>4, <3>4 DEF Same, Typed, Connection
    <3> QED BY <1>3, <3>4, <3>5, SameModes DEF RcvConnect
  <2> QED BY <1>0, <2>6, <2>7, <2>8, <2>9
<1> QED BY <1>1, <1>2, <1>3

(***************************************************************************)
(* Responses                                                               *)
(***************************************************************************)
\* The running task has just been answered and the mask is cleared.
Answered(c) == MaySend(c) /\ c.mask = {} /\ c.cs = "data"

LEMMA AnsweredModes ==
  ASSUME NEW c, Typed(c), Answered(c)
  PROVE  /\ Base(c) /\ Idle(c) /\ HeadRuns(c) /\ ~ c.location /\ c.error = "NONE"
         /\ c.tasks # <<>> /\ c.tasks \in Seq(Task) /\ c.tasks[1] \in Task
         /\ Head(c.tasks) = c.tasks[1]
<1>1. /\ Base(c) /\ Idle(c) /\ HeadRuns(c) /\ ~ c.location /\ c.error = "NONE"
      /\ c.tasks # <<>> /\ c.tasks \in Seq(Task)
  BY DEF Answered, MaySend, Idle, HeadRuns, Typed, Connection
<1> QED BY <1>1, SeqTypes

\* The answer is the running task's.
LEMMA TakeResponseModes ==
  ASSUME NEW c, Typed(c), Base(c), Listening(c), c.cs = "data", c.wire # <<>>
  PROVE  LET d == TakeResponse(c) IN
         /\ Typed(d) /\ Answered(d)
         /\ d.tasks = c.tasks /\ d.proto = c.proto /\ d.no_redirects = c.no_redirects
         /\ Head(c.wire) \in {d.tasks[1].which, "REDIRECT"}
         /\ d.proto = "Z3950" => Head(c.wire) = d.tasks[1].which
<1> DEFINE d == TakeResponse(c)
<1>1. /\ c.wire = <<c.buf_out>> /\ c.buf_out \in {c.tasks[1].which, "REDIRECT"}
      /\ ~ c.location /\ HeadRuns(c) /\ c.error = "NONE"
      /\ c.proto = "HTTP" => c.tasks[1].which # "CONNECT"
  BY DEF Listening, ListensToConnect, ListensToData
<1>2. Tail(c.wire) = <<>> /\ Head(c.wire) = c.buf_out
  BY <1>1
<1>3. /\ d.mask = {} /\ d.wire = <<>>
      /\ d.proto = c.proto /\ d.cs = c.cs /\ d.error = c.error /\ d.tasks = c.tasks
      /\ d.location = c.location /\ d.no_redirects = c.no_redirects
      /\ d.buf_out = c.buf_out /\ d.fault = c.fault
  BY <1>2 DEF TakeResponse, Typed, Connection
<1>4. Typed(d)
  <2>1. <<>> \in Seq(Request) /\ <<>> \in Seq(Which) BY SeqTypes
  <2> QED BY <1>2, <2>1 DEF TakeResponse, Typed, Connection
<1> HIDE DEF d
<1>5. Answered(d)
  BY <1>1, <1>3 DEF Answered, MaySend, Base, HeadRuns
<1>6. d.proto = "Z3950" => c.buf_out # "REDIRECT"
  BY <1>3 DEF Base
<1> QED BY <1>1, <1>2, <1>3, <1>4, <1>5, <1>6 DEF d

\* A chunk of records that is not the last leaves the search running.
LEMMA NextChunkModes ==
  ASSUME NEW c, Typed(c), Answered(c), MoreFits(c, "more")
  PROVE  LET d == NextChunk(c) IN
         /\ Typed(d) /\ Answered(d) /\ HeadIs(d, "SEARCH") /\ MaxRounds # 0
<1> DEFINE n == c.tasks[1].rounds - 1
           s == [c.tasks EXCEPT ![1].rounds = n]
           f == [c EXCEPT !.tasks = s]
           d == NextChunk(c)
<1>0. /\ c.tasks # <<>> /\ c.tasks \in Seq(Task) /\ c.tasks[1] \in Task
      /\ Head(c.tasks) = c.tasks[1] /\ Base(c) /\ HeadRuns(c)
      /\ c.tasks[1].which = "SEARCH" /\ c.tasks[1].rounds > 0
  BY AnsweredModes DEF MoreFits, HeadIs
<1>1. n \in Nat /\ 1 \in 1 .. Len(c.tasks) /\ Len(c.tasks) \in Nat
  BY <1>0, EmptySeq DEF Task
<1>2. MaxRounds # 0
  BY <1>0, <1>1 DEF Base, RoundsFit
<1>3. [c.tasks[1] EXCEPT !.rounds = n] \in Task
  BY <1>0, <1>1 DEF Task
<1>4. /\ s \in Seq(Task) /\ Len(s) = Len(c.tasks)
      /\ \A j \in 1 .. Len(c.tasks) :
           s[j] = IF j = 1 THEN [c.tasks[1] EXCEPT !.rounds = n] ELSE c.tasks[j]
  BY <1>0, <1>1, <1>3, ExceptSeq
<1>5. d = PutEvent(f, "RECV_RECORD")
  BY DEF NextChunk
<1> HIDE DEF s
<1>6. s[1].which = "SEARCH" /\ s[1].running /\ s # <<>> /\ Head(s) = s[1]
  <2>1. s[1] = [c.tasks[1] EXCEPT !.rounds = n] BY <1>1, <1>4
  <2>2. s # <<>> BY <1>1, <1>4, EmptySeq
  <2>3. s[1].which = "SEARCH" /\ s[1].running BY <1>0, <2>1 DEF Task, HeadRuns
  <2> QED BY <1>4, <2>2, <2>3, SeqTypes
<1>7. RestWaits(s) /\ RoundsFit(s)
  BY <1>0, <1>2, <1>4 DEF Base, RestWaits, RoundsFit
<1>8. /\ f.tasks = s
      /\ f.proto = c.proto /\ f.cs = c.cs /\ f.mask = c.mask /\ f.error = c.error
      /\ f.location = c.location /\ f.no_redirects = c.no_redirects
      /\ f.buf_out = c.buf_out /\ f.towrite = c.towrite /\ f.wire = c.wire
      /\ f.fault = c.fault
  BY <1>4, TasksFields
<1>9. Typed(f)
  BY <1>4 DEF Typed, Connection
<1> HIDE DEF f
<1>10. Answered(f) /\ HeadIs(f, "SEARCH")
  BY <1>6, <1>7, <1>8 DEF Answered, MaySend, Base, HeadRuns, HeadIs
<1>11. Same(d, f) /\ Typed(d)
  BY <1>5, <1>9, EventSame, UpdateType DEF Event
<1> HIDE DEF d
<1>12. Answered(d) /\ HeadIs(d, "SEARCH")
  BY <1>10, <1>11, SameModes DEF Answered, MaySend, HeadIs, Same
<1> QED BY <1>2, <1>11, <1>12 DEF d

\* An error for the answered task.
LEMMA AnsweredError ==
  ASSUME NEW c, Typed(c), Answered(c), NEW e \in Error \ {"NONE"}
  PROVE  LET d == SetError(c, e) IN
         /\ Typed(d) /\ Base(d) /\ Idle(d) /\ ModeInv(d) /\ d.tasks = c.tasks
         /\ d.location = c.location
<1>1. Base(c) /\ Idle(c)
  BY AnsweredModes
<1>2. Base(SetError(c, e)) /\ Idle(SetError(c, e)) /\ SetError(c, e).error = e
  BY <1>1, SetErrorFields DEF Base, Idle
<1> QED BY <1>2, UpdateType, SetErrorFields DEF ModeInv

\* ZOOM_handle_Z3950_apdu.
LEMMA HandleZ3950Modes ==
  ASSUME NEW c, Typed(c), Base(c), Listening(c), c.cs = "data", c.wire # <<>>,
         c.proto = "Z3950", NEW a \in Answer, MoreFits(c, a),
         NEW w \in PutResult, NEW k \in Connects
  PROVE  ModeInv(HandleZ3950(c, a, w, k))
<1> DEFINE d == TakeResponse(c)
<1>1. Typed(d) /\ Answered(d) /\ d.tasks = c.tasks /\ Head(c.wire) = d.tasks[1].which
  BY TakeResponseModes
<1>2. MoreFits(d, a)
  BY <1>1 DEF MoreFits, HeadIs
<1> HIDE DEF d
<1>3. /\ Base(d) /\ Idle(d) /\ d.tasks # <<>> /\ d.tasks[1] \in Task /\ Head(d.tasks) = d.tasks[1]
  BY <1>1, AnsweredModes
<1>4. /\ ModeInv(SetError(d, "INIT")) /\ ModeInv(SetError(d, "INITDIAG"))
      /\ ModeInv(RemoveTask(SetError(d, "DIAG"))) /\ ModeInv(RemoveTasks(SetError(d, "DIAG")))
  <2>1. {"INIT", "INITDIAG", "DIAG"} \subseteq Error \ {"NONE"} BY DEF Error, Kept
  <2>2. \A e \in {"INIT", "INITDIAG", "DIAG"} :
          /\ Typed(SetError(d, e)) /\ Base(SetError(d, e)) /\ Idle(SetError(d, e))
          /\ ModeInv(SetError(d, e))
    BY <1>1, <2>1, AnsweredError
  <2> QED BY <2>2, RemoveModes
<1>5. ModeInv(RemoveTask(d)) /\ Typed(RemoveTask(d)) /\ Idle(RemoveTask(d))
  BY <1>1, <1>3, RemoveModes, TaskType
<1>6. ModeInv(ExecTask(RemoveTask(d), w, k))
  BY <1>5, ExecTaskModes
<1>7. CASE Head(c.wire) = "CONNECT"
  <2>1. HeadIs(d, "CONNECT") BY <1>1, <1>3, <1>7 DEF HeadIs
  <2>2. ModeInv(InitResponse(d, a, w, k)) BY <1>4, <1>6, <2>1 DEF InitResponse
  <2> QED BY <1>7, <2>2 DEF HandleZ3950, d
<1>8. CASE Head(c.wire) = "SEARCH"
  <2>1. HeadIs(d, "SEARCH") BY <1>1, <1>3, <1>8 DEF HeadIs
  <2>2. a = "more" => ModeInv(NextPresent(NextChunk(d), w))
    <3> DEFINE f == NextChunk(d)
    <3> SUFFICES ASSUME a = "more" PROVE ModeInv(NextPresent(f, w)) OBVIOUS
    <3>1. Typed(f) /\ Answered(f) /\ HeadIs(f, "SEARCH") BY <1>1, <1>2, NextChunkModes
    <3> HIDE DEF f
    <3>2. MaySend(f) /\ f.tasks # <<>> /\ f.tasks[1].which = "SEARCH"
      BY <3>1, AnsweredModes DEF Answered, HeadIs
    <3>3. "SEARCH" \in Request BY DEF Request, Which
    <3>4. /\ Typed(SendRequest(f, "SEARCH", w)) /\ ModeInv(SendRequest(f, "SEARCH", w))
          /\ SendCompletes(f, "SEARCH", w) =>
               Base(SendRequest(f, "SEARCH", w)) /\ Idle(SendRequest(f, "SEARCH", w))
      BY <3>1, <3>2, <3>3, SendModes
    <3>5. SendCompletes(f, "SEARCH", w) => ModeInv(RemoveTask(SendRequest(f, "SEARCH", w)))
      BY <3>4, RemoveModes
    <3> QED BY <3>1, <3>2, <3>4, <3>5 DEF NextPresent, HeadIs
  <2>3. ModeInv(RemoveTask(PutEvent(d, "RECV_RECORD")))
    <3> DEFINE f == PutEvent(d, "RECV_RECORD")
    <3>1. Typed(f) /\ Same(f, d) BY <1>1, UpdateType, EventSame DEF Event
    <3> HIDE DEF f
    <3>2. Base(f) /\ Idle(f) BY <1>3, <3>1, SameModes
    <3>3. ModeInv(RemoveTask(f)) BY <3>1, <3>2, RemoveModes
    <3> QED BY <3>3 DEF f
  <2>4. ModeInv(SearchResponse(d, a, w)) BY <1>4, <2>1, <2>2, <2>3 DEF SearchResponse
  <2> QED BY <1>8, <2>4 DEF HandleZ3950, d
<1>9. CASE Head(c.wire) = "SORT"
  <2>1. HeadIs(d, "SORT") BY <1>1, <1>3, <1>9 DEF HeadIs
  <2>2. ModeInv(NextPresent(d, w)) BY <1>5, <2>1, <1>3 DEF NextPresent
  <2>3. ModeInv(NextPresent(RemoveTasks(SetError(d, "DIAG")), w))
    <3>1. SetError(d, "DIAG").tasks # <<>>
      BY <1>1, <1>3, SetErrorFields DEF Error
    <3>2. Typed([SetError(d, "DIAG") EXCEPT !.tasks = <<>>])
      <4>1. Typed(SetError(d, "DIAG")) BY <1>1, UpdateType DEF Error
      <4> QED BY <4>1, SeqTypes DEF Typed, Connection
    <3>3. RemoveTasks(SetError(d, "DIAG")).tasks = <<>>
      BY <3>1, <3>2 DEF RemoveTasks, PutEvent, Typed, Connection
    <3> QED BY <1>4, <3>3 DEF NextPresent
  <2>4. ModeInv(SortResponse(d, a, w)) BY <2>2, <2>3 DEF SortResponse
  <2> QED BY <1>9, <2>4 DEF HandleZ3950, d
<1>10. CASE Head(c.wire) = "SCAN"
  <2>1. ModeInv(ScanResponse(d, a)) BY <1>4, <1>5 DEF ScanResponse
  <2> QED BY <1>10, <2>1 DEF HandleZ3950, d
<1>11. CASE Head(c.wire) = "PACKAGE"
  <2>1. HeadIs(d, "PACKAGE") BY <1>1, <1>3, <1>11 DEF HeadIs
  <2>2. ModeInv(EsResponse(d, a)) BY <1>3, <1>4, <1>5, <2>1 DEF EsResponse
  <2> QED BY <1>11, <2>2 DEF HandleZ3950, d
<1>12. Head(c.wire) \in Which
  BY <1>1, <1>3 DEF Task
<1> QED BY <1>7, <1>8, <1>9, <1>10, <1>11, <1>12 DEF Which

\* The end of handle_http.
LEMMA FinishModes ==
  ASSUME NEW c, Typed(c), Base(c), c.location => c.error # "NONE",
         NEW complete \in BOOLEAN, NEW must_close \in BOOLEAN,
         complete => Idle(c), ~ complete => ModeInv(c)
  PROVE  ModeInv(FinishHttp(c, complete, must_close))
<1> DEFINE d == IF complete THEN RemoveTask(c) ELSE c
           e == Close(d)
           f == InsertConnect([Close(d) EXCEPT !.reconnect_ok = FALSE, !.tasks[1].running = FALSE])
<1>1. Typed(d) /\ ModeInv(d) /\ Base(d) /\ (d.location => d.error # "NONE")
  <2>1. CASE complete BY <2>1, RemoveModes, TaskType
  <2>2. CASE ~ complete BY <2>2
  <2> QED BY <2>1, <2>2
<1>2. FinishHttp(c, complete, must_close) =
        IF ~ must_close THEN [d EXCEPT !.reconnect_ok = TRUE]
        ELSE IF e.tasks = <<>> THEN e ELSE f
  BY DEF FinishHttp
<1> HIDE DEF d
<1>3. ModeInv([d EXCEPT !.reconnect_ok = TRUE])
  <2>1. Same([d EXCEPT !.reconnect_ok = TRUE], d)
    BY <1>1 DEF Same, Typed, Connection
  <2> QED BY <1>1, <2>1, SameModes
<1>4. e.tasks = d.tasks
  BY <1>1, CloseFields
<1>5. d.tasks = <<>> => ModeInv(e)
  BY <1>1, CloseModes DEF HeadRuns
<1>6. d.tasks # <<>> => ModeInv(f)
  BY <1>1, ReinsertModes
<1> QED BY <1>2, <1>3, <1>4, <1>5, <1>6

\* EndRedirect on an idle connection.
LEMMA EndRedirectModes ==
  ASSUME NEW c, Typed(c), Base(c), Idle(c), ~ c.location
  PROVE  LET d == EndRedirect(c) IN Typed(d) /\ Base(d) /\ Idle(d) /\ ~ d.location
<1> DEFINE f == IF c.no_redirects > 0 THEN Close(c) ELSE c
           d == [f EXCEPT !.no_redirects = 0]
<1>1. Typed(f) /\ Base(f) /\ Idle(f) /\ ~ f.location
  <2>1. Typed(Close(c)) BY UpdateType
  <2>2. Base(Close(c)) /\ Idle(Close(c)) /\ ~ Close(c).location
    BY CloseFields DEF Base, Idle
  <2> QED BY <2>1, <2>2
<1> HIDE DEF f
<1>2. /\ Typed(d) /\ d.no_redirects = 0
      /\ d.proto = f.proto /\ d.cs = f.cs /\ d.mask = f.mask /\ d.error = f.error
      /\ d.tasks = f.tasks /\ d.location = f.location /\ d.buf_out = f.buf_out
      /\ d.wire = f.wire /\ d.fault = f.fault
  BY <1>1 DEF Typed, Connection
<1>3. d = EndRedirect(c)
  BY DEF EndRedirect, f
<1> HIDE DEF d
<1>4. Base(d) /\ Idle(d) /\ ~ d.location
  BY <1>1, <1>2 DEF Base, Idle
<1> QED BY <1>2, <1>3, <1>4

\* handle_http and ZOOM_handle_sru.
LEMMA HandleHttpModes ==
  ASSUME Discipline,
         NEW c, Typed(c), Base(c), Listening(c), c.cs = "data", c.wire # <<>>,
         c.proto = "HTTP", NEW a \in Answer \ {"accept", "refuse", "refusediag"},
         MoreFits(c, a), a = "redirect" => Redirects,
         NEW must_close \in BOOLEAN, NEW w \in PutResult, NEW k \in Connects
  PROVE  ModeInv(HandleHttp(c, a, must_close, w, k))
<1> DEFINE d == TakeResponse(c)
<1>1. Typed(d) /\ Answered(d) /\ d.tasks = c.tasks /\ d.proto = "HTTP"
  BY TakeResponseModes
<1>2. MoreFits(d, a)
  BY <1>1 DEF MoreFits, HeadIs
<1> HIDE DEF d
<1>3. Base(d) /\ Idle(d) /\ HeadRuns(d) /\ ~ d.location /\ d.error = "NONE"
  BY <1>1, AnsweredModes
<1>4. ASSUME NEW e \in {"DIAG", "DECODE"}
      PROVE  ModeInv(FinishHttp(Close([d EXCEPT !.error = e, !.no_redirects = 0]), TRUE, must_close))
  <2> DEFINE f == [d EXCEPT !.error = e, !.no_redirects = 0]
  <2>0. e \in Error /\ e # "NONE" BY DEF Error, Kept
  <2>1. /\ Typed(f) /\ f.error = e /\ f.no_redirects = 0
        /\ f.proto = d.proto /\ f.cs = d.cs /\ f.tasks = d.tasks /\ f.location = d.location
        /\ f.buf_out = d.buf_out /\ f.fault = d.fault
    BY <1>1, <2>0 DEF Typed, Connection
  <2> HIDE DEF f
  <2>2. Base(f) BY <1>3, <2>1 DEF Base
  <2> DEFINE g == Close(f)
  <2>3. Typed(g) BY <2>1, UpdateType
  <2>4. Base(g) /\ Idle(g) /\ g.error # "NONE" BY <2>0, <2>1, <2>2, CloseModes
  <2> HIDE DEF g
  <2>5. ModeInv(FinishHttp(g, TRUE, must_close)) BY <2>3, <2>4, FinishModes
  <2> QED BY <2>5 DEF f, g
<1>5. CASE a = "redirect"
  <2> DEFINE f == FollowRedirect(d)
  <2>1. d.no_redirects \in Nat /\ d.no_redirects + 1 \in Nat BY <1>1 DEF Typed, Connection
  <2>2. /\ Typed(f) /\ f.location /\ f.no_redirects = d.no_redirects + 1
        /\ f.proto = d.proto /\ f.cs = d.cs /\ f.mask = d.mask /\ f.error = d.error
        /\ f.tasks = d.tasks /\ f.buf_out = d.buf_out /\ f.wire = d.wire /\ f.fault = d.fault
    BY <1>1, <2>1 DEF FollowRedirect, Typed, Connection
  <2> HIDE DEF f
  <2>3. Redirects BY <1>5
  <2>4. Base(f) /\ HeadRuns(f) /\ f.mask = {} /\ f.error = "NONE"
    BY <1>1, <1>3, <2>2, <2>3 DEF Base, HeadRuns, Answered
  <2>5. f.tasks[1].which # "CONNECT"
    BY <1>1, <2>2 DEF Answered, MaySend
  <2>6. ModeInv(DoConnectHost(f, w, k))
    BY <2>2, <2>4, <2>5, DoConnectHostModes
  <2> QED BY <1>4, <1>5, <2>6 DEF HandleHttp, d, f
<1>6. CASE a = "more"
  <2> DEFINE f == NextChunk(d)
             x == SendRequest(f, "SEARCH", w)
             y == EndRedirect(x)
  <2>1. Typed(f) /\ Answered(f) /\ HeadIs(f, "SEARCH") /\ MaxRounds # 0
    BY <1>1, <1>2, <1>6, NextChunkModes
  <2>2. ~ Redirects BY <2>1 DEF Discipline
  <2> HIDE DEF f
  <2>3. MaySend(f) /\ f.tasks[1].which = "SEARCH" /\ "SEARCH" \in Request
    BY <2>1, AnsweredModes DEF Answered, HeadIs, Request, Which
  <2>4. /\ Typed(x) /\ ModeInv(x)
        /\ SendCompletes(f, "SEARCH", w) => Base(x) /\ Idle(x)
    BY <2>1, <2>3, SendModes
  <2> HIDE DEF x
  <2>5. x.no_redirects \in Nat /\ ~ (x.no_redirects > 0) /\ ~ x.location /\ Base(x)
    BY <2>2, <2>4 DEF ModeInv, Base, Typed, Connection
  <2>6. y = [x EXCEPT !.no_redirects = 0] BY <2>5 DEF EndRedirect
  <2>7. Typed(y) /\ Same(y, x)
    <3>1. x.no_redirects = 0 BY <2>5
    <3> QED BY <2>4, <2>6, <3>1 DEF Same, Typed, Connection
  <2> HIDE DEF y
  <2>8. Base(y) /\ ModeInv(y) /\ ~ y.location /\ (SendCompletes(f, "SEARCH", w) => Idle(y))
    BY <2>4, <2>5, <2>7, SameModes DEF Same
  <2>9. SendCompletes(f, "SEARCH", w) \in BOOLEAN BY DEF SendCompletes
  <2>10. ModeInv(FinishHttp(y, SendCompletes(f, "SEARCH", w), must_close))
    BY <2>7, <2>8, <2>9, FinishModes
  <2> QED BY <1>6, <2>10 DEF HandleHttp, d, f, x, y
<1>7. CASE a \in {"done", "diag"}
  <2>1. ASSUME NEW f, Typed(f), Base(f), Idle(f), ~ f.location
        PROVE  ModeInv(FinishHttp(EndRedirect(f), TRUE, must_close))
    <3> DEFINE g == EndRedirect(f)
    <3>1. Typed(g) /\ Base(g) /\ Idle(g) /\ ~ g.location BY <2>1, EndRedirectModes
    <3> HIDE DEF g
    <3>2. ModeInv(FinishHttp(g, TRUE, must_close)) BY <3>1, FinishModes
    <3> QED BY <3>2 DEF g
  <2>2. LET f == PutEvent(d, "RECV_RECORD") IN Typed(f) /\ Base(f) /\ Idle(f) /\ ~ f.location
    <3> DEFINE f == PutEvent(d, "RECV_RECORD")
    <3>1. Typed(f) /\ Same(f, d) BY <1>1, UpdateType, EventSame DEF Event
    <3> QED BY <1>3, <3>1, SameModes DEF Same
  <2>3. LET f == SetError(d, "DIAG") IN Typed(f) /\ Base(f) /\ Idle(f) /\ ~ f.location
    <3>1. "DIAG" \in Error \ {"NONE"} BY DEF Error
    <3> QED BY <1>1, <1>3, <3>1, AnsweredError
  <2>4. /\ ModeInv(FinishHttp(EndRedirect(PutEvent(d, "RECV_RECORD")), TRUE, must_close))
        /\ ModeInv(FinishHttp(EndRedirect(SetError(d, "DIAG")), TRUE, must_close))
    BY <2>1, <2>2, <2>3
  <2> QED BY <1>7, <2>4 DEF HandleHttp, d
<1>8. CASE a \in {"badstatus", "badbody"}
  <2> DEFINE e == IF a = "badbody" THEN "DECODE" ELSE "DIAG"
  <2>1. ModeInv(FinishHttp(Close([d EXCEPT !.error = e, !.no_redirects = 0]), TRUE, must_close))
    BY <1>4
  <2> QED BY <1>8, <2>1 DEF HandleHttp, d
<1> QED BY <1>5, <1>6, <1>7, <1>8 DEF Answer

(***************************************************************************)
(* Reading, and the socket handler                                         *)
(***************************************************************************)
\* do_read.  Only a response can leave the connection open and changed.
LEMMA DoReadModes ==
  ASSUME Discipline,
         NEW c, Typed(c), Base(c), Listening(c), c.cs = "data",
         NEW r \in Arrival, NEW a \in Answer, ResponseFits(c, r, a),
         a = "redirect" => Redirects,
         NEW must_close \in BOOLEAN, NEW w \in PutResult, NEW k \in Connects
  PROVE  LET f == DoRead(c, r, a, must_close, w, k) IN
         /\ ModeInv(f)
         /\ r # "response" => f.cs = "none" \/ Same(f, c)
<1> DEFINE d == PutEvent(c, "RECV_DATA")
           e == PutEvent(d, "RECV_APDU")
           f == DoRead(c, r, a, must_close, w, k)
<1>1. Typed(d) /\ Same(d, c)
  BY UpdateType, EventSame DEF Event
<1>2. Typed(e) /\ Same(e, d)
  <2> HIDE DEF d
  <2> QED BY <1>1, UpdateType, EventSame DEF Event
<1>3. f = CASE r = "incomplete" -> [d EXCEPT !.pieces = @ + 1]
            [] r = "error"      -> Close(SetError(d, "DECODE"))
            [] r = "eof"        -> Lose(d, "CONNECTION_LOST")
            [] r = "garbled"    -> Lose(e, "DECODE")
            [] r = "closeapdu"  -> Lose([e EXCEPT !.mask = {}], "CONNECTION_LOST")
            [] r = "response"   -> IF c.proto = "Z3950" THEN HandleZ3950(e, a, w, k)
                                   ELSE HandleHttp(e, a, must_close, w, k)
  BY DEF DoRead
<1> HIDE DEF d, e, f
<1>4. /\ Base(d) /\ Listening(d) /\ d.cs = "data" /\ ~ d.location /\ d.tasks # <<>>
      /\ Base(e) /\ Listening(e) /\ e.cs = "data" /\ ~ e.location /\ e.tasks # <<>>
      /\ Same(e, c)
  <2>1. ~ c.location /\ c.tasks # <<>>
    BY DEF Listening, ListensToConnect, ListensToData, HeadRuns
  <2>2. Same(e, c) BY <1>1, <1>2 DEF Same
  <2> QED BY <1>1, <2>1, <2>2, SameModes DEF Same
<1>5. "CONNECTION_LOST" \in Error \ {"NONE"} /\ "DECODE" \in Error \ {"NONE"}
  BY DEF Error, Kept
<1>6. CASE r = "incomplete"
  <2>1. f = [d EXCEPT !.pieces = d.pieces + 1] BY <1>3, <1>6
  <2>2. Same(f, d) BY <1>1, <2>1 DEF Same, Typed, Connection
  <2>3. Same(f, c) BY <1>1, <2>2 DEF Same
  <2>4. ModeInv(c) BY DEF ModeInv
  <2> QED BY <2>3, <2>4, SameModes DEF f
<1>7. CASE r = "error"
  <2> DEFINE g == SetError(d, "DECODE")
  <2>1. Typed(g) /\ Base(g) /\ g.error # "NONE"
    BY <1>1, <1>4, <1>5, UpdateType, SetErrorFields, ZenonT(60) DEF Base
  <2>2. f = Close(g) BY <1>3, <1>7
  <2> HIDE DEF g
  <2>3. ModeInv(Close(g)) /\ Close(g).cs = "none" BY <2>1, CloseModes, CloseFields
  <2> QED BY <2>2, <2>3 DEF f
<1>8. CASE r = "eof"
  <2>1. ModeInv(f) /\ f.cs = "none" BY <1>1, <1>3, <1>4, <1>5, <1>8, LoseModes
  <2> QED BY <2>1 DEF f
<1>9. CASE r = "garbled"
  <2>1. ModeInv(f) /\ f.cs = "none" BY <1>2, <1>3, <1>4, <1>5, <1>9, LoseModes
  <2> QED BY <2>1 DEF f
<1>10. CASE r = "closeapdu"
  <2> DEFINE g == [e EXCEPT !.mask = {}]
  <2>1. /\ Typed(g) /\ g.proto = e.proto /\ g.cs = e.cs /\ g.tasks = e.tasks
        /\ g.location = e.location /\ g.no_redirects = e.no_redirects
        /\ g.buf_out = e.buf_out /\ g.fault = e.fault
    BY <1>2 DEF Typed, Connection
  <2>2. f = Lose(g, "CONNECTION_LOST") BY <1>3, <1>10
  <2> HIDE DEF g
  <2>3. Base(g) /\ ~ g.location /\ g.tasks # <<>> BY <1>4, <2>1 DEF Base
  <2>4. ModeInv(f) /\ f.cs = "none" BY <1>5, <2>1, <2>2, <2>3, LoseModes
  <2> QED BY <2>4 DEF f
<1>11. CASE r = "response"
  <2>1. e.wire # <<>> /\ MoreFits(e, a) /\ e.proto = c.proto
    BY <1>4, <1>11 DEF ResponseFits, MoreFits, HeadIs, Same
  <2>2. c.proto = "Z3950" => ModeInv(HandleZ3950(e, a, w, k))
    BY <1>2, <1>4, <2>1, HandleZ3950Modes
  <2>3. c.proto # "Z3950" => ModeInv(HandleHttp(e, a, must_close, w, k))
    <3>1. c.proto # "Z3950" => c.proto = "HTTP" BY DEF Typed, Connection
    <3> QED BY <1>2, <1>4, <1>11, <2>1, <3>1, HandleHttpModes DEF ResponseFits
  <2>4. ModeInv(f) BY <1>3, <1>11, <2>2, <2>3
  <2> QED BY <1>11, <2>4 DEF f
<1> QED BY <1>6, <1>7, <1>8, <1>9, <1>10, <1>11 DEF Arrival

\* ZOOM_connection_do_io while the connection listens.
LEMMA DoIOModes ==
  ASSUME Discipline,
         NEW c, Typed(c), Base(c), Listening(c), NEW m \in SUBSET c.mask,
         NEW r, NEW a \in Answer, IOFits(c, r, a), a = "redirect" => Redirects,
         NEW must_close \in BOOLEAN, NEW w \in PutResult, NEW k \in Connects
  PROVE  ModeInv(DoIO(c, m, r, a, must_close, w, k))
<1>0. c.cs \in {"connecting", "data"} /\ c.tasks # <<>>
  BY DEF Listening, ListensToConnect, ListensToData, HeadRuns
<1>1. CASE c.cs = "connecting"
  BY <1>1, RcvConnectModes DEF DoIO, IOFits
<1>2. CASE c.cs = "data"
  <2> DEFINE d == IF "READ" \in m THEN DoRead(c, r, a, must_close, w, k) ELSE c
  <2>0. /\ ~ c.location /\ HeadRuns(c) /\ c.error = "NONE"
        /\ c.buf_out \in {c.tasks[1].which, "REDIRECT"}
        /\ c.proto = "HTTP" => c.tasks[1].which # "CONNECT"
        /\ "WRITE" \in m => c.wire = <<>>
        /\ r \in Arrival /\ ResponseFits(c, r, a)
    BY <1>2 DEF Listening, ListensToConnect, ListensToData, IOFits
  <2>1. "CONNECTION_LOST" \in Error \ {"NONE"} BY DEF Error, Kept
  <2>2. ModeInv(Lose(c, "CONNECTION_LOST")) BY <1>0, <2>0, <2>1, LoseModes
  <2>3. /\ ModeInv(d) /\ Typed(d)
        /\ r # "response" => d.cs = "none" \/ Same(d, c)
    <3>1. ModeInv(c) BY DEF ModeInv
    <3>2. Same(c, c) BY DEF Same
    <3>3. Typed(DoRead(c, r, a, must_close, w, k)) BY <2>0, EventLoopFits, DoReadType
    <3> QED BY <1>2, <2>0, <3>1, <3>2, <3>3, DoReadModes
  <2>4. DoIO(c, m, r, a, must_close, w, k) =
          IF "EXCEPT" \in m THEN Lose(c, "CONNECTION_LOST")
          ELSE IF d.cs # "none" /\ "WRITE" \in m THEN SendBuf(d, w) ELSE d
    BY <1>2 DEF DoIO
  <2> HIDE DEF d
  <2>5. ASSUME "WRITE" \in m, d.cs # "none" PROVE ModeInv(SendBuf(d, w))
    <3>1. r # "response" BY <2>0, <2>5 DEF ResponseFits
    <3>2. Same(d, c) BY <2>3, <2>5, <3>1
    <3>3. MaySend(d) /\ d.buf_out \in {d.tasks[1].which, "REDIRECT"}
      BY <1>2, <2>0, <2>5, <3>2, SameModes DEF MaySend, Same
    <3> QED BY <2>3, <3>3, SendBufModes
  <2> QED BY <2>2, <2>3, <2>4, <2>5
<1> QED BY <1>0, <1>1, <1>2

(***************************************************************************)
(* The application and the event loop                                      *)
(***************************************************************************)
\* clear_error forgets nothing that the mode depends on.
MayQueue(c) ==
  /\ Typed(c)
  /\ ModeInv(c)
  /\ c.error = "NONE" \/ (~ HeadRuns(c) /\ ~ c.location)

LEMMA AddTaskModes ==
  ASSUME NEW c, MayQueue(c),
         NEW t \in Task, ~ t.running, MaxRounds = 0 => t.rounds = 0
  PROVE  MayQueue(AddTask(c, t))
<1> DEFINE s == Append(c.tasks, t)
           f == [c EXCEPT !.tasks = s]
           g == RemoveEvents(f)
           d == AddTask(c, t)
<1>0. Typed(c) /\ Base(c) /\ c.tasks \in Seq(Task)
  BY DEF MayQueue, ModeInv, Typed, Connection
<1>1. /\ s # <<>> /\ RestWaits(s) /\ RoundsFit(s) /\ s \in Seq(Task)
      /\ s[1] = IF c.tasks = <<>> THEN t ELSE c.tasks[1]
  BY <1>0, QueueAppend, SeqTypes DEF Base
<1>2. Typed(d)
  BY <1>0, TaskType
<1>3. d = [g EXCEPT !.error = IF @ \in Kept THEN @ ELSE "NONE"]
  BY DEF AddTask, ClearError
<1> HIDE DEF s
<1>4. /\ Typed(f) /\ f.tasks = s
      /\ f.proto = c.proto /\ f.cs = c.cs /\ f.mask = c.mask /\ f.error = c.error
      /\ f.location = c.location /\ f.no_redirects = c.no_redirects
      /\ f.buf_out = c.buf_out /\ f.towrite = c.towrite /\ f.wire = c.wire
      /\ f.fault = c.fault
  BY <1>0, <1>1 DEF Typed, Connection
<1> HIDE DEF f
<1>5. Typed(g) /\ Same(g, f)
  BY <1>4, UpdateType, EventSame
<1> HIDE DEF g
<1>6. /\ d.error = IF g.error \in Kept THEN g.error ELSE "NONE"
      /\ d.tasks = g.tasks
      /\ d.proto = g.proto /\ d.cs = g.cs /\ d.mask = g.mask
      /\ d.location = g.location /\ d.no_redirects = g.no_redirects
      /\ d.buf_out = g.buf_out /\ d.towrite = g.towrite /\ d.wire = g.wire
      /\ d.fault = g.fault
  BY <1>3, <1>5 DEF Typed, Connection
<1> HIDE DEF d
<1>7. /\ d.error = IF c.error \in Kept THEN c.error ELSE "NONE"
      /\ d.tasks = s
      /\ d.proto = c.proto /\ d.cs = c.cs /\ d.mask = c.mask
      /\ d.location = c.location /\ d.no_redirects = c.no_redirects
      /\ d.buf_out = c.buf_out /\ d.towrite = c.towrite /\ d.wire = c.wire
      /\ d.fault = c.fault
  BY <1>4, <1>5, <1>6 DEF Same
<1>8. Base(d)
  BY <1>0, <1>1, <1>7 DEF Base
<1>9. HeadRuns(d) = HeadRuns(c)
  <2>1. t.running \in BOOLEAN BY DEF Task
  <2> QED BY <1>1, <1>7, <2>1 DEF HeadRuns
<1>10. "NONE" \notin Kept
  BY DEF Kept
<1>11. d.error = "NONE" \/ (~ HeadRuns(d) /\ ~ d.location)
  BY <1>7, <1>9, <1>10 DEF MayQueue
<1>12. ModeInv(d)
  <2>1. CASE Idle(c) /\ (HeadRuns(c) => c.error # "NONE")
    <3>1. Idle(d) /\ ~ HeadRuns(d)
      BY <1>7, <1>9, <2>1 DEF Idle, MayQueue
    <3> QED BY <1>8, <3>1 DEF ModeInv
  <2>2. CASE Listening(c)
    <3>1. s[1] = c.tasks[1] BY <1>1, <2>2 DEF Listening, HeadRuns
    <3>2. d.error = "NONE" BY <1>7, <1>10, <2>2 DEF Listening
    <3>3. Listening(d)
      BY <1>7, <1>9, <2>2, <3>1, <3>2 DEF Listening, ListensToConnect, ListensToData
    <3> QED BY <1>8, <3>3 DEF ModeInv
  <2> QED BY <2>1, <2>2 DEF MayQueue, ModeInv
<1> QED BY <1>2, <1>11, <1>12 DEF MayQueue, d

\* What the application may rely on when it calls.
LEMMA CallModes ==
  ASSUME Discipline, Typed(conn), ModeInv(conn), Call
  PROVE  ~ conn.location \/ Listening(conn)
<1>1. conn.location => Redirects
  BY DEF ModeInv, Base
<1>2. conn.location => conn.cs = "connecting"
  BY <1>1 DEF Call, Discipline
<1> QED BY <1>2 DEF ModeInv, Idle

\* The calls that queue a task keep the modes.
LEMMA QueueModes ==
  ASSUME Discipline, Typed(conn), ModeInv(conn),
         \/ \E need \in Need, rounds \in 0 .. MaxRounds : Search(need, rounds)
         \/ \E need \in Need : Sort(need)
         \/ \E need \in Need : Scan(need)
         \/ PackageSend
  PROVE  ModeInv(conn')
<1>1. QueueCall
  BY DEF Search, Sort, Scan, PackageSend
<1>2. MayQueue(conn)
  <2>1. ~ conn.location \/ Listening(conn) BY <1>1, CallModes DEF QueueCall
  <2>2. conn.error = "NONE" \/ conn.tasks = <<>> BY <1>1 DEF QueueCall, Discipline
  <2> QED BY <2>1, <2>2 DEF MayQueue, Listening, HeadRuns
<1>3. ASSUME NEW which \in Which, NEW need \in Need, NEW rounds \in 0 .. MaxRounds,
             NEW c, MayQueue(c)
      PROVE  MayQueue(AddTask(c, NewTask(which, need, rounds)))
  <2> DEFINE t == NewTask(which, need, rounds)
  <2>1. rounds \in Nat /\ (MaxRounds = 0 => rounds = 0) BY BoundAssumption
  <2>2. t \in Task BY <2>1, NewTaskType
  <2>3. ~ t.running /\ t.rounds = rounds BY DEF NewTask
  <2> HIDE DEF t
  <2>4. MayQueue(AddTask(c, t)) BY <1>3, <2>1, <2>2, <2>3, AddTaskModes
  <2> QED BY <2>4 DEF t
<1>4. 0 \in 0 .. MaxRounds /\ "request" \in Need
      /\ "CONNECT" \in Which /\ "SEARCH" \in Which /\ "SORT" \in Which
      /\ "SCAN" \in Which /\ "PACKAGE" \in Which
  BY BoundAssumption DEF Need, Which
<1>5. MayQueue(PrepareHttp(conn))
  <2>1. MayQueue(AddTask(conn, NewTask("CONNECT", "request", 0))) BY <1>2, <1>3, <1>4
  <2>2. MayQueue([conn EXCEPT !.reconnect_ok = TRUE])
    <3> DEFINE d == [conn EXCEPT !.reconnect_ok = TRUE]
    <3>1. Typed(d) /\ Same(d, conn) BY DEF Same, Typed, Connection
    <3> HIDE DEF d
    <3>2. MayQueue(d) BY <1>2, <3>1, SameModes DEF MayQueue, Same
    <3> QED BY <3>2 DEF d
  <2> QED BY <1>2, <2>1, <2>2 DEF PrepareHttp
<1>6. CASE \E need \in Need, rounds \in 0 .. MaxRounds : Search(need, rounds)
  BY <1>3, <1>4, <1>5, <1>6 DEF Search, MayQueue
<1>7. CASE \E need \in Need : Sort(need)
  BY <1>3, <1>4, <1>5, <1>7 DEF Sort, MayQueue
<1>8. CASE \E need \in Need : Scan(need)
  BY <1>2, <1>3, <1>4, <1>8 DEF Scan, MayQueue
<1>9. CASE PackageSend
  BY <1>2, <1>3, <1>4, <1>9 DEF PackageSend, MayQueue
<1> QED BY <1>6, <1>7, <1>8, <1>9

\* ZOOM_connection_connect keeps the modes.
LEMMA ConnectModes ==
  ASSUME Discipline, Typed(conn), ModeInv(conn),
         NEW o \in {"ok", "badsru", "badlog", "badcache"}, Connect(o)
  PROVE  ModeInv(conn')
<1> DEFINE b == SetError(conn, "NONE")
           c == RemoveTasks(b)
           t == NewTask("CONNECT", "request", 0)
<1>0. Call /\ (conn.tasks = <<>> \/ conn.cs = "none")
  BY DEF Connect, Discipline
<1>1. Idle(conn) /\ Base(conn) /\ ~ Listening(conn)
  BY <1>0 DEF ModeInv, Listening, HeadRuns, ListensToConnect, ListensToData
<1>2. ~ conn.location
  BY <1>0, <1>1, CallModes
<1>3. "NONE" \in Error
  BY DEF Error
<1>4. Typed(b) /\ Base(b) /\ Idle(b) /\ b.error = "NONE" /\ ~ b.location
  BY <1>1, <1>2, <1>3, UpdateType, SetErrorFields DEF Base, Idle
<1> HIDE DEF b
<1>5. /\ Typed(c) /\ Base(c) /\ Idle(c) /\ ~ HeadRuns(c) /\ ModeInv(c)
      /\ c.error = "NONE" /\ ~ c.location
  BY <1>4, RemoveModes, TaskType
<1>6. conn' = IF c.cs # "none" THEN [c EXCEPT !.reconnect_ok = TRUE]
              ELSE CASE o = "ok" -> AddTask(c, t)
                     [] o = "badsru" -> SetError(c, "UNSUPPORTED_PROTOCOL")
                     [] o = "badlog" -> SetError(c, "INTERNAL")
                     [] o = "badcache" -> SetError(c, "DIAG")
  BY DEF Connect, b
<1> HIDE DEF c
<1>7. ModeInv([c EXCEPT !.reconnect_ok = TRUE])
  <2>1. Same([c EXCEPT !.reconnect_ok = TRUE], c) BY <1>5 DEF Same, Typed, Connection
  <2> QED BY <1>5, <2>1, SameModes
<1>8. ModeInv(AddTask(c, t))
  <2>1. t \in Task /\ ~ t.running /\ t.rounds = 0
    BY NewTaskType DEF NewTask, Which, Need
  <2> HIDE DEF t
  <2> QED BY <1>5, <2>1, AddTaskModes DEF MayQueue
<1>9. ASSUME NEW e \in {"UNSUPPORTED_PROTOCOL", "INTERNAL", "DIAG"}
      PROVE  ModeInv(SetError(c, e))
  <2>1. e \in Error /\ e # "NONE" BY DEF Error, Kept
  <2>2. Base(SetError(c, e)) /\ Idle(SetError(c, e)) /\ SetError(c, e).error = e
    BY <1>5, <2>1, SetErrorFields DEF Base, Idle
  <2> QED BY <2>1, <2>2 DEF ModeInv
<1> QED BY <1>6, <1>7, <1>8, <1>9

\* The steps of the event loop keep the modes.
LEMMA LoopModes ==
  ASSUME Discipline, Typed(conn), ModeInv(conn), Process \/ FireSocket \/ FireTimeout
  PROVE  ModeInv(conn')
<1>1. CASE Process
  <2>1. CASE conn.events # <<>>
    BY <1>1, <2>1, EventSame, SameModes DEF Process
  <2>2. CASE conn.events = <<>>
    <3>1. PICK w \in Puts, k \in Connects : conn' = GetEvent(ExecTask(conn, w, k))
      BY <1>1, <2>2 DEF Process
    <3>2. Idle(conn)
      <4>1. conn.tasks # <<>> /\ (conn.error # "NONE" \/ ~ Head(conn.tasks).running)
        BY <1>1, <2>2 DEF Process
      <4>2. Head(conn.tasks) = conn.tasks[1] BY <4>1, SeqTypes DEF Typed, Connection
      <4> QED BY <4>1, <4>2 DEF ModeInv, Listening, HeadRuns
    <3>3. w \in PutResult /\ k \in ConnectResult BY EventLoopFits
    <3>4. Typed(ExecTask(conn, w, k)) /\ ModeInv(ExecTask(conn, w, k))
      BY <3>2, <3>3, ExecTaskType, ExecTaskModes
    <3> QED BY <3>1, <3>4, EventSame, SameModes
  <2> QED BY <2>1, <2>2
<1>2. conn.mask # {} => Base(conn) /\ Listening(conn)
  BY DEF ModeInv, Idle
<1>3. CASE FireSocket
  <2>1. PICK m \in SUBSET conn.mask \ {{}}, r \in Arrivals, a \in Answers,
             must_close \in BOOLEAN, w \in Puts, k \in Connects :
               conn' = DoIO(conn, m, r, a, must_close, w, k)
    BY <1>3 DEF FireSocket
  <2>2. IOFits(conn, r, a) /\ a \in Answer /\ w \in PutResult
    BY EventLoopFits
  <2>3. a = "redirect" => Redirects
    BY DEF Answers
  <2>4. Base(conn) /\ Listening(conn)
    BY <1>2, <1>3 DEF FireSocket, Waits
  <2>5. m \in SUBSET conn.mask
    BY <2>1
  <2> QED BY <2>1, <2>2, <2>3, <2>4, <2>5, DoIOModes
<1>4. CASE FireTimeout
  <2> DEFINE d == SetError(conn, "TIMEOUT")
  <2>0. "TIMEOUT" \in Error /\ Base(conn) /\ Listening(conn)
    BY <1>2, <1>4 DEF FireTimeout, Waits, Error
  <2>1. Typed(d) /\ Base(d) /\ d.error # "NONE"
    BY <2>0, UpdateType, SetErrorFields DEF Base
  <2>2. conn' = PutEvent(Close(d), "TIMEOUT") BY <1>4 DEF FireTimeout
  <2> HIDE DEF d
  <2>3. Typed(Close(d)) /\ ModeInv(Close(d)) BY <2>1, CloseModes, UpdateType
  <2>4. Same(PutEvent(Close(d), "TIMEOUT"), Close(d)) BY <2>3, EventSame DEF Event
  <2> QED BY <2>2, <2>3, <2>4, SameModes
<1> QED BY <1>1, <1>3, <1>4

\* IdleOrListening is inductive: however many tasks an application that keeps
\* to Discipline queues, and whatever the network and the server do, the
\* connection listens exactly while its first task runs and no error is set,
\* for the answer to that task's own request.
THEOREM ModesHold == ASSUME Discipline PROVE Spec => []IdleOrListening
<1>1. Init => ModeInv(conn)
  BY EmptySeq DEF Init, ModeInv, Base, Idle, HeadRuns, RestWaits, RoundsFit
<1>2. Typed(conn) /\ ModeInv(conn) /\ [Next]_vars => ModeInv(conn)'
  <2> SUFFICES ASSUME Typed(conn), ModeInv(conn), [Next]_vars PROVE ModeInv(conn')
    BY DEF ModeInv, Base, Idle, HeadRuns, Listening, ListensToConnect, ListensToData,
           RestWaits, RoundsFit
  <2>1. CASE Next BY <2>1, ConnectModes, QueueModes, LoopModes DEF Next
  <2>2. CASE UNCHANGED vars BY <2>2 DEF vars
  <2> QED BY <2>1, <2>2
<1> QED BY <1>1, <1>2, TypedAlways, PTL DEF Spec, IdleOrListening

(***************************************************************************)
(* What follows from the modes                                             *)
(***************************************************************************)
\* No assert of the response handlers fails and no handler dereferences a
\* NULL c->tasks.
THEOREM NoFaultHolds == ASSUME Discipline PROVE Spec => []NoFault
<1>1. IdleOrListening => NoFault
  BY DEF IdleOrListening, ModeInv, Base, NoFault
<1> QED BY <1>1, ModesHold, PTL

\* Only the first task of the queue runs.
THEOREM OnlyHeadRunsHolds == ASSUME Discipline PROVE Spec => []OnlyHeadRuns
<1>1. IdleOrListening => OnlyHeadRuns
  BY DEF IdleOrListening, ModeInv, Base, RestWaits, OnlyHeadRuns
<1> QED BY <1>1, ModesHold, PTL

\* The next response on the socket answers the request of the first task.
THEOREM AnswerBelongsToHeadHolds == ASSUME Discipline PROVE Spec => []AnswerBelongsToHead
<1>1. TypeOK /\ IdleOrListening => AnswerBelongsToHead
  <2> SUFFICES ASSUME TypeOK, IdleOrListening, conn.wire # <<>>
               PROVE  /\ Len(conn.wire) = 1 /\ conn.cs = "data" /\ conn.tasks # <<>>
                      /\ Head(conn.tasks).running
                      /\ conn.wire[1] \in {Head(conn.tasks).which, "REDIRECT"}
    BY DEF AnswerBelongsToHead
  <2>1. Listening(conn) /\ ListensToData(conn)
    BY DEF IdleOrListening, ModeInv, Idle, Listening, ListensToConnect
  <2>2. conn.wire = <<conn.buf_out>>
    BY <2>1 DEF ListensToData
  <2>3. conn.tasks # <<>> /\ conn.tasks \in Seq(Task) /\ conn.tasks[1].running
    BY <2>1 DEF Listening, HeadRuns, TypeOK, Connection
  <2>4. Head(conn.tasks) = conn.tasks[1]
    BY <2>3, SeqTypes
  <2> QED BY <2>1, <2>2, <2>3, <2>4 DEF ListensToData
<1> QED BY <1>1, ModesHold, TypeCorrect, PTL

\* When ZOOM_event returns 0, no task is left running without anybody
\* waiting for its answer.
THEOREM ZeroMeansDoneHolds == ASSUME Discipline PROVE Spec => []ZeroMeansDone
<1>1. TypeOK /\ IdleOrListening => ZeroMeansDone
  <2> SUFFICES ASSUME TypeOK, IdleOrListening, conn.error = "NONE", ~ Waits, conn.tasks # <<>>
               PROVE  ~ Head(conn.tasks).running
    BY DEF ZeroMeansDone
  <2>1. ~ Listening(conn)
    BY DEF Waits, Listening, ListensToConnect, ListensToData
  <2>2. ~ HeadRuns(conn)
    BY <2>1 DEF IdleOrListening, ModeInv
  <2>3. Head(conn.tasks) = conn.tasks[1]
    BY SeqTypes DEF TypeOK, Connection
  <2> QED BY <2>2, <2>3 DEF HeadRuns
<1> QED BY <1>1, ModesHold, TypeCorrect, PTL

\* An error that the switch of clear_error keeps is only replaced by a call of
\* ZOOM_connection_connect: nothing that the event loop does, and no queued
\* task, hides it from the application.  (INITDIAG, the refused Init with a
\* diagnostic, is not one of them, whatever the comment of clear_error says.)
THEOREM KeptErrorPersistsHolds == ASSUME Discipline PROVE Spec => KeptErrorPersists
<1> DEFINE connects == \E o \in {"ok", "badsru", "badlog", "badcache"} : Connect(o)
           kept == [Persists(Kept)]_vars
<1>1. Typed(conn) /\ IdleOrListening /\ [Next]_vars => kept
  <2> SUFFICES ASSUME Typed(conn), IdleOrListening, Next, conn.error \in Kept, ~ connects
               PROVE  conn'.error = conn.error
    BY DEF vars, Persists
  <2>0. conn.error # "NONE"
    BY DEF Kept
  <2>1. ~ Waits
    BY <2>0 DEF IdleOrListening, ModeInv, Idle, Listening, Waits
  <2>2. ASSUME NEW c, Typed(c), c.error = conn.error, NEW t \in Task
        PROVE  Typed(AddTask(c, t)) /\ AddTask(c, t).error = conn.error
    <3> DEFINE f == [c EXCEPT !.tasks = Append(c.tasks, t)]
               g == RemoveEvents(f)
    <3>1. Append(c.tasks, t) \in Seq(Task) BY <2>2, SeqTypes DEF Typed, Connection
    <3>2. Typed(f) /\ f.error = conn.error BY <2>2, <3>1 DEF Typed, Connection
    <3>3. AddTask(c, t) = [g EXCEPT !.error = IF @ \in Kept THEN @ ELSE "NONE"]
      BY DEF AddTask, ClearError
    <3> HIDE DEF f
    <3>4. Typed(g) /\ g.error = conn.error BY <3>2, UpdateType, EventSame DEF Same
    <3> HIDE DEF g
    <3>5. AddTask(c, t).error = conn.error BY <3>3, <3>4 DEF Typed, Connection
    <3> QED BY <2>2, <3>5, TaskType
  <2>3. ASSUME NEW which \in Which, NEW need \in Need, NEW rounds \in Nat
        PROVE  NewTask(which, need, rounds) \in Task
    BY NewTaskType
  <2>4. Typed(PrepareHttp(conn)) /\ PrepareHttp(conn).error = conn.error
    <3>1. /\ Typed([conn EXCEPT !.reconnect_ok = TRUE])
          /\ [conn EXCEPT !.reconnect_ok = TRUE].error = conn.error
      BY DEF Typed, Connection
    <3>2. NewTask("CONNECT", "request", 0) \in Task BY <2>3 DEF Which, Need
    <3>3. LET d == AddTask(conn, NewTask("CONNECT", "request", 0))
          IN  Typed(d) /\ d.error = conn.error
      BY <2>2, <3>2
    <3> QED BY <3>1, <3>3 DEF PrepareHttp
  <2>5. CASE \E need \in Need, rounds \in 0 .. MaxRounds : Search(need, rounds)
    <3>1. PICK need \in Need, rounds \in 0 .. MaxRounds : Search(need, rounds) BY <2>5
    <3>2. NewTask("SEARCH", need, rounds) \in Task BY <2>3, BoundAssumption DEF Which
    <3> QED BY <2>2, <2>4, <3>1, <3>2 DEF Search
  <2>6. CASE \E need \in Need : Sort(need)
    <3>1. PICK need \in Need : Sort(need) BY <2>6
    <3>2. NewTask("SORT", need, 0) \in Task BY <2>3 DEF Which
    <3> QED BY <2>2, <2>4, <3>1, <3>2 DEF Sort
  <2>7. CASE \E need \in Need : Scan(need)
    <3>1. PICK need \in Need : Scan(need) BY <2>7
    <3>2. NewTask("SCAN", need, 0) \in Task BY <2>3 DEF Which
    <3> QED BY <2>2, <3>1, <3>2 DEF Scan
  <2>8. CASE PackageSend
    <3>1. NewTask("PACKAGE", "request", 0) \in Task BY <2>3 DEF Which, Need
    <3> QED BY <2>2, <2>8, <3>1 DEF PackageSend
  <2>9. CASE Process
    <3>1. GetEvent(conn).error = conn.error BY EventSame DEF Same
    <3>2. \A w, k : conn.tasks # <<>> => ExecTask(conn, w, k) = RemoveTasks(conn)
      BY <2>0 DEF ExecTask
    <3>3. Typed(RemoveTasks(conn)) BY TaskType
    <3>4. RemoveTasks(conn).error = conn.error
      <4>1. Typed([conn EXCEPT !.tasks = <<>>]) /\ [conn EXCEPT !.tasks = <<>>].error = conn.error
        BY SeqTypes DEF Typed, Connection
      <4> QED BY <4>1, EventSame DEF RemoveTasks, Same, Event
    <3>5. GetEvent(RemoveTasks(conn)).error = conn.error BY <3>3, <3>4, EventSame DEF Same
    <3> QED BY <2>9, <3>1, <3>2, <3>5 DEF Process
  <2> QED BY <2>1, <2>5, <2>6, <2>7, <2>8, <2>9 DEF Next, FireSocket, FireTimeout
<1> QED BY <1>1, TypedAlways, ModesHold, PTL DEF Spec, KeptErrorPersists

(***************************************************************************)
(* ZOOM_EVENT_END is the last event                                        *)
(***************************************************************************)
\* Either END is not queued, or it is the last event and no task is left.
Quiet == Event \ {"END"}

Unended(c) == Typed(c) /\ c.events \in Seq(Quiet)

Ended(c) == Typed(c) /\ c.tasks = <<>> /\ \E q \in Seq(Quiet) : c.events = Append(q, "END")

EndsRight(c) == Unended(c) \/ Ended(c)

\* Reporting an event other than END, changing the error, closing and
\* whatever else leaves the queue of events alone.
LEMMA UnendedUpdates ==
  ASSUME NEW c, Unended(c)
  PROVE  /\ \A e \in Quiet : Unended(PutEvent(c, e))
         /\ \A e \in Error : Unended(SetError(c, e))
         /\ Unended(Close(c))
         /\ Unended(InsertConnect(c))
         /\ \A d : Typed(d) /\ d.events = c.events => Unended(d)
<1>0. Quiet \subseteq Event
  BY DEF Quiet
<1>1. ASSUME NEW e \in Quiet PROVE Unended(PutEvent(c, e))
  <2>1. Append(c.events, e) \in Seq(Quiet) BY SeqTypes DEF Unended
  <2>2. Typed(PutEvent(c, e)) BY <1>0, UpdateType DEF Unended
  <2>3. PutEvent(c, e).events = Append(c.events, e) BY DEF PutEvent, Unended, Typed, Connection
  <2> QED BY <2>1, <2>2, <2>3 DEF Unended
<1>2. ASSUME NEW d, Typed(d), d.events = c.events PROVE Unended(d)
  BY <1>2 DEF Unended
<1>3. ASSUME NEW e \in Error PROVE Unended(SetError(c, e))
  <2>1. Typed(SetError(c, e)) BY UpdateType DEF Unended
  <2>2. SetError(c, e).events = c.events BY DEF SetError, Unended, Typed, Connection
  <2> QED BY <1>2, <2>1, <2>2
<1>4. Unended(Close(c))
  <2>1. Typed(Close(c)) BY UpdateType DEF Unended
  <2>2. Close(c).events = c.events BY DEF Close, Unended, Typed, Connection
  <2> QED BY <1>2, <2>1, <2>2
<1>5. Unended(InsertConnect(c))
  <2>1. Typed(InsertConnect(c)) BY TaskType DEF Unended
  <2>2. InsertConnect(c).events = c.events BY DEF InsertConnect, Unended, Typed, Connection
  <2> QED BY <1>2, <2>1, <2>2
<1> QED BY <1>1, <1>2, <1>3, <1>4, <1>5

\* A connection with a task has not reported END.
LEMMA BusyIsUnended ==
  ASSUME NEW c, EndsRight(c)
  PROVE  Typed(c) /\ (c.tasks # <<>> => Unended(c))
BY DEF EndsRight, Unended, Ended

\* The task that ends last is the one that reports END.
LEMMA RemoveEnds ==
  ASSUME NEW c, EndsRight(c)
  PROVE  EndsRight(RemoveTask(c)) /\ EndsRight(RemoveTasks(c))
<1>1. CASE c.tasks = <<>>
  BY <1>1 DEF RemoveTask, RemoveTasks
<1>2. CASE c.tasks # <<>>
  <2>0. Unended(c) /\ Typed(c) BY <1>2, BusyIsUnended
  <2> DEFINE e == [c EXCEPT !.tasks = <<>>]
             t == [c EXCEPT !.tasks = Tail(c.tasks)]
  <2>1. Ended(PutEvent(e, "END"))
    <3>1. Typed(e) /\ e.events = c.events /\ e.tasks = <<>>
      BY <2>0, SeqTypes DEF Typed, Connection
    <3> HIDE DEF e
    <3>2. Typed(PutEvent(e, "END")) BY <3>1, UpdateType DEF Event
    <3>3. PutEvent(e, "END").tasks = <<>> /\ PutEvent(e, "END").events = Append(c.events, "END")
      BY <3>1 DEF PutEvent, Typed, Connection
    <3> QED BY <2>0, <3>2, <3>3 DEF Ended, Unended
  <2>2. Unended(t)
    <3>1. Tail(c.tasks) \in Seq(Task) BY <1>2, <2>0, SeqTypes DEF Typed, Connection
    <3>2. Typed(t) /\ t.events = c.events BY <2>0, <3>1 DEF Typed, Connection
    <3> QED BY <2>0, <3>2, UnendedUpdates
  <2> QED BY <1>2, <2>1, <2>2 DEF RemoveTask, RemoveTasks, EndsRight
<1> QED BY <1>1, <1>2

\* Losing the connection reports no END: its tasks are still queued.
LEMMA LoseUnended ==
  ASSUME NEW c, Unended(c), NEW e \in Error
  PROVE  Unended(Lose(c, e))
<1>0. Typed(Lose(c, e)) /\ Typed(Close(c)) /\ "CONNECT" \in Quiet
  BY LoseType, UpdateType DEF Unended, Quiet, Event
<1>1. CASE ~ c.reconnect_ok
  BY <1>1, UnendedUpdates DEF Lose
<1>2. CASE c.reconnect_ok
  <2>1. Typed(c) /\ Unended(Close(c)) /\ Close(c).tasks = c.tasks
    BY UnendedUpdates, CloseFields DEF Unended
  <2> DEFINE d == Close(c)
             f == [d EXCEPT !.reconnect_ok = FALSE, !.tasks[1].running = FALSE]
             g == InsertConnect(f)
  <2>2. CASE c.tasks = <<>>
    <3>1. Lose(c, e) = [d EXCEPT !.fault = "NULL"] BY <1>2, <2>2 DEF Lose, Reconnect
    <3> HIDE DEF d
    <3>2. Lose(c, e).events = d.events BY <1>0, <3>1 DEF Typed, Connection, d
    <3> QED BY <1>0, <2>1, <3>2, UnendedUpdates DEF d
  <2>3. CASE c.tasks # <<>>
    <3>1. Lose(c, e) = PutEvent(g, "CONNECT") BY <1>2, <2>3 DEF Lose, Reconnect
    <3> HIDE DEF d
    <3>2. f.events = d.events /\ Typed(f)
      <4> DEFINE h == [d EXCEPT !.reconnect_ok = FALSE]
      <4>1. Typed(h) /\ h.tasks = d.tasks BY <1>0, ZenonT(60) DEF Typed, Connection, d
      <4>2. f = [h EXCEPT !.tasks[1].running = FALSE] BY <1>0 DEF Typed, Connection, d
      <4>3. f.events = d.events BY <1>0 DEF Typed, Connection, d
      <4> HIDE DEF h, f
      <4>4. Typed(f) BY <2>1, <2>3, <4>1, <4>2, TaskType DEF d
      <4> QED BY <4>3, <4>4
    <3> HIDE DEF f
    <3>3. Unended(f) BY <2>1, <3>2, UnendedUpdates DEF d
    <3>4. Unended(g) BY <3>3, UnendedUpdates
    <3> HIDE DEF g
    <3> QED BY <1>0, <3>1, <3>4, UnendedUpdates
  <2> QED BY <2>2, <2>3
<1> QED BY <1>1, <1>2

\* Neither does sending.
LEMMA SendUnended ==
  ASSUME NEW c, Unended(c), NEW w \in PutResult
  PROVE  /\ Unended(SendBuf(c, w))
         /\ \A which \in Request :
              (which = "REDIRECT" => c.proto = "HTTP") => Unended(SendRequest(c, which, w))
<1>0. {"SEND_DATA", "SEND_APDU"} \subseteq Quiet /\ {"CONNECT", "CONNECTION_LOST"} \subseteq Error
  BY DEF Quiet, Event, Error, Kept
<1>1. ASSUME NEW d, Unended(d) PROVE Unended(SendBuf(d, w))
  <2> DEFINE p == PutEvent(d, "SEND_DATA")
  <2>1. Unended(p) BY <1>0, <1>1, UnendedUpdates
  <2>2. Unended(Lose(p, "CONNECT")) /\ Unended(Lose(p, "CONNECTION_LOST"))
    BY <1>0, <2>1, LoseUnended
  <2>3. Typed(SendBuf(d, w)) /\ Typed(p) BY <1>1, <2>1, SendType DEF Unended
  <2>4. \/ SendBuf(d, w) \in {Lose(p, "CONNECT"), Lose(p, "CONNECTION_LOST")}
        \/ SendBuf(d, w).events = p.events
    <3> DEFINE q == Append(p.wire, d.buf_out)
    <3>1. SendBuf(d, w) =
            IF CannotPut(d) \/ w = "fail"
            THEN Lose(p, IF d.state = "CONNECTING" THEN "CONNECT" ELSE "CONNECTION_LOST")
            ELSE IF w = "sent"
            THEN [p EXCEPT !.mask = {"READ", "EXCEPT"}, !.towrite = "NONE", !.wire = q]
            ELSE IF w = "partial"
            THEN [p EXCEPT !.mask = {"WRITE", "EXCEPT"}, !.towrite = d.buf_out,
                           !.pieces = p.pieces + 1]
            ELSE [p EXCEPT !.mask = Select, !.towrite = d.buf_out, !.cs = "connecting",
                           !.pieces = p.pieces + 1]
      BY DEF SendBuf
    <3> HIDE DEF p, q
    <3> QED BY <2>3, <3>1 DEF Typed, Connection
  <2> HIDE DEF p
  <2> QED BY <2>1, <2>2, <2>3, <2>4, UnendedUpdates
<1>2. ASSUME NEW which \in Request, which = "REDIRECT" => c.proto = "HTTP"
      PROVE  Unended(SendRequest(c, which, w))
  <2> DEFINE d == [c EXCEPT !.buf_out = which]
  <2>1. Typed(d) /\ d.events = c.events BY <1>2 DEF Unended, Typed, Connection, Request
  <2>2. SendRequest(c, which, w) = SendBuf(PutEvent(d, "SEND_APDU"), w) BY DEF SendRequest
  <2> HIDE DEF d
  <2>3. Unended(d) BY <2>1, UnendedUpdates
  <2>4. Unended(PutEvent(d, "SEND_APDU")) BY <1>0, <2>3, UnendedUpdates
  <2> QED BY <1>1, <2>2, <2>4
<1> QED BY <1>1, <1>2

\* Neither does connecting to a host.
LEMMA DoConnectHostUnended ==
  ASSUME NEW c, Unended(c), NEW w \in PutResult, NEW k \in ConnectResult
  PROVE  Unended(DoConnectHost(c, w, k))
<1> DEFINE closed == [c EXCEPT !.cs = "none", !.wire = <<>>, !.towrite = "NONE"]
           created == [closed EXCEPT !.proto = IF HostProto = "HTTP" THEN "HTTP" ELSE @]
           bound == [created EXCEPT !.cs = "data"]
           up == PutEvent(bound, "CONNECT")
           x == SendRequest(up, "CONNECT", w)
<1>0. Typed(c) /\ Typed(DoConnectHost(c, w, k))
  BY DoConnectHostType DEF Unended
<1>1. Typed(closed) /\ closed.events = c.events
  BY <1>0, SeqTypes DEF Typed, Connection, Comstack
<1>2. Typed(created) /\ created.events = closed.events
  <2> HIDE DEF closed
  <2> QED BY <1>1, ZenonT(60) DEF Typed, Connection
<1>3. Typed(bound) /\ bound.events = created.events
  <2> HIDE DEF created
  <2> QED BY <1>2, ZenonT(60) DEF Typed, Connection, Comstack
<1> HIDE DEF closed, created, bound
<1>4. Unended(bound)
  BY <1>1, <1>2, <1>3, UnendedUpdates
<1>5. Unended(x)
  <2>1. Unended(up) BY <1>4, UnendedUpdates DEF Quiet, Event
  <2> HIDE DEF up
  <2> QED BY <2>1, SendUnended DEF Request, Which
<1>6. DoConnectHost(c, w, k) =
        CASE k = "nohost" -> [closed EXCEPT !.state = "IDLE", !.error = "CONNECT"]
          [] k = "refused" ->
               [created EXCEPT !.cs = "unbound", !.state = "IDLE", !.error = "CONNECT"]
          [] k = "pending" ->
               [created EXCEPT !.cs = "connecting", !.state = "CONNECTING", !.mask = Select]
          [] k = "established" -> [x EXCEPT !.state = "ESTABLISHED"]
  BY DEF DoConnectHost, closed, created, bound
<1> HIDE DEF x
<1>7. DoConnectHost(c, w, k).events \in {c.events, x.events}
  BY <1>1, <1>2, <1>5, <1>6 DEF ConnectResult, Unended, Typed, Connection
<1> QED BY <1>0, <1>5, <1>7 DEF Unended

\* Starting the first task, or giving up all of them.
LEMMA ExecTaskEnds ==
  ASSUME NEW c, EndsRight(c), NEW w \in PutResult, NEW k \in ConnectResult
  PROVE  EndsRight(ExecTask(c, w, k))
<1>1. CASE c.tasks = <<>>
  BY <1>1 DEF ExecTask
<1>2. CASE c.tasks # <<>>
  <2> DEFINE started == [c EXCEPT !.tasks[1].running = TRUE]
  <2>0. Unended(c) /\ Typed(c) BY <1>2, BusyIsUnended
  <2>1. Typed(started) /\ started.events = c.events
    <3>1. started.events = c.events BY <2>0 DEF Typed, Connection
    <3> QED BY <1>2, <2>0, <3>1, TaskType
  <2>2. Head(c.tasks).which \in Request /\ Head(c.tasks).which # "REDIRECT"
    <3>1. Head(c.tasks) \in Task BY <1>2, <2>0, SeqTypes DEF Typed, Connection
    <3> QED BY <3>1 DEF Task, Request, Which
  <2> HIDE DEF started
  <2>3. Unended(started) BY <2>0, <2>1, UnendedUpdates
  <2>4. Unended(DoConnectHost(started, w, k)) BY <2>3, DoConnectHostUnended
  <2>5. Unended(SendRequest(started, Head(c.tasks).which, w)) BY <2>2, <2>3, SendUnended
  <2>6. Unended(SetError(started, "DIAG")) BY <2>3, UnendedUpdates DEF Error
  <2>7. \A d : Unended(d) => EndsRight(d) /\ EndsRight(RemoveTask(d)) /\ EndsRight(RemoveTasks(d))
    BY RemoveEnds DEF EndsRight
  <2> QED BY <1>2, <2>0, <2>3, <2>4, <2>5, <2>6, <2>7 DEF ExecTask, started
<1> QED BY <1>1, <1>2

\* The end of a connection attempt.
LEMMA RcvConnectEnds ==
  ASSUME NEW c, Unended(c), c.tasks # <<>>, c.location => c.tasks[1].which # "CONNECT",
         NEW r \in {"again", "up", "down"}, NEW w \in PutResult, NEW k \in ConnectResult
  PROVE  EndsRight(RcvConnect(c, r, w, k))
<1>0. Typed(c) /\ "CONNECT" \in Quiet /\ "CONNECT" \in Error /\ Head(c.tasks) = c.tasks[1]
  BY SeqTypes DEF Unended, Quiet, Event, Error, Kept, Typed, Connection
<1>1. CASE r = "again"
  <2> DEFINE d == [c EXCEPT !.mask = Select, !.pieces = c.pieces + 1]
  <2>1. Typed(d) /\ d.events = c.events
    <3>1. c.pieces + 1 \in Nat /\ Select \in SUBSET Select BY <1>0 DEF Typed, Connection
    <3> QED BY <1>0, <3>1 DEF Typed, Connection
  <2> HIDE DEF d
  <2>2. Unended(d) BY <2>1, UnendedUpdates
  <2>3. Unended(PutEvent(d, "CONNECT")) BY <1>0, <2>2, UnendedUpdates
  <2> QED BY <1>1, <2>3 DEF RcvConnect, EndsRight, d
<1>2. CASE r = "down"
  <2>1. Unended(SetError(c, "CONNECT")) BY <1>0, UnendedUpdates
  <2>2. Unended(Close(SetError(c, "CONNECT"))) BY <2>1, UnendedUpdates
  <2> QED BY <1>2, <2>2 DEF RcvConnect, EndsRight
<1>3. CASE r = "up"
  <2> DEFINE b == [c EXCEPT !.cs = "data"]
             up == PutEvent(b, "CONNECT")
             removed == RemoveTask(up)
             ready == IF Head(c.tasks).which = "CONNECT"
                      THEN [removed EXCEPT !.mask = {}] ELSE up
             told == [ready EXCEPT !.location = FALSE]
             next == IF c.proto = "Z3950" THEN SendRequest(up, "CONNECT", w)
                     ELSE IF c.location THEN SendRequest(told, "REDIRECT", w)
                     ELSE ExecTask(ready, w, k)
  <2>1. Unended(up) /\ up.proto = c.proto
    <3>1. Typed(b) /\ b.events = c.events /\ b.proto = c.proto
      BY <1>0 DEF Typed, Connection, Comstack
    <3> HIDE DEF b
    <3>2. Unended(b) BY <3>1, UnendedUpdates
    <3> QED BY <1>0, <3>1, <3>2, UnendedUpdates, EventSame DEF Same, Quiet
  <2> HIDE DEF b, up
  <2>2. EndsRight(ready)
    <3>1. EndsRight(removed) BY <2>1, RemoveEnds DEF EndsRight
    <3> HIDE DEF removed
    <3>2. Typed(removed) BY <3>1, BusyIsUnended
    <3>3. LET d == [removed EXCEPT !.mask = {}] IN
            Typed(d) /\ d.events = removed.events /\ d.tasks = removed.tasks
      BY <3>2 DEF Typed, Connection
    <3>4. EndsRight([removed EXCEPT !.mask = {}]) BY <3>1, <3>3 DEF EndsRight, Unended, Ended
    <3> QED BY <2>1, <3>4 DEF EndsRight
  <2>3. ASSUME c.location, c.proto # "Z3950" PROVE Unended(SendRequest(told, "REDIRECT", w))
    <3>1. ready = up BY <1>0, <2>3
    <3>2. c.proto = "HTTP" BY <1>0, <2>3 DEF Typed, Connection
    <3> HIDE DEF ready
    <3>3. Typed(told) /\ told.events = up.events /\ told.proto = "HTTP"
      BY <2>1, <3>1, <3>2 DEF Unended, Typed, Connection
    <3> HIDE DEF told
    <3>4. Unended(told) BY <2>1, <3>3, UnendedUpdates
    <3> QED BY <3>3, <3>4, SendUnended DEF Request
  <2> HIDE DEF ready, told
  <2>4. EndsRight(next)
    <3>1. Unended(SendRequest(up, "CONNECT", w)) BY <2>1, SendUnended DEF Request, Which
    <3>2. EndsRight(ExecTask(ready, w, k)) BY <2>2, ExecTaskEnds
    <3> QED BY <2>3, <3>1, <3>2 DEF EndsRight
  <2>5. RcvConnect(c, r, w, k)
          = [next EXCEPT !.state = IF next.cs = "data" THEN "ESTABLISHED" ELSE next.state]
    BY <1>3 DEF RcvConnect, Connected, b, up, ready, told
  <2> HIDE DEF next
  <2>6. /\ Typed(RcvConnect(c, r, w, k)) /\ Typed(next)
    BY <1>0, <2>4, RcvConnectType, BusyIsUnended
  <2>7. RcvConnect(c, r, w, k).events = next.events /\ RcvConnect(c, r, w, k).tasks = next.tasks
    BY <2>5, <2>6 DEF Typed, Connection
  <2> QED BY <2>4, <2>6, <2>7 DEF EndsRight, Unended, Ended
<1> QED BY <1>1, <1>2, <1>3

\* A further chunk of records.
LEMMA NextChunkUnended ==
  ASSUME NEW c, Unended(c), MoreFits(c, "more")
  PROVE  Unended(NextChunk(c))
<1> DEFINE s == [c.tasks EXCEPT ![1].rounds = c.tasks[1].rounds - 1]
           d == [c EXCEPT !.tasks = s]
<1>1. Typed(c) /\ Typed(NextChunk(c))
  BY NextChunkType DEF Unended
<1>2. NextChunk(c) = PutEvent(d, "RECV_RECORD")
  BY DEF NextChunk
<1> HIDE DEF s
<1>3. NextChunk(c).events = Append(c.events, "RECV_RECORD")
  BY <1>1, <1>2 DEF PutEvent, Typed, Connection
<1>4. Append(c.events, "RECV_RECORD") \in Seq(Quiet)
  BY SeqTypes DEF Unended, Quiet, Event
<1> QED BY <1>1, <1>3, <1>4 DEF Unended

\* A response of a Z39.50 server.
LEMMA HandleZ3950Ends ==
  ASSUME NEW c, Unended(c), c.wire # <<>>, c.proto = "Z3950",
         NEW a \in Answer, MoreFits(c, a), NEW w \in PutResult, NEW k \in ConnectResult
  PROVE  EndsRight(HandleZ3950(c, a, w, k))
<1> DEFINE d == TakeResponse(c)
<1>0. Tail(c.wire) \in Seq(Request) /\ Tail(c.wire) \in Seq(Which) /\ Head(c.wire) \in Which
  <2>1. c.wire \in Seq(Request) /\ c.wire \in Seq(Which) BY DEF Unended, Typed, Connection
  <2>2. Tail(c.wire) \in Seq(Request) BY <2>1, SeqTypes
  <2>3. Tail(c.wire) \in Seq(Which) /\ Head(c.wire) \in Which BY <2>1, SeqTypes
  <2> QED BY <2>2, <2>3
<1>1. Typed(d) /\ d.tasks = c.tasks /\ d.events = c.events
  BY <1>0 DEF TakeResponse, Unended, Typed, Connection
<1>2. MoreFits(d, a)
  BY <1>1 DEF MoreFits, HeadIs
<1> HIDE DEF d
<1>3. Unended(d) BY <1>1, UnendedUpdates
<1>4. \A e : Unended(e) => EndsRight(e) BY DEF EndsRight
<1>5. ASSUME NEW e, EndsRight(e) PROVE EndsRight([e EXCEPT !.fault = "ASSERT"])
  <2> DEFINE f == [e EXCEPT !.fault = "ASSERT"]
  <2>1. Typed(e) BY <1>5, BusyIsUnended
  <2>2. Typed(f) BY <2>1, ZenonT(60) DEF Typed, Connection
  <2>3. f.events = e.events /\ f.tasks = e.tasks BY <2>1 DEF Typed, Connection
  <2> HIDE DEF f
  <2>4. EndsRight(f) BY <1>5, <2>2, <2>3 DEF EndsRight, Unended, Ended
  <2> QED BY <2>4 DEF f
<1>6. ASSUME NEW e, EndsRight(e) PROVE EndsRight(NextPresent(e, w))
  <2>1. CASE e.tasks = <<>> BY <1>6, <2>1 DEF NextPresent
  <2>2. CASE e.tasks # <<>>
    <3>1. Unended(SendRequest(e, "SEARCH", w))
      BY <1>6, <2>2, BusyIsUnended, SendUnended DEF Request, Which
    <3> QED BY <1>4, <1>5, <1>6, <3>1, RemoveEnds DEF NextPresent
  <2> QED BY <2>1, <2>2
<1>7. EndsRight(SetError(d, "INIT")) /\ EndsRight(SetError(d, "INITDIAG"))
      /\ EndsRight(SetError(d, "DIAG"))
  BY <1>3, <1>4, UnendedUpdates DEF Error, Kept
<1>8. EndsRight(d) BY <1>3, <1>4
<1>9. EndsRight(InitResponse(d, a, w, k))
  <2>1. EndsRight(ExecTask(RemoveTask(d), w, k)) BY <1>8, RemoveEnds, ExecTaskEnds
  <2> QED BY <1>5, <1>7, <1>8, <2>1 DEF InitResponse
<1>10. EndsRight(SearchResponse(d, a, w))
  <2>1. EndsRight(RemoveTask(PutEvent(d, "RECV_RECORD")))
    BY <1>3, <1>4, UnendedUpdates, RemoveEnds DEF Quiet, Event
  <2>2. EndsRight(RemoveTasks(SetError(d, "DIAG"))) BY <1>7, RemoveEnds
  <2>3. a = "more" => EndsRight(NextPresent(NextChunk(d), w))
    <3> SUFFICES ASSUME a = "more" PROVE EndsRight(NextPresent(NextChunk(d), w)) OBVIOUS
    <3>1. Unended(NextChunk(d)) BY <1>2, <1>3, NextChunkUnended
    <3> QED BY <1>4, <1>6, <3>1
  <2> QED BY <1>6, <1>8, <2>1, <2>2, <2>3 DEF SearchResponse
<1>11. EndsRight(SortResponse(d, a, w))
  BY <1>6, <1>7, <1>8, RemoveEnds DEF SortResponse
<1>12. EndsRight(ScanResponse(d, a))
  BY <1>7, <1>8, RemoveEnds DEF ScanResponse
<1>13. EndsRight(EsResponse(d, a))
  BY <1>5, <1>7, <1>8, RemoveEnds DEF EsResponse
<1> QED BY <1>0, <1>9, <1>10, <1>11, <1>12, <1>13 DEF HandleZ3950, d, Which

\* The end of handle_http.
LEMMA FinishEnds ==
  ASSUME NEW c, Unended(c), NEW complete \in BOOLEAN, NEW must_close \in BOOLEAN
  PROVE  EndsRight(FinishHttp(c, complete, must_close))
<1> DEFINE d == IF complete THEN RemoveTask(c) ELSE c
           e == Close(d)
           f == [e EXCEPT !.reconnect_ok = FALSE, !.tasks[1].running = FALSE]
           g == [d EXCEPT !.reconnect_ok = TRUE]
<1>1. EndsRight(d)
  BY RemoveEnds DEF EndsRight
<1>2. FinishHttp(c, complete, must_close) =
        IF ~ must_close THEN g ELSE IF e.tasks = <<>> THEN e ELSE InsertConnect(f)
  BY DEF FinishHttp
<1> HIDE DEF d
<1>3. Typed(d) /\ (d.tasks # <<>> => Unended(d))
  BY <1>1, BusyIsUnended
<1>4. EndsRight(g)
  <2>1. Typed(g) /\ g.events = d.events /\ g.tasks = d.tasks BY <1>3 DEF Typed, Connection
  <2> HIDE DEF g
  <2> QED BY <1>1, <2>1 DEF EndsRight, Unended, Ended
<1>5. Typed(e) /\ EndsRight(e) /\ e.tasks = d.tasks /\ e.events = d.events
  <2>1. Typed(e) BY <1>3, UpdateType
  <2>2. e.events = d.events /\ e.tasks = d.tasks BY <1>3 DEF Close, Typed, Connection
  <2> HIDE DEF e
  <2> QED BY <1>1, <2>1, <2>2 DEF EndsRight, Unended, Ended
<1> HIDE DEF e
<1>6. ASSUME e.tasks # <<>> PROVE EndsRight(InsertConnect(f))
  <2> DEFINE h == [e EXCEPT !.reconnect_ok = FALSE]
  <2>1. Typed(h) /\ h.tasks = e.tasks BY <1>5, ZenonT(60) DEF Typed, Connection
  <2>2. f = [h EXCEPT !.tasks[1].running = FALSE] BY <1>5 DEF Typed, Connection
  <2>3. f.events = e.events BY <1>5 DEF Typed, Connection
  <2> HIDE DEF h, f
  <2>4. Typed(f) BY <1>6, <2>1, <2>2, TaskType
  <2>5. Unended(f) BY <1>5, <1>6, <2>3, <2>4, BusyIsUnended, UnendedUpdates
  <2> QED BY <2>5, UnendedUpdates DEF EndsRight
<1> QED BY <1>2, <1>4, <1>5, <1>6

\* A response of an HTTP server.
LEMMA HandleHttpEnds ==
  ASSUME NEW c, Unended(c), c.wire # <<>>, c.proto = "HTTP",
         NEW a \in Answer \ {"accept", "refuse", "refusediag"}, MoreFits(c, a),
         NEW must_close \in BOOLEAN, NEW w \in PutResult, NEW k \in ConnectResult
  PROVE  EndsRight(HandleHttp(c, a, must_close, w, k))
<1> DEFINE d == TakeResponse(c)
<1>0. Tail(c.wire) \in Seq(Request)
  BY SeqTypes DEF Unended, Typed, Connection
<1>1. Typed(d) /\ d.tasks = c.tasks /\ d.proto = c.proto /\ d.events = c.events
  BY <1>0 DEF TakeResponse, Unended, Typed, Connection
<1>2. MoreFits(d, a)
  BY <1>1 DEF MoreFits, HeadIs
<1> HIDE DEF d
<1>3. Unended(d)
  BY <1>1, UnendedUpdates
<1>4. ASSUME NEW e, Unended(e) PROVE Unended(EndRedirect(e))
  <2> DEFINE f == IF e.no_redirects > 0 THEN Close(e) ELSE e
             g == [f EXCEPT !.no_redirects = 0]
  <2>1. Unended(f) BY <1>4, UnendedUpdates
  <2> HIDE DEF f
  <2>2. Typed(g) /\ g.events = f.events BY <2>1 DEF Unended, Typed, Connection
  <2> HIDE DEF g
  <2>3. Unended(g) BY <2>1, <2>2, UnendedUpdates
  <2> QED BY <2>3 DEF EndRedirect, f, g
<1>5. ASSUME NEW e \in {"DIAG", "DECODE"}
      PROVE  EndsRight(FinishHttp(Close([d EXCEPT !.error = e, !.no_redirects = 0]), TRUE, must_close))
  <2> DEFINE f == [d EXCEPT !.error = e, !.no_redirects = 0]
  <2>0. e \in Error BY <1>5 DEF Error, Kept
  <2>1. Typed(f) BY <1>1, <2>0, ZenonT(60) DEF Typed, Connection
  <2>2. f.events = d.events BY <1>1 DEF Typed, Connection
  <2> HIDE DEF f
  <2>3. Unended(f) BY <1>3, <2>1, <2>2, UnendedUpdates
  <2>4. EndsRight(FinishHttp(Close(f), TRUE, must_close)) BY <2>3, UnendedUpdates, FinishEnds
  <2> QED BY <2>4 DEF f
<1>6. CASE a = "redirect"
  <2> DEFINE f == FollowRedirect(d)
  <2>1. Typed(f) /\ f.events = d.events
    <3>1. d.no_redirects + 1 \in Nat BY <1>1 DEF Typed, Connection
    <3> QED BY <1>1, <3>1 DEF FollowRedirect, Typed, Connection
  <2> HIDE DEF f
  <2>2. Unended(f) BY <1>3, <2>1, UnendedUpdates
  <2>3. Unended(DoConnectHost(f, w, k)) BY <2>2, DoConnectHostUnended
  <2> QED BY <1>5, <1>6, <2>3 DEF HandleHttp, d, f, EndsRight
<1>7. CASE a = "more"
  <2>1. Unended(SendRequest(NextChunk(d), "SEARCH", w))
    BY <1>2, <1>3, <1>7, NextChunkUnended, SendUnended DEF Request, Which
  <2>2. SendCompletes(NextChunk(d), "SEARCH", w) \in BOOLEAN
    BY DEF SendCompletes
  <2>3. EndsRight(FinishHttp(EndRedirect(SendRequest(NextChunk(d), "SEARCH", w)),
                             SendCompletes(NextChunk(d), "SEARCH", w), must_close))
    BY <1>4, <2>1, <2>2, FinishEnds
  <2> QED BY <1>7, <2>3 DEF HandleHttp, d
<1>8. CASE a \in {"done", "diag"}
  <2>1. Unended(PutEvent(d, "RECV_RECORD")) /\ Unended(SetError(d, "DIAG"))
    BY <1>3, UnendedUpdates DEF Quiet, Event, Error
  <2>2. /\ EndsRight(FinishHttp(EndRedirect(PutEvent(d, "RECV_RECORD")), TRUE, must_close))
        /\ EndsRight(FinishHttp(EndRedirect(SetError(d, "DIAG")), TRUE, must_close))
    BY <1>4, <2>1, FinishEnds
  <2> QED BY <1>8, <2>2 DEF HandleHttp, d
<1>9. CASE a \in {"badstatus", "badbody"}
  <2> DEFINE e == IF a = "badbody" THEN "DECODE" ELSE "DIAG"
  <2>1. EndsRight(FinishHttp(Close([d EXCEPT !.error = e, !.no_redirects = 0]), TRUE, must_close))
    BY <1>5
  <2> QED BY <1>9, <2>1 DEF HandleHttp, d
<1> QED BY <1>6, <1>7, <1>8, <1>9 DEF Answer

\* do_read: only a response can end a task.
LEMMA DoReadEnds ==
  ASSUME NEW c, Unended(c), NEW r \in Arrival, NEW a \in Answer, ResponseFits(c, r, a),
         NEW must_close \in BOOLEAN, NEW w \in PutResult, NEW k \in ConnectResult
  PROVE  /\ EndsRight(DoRead(c, r, a, must_close, w, k))
         /\ r # "response" => Unended(DoRead(c, r, a, must_close, w, k))
<1> DEFINE d == PutEvent(c, "RECV_DATA")
           e == PutEvent(d, "RECV_APDU")
           f == DoRead(c, r, a, must_close, w, k)
<1>0. {"RECV_DATA", "RECV_APDU"} \subseteq Quiet /\ {"DECODE", "CONNECTION_LOST"} \subseteq Error
  BY DEF Quiet, Event, Error, Kept
<1>1. Unended(d)
  BY <1>0, UnendedUpdates
<1>2. Unended(e)
  <2> HIDE DEF d
  <2> QED BY <1>0, <1>1, UnendedUpdates
<1>3. e.wire = c.wire /\ e.tasks = c.tasks /\ e.proto = c.proto
  BY DEF PutEvent, Unended, Typed, Connection
<1>4. f = CASE r = "incomplete" -> [d EXCEPT !.pieces = @ + 1]
            [] r = "error"      -> Close(SetError(d, "DECODE"))
            [] r = "eof"        -> Lose(d, "CONNECTION_LOST")
            [] r = "garbled"    -> Lose(e, "DECODE")
            [] r = "closeapdu"  -> Lose([e EXCEPT !.mask = {}], "CONNECTION_LOST")
            [] r = "response"   -> IF c.proto = "Z3950" THEN HandleZ3950(e, a, w, k)
                                   ELSE HandleHttp(e, a, must_close, w, k)
  BY DEF DoRead
<1> HIDE DEF d, e
<1>5. Unended([d EXCEPT !.pieces = d.pieces + 1])
  <2> DEFINE g == [d EXCEPT !.pieces = d.pieces + 1]
  <2>1. d.pieces + 1 \in Nat BY <1>1 DEF Unended, Typed, Connection
  <2>2. Typed(g) /\ g.events = d.events BY <1>1, <2>1 DEF Unended, Typed, Connection
  <2> HIDE DEF g
  <2>3. Unended(g) BY <1>1, <2>2, UnendedUpdates
  <2> QED BY <2>3 DEF g
<1>6. /\ Unended(Close(SetError(d, "DECODE")))
      /\ Unended(Lose(d, "CONNECTION_LOST"))
      /\ Unended(Lose(e, "DECODE"))
  BY <1>0, <1>1, <1>2, UnendedUpdates, LoseUnended
<1>7. Unended(Lose([e EXCEPT !.mask = {}], "CONNECTION_LOST"))
  <2> DEFINE g == [e EXCEPT !.mask = {}]
  <2>1. Typed(g) /\ g.events = e.events BY <1>2 DEF Unended, Typed, Connection
  <2> HIDE DEF g
  <2>2. Unended(g) BY <1>2, <2>1, UnendedUpdates
  <2>3. Unended(Lose(g, "CONNECTION_LOST")) BY <1>0, <2>2, LoseUnended
  <2> QED BY <2>3 DEF g
<1>8. ASSUME r = "response", c.proto = "Z3950" PROVE EndsRight(HandleZ3950(e, a, w, k))
  BY <1>2, <1>3, <1>8, HandleZ3950Ends DEF ResponseFits, MoreFits, HeadIs
<1>9. ASSUME r = "response", c.proto # "Z3950" PROVE EndsRight(HandleHttp(e, a, must_close, w, k))
  <2>1. c.proto = "HTTP" BY <1>9 DEF Unended, Typed, Connection
  <2> QED BY <1>2, <1>3, <1>9, <2>1, HandleHttpEnds DEF ResponseFits, MoreFits, HeadIs
<1>10. r # "response" => Unended(f)
  <2> HIDE DEF f
  <2> QED BY <1>4, <1>5, <1>6, <1>7 DEF Arrival
<1>11. r = "response" => EndsRight(f)
  <2> HIDE DEF f
  <2> QED BY <1>4, <1>8, <1>9
<1> QED BY <1>10, <1>11 DEF EndsRight

\* ZOOM_connection_do_io: a socket that is written to has no response to read.
LEMMA DoIOEnds ==
  ASSUME NEW c, Unended(c), Listening(c), NEW m \in SUBSET c.mask,
         NEW r, NEW a \in Answer, IOFits(c, r, a),
         NEW must_close \in BOOLEAN, NEW w \in PutResult, NEW k \in ConnectResult
  PROVE  EndsRight(DoIO(c, m, r, a, must_close, w, k))
<1>0. /\ c.cs \in {"connecting", "data"} /\ c.tasks # <<>>
      /\ c.cs = "connecting" => (c.location => c.tasks[1].which # "CONNECT")
      /\ c.cs = "data" => ("WRITE" \in m => c.wire = <<>>)
  BY DEF Listening, ListensToConnect, ListensToData, HeadRuns
<1>1. CASE c.cs = "connecting"
  BY <1>0, <1>1, RcvConnectEnds DEF DoIO, IOFits
<1>2. CASE c.cs = "data"
  <2> DEFINE d == IF "READ" \in m THEN DoRead(c, r, a, must_close, w, k) ELSE c
  <2>1. r \in Arrival /\ ResponseFits(c, r, a) BY <1>2 DEF IOFits
  <2>2. EndsRight(d) /\ (r # "response" => Unended(d))
    BY <2>1, DoReadEnds DEF EndsRight
  <2>3. "WRITE" \in m => r # "response" BY <1>0, <1>2, <2>1 DEF ResponseFits
  <2>4. DoIO(c, m, r, a, must_close, w, k) =
          IF "EXCEPT" \in m THEN Lose(c, "CONNECTION_LOST")
          ELSE IF d.cs # "none" /\ "WRITE" \in m THEN SendBuf(d, w) ELSE d
    BY <1>2 DEF DoIO
  <2> HIDE DEF d
  <2>5. Unended(Lose(c, "CONNECTION_LOST")) BY LoseUnended DEF Error, Kept
  <2>6. "WRITE" \in m => Unended(SendBuf(d, w)) BY <2>2, <2>3, SendUnended
  <2> QED BY <2>2, <2>4, <2>5, <2>6 DEF EndsRight
<1> QED BY <1>0, <1>1, <1>2

\* A task that is queued takes END, and every other event, off the queue.
LEMMA AddTaskUnended ==
  ASSUME NEW c, Typed(c), NEW t \in Task
  PROVE  Unended(AddTask(c, t))
<1> DEFINE d == [c EXCEPT !.tasks = Append(c.tasks, t)]
           b == RemoveEvents(d)
<1>1. Append(c.tasks, t) \in Seq(Task)
  BY SeqTypes DEF Typed, Connection
<1>2. Typed(d)
  BY <1>1 DEF Typed, Connection
<1>3. AddTask(c, t) = [b EXCEPT !.error = IF @ \in Kept THEN @ ELSE "NONE"]
  BY DEF AddTask, ClearError
<1> HIDE DEF d
<1>4. Typed(b) BY <1>2, UpdateType
<1>5. b.events = <<>> BY <1>2 DEF RemoveEvents, Typed, Connection
<1> HIDE DEF b
<1>6. AddTask(c, t).events = <<>> BY <1>3, <1>4, <1>5 DEF Typed, Connection
<1>7. Typed(AddTask(c, t)) BY TaskType
<1> QED BY <1>6, <1>7, SeqTypes DEF Unended

\* The application's calls.
LEMMA CallEnds ==
  ASSUME EndsRight(conn),
         \/ \E o \in {"ok", "badsru", "badlog", "badcache"} : Connect(o)
         \/ \E need \in Need, rounds \in 0 .. MaxRounds : Search(need, rounds)
         \/ \E need \in Need : Sort(need)
         \/ \E need \in Need : Scan(need)
         \/ PackageSend
  PROVE  EndsRight(conn')
<1>0. Typed(conn)
  BY BusyIsUnended
<1>1. ASSUME NEW which \in Which, NEW need \in Need, NEW rounds \in 0 .. MaxRounds,
             NEW c, Typed(c)
      PROVE  Unended(AddTask(c, NewTask(which, need, rounds)))
  <2>1. NewTask(which, need, rounds) \in Task BY BoundAssumption, NewTaskType
  <2> QED BY <1>1, <2>1, AddTaskUnended
<1>2. 0 \in 0 .. MaxRounds /\ "request" \in Need
      /\ "CONNECT" \in Which /\ "SEARCH" \in Which /\ "SORT" \in Which
      /\ "SCAN" \in Which /\ "PACKAGE" \in Which
  BY BoundAssumption DEF Need, Which
<1>3. \A c : Unended(c) => Typed(c) /\ EndsRight(c)
  BY DEF Unended, EndsRight
<1>4. Typed(PrepareHttp(conn))
  <2>1. Typed(AddTask(conn, NewTask("CONNECT", "request", 0))) BY <1>0, <1>1, <1>2, <1>3
  <2>2. Typed([conn EXCEPT !.reconnect_ok = TRUE]) BY <1>0 DEF Typed, Connection
  <2> QED BY <1>0, <2>1, <2>2 DEF PrepareHttp
<1>5. ASSUME NEW o \in {"ok", "badsru", "badlog", "badcache"}, Connect(o)
      PROVE  EndsRight(conn')
  <2> DEFINE b == SetError(conn, "NONE")
             c == RemoveTasks(b)
  <2>1. ASSUME NEW d, EndsRight(d), NEW e \in Error PROVE EndsRight(SetError(d, e))
    <3>1. Typed(d) BY <2>1, BusyIsUnended
    <3>2. Typed(SetError(d, e)) BY <3>1, UpdateType
    <3>3. SetError(d, e).events = d.events /\ SetError(d, e).tasks = d.tasks
      BY <3>1 DEF SetError, Typed, Connection
    <3> QED BY <2>1, <3>2, <3>3 DEF EndsRight, Unended, Ended
  <2>2. {"NONE", "UNSUPPORTED_PROTOCOL", "INTERNAL", "DIAG"} \subseteq Error BY DEF Error, Kept
  <2>3. EndsRight(c) BY <2>1, <2>2, RemoveEnds
  <2>4. conn' = IF c.cs # "none" THEN [c EXCEPT !.reconnect_ok = TRUE]
                ELSE CASE o = "ok" -> AddTask(c, NewTask("CONNECT", "request", 0))
                       [] o = "badsru" -> SetError(c, "UNSUPPORTED_PROTOCOL")
                       [] o = "badlog" -> SetError(c, "INTERNAL")
                       [] o = "badcache" -> SetError(c, "DIAG")
    BY <1>5 DEF Connect
  <2> HIDE DEF c
  <2>5. Typed(c) BY <2>3, BusyIsUnended
  <2>6. EndsRight([c EXCEPT !.reconnect_ok = TRUE])
    <3> DEFINE g == [c EXCEPT !.reconnect_ok = TRUE]
    <3>1. Typed(g) /\ g.events = c.events /\ g.tasks = c.tasks BY <2>5 DEF Typed, Connection
    <3> HIDE DEF g
    <3>2. EndsRight(g) BY <2>3, <3>1 DEF EndsRight, Unended, Ended
    <3> QED BY <3>2 DEF g
  <2>7. EndsRight(AddTask(c, NewTask("CONNECT", "request", 0))) BY <1>1, <1>2, <1>3, <2>5
  <2> QED BY <1>5, <2>1, <2>2, <2>3, <2>4, <2>6, <2>7
<1>6. CASE \E need \in Need, rounds \in 0 .. MaxRounds : Search(need, rounds)
  BY <1>1, <1>2, <1>3, <1>4, <1>6 DEF Search
<1>7. CASE \E need \in Need : Sort(need)
  BY <1>1, <1>2, <1>3, <1>4, <1>7 DEF Sort
<1>8. CASE \E need \in Need : Scan(need)
  BY <1>0, <1>1, <1>2, <1>3, <1>8 DEF Scan
<1>9. CASE PackageSend
  BY <1>0, <1>1, <1>2, <1>3, <1>9 DEF PackageSend
<1> QED BY <1>5, <1>6, <1>7, <1>8, <1>9

\* The steps of the event loop.
LEMMA LoopEnds ==
  ASSUME ModeInv(conn), EndsRight(conn), Process \/ FireSocket \/ FireTimeout
  PROVE  EndsRight(conn')
<1>0. Typed(conn) /\ (conn.tasks # <<>> => Unended(conn))
  BY BusyIsUnended
<1>1. ASSUME NEW c, EndsRight(c) PROVE EndsRight(GetEvent(c))
  <2> DEFINE g == GetEvent(c)
  <2>0. Typed(c) BY <1>1, BusyIsUnended
  <2>1. Typed(g) /\ g.tasks = c.tasks BY <2>0, UpdateType, EventSame DEF Same
  <2>2. g.events = IF c.events = <<>> THEN <<>> ELSE Tail(c.events)
    BY <2>0 DEF GetEvent, Typed, Connection
  <2> HIDE DEF g
  <2>3. CASE Unended(c)
    <3>1. g.events \in Seq(Quiet) BY <2>2, <2>3, SeqTypes DEF Unended
    <3> QED BY <2>1, <3>1 DEF EndsRight, Unended, g
  <2>4. CASE Ended(c)
    <3>1. PICK q \in Seq(Quiet) : c.events = Append(q, "END") BY <2>4 DEF Ended
    <3>2. CASE q = <<>>
      <4>1. c.events = <<"END">> BY <3>1, <3>2
      <4>2. g.events = <<>> BY <2>2, <4>1
      <4> QED BY <2>1, <4>2, SeqTypes DEF EndsRight, Unended, g
    <3>3. CASE q # <<>>
      <4>1. Tail(q) \in Seq(Quiet) BY <3>3, SeqTypes
      <4>2. g.events = Append(Tail(q), "END") BY <2>2, <3>1, <3>3
      <4> QED BY <2>1, <2>4, <4>1, <4>2 DEF EndsRight, Ended, g
    <3> QED BY <3>2, <3>3
  <2> QED BY <1>1, <2>3, <2>4 DEF EndsRight
<1>2. CASE Process
  <2>1. CASE conn.events # <<>> BY <1>1, <1>2, <2>1 DEF Process
  <2>2. CASE conn.events = <<>>
    <3>1. PICK w \in Puts, k \in Connects : conn' = GetEvent(ExecTask(conn, w, k))
      BY <1>2, <2>2 DEF Process
    <3>2. w \in PutResult /\ k \in ConnectResult BY EventLoopFits
    <3> QED BY <1>1, <3>1, <3>2, ExecTaskEnds
  <2> QED BY <2>1, <2>2
<1>3. conn.mask # {} => Listening(conn) /\ Unended(conn)
  BY <1>0 DEF ModeInv, Idle, Listening, HeadRuns
<1>4. CASE FireSocket
  <2>1. PICK m \in SUBSET conn.mask \ {{}}, r \in Arrivals, a \in Answers,
             must_close \in BOOLEAN, w \in Puts, k \in Connects :
               conn' = DoIO(conn, m, r, a, must_close, w, k)
    BY <1>4 DEF FireSocket
  <2>2. IOFits(conn, r, a) /\ a \in Answer /\ w \in PutResult /\ k \in ConnectResult
    BY <1>0, EventLoopFits
  <2>3. Listening(conn) /\ Unended(conn) BY <1>3, <1>4 DEF FireSocket, Waits
  <2>4. m \in SUBSET conn.mask BY <2>1
  <2> QED BY <2>1, <2>2, <2>3, <2>4, DoIOEnds
<1>5. CASE FireTimeout
  <2>1. Unended(conn) BY <1>3, <1>5 DEF FireTimeout, Waits
  <2>2. Unended(PutEvent(Close(SetError(conn, "TIMEOUT")), "TIMEOUT"))
    BY <2>1, UnendedUpdates DEF Error, Quiet, Event
  <2> QED BY <1>5, <2>2 DEF FireTimeout, EndsRight
<1> QED BY <1>2, <1>4, <1>5

\* When the application sees ZOOM_EVENT_END, every task has been finished or
\* given up and no event is left behind it.
THEOREM EndIsLastHolds == ASSUME Discipline PROVE Spec => []EndIsLast
<1>1. Init => EndsRight(conn)
  <2> SUFFICES ASSUME Init PROVE EndsRight(conn) OBVIOUS
  <2>1. Typed(conn)
    BY SeqTypes DEF Init, Typed, Connection, Comstack, Error, Request, Which
  <2> QED BY <2>1, SeqTypes DEF Init, EndsRight, Unended
<1>2. ModeInv(conn) /\ EndsRight(conn) /\ [Next]_vars => EndsRight(conn)'
  <2> SUFFICES ASSUME ModeInv(conn), EndsRight(conn), [Next]_vars PROVE EndsRight(conn')
    BY DEF EndsRight, Unended, Ended, Typed
  <2>1. CASE Next BY <2>1, CallEnds, LoopEnds DEF Next
  <2>2. CASE UNCHANGED vars BY <2>2 DEF vars
  <2> QED BY <2>1, <2>2
<1>3. EndsRight(conn) => EndIsLast
  <2> SUFFICES ASSUME EndsRight(conn), NEW i \in 1 .. Len(conn.events), conn.events[i] = "END"
               PROVE  i = Len(conn.events) /\ conn.tasks = <<>>
    BY DEF EndIsLast
  <2>1. ASSUME NEW q \in Seq(Quiet), NEW j \in 1 .. Len(q) PROVE q[j] # "END"
    BY <2>1, ElementOfSeq DEF Quiet
  <2>2. ~ Unended(conn) BY <2>1 DEF Unended
  <2>3. PICK q \in Seq(Quiet) : conn.events = Append(q, "END") BY <2>2 DEF EndsRight, Ended
  <2>4. Len(conn.events) = Len(q) + 1 /\ Len(q) \in Nat
        /\ \A j \in 1 .. Len(q) : conn.events[j] = q[j]
    BY <2>3, AppendProperties
  <2>5. i \notin 1 .. Len(q) BY <2>1, <2>4
  <2>6. i = Len(conn.events) BY <2>4, <2>5
  <2> QED BY <2>2, <2>6 DEF EndsRight, Ended
<1> QED BY <1>1, <1>2, <1>3, ModesHold, PTL DEF Spec, IdleOrListening
====
