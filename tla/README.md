# A TLA+ model of YAZ

YAZ is a toolkit for the information-retrieval protocols Z39.50 and SRU. It has
a client library (ZOOM), a server library (the generic frontend server, GFS),
a transport layer (COMSTACK), a BER codec (ODR) with generated Z39.50 and ILL
packages, parsers for several query languages, and character-set and record
conversions. This directory holds TLA+ models of these parts, TLC
configurations that check them on small instances, and proofs, checked by TLAPS,
of the safety properties of the client connection, its result sets and their
record cache, of the frontend server's sessions and of its event loops.

Paths below are relative to the repository; `zoom-c.c` means `src/zoom-c.c`.

## 1. Inventory

| Component | State | Operations | Hard behaviour | What makes it correct |
|---|---|---|---|---|
| ZOOM connection (`zoom-c.c`, `zoom-event.c`, `zoom-socket.c`) | task queue, event queue, COMSTACK, select mask, error, redirect location and count, reconnect permission | connect, search, scan, package send, sort; `ZOOM_event` (process, socket ready, timeout) | asynchronous answers, partial reads and writes, failed connects, reconnects, timeouts, redirects, calls between events | answers reach the task that asked; no task is stranded; errors are not lost; the asserts hold |
| ZOOM protocols (`zoom-z3950.c`, `zoom-sru.c`) | per task: start, count; per set: size, liveness | request builders and response handlers, chained by their own replies | one response triggers the next request | each answer advances or ends the task |
| ZOOM result sets, record cache (`zoom-c.c`, `zoom-record-cache.c`) | reference count, link to the connection, set name, hit count, sort criteria, record hash | create, retrieve, sort, release, destroy; connection destroy | shared by the application, by queued tasks and by the connection; names reused; sessions lost | lives exactly while used; caches only its own records, in the current order |
| ZOOM second-level cache (`zoom-memcached.c`), queries (`zoom-query.c`) | key per result set, external cache; query and sort strategy | search, hit count, add, look up; the calls that make a query | stale or colliding keys, entries that expire amid a retrieval | records of the right query; real counts; query and sort sent as asked |
| COMSTACK (`comstack.c`, `tcpip.c`, `unix.c`) | connection state, addresses, buffers, surplus input, pending writes | connect, put, get, more, listen, accept | resolver thread, addresses in turn, proxies, non-blocking progress, surplus bytes kept for the next call | whole messages, in order, none lost |
| GFS event loop and listeners (`eventl.c`, `statserv.c`), daemon (`daemon.c`) | channel list, flags, forced events, idle times; processes | poll, dispatch, reap, listen, fork or thread; handshake, keep-alive | handlers that add or destroy channels during the dispatch; signals | no event lost, no freed channel used, each session served once, no zombie |
| GFS session (`seshigh.c`, `requestq.c`) | association state, incoming and outgoing queues, masks, backend handle | read, process, write, close, timeout | pipelined requests, partial writes, close with requests queued | one response per request at most, in order; every dead session is destroyed |
| GFS services (`seshigh.c`, `retrieval.c`) | none | Init, search, present, scan, sort, delete, extended services, SRU | message sizes, ranges at their ends, record syntaxes and schemas | every record reachable; the client is told the truth |
| HTTP, SRU, SOAP, Solr codecs (`http.c`, `uri.c`, `srw.c`, `srwutil.c`, `soap.c`, `solr.c`, `sru_facet.c`) | none | encode, decode, frame | chunked bodies, three bindings, three versions | round trip |
| ODR (`odr*.c`, `ber_*.c`) | encode and decode buffers | tags, lengths, primitive types, constructors | limits of lengths and tags | round trip; the framing finds every end |
| Query languages (`pquery.c`, `xmlquery.c`, `sortspec.c`, `cql*`, `ccl*`, `rpn2cql.c`, `rpn2solr.c`) | tables | parse, translate, print | escapes, masks, look-ahead, errors amid a tree | a translation asks for the same |
| Character sets (`siconv.c`, `iconv_*.c`, `utf8.c`, `iso5428.c`, ...) | decoder and encoder state | convert | combining characters and pages across buffer ends | round trip |
| MARC, OPAC, conversion (`marcdisp.c`, `marc_read_*.c`, `opac_to_xml.c`, `xml_to_opac.c`, `record_conv.c`, `record_render.c`) | record under construction | read, write, convert, render | lengths at their limits, order of parts | round trip; a rule does what it says |
| Utilities (`nmem.c`, `wrbuf.c`, `options.c`, `mutex.c`, `poll.c`, `log.c`, ...) | memory pools | allocate, transfer, free | ownership | nothing freed twice |
| Clients (`client/`, `zoom/`, `ztest/`) | user interface, test backend | - | - | - |

How they interact: the application calls ZOOM, which queues tasks on a
connection. `ZOOM_event` executes the first task, which encodes a request with
ODR and hands it to COMSTACK; when `yaz_poll` reports the socket, the bytes are
read through COMSTACK, decoded, and applied to the first task of the queue. A
response handler may send the next request itself. Everything runs in the
application's thread; concurrency comes from the peer, from the network and
from the calls that the application makes between two events. On the server
side the event loop calls the session handler for each ready channel; the
handler reads whole packages through COMSTACK, queues them, lets the backend
serve them and writes the responses as the channel has room.

## 2. Modules

| Module | Code | What it is |
|---|---|---|
| `ZoomConnection` | `zoom-c.c`, `zoom-event.c`, `zoom-socket.c`, control of `zoom-z3950.c` and `zoom-sru.c` | state machine |
| `ZoomConnectionSafety` | the same | proofs |
| `ZoomResultSetProofs`, `ZoomRecordCacheProofs` | result sets, record cache | proofs |
| `GfsSessionProofs` | the session, with its refinement | proofs |
| `GfsServerProofs` | the event loops | proofs |
| `ComStackProofs` | the transports | proofs |
| `ProofBasics` | - | lemmas: induction, recursion, sequences |
| `ZoomResultSet` | result sets, `zoom-record-cache.c` | state machine |
| `ZoomQuery`, `ZoomCache` | `zoom-query.c`, `zoom-memcached.c` | state machine of applications that share a cache |
| `ZoomCacheProofs` | the same | proofs |
| `ComStack` | `tcpip.c`, `unix.c` | state machine of both ends |
| `GfsSession` | `seshigh.c`, `requestq.c`, one channel of `eventl.c` | state machine |
| `GfsAnswers` | what `GfsSession` promises its client | abstract specification |
| `GfsServer` | `eventl.c`, `statserv.c` | state machine of processes and threads |
| `Daemon` | `daemon.c` | state machine |
| `GfsServices` | the handlers of `seshigh.c`, `retrieval.c` | operators |
| `HttpCodec`, `SruCodec`, `SolrCodec`, `OdrBer` | the codecs | operators |
| `PqfQuery`, `XmlQuery`, `SortSpec`, `CqlQuery`, `CqlConvert`, `CclQuery`, `SolrQuery` | the query languages | operators |
| `CharConv` | the character sets | operators |
| `MarcRecord`, `MarcXml`, `OpacRecord`, `RecordConv` | the records | operators |
| `YazTypes` | - | helpers |
| `MCCases`, `MCCodecs`, `MCServices`, `MCChars`, `MCQueries`, `MCRecords`, `MCData` | - | bounded inputs and properties of the operators |
| `MCHttp`, `MCResultSets` | - | several setups of `ZoomConnection` and `ZoomResultSet` in one run |
| `MCServer`, `MCCache` | - | values for constants |

### ZoomConnection

One connection with its tasks, its events and its COMSTACK. `conn` is
`struct ZOOM_connection_p` with the transport connection; each handler is an
operator from that record to the next one and stands for the whole C function.
What the network and the peer do in a handler are its parameters: `w` for
`cs_put`, `k` for `cs_connect`, `r` for `cs_get` or `cs_rcvconnect`, and `a` for
what an answer says. The actions choose them with `\E`.

| Action | Code |
|---|---|
| `Connect`, `Search`, `Sort`, `Scan`, `PackageSend` | the API calls that queue a task |
| `Process` | `ZOOM_connection_process`: deliver an event or execute the first task |
| `FireSocket` | `ZOOM_event_sys_yaz_poll` and `ZOOM_connection_do_io`: connect completes, a write goes on, a message is read and handled |
| `FireTimeout` | `ZOOM_connection_fire_event_timeout` |

A Z39.50 answer is handled by `HandleZ3950`, an HTTP one by `HandleHttp`, which
follows redirects, goes back to the first host after one, and closes connections
that the server does not keep alive. `conn.wire` records the requests that the
peer holds unanswered; the code has no such field, and it is what the
properties speak about. `conn.fault` records a failed assert or a NULL task.
`ConnectWhenBusy`, `CallOnError` and `ReuseAfterRedirect` say which liberties
the application takes; section 5 says what happens when it does.

### ZoomResultSet

The result sets of one connection. `zs.sets` are the `ZOOM_resultset_p`,
`zs.resultsets` is the connection's list, `zs.tasks` the tasks that refer to
the sets, `zs.server` what the server keeps under which name. A record is its
provenance: the query whose set it came from, the position there, and how often
that set had been sorted. So "the right record" is a statement about two
fields. Requests are sent whole and answered or lost; `ZoomConnection` has the
detail. At most one request is outstanding, which is what
`AnswerBelongsToHead` of `ZoomConnection` establishes.

An SRU page is a sequence of records, each with what it is (its position in the
result of the query that the server was asked) and the recordPosition that it
tells, which may be right, too low or absent. `SruPlace` is where the code
caches it: at the position told, if that is not before the one it counts.
`SruRecords` leaves out what is cached already, and `SruResponse` moves the range
on by the records of the page, wherever they went. The size is the server's when
the page has a numberOfRecords and 0 otherwise. With the liberty `gaps` the
server leaves records out and tells the positions of those behind (`Pages`).

| Action | Code |
|---|---|
| `Search`, `Retrieve`, `Sort`, `Destroy`, `Release` | the result set calls |
| `Disconnect`, `Connect` | `ZOOM_connection_destroy`, `ZOOM_connection_connect` |
| `Exec` | `ZOOM_connection_exec_task` of the first task |
| `Respond` | a search, present, sort or SRU response and what its handler does next |
| `Lose` | the session ends, with or without a reconnect |

### ZoomQuery, ZoomCache

`ZoomQuery` has the calls that make a query object (`prefix`, `cql`, `cql2rpn`,
`ccl2rpn`, `sortby`) with the five strategies by which a sort reaches the
server; `query_type`, the odr that holds the parsed query and what is generated
anew are fields. `ZoomCache` has applications, each with a connection and a
result set, that share a memcached or redis server: the key of a set, the hit
count and the records kept under it, and the two ways a set lives
(`live_set` 1 without the server, 2 with it). Entries expire (`ExpireCount`,
`ExpireRecord`) and the database changes (`Update`) at any time. `Accept` is an
answer of the server and all the handler does with it: store, ask for more,
search after all because a record is gone.

### ComStack

Client and server of one conversation. The client resolves (in a thread or at
once), connects to one address after the other, asks a proxy with CONNECT,
shakes hands with TLS, and writes messages piece by piece (`Straddr`,
`Connect`, `JoinResolver`, `AskProxy`, `ProxyAnswers`, `RcvConnect`, `Put`).
The network answers, refuses or resets (`Answers`, `Reset`) and delivers the
bytes in whatever pieces it likes; the server behind each address listens,
accepts and reads with `tcpip_get` and its surplus buffer (`Listen`, `Accept`,
`Get`). A byte knows its message and its place in it, so "whole and in order"
is a statement about what was got.

### GfsSession, GfsAnswers

One association and its channel. `Send` and `HangUp` are the client; `Poll` is
an iteration of the event loop, which leaves the events that are due in
`pending`; `AcceptMore`, `Input`, `Output`, `Exception` and `TimeOut` are the
calls of `ir_session` for them. `Input` reads every package that has come and
processes the first one, `Output` writes a piece of a response and, when it is
whole, processes the next package. A package is of one of the `Kinds`: Inits of
both versions and refused ones, requests that are answered and one that never
is (`trigger`), Close, garbage, and HTTP requests that keep the connection,
close it or are refused.

`GfsAnswers` is the client's view: answers come in the order of the requests,
at most one for each, the Close last. `GfsSession` implements it: `asked` is the
number of packages taken, `answers` are the whole answers on the wire, and the
session is over when it is destroyed or a Close was sent.

### GfsServer, Daemon

`GfsServer` has a process (or thread) for the server and, as the command line
has it, for each session. `Poll(p)` and `NoEvent(p)`, `SessionEvent(p)`,
`Accept`, `AcceptFails`, `ForkFails` and `Sweep(p)` are the event loop: the
descriptors are collected, the channels visited one by one while handlers put
new channels at the head of the chain, destroyed channels reaped. `chld` is a
SIGCHLD that is pending: a child that ends sets it (`LoopEnds`), one that ends
while it is set adds nothing, and `CatchChld` is the handler, which clears it and
waits for every child that has ended. `Kill` is SIGTERM, `ThreadStarts` is a new
thread that reads the listener's channel, `LoopEnds` and `ServerExit` are the ways
out. The command line (static, forking, threaded; `-1`, `-A`, `-i`) is chosen in `Init`.

`Daemon` has the parent that waits for the handshake, the keep-alive process,
its child, the pid file and the signals that are relayed.

### Operators and their cases

The modules of operators translate functions: what the C function builds from
its arguments, error paths included. Texts are sequences of symbols, where a
symbol is whatever the code compares as a whole. `MCCases` has one variable,
the case under test; each MC module defines the units, the inputs enumerated
for each unit, and the properties. A state is one case, so a run over these
modules enumerates inputs and an invariant is a statement about every input
within the bounds. What a property compares with is an inverse (decode after
encode), another implementation in YAZ (framing against decoding, a file of
qualifiers against the same in XML) or a reference definition of the meaning
(the strings that a term matches, the documents that a query finds, the pages
of a result set).

## 3. Runs

| Run | Module, cfg | Question | Properties |
|---|---|---|---|
| z3950 | `ZoomConnection`, `ZoomZ3950.cfg` | a Z39.50 connection under searches, scans, packages and sorts | `TypeOK`, `NoFault`, `AnswerBelongsToHead`, `ZeroMeansDone`, `EndIsLast`, `KeptErrorPersists`, `TasksFinish` |
| http | `MCHttp`, `MCHttp.cfg` | an SRU connection that connects on demand: kept alive or not, with searches of two requests; and one whose server redirects up to and beyond the limit | `IdleOrListening`, `TasksFinish` |
| init_refused | `ZoomConnection`, `ZoomInitRefused.cfg` | a refused Init with a diagnostic, and a search after it: **violation** expected | `FatalErrorPersists` |
| rs_z3950 | `ZoomResultSet`, `ResultSetZ3950.cfg` | result sets, chunked presents, sorts, lost sessions | `TypeOK`, `NoFault`, `KeptWhileUsed`, `CachedRightly`, `FetchedOrTold`, `TasksEnd` |
| rs_sru_names | `MCResultSets`, `MCResultSets.cfg` | reuse of set names with three sets and queries that could not be parsed; SRU pages that tell positions or not; SRU pages with gaps | `CachedRightly`, `FetchedOrTold`, `TasksEnd` |
| cache | `MCCache`, `MCCache.cfg` | two applications that share a cache server | `CacheIsTransparent`, `QueriesAreWhole` |
| comstack | `ComStack`, `ComStack.cfg` | both ends of a conversation, with failing addresses | `TransportSafe`, `GotInOrder`, `ConnectSettles`, `WrittenIsRead` |
| gfs_session | `GfsSession`, `GfsSession.cfg` | a session with pipelined packages and a client that may hang up | `SessionSafe`, `HandlesBalanced`, `AnswersInOrder`, `DeadIsDestroyed` |
| gfs_server | `MCServer`, `MCServer.cfg` | the event loops of a server in every mode | `ServerSafe`, `ClientsServed`, `ServerSettles` |
| data | `MCData`, `MCData.cfg` | codecs, services, character sets, queries and records on bounded inputs | the seven below |
| daemon_keepalive | `Daemon`, `DaemonKeepalive.cfg` | a service that crashes under keep-alive: **violation** expected | `CrashIsRestarted` |
| solr_parms | `MCData`, `SolrParms.cfg` | the arrays for the parameters of a request to Solr: **violation** expected | `SolrParmsFit` |

What the properties say:

* **Connection.** `AnswerBelongsToHead`: responses carry no reference, so the
  queue is the only thing that matches answers to tasks. `ZeroMeansDone` is the
  promise of the `ZOOM_event` documentation, `EndIsLast` is about the END event,
  `NoFault` about asserts and NULL tasks. `KeptErrorPersists`: an error that the
  switch of `clear_error` keeps is hidden neither by tasks queued later nor by what
  becomes of those queued before, until the application connects anew.
  `FatalErrorPersists` says the same of the errors that the comment above the
  switch names. `TasksFinish` is liveness. `IdleOrListening` is the
  inductive invariant of the proofs.
* **Result sets.** `KeptWhileUsed`: reference counts and the connection's list.
  `CachedRightly`: the cache holds records of the set's own query, at their
  positions, in the order of the last sort, also where SRU records tell a
  position of their own. `FetchedOrTold`: a retrieval that ends without error has
  the records of its range below the known size, or a surrogate diagnostic that
  says why not; run rs_sru_names excepts servers that leave gaps. `TasksEnd` is liveness.
* **Cache.** `CacheIsTransparent`: the records an application gets are those the
  server would have given to it, hit counts are ones a server gave, ranges have
  no gaps, no set is presented that was not searched for, and a retrieval takes
  a bounded number of requests, whatever expires in between. `QueriesAreWhole`:
  a query whose calls succeeded can be sent, with the last sort, in one place.
* **Transport.** `GotInOrder`: however messages are cut and joined, the reader
  gets them whole, in order, from the first, and none that was begun at another
  address. `TransportSafe`: no read past the buffer that is grown by doubling,
  nothing that fits is refused, one socket at a time. `ConnectSettles` and
  `WrittenIsRead` are liveness; the second would fail if `tcpip_more` forgot
  that a second message came with the first.
* **Session.** `SessionSafe`: a response that waits is watched for, no handler
  acts on an empty queue, pipelined packages wait only behind one that has no
  response, and what the client receives is made of whole responses.
  `HandlesBalanced`: every backend handle is the current one or was closed.
  `AnswersInOrder` is the refinement of `GfsAnswers`. `DeadIsDestroyed` is
  liveness.
* **Server.** `ServerSafe`: a handler gets the event polled for its own channel,
  a client is served by exactly one process, limits on sessions are kept, a
  thread finds its listener, and a signal is pending while a child waits to be
  waited for: a handler that waits for one child per signal would break this, and
  `ServerSettles` too. `ClientsServed`: connections are accepted and input is
  read. `ServerSettles`: no zombie stays, a one-shot server exits.
* **Data.** `WireSurvives` (HTTP, BER), `SruSurvives` (SRU in three bindings and
  three versions, but for two losses over SOAP that section 5 names; Solr), `ServicesAreTrue` (what responses of the frontend server
  say), `CharactersSurvive`, `PqfSurvives` (PQF, XML queries, sort
  specifications), `QueriesAskTheSame` (CQL, CCL, RPN, XCQL, Solr),
  `FormatsKeepRecords` (MARC, OPAC, conversion rules, rendering). Each is a
  conjunction of named parts, which the MC modules state and explain one by one.

The violations:

* `CrashIsRestarted`: `daemon.c:142` compares before it assigns, in
  `(p1 = waitpid(p, &status, 0) == (pid_t) (-1))`. After a successful wait `p1` is 0
  and never the child's process id, so the loop that `daemon.h:63` describes
  ("Repeatedly calls work handler if it makes a fatal error") ends after the first
  crash. The property says what the comment says, and TLC shows a crash after
  which nothing runs.
* `FatalErrorPersists`: `zoom-c.c:108` says that "problems such as Connection Lost or
  Init Refused are not cleared". A refused Init is `ZOOM_ERROR_INIT` only if the
  response says no more. With a diagnostic it is that diagnostic's code
  (`zoom-z3950.c:1738`), which the switch does not name: TLC connects, has the Init
  refused with a diagnostic, and queues a search, which clears it.
* `SolrParmsFit`: `solr.c:495` counts on 20 parameters and one more for each facet
  ("safe upper limit of args without extra_args", "to make room for facets"); a
  facet with a field, a limit, a start and a sort order adds four. TLC finds a
  search with four of them that takes 25 entries, with the end, of 24.

### Bounds

`MaxCalls` 3 on a connection is one call that connects and two tasks, or a task
that fails and two after it; the queue behaves the same from there on, and the
proofs cover every length. `MaxPieces` 1 splits each transfer once; a second
split repeats the state. `MaxRounds` 1 gives searches with and without a further
request. `MaxRedirects` is 2 where the code has 10: below, at and beyond the
limit all occur. For result sets `MaxHits` 2 with chunks of 1 gives sets that
are fetched in no, one or two presents, and starts at, before and beyond the
end; two sets share and reuse names; 3 calls suffice for search, retrieve, sort
and destroy in any order. In rs_sru_names three sets of one record each reuse
names while a third is in between, over 4 calls; the two SRU sets have up to two
records, the second two, so that pages come whole, in two halves, and after a
part was cached; a server with gaps has three records, so that a page of two may
begin late, skip one, or end early.

In the cache run one application makes two calls and the other three, with four
ways to make a query (unsorted, and sorted by three of the strategies), two
ranges that overlap, and a database that shrinks once (`Hits` is 2, then 1).
The two have one identity, or two that differ only in which name is the user's
and which the group's.

ComStack has two addresses, so that one can fail before, while and after it is
written to, and three messages of 2 and 3 bytes read with chunks of 4 into a
buffer of at most 8: a chunk holds less than one message, one, or the end of one
and the start of the next, and the buffer is doubled once and refused once.

A session gets three packages of ten kinds, with two hosts: one that is served,
one that waits and one that arrives in between. Answers have two pieces, a Close
one. The server has two clients and two listeners, one failed accept or fork,
and seven command lines that between them have every mode and limit.

For data, each bound is the least that has every case of the code: bodies of
two bytes and chunks of one and two; two parameters; four facets, the number at
which Solr's arrays are full; sets of four records, asked for in threes, of four
sizes around the limits; texts of four characters out of letters, precomposed
letters, marks and characters of several pages, into buffers of 10 and 12 bytes
(a buffer's end falls at every place of a character); PQF of three tokens, and
of four where the first opens a construct; CQL clauses with up to two operators;
CCL of three tokens; records with two fields. Where a table is large (code
pages, attribute sets) a few rows stand for it. The functions that take long to
evaluate reach the cases as fields of the constant `Yaz`, which `MCData.Library`
defines: TLC's coverage counts an operator once for every path of calls that
leads to it, and the parsers have too many paths for that.

Deadlock is not checked: when the calls or packages are used up an idle system
rests.

### Fairness

* `ZoomConnection`: weak fairness of `Process` and of `FireSocket \/ FireTimeout`:
  the application keeps calling `ZOOM_event`, as its documentation asks, and
  `yaz_poll` returns with a ready socket or when its timeout is over. Nothing
  forces the peer to answer. `ZoomResultSet` says the same of `Exec` and of
  `Respond \/ Lose`.
* `ComStack`: weak fairness of the client's next call, of the resolver thread, of
  the network's answer to a connect (the kernel gives up in the end), and of the
  server's next call. Nothing forces a client to close.
* `GfsSession`: weak fairness of the loop and of the handlers, strong fairness of a
  poll that finds room to write: a client that reads makes room again and again.
* `GfsServer`: weak fairness of each process's step, of accepting, of signal
  delivery (`CatchChld` while one is pending) and of a thread's start and end: the
  operating system schedules them.
* `Daemon`: weak fairness of every step of its own processes; crashes and signals
  are free.

## 4. Proofs

Each theorem holds for every value of the constants that satisfies the
assumptions of its module and the hypotheses in the third column: any number of
tasks, packages, clients, records, pieces and rounds. The hypotheses are the
conditions of section 5 under which the code behaves; each is needed, and the
last column says what TLC finds without it.

| Module | Theorem | Hypothesis | Without it |
|---|---|---|---|
| `ZoomConnectionSafety` | `TypeCorrect` | - | |
| | `ModesHold` (`IdleOrListening`), `NoFaultHolds`, `OnlyHeadRunsHolds`, `AnswerBelongsToHeadHolds`, `ZeroMeansDoneHolds`, `KeptErrorPersistsHolds`, `EndIsLastHolds` | `Discipline` | the first paragraph of section 5 |
| `ZoomResultSetProofs` | `ResultSetInvariant`, `TypesKept`, `KeptWhileUsedHolds` | - | |
| | `NoFaultHolds` | `Safe`: no `sortReleased`, `releaseBusy`, `sortUnsent`, `badQuery` | the table of liberties |
| `ZoomRecordCacheProofs` | `CachedRightlyHolds` | `Orderly`: no `releaseBusy`, `sortBusy`, `expert`; `share` only with named sets or SRU | the table of liberties |
| | `FetchedOrToldHolds` | `Steady`: no `sortBusy`, `expert`, `gaps` | the table of liberties |
| `ZoomCacheProofs` | `CacheInvariantHolds`, `QueriesAreWholeHolds`, `CacheIsTransparentHolds` | `KeysApart`, `QueriesMade`, no `Liberties` | the paragraph on `ZoomCache` in section 5 |
| `GfsSessionProofs` | `SessionInvariant`, `QueuesAreServed` | - | |
| | `NoFaultHolds`, `HandlesBalancedHolds` | `Known = Hosts` | the unknown host of section 5 |
| | `SessionSafeHolds` | the same, no `Polling`, `AnswerLength # CloseLength` | a stream with pieces of two responses |
| | `AnswersInOrderHolds` | no `Polling`, no `httpGarbage` | a 400 answer overtakes |
| `GfsServerProofs` | `ServerInvariant`, `SignalInvariant`, `ServerSafeHolds` | - | |
| `ComStackProofs` | `TransportSafeHolds` | - | |
| | `GotInOrderHolds` | no `LateReset`; `OneProxyAddress` | a message goes on at the next address |

None of the properties is inductive. What follows says which invariant is, and
how the proof goes.

**Connection.** `Discipline` excludes three liberties (connect amid an
operation; queuing before failed tasks are given up; with redirects, reuse after
a failed one and searches of several requests). That the answer belongs to the
first task depends on which request was written last, on whether all of it was
written, on what the connection does when it comes up, and on the error.
`IdleOrListening` puts this together: the connection is *idle* (no mask, nothing
outstanding, not connecting; the first task runs only if an error is about to
remove it) or it *listens* (the first task runs, no error, and either a connect
is in progress whose completion sends that task's request, or that request is
being written or is outstanding). The proof has a lemma per handler, which says
from which mode to which mode it leads, and composes them along the calls of the
code: `RemoveTask`, `Close`, `Lose`, `SendBuf`, `ExecTask`, then the response
handlers, `DoRead`, `DoIO` and the actions. For `EndIsLast` the invariant
`EndsRight` says in addition that either no END is queued, or one is, as the last
event, and the task queue is empty. Because these invariants are proved for every
constant, what the http run adds is the liveness of its configurations, which is
not. `KeptErrorPersistsHolds` follows from the same modes: while such an error is
set the connection is idle, and idle handlers only give tasks up.

**Result sets.** The invariant `RsInv` counts: a set's `refcount` is the number
of queued tasks that refer to it plus one for the application's handle, a set is
alive exactly while the count is above 0, it is in the connection's list exactly
while it points to the connection, what is alive at the server has a name, and an
outstanding request is the first task's. An operation that drops tasks drops as
many references as each set has tasks among them; `Drops` states this once for
`RemoveTask`, `RemoveTasks` and the calls, and the rest is one lemma per handler,
from `SearchStep` and `HandleRecords` up to the actions. `KeptWhileUsed` follows.
For `NoFault`, `Clean` adds that sets with tasks have their connection, and that
a queued sort of a set without a name has a search of that set before it.

**Record cache.** A response says neither which set its records are from nor
where they start. `Caches` says why the client is right about both: the server
keeps a set under its own name only (`OwnName`), linked sets differ in name
(`NamesApart`), no set of another query is kept under the name of one that was
searched (`Owned`; it does not hold of a set whose search is just being
answered, hence `Between`), a set with sort criteria has no records until they are
applied (`SpecFirst`), and when a sort is queued no record is kept and no task
before it asks for any (`SortsClear`). Most operations only forget: `Less` says
that records, server sets, links or tasks were removed, and one lemma keeps
`Between` for all of them. What adds records is `HandleRecords` (`FirstBetween`,
`PresentBetween`, `SruBetween`), what changes an order `SortResponse`. An SRU page is right
wherever its records go: `SruPlace` is the position told, which is the record's
own or lower than the one counted (`Pages`), or the one counted, which is the
record's own if none was left out before it, and a position that has a record
already has the right one.

For `FetchedOrTold` the invariant `Fetches` says of every queued retrieval that
it has lost nothing: the records between `from` and `start` are cached, and what
is left of its range reaches to its end or to that of the set (`Fetched`). A sort
empties the cache under retrievals that are queued; that is harmless only for one
that asks for no more records and so has not moved on (`Resting`). In addition
the size of a set is what the server found, or 0 (`Known`), so it never grows
past the range that was cut to it, and a search that sorts afterwards brings no
records (`Wired`). In the middle of a handler the first task may also be one
that a surrogate diagnostic stopped (`Midway`); `AdvancedDone` is the step at
which `skip_cached` finds nothing left, and the retrieval is `Satisfied`.

**Shared cache.** `CacheInvariant` has a part for the cache server and one for
each connection. `StoreSafe`: what is kept under a key is a count that the server
gave, or a record of a set that some identity and some script of calls lead to
whose key this is (`Keeps`), so it does not matter who stored it. For this the
joined string has to tell its parts: `SplitsAtSeparator` is about two sequences
with the same separator, and `KeyTells` peels user, group and password off with
it, which leaves the query (`HashTells`). `QueriesAre` is an induction over an
application's calls: a query is `Whole` once it is set, whichever call fails or
sorts before or after, and `SortsReach` says that the sort is then in the text, in
the request or in a Sort of its own, and in one of them only. Of a connection
`ClientSafe` says whose set it has (`Named`), that the records at hand are of that
set and the size is real (`Base`), what the server has for it (`AtServer`), and how
far a retrieval has come: what was passed is at hand, and what is left is being
asked for, with the requests counted (`Progress`, `Waiting`); one that is done
filled its range up to the size (`Finished`). One lemma per answer handler shows
this for what the handler does next, through `MemcachedSearch`, `Clamp`, `Skip`,
`TakeRecords` and `SortPresent`; a step of another connection, an entry that
expires and a new version of the database only change the store and the version,
which keeps it too. The hypotheses are predicates of the constants in `ZoomCache`;
`MCCache` assumes them of the applications of the run.

**Session.** `Inv` says of the two queues, the response in the making and the
channel's masks how they fit: a response that waits has its channel watched for
output; a request waits only behind one that has no answer yet; the state of the
association tells whether a last request and a backend handle are there. The
handlers call each other through `process_gdu_response`, whose loop is
`Drain`, a recursive function over the packages that are left; the proof shows by
induction that it exists and that every turn keeps the invariant. `FlowInv`
relates the queues to the bytes on the wire (whole responses, then the written
part of the first one that is queued) and to the numbers of the requests they
answer. From it comes the refinement: the initial state of `GfsSession` is one of
`GfsAnswers`, and each step is one of its steps or a stutter.

**Server.** `IInv` has ten parts: chains have no channel twice; the channels that
were polled for are the last ones of the chain, in their order, because handlers
put new ones in front only; listeners are with the main process, a worker serves
the client that it was made for; a client in a queue waits and is in one queue,
once; a client that was accepted has one process; the sessions that were started
are counted, and the count is what `-1` and `-A` compare. `SignalInv` says in
addition that a child that waits to be waited for has its signal pending: a child
ends with a signal, and the handler that takes it leaves no such child behind.
`ServerSafe` follows with no hypothesis: `ParentChannelThere` excepts, as the
definition says, the limits with threads.

**Transport.** `TInv` says of the client that a message is half written or none
is (`Half`), that the resolver's thread is joined before the first address is
tried (`Joined`), and that of the connections only the one to the address being
tried is open, those behind it untouched (`OneOpen`); of a server that its
buffers are absent or have room for a chunk and hold what was put aside
(`Roomy`). That `tcpip_get` stays within its buffer is a lemma about its loop
(`RoomsHold`, `RoomsGrow`: the buffer of each turn is a recursive function of the
turns), and `TransportSafe` follows without a hypothesis. For `GotInOrder`,
`Stream` says that what a server has in `altbuf` and on the wire are consecutive
bytes, from the first one of the message that it expects up to the one that the
client writes next; `Written` says how far the client can be: a connection that
does not stand yet, or was lost, has carried nothing. A call of `cs_put` appends
to the stream (`FollowsBytes`, `FollowsJoin`), a call of `cs_get` takes a whole
message from its front (`FollowsRest`) or nothing, a call that goes on to the next
address begins a new one (`FreshKeeps`).

**Induction.** The library's induction theorems take an operator as a parameter,
which none of the provers can instantiate. `ProofBasics` has induction over a
set instead (`SetInduction`: a set that holds 0 and with every number the next one
holds them all), and from it the existence of functions defined by recursion over
the naturals (`RecursionExists`). So recursive functions (`Drain`, `CheckOptions`,
`Kept`) can be proved about; RECURSIVE operators cannot, because tlapm has no SMT
backend in a module that reaches one.

Only model-checked: liveness (`TasksFinish`, `TasksEnd`, `ConnectSettles`,
`WrittenIsRead`, `DeadIsDestroyed`, `ClientsServed`, `ServerSettles`; TLAPS
1.4.5 handles neither fairness nor ENABLED); and the properties of the modules
of operators, which are RECURSIVE and whose inputs are bounded anyway.

## 5. What the models say about the code

The properties hold of the code under the conditions that the constants state.
This section lists what the constants and the bounded inputs leave out because
the code behaves differently there; each was met while modelling.

### Client

With `ConnectWhenBusy`: `ZOOM_connection_connect` on an open connection removes
the tasks and returns (`zoom-c.c:372`). If the Init response is still to come and
a search is queued meanwhile, the Init handler finds the search and its assert
(`zoom-z3950.c:1756`) fails. With `CallOnError`: a timeout sets an error, and
`ZOOM_event` gives up the tasks when it sees it; a task queued first clears the
error (`zoom-c.c:153`), the failed task stays first, marked running, without a
socket, and `ZOOM_event` returns 0. With redirects and `MaxRounds` 1:
`handle_http` closes the connection at the end of a redirect (`zoom-c.c:1613`),
after `ZOOM_handle_sru` may have sent the next request on it. With
`ReuseAfterRedirect`: the location of a redirect whose connect failed is
requested by the next connect (`zoom-c.c:2016`), when no task waits for it.

A refused Init with a diagnostic stores that diagnostic's code, which
`clear_error` does clear (`zoom-z3950.c:1738`), although its comment promises
otherwise for refused Inits (run init_refused). A task on a connection that was closed is removed
without an error (`zoom-c.c:1497`). A reconnect sends an extended-services
package again (`zoom-c.c:912`), which the server may then perform twice. The
mutex around the count of result sets is created without a lock (`zoom-c.c:669`).

`Liberties` of `ZoomResultSet` names what the application (or the server) does
beyond safe use:

| Liberty | What TLC finds |
|---|---|
| `sortBusy` | `CacheInOrder` fails: the cache is emptied when the sort is queued (`zoom-c.c:846`), a retrieval queued before it fills it afterwards; `FetchedOrTold` too: what it had fetched before is not asked for again |
| `releaseBusy` | `NoFault` fails: `zoom-record-cache.c:70` puts its event on the connection that the release took away |
| `emptyPages` | over SRU `TasksEnd` fails: records that did not come are asked for again (`zoom-sru.c:387`); the Z39.50 handler stops with a surrogate diagnostic |
| `gaps` | `FetchedOrTold` fails: `zoom-sru.c:379` moves the range on by the records of a page, also when a recordPosition has put one further on (`zoom-sru.c:341`). A search for two records of two that is answered with the second one, told at its position, then finds the second at hand and ends without an error and without the first. `CachedRightly`, `NoFault` and `TasksEnd` hold (run rs_sru_names) |
| `badQuery` | harmless over Z39.50 (run rs_sru_names); over SRU `NoFault` fails, `zoom-sru.c:204` dereferences the missing query |
| `sortReleased` | `NoFault` fails: `zoom-c.c:826` uses the connection two lines before testing it |
| `sortUnsent` | with `badQuery`, `NoFault` fails: `zoom-z3950.c:1531` copies a set name that does not exist |
| `share` | at a server without named sets `RecordsBelong` fails: all sets are called `default` (`zoom-z3950.c:811`) |
| `expert` | with a start above 0 `RecordsBelong` fails: the records of a search response are cached from start on (`zoom-z3950.c:1460`), the server returned the first ones. With steps of 0 `FetchedOrTold` fails: a sort queued while the sort criteria of the search are applied empties the cache of the records that came with the search |

In `ZoomCache`, two `Databases` make `RecordsAreOfTheSet` fail: the key has no
database name (`zoom-memcached.c:204`). The key is one string, so it fails too
if a part of the key holds the separator; `KeysApart` excludes both. It also
fails with a sort made after the search (`laterSort`). With `failures`
`CountsAreReal` fails: a failed Z39.50 search leaves its 0 in the cache
(`zoom-z3950.c:1375`). With `growth` and `Hits` 1, 2 `RangesAreFilled` fails: a
retrieval is cut off at the size that came from the cache (`zoom-z3950.c:1657`),
the search that a missing record makes necessary then says that the set is
larger. Without `QueriesMade` `QueriesAreWhole` fails: a query that is sorted
with `sru11` and then with another strategy keeps the keys of the first, so that
an SRU request sorts twice (`zoom-query.c:57`), and one that was sorted but
never set has nothing to send. A failed `sortby` leaves the new strategy without
criteria, and a query that cannot be generated anew was reset already
(`zoom-query.c:55`).

### Transport and server

With `LateReset` `GotInOrder` fails: a reset amid a message goes on at the next
address with the rest (`tcpip.c:1380`). With two `ProxyAddresses` the CONNECT is not
sent to the second. `tcpip_accept` that cannot make the socket non-blocking leaves
the listener unable to accept.

A fork that fails destroys the listener and leaves the accepted connection open
(`statserv.c:1007`). With `-1` or `-A` and `-T` the listener's channel may be freed
while the new thread reads it (`statserv.c:1083`), which `ParentChannelThere`
excepts. Static `-A n` accepts `n + 1` connections, and `remove_listeners`
(`statserv.c:1219`) destroys the sessions too; `-A` does nothing in forking mode. A
SIGTERM outside of poll is noticed at the next interrupted call. The daemon closes
the pipe to its parent before it writes the pid file, contrary to the comment at
`daemon.c:287`.

In a session: a 400 answer to garbage over HTTP is queued before the answers to
earlier pipelined requests (`seshigh.c:340`); a backend that asks whether its
association is alive re-enters `ir_read` (`Polling`); an unknown host with HTTP
keep-alive follows a NULL pointer (`seshigh.c:2008`); with `CloseLength` equal to
`AnswerLength` a Close continues a purged response; TLS that wants to read while
it writes runs on an empty queue (`seshigh.c:429`); requests pipelined behind a
refused Init are processed. A PQF query over SRU that cannot be parsed gets an
empty answer without a diagnostic (`seshigh.c:1005`); when the last record is
dropped for its size nextResultSetPosition is 0 (`seshigh.c:2625`).

### Codecs

Chunk lines that end in a bare LF are framed, and decoded wrongly (`http.c:99`); a
204 or 304 gets a body (`http.c:344`); constructed octet strings lose pieces
(`ber_oct.c:35`). recordVersions are written as `version` and read as
`recordVersion` (`srw.c:209`); an XCQL query in a GET of version 1 is not read. Over
SOAP in version 2 the decoder of an explain reads recordPacking as if it were of
version 1 (`srw.c:784`), and that of a scan reads no queryType (`srw.c:833`);
`LostOverSoap` excepts these two. More than three complete facets overflow the
parameter arrays for Solr (`solr.c:495`, run solr_parms); an error of Solr is lost
when a result follows it.

### Queries

A quoted term that begins with `@` and a digit is an operator (`pquery.c:78`);
`@term null` is printed without a blank (`querytowrbuf.c:137`); operators are
compared without their last letter (`pquery.c:56`). The third key of a SORTBY
replaces the second, because each is put in the place after the first
(`cql.y:91`), so `SortbySurvives` is about two keys; sort keys with a schema of four letters or more
are garbled; an error of a left operand is overwritten by the right
(`cqltransform.c:933`); XCQL is not balanced when only a relation has a URI
(`xcqlutil.c:73`). CCL: a list of qualifiers with an error uses the tree it freed
(`cclfind.c:1076`), removal of stop words keeps pointers to freed children
(`ccl_stop_words.c:80`), attribute sets are freed twice (`cclqfile.c:190`).

### Records and character sets

Lengths beyond the digits of a directory entry are written whole
(`marcdisp.c:1197`); an empty 00X field is read as danMARC; the line format cannot
tell `$x` in data from a subfield in some places; a GRS-1 record with a character
set is rendered twice (`record_render.c:148`). A superscript followed by a character
of another page selects the wrong page in MARC-8 (`iconv_encode_marc8.c:247`); an
EACC character before a precomposed letter at a buffer's end loses the escape
(`iconv_encode_marc8.c:376`); the 16 bytes of `wrbuf_iconv_reset` are too few for
three marks in danMARC (`wrbuf.c:290`); eight marks in a row swallow a byte
(`iconv_decode_marc8.c:85`).

## 6. What is not modelled

* `zoom-opt.c` (lists of names and values); record objects outside of the cache.
* Several connections in one `ZOOM_event`: `yaz_poll` waits as long as the last
  connection of the array says and fires its timeout at all of them
  (`zoom-socket.c:47`). A `FireTimeout` that may come at any time stands for it.
* In `ZoomConnection`: HTTP over local sockets, TLS renegotiation that wants to
  read while writing, sorts or packages over HTTP, and a server that answers with
  a message of another type than asked for, except that it may close.
  `FireSocket` may happen while events are pending, which is more than
  `ZOOM_event` does.
* In `ZoomResultSet`: several syntaxes or schemas per record, and set names that
  the application chooses. An SRU record that tells a position too high is a wrong
  server's: the code has no other source and caches it there. Surrogate
  diagnostics among SRU records are cached like records (`zoom-sru.c:365`). A page
  without a numberOfRecords makes the size 0, so that `FetchedOrTold`, which speaks
  of the records below the known size, asks nothing of a retrieval that it ends.
* Certificates and the inside of TLS; `url.c`, which follows the same HTTP code
  synchronously; `cookie.c` and the helpers that set single HTTP headers.
* The XML configuration of the server, explain records, the request echoed in
  SRU responses.
* Generated code: the ASN.1 packages of Z39.50 and ILL, which are tables over the
  ODR operators, and the code pages made from `codetables.xml`, of which a few
  rows stand for all. ICU chains are calls into a library.
* What a stylesheet or an RDF service does to a record.
* Memory pools, logging, `json.c`, wrappers of system calls: no state that others
  share, or that outlives a call. Memory that is freed too early is `Garbage` in
  `CclQuery` and `fault` in the state machines, and not modelled elsewhere.
* Programs: `client/`, `zoom/`, `ztest/`, `util/`.

## 7. Plan

Modelled and checked: everything in section 2. Proved: the safety of
`ZoomConnection`, `ZoomResultSet`, `ZoomCache`, `GfsSession`, `GfsServer` and
`ComStack`; section 4 says what stays with the model checker.
