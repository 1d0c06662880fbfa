------------------------------ MODULE ComStack ------------------------------
(***************************************************************************)
(* The COMSTACK transports: a client that connects to the first of several *)
(* addresses that answers and writes messages, and a server behind each    *)
(* address that accepts and reads them (src/src/tcpip.c, src/src/unix.c).  *)
(* Both ends are non-blocking.  A byte is <<m, i>>: byte i of message m;   *)
(* message 0 is the CONNECT request to a proxy.  The client goes on as     *)
(* ZOOM does: when a connection is there it starts with message 1.         *)
(***************************************************************************)
EXTENDS YazTypes

CONSTANTS Addresses,      \* what the name resolves to: addresses 1..Addresses
          Messages,       \* messages to send: 1..Messages
          FirstLength,    \* bytes of message 1 (and of message 0)
          Length,         \* bytes of every other message
          Chunk,          \* CS_TCPIP_BUFCHUNK
          MaxRecv,        \* max_recv_bytes
          Resolver,       \* CS_FLAGS_DNS_NO_BLOCK: names are resolved in a thread
          Schemes,        \* of the addresses that the client may be given
          ProxySchemes,   \* of the proxies, NULL for none
          ProxyAddresses, \* the addresses of a proxy: 1..ProxyAddresses
          LateReset       \* may a connection that has carried bytes be reset?

ASSUME BoundsAssumption ==
  /\ Addresses \in Nat \ {0} /\ Messages \in Nat \ {0} /\ Chunk \in Nat \ {0}
  /\ FirstLength \in Nat \ {0} /\ Length \in Nat \ {0} /\ MaxRecv \in Nat
  /\ {Resolver, LateReset} \subseteq BOOLEAN
  /\ ProxyAddresses \in 1..Addresses
  /\ Schemes \cup ProxySchemes \subseteq {"tcp", "ssl", "http", "https", "unix", "NULL"}

VARIABLES h,     \* the client's COMSTACK with its tcpip_state
          app,   \* the message that the client writes
          link,  \* what became of the connection to each address
          wire,  \* bytes that were sent to each address and not yet received
          srv,   \* the COMSTACK of each server
          got    \* the messages that each server has read

vars == <<h, app, link, wire, srv, got>>

Addr == 1..Addresses
Size(m) == IF m <= 1 THEN FirstLength ELSE Length
Bytes(m) == [i \in 1..Size(m) |-> <<m, i>>]

-----------------------------------------------------------------------------
(* cs_parse_host: what a scheme stands for.                                *)
ParseHost(scheme) ==
  [type |-> CASE scheme \in {"ssl", "https"} -> "ssl" [] scheme = "unix" -> "unix"
              [] OTHER -> "tcp",
   proto |-> IF scheme \in {"http", "https"} THEN "HTTP" ELSE "Z3950"]

(* cs_create_host2: the stack for an address and a proxy, and whether the  *)
(* proxy is to be asked to CONNECT or (mode) is spoken to itself; a proxy  *)
(* is reached over plain TCP or not at all.                                *)
CreateHosts(scheme, proxy) ==
  LET v == ParseHost(scheme)
      p == ParseHost(proxy)
      tunnel == v.type = "ssl" \/ (v.proto = "Z3950" /\ p.proto = "HTTP")
  IN CASE proxy = NULL -> {[type |-> v.type, connect |-> FALSE, mode |-> FALSE]}
       [] proxy # NULL /\ p.type # "tcp" -> {}
       [] OTHER -> {[type |-> v.type, connect |-> tunnel /\ v.type # "unix",
                     mode |-> ~tunnel]}

(* The client's end. pipe says that the resolver thread has not been       *)
(* joined; ai is the address being tried, Addresses + 1 when all have been.*)
NewStack(c) == [tls |-> c.type = "ssl", unix |-> c.type = "unix", proxy |-> c.connect,
             last |-> CASE c.type = "unix" -> 1
                        [] c.type # "unix" /\ (c.connect \/ c.mode) -> ProxyAddresses
                        [] OTHER -> Addresses,
             state |-> "UNBND", event |-> "NONE", io |-> {}, ai |-> 0, pipe |-> "none",
             phase |-> 0, session |-> FALSE, towrite |-> -1, written |-> -1, err |-> NULL]

Fails(s, code) == [stack |-> [s EXCEPT !.err = code], ret |-> -1]

(* tcpip_rcvconnect once the connection stands: the CONNECT exchange with  *)
(* a proxy is over and, with TLS, so is the handshake.                     *)
Connected(s) == [stack |-> [s EXCEPT !.event = "DATA", !.state = "DATAXFER"], ret |-> 0]

(* connect(2) at address a or, as long as it fails at once, at the next    *)
(* (tcpip_connect, cont_connect).  Nothing but the socket is new: what was *)
(* written of a message, and the phase of the CONNECT exchange, stay.      *)
TryFrom(s, a) ==
  {[stack |-> [s EXCEPT !.state = "CONNECTING", !.event = "CONNECT", !.ai = b,
                        !.session = FALSE,
                        !.io = IF s.unix THEN {"WRITE"} ELSE {"WRITE", "READ"}], ret |-> 1] :
     b \in a..s.last}
  \cup {[stack |-> [s EXCEPT !.err = "CSYSERR", !.ai = Addresses + 1], ret |-> -1]}

(* tcpip_connect: with a thread at work the caller waits for its pipe.     *)
TcpipConnect(s) ==
  CASE s.state # "UNBND" -> {Fails(s, "CSOUTSTATE")}
    [] s.state = "UNBND" /\ s.pipe # "none" ->
         {[stack |-> [s EXCEPT !.event = "CONNECT", !.state = "CONNECTING", !.io = {"READ"}],
           ret |-> 1]}
    [] OTHER -> TryFrom(s, 1)

(* cont_connect: the next address, if there is one.                        *)
ContConnect(s) ==
  IF s.ai >= s.last THEN {Fails(s, "CSYSERR")} ELSE TryFrom(s, s.ai + 1)

(* unix_connect: one address, three attempts while the backlog is full.    *)
UnixConnect(s) ==
  IF s.state # "UNBND" THEN {Fails(s, "CSOUTSTATE")}
  ELSE TryFrom(s, 1)

-----------------------------------------------------------------------------
\* (mutant) a message that is not done is started again from its first byte
TcpipPut_Restarts(s, m, sent) ==
  LET n == Least(Size(m), sent)
  IN {[stack |-> [s EXCEPT !.io = {"WRITE"}, !.event = "DATA", !.towrite = Size(m),
                           !.written = 0], ret |-> 1, wire |-> SubSeq(Bytes(m), 1, n)],
      [stack |-> [s EXCEPT !.io = {}, !.event = "DATA", !.towrite = -1, !.written = -1],
       ret |-> 0, wire |-> Bytes(m)]}

(* tcpip_put of message m when the socket takes sent bytes before it is    *)
(* full: what is left of the message.                                      *)
TcpipPut(s, m, sent) ==
  LET begun == IF s.towrite < 0 THEN [s EXCEPT !.towrite = Size(m), !.written = 0] ELSE s
      left == begun.towrite - begun.written
      bytes == SubSeq(Bytes(m), begun.written + 1, begun.written + Least(left, sent))
  IN CASE s.towrite >= 0 /\ s.towrite # Size(m) ->
            {[stack |-> [s EXCEPT !.err = "CSWRONGBUF", !.io = {}, !.event = "DATA"],
              ret |-> -1, wire |-> <<>>]}
       [] ~(s.towrite >= 0 /\ s.towrite # Size(m)) /\ sent < left ->
            {[stack |-> [begun EXCEPT !.io = {"WRITE"}, !.event = "DATA", !.written = @ + sent],
              ret |-> 1, wire |-> bytes]}
       [] OTHER -> {[stack |-> [s EXCEPT !.io = {}, !.event = "DATA", !.towrite = -1,
                                         !.written = -1], ret |-> 0, wire |-> bytes]}

(* The same when send(2) fails: a non-blocking TCP stack tries the next    *)
(* address, a Unix stack gives up (unix_put).                              *)
PutFails(s, m) ==
  LET begun == IF s.towrite < 0 THEN [s EXCEPT !.towrite = Size(m), !.written = 0] ELSE s
  IN CASE s.towrite >= 0 /\ s.towrite # Size(m) -> {Fails(s, "CSWRONGBUF")}
       [] ~(s.towrite >= 0 /\ s.towrite # Size(m)) /\ s.unix -> {Fails(begun, "CSYSERR")}
       [] OTHER -> ContConnect(begun)

-----------------------------------------------------------------------------
(* cs_complete_auto: the length of the message at the start of a buffer, 0 *)
(* when there is not all of it, -1 when there is no message there.         *)
Complete(b) ==
  CASE b = <<>> -> 0
    [] b # <<>> /\ b[1][2] # 1 -> -1
    [] OTHER -> IF Len(b) >= Size(b[1][1]) THEN Size(b[1][1]) ELSE 0

\* (mutant) the buffer does not grow
GrowBuffer_Never(size, has) == IF size = 0 THEN Chunk ELSE size

(* Room for one more recv(2); 0 when the buffer may not grow that far.     *)
GrowBuffer(size, has) ==
  LET twice == IF size > MaxRecv \div 2 THEN MaxRecv ELSE size * 2
  IN CASE size = 0 -> Chunk
       [] size > 0 /\ size - has >= Chunk -> size
       [] OTHER -> IF twice - has < Chunk THEN 0 ELSE twice

(* What the buffer holds after k calls of recv(2).                         *)
Received(s, w, k) == s.alt \o SubSeq(w, 1, Least(k * Chunk, Len(w)))

(* The loop of tcpip_get ends after k calls of recv(2): there is a message *)
(* (or no message can come of it), or there is nothing more to receive.    *)
LoopEnds(s, w, k) == Complete(Received(s, w, k)) # 0 \/ k * Chunk >= Len(w)

Turns(s, w, k) == LoopEnds(s, w, k) /\ \A j \in 0..(k - 1) : ~LoopEnds(s, w, j)

(* The size of the buffer before each recv(2): the caller's buffer, or     *)
(* altbuf when that holds something, grown as needed.                      *)
Rooms(s, w, n) ==
  LET room[k \in 0..n] ==
        IF k = 0 THEN IF s.alt # <<>> THEN s.altsize ELSE s.size
        ELSE GrowBuffer(room[k - 1], Len(Received(s, w, k - 1)))
  IN room

(* The surplus moves to altbuf, rounded up to chunks.                      *)
AltSize(old, n) ==
  LET req == n + (IF n % Chunk = 0 THEN 0 ELSE Chunk - (n % Chunk))
  IN Most(old, req)

(* tcpip_get and unix_get: the buffers change places when altbuf holds     *)
(* something; then bytes are received until there is a message.  A peer    *)
(* that has closed leaves what there is of one, which is then no message.  *)
(* turns is how often recv(2) returns bytes.                               *)
TcpipGet(s, w, eof, turns) ==
  LET waits == Complete(Received(s, w, turns)) = 0
      calls == IF waits THEN turns + 1 ELSE turns
      room == Rooms(s, w, calls)
      has == Received(s, w, turns)
      n == Complete(has)
      tooLong == \E k \in 1..calls : room[k] = 0 \/ Len(Received(s, w, k)) > MaxRecv
      other == IF s.alt # <<>> THEN s.size ELSE s.altsize
      more == SubSeq(has, n + 1, Len(has))
      ret == CASE tooLong -> "CSBUFSIZE"
               [] ~tooLong /\ n = 0 -> IF eof THEN "eof" ELSE "again"
               [] OTHER -> IF n < 0 THEN "CSPROTERR" ELSE "message"
      kept == IF ret \in {"again", "message"} THEN more ELSE <<>>
  IN [stack |-> [s EXCEPT !.size = room[calls], !.alt = kept,
                          !.altsize = IF kept = <<>> THEN other ELSE AltSize(other, Len(kept))],
      wire |-> SubSeq(w, Least(turns * Chunk, Len(w)) + 1, Len(w)),
      over |-> \E k \in 1..turns : /\ \A j \in 1..k : room[j] # 0
                                  /\ Len(Received(s, w, k)) > room[k],
      ret |-> ret, msg |-> IF ret = "message" THEN has[1][1] ELSE -1]

\* (mutant) a message that is already there is not noticed
TcpipMore_Never(s) == FALSE

(* tcpip_more: is there a message in altbuf already?                       *)
TcpipMore(s) == s.alt # <<>> /\ Complete(s.alt) # 0

NewServer == [listener |-> "IDLE", state |-> "none", alt |-> <<>>, altsize |-> 0, size |-> 0,
              over |-> FALSE, err |-> NULL]

-----------------------------------------------------------------------------
Init ==
  /\ \E scheme \in Schemes, proxy \in ProxySchemes : \E c \in CreateHosts(scheme, proxy) :
       h = NewStack(c)
  /\ app = 1
  /\ link = [a \in Addr |-> "idle"]
  /\ wire = [a \in Addr |-> <<>>]
  /\ srv = [a \in Addr |-> NewServer]
  /\ got = [a \in Addr |-> <<>>]

(* What a call at the client leaves behind: the sockets of addresses that  *)
(* were passed over are closed, and after an error cs_close closes all.    *)
Outcome(o) ==
  LET dead == o.ret < 0
      now == o.stack.ai
  IN /\ h' = IF dead THEN [o.stack EXCEPT !.state = "CLOSED", !.pipe = "none"] ELSE o.stack
     /\ link' = [a \in Addr |->
                   CASE (a < now \/ dead) /\ link[a] \in {"idle", "syn", "refused"} -> "closed"
                     [] (a < now \/ dead) /\ link[a] \in {"up", "reset"} -> "fin"
                     [] a = now /\ ~dead /\ o.stack.pipe = "none" /\ link[a] = "idle" -> "syn"
                     [] OTHER -> link[a]]

(* tcpip_straddr: the address list, here or in a thread.                   *)
Straddr ==
  /\ h.state = "UNBND" /\ h.pipe = "none" /\ h.ai = 0
  /\ h' = [h EXCEPT !.pipe = IF Resolver /\ ~h.unix THEN "running" ELSE "none", !.ai = 1]
  /\ UNCHANGED <<app, link, wire, srv, got>>

\* (mutant) the thread ends without a word
ResolverThread_Silent ==
  /\ h.pipe = "running"
  /\ UNCHANGED vars

(* resolver_thread: writes to the pipe when it is done.                    *)
ResolverThread ==
  /\ h.pipe = "running"
  /\ h' = [h EXCEPT !.pipe = "done"]
  /\ UNCHANGED <<app, link, wire, srv, got>>

Connect ==
  /\ h.state = "UNBND" /\ h.ai = 1
  /\ \E o \in IF h.unix THEN UnixConnect(h) ELSE TcpipConnect(h) : Outcome(o)
  /\ UNCHANGED <<app, wire, srv, got>>

(* The client calls cs_rcvconnect when poll says so, and starts over.      *)
(* wait_resolver_thread joins the thread and leads back to tcpip_connect.  *)
JoinResolver ==
  /\ h.state = "CONNECTING" /\ h.event = "CONNECT" /\ h.pipe = "done"
  /\ \E o \in TcpipConnect([h EXCEPT !.pipe = "none", !.state = "UNBND"]) : Outcome(o)
  /\ UNCHANGED <<app, wire, srv, got>>

Ready == /\ h.state = "CONNECTING" /\ h.event = "CONNECT" /\ h.pipe = "none"
         /\ link[h.ai] \in {"up", "refused", "reset"}

Alive == link[h.ai] = "up"

(* tcpip_rcvconnect, phase 0 and 1: the CONNECT request goes out, and the  *)
(* proxy says whether it may.                                              *)
AskProxy ==
  /\ Ready /\ h.proxy /\ h.phase = 0
  /\ \/ /\ Alive
        /\ \E n \in 1..Size(0) : \E o \in TcpipPut(h, 0, n) :
             /\ Outcome([o EXCEPT !.stack.event = "CONNECT",
                                  !.stack.phase = IF o.ret = 0 THEN 1 ELSE 0])
             /\ wire' = [wire EXCEPT ![h.ai] = @ \o o.wire]
     \/ /\ ~Alive /\ \E o \in PutFails(h, 0) : Outcome([o EXCEPT !.stack.event = "CONNECT"])
        /\ UNCHANGED wire
  /\ UNCHANGED <<app, srv, got>>

ProxyAnswers ==
  /\ Ready /\ h.proxy /\ h.phase = 1
  /\ \/ Alive /\ Outcome([stack |-> [h EXCEPT !.phase = 2], ret |-> 1])
     \/ Outcome(Fails(h, "CSDENY"))
  /\ UNCHANGED <<app, wire, srv, got>>

(* The rest of tcpip_rcvconnect: a TLS handshake may be interrupted (once),*)
(* and when it fails the next address is tried; without TLS a refused      *)
(* connection is not noticed here.                                         *)
RcvConnect ==
  /\ Ready /\ (h.proxy => h.phase = 2)
  /\ \/ /\ (h.tls => Alive)
        /\ Outcome(Connected([h EXCEPT !.session = h.tls]))
        /\ app' = 1
     \/ /\ h.tls /\ Alive
        /\ \E want \in {"READ", "WRITE"} :
             Cardinality(h.io) = 2 /\ Outcome([stack |-> [h EXCEPT !.io = {want}], ret |-> 1])
        /\ UNCHANGED app
     \/ /\ h.tls
        /\ \E o \in ContConnect(h) : Outcome(o)
        /\ UNCHANGED app
  /\ UNCHANGED <<wire, srv, got>>

-----------------------------------------------------------------------------
(* The client writes its messages, each until cs_put says that it is done. *)
Put ==
  /\ h.state = "DATAXFER" /\ app <= Messages
  /\ \/ /\ Alive
        /\ \E n \in 1..Size(app) : \E o \in TcpipPut(h, app, n) :
             /\ Outcome(o)
             /\ wire' = [wire EXCEPT ![h.ai] = @ \o o.wire]
             /\ app' = IF o.ret = 0 THEN app + 1 ELSE app
     \/ /\ ~Alive
        /\ \E o \in PutFails(h, app) : Outcome(o)
        /\ UNCHANGED <<wire, app>>
  /\ UNCHANGED <<srv, got>>

(* cs_close when everything is written (tcpip_close).                      *)
Close ==
  /\ h.state = "DATAXFER" /\ app > Messages
  /\ Outcome([stack |-> [h EXCEPT !.io = {}], ret |-> -1])
  /\ UNCHANGED <<app, wire, srv, got>>

-----------------------------------------------------------------------------
(* The peer's kernel takes a connection, or refuses it; a connection may   *)
(* be lost, with everything that was not yet received.                     *)
Answers(a) ==
  /\ link[a] = "syn"
  /\ link' = [link EXCEPT ![a] = "up"] \/ link' = [link EXCEPT ![a] = "refused"]
  /\ UNCHANGED <<h, app, wire, srv, got>>

Reset(a) ==
  /\ link[a] = "up" /\ (LateReset \/ (wire[a] = <<>> /\ got[a] = <<>> /\ h.written <= 0))
  /\ link' = [link EXCEPT ![a] = "reset"]
  /\ wire' = [wire EXCEPT ![a] = <<>>]
  /\ UNCHANGED <<h, app, srv, got>>

(* tcpip_listen and tcpip_accept at the server; with TLS, accept is called *)
(* again until the handshake is over.                                      *)
Listen(a) ==
  /\ srv[a].listener = "IDLE" /\ srv[a].state = "none" /\ link[a] \in {"up", "fin"}
  /\ srv' = [srv EXCEPT ![a].listener = "INCON"]
  /\ UNCHANGED <<h, app, link, wire, got>>

Accept(a) ==
  /\ srv[a].listener = "INCON" \/ srv[a].state = "ACCEPT"
  /\ \E s \in (IF h.tls THEN {"ACCEPT", "DATAXFER", "closed"} ELSE {"DATAXFER"}) :
       srv[a].state # s /\ srv' = [srv EXCEPT ![a].listener = "IDLE", ![a].state = s]
  /\ UNCHANGED <<h, app, link, wire, got>>

(* The server reads when there are bytes, or none will come, or tcpip_more *)
(* says that a message is there already.                                   *)
Get(a) ==
  /\ srv[a].state = "DATAXFER"
  /\ wire[a] # <<>> \/ link[a] \in {"fin", "reset"} \/ TcpipMore(srv[a])
  /\ LET eof == link[a] \in {"fin", "reset"}
     IN \E k \in {j \in 0..Len(wire[a]) : Turns(srv[a], wire[a], j)} :
        \E o \in {TcpipGet(srv[a], wire[a], eof, k)} :
          /\ srv' = [srv EXCEPT ![a] = [o.stack EXCEPT !.over = @ \/ o.over,
                       !.state = IF o.ret \in {"eof", "CSBUFSIZE", "CSPROTERR"}
                                 THEN "closed" ELSE @,
                       !.err = IF o.ret \in {"CSBUFSIZE", "CSPROTERR"} THEN o.ret ELSE @]]
          /\ wire' = [wire EXCEPT ![a] = o.wire]
          /\ got' = [got EXCEPT ![a] = IF o.ret = "message" THEN Append(@, o.msg) ELSE @]
  /\ UNCHANGED <<h, app, link>>

Server(a) == Listen(a) \/ Accept(a) \/ Get(a)

Client == \/ Straddr \/ Connect \/ JoinResolver \/ AskProxy \/ ProxyAnswers
          \/ RcvConnect \/ Put

-----------------------------------------------------------------------------
Next == Client \/ Close \/ ResolverThread \/ \E a \in Addr : Answers(a) \/ Reset(a) \/ Server(a)

(* The event loops of both ends go on while poll reports something, the    *)
(* resolver returns, and a connection attempt is answered or times out.    *)
(* Nothing says that a client ever closes.                                 *)
Fairness == /\ WF_vars(Client) /\ WF_vars(ResolverThread)
            /\ \A a \in Addr : WF_vars(Answers(a)) /\ WF_vars(Server(a))

Spec == Init /\ [][Next]_vars /\ Fairness

-----------------------------------------------------------------------------
TypeOK ==
  /\ h.state \in {"UNBND", "CONNECTING", "DATAXFER", "CLOSED"}
  /\ h.event \in {"NONE", "CONNECT", "DATA"} /\ h.io \subseteq {"READ", "WRITE"}
  /\ h.ai \in 0..(Addresses + 1) /\ h.phase \in 0..2 /\ h.session \in BOOLEAN
  /\ h.towrite \in -1..Most(FirstLength, Length) /\ h.written \in -1..Most(FirstLength, Length)
  /\ app \in 1..(Messages + 1)
  /\ link \in [Addr -> {"idle", "syn", "up", "refused", "reset", "closed", "fin"}]
  /\ \A a \in Addr : /\ srv[a].listener \in {"IDLE", "INCON"}
                      /\ srv[a].state \in {"none", "ACCEPT", "DATAXFER", "closed"}
                      /\ srv[a].altsize \in Nat /\ srv[a].size \in Nat
                      /\ wire[a] \in Seq((0..Messages) \X Nat) /\ got[a] \in Seq(0..Messages)

(* However the messages were cut and joined on the way, a server gets them *)
(* whole, in order and from the first one on (after the CONNECT request);  *)
(* nothing of what it gets belongs to a message begun at another address   *)
(* (src/src/tcpip.c:1350, src/src/tcpip.c:1395).                           *)
GotInOrder ==
  \A a \in Addr :
    /\ \A i \in DOMAIN got[a] : got[a][i] = IF h.proxy THEN i - 1 ELSE i
    /\ srv[a].err # "CSPROTERR"

(* No recv(2) writes past the buffer that tcpip_get grows by doubling, and *)
(* altbuf holds all that is moved there (src/src/tcpip.c:1248).            *)
BufferSafe ==
  \A a \in Addr : ~srv[a].over /\ (srv[a].alt # <<>> => Len(srv[a].alt) <= srv[a].altsize)

(* A message that leaves room for one chunk below max_recv_bytes is never  *)
(* refused as too long, whatever follows it (src/src/tcpip.c:1250).        *)
FitsIsTaken ==
  Most(FirstLength, Length) + Chunk <= MaxRecv + 1 =>
    \A a \in Addr : srv[a].err # "CSBUFSIZE"

(* Only one connection is ever open at the client's side: an address that  *)
(* was given up has its socket closed (src/src/tcpip.c:684).               *)
OneSocket ==
  Cardinality({a \in Addr : link[a] \in {"syn", "up", "refused", "reset"}}) <= 1

(* The attempts end: the stack is connected or closed for good, unless the *)
(* client never stops calling.                                             *)
ConnectSettles == <>(h.state \in {"DATAXFER", "CLOSED"})

(* What was written completely is read completely, also when two messages  *)
(* came in one segment and no further byte wakes the reader                *)
(* (src/src/tcpip.c:673).                                                  *)
WrittenIsRead ==
  \A a \in Addr : \A m \in 1..Messages :
    (h.state = "DATAXFER" /\ h.ai = a /\ app > m /\ link[a] = "up")
      ~> (link[a] = "reset" \/ srv[a].state = "closed" \/ \E i \in DOMAIN got[a] : got[a][i] = m)

(* What holds of the transports besides the order of messages: the reader  *)
(* stays within its buffer and takes what fits, the client has one socket  *)
(* (src/src/tcpip.c:684, :1248, :1250).                                    *)
TransportSafe == TypeOK /\ BufferSafe /\ FitsIsTaken /\ OneSocket
=============================================================================
