------------------------------ MODULE GfsServer ------------------------------
(***************************************************************************)
(* The generic frontend server as processes and threads: the event loop of *)
(* src/src/eventl.c, run by the main process over its listeners (and, in   *)
(* static mode, its sessions), by a child process for every session in     *)
(* dynamic mode, and by a thread for every session in threaded mode; the   *)
(* listener of src/src/statserv.c that accepts connections, and the        *)
(* options that it is started with.  What a session does with its input is *)
(* in GfsSession; here its handler takes it, or ends the session.          *)
(***************************************************************************)
EXTENDS YazTypes

CONSTANTS Clients,    \* each connects once
          Listeners,  \* the addresses of the command line
          ArgLists,   \* the command lines
          MaxFaults   \* how many calls of accept and fork fail

(* Where the server may listen: the addresses given, or the default one.   *)
Addresses == Listeners \cup {"tcp:@:9999"}

ASSUME GfsServerAssumption ==
  /\ MaxFaults \in Nat /\ IsFiniteSet(Clients)
  /\ Clients \cap (Addresses \cup {"main", NULL}) = {} /\ NULL \notin Listeners

(* An address is given once: it cannot be bound a second time.             *)
ASSUME ArgsAssumption ==
  \A args \in ArgLists :
    /\ args \in Seq({"1", "S", "T", "i", "A"} \cup Listeners)
    /\ \A j, k \in DOMAIN args : args[j] \in Listeners /\ args[j] = args[k] => j = k

VARIABLES cb,       \* the control block
          proc,     \* the processes or threads and the event loop of each
          backlog,  \* the connections that wait at each listener
          client,   \* where each client is
          wants,    \* the clients with input that nobody has read
          killed,   \* SIGTERM was sent to the main process
          chld,     \* SIGCHLD is pending for the main process: one, for any
                    \* number of children that ended
          faults,   \* faults so far
          starts    \* the sessions accepted

vars == <<cb, proc, backlog, client, wants, killed, chld, faults, starts>>

Main == "main"
Procs == {Main} \cup Clients

-----------------------------------------------------------------------------
(* check_options, one option: -1, -S, -T, -i, -A n and listener addresses. *)
Option(block, o) ==
  CASE o = "1" -> [block EXCEPT !.oneShot = TRUE, !.dynamic = FALSE]
    [] o = "S" -> [block EXCEPT !.dynamic = FALSE]
    [] o = "T" -> [block EXCEPT !.dynamic = FALSE, !.threads = TRUE]
    [] o = "i" -> [block EXCEPT !.inetd = TRUE]
    [] o = "A" -> [block EXCEPT !.max = 1]
    [] OTHER -> [block EXCEPT !.listeners = <<o>> \o @]

Defaults == [oneShot |-> FALSE, dynamic |-> TRUE, threads |-> FALSE, inetd |-> FALSE,
             max |-> 0, listeners |-> <<>>]

CheckOptions(args) ==
  LET after[n \in 0..Len(args)] == IF n = 0 THEN Defaults ELSE Option(after[n - 1], args[n])
  IN after[Len(args)]

(* iochan_create.                                                          *)
Channel(id) == [id |-> id, dead |-> FALSE]

(* add_listener puts the channel of a listener at the head of the chain,   *)
(* inetd_connection that of the one session there is; without a listener   *)
(* there is one at the default address.                                    *)
StartChain(block, inet) ==
  IF block.inetd THEN <<Channel(inet)>> \o [i \in DOMAIN block.listeners |-> Channel(block.listeners[i])]
  ELSE IF block.listeners = <<>> THEN <<Channel("tcp:@:9999")>>
  ELSE [i \in DOMAIN block.listeners |-> Channel(block.listeners[i])]

(* A process as its event loop begins; none.                               *)
Loop(chain, sessions, oneShot) ==
  [st |-> "run", pc |-> "poll", chain |-> chain, fds |-> <<>>, i |-> 0, at |-> NULL,
   sessions |-> sessions, oneShot |-> oneShot, parent |-> NULL]
Absent == [Loop(<<>>, 0, FALSE) EXCEPT !.st = "none"]

Running(p) == proc[p].st = "run"

IsListener(id) == id \notin Clients

(* The index of a channel in a chain, 0 if it was freed.                   *)
Place(chain, id) == Lowest({k \in DOMAIN chain : chain[k].id = id})

(* (mutant) A pass ends after one channel.                                 *)
Advance_Stops(q) == [q EXCEPT !.i = @ + 1, !.at = NULL]

(* p = p->next, i++.                                                       *)
Advance(q) ==
  LET k == Place(q.chain, q.at)
  IN [q EXCEPT !.i = @ + 1, !.at = IF k = Len(q.chain) THEN NULL ELSE q.chain[k + 1].id]

(* iochan_destroy.                                                         *)
Destroy(q, id) ==
  [q EXCEPT !.chain = [k \in DOMAIN @ |-> IF @[k].id = id THEN [@[k] EXCEPT !.dead = TRUE] ELSE @[k]]]

(* remove_listeners: every channel of the chain, sessions too.             *)
RemoveListeners(q) == [q EXCEPT !.chain = [k \in DOMAIN @ |-> [@[k] EXCEPT !.dead = TRUE]]]

(* (mutant) The session is put at the end of the chain.                    *)
NewSession_AtTail(q, c) ==
  [q EXCEPT !.chain = Append(@, Channel(c)),
            !.oneShot = @ \/ (cb.max > 0 /\ q.sessions >= cb.max)]

(* new_session in a process of its own or in static mode: the channel goes *)
(* to the head of the chain, and the last session that -A allows makes the *)
(* server one-shot.                                                        *)
NewSession(q, c) ==
  [q EXCEPT !.chain = <<Channel(c)>> \o @,
            !.oneShot = @ \/ (cb.max > 0 /\ q.sessions >= cb.max)]

(* The child of a fork: the listeners are closed, the session is its own.  *)
ChildLoop(q, c) == Advance(NewSession(RemoveListeners(q), c))

-----------------------------------------------------------------------------
(* The clients and the operating system.                                   *)
Connect(c, l) ==
  /\ client[c] = "away" /\ l \in DOMAIN backlog /\ Running(Main) /\ ~cb.inetd
  /\ backlog' = [backlog EXCEPT ![l] = Append(@, c)]
  /\ client' = [client EXCEPT ![c] = "waits"]
  /\ UNCHANGED <<cb, proc, wants, killed, chld, faults, starts>>

Send(c) ==
  /\ client[c] = "open" /\ c \notin wants
  /\ wants' = wants \cup {c}
  /\ UNCHANGED <<cb, proc, backlog, client, killed, chld, faults, starts>>

Leave(c) ==
  /\ client[c] = "open"
  /\ client' = [client EXCEPT ![c] = "left"]
  /\ UNCHANGED <<cb, proc, backlog, wants, killed, chld, faults, starts>>

Kill ==
  /\ ~killed /\ Running(Main)
  /\ killed' = TRUE
  /\ UNCHANGED <<cb, proc, backlog, client, wants, chld, faults, starts>>

-----------------------------------------------------------------------------
(* iochan_event_loop: what poll finds ready.                               *)
Ready(id) == IF IsListener(id) THEN backlog[id] # <<>> ELSE id \in wants \/ client[id] = "left"

(* A session may be idle for too long, which gets it a timeout event.      *)
Poll(p) ==
  LET q == proc[p]
  IN /\ Running(p) /\ q.pc = "poll"
     /\ \E idle \in SUBSET {q.chain[k].id : k \in DOMAIN q.chain} :
          /\ \A id \in idle : ~IsListener(id) /\ ~Ready(id)
          /\ idle # {} \/ \E k \in DOMAIN q.chain : Ready(q.chain[k].id)
          /\ proc' = [proc EXCEPT ![p] =
               [@ EXCEPT !.pc = "dispatch", !.i = 1, !.at = q.chain[1].id,
                  !.fds = [k \in DOMAIN q.chain |->
                             [id |-> q.chain[k].id,
                              event |-> IF Ready(q.chain[k].id) THEN "input"
                                        ELSE IF q.chain[k].id \in idle THEN "timeout" ELSE NULL]]]]
     /\ UNCHANGED <<cb, backlog, client, wants, killed, chld, faults, starts>>

(* EINTR: the main loop ends if SIGTERM came.                              *)
Interrupted ==
  /\ Running(Main) /\ proc[Main].pc = "poll" /\ killed
  /\ proc' = [proc EXCEPT ![Main] = [@ EXCEPT !.pc = "over"]]
  /\ UNCHANGED <<cb, backlog, client, wants, killed, chld, faults, starts>>

(* The channel under p has the event that was polled for index i, and is   *)
(* not destroyed.                                                          *)
Event(q) ==
  IF q.i \in DOMAIN q.fds /\ ~q.chain[Place(q.chain, q.at)].dead THEN q.fds[q.i].event ELSE NULL

Dispatching(p) == Running(p) /\ proc[p].pc = "dispatch" /\ proc[p].at # NULL

(* Nothing for this channel.                                               *)
NoEvent(p) ==
  /\ Dispatching(p) /\ Event(proc[p]) = NULL
  /\ proc' = [proc EXCEPT ![p] = Advance(@)]
  /\ UNCHANGED <<cb, backlog, client, wants, killed, chld, faults, starts>>

(* The channels that are not destroyed.                                    *)
Kept(chain) ==
  LET kept[n \in 0..Len(chain)] ==
        IF n = 0 THEN <<>>
        ELSE IF chain[n].dead THEN kept[n - 1] ELSE Append(kept[n - 1], chain[n])
  IN kept[Len(chain)]

(* The end of a pass: destroyed channels are freed, and the loop ends with *)
(* the last of them.                                                       *)
Sweep(p) ==
  /\ Running(p) /\ proc[p].pc = "dispatch" /\ proc[p].at = NULL
  /\ LET kept == Kept(proc[p].chain)
     IN proc' = [proc EXCEPT ![p] =
          [@ EXCEPT !.chain = kept, !.fds = <<>>, !.i = 0,
                    !.pc = IF kept = <<>> THEN "over" ELSE "poll"]]
  /\ UNCHANGED <<cb, backlog, client, wants, killed, chld, faults, starts>>

(* ir_session: the input is taken; without a client, or after a timeout,   *)
(* the session ends.                                                       *)
SessionEvent(p) ==
  LET q == proc[p]
  IN /\ Dispatching(p) /\ ~IsListener(q.at) /\ Event(q) # NULL
     /\ LET ends == client[q.at] = "left" \/ Event(q) = "timeout"
        IN /\ proc' = [proc EXCEPT ![p] = Advance(IF ends THEN Destroy(@, q.at) ELSE @)]
           /\ client' = [client EXCEPT ![q.at] = IF ends THEN "done" ELSE @]
           /\ wants' = wants \ {q.at}
     /\ UNCHANGED <<cb, backlog, killed, chld, faults, starts>>

(* listener: accept fails, and the connection waits on.                    *)
AcceptFails ==
  /\ Dispatching(Main) /\ IsListener(proc[Main].at) /\ Event(proc[Main]) # NULL
  /\ faults < MaxFaults
  /\ faults' = faults + 1
  /\ proc' = [proc EXCEPT ![Main] = Advance(@)]
  /\ UNCHANGED <<cb, backlog, client, wants, killed, chld, starts>>

Accepted_Never(q) == [q EXCEPT !.sessions = @ + 1]

(* What the parent goes on with after an accept.                           *)
Accepted(q) ==
  [IF q.oneShot THEN RemoveListeners(q) ELSE q EXCEPT !.sessions = @ + 1]

(* The parent closes the connection and returns.                           *)
AfterFork(q, c) == Advance(q)

(* listener: the connection is accepted and served in the mode of the      *)
(* server: by this process, by a child or by a thread to be.               *)
Accept ==
  LET q == proc[Main]
      c == Head(backlog[q.at])
      r == Accepted(q)
  IN /\ Dispatching(Main) /\ IsListener(q.at) /\ Event(q) # NULL
     /\ backlog' = [backlog EXCEPT ![q.at] = Tail(@)]
     /\ client' = [client EXCEPT ![c] = "open"]
     /\ starts' = starts + 1
     /\ proc' = IF cb.dynamic
                THEN [proc EXCEPT ![Main] = AfterFork(r, c), ![c] = ChildLoop(r, c)]
                ELSE IF cb.threads
                THEN [proc EXCEPT ![Main] = Advance(r),
                                  ![c] = [Absent EXCEPT !.st = "run", !.pc = "new", !.parent = q.at]]
                ELSE [proc EXCEPT ![Main] = Advance(NewSession(r, c))]
     /\ UNCHANGED <<cb, wants, killed, chld, faults>>

(* fork fails: the listener is destroyed; nobody serves the connection,    *)
(* and nobody closes it.                                                   *)
ForkFails ==
  LET q == proc[Main]
  IN /\ Dispatching(Main) /\ IsListener(q.at) /\ Event(q) # NULL /\ cb.dynamic
     /\ faults < MaxFaults
     /\ faults' = faults + 1
     /\ backlog' = [backlog EXCEPT ![q.at] = Tail(@)]
     /\ client' = [client EXCEPT ![Head(backlog[q.at])] = "stuck"]
     /\ starts' = starts + 1
     /\ proc' = [proc EXCEPT ![Main] = Advance(Destroy(Accepted(q), q.at))]
     /\ UNCHANGED <<cb, wants, killed, chld>>

(* new_session in a thread: it reads the channel of the listener that      *)
(* accepted the connection, and runs a loop over a chain of its own.       *)
ThreadStarts(c) ==
  /\ Running(c) /\ proc[c].pc = "new" /\ Running(Main)
  /\ proc' = [proc EXCEPT ![c] = Loop(<<Channel(c)>>, 0, FALSE),
                          ![Main].oneShot = @ \/ (cb.max > 0 /\ proc[Main].sessions >= cb.max)]
  /\ UNCHANGED <<cb, backlog, client, wants, killed, chld, faults, starts>>

(* A child is a zombie until the parent waits for it, and the parent gets a*)
(* SIGCHLD; a thread just ends.                                            *)
LoopEnds(c) ==
  /\ c # Main /\ Running(c) /\ proc[c].pc = "over"
  /\ proc' = [proc EXCEPT ![c] = [Absent EXCEPT !.st =
                IF cb.dynamic /\ Running(Main) THEN "zombie" ELSE "gone"]]
  /\ chld' = (chld \/ (cb.dynamic /\ Running(Main)))
  /\ UNCHANGED <<cb, backlog, client, wants, killed, faults, starts>>

(* (mutant) One child is waited for at a signal.                           *)
Reaped_One(zombies) == IF zombies = {} THEN {} ELSE {CHOOSE c \in zombies : TRUE}

(* The loop of waitpid: all children that ended.                           *)
Reaped(zombies) == zombies

(* catchchld, the handler of SIGCHLD: signals that come while one is       *)
(* pending are merged with it.                                             *)
CatchChld ==
  LET zombies == {c \in Clients : proc[c].st = "zombie"}
  IN /\ Running(Main) /\ chld
     /\ chld' = FALSE
     /\ proc' = [c \in Procs |-> IF c \in Reaped(zombies) THEN [Absent EXCEPT !.st = "gone"] ELSE proc[c]]
     /\ UNCHANGED <<cb, backlog, client, wants, killed, faults, starts>>

(* The main process returns from yaz_daemon and exits: its threads end     *)
(* with it, its connections are closed, children go on.                    *)
ServerExit ==
  /\ Running(Main) /\ proc[Main].pc = "over"
  /\ LET ends(c) == client[c] # "away" /\ ~(cb.dynamic /\ Running(c))
     IN /\ client' = [c \in Clients |-> IF ends(c) THEN "done" ELSE client[c]]
        /\ wants' = {c \in wants : ~ends(c)}
        /\ proc' = [p \in Procs |->
                      IF p = Main \/ ~cb.dynamic \/ proc[p].st = "zombie"
                      THEN [Absent EXCEPT !.st = "gone"] ELSE proc[p]]
  /\ backlog' = [l \in DOMAIN backlog |-> <<>>] /\ chld' = FALSE
  /\ UNCHANGED <<cb, killed, faults, starts>>

-----------------------------------------------------------------------------
Init ==
  \E args \in ArgLists, inet \in Clients :
    /\ cb = CheckOptions(args)
    /\ ~cb.inetd => inet = CHOOSE c \in Clients : TRUE
    /\ proc = [p \in Procs |-> IF p = Main THEN Loop(StartChain(cb, inet), 0, cb.oneShot) ELSE Absent]
    /\ backlog = [l \in {ch.id : ch \in Range(StartChain(cb, inet))} \ Clients |-> <<>>]
    /\ client = [c \in Clients |-> IF cb.inetd /\ c = inet THEN "open" ELSE "away"]
    /\ wants = {} /\ killed = FALSE /\ chld = FALSE /\ faults = 0
    /\ starts = IF cb.inetd THEN 1 ELSE 0

Step(p) == Poll(p) \/ NoEvent(p) \/ SessionEvent(p) \/ Sweep(p)

Next ==
  \/ \E c \in Clients, l \in Addresses : Connect(c, l)
  \/ \E c \in Clients : Send(c) \/ Leave(c) \/ ThreadStarts(c) \/ LoopEnds(c)
  \/ \E p \in Procs : Poll(p) \/ NoEvent(p) \/ SessionEvent(p) \/ Sweep(p)
  \/ Kill \/ Interrupted \/ AcceptFails \/ Accept \/ ForkFails \/ CatchChld \/ ServerExit

(* Every process and thread is scheduled, signals are delivered.           *)
Fairness ==
  /\ \A p \in Procs : WF_vars(Step(p))
  /\ WF_vars(Accept) /\ WF_vars(CatchChld) /\ WF_vars(ServerExit)
  /\ \A c \in Clients : WF_vars(ThreadStarts(c)) /\ WF_vars(LoopEnds(c))

Spec == Init /\ [][Next]_vars /\ Fairness

-----------------------------------------------------------------------------
TypeOK ==
  /\ \A p \in Procs : /\ proc[p].st \in {"none", "run", "zombie", "gone"}
                      /\ proc[p].pc \in {"poll", "dispatch", "over", "new"}
                      /\ Range(proc[p].chain) \subseteq [id : Clients \cup Addresses, dead : BOOLEAN]
                      /\ proc[p].at \in Clients \cup Addresses \cup {NULL}
  /\ backlog \in [DOMAIN backlog -> Seq(Clients)]
  /\ client \in [Clients -> {"away", "waits", "open", "left", "done", "stuck"}]
  /\ wants \subseteq Clients /\ chld \in BOOLEAN
  /\ faults \in 0..MaxFaults /\ starts \in 0..Cardinality(Clients)

(* The event that a channel is given is the one that was polled for it:    *)
(* the array of descriptors and the chain are walked side by side while    *)
(* handlers put channels into the chain (src/src/eventl.c:145).            *)
FdsAligned ==
  \A p \in Procs : Dispatching(p) => /\ proc[p].i \in DOMAIN proc[p].fds
                                     /\ proc[p].fds[proc[p].i].id = proc[p].at

(* A client is served by one process or thread, the main process in static *)
(* mode only, and by one that listens only then: after a fork the parent   *)
(* keeps no session and the child no listener (src/src/statserv.c:1010).   *)
ServedOnce ==
  \A c \in Clients :
    LET by == {p \in Procs : Running(p) /\ \E k \in DOMAIN proc[p].chain :
                                             proc[p].chain[k] = Channel(c)}
    IN /\ Cardinality(by) <= 1
       /\ (cb.dynamic \/ cb.threads) /\ ~cb.inetd => Main \notin by
       /\ \A p \in by \ {Main} : \A k \in DOMAIN proc[p].chain :
            IsListener(proc[p].chain[k].id) => proc[p].chain[k].dead

(* With -1 the server accepts one connection, also when poll finds several *)
(* listeners ready at once; with -A n it accepts one more than n before it *)
(* stops to listen.                                                        *)
SessionLimit ==
  ~cb.threads /\ ~cb.inetd =>
    /\ cb.oneShot => starts <= 1
    /\ cb.max > 0 /\ ~cb.dynamic => starts <= cb.max + 1

(* A thread that begins finds the listener's channel that its connection   *)
(* came from still there, unless -1 or -A made the listener go away behind *)
(* its back (src/src/statserv.c:1083 reads it).                            *)
ParentChannelThere ==
  \A c \in Clients :
    Running(c) /\ proc[c].pc = "new" /\ Running(Main) /\ ~cb.oneShot /\ cb.max = 0
      => Place(proc[Main].chain, proc[c].parent) > 0

(* While a child waits to be waited for, a signal is pending: none is      *)
(* forgotten when one signal stands for several (src/src/statserv.c:1228). *)
ZombieSignalled ==
  \A c \in Clients : proc[c].st = "zombie" /\ Running(Main) => chld

-----------------------------------------------------------------------------
(* A connection that waits is accepted in the end, whatever goes on at the *)
(* other channels, unless the server or its listener ends.                 *)
QueuedIsAccepted ==
  \A c \in Clients : client[c] = "waits" ~>
     client[c] # "waits" \/ ~Running(Main)
     \/ \A k \in DOMAIN proc[Main].chain :
          IsListener(proc[Main].chain[k].id) /\ c \in Range(backlog[proc[Main].chain[k].id])
            => proc[Main].chain[k].dead
     \/ \A l \in DOMAIN backlog : c \in Range(backlog[l]) => Place(proc[Main].chain, l) = 0

(* Input is read in the end, where -1 and -A do not make the server stop   *)
(* with sessions under way.                                                *)
InputIsRead ==
  \A c \in Clients :
    (c \in wants /\ cb.max = 0 /\ ~(cb.oneShot /\ cb.threads)) ~> (c \notin wants)

(* No child stays a zombie while the server runs.                          *)
ZombiesGo == \A c \in Clients : proc[c].st = "zombie" ~> proc[c].st = "gone"

(* With -1 the server exits once its session has ended.                    *)
OneShotEnds ==
  (cb.oneShot /\ ~cb.threads /\ \E c \in Clients : client[c] = "done") ~> ~Running(Main)

(* What holds of the server at every step: channels and descriptors stay   *)
(* side by side, each client is served by one process, limits on sessions  *)
(* are kept, a thread finds its listener, and no child that ended is       *)
(* forgotten (src/src/eventl.c:145, src/src/statserv.c:1010, :1083, :1219, *)
(* :1228).                                                                 *)
ServerSafe ==
  TypeOK /\ FdsAligned /\ ServedOnce /\ SessionLimit /\ ParentChannelThere /\ ZombieSignalled

(* Clients get through: they are accepted and their input is read, by a    *)
(* loop that serves all channels in turn (src/src/eventl.c:127).           *)
ClientsServed == QueuedIsAccepted /\ InputIsRead

(* What ends is cleared away: children that ended are waited for, though   *)
(* one signal may stand for several of them, and a server for one session  *)
(* exits after it (src/src/statserv.c:1219).                               *)
ServerSettles == ZombiesGo /\ OneShotEnds
=============================================================================
