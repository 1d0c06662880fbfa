------------------------------- MODULE Daemon -------------------------------
(***************************************************************************)
(* yaz_daemon (src/src/daemon.c): a service is put in the background by a  *)
(* process that waits for a handshake, its process id is written to a      *)
(* file, and a keepalive process runs it in a child that is started anew   *)
(* when it crashes.                                                        *)
(***************************************************************************)
EXTENDS Naturals

CONSTANTS MaxCrashes,  \* how often the child crashes
          Fork,        \* flag YAZ_DAEMON_FORK
          Keepalive    \* flag YAZ_DAEMON_KEEPALIVE

VARIABLES launcher,  \* the process that called: start, waits, gone
          service,   \* the background process, which is the keepalive process
          child,     \* the process that works: none, work, or how it ended
          pidfile,   \* written
          hand,      \* the write end of the handshake pipe is open
          relay,     \* child_pid is set
          gotUsr2,   \* child_got_signal_from_us
          crashes

vars == <<launcher, service, child, pidfile, hand, relay, gotUsr2, crashes>>

Signals == {"SIGILL", "SIGABRT", "SIGSEGV", "SIGBUS"}

-----------------------------------------------------------------------------
(* yaz_daemon up to the fork: the caller waits for the pipe to be closed.  *)
Background ==
  /\ launcher = "start"
  /\ launcher' = IF Fork THEN "waits" ELSE "gone"
  /\ hand' = Fork
  /\ service' = IF Fork THEN "forked" ELSE "detached"
  /\ UNCHANGED <<child, pidfile, relay, gotUsr2, crashes>>

(* The background process detaches itself and closes its end of the pipe.  *)
Detach ==
  /\ service = "forked"
  /\ service' = "detached" /\ hand' = FALSE
  /\ UNCHANGED <<launcher, child, pidfile, relay, gotUsr2, crashes>>

(* read returns when nobody holds the other end of the pipe.               *)
HandshakeRead ==
  /\ launcher = "waits" /\ ~hand
  /\ launcher' = "gone"
  /\ UNCHANGED <<service, child, pidfile, hand, relay, gotUsr2, crashes>>

(* write_pidfile.                                                          *)
WritePidfile ==
  /\ service = "detached"
  /\ pidfile' = TRUE
  /\ service' = IF Keepalive THEN "loop" ELSE "work"
  /\ UNCHANGED <<launcher, child, hand, relay, gotUsr2, crashes>>

(* keepalive: a child is forked as long as cont is set and nobody told the *)
(* process to go.                                                          *)
Spawn ==
  /\ service = "loop" /\ ~gotUsr2
  /\ child' = "work" /\ service' = "wait" /\ relay' = TRUE
  /\ UNCHANGED <<launcher, pidfile, hand, gotUsr2, crashes>>

(* The work handler returns, or the child is ended by a signal.            *)
ChildEnds(how) ==
  /\ child = "work"
  /\ how \in Signals => crashes < MaxCrashes
  /\ child' = how
  /\ crashes' = IF how \in Signals THEN crashes + 1 ELSE crashes
  /\ UNCHANGED <<launcher, service, pidfile, hand, relay, gotUsr2>>

(* SIGTERM to the keepalive process is relayed to the child.               *)
Relay ==
  /\ service = "wait" /\ relay /\ child = "work"
  /\ child' = "SIGTERM"
  /\ UNCHANGED <<launcher, service, pidfile, hand, relay, gotUsr2, crashes>>

(* yaz_daemon_stop, called in the child: SIGUSR2.                          *)
DaemonStop ==
  /\ child = "work" /\ ~gotUsr2
  /\ gotUsr2' = TRUE
  /\ UNCHANGED <<launcher, service, child, pidfile, hand, relay, crashes>>

(* What keepalive compares with the child's process id after the wait.     *)
(* `p1 = waitpid(...) == -1' gives p1 the value of the comparison: it is 0 *)
(* when waitpid gave the process id of the child.                          *)
ChildPid == 1000
WaitResult == 0

(* keepalive after the wait: a process that is not the child ends the      *)
(* loop; so does every end but a crash.                                    *)
ChildWaited ==
  /\ service = "wait" /\ child \notin {"none", "work"}
  /\ relay' = FALSE
  /\ service' = IF WaitResult = ChildPid /\ child \in Signals THEN "loop" ELSE "stop"
  /\ child' = "none"
  /\ UNCHANGED <<launcher, pidfile, hand, gotUsr2, crashes>>

(* The loop ends.                                                          *)
Stop ==
  /\ service = "loop" /\ gotUsr2
  /\ service' = "stop"
  /\ UNCHANGED <<launcher, child, pidfile, hand, relay, gotUsr2, crashes>>

Init ==
  /\ launcher = "start" /\ service = "none" /\ child = "none" /\ pidfile = FALSE
  /\ hand = FALSE /\ relay = FALSE /\ gotUsr2 = FALSE /\ crashes = 0

System == Background \/ Detach \/ HandshakeRead \/ WritePidfile \/ Spawn \/ ChildWaited \/ Stop

Next ==
  \/ Background \/ Detach \/ HandshakeRead \/ WritePidfile \/ Spawn \/ ChildWaited \/ Stop
  \/ \E how \in Signals \cup {"exit"} : ChildEnds(how)
  \/ Relay \/ DaemonStop

Spec == Init /\ [][Next]_vars /\ WF_vars(System)

-----------------------------------------------------------------------------
(* "Repeatedly calls work handler if it makes a fatal error"               *)
(* (src/src/yaz/daemon.h:63): after a crash the service runs again, unless *)
(* the keepalive process was told to go.                                   *)
CrashIsRestarted ==
  (child \in Signals /\ ~gotUsr2) ~> (child = "work" \/ gotUsr2)
=============================================================================
