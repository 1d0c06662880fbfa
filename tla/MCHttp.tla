------------------------------- MODULE MCHttp -------------------------------
(***************************************************************************)
(* ZoomConnection over HTTP, in two setups.  plain: searches of several    *)
(* requests and scans at a server that answers.  redirected: searches at a *)
(* server that may answer with redirects, one beyond the limit in a row,   *)
(* by an application that gives a connection up after a failed redirect.   *)
(***************************************************************************)
EXTENDS Naturals, Sequences

VARIABLES conn, calls, setup

Plain ==
  INSTANCE ZoomConnection WITH
    HostProto <- "HTTP", TaskKinds <- {"SEARCH", "SCAN"}, ConnectWhenBusy <- FALSE,
    CallOnError <- FALSE, ReuseAfterRedirect <- TRUE, Redirects <- FALSE,
    MaxRedirects <- 1, MaxRounds <- 1, MaxPieces <- 1, MaxCalls <- 3

Redirected ==
  INSTANCE ZoomConnection WITH
    HostProto <- "HTTP", TaskKinds <- {"SEARCH"}, ConnectWhenBusy <- FALSE,
    CallOnError <- FALSE, ReuseAfterRedirect <- FALSE, Redirects <- TRUE,
    MaxRedirects <- 2, MaxRounds <- 0, MaxPieces <- 1, MaxCalls <- 3

vars == <<conn, calls, setup>>

IsPlain == setup = "plain"
IsRedirected == setup = "redirected"

Init ==
  /\ setup \in {"plain", "redirected"}
  /\ Plain!Init

Next ==
  \/ IsPlain /\ Plain!Next /\ UNCHANGED setup
  \/ IsRedirected /\ Redirected!Next /\ UNCHANGED setup

Process ==
  \/ IsPlain /\ Plain!Process /\ UNCHANGED setup
  \/ IsRedirected /\ Redirected!Process /\ UNCHANGED setup

Fire ==
  \/ IsPlain /\ (Plain!FireSocket \/ Plain!FireTimeout) /\ UNCHANGED setup
  \/ IsRedirected /\ (Redirected!FireSocket \/ Redirected!FireTimeout) /\ UNCHANGED setup

\* The fairness of ZoomConnection, in both setups.
FairSpec == Init /\ [][Next]_vars /\ WF_vars(Process) /\ WF_vars(Fire)

\* The connection waits for nothing, or listens to the socket on behalf of its
\* first task: mask, state, wire and queue agree over keep-alive, closing by
\* the server, connecting on demand (zoom-c.c do_connect_host, handle_http)
\* and redirects.
IdleOrListening ==
  /\ IsPlain => Plain!IdleOrListening
  /\ IsRedirected => Redirected!IdleOrListening

\* Every queued task is finished or given up, over several rounds of requests
\* and over redirects, of which handle_http follows no more than its limit.
TasksFinish == conn.tasks # <<>> ~> conn.tasks = <<>>
=============================================================================
