---------------------------- MODULE MCResultSets ----------------------------
(***************************************************************************)
(* ZoomResultSet in three more setups.  names: three result sets of one    *)
(* record each at a Z39.50 server, whose names are used again.  sru: two   *)
(* result sets, the second of two records, at an SRU server that leaves no *)
(* record of a page out.  gaps: one at an SRU server that may leave some   *)
(* out.                                                                    *)
(***************************************************************************)
EXTENDS Naturals, Sequences

VARIABLES zs, hits, calls, setup

Reused ==
  INSTANCE ZoomResultSet WITH
    Proto <- "Z3950", Named <- TRUE, Starts <- {0}, Counts <- {1}, Steps <- {0},
    Piggybacks <- {TRUE}, Liberties <- {"badQuery"}, MaxHits <- 1, MaxSets <- 3, MaxCalls <- 4

Sru ==
  INSTANCE ZoomResultSet WITH
    Proto <- "HTTP", Named <- FALSE, Starts <- {0, 1}, Counts <- {2}, Steps <- {0, 1},
    Piggybacks <- {TRUE}, Liberties <- {}, MaxHits <- 2, MaxSets <- 2, MaxCalls <- 3

Gaps ==
  INSTANCE ZoomResultSet WITH
    Proto <- "HTTP", Named <- FALSE, Starts <- {0, 1}, Counts <- {2}, Steps <- {0},
    Piggybacks <- {TRUE}, Liberties <- {"gaps"}, MaxHits <- 3, MaxSets <- 1, MaxCalls <- 3

vars == <<zs, hits, calls, setup>>

IsReused == setup = "names"
IsSru == setup = "sru"
IsGaps == setup = "gaps"

Init ==
  \/ IsReused /\ Reused!Init /\ \A r \in Reused!ResultSets : hits[r] = 1
  \/ IsSru /\ Sru!Init /\ hits[2] = 2
  \/ IsGaps /\ Gaps!Init

Next ==
  \/ IsReused /\ Reused!Next /\ UNCHANGED setup
  \/ IsSru /\ Sru!Next /\ UNCHANGED setup
  \/ IsGaps /\ Gaps!Next /\ UNCHANGED setup

Exec ==
  \/ IsReused /\ Reused!Exec /\ UNCHANGED setup
  \/ IsSru /\ Sru!Exec /\ UNCHANGED setup
  \/ IsGaps /\ Gaps!Exec /\ UNCHANGED setup

Answer ==
  \/ IsReused /\ (Reused!Respond \/ Reused!Lose) /\ UNCHANGED setup
  \/ IsSru /\ (Sru!Respond \/ Sru!Lose) /\ UNCHANGED setup
  \/ IsGaps /\ (Gaps!Respond \/ Gaps!Lose) /\ UNCHANGED setup

\* The fairness of ZoomResultSet, in every setup.
FairSpec == Init /\ [][Next]_vars /\ WF_vars(Exec) /\ WF_vars(Answer)

\* What a set has cached at a position is the record that its own query has
\* there: over set names that are used again, and over SRU pages with a right,
\* a low or no recordPosition, with records left out, and with some of the
\* positions cached before (zoom-z3950.c:785-800, zoom-sru.c:334-346).
CachedRightly ==
  /\ IsReused => Reused!CachedRightly
  /\ IsSru => Sru!CachedRightly
  /\ IsGaps => Gaps!CachedRightly

\* A retrieval that ends without an error has cached every record of its
\* range below the known size: its start and count move on by the records of a
\* page, whether they were cached or skipped (zoom-sru.c:334-387).  A server
\* that leaves records out makes the code miss them.
FetchedOrTold == [][setup # "gaps" => IF IsSru THEN Sru!EndsFetched ELSE Reused!EndsFetched]_vars

\* Every retrieval ends, when an SRU page brings a record or ends it.
TasksEnd == zs.tasks # <<>> ~> zs.tasks = <<>>
=============================================================================
