----------------------------- MODULE GfsAnswers -----------------------------
(***************************************************************************)
(* What a session of the generic frontend server promises its client: the  *)
(* requests are answered in the order in which they were sent, each at     *)
(* most once, and the Close that ends a session is the last thing said.    *)
(* A request may stay without an answer; an answer is never invented.      *)
(***************************************************************************)
EXTENDS Naturals, Sequences

VARIABLES asked,    \* number of requests the server has taken
          answers,  \* the answers given: the request's number, or Bye
          over      \* the Close has been given, or the session is gone

Bye == 0

(* The number of the last request answered.  *)
LastAnswered == IF answers = <<>> THEN 0 ELSE answers[Len(answers)]

Init == asked = 0 /\ answers = <<>> /\ over = FALSE

(* Several requests may be taken together.                                 *)
Take == /\ asked' \in Nat /\ asked' > asked
        /\ UNCHANGED <<answers, over>>

Answer == /\ ~over
          /\ \E r \in (LastAnswered + 1)..asked : answers' = Append(answers, r)
          /\ UNCHANGED <<asked, over>>

SayBye == /\ ~over
          /\ answers' = Append(answers, Bye)
          /\ over' = TRUE
          /\ UNCHANGED asked

End == over' = TRUE /\ UNCHANGED <<asked, answers>>

Next == Take \/ Answer \/ SayBye \/ End

Spec == Init /\ [][Next]_<<asked, answers, over>>
=============================================================================
