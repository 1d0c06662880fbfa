------------------------------- MODULE MCCases ------------------------------
(***************************************************************************)
(* What the runs of operators on bounded inputs share.  A state is one     *)
(* case: the unit under test and its input.  The initial states share the  *)
(* units among TLC's workers.  The functions that take long to evaluate    *)
(* are a constant, so that cases can be stated of them as of a program.    *)
(***************************************************************************)
CONSTANT Yaz   \* the library: functions of their arguments, by name

VARIABLE case

Part(part) == case = [unit |-> "none", part |-> part]
=============================================================================
