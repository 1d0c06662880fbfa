------------------------------ MODULE YazTypes ------------------------------
(***************************************************************************)
(* What the modules of operators share: the absent value and small helpers *)
(* on numbers and sequences.                                               *)
(***************************************************************************)
EXTENDS Integers, Sequences, FiniteSets, SequencesExt

NULL == "NULL"

Least(a, b) == IF a <= b THEN a ELSE b
Most(a, b) == IF a >= b THEN a ELSE b

(* The sequence 1, 2, ..., n: a loop is a fold over it.                    *)
UpTo(n) == [i \in 1..n |-> i]

(* All sequences over S of length at most n.                               *)
SeqsUpTo(S, n) == UNION {[1..k -> S] : k \in 0..n}

(* The lowest and the highest member of a set of numbers, 0 for none.      *)
Lowest(S) == IF S = {} THEN 0 ELSE CHOOSE x \in S : \A y \in S : x <= y
Highest(S) == IF S = {} THEN 0 ELSE CHOOSE x \in S : \A y \in S : y <= x
=============================================================================
