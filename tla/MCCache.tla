------------------------------- MODULE MCCache -------------------------------
(* Two applications that share a cache: they have one identity, or two     *)
(* that differ only in where a name stands.                                *)
EXTENDS ZoomCache

Ident(user, group) == [user |-> user, group |-> group, password |-> <<>>]
McIdentities == <<{Ident(<<"u">>, <<>>)}, {Ident(<<"u">>, <<>>), Ident(<<>>, <<"u">>)}>>

Server(up) == [name |-> "server", value |-> up]
Redis(o) == [redis |-> o, memcached |-> <<>>]
Memcached(o) == [redis |-> <<>>, memcached |-> o]
Expires == [name |-> "expire", value |-> 60]
McOptions ==
  <<{Redis(<<Server(1), Expires>>), Redis(<<Expires>>)},
    {Redis(<<Server(1)>>), Redis(<<>>), Memcached(<<[name |-> "other", value |-> 0]>>)}>>

ACall(op, arg, with) == [op |-> op, arg |-> arg, with |-> with]
Title == <<Criteria("title", TRUE)>>
ByNumber == <<Criteria("number", FALSE)>>
McScripts ==
  {<<ACall("prefix", "a", "")>>,
   <<ACall("cql", "a", ""), ACall("sortby", Title, "sru11")>>,
   <<ACall("sortby", ByNumber, "z3950"), ACall("ccl2rpn", "a", "")>>,
   <<ACall("cql", "a", ""), ACall("sortby", ByNumber, "cql")>>}
McRanges == {<<0, 2, "xml">>, <<1, 1, "marc">>}
McMaxCalls == <<2, 3>>
McHits == <<2, 1>>

\* The theorems of ZoomCacheProofs are about applications like these.
ASSUME McHypotheses == KeysApart /\ QueriesMade
=============================================================================
