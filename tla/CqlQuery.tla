------------------------------ MODULE CqlQuery ------------------------------
(***************************************************************************)
(* CQL (src/src/cql.y, cqlutil.c and cqltransform.c): the parser, the table*)
(* of a transform and the transform to PQF.  Texts are sequences of symbols*)
(* as in PqfQuery; a "." in a name is a symbol of its own.  Absent texts   *)
(* are <<>>, present ones <<text>>.                                        *)
(***************************************************************************)
EXTENDS PqfQuery

-----------------------------------------------------------------------------
(* Nodes (cql_node_mk_sc, cql_node_mk_boolean, cql_node_mk_sort).  A list  *)
(* of modifiers is in the order in which the code links it.                *)
Sc(index, rel, term) ==
  [k |-> "st", index |-> index, uri |-> <<>>, rel |-> rel, reluri |-> <<>>, term |-> term, mods |-> <<>>, extra |-> <<>>]
Modifier(index, rel, term) == [index |-> index, uri |-> <<>>, rel |-> rel, term |-> term]
Boolean(op, mods, left, right) == [k |-> "bool", op |-> op, mods |-> mods, left |-> left, right |-> right]
SortNode(keys, search) == [k |-> "sort", keys |-> keys, search |-> search]
ServerChoice == <<"cql", ".", "serverChoice">>

(* cql_apply_prefix: names that are not resolved yet, in the whole tree.   *)
Dot(name) == Lowest({i \in DOMAIN name : name[i] = "."})
HasPrefix(name, prefix) == prefix # <<>> /\ Dot(name) # 0 /\ SubSeq(name, 1, Dot(name) - 1) = prefix[1]
AfterDot(name) == SubSeq(name, Dot(name) + 1, Len(name))
ApplyPrefixSt(n, prefix, uri) ==
  [n EXCEPT !.uri = IF n.uri = <<>> /\ (HasPrefix(n.index, prefix) \/ (prefix = <<>> /\ Dot(n.index) = 0)) THEN <<uri>> ELSE n.uri,
            !.index = IF n.uri = <<>> /\ HasPrefix(n.index, prefix) THEN AfterDot(n.index) ELSE n.index,
            !.reluri = IF n.reluri = <<>> /\ HasPrefix(n.rel, prefix) THEN <<uri>> ELSE n.reluri,
            !.rel = IF n.reluri = <<>> /\ HasPrefix(n.rel, prefix) THEN AfterDot(n.rel) ELSE n.rel,
            !.mods = [i \in DOMAIN n.mods |->
                        IF n.mods[i].uri = <<>> /\ HasPrefix(n.mods[i].index, prefix)
                        THEN [n.mods[i] EXCEPT !.uri = <<uri>>, !.index = AfterDot(n.mods[i].index)] ELSE n.mods[i]]]
RECURSIVE ApplyPrefix(_, _, _)
ApplyPrefix(n, prefix, uri) ==
  CASE n.k = "st" -> ApplyPrefixSt(n, prefix, uri)
    [] n.k = "bool" -> [n EXCEPT !.left = ApplyPrefix(n.left, prefix, uri), !.right = ApplyPrefix(n.right, prefix, uri)]
    [] n.k = "sort" -> [n EXCEPT !.search = ApplyPrefix(n.search, prefix, uri)]

-----------------------------------------------------------------------------
(* yylex.  Backslashes stay in the token.                                  *)
Specials == {"(", ")", "=", ">", "<", "/"}
Tok(t, s) == [t |-> t, s |-> s]
WordToken(s, strict) ==
  CASE s \in {<<"and">>, <<"or">>, <<"not">>, <<"prox">>, <<"sortby">>} -> Tok(s[1], s)
    [] s \notin {<<"and">>, <<"or">>, <<"not">>, <<"prox">>, <<"sortby">>} ->
         Tok(IF strict \/ s \in {<<"all">>, <<"any">>, <<"adj">>} \/ (\E i \in DOMAIN s : s[i] = ".") THEN "prefix" ELSE "str", s)
RECURSIVE WordEnd(_, _)
WordEnd(t, i) ==
  IF At(t, i) \in Specials \cup {"NUL", " "} THEN i
  ELSE IF t[i] = "\\" /\ At(t, i + 1) # "NUL" THEN WordEnd(t, i + 2) ELSE WordEnd(t, i + 1)
RECURSIVE CqlTokens(_, _, _)
CqlTokens(t, i, strict) ==
  LET c == At(t, i)
      c1 == At(t, i + 1)
      close == TokenEnd(t, i + 1, "\"")
      e == WordEnd(t, i)
  IN CASE c = "NUL" -> <<>>
       [] c = " " -> CqlTokens(t, i + 1, strict)
       [] c = "=" /\ c1 = "=" -> <<Tok("==", <<"=", "=">>)>> \o CqlTokens(t, i + 2, strict)
       [] c \in {">", "<"} /\ c1 = "=" -> <<Tok("rel", <<c, "=">>)>> \o CqlTokens(t, i + 2, strict)
       [] c = "<" /\ c1 = ">" -> <<Tok("rel", <<"<", ">">>)>> \o CqlTokens(t, i + 2, strict)
       [] c \in Specials /\ ~(c = "=" /\ c1 = "=") /\ ~(c \in {">", "<"} /\ c1 = "=") /\ ~(c = "<" /\ c1 = ">") ->
            <<Tok(c, <<c>>)>> \o CqlTokens(t, i + 1, strict)
       [] c = "\"" -> <<Tok("str", SubSeq(t, i + 1, close - 1))>> \o CqlTokens(t, close + 1, strict)
       [] OTHER -> <<WordToken(SubSeq(t, i, e - 1), strict)>> \o CqlTokens(t, e, strict)

(* The grammar.  rel is the relation that a clause inherits.               *)
Look(ts) == IF ts = <<>> THEN "end" ELSE ts[1].t
IsSearchTerm(t) == t \in {"str", "prefix", "and", "or", "not", "prox", "sortby"}
IsRelationSymbol(t) == t \in {"=", ">", "<", "rel", "=="}
CqlGot(v, ts) == [ok |-> TRUE, v |-> v, ts |-> ts]
NoParse == [ok |-> FALSE, v |-> <<>>, ts |-> <<>>]
Rest(ts, n) == SubSeq(ts, n + 1, Len(ts))
LookAt(ts, n) == Look(Rest(ts, n - 1))

(* modifiers: each in front of those before it.                            *)
RECURSIVE ParseModifiers(_, _)
ParseModifiers(ts, mods) ==
  CASE Look(ts) # "/" -> CqlGot(mods, ts)
    [] Look(ts) = "/" /\ ~IsSearchTerm(LookAt(ts, 2)) -> NoParse
    [] Look(ts) = "/" /\ IsSearchTerm(LookAt(ts, 2)) /\ ~IsRelationSymbol(LookAt(ts, 3)) ->
         ParseModifiers(Rest(ts, 2), <<Modifier(ts[2].s, <<>>, <<>>)>> \o mods)
    [] OTHER -> IF ~IsSearchTerm(LookAt(ts, 4)) THEN NoParse
                ELSE ParseModifiers(Rest(ts, 4), <<Modifier(ts[2].s, <<ts[3].s>>, <<ts[4].s>>)>> \o mods)

RECURSIVE ExtraTerms(_)
ExtraTerms(ts) == IF Look(ts) = "str" THEN <<ts[1].s>> \o ExtraTerms(Tail(ts)) ELSE <<>>

RECURSIVE ParseCql(_, _), ParseSearchClause(_, _), ParseBooleans(_, _, _)
ParseSearchClause(ts, rel) ==
  LET inner == ParseCql(Tail(ts), rel)
      mods == ParseModifiers(Rest(ts, 2), <<>>)
      extra == ExtraTerms(Tail(ts))
  IN CASE Look(ts) = "(" -> IF inner.ok /\ Look(inner.ts) = ")" THEN CqlGot(inner.v, Tail(inner.ts)) ELSE NoParse
       [] IsSearchTerm(Look(ts)) /\ (LookAt(ts, 2) = "prefix" \/ IsRelationSymbol(LookAt(ts, 2))) ->
            IF ~mods.ok THEN NoParse
            ELSE ParseSearchClause(mods.ts, [Sc(ts[1].s, ts[2].s, <<>>) EXCEPT !.mods = mods.v])
       [] IsSearchTerm(Look(ts)) /\ ~(LookAt(ts, 2) = "prefix" \/ IsRelationSymbol(LookAt(ts, 2))) ->
            CqlGot([rel EXCEPT !.term = ts[1].s, !.extra = extra], Rest(ts, 1 + Len(extra)))
       [] OTHER -> NoParse
ParseBooleans(left, ts, rel) ==
  LET mods == ParseModifiers(Tail(ts), <<>>)
      right == ParseSearchClause(mods.ts, rel)
  IN IF Look(ts) \notin {"and", "or", "not", "prox"} THEN CqlGot(left, ts)
     ELSE IF ~mods.ok \/ ~right.ok THEN NoParse
     ELSE ParseBooleans(Boolean(Look(ts), mods.v, left, right.v), right.ts, rel)
ParseCql(ts, rel) ==
  LET named == LookAt(ts, 3) = "=" /\ IsSearchTerm(LookAt(ts, 4))
      q == ParseCql(Rest(ts, IF named THEN 4 ELSE 2), rel)
      c == ParseSearchClause(ts, rel)
  IN IF Look(ts) = ">"
     THEN IF ~IsSearchTerm(LookAt(ts, 2)) \/ ~q.ok THEN NoParse
          ELSE CqlGot(ApplyPrefix(q.v, IF named THEN <<ts[2].s>> ELSE <<>>, ts[IF named THEN 4 ELSE 2].s), q.ts)
     ELSE IF ~c.ok THEN NoParse ELSE ParseBooleans(c.v, c.ts, rel)

(* sortSpec: the next of the first key is set again by every further key.  *)
RECURSIVE ParseSortKeys(_, _)
ParseSortKeys(ts, keys) ==
  LET mods == ParseModifiers(Tail(ts), <<>>)
      key == [index |-> ts[1].s, mods |-> mods.v]
  IN IF ~IsSearchTerm(Look(ts)) THEN CqlGot(keys, ts)
     ELSE IF ~mods.ok THEN NoParse
     ELSE ParseSortKeys(mods.ts, IF keys = <<>> THEN <<key>> ELSE <<keys[1], key>>)

(* cql_parser_stream and the rules top, cqlQuery1 and sortby: text after   *)
(* the query is an error, and then there is no tree.                       *)
CqlParse(text, strict) ==
  LET q == ParseCql(CqlTokens(text, 1, strict), Sc(ServerChoice, <<"=">>, <<>>))
      keys == ParseSortKeys(Tail(q.ts), <<>>)
  IN CASE ~q.ok -> NoParse
       [] q.ok /\ Look(q.ts) = "end" -> q
       [] q.ok /\ Look(q.ts) = "sortby" ->
            IF keys.ok /\ keys.v # <<>> /\ keys.ts = <<>> THEN CqlGot(SortNode(keys.v, q.v), <<>>) ELSE NoParse
       [] OTHER -> NoParse

-----------------------------------------------------------------------------
(* The table of a transform.  cql_transform_parse_tok_line on a line whose *)
(* words and "=" are its tokens: a word alone is a value without           *)
(* attributes, the URI of a set.                                           *)
RECURSIVE TokLineAttrs(_)
TokLineAttrs(line) ==
  LET set == IF Len(line) > 1 /\ line[2] # "=" THEN line[1] ELSE NULL
      l == IF set = NULL THEN line ELSE Tail(line)
      attr == IF l[3] \in Numerals THEN NumericAttr(set, l[1], <<l[3]>>) ELSE ComplexAttr(set, l[1], <<<<l[3]>>>>)
      more == TokLineAttrs(Rest(l, 3))
  IN CASE Len(line) <= 1 -> CqlGot(<<>>, <<>>)
       [] Len(line) > 1 /\ (l[1] \notin Numerals \/ Len(l) < 3 \/ l[2] # "=") -> NoParse
       [] OTHER -> IF more.ok THEN CqlGot(<<attr>> \o more.v, <<>>) ELSE NoParse
Entry(pattern, line) == [pattern |-> pattern, value |-> line, attrs |-> TokLineAttrs(line).v]

(* cql_lookup_property: the first entry of the name.                       *)
LookupProperty(ct, parts) ==
  LET name == Joined(parts, <<".">>)
      k == Lowest({i \in DOMAIN ct : ct[i].pattern = name})
  IN IF k = 0 THEN <<>> ELSE <<ct[k]>>

(* cql_lookup_reverse: the first entry of the category whose attributes    *)
(* are all among the given ones; bib-1 need not be said.                   *)
LookupReverse(ct, category, attrs) ==
  LET n == Len(category)
      has(a) == \E j \in DOMAIN attrs : attrs[j] = a \/ (attrs[j].set = "bib-1" /\ [attrs[j] EXCEPT !.set = NULL] = a)
      k == Lowest({i \in DOMAIN ct : /\ IsPrefix(category, ct[i].pattern)
                                     /\ \A a \in ToSet(ct[i].attrs) : has(a)})
  IN IF k = 0 THEN <<>> ELSE <<SubSeq(ct[k].pattern, n + 1, Len(ct[k].pattern))>>

(* cql_pr_attr_uri and cql_pr_attr: what is printed for a value of a       *)
(* category, or no answer; eval replaces "*" in a value of the table.      *)
RelationAlias(val) ==
  CASE val = <<"=", "=">> -> <<<<"exact">>>> [] val = <<"=">> -> <<<<"eq">>>>
    [] val = <<"<", "=">> -> <<<<"le">>>> [] val = <<">", "=">> -> <<<<"ge">>>> [] OTHER -> <<>>
PrAttr(ct, category, uri, val) ==
  LET set == Lowest({i \in DOMAIN ct : IsPrefix(<<"set", ".">>, ct[i].pattern) /\ uri # <<>> /\ ct[i].value = uri[1]})
      prefix == IF set = 0 THEN <<>> ELSE <<AfterDot(ct[set].pattern)>>
      named(v) == LookupProperty(ct, <<<<category>>>> \o prefix \o v)
      alias == IF prefix = <<>> /\ category = "relation" THEN RelationAlias(val[1]) ELSE <<>>
      found == IF uri # <<>> /\ set = 0 THEN <<>>
               ELSE IF named(val) # <<>> THEN named(val)
               ELSE IF alias # <<>> /\ named(alias) # <<>> THEN named(alias) ELSE named(<<<<"*">>>>)
      eval(a) == [a EXCEPT !.list = [i \in DOMAIN a.list |-> IF a.list[i] = <<"*">> THEN val[1] ELSE a.list[i]]]
  IN IF found = <<>> THEN NoParse
     ELSE CqlGot(FoldLeft(LAMBDA out, a : out \o AttributeText(eval(a)), <<>>, found[1].attrs), <<>>)

-----------------------------------------------------------------------------
(* Emitters: text so far and the error that ended it, NULL for none.       *)
Emit(out, err) == [out |-> out, err |-> err]
AndThen(e, text) == IF e.err # NULL THEN e ELSE Emit(e.out \o text, NULL)
AndAttr(e, ct, category, uri, val, error) ==
  LET a == PrAttr(ct, category, uri, val)
  IN IF e.err # NULL THEN e ELSE IF a.ok THEN Emit(e.out \o a.v, NULL) ELSE IF error = NULL THEN e ELSE Emit(e.out, error)

HasModifier(cn, name) == \E i \in DOMAIN cn.mods : cn.mods[i].term = <<>> /\ cn.mods[i].index = <<name>>

(* emit_term: what the masking characters of a term mean.                  *)
BackslashesBefore(term, i) == i - 1 - Highest({j \in 1..(i - 1) : term[j] # "\\"})
Unescaped(term, i) == BackslashesBefore(term, i) % 2 = 0
Outer(term) == {1, Len(term)} \cap DOMAIN term
Anchors(term) == {i \in Outer(term) : term[i] = "^" /\ Unescaped(term, i)}
Truncations(term) == {i \in Outer(term) : term[i] = "*" /\ Unescaped(term, i)}
Masked(term) ==
  \E i \in DOMAIN term : Unescaped(term, i) /\ (term[i] = "?" \/ (term[i] = "*" /\ i # 1 /\ i # Len(term)))

RECURSIVE TermText(_, _)
TermText(term, z3958) ==
  LET mask(c) == IF z3958 /\ c \in {"#", "?"} THEN <<"\\", "\\">> ELSE <<>>
  IN IF term = <<>> THEN <<>>
     ELSE IF term[1] = "\\" /\ Len(term) > 1
     THEN (IF term[2] \in {"\"", "\\"} THEN <<"\\">> ELSE <<>>) \o mask(term[2]) \o <<term[2]>> \o TermText(Rest(term, 2), z3958)
     ELSE (CASE z3958 /\ term[1] = "*" -> <<"?">> \o (IF Len(term) > 1 /\ term[2] \in Numerals THEN <<"\\", "\\">> ELSE <<>>)
             [] z3958 /\ term[1] = "?" -> <<"#">>
             [] OTHER -> (IF term[1] = "\"" THEN <<"\\">> ELSE <<>>) \o mask(term[1]) \o <<term[1]>>)
          \o TermText(Tail(term), z3958)

(* (mutant) A term that is truncated on both sides keeps its last mask.    *)
Stripped_Both(term, anchors, cut) ==
  SubSeq(term, IF 1 \in anchors \cup cut THEN 2 ELSE 1, Len(term) - (IF 1 \notin anchors \cup cut /\ Len(term) \in anchors \cup cut THEN 1 ELSE 0))

Stripped(term, anchors, cut) ==
  SubSeq(term, IF 1 \in anchors \cup cut THEN 2 ELSE 1,
         Len(term) - (IF Len(term) \in (anchors \cup cut) /\ Len(term) > 1 THEN 1 ELSE 0))

EmitTerm(ct, cn, term) ==
  LET n == Len(term)
      raw == HasModifier(cn, "regexp") \/ HasModifier(cn, "unmasked")
      cqltrunc == ~raw /\ LookupProperty(ct, <<<<"truncation">>, <<"cql">>>>) # <<>>
      process == ~raw /\ ~cqltrunc
      anchors == Anchors(term)
      trunc == Truncations(term)
      position == CASE 1 \in anchors /\ n \in anchors /\ n > 1 -> "firstAndLast" [] 1 \in anchors /\ ~(n \in anchors /\ n > 1) -> "first"
                    [] 1 \notin anchors /\ n \in anchors -> "last" [] OTHER -> "any"
      side == CASE 1 \in trunc /\ n \in trunc /\ n > 1 -> "both" [] 1 \in trunc /\ ~(n \in trunc /\ n > 1) -> "left"
                [] 1 \notin trunc /\ n \in trunc -> "right" [] OTHER -> "none"
      plain == ~Masked(term) /\ PrAttr(ct, "truncation", <<>>, <<<<side>>>>).ok
      z3958 == process /\ (Masked(term) \/ (side # "none" /\ ~plain))
      e0 == IF cqltrunc THEN AndAttr(Emit(<<>>, NULL), ct, "truncation", <<>>, <<<<"cql">>>>, "masking") ELSE Emit(<<>>, NULL)
      e1 == IF ~process THEN e0
            ELSE AndAttr(AndAttr(e0, ct, "position", <<>>, <<<<position>>>>, "anchoring"), ct, "truncation", <<>>,
                         <<<<IF z3958 THEN "z3958" ELSE side>>>>, IF z3958 THEN "masking" ELSE NULL)
      e2 == IF cn.uri = <<>> THEN e1 ELSE AndAttr(e1, ct, "index", cn.uri, <<cn.index>>, "unsupported index")
      e3 == FoldLeft(LAMBDA e, m : IF m.term # <<>> THEN e
                                   ELSE AndAttr(e, ct, "relationModifier", <<>>, <<m.index>>, "unsupported modifier"), e2, cn.mods)
  IN AndThen(e3, <<"\"">> \o (IF process THEN TermText(Stripped(term, anchors, IF plain THEN trunc ELSE {}), z3958) ELSE term) \o <<"\"", " ">>)

(* emit_terms: the term and the extra ones, under one operator each.       *)
EmitTerms(ct, cn, op) ==
  LET terms == <<cn.term>> \o cn.extra
  IN FoldLeft(LAMBDA e, i :
                LET t == EmitTerm(ct, cn, terms[i])
                IN IF e.err # NULL THEN e
                   ELSE Emit(e.out \o (IF i < Len(terms) THEN <<"@", op, " ">> ELSE <<>>) \o t.out, t.err),
              Emit(<<>>, NULL), UpTo(Len(terms)))

(* emit_wordlist: the words of the term; the extra terms are not in it.    *)
EmitWordlist(ct, cn, op) ==
  LET parts == SplitAt(cn.term, " ")
      k == Highest({i \in DOMAIN parts : parts[i] # <<>>})
      words == SelectSeq(SubSeq(parts, 1, k), LAMBDA w : w # <<>>) \o (IF k < Len(parts) THEN <<<<>>>> ELSE <<>>)
  IN FoldLeft(LAMBDA e, i :
                LET t == EmitTerm(ct, cn, words[i])
                IN IF e.err # NULL THEN e
                   ELSE Emit(e.out \o (IF i < Len(words) THEN <<"@", op, " ">> ELSE <<>>) \o t.out, t.err),
              Emit(<<>>, NULL), UpTo(Len(words)))

(* z_ProxUnit_to_str and z_str_to_ProxUnit.                                *)
Units == [i \in {"1", "2", "3"} |-> CASE i = "1" -> "character" [] i = "2" -> "word" [] i = "3" -> "sentence"]
UnitName(u) == IF u \in DOMAIN Units THEN Units[u] ELSE "unknown"
UnitOf(name) == {u \in DOMAIN Units : <<Units[u]>> = name}

(* cql_pr_prox.                                                            *)
ProxRelation(r) ==
  CASE r = <<"=">> -> "3" [] r = <<">">> -> "5" [] r = <<"<">> -> "1" [] r = <<">", "=">> -> "4"
    [] r = <<"<", "=">> -> "2" [] r = <<"<", ">">> -> "6" [] OTHER -> NULL
EmitProx(mods) ==
  LET r == FoldLeft(LAMBDA p, m :
                      CASE p.err # NULL -> p
                        [] p.err = NULL /\ m.index = <<"distance">> ->
                             IF ProxRelation(m.rel[1]) = NULL THEN [p EXCEPT !.err = "prox relation"]
                             ELSE [p EXCEPT !.distance = m.term[1][1], !.relation = ProxRelation(m.rel[1])]
                        [] p.err = NULL /\ m.index \in {<<"ordered">>, <<"unordered">>} ->
                             [p EXCEPT !.ordered = IF m.index = <<"ordered">> THEN "1" ELSE "0"]
                        [] p.err = NULL /\ m.index = <<"unit">> ->
                             IF UnitOf(m.term[1]) # {} THEN [p EXCEPT !.unit = CHOOSE u \in UnitOf(m.term[1]) : TRUE]
                             ELSE [p EXCEPT !.err = "prox unit"]
                        [] OTHER -> [p EXCEPT !.err = "boolean modifier"],
                    [distance |-> NULL, ordered |-> "0", relation |-> "2", unit |-> "2", err |-> NULL], mods)
      distance == IF r.distance # NULL THEN r.distance ELSE IF r.unit = "2" THEN "1" ELSE "0"
  IN IF r.err # NULL THEN Emit(<<>>, r.err)
     ELSE Emit(<<"0", " ", distance, " ", r.ordered, " ", r.relation, " ", "k", " ", r.unit, " ">>, NULL)

(* emit_node.  A modifier with a value becomes an operand of its own; its  *)
(* attributes replace the error of the terms before it.                    *)
CqlUri == <<"cql-uri">>
EmitClause(ct, cn) ==
  LET valued == SelectSeq(cn.mods, LAMBDA m : m.term # <<>>)
      bad == \E i \in DOMAIN valued : valued[i].rel # <<<<"=">>>>
      head == FoldLeft(LAMBDA o, m : o \o <<"@", "prox", " ", "0", " ", "0", " ", "0", " ", "0", " ", "k", " ", "8", " ">>, <<>>, valued)
      always == AndAttr(Emit(head, NULL), ct, "always", <<>>, <<>>, NULL)
      rel == AndAttr(AndAttr(always, ct, "relation", <<>>, <<cn.rel>>, "relation"), ct, "structure", <<>>, <<cn.rel>>, "structure")
      body == CASE cn.rel = <<"all">> -> EmitWordlist(ct, cn, "and")
                [] cn.rel = <<"any">> -> EmitWordlist(ct, cn, "or")
                [] OTHER -> EmitTerms(ct, cn, "and")
      terms == Emit(rel.out \o body.out, body.err)
  IN IF bad THEN Emit(<<>>, "relation") ELSE IF rel.err # NULL THEN rel
     ELSE FoldLeft(LAMBDA e, m :
                     LET a == PrAttr(ct, "index", m.uri, <<m.index>>)
                     IN IF e.err = "unsupported index" THEN e
                        ELSE IF a.ok THEN Emit(e.out \o a.v \o m.term[1] \o <<" ">>, NULL) ELSE Emit(e.out, "unsupported index"),
                   terms, valued)
RECURSIVE EmitNode(_, _)
EmitNode(ct, cn) ==
  LET prox == IF cn.op = "prox" THEN EmitProx(cn.mods) ELSE Emit(<<>>, IF cn.mods = <<>> THEN NULL ELSE "boolean modifier")
      left == EmitNode(ct, cn.left)
      right == EmitNode(ct, cn.right)
  IN CASE cn.k = "st" ->
            IF cn.uri = <<>> THEN Emit(<<>>, "context set")
            ELSE IF cn.uri[1] = CqlUri /\ cn.index = <<"resultSet">> THEN Emit(<<"@", "set", " ", "\"">> \o cn.term \o <<"\"", " ">>, NULL)
            ELSE EmitClause(ct, cn)
       [] cn.k = "bool" ->
            IF prox.err # NULL THEN prox ELSE IF left.err # NULL THEN left
            ELSE Emit(<<"@", cn.op, " ">> \o prox.out \o left.out \o right.out, right.err)
       [] cn.k = "sort" -> EmitNode(ct, cn.search)

(* cql_transform_r: the sets of the table, in its order, then the tree.    *)
CqlTransform(ct, cn) ==
  EmitNode(ct, FoldLeft(LAMBDA n, e :
                          CASE IsPrefix(<<"set", ".">>, e.pattern) -> ApplyPrefix(n, <<AfterDot(e.pattern)>>, e.value)
                            [] e.pattern = <<"set">> -> ApplyPrefix(n, <<>>, e.value)
                            [] OTHER -> n, cn, ct))
=============================================================================
