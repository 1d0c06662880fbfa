------------------------------ MODULE CclQuery ------------------------------
(***************************************************************************)
(* CCL (src/src/ccltoken.c, cclfind.c, cclptree.c, cclqual.c, cclqfile.c,  *)
(* cclxmlconfig.c and ccl_stop_words.c): tokens, the parser with the       *)
(* attributes that qualifiers bring, PQF of the tree, the table of         *)
(* qualifiers and the removal of stop words.  Texts as in PqfQuery; memory *)
(* that is freed, or is not what it is taken for, is Garbage.              *)
(***************************************************************************)
EXTENDS PqfQuery

-----------------------------------------------------------------------------
(* The bibset: qualifiers with attributes or with other qualifiers, and    *)
(* the values of "@" lines.  A value of an attribute that only tells the   *)
(* parser what it may do is "special"; a negative number in the code.      *)
CclAttr(set, type, kind, v) == [set |-> set, type |-> type, kind |-> kind, v |-> v]
Qualifier(name, sub, attrs) == [name |-> name, sub |-> sub, attrs |-> attrs]
EmptyBibset == [list |-> <<>>, special |-> <<>>]

QualIndex(bib, name) == Lowest({i \in DOMAIN bib.list : bib.list[i].name = name})
(* ccl_qual_search_special.                                                *)
Special(bib, name, default) ==
  LET i == Lowest({j \in DOMAIN bib.special : bib.special[j].name = name}) IN IF i = 0 THEN default ELSE bib.special[i].values

(* ccl_qual_add_special: the last values count.                            *)
QualAddSpecial(bib, name, values) ==
  LET others == SelectSeq(bib.special, LAMBDA s : s.name # name)
  IN [bib EXCEPT !.special = <<[name |-> name, values |-> values]>> \o others]

(* ccl_qual_new and ccl_qual_add_combi: a name that is there stays as it   *)
(* is; qualifiers that are not there yet are made.                         *)
QualNew(bib, name) == IF QualIndex(bib, name) # 0 THEN bib ELSE [bib EXCEPT !.list = <<Qualifier(name, <<>>, <<>>)>> \o bib.list]
QualAddCombi(bib, name, names) ==
  IF QualIndex(bib, name) # 0 THEN bib
  ELSE FoldLeft(LAMBDA b, n : QualNew(b, n), [bib EXCEPT !.list = <<Qualifier(name, names, <<>>)>> \o bib.list], names)

(* ccl_qual_add_set: attributes go after those that are there.             *)
QualAddSet(bib, name, attrs) ==
  LET b == QualNew(bib, name) IN [b EXCEPT !.list[QualIndex(b, name)].attrs = @ \o attrs]

(* ccl_qual_field2: attributes, each a set or none, a type and values, or  *)
(* a list of other qualifiers; the tokens of the line are words, "," and   *)
(* "=".  An error leaves the bibset as it is.                              *)
TypeNumber(s) ==
  CASE s = "u" -> "1" [] s = "r" -> "2" [] s = "p" -> "3" [] s = "s" -> "4" [] s = "t" -> "5" [] s = "c" -> "6"
    [] s \in Numerals -> s [] OTHER -> "0"
Specialties == [s |-> {"pw", "al", "ol", "ag", "sl"}, r |-> {"o", "r", "omiteq"}, t |-> {"l", "r", "b", "n", "x", "z"}]
FieldValue(set, type, v) ==
  CASE type \in DOMAIN Specialties /\ v \in Specialties[IF type \in DOMAIN Specialties THEN type ELSE "s"] -> CclAttr(set, TypeNumber(type), "special", v)
    [] v \in Numerals -> CclAttr(set, TypeNumber(type), "numeric", v)
    [] OTHER -> CclAttr(set, TypeNumber(type), "string", v)
Separators == {",", "="}
FieldError == [ok |-> FALSE, attrs |-> <<>>, names |-> <<>>]
RECURSIVE FieldAttrs(_, _)
FieldValues(line, set, type, attrs) ==
  LET stop == Lowest({i \in 2..(Len(line) + 2) : i % 2 = 0 /\ At(line, i) # ","})
      values == [i \in 1..(stop \div 2) |-> At(line, 2 * i - 1)]
  IN IF TypeNumber(type) = "0" \/ \E i \in DOMAIN values : values[i] \in Separators \cup {"NUL"} THEN FieldError
     ELSE FieldAttrs(SubSeq(line, stop, Len(line)), attrs \o [i \in DOMAIN values |-> FieldValue(set, type, values[i])])
FieldAttrs(line, attrs) ==
  IF At(line, 1) \in Separators \cup {"NUL"} THEN [ok |-> TRUE, attrs |-> attrs, names |-> <<>>]
  ELSE CASE At(line, 2) = "," -> IF At(line, 3) \notin Separators \cup {"NUL"} /\ At(line, 4) = "="
                                 THEN FieldValues(SubSeq(line, 5, Len(line)), line[1], line[3], attrs) ELSE FieldError
         [] At(line, 2) = "=" -> FieldValues(SubSeq(line, 3, Len(line)), NULL, line[1], attrs)
         [] OTHER -> LET n == Lowest({i \in 1..(Len(line) + 1) : At(line, i) \in Separators \cup {"NUL"}}) - 1
                     IN [ok |-> TRUE, attrs |-> <<>>, names |-> SubSeq(line, 1, Least(9, n))]
QualField(bib, name, line) ==
  LET f == FieldAttrs(line, <<>>)
  IN CASE ~f.ok -> bib [] f.ok /\ f.names = <<>> -> QualAddSet(bib, name, f.attrs) [] OTHER -> QualAddCombi(bib, name, f.names)

(* ccl_qual_fitem2 and ccl_qual_line: one line of a file.  The name of a   *)
(* special value ends at a blank.                                          *)
QualLine(bib, line) ==
  CASE line = <<>> \/ line[1] = "#" -> bib
    [] line # <<>> /\ line[1] = "@" ->
         LET e == Lowest({i \in DOMAIN line : line[i] = " "}) IN QualAddSpecial(bib, SubSeq(line, 2, e - 1), SubSeq(line, e + 1, Len(line)))
    [] line # <<>> /\ line[1] \notin {"#", "@"} -> QualField(bib, line[1], Tail(line))

(* ccl_xml_config: elements of a cclmap, each made into such a line; the   *)
(* first that is wrong ends it, and those before it stay.                  *)
XmlAttrLine(default, a) ==
  LET set == IF a.attrset = NULL THEN default ELSE a.attrset
  IN (IF set = NULL THEN <<>> ELSE <<set, ",">>) \o <<a.type, "=", a.value>>
XmlQual(bib, default, q) ==
  QualField(bib, q.name, FlattenSeq([i \in DOMAIN q.parts |-> IF q.parts[i].el = "attr" THEN XmlAttrLine(default, q.parts[i]) ELSE <<q.parts[i].name>>]))
XmlPartOk(x) == IF x.el = "attr" THEN x.type # NULL /\ x.value # NULL ELSE x.name # NULL
XmlElementOk(e) ==
  /\ e.el = "directive" => e.name # <<>>
  /\ e.el = "qual" => e.name # NULL /\ \A i \in DOMAIN e.parts : XmlPartOk(e.parts[i])
XmlConfig(bib, default, els) ==
  LET bad == Lowest({i \in DOMAIN els : ~XmlElementOk(els[i])})
  IN FoldLeft(LAMBDA b, e : IF e.el = "qual" THEN XmlQual(b, default, e) ELSE QualAddSpecial(b, e.name, e.values),
              bib, IF bad = 0 THEN els ELSE SubSeq(els, 1, bad - 1))

(* ccl_qual_search: the qualifier, or the seq'th of those it stands for.   *)
QualSearch(bib, name, seq) ==
  LET i == QualIndex(bib, name)
      q == bib.list[i]
  IN IF i = 0 \/ (q.sub = <<>> /\ seq > 0) \/ (q.sub # <<>> /\ seq >= Len(q.sub)) THEN <<>>
     ELSE IF q.sub = <<>> THEN <<q>> ELSE <<bib.list[QualIndex(bib, q.sub[seq + 1])]>>

(* qual_val_type: asked of the first qualifier with numbers of the type.   *)
QualValType(qa, type, v) ==
  LET numbers(q) == SelectSeq(q.attrs, LAMBDA a : a.type = type /\ a.kind # "string")
      i == Lowest({j \in DOMAIN qa : numbers(qa[j]) # <<>>})
      k == IF i = 0 THEN 0 ELSE Lowest({j \in DOMAIN numbers(qa[i]) : numbers(qa[i])[j].v = v})
  IN [yes |-> k # 0, set |-> IF k = 0 THEN NULL ELSE numbers(qa[i])[k].set]
Can(qa, type, v) == QualValType(qa, type, v).yes

-----------------------------------------------------------------------------
(* ccl_parser_tokenize.  A word with quotes or escapes is one token.       *)
CclStops == {"(", ")", ",", "%", "!", ">", "<", "=", " "}
RECURSIVE CclWordEnd(_, _)
CclWordEnd(t, i) ==
  CASE At(t, i) \in CclStops \cup {"NUL"} -> i
    [] At(t, i) = "\\" /\ At(t, i + 1) # "NUL" -> CclWordEnd(t, i + 2)
    [] At(t, i) = "\"" -> IF At(t, TokenEnd(t, i + 1, "\"")) = "NUL" THEN Len(t) + 1 ELSE CclWordEnd(t, TokenEnd(t, i + 1, "\"") + 1)
    [] OTHER -> CclWordEnd(t, i + 1)
CclToken(kind, name, ws) == [kind |-> kind, name |-> name, ws |-> ws]
WordKind(bib, w) ==
  LET is(op, default) == Len(w) = 1 /\ w[1] \in ToSet(Special(bib, <<op>>, default))
  IN CASE is("set", <<"set">>) -> "SET" [] ~is("set", <<"set">>) /\ is("not", <<"not", "andnot">>) -> "NOT"
       [] ~is("set", <<"set">>) /\ ~is("not", <<"not", "andnot">>) /\ is("or", <<"or">>) -> "OR"
       [] ~is("set", <<"set">>) /\ ~is("not", <<"not", "andnot">>) /\ ~is("or", <<"or">>) /\ is("and", <<"and">>) -> "AND"
       [] OTHER -> "TERM"
RECURSIVE CclTokens(_, _, _)
CclTokens(bib, t, i) ==
  LET b == SkipChar(t, i, " ")
      c == At(t, b)
      c1 == At(t, b + 1)
      ws == SubSeq(t, i, b - 1)
      e == CclWordEnd(t, b)
      two(k, n) == <<CclToken(k, SubSeq(t, b, b + n - 1), ws)>> \o CclTokens(bib, t, b + n)
  IN CASE c = "NUL" -> <<CclToken("EOL", <<"NUL">>, ws)>>
       [] c = "(" -> two("LP", 1) [] c = ")" -> two("RP", 1) [] c = "," -> two("COMMA", 1)
       [] c \in {"%", "!"} -> two("PROX", IF c1 \in Numerals THEN 2 ELSE 1)
       [] c \in {">", "<", "="} /\ c1 \in {"=", "<", ">"} -> two("REL", 2)
       [] c \in {">", "<", "="} /\ c1 \notin {"=", "<", ">"} -> two(IF c = "=" THEN "EQ" ELSE "REL", 1)
       [] OTHER -> <<CclToken(WordKind(bib, SubSeq(t, b, e - 1)), SubSeq(t, b, e - 1), ws)>> \o CclTokens(bib, t, e)

-----------------------------------------------------------------------------
(* The tree.                                                               *)
CclTerm(attrs, text, qual) == [k |-> "term", attrs |-> attrs, text |-> text, qual |-> qual]
CclSet(name) == [k |-> "set", name |-> name]
CclBool(op, p0, p1) == [k |-> op, p0 |-> p0, p1 |-> p1, p2 |-> <<>>]
CclProxNode(p0, p1, prox) == [k |-> "prox", p0 |-> p0, p1 |-> p1, p2 |-> prox]
IsBinary(n) == n.k \in {"and", "or", "not", "prox"}

(* The parser: its tokens, the one it looks at, the error.                 *)
Look1(st) == st.ts[st.i]
KindAt(st, n) == IF st.i + n \in DOMAIN st.ts THEN st.ts[st.i + n].kind ELSE "EOL"
Kind(st) == Look1(st).kind
Skip(st, n) == [st EXCEPT !.i = Least(st.i + n, Len(st.ts))]
CclOk(st, v) == [ok |-> TRUE, st |-> st, v |-> v]
CclFail(st, err) == [ok |-> FALSE, st |-> [st EXCEPT !.err = err], v |-> Garbage]
MkBool(l, r, op) == IF l = <<>> THEN r ELSE CclBool(op, l[1], r)

(* ccl_set_attr_numeric: only a term has attributes; in a boolean node     *)
(* they are where nobody looks, in others the list is something else.      *)
SetAttrNumeric(n, set, type, v) ==
  LET i == IF n.k = "term" THEN Lowest({j \in DOMAIN n.attrs : n.attrs[j].type = type}) ELSE 0
      a == NumericAttr(set, type, <<v>>)
  IN CASE n.k = "term" -> [n EXCEPT !.attrs = IF i = 0 THEN <<a>> \o n.attrs ELSE [n.attrs EXCEPT ![i] = a]]
       [] n.k \in {"and", "or", "not"} -> n
       [] OTHER -> Garbage

(* has_ccl_masking and append_term: characters of one token.  A character  *)
(* is escaped when a backslash is before it.                               *)
Masks(bib) == [trunc |-> ToSet(Special(bib, <<"truncation">>, <<"?">>)), mask |-> ToSet(Special(bib, <<"mask">>, <<"#">>))]
QuotedAt(s, j) == Cardinality({i \in 1..(j - 1) : s[i] = "\"" /\ (i = 1 \/ s[i - 1] # "\\")}) % 2 = 1
IsEscaped(s, j) == j > 1 /\ s[j - 1] = "\\"
IsMask(s, j, set) == ~IsEscaped(s, j) /\ s[j] # "\"" /\ ~QuotedAt(s, j) /\ s[j] \in set
HasMasking(bib, s) == \E j \in DOMAIN s : IsMask(s, j, Masks(bib).trunc \cup Masks(bib).mask)

RegexChars == {"^", "(", ")", ".", "*", "?", "!"}
CclChars == {"#", "?", "\\"}

LiteralText(c, mode, escaped) ==
  (IF (mode = "102" /\ c \in (RegexChars \cup (IF escaped THEN {"\\"} ELSE {}))) \/ (mode = "104" /\ c \in CclChars) THEN <<"\\">> ELSE <<>>) \o <<c>>
AppendTerm(bib, a, s, mode, first, last) ==
  FoldLeft(LAMBDA r, j :
             LET c == s[j]
                 add(text) == [r EXCEPT !.text = @ \o text]
             IN CASE r.err # NULL -> r
                  [] r.err = NULL /\ IsEscaped(s, j) -> add(LiteralText(c, mode, TRUE))
                  [] r.err = NULL /\ ~IsEscaped(s, j) /\ c = "\"" -> r
                  [] r.err = NULL /\ IsMask(s, j, Masks(bib).trunc) ->
                       (CASE mode = "102" -> add(<<".", "*">>) [] mode = "104" -> add(<<"?">>)
                          [] mode = NULL /\ first /\ j = 1 -> [r EXCEPT !.left = TRUE]
                          [] mode = NULL /\ ~(first /\ j = 1) /\ last /\ j = Len(s) -> [r EXCEPT !.right = TRUE]
                          [] OTHER -> [r EXCEPT !.err = "TRUNC_NOT_EMBED"])
                  [] r.err = NULL /\ IsMask(s, j, Masks(bib).mask \ Masks(bib).trunc) ->
                       (CASE mode = "102" -> add(<<".">>) [] mode = "104" -> add(<<"#">>) [] OTHER -> [r EXCEPT !.err = "TRUNC_NOT_SINGLE"])
                  [] OTHER -> IF c = "\\" THEN r ELSE add(LiteralText(c, mode, FALSE)),
           a, UpTo(Len(s)))

(* ccl_term_one_use: use is the place of the one use attribute of the      *)
(* first qualifier that is taken, 0 for all.                               *)
QualAttrs(qa, use) ==
  FoldLeft(LAMBDA out, i :
    FoldLeft(LAMBDA o, j :
               LET a == qa[i].attrs[j]
                   structured == \E x \in ToSet(o) : x.type = "4" /\ x.num
               IN CASE a.type = "1" /\ use # 0 /\ ~(i = 1 /\ j = use) -> o
                    [] ~(a.type = "1" /\ use # 0 /\ ~(i = 1 /\ j = use)) /\ a.kind = "string" -> <<ComplexAttr(a.set, a.type, <<<<a.v>>>>)>> \o o
                    [] ~(a.type = "1" /\ use # 0 /\ ~(i = 1 /\ j = use)) /\ a.kind = "numeric" /\ ~(a.type = "4" /\ structured) ->
                         <<NumericAttr(a.set, a.type, <<a.v>>)>> \o o
                    [] OTHER -> o,
             out, UpTo(Len(qa[i].attrs))),
    <<>>, UpTo(Len(qa)))
TermOneUse(bib, st, use, qa, no, phrase, group) ==
  LET toks == SubSeq(st.ts, st.i, st.i + no - 1)
      masked == \E i \in DOMAIN toks : HasMasking(bib, toks[i].name)
      mode == CASE Can(qa, "5", "x") -> (IF masked THEN "102" ELSE NULL)
                [] ~Can(qa, "5", "x") /\ Can(qa, "5", "z") -> (IF masked THEN "104" ELSE NULL)
                [] OTHER -> NULL
      attrs == QualAttrs(qa, use)
      wp == QualValType(qa, "4", "pw")
      structure == IF (\E x \in ToSet(attrs) : x.type = "4" /\ x.num) \/ ~(group \/ wp.yes) THEN <<>>
                   ELSE <<NumericAttr(IF group THEN NULL ELSE wp.set, "4", <<IF phrase THEN "1" ELSE "2">>)>>
      text == FoldLeft(LAMBDA a, i :
                         AppendTerm(bib, IF a.text # <<>> THEN [a EXCEPT !.text = @ \o toks[i].ws] ELSE a, toks[i].name, mode, i = 1, i = no),
                       [text |-> <<>>, left |-> FALSE, right |-> FALSE, err |-> NULL], UpTo(no))
      side == CASE text.left /\ text.right -> "b" [] text.left /\ ~text.right -> "l" [] ~text.left /\ text.right -> "r" [] OTHER -> "n"
      number == CASE side = "b" -> "3" [] side = "r" -> "1" [] side = "l" -> "2" [] OTHER -> "100"
      can == QualValType(qa, "5", IF side # "n" THEN side ELSE IF mode = "102" THEN "x" ELSE IF mode = "104" THEN "z" ELSE "n")
      trunc == IF can.yes THEN <<NumericAttr(can.set, "5", <<IF side = "n" /\ mode # NULL THEN mode ELSE number>>)>> ELSE <<>>
  IN IF text.err # NULL THEN CclFail(st, text.err)
     ELSE IF side # "n" /\ ~can.yes THEN CclFail(st, "TRUNC_NOT")
     ELSE CclOk(st, CclTerm(trunc \o structure \o attrs, text.text, IF qa = <<>> THEN NULL ELSE qa[1].name))

(* ccl_term_multi_use: one node for every use attribute, under "or".       *)
TermMultiUse(bib, st, qa, no, phrase, group) ==
  LET uses == IF qa = <<>> THEN <<>> ELSE SelectSeq(UpTo(Len(qa[1].attrs)), LAMBDA j : qa[1].attrs[j].type = "1")
      one(u) == TermOneUse(bib, st, u, qa, no, phrase, group)
  IN IF uses = <<>> THEN one(0)
     ELSE FoldLeft(LAMBDA r, u : IF ~r.ok THEN r ELSE IF ~one(u).ok THEN one(u) ELSE CclOk(st, CclBool("or", r.v, one(u).v)),
                   one(uses[1]), Tail(uses))

(* split_recur and search_term_split_list: every way to make phrases.      *)
RECURSIVE SplitRecur(_, _, _, _, _)
SplitRecur(bib, st, qa, sz, sub) ==
  FoldLeft(LAMBDA r, l :
             LET p2 == TermMultiUse(bib, st, qa, l, l > 1, FALSE)
                 p1 == SplitRecur(bib, Skip(st, l), qa, sz - l, sub)
             IN IF ~r.ok THEN r ELSE IF ~p2.ok THEN p2
                ELSE IF sz = l THEN CclOk(st, <<MkBool(r.v, p2.v, "or")>>)
                ELSE IF ~p1.ok THEN p1 ELSE CclOk(st, <<MkBool(r.v, CclBool("and", p2.v, p1.v[1]), "or")>>),
           CclOk(st, <<>>), UpTo(Least(sz, sub)))
RunOf(st, kinds) == Lowest({n \in 0..(Len(st.ts) - st.i) : st.ts[st.i + n].kind \notin kinds})
SplitList(bib, st, qa, kinds) ==
  LET sz == RunOf(st, kinds)
      r == SplitRecur(bib, st, qa, sz, IF sz >= 7 THEN 1 ELSE IF sz >= 5 THEN 2 ELSE 3)
  IN IF sz = 0 THEN CclFail(st, "TERM_EXPECTED") ELSE IF ~r.ok THEN CclFail(Skip(st, sz), r.st.err) ELSE CclOk(Skip(st, sz), r.v[1])

(* search_term_x: how many tokens make the next term, and whether they are *)
(* a phrase.                                                               *)
HasBlank(s) == \E i \in DOMAIN s : s[i] = " "
TakenAsOne(st, kinds, most, group) ==
  LET n == Least(RunOf(st, kinds), most)
      ph(i) == HasBlank(st.ts[st.i + i].name)
      stop == Lowest({i \in 1..n : i = n \/ ph(i - 1) \/ ph(i - 1) # ph(i)})
  IN CASE n = 0 -> [no |-> 0, phrase |-> FALSE]
       [] n > 0 /\ group -> [no |-> stop, phrase |-> ph(stop - 1)]
       [] OTHER -> [no |-> n, phrase |-> n > 1 \/ ph(0)]
RECURSIVE SearchTermLoop(_, _, _, _, _, _)
SearchTermLoop(bib, st, qa, kinds, multi, top) ==
  LET list == Can(qa, "4", "al") \/ Can(qa, "4", "ol")
      group == Can(qa, "4", "ag")
      t == TakenAsOne(st, kinds, IF list \/ ~multi THEN 1 ELSE 200, group)
      p == TermMultiUse(bib, st, qa, t.no, t.phrase, group)
      next == <<MkBool(top, p.v, IF Can(qa, "4", "ol") THEN "or" ELSE "and")>>
  IN IF Can(qa, "4", "al") /\ Kind(st) = "COMMA" THEN SearchTermLoop(bib, Skip(st, 1), qa, kinds, multi, top)
     ELSE IF t.no = 0 THEN IF top = <<>> THEN CclFail(st, "TERM_EXPECTED") ELSE CclOk(st, top[1])
     ELSE IF ~p.ok THEN CclFail(Skip(st, t.no), p.st.err)
     ELSE IF multi THEN SearchTermLoop(bib, Skip(st, t.no), qa, kinds, multi, next) ELSE CclOk(Skip(st, t.no), next[1])
SearchTermX(bib, st, qa, kinds, multi) ==
  IF Can(qa, "4", "sl") THEN SplitList(bib, st, qa, kinds) ELSE SearchTermLoop(bib, st, qa, kinds, multi, <<>>)
SearchTerm(bib, st, qa) == SearchTermX(bib, st, qa, {"TERM", "COMMA"}, FALSE)
ManyKinds == {"TERM", "COMMA", "EQ", "REL", "SET"}

(* qualifiers_order: a "-" in a term makes it a range; tokens are split    *)
(* in place.                                                               *)
Relation(name) ==
  CASE name = <<"<">> -> "1" [] name = <<"<", "=">> -> "2" [] name = <<"=">> -> "3" [] name = <<">", "=">> -> "4"
    [] name = <<">">> -> "5" [] name = <<"<", ">">> -> "6" [] OTHER -> NULL
Minus == CclToken("TERM", <<"-">>, <<>>)
Replace(st, n, toks) == [st EXCEPT !.ts = SubSeq(st.ts, 1, st.i - 1) \o toks \o SubSeq(st.ts, st.i + n, Len(st.ts))]
SplitRange(st) ==
  LET tk == Look1(st)
      s == tk.name
      i == Lowest({j \in DOMAIN s : s[j] = "-" /\ ~QuotedAt(s, j)})
      word(w) == CclToken("TERM", w, <<>>)
      nx == st.ts[Least(st.i + 1, Len(st.ts))]
  IN CASE Kind(st) # "TERM" -> st
       [] Kind(st) = "TERM" /\ i = 1 /\ Len(s) > 1 -> Replace(st, 1, <<[tk EXCEPT !.name = <<"-">>], word(Tail(s))>>)
       [] Kind(st) = "TERM" /\ i > 1 /\ i = Len(s) -> Replace(st, 1, <<[tk EXCEPT !.name = Front(s)], Minus>>)
       [] Kind(st) = "TERM" /\ i > 1 /\ i < Len(s) ->
            Replace(st, 1, <<[tk EXCEPT !.name = SubSeq(s, 1, i - 1)], Minus, word(SubSeq(s, i + 1, Len(s)))>>)
       [] Kind(st) = "TERM" /\ i = 0 /\ nx.kind = "TERM" /\ Len(nx.name) > 1 /\ nx.name[1] = "-" ->
            Replace(st, 2, <<tk, Minus, [nx EXCEPT !.name = Tail(nx.name)]>>)
       [] OTHER -> st

RECURSIVE FindSpec(_, _, _), SearchTerms(_, _, _)
SearchTerms2(bib, st, qa) ==
  LET p == FindSpec(bib, Skip(st, 1), qa)
  IN IF Kind(st) # "LP" THEN SearchTermX(bib, st, qa, ManyKinds, TRUE)
     ELSE IF ~p.ok THEN p ELSE IF Kind(p.st) # "RP" THEN CclFail(p.st, "RP_EXPECTED") ELSE CclOk(Skip(p.st, 1), p.v)

QualifiersOrder(bib, st0, ap, set) ==
  LET rel == Relation(Look1(st0).name)
      st == IF rel = "3" /\ Can(ap, "2", "r") THEN SplitRange(Skip(st0, 1)) ELSE Skip(st0, 1)
      p1 == SearchTerm(bib, st, ap)
      p2 == SearchTerm(bib, Skip(p1.st, 1), ap)
      low == SearchTerm(bib, Skip(st, 1), ap)
      p == SearchTerms(bib, st, ap)
  IN CASE rel = NULL -> CclFail(st0, "BAD_RELATION")
       [] rel = "3" /\ Kind(st) = "TERM" /\ KindAt(st, 1) # "EOL" /\ st.ts[Least(st.i + 1, Len(st.ts))].name = <<"-">> ->
            IF ~p1.ok THEN p1
            ELSE IF KindAt(p1.st, 1) # "TERM" THEN CclOk(Skip(p1.st, 1), SetAttrNumeric(p1.v, set, "2", "4"))
            ELSE IF ~p2.ok THEN p2
            ELSE CclOk(p2.st, [CclBool("and", SetAttrNumeric(p1.v, set, "2", "4"), SetAttrNumeric(p2.v, set, "2", "2")) EXCEPT !.p2 = <<"unset">>])
       [] rel = "3" /\ ~(Kind(st) = "TERM" /\ KindAt(st, 1) # "EOL" /\ st.ts[Least(st.i + 1, Len(st.ts))].name = <<"-">>) /\ Look1(st).name = <<"-">> ->
            IF ~low.ok THEN low ELSE CclOk(low.st, SetAttrNumeric(low.v, set, "2", "2"))
       [] OTHER -> IF ~p.ok THEN p
                   ELSE CclOk(p.st, IF rel = "3" /\ Can(ap, "2", "omiteq") THEN p.v
                                    ELSE IF IsBinary(p.v) /\ p.v.p2 = <<"unset">> THEN Garbage ELSE SetAttrNumeric(p.v, set, "2", rel))

QualifierRelation(bib, st, ap) ==
  LET o == QualValType(ap, "2", "o")
      r == QualValType(ap, "2", "r")
  IN IF o.yes \/ r.yes THEN QualifiersOrder(bib, st, ap, IF o.yes THEN o.set ELSE r.set)
     ELSE IF Kind(st) # "EQ" THEN CclFail(st, "EQ_EXPECTED") ELSE SearchTerms(bib, Skip(st, 1), ap)

(* qualifier_list: names up to the relation at la.  With "merge" all the   *)
(* names and the qualifiers around them go together, once for every one of *)
(* a combined qualifier; when a later one fails the tree of those before   *)
(* it is freed, and returned.  With "or" each name on its own.             *)
NamesBefore(st, la) == SelectSeq(SubSeq(st.ts, st.i, la - 1), LAMBDA t : t.kind = "TERM")
QualName(t) == IF Len(t.name) = 1 THEN t.name[1] ELSE "unknown"
RECURSIVE MergeLoop(_, _, _, _, _, _)
MergeLoop(bib, st, la, qa, seq, node) ==
  LET names == NamesBefore(st, la)
      at(i, n) == QualSearch(bib, QualName(names[i]), n)
      found == \E i \in DOMAIN names : at(i, seq) # <<>>
      ap == [i \in DOMAIN names |-> IF at(i, seq) # <<>> THEN at(i, seq)[1] ELSE at(i, 0)[1]] \o qa
      sub == QualifierRelation(bib, [st EXCEPT !.i = la], ap)
      next == MergeLoop(bib, [st EXCEPT !.ts = sub.st.ts], la, qa, seq + 1, [st |-> sub.st, v |-> <<MkBool(node.v, sub.v, "or")>>])
  IN IF \E i \in DOMAIN names : at(i, seq) = <<>> /\ at(i, 0) = <<>> THEN CclFail(st, "UNKNOWN_QUAL")
     ELSE IF ~found THEN IF node.v = <<>> THEN CclFail(st, st.err) ELSE CclOk(node.st, node.v[1])
     ELSE IF sub.ok THEN next
     ELSE IF node.v = <<>> THEN sub ELSE CclOk(sub.st, Garbage)
RECURSIVE OrLoop(_, _, _, _, _, _)
OrLoop(bib, st, la, names, seq, node) ==
  LET ap == QualSearch(bib, QualName(names[1]), seq)
      sub == QualifierRelation(bib, [st EXCEPT !.i = la], ap)
  IN IF names = <<>> THEN CclOk(node.st, node.v[1])
     ELSE IF ap = <<>> THEN IF seq = 0 THEN CclFail(st, "UNKNOWN_QUAL") ELSE OrLoop(bib, st, la, Tail(names), 0, node)
     ELSE IF ~sub.ok THEN sub
     ELSE OrLoop(bib, [st EXCEPT !.ts = sub.st.ts], la, names, seq + 1, [st |-> sub.st, v |-> <<MkBool(node.v, sub.v, "or")>>])
QualifierList(bib, st, la, qa) ==
  IF Special(bib, <<"field">>, <<"merge">>)[1] = "or" THEN OrLoop(bib, st, la, NamesBefore(st, la), 0, [st |-> st, v |-> <<>>])
  ELSE MergeLoop(bib, st, la, qa, 0, [st |-> st, v |-> <<>>])

(* search_terms: terms with a proximity between them, said or not.         *)
RECURSIVE ProxLoop(_, _, _)
ProxLoop(bib, p1, qa) ==
  LET said == Kind(p1.st) = "PROX"
      p2 == SearchTerms2(bib, IF said THEN Skip(p1.st, 1) ELSE p1.st, qa)
  IN IF ~said /\ Kind(p1.st) \notin ManyKinds THEN p1
     ELSE IF ~p2.ok THEN p2
     ELSE ProxLoop(bib, CclOk(p2.st, CclProxNode(p1.v, p2.v, IF said THEN Look1(p1.st).name ELSE <<>>)), qa)
SearchTerms(bib, st, qa) ==
  LET p1 == SearchTerms2(bib, st, qa) IN IF ~p1.ok THEN p1 ELSE ProxLoop(bib, p1, qa)

(* search_elements: a result set, qualifiers, or terms for "term".         *)
RECURSIVE RelationAt(_, _)
RelationAt(st, n) ==
  IF KindAt(st, n) # "TERM" THEN [at |-> 0, kind |-> KindAt(st, n)]
  ELSE IF KindAt(st, n + 1) \in {"REL", "EQ"} THEN [at |-> st.i + n + 1, kind |-> "REL"]
  ELSE IF KindAt(st, n + 1) # "COMMA" THEN [at |-> 0, kind |-> KindAt(st, n + 1)]
  ELSE RelationAt(st, n + 2)
RECURSIVE TermLoop(_, _, _, _)
TermLoop(bib, st, seq, node) ==
  LET q == QualSearch(bib, "term", seq)
      sub == SearchTerms(bib, st, q)
  IN CASE q = <<>> /\ node.v = <<>> -> SearchTerms(bib, st, <<>>)
       [] q = <<>> /\ node.v # <<>> -> CclOk(node.st, node.v[1])
       [] OTHER -> IF ~sub.ok THEN sub
                   ELSE TermLoop(bib, [st EXCEPT !.ts = sub.st.ts], seq + 1, [st |-> sub.st, v |-> <<MkBool(node.v, sub.v, "or")>>])
SearchElements(bib, st, qa) ==
  LET s1 == Skip(st, IF KindAt(st, 1) = "EQ" THEN 2 ELSE 1)
      rel == RelationAt(st, 0)
  IN CASE Kind(st) = "SET" -> IF Kind(s1) # "TERM" THEN CclFail(s1, "SETNAME_EXPECTED") ELSE CclOk(Skip(s1, 1), CclSet(Look1(s1).name))
       [] Kind(st) # "SET" /\ rel.at # 0 -> QualifierList(bib, st, rel.at, qa)
       [] Kind(st) # "SET" /\ rel.at = 0 /\ (qa # <<>> \/ rel.kind = "LP") -> SearchTerms(bib, st, qa)
       [] OTHER -> TermLoop(bib, st, 0, [st |-> st, v |-> <<>>])

(* find_spec: operators from left to right.                                *)
RECURSIVE OperatorLoop(_, _, _)
OperatorLoop(bib, p1, qa) ==
  LET p2 == SearchElements(bib, Skip(p1.st, 1), qa)
      op == CASE Kind(p1.st) = "AND" -> "and" [] Kind(p1.st) = "OR" -> "or" [] OTHER -> "not"
  IN IF Kind(p1.st) \notin {"AND", "OR", "NOT"} THEN p1
     ELSE IF ~p2.ok THEN p2 ELSE OperatorLoop(bib, CclOk(p2.st, CclBool(op, p1.v, p2.v)), qa)
FindSpec(bib, st, qa) ==
  LET p1 == SearchElements(bib, st, qa) IN IF ~p1.ok THEN p1 ELSE OperatorLoop(bib, p1, qa)

(* ccl_parser_find_str and ccl_parser_find_token.                          *)
CclFind(bib, text) ==
  LET p == FindSpec(bib, [ts |-> CclTokens(bib, text, 1), i |-> 1, err |-> NULL], <<>>)
  IN IF p.ok /\ Kind(p.st) # "EOL" THEN CclFail(p.st, IF Kind(p.st) = "RP" THEN "BAD_RP" ELSE "OP_EXPECTED")
     ELSE IF p.ok THEN CclOk([p.st EXCEPT !.err = NULL], p.v) ELSE p

RECURSIVE CclWhole(_)
CclWhole(n) == n.k # "uninitialized" /\ (IsBinary(n) => CclWhole(n.p0) /\ CclWhole(n.p1))

-----------------------------------------------------------------------------

(* ccl_pquery.                                                             *)
ProxWords(p2) ==
  IF p2 = <<>> THEN <<"0", " ", "2", " ", "0", " ", "1">>
  ELSE <<"0", " ", IF Len(p2) > 1 THEN p2[2] ELSE "1", " ", IF p2[1] = "!" THEN "1" ELSE "0", " ", "2">>
RECURSIVE CclPquery(_)
CclPquery(n) ==
  CASE IsBinary(n) -> <<"@", n.k, " ">> \o (IF n.k = "prox" THEN ProxWords(n.p2) \o <<" ", "k", " ", "2", " ">> ELSE <<>>)
                      \o CclPquery(n.p0) \o CclPquery(n.p1)
    [] n.k = "set" -> <<"@", "set", " ">> \o EncodePqfTerm(n.name)
    [] n.k = "term" -> AttributesText(n.attrs) \o EncodePqfTerm(n.text)
    [] OTHER -> <<"(garbage)">>

-----------------------------------------------------------------------------
(* ccl_remove_stop_r.  A node is [n, moved, removed]: whether it is still  *)
(* the node that was given, and the words removed so far; n is <<>> when   *)
(* nothing is left.  The parent of a node that was replaced still points   *)
(* to the old one, which is freed.                                         *)
StopWords(bib, qual) == ToSet(Special(bib, <<"stop", qual>>, Special(bib, <<"stop", "*">>, <<>>)))

RemoveStopTerm(bib, n, removed) ==
  LET words == NonEmptyParts(n.text, " ")
      stop(w) == Len(w) = 1 /\ w[1] \in StopWords(bib, n.qual)
      gone == SelectSeq(words, stop)
      kept == SelectSeq(words, LAMBDA w : ~stop(w))
      text == IF gone = <<>> THEN n.text ELSE Joined(kept, <<" ">>)
      now == removed \o gone
      chopped == IF now = <<>> THEN text ELSE ChopRight(text)
  IN [n |-> IF now # <<>> /\ chopped = <<>> THEN <<>> ELSE <<[n EXCEPT !.text = chopped]>>, moved |-> FALSE, removed |-> now]
RECURSIVE RemoveStop(_, _, _)
RemoveStop(bib, n, removed) ==
  LET l == RemoveStop(bib, n.p0, removed)
      r == RemoveStop(bib, n.p1, l.removed)
      child(x) == IF x.moved THEN Garbage ELSE x.n[1]
  IN CASE n.k = "term" -> RemoveStopTerm(bib, n, removed)
       [] n.k = "set" -> [n |-> <<n>>, moved |-> FALSE, removed |-> removed]
       [] IsBinary(n) ->
            IF l.n = <<>> \/ r.n = <<>> THEN [n |-> IF l.n # <<>> THEN l.n ELSE r.n, moved |-> TRUE, removed |-> r.removed]
            ELSE [n |-> <<[n EXCEPT !.p0 = child(l), !.p1 = child(r)]>>, moved |-> FALSE, removed |-> r.removed]
       [] OTHER -> [n |-> <<n>>, moved |-> FALSE, removed |-> removed]
=============================================================================
