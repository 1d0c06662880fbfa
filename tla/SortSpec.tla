------------------------------ MODULE SortSpec ------------------------------
(***************************************************************************)
(* Sort specifications (src/src/sortspec.c): the notation of YAZ, the sort *)
(* keys of SRU and of Solr, CQL's SORTBY and type-7 attributes.  A text is *)
(* a sequence of symbols as in PqfQuery; each flag is one symbol.          *)
(***************************************************************************)
EXTENDS PqfQuery

NoMissing == [which |-> "null", v |-> <<>>]
AbortMissing == [which |-> "abort", v |-> <<>>]
MissingValue(v) == [which |-> "data", v |-> v]
SortField(name) == [which |-> "field", name |-> name, attrs |-> <<>>]
SortAttributes(attrs) == [which |-> "attributes", name |-> <<>>, attrs |-> attrs]
SortKeySpec(key, desc, sensitive, missing) ==
  [key |-> key, desc |-> desc, sensitive |-> sensitive, missing |-> missing]

(* Positions of keys, counted from 0, as text.                             *)
NumberText == <<"0", "1", "2", "3", "4">>
NumberAt(t, i) == IF At(t, i) \in Numerals THEN t[i] ELSE "0"

(* yaz_sort_spec: a key with "=" is a list of attributes, the others a     *)
(* field; a part is taken as long as some "=" follows it.                  *)
SortKeyOf(word) ==
  LET starts == <<1>> \o SelectSeq([i \in DOMAIN word |-> i + 1], LAMBDA i : word[i - 1] = ",")
      sep(s) == Lowest({j \in DOMAIN word : j >= s /\ word[j] = "="})
      n == Len(SelectSeq(starts, LAMBDA s : sep(s) # 0))
  IN IF sep(1) = 0 THEN SortField(word)
     ELSE SortAttributes([i \in 1..Least(10, n) |->
                            NumericAttr(NULL, NumberAt(word, starts[i]), <<NumberAt(word, sep(starts[i]) + 1)>>)])
RECURSIVE SortFlags(_, _)
SortFlags(s, flags) ==
  IF flags = <<>> THEN s
  ELSE LET f == flags[1]
       IN CASE f \in {"d", "D", ">"} -> SortFlags([s EXCEPT !.desc = TRUE], Tail(flags))
            [] f \in {"a", "A", "<"} -> SortFlags([s EXCEPT !.desc = FALSE], Tail(flags))
            [] f \in {"i", "I"} -> SortFlags([s EXCEPT !.sensitive = FALSE], Tail(flags))
            [] f \in {"s", "S"} -> SortFlags([s EXCEPT !.sensitive = TRUE], Tail(flags))
            [] f = "!" -> SortFlags([s EXCEPT !.missing = AbortMissing], Tail(flags))
            [] f = "=" -> [s EXCEPT !.missing = MissingValue(Tail(flags))]
            [] OTHER -> SortFlags(s, Tail(flags))
ParseSortSpec(text) ==
  LET words == NonEmptyParts(text, " ")
  IN [i \in 1..(Len(words) \div 2) |->
        SortFlags(SortKeySpec(SortKeyOf(words[2 * i - 1]), FALSE, FALSE, NoMissing), words[2 * i])]

(* The conversions fail (-1) for attributes where only a field will do.    *)
OnlyFields(specs) == \A i \in DOMAIN specs : specs[i].key.which = "field"

(* yaz_sort_spec_to_cql.                                                   *)
SortToCql(specs) ==
  FoldLeft(LAMBDA out, i :
             LET s == specs[i]
             IN out \o (IF i = 1 THEN <<" ", "sortby", " ">> ELSE <<" ">>) \o s.key.name
                \o <<"/", IF s.desc THEN "descending" ELSE "ascending", "/", IF s.sensitive THEN "respectCase" ELSE "ignoreCase">>
                \o CASE s.missing.which = "null" -> <<>>
                     [] s.missing.which = "abort" -> <<"/", "missingFail">>
                     [] OTHER -> <<"/", "missingValue", "=">> \o s.missing.v,
           <<>>, UpTo(Len(specs)))

(* yaz_sort_spec_to_type7: each key becomes an operand of @or, numbered.   *)
SortToType7(specs, pqf) ==
  FoldLeft(LAMBDA out, i :
             <<"@", "or", " ">> \o out
             \o (IF specs[i].key.which = "field" THEN <<" ", "@", "attr", " ", "1", "=">> \o specs[i].key.name
                 ELSE FoldLeft(LAMBDA o, a : o \o <<" ", "@", "attr", " ", a.type, "=">> \o a.list[1], <<>>, specs[i].key.attrs))
             \o <<" ", "@", "attr", " ", "7", "=", IF specs[i].desc THEN "2" ELSE "1", " ">> \o <<NumberText[i]>>,
           pqf, UpTo(Len(specs)))

(* yaz_sort_spec_to_srw_sortkeys.                                          *)
SortToSrw(specs) ==
  Joined([i \in DOMAIN specs |->
            specs[i].key.name \o <<",", ",", IF specs[i].desc THEN "0" ELSE "1", ",",
                                   IF specs[i].sensitive THEN "1" ELSE "0", ",">>
            \o CASE specs[i].missing.which = "null" -> <<"highValue">>
                 [] specs[i].missing.which = "abort" -> <<"abort">>
                 [] OTHER -> specs[i].missing.v], <<" ">>)

(* yaz_sort_spec_to_solr_sortkeys.                                         *)
SortToSolr(specs) ==
  Joined([i \in DOMAIN specs |-> specs[i].key.name \o <<" ", IF specs[i].desc THEN "desc" ELSE "asc">>], <<",">>)

(* yaz_srw_sortkeys_to_sort_spec: path,schema,ascending,caseSensitive,     *)
(* missingValue; what is not given or empty has a default.                 *)
SrwToSort(keys) ==
  LET words == NonEmptyParts(keys, " ")
      arg(i, k) == LET args == SplitAt(words[i], ",") IN IF k \in DOMAIN args THEN args[k] ELSE <<>>
      missing(v) == CASE v \in {<<>>, <<"omit">>, <<"lowValue">>, <<"highValue">>} -> <<>>
                      [] v = <<"abort">> -> <<"!">>
                      [] OTHER -> <<"=">> \o v
  IN Joined([i \in DOMAIN words |->
               arg(i, 1) \o <<" ", IF arg(i, 3) # <<>> /\ NumberAt(arg(i, 3), 1) = "0" THEN "d" ELSE "a",
                              IF arg(i, 4) # <<>> /\ NumberAt(arg(i, 4), 1) # "0" THEN "s" ELSE "i">>
               \o missing(arg(i, 5))], <<" ">>)

(* yaz_solr_sortkeys_to_sort_spec: nothing unless every key has two words. *)
SolrToSort(keys) ==
  LET parts == NonEmptyParts(keys, ",")
      fine(i) == Len(SplitAt(parts[i], " ")) = 2 /\ SplitAt(parts[i], " ")[2] \in {<<"asc">>, <<"desc">>}
  IN IF \E i \in DOMAIN parts : ~fine(i) THEN [ok |-> FALSE, text |-> <<>>]
     ELSE [ok |-> TRUE,
           text |-> Joined([i \in DOMAIN parts |->
                              SplitAt(parts[i], " ")[1] \o <<" ", IF SplitAt(parts[i], " ")[2] = <<"asc">> THEN "a" ELSE "d", "i">>],
                           <<" ">>)]
=============================================================================
