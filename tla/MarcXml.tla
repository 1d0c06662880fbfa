------------------------------ MODULE MarcXml -------------------------------
(***************************************************************************)
(* MARCXML, its short form TurboMARC, and MARC in JSON.  A document is a   *)
(* stream of items: an element is opened with its name and attributes and  *)
(* closed with its name, and text is an item.  A name is a sequence of     *)
(* characters, or one word.                                                *)
(***************************************************************************)
EXTENDS MarcRecord

Open(name, attrs) == [item |-> "open", name |-> name, attrs |-> attrs]
Close(name) == [item |-> "close", name |-> name]
Text(s) == IF s = <<>> THEN <<>> ELSE <<[item |-> "text", text |-> s]>>
Attr(name, v) == [name |-> name, v |-> v]
Elem(name, attrs, body) == <<Open(name, attrs)>> \o body \o <<Close(name)>>

IndName(turbo, i) == IF turbo THEN <<"i", MarcDigits[i + 1]>> ELSE <<"ind", MarcDigits[i + 1]>>
IndAttrs(n, turbo) == [i \in DOMAIN n.ind |-> Attr(IndName(turbo, i), <<n.ind[i]>>)]

(* element_name_append_attribute_value: a code goes into the name of the   *)
(* element if it can.                                                      *)
PlainCode(code) == \A i \in DOMAIN code : IsAlnum(code[i])

TurboSubfield(code, data) ==
  IF PlainCode(code) THEN Elem(<<"s">> \o code, <<>>, Text(data))
  ELSE Elem(<<"s">>, <<Attr(<<"code">>, code)>>, Text(data))

(* yaz_marc_write_marcxml_wrbuf, one node.                                 *)
XmlNode(leader, n, turbo) ==
  CASE n.which = "data" ->
         Elem(IF turbo THEN <<"d">> \o n.tag ELSE <<"datafield">>,
              (IF turbo THEN <<>> ELSE <<Attr(<<"tag">>, n.tag)>>) \o IndAttrs(n, turbo),
              FlattenSeq([i \in DOMAIN n.subs |->
                            LET code == Code(leader, n.subs[i])
                                data == Data(leader, n.subs[i])
                            IN IF turbo THEN TurboSubfield(code, data)
                               ELSE Elem(<<"subfield">>, <<Attr(<<"code">>, code)>>, Text(data))]))
    [] n.which = "control" ->
         IF turbo THEN Elem(<<"c">> \o n.tag, <<>>, Text(n.data))
                  ELSE Elem(<<"controlfield">>, <<Attr(<<"tag">>, n.tag)>>, Text(n.data))
    [] n.which = "leader" -> Elem(IF turbo THEN <<"l">> ELSE <<"leader">>, <<>>, <<[item |-> "leader", leader |-> n.leader]>>)
    [] OTHER -> <<[item |-> "comment"]>>

(* ... and the record.  The first of a collection opens it: the state is   *)
(* "no", "first" or "second" (enable_collection).                          *)
WriteMarcXml(nodes, turbo, coll) ==
  IF ~HasLeader(nodes) THEN [coll |-> coll, out |-> <<>>]
  ELSE [coll |-> IF coll = "first" THEN "second" ELSE coll,
        out |-> (IF coll = "first" THEN <<Open(<<"collection">>, <<>>)>> ELSE <<>>)
                \o Elem(IF turbo THEN <<"r">> ELSE <<"record">>, <<>>,
                        FlattenSeq([i \in DOMAIN nodes |-> XmlNode(FirstLeader(nodes), nodes[i], turbo)]))]
WriteTrailer(coll) == IF coll = "second" THEN <<Close(<<"collection">>)>> ELSE <<>>

(* With libxml2 the document is made as a tree: tags are cut to three      *)
(* characters in the short form, and there is no collection.               *)
LibxmlNode(leader, n, turbo) ==
  IF turbo /\ IsField(n) THEN XmlNode(leader, [n EXCEPT !.tag = SubSeq(@, 1, Least(3, Len(@)))], turbo)
                         ELSE XmlNode(leader, n, turbo)
WriteLibxml(nodes, turbo) ==
  IF ~HasLeader(nodes) THEN <<>>
  ELSE Elem(IF turbo THEN <<"r">> ELSE <<"record">>, <<>>,
            FlattenSeq([i \in DOMAIN nodes |-> LibxmlNode(FirstLeader(nodes), nodes[i], turbo)]))

(* The XML parser (external): elements are closed in order, by their name. *)
WellFormed(doc) ==
  LET st == FoldLeft(LAMBDA s, x :
              CASE ~s.ok -> s
                [] x.item = "open" -> [s EXCEPT !.open = Append(@, x.name)]
                [] x.item = "close" -> IF s.open # <<>> /\ Last(s.open) = x.name THEN [s EXCEPT !.open = Front(@)]
                                       ELSE [s EXCEPT !.ok = FALSE]
                [] OTHER -> s, [ok |-> TRUE, open |-> <<>>], doc)
  IN st.ok /\ st.open = <<>>

-----------------------------------------------------------------------------
(* yaz_marc_read_xml walks the tree of a record; here it is a fold over    *)
(* the items inside the record.  el is the element whose text is read.     *)
AttrValue(attrs, name) ==
  LET at == {i \in DOMAIN attrs : attrs[i].name = name} IN IF at = {} THEN <<>> ELSE <<attrs[Lowest(at)].v>>

(* get_indicator_value: an indicator that is not there is a blank.         *)
Indicators(attrs, turbo, n) ==
  FlattenSeq([i \in 1..n |-> LET v == AttrValue(attrs, IndName(turbo, i)) IN IF v = <<>> THEN <<" ">> ELSE v[1]])

(* element_attribute_value_extract                                         *)
NameValue(x, attr) == IF Len(x.name) > 1 THEN <<Tail(x.name)>> ELSE AttrValue(x.attrs, attr)

Bad(st) == [st EXCEPT !.ok = FALSE]
Begin(st, el, text) == [st EXCEPT !.el = el, !.text = text]

ReadOpen(st, x, turbo) ==
  LET leading == IF st.nodes = <<>> THEN [st EXCEPT !.nodes = <<Comment, LeaderNode(FakeLeader)>>] ELSE st
      kind == IF turbo THEN x.name[1] ELSE x.name
      isLeader == IF turbo THEN kind = "l" ELSE kind = <<"leader">>
      isControl == IF turbo THEN kind = "c" ELSE kind = <<"controlfield">>
      isData == IF turbo THEN kind = "d" ELSE kind = <<"datafield">>
      isSub == IF turbo THEN kind = "s" ELSE kind = <<"subfield">>
      tag == IF turbo THEN NameValue(x, <<"tag">>) ELSE AttrValue(x.attrs, <<"tag">>)
      code == IF turbo THEN NameValue(x, <<"code">>) ELSE AttrValue(x.attrs, <<"code">>)
      only(name) == turbo \/ \A i \in DOMAIN x.attrs : x.attrs[i].name = name
  IN CASE isLeader /\ st.nodes = <<>> -> Begin(st, "leader", <<>>)
       [] isControl /\ tag # <<>> /\ only(<<"tag">>) -> [Begin(leading, "control", <<>>) EXCEPT !.tag = tag[1]]
       [] isData /\ tag # <<>> ->
            [Begin(leading, "data", <<>>) EXCEPT
               !.nodes = Append(@, DataField(tag[1], Indicators(x.attrs, turbo, FirstLeader(leading.nodes).ind), <<>>))]
       [] isSub /\ st.el = "data" /\ code # <<>> /\ only(<<"code">>) -> Begin(st, "sub", code[1])
       [] OTHER -> Bad(st)

ReadClose(st) ==
  CASE st.el = "control" -> [st EXCEPT !.nodes = Append(@, ControlField(st.tag, st.text)), !.el = "fields"]
    [] st.el = "sub" -> [st EXCEPT !.nodes = AddSubfield(@, st.text), !.el = "data"]
    [] OTHER -> [st EXCEPT !.el = "fields"]

ReadItem(st, x, turbo) ==
  CASE ~st.ok -> st
    [] x.item = "open" -> ReadOpen(st, x, turbo)
    [] x.item = "close" -> ReadClose(st)
    [] x.item = "text" -> [st EXCEPT !.text = @ \o x.text]
    [] x.item = "leader" -> [st EXCEPT !.nodes = LeaderNodes(x.leader)]
    [] OTHER -> st

ReadXml(doc) ==
  LET turbo == doc[1].name = <<"r">>
      st == FoldLeft(LAMBDA s, x : ReadItem(s, x, turbo),
                     [ok |-> TRUE, nodes |-> <<>>, el |-> "fields", tag |-> <<>>, text |-> <<>>], SubSeq(doc, 2, Len(doc) - 1))
  IN IF doc = <<>> \/ doc[1].name \notin {<<"r">>, <<"record">>} THEN [ok |-> FALSE, nodes |-> <<>>]
     ELSE [ok |-> st.ok, nodes |-> IF st.nodes = <<>> THEN <<Comment, LeaderNode(FakeLeader)>> ELSE st.nodes]

-----------------------------------------------------------------------------
(* The SAX reader (marc_read_sax.c): every record of a document is handed  *)
(* over when it ends.  The length of the indicators outlives a record.     *)
SaxOpen(st, x) ==
  LET tag == AttrValue(x.attrs, <<"tag">>)
      text == [st EXCEPT !.text = <<>>]
      value(v) == IF v = <<>> THEN <<>> ELSE v[1]
  IN CASE x.name = <<"controlfield">> -> [text EXCEPT !.tag = value(tag)]
       [] x.name = <<"datafield">> ->
            [text EXCEPT !.tag = value(tag), !.nodes = Append(@, DataField(value(tag), Indicators(x.attrs, FALSE, st.ind), <<>>))]
       [] x.name = <<"subfield">> -> [text EXCEPT !.text = value(AttrValue(x.attrs, <<"code">>))]
       [] x.name = <<"record">> -> [text EXCEPT !.nodes = <<>>]
       [] OTHER -> text

SaxClose(st, x) ==
  LET done == CASE x.name = <<"controlfield">> -> [st EXCEPT !.nodes = Append(@, ControlField(st.tag, st.text))]
                [] x.name = <<"subfield">> -> [st EXCEPT !.nodes = AddSubfield(@, st.text)]
                [] x.name = <<"record">> -> [st EXCEPT !.got = Append(@, st.nodes)]
                [] OTHER -> st
  IN [done EXCEPT !.text = <<>>]

SaxItem(st, x) ==
  CASE x.item = "open" -> SaxOpen(st, x)
    [] x.item = "close" -> SaxClose(st, x)
    [] x.item = "text" -> [st EXCEPT !.text = @ \o x.text]
    [] x.item = "leader" -> [st EXCEPT !.nodes = @ \o LeaderNodes(x.leader), !.ind = SetLeader(x.leader).ind]
    [] OTHER -> st
ReadSax(doc) == FoldLeft(SaxItem, [nodes |-> <<>>, got |-> <<>>, tag |-> <<>>, text |-> <<>>, ind |-> 2], doc).got

-----------------------------------------------------------------------------
(* JSON.  A field is a name and a value: text, or subfields and indicators.*)
JsonField(leader, n) ==
  IF n.which = "control" THEN [name |-> n.tag, text |-> <<n.data>>, subs |-> <<>>, inds |-> <<>>]
  ELSE [name |-> n.tag, text |-> <<>>,
        subs |-> [i \in DOMAIN n.subs |-> [code |-> Code(leader, n.subs[i]), data |-> Data(leader, n.subs[i])]],
        inds |-> [i \in DOMAIN n.ind |-> Attr(<<"ind", MarcDigits[i + 1]>>, <<n.ind[i]>>)]]
(* yaz_marc_write_json of a record with a leader                           *)
WriteJson(nodes) ==
  LET leader == LastLeader(nodes)
      fields == FieldsOf(nodes)
  IN [leader |-> <<leader>>, fields |-> [i \in DOMAIN fields |-> JsonField(leader, fields[i])]]

(* parse_field: the indicators in the order of their numbers, not of the   *)
(* document; one that is missing is left out.                              *)
ReadJsonField(f, ind) ==
  IF f.text # <<>> THEN ControlField(f.name, f.text[1])
  ELSE DataField(f.name,
                 FlattenSeq([j \in 1..ind |-> LET v == AttrValue(f.inds, <<"ind", MarcDigits[j + 1]>>) IN IF v = <<>> THEN <<>> ELSE v[1]]),
                 [i \in DOMAIN f.subs |-> f.subs[i].code \o f.subs[i].data])
(* yaz_marc_read_json_node.  It does not reset the record it adds to, and  *)
(* an empty list of subfields is not expected (parse_subfields asserts on  *)
(* it).                                                                    *)
ReadJson(nodes, doc) ==
  LET l == IF doc.leader = <<>> THEN FakeLeader ELSE doc.leader[1]
  IN nodes \o LeaderNodes(l) \o [i \in DOMAIN doc.fields |-> ReadJsonField(doc.fields[i], SetLeader(l).ind)]
=============================================================================
