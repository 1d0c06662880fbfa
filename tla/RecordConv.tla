----------------------------- MODULE RecordConv -----------------------------
(***************************************************************************)
(* Conversion of records by rules (src/src/record_conv.c) and their        *)
(* rendering for the ZOOM programmer (src/src/record_render.c).  A record  *)
(* is its form, the character set its text really is in, and whether its   *)
(* leader claims Unicode.  What a conversion from the wrong set makes is   *)
(* "garbled".                                                              *)
(***************************************************************************)
EXTENDS YazTypes

Rec(form, coding, claims) == [form |-> form, coding |-> coding, claims |-> claims]
XmlForms == {"marcxml", "turbomarc", "marcxchange", "opac", "xml"}
Charsets == {"utf-8", "marc8", "latin1"}
Opens(to, from) == {to, from} \subseteq Charsets       \* yaz_iconv_open
Converted(coding, from, to) ==
  IF ~Opens(to, from) THEN coding ELSE IF coding = from THEN to ELSE "garbled"

(* yaz_marc_check_marc21_coding                                            *)
Marc21Coding(charset, rec) == charset = "marc8" /\ rec.claims
InputCharset(charset, rec) == IF Marc21Coding(charset, rec) THEN "utf-8" ELSE charset

(* construct_marc: what the attributes come to, <<>> for an error.  XML    *)
(* has a default for its side of the conversion, both sides must be known  *)
(* in the end.                                                             *)
MarcRule(e) ==
  LET from == IF e.in = "xml" /\ e.from = NULL /\ e.to # NULL THEN "utf-8" ELSE e.from
      to == IF e.out \in {"marcxml", "turbomarc", "marcxchange", "json"} /\ from # NULL /\ e.to = NULL THEN "utf-8" ELSE e.to
  IN IF e.in \notin {"marc", "xml", "json"} \/ e.out \notin {"line", "marcxml", "turbomarc", "marc", "marcxchange", "json"}
        \/ NULL \in {from, to} \/ ~Opens(to, from) THEN <<>>
     ELSE <<[rule |-> "marc", in |-> e.in, out |-> e.out, from |-> from, to |-> to]>>

(* construct_xslt, construct_select, construct_solrmarc and                *)
(* construct_rdf_lookup.  An rdf-lookup without a lookup is not one.       *)
XsltRule(e) == IF e.params > 10 \/ ~e.stylesheet THEN <<>> ELSE <<[rule |-> "xslt"]>>
RdfRule(e) == IF e.lookups = <<>> \/ \E i \in DOMAIN e.lookups : e.lookups[i] >= 20 THEN <<>>
              ELSE <<[rule |-> "rdf-lookup", lookups |-> e.lookups]>>
Construct(e) ==
  CASE e.el = "marc" -> MarcRule(e)
    [] e.el = "xslt" -> XsltRule(e)
    [] e.el = "rdf-lookup" -> RdfRule(e)
    [] e.el = "select" -> <<[rule |-> e.el, finds |-> e.finds]>>
    [] e.el = "solrmarc" -> <<[rule |-> e.el]>>
    [] OTHER -> <<>>

(* yaz_record_conv_configure_t: the first element that is wrong ends it.   *)
RecordConvConfigure(elems) ==
  LET rules == [i \in DOMAIN elems |-> Construct(elems[i])]
      bad == Lowest({i \in DOMAIN rules : rules[i] = <<>>})
  IN [ok |-> bad = 0, rules |-> FlattenSeq(IF bad = 0 THEN rules ELSE SubSeq(rules, 1, bad - 1))]

-----------------------------------------------------------------------------
OutForm(out) == IF out = "marc" THEN "iso" ELSE out
ConvertMarc(r, rec) ==
  CASE r.in = "marc" /\ rec.form = "iso" ->
         <<Rec(OutForm(r.out), Converted(rec.coding, InputCharset(r.from, rec), r.to), rec.claims)>>
    [] r.in = "xml" /\ rec.form \in {"marcxml", "turbomarc", "marcxchange"} ->
         <<Rec(OutForm(r.out), Converted(rec.coding, r.from, r.to), rec.claims)>>
    [] OTHER -> <<>>

(* The others read XML.  A selection that finds nothing leaves the record  *)
(* as it is; a lookup adds attributes to it.                               *)
ConvertXslt(rec) == IF rec.form \in XmlForms THEN <<[rec EXCEPT !.form = "xml"]>> ELSE <<>>
ConvertSelect(r, rec) ==
  IF rec.form \notin XmlForms THEN <<>> ELSE IF r.finds THEN <<[rec EXCEPT !.form = "text"]>> ELSE <<rec>>
ConvertRdfLookup(rec) == IF rec.form \in XmlForms THEN <<rec>> ELSE <<>>
ConvertSolrmarc(rec) == <<rec>>

Convert(r, rec) ==
  CASE r.rule = "marc" -> ConvertMarc(r, rec)
    [] r.rule = "solrmarc" -> ConvertSolrmarc(rec)
    [] r.rule = "xslt" -> ConvertXslt(rec)
    [] r.rule = "rdf-lookup" -> ConvertRdfLookup(rec)
    [] OTHER -> ConvertSelect(r, rec)

(* yaz_record_conv_record_rule                                             *)
ConvRecord(rules, rec) == FoldLeft(LAMBDA rs, r : IF rs = <<>> THEN rs ELSE Convert(r, rs[1]), <<rec>>, rules)

(* yaz_record_conv_opac_record: the first rule is for what is inside, and  *)
(* the document is in UTF-8 whatever the rule says.                        *)
ConvOpac(rules, rec) ==
  IF rules = <<>> \/ rules[1].rule # "marc" THEN <<>>
  ELSE ConvRecord(Tail(rules), Rec("opac", Converted(rec.coding, InputCharset(rules[1].from, rec), "utf-8"), rec.claims))

-----------------------------------------------------------------------------

(* Rendering.  The charset is from/from2,to: NULL where it is not said.    *)
RenderCoding(cs, rec) ==
  IF cs.from = NULL THEN rec.coding
  ELSE Converted(rec.coding, InputCharset(cs.from, rec), IF cs.to = NULL THEN "utf-8" ELSE cs.to)

(* The texts that a buffer has in the end: one, except that a structured   *)
(* record is converted behind what it was converted from                   *)
(* (return_string_record).                                                 *)
RenderString(before, coding, cs) ==
  IF cs.from = NULL \/ ~Opens(IF cs.to = NULL THEN "utf-8" ELSE cs.to, cs.from) THEN <<coding>>
  ELSE before \o <<Converted(coding, cs.from, IF cs.to = NULL THEN "utf-8" ELSE cs.to)>>

(* return_record_wrbuf: marctype is the form that MARC records get.        *)
RenderRecord(rec, marctype, cs) ==
  CASE rec.form = "opac" -> [form |-> "opac", texts |-> <<RenderCoding(cs, rec)>>]
    [] rec.form = "iso" -> [form |-> marctype, texts |-> <<RenderCoding(cs, rec)>>]
    [] rec.form = "badiso" -> IF marctype = "iso" THEN [form |-> "badiso", texts |-> RenderString(<<>>, rec.coding, cs)]
                              ELSE [form |-> NULL, texts |-> <<>>]
    [] rec.form = "grs1" -> [form |-> "text", texts |-> RenderString(<<rec.coding>>, rec.coding, cs)]
    [] OTHER -> [form |-> rec.form, texts |-> RenderString(<<>>, rec.coding, cs)]

(* yaz_record_render of a database record                                  *)
Render(type, rec, cs) ==
  CASE type = "render" -> RenderRecord(rec, "line", cs)
    [] type = "xml" -> RenderRecord(rec, "marcxml", cs)
    [] type = "txml" -> RenderRecord(rec, "turbomarc", cs)
    [] type = "json" -> RenderRecord(rec, "json", cs)
    [] type = "raw" -> RenderRecord(rec, "iso", cs)
    [] type = "opac" /\ rec.form = "opac" -> RenderRecord(rec, "marcxml", cs)
    [] OTHER -> [form |-> NULL, texts |-> <<>>]
=============================================================================
