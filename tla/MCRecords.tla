------------------------------ MODULE MCRecords -----------------------------
(***************************************************************************)
(* Records in their formats, on bounded inputs.  A state is one case: a    *)
(* unit and its input.                                                     *)
(***************************************************************************)
EXTENDS MCCases, MarcXml, OpacRecord, RecordConv

-----------------------------------------------------------------------------
(* MARC records: subfields with all kinds of codes, data that looks like a *)
(* marker.  Only ISO 2709 has a limit.                                     *)
Tag(x) == <<"2", "4", x>>
Subs == {<<"a">>, <<"a", "x">>, <<"-", "b">>, <<"b", "x", "$", "a">>, <<"a", " ", "x">>}
MarcFields(n) == {ControlField(<<"0", "0", "1">>, d) : d \in {<<"x">>, <<"b", "x", "1", "$", "a">>}}
                 \cup {DataField(Tag("5"), <<"1", " ">>, s) : s \in SeqsUpTo(Subs, n)}
                 \cup {DataField(<<"0", "0", "4">>, <<"0", "0">>, <<<<"a", "x">>>>)}
MarcLeader(ident, lde) == [ind |-> 2, ident |-> ident, lde |-> lde, ls |-> 5]
MarcCases == [unit : {"marc"}, fields : SeqsUpTo(MarcFields(2), 1) \cup {<<f, g>> : f \in MarcFields(2), g \in MarcFields(1)}, ident : {2, 3}, lde : {3}, max : {60, 99999}]

MarcNodes(c) == <<LeaderNode(MarcLeader(c.ident, c.lde))>> \o c.fields

(* A record written as ISO 2709 is as long as it says and never longer     *)
(* than its length can say; what is read from it are its fields, from the  *)
(* first up to one that did not fit, none torn and none skipped, danMARC's *)
(* 00X fields with subfields among them (src/src/marcdisp.c:1192).         *)
IsoSurvives ==
  case.unit = "marc" =>
    LET r == WriteIso2709(MarcNodes(case), case.max)
        back == ReadIso2709(r)
        got == FieldsOf(back.nodes)
    IN /\ r.length = 24 + Len(r.bytes) /\ r.length <= case.max
       /\ back.ok /\ IsPrefix(got, case.fields)
       /\ case.max = 99999 => got = case.fields

(* Both writers of MARCXML and both of TurboMARC write well-formed         *)
(* documents from which the same record is read, whatever the codes are    *)
(* (src/src/marcdisp.c:253).                                               *)
XmlSurvives ==
  case.unit = "marc" /\ case.max = 99999 =>
    \A turbo \in BOOLEAN :
      LET nodes == MarcNodes(case)
          doc == WriteMarcXml(nodes, turbo, "no").out
      IN /\ WellFormed(doc) /\ doc = WriteLibxml(nodes, turbo)
         /\ ReadXml(doc) = [ok |-> TRUE, nodes |-> nodes]

(* A collection of records is one document, and the event-driven reader    *)
(* finds in it the records that were written (src/src/marcdisp.c:691).     *)
CollectionsSurvive ==
  case.unit = "marc" /\ case.max = 99999 =>
    LET nodes == MarcNodes(case)
        first == WriteMarcXml(nodes, FALSE, "first")
        second == WriteMarcXml(nodes, FALSE, first.coll)
        doc == first.out \o second.out \o WriteTrailer(second.coll)
    IN WellFormed(doc) /\ ReadSax(doc) = <<nodes, nodes>> /\ WriteTrailer("first") = <<>>

(* A record is the same after JSON, in whatever order the members of an    *)
(* object come (src/src/marc_read_json.c:64).                              *)
JsonSurvives ==
  case.unit = "marc" /\ case.max = 99999 =>
    LET nodes == MarcNodes(case)
        doc == WriteJson(nodes)
    IN /\ ReadJson(<<>>, doc) = nodes
       /\ ReadJson(<<>>, [doc EXCEPT !.fields = [i \in DOMAIN @ |-> [@[i] EXCEPT !.inds = Reverse(@)]]]) = nodes

(* A field that a line says without ambiguity.                             *)
LineFit(n) == IF n.which = "control" THEN Len(n.data) < 4 \/ n.data[3] \notin {"$", " "}
              ELSE n.subs # <<>> /\ \A i \in DOMAIN n.subs : IsAlnum(n.subs[i][1])

(* Lines are for people: a record whose fields have subfields with one     *)
(* character for a code comes back from them, even when the data has the   *)
(* marker in it (src/src/marc_read_line.c:193).                            *)
LinesSurvive ==
  case.unit = "marc" /\ case.ident = 2 /\ (\A i \in DOMAIN case.fields : LineFit(case.fields[i])) =>
    ReadLines(WriteLine(MarcNodes(case))) = [ok |-> TRUE, nodes |-> MarcNodes(case)]

-----------------------------------------------------------------------------
(* OPAC records: up to two of the parts of a holding are there.            *)
RuleParts(names, set) == [n \in Range(names) |-> IF n \in Flags THEN <<IF n \in set THEN "1" ELSE "0">>
                                             ELSE IF n \in set THEN <<n>> ELSE <<>>]
OpacCases == [unit : {"opac"}, data : {{}, Range(HoldingNames)} \cup {{x, y} : x, y \in Range(HoldingNames)},
              volumes : SeqsUpTo({{}, {"chronology"}, Range(VolumeNames)}, 2),
              circ : SeqsUpTo({{}, {"onHold", "itemId"}, Range(CircNames)}, 1)]
Holding(c) == [which |-> "circ", data |-> RuleParts(HoldingNames, c.data),
               volumes |-> [i \in DOMAIN c.volumes |-> RuleParts(VolumeNames, c.volumes[i])],
               circ |-> [i \in DOMAIN c.circ |-> RuleParts(CircNames, c.circ[i])]]

(* An OPAC record is the same after XML, whichever of its parts are there: *)
(* the reader expects them in the order in which they are written          *)
(* (src/src/xml_to_opac.c:25).                                             *)
OpacSurvives ==
  case.unit = "opac" =>
    LET r == [bib |-> <<"marc">>, holdings |-> <<Holding(case), Holding(case)>>] IN ReadOpac(OpacXml(r)) = <<r>>

-----------------------------------------------------------------------------
(* Rules for records.                                                      *)
MarcElems == [el : {"marc"}, in : {"marc", "xml", "json", "line"}, out : {"marc", "marcxml", "turbomarc", "line", "json"},
              from : {NULL} \cup Charsets, to : {NULL, "utf-8", "latin1", "other"}]
OtherElems == {[el |-> "xslt", params |-> n, stylesheet |-> b] : n \in {10, 11}, b \in BOOLEAN}
              \cup {[el |-> "select", finds |-> TRUE], [el |-> "select", finds |-> FALSE], [el |-> "solrmarc"], [el |-> "other"],
                    [el |-> "rdf-lookup", lookups |-> <<1, 19>>], [el |-> "rdf-lookup", lookups |-> <<>>]}
ConvCases == [unit : {"conv"}, first : MarcElems, rest : SeqsUpTo(OtherElems, 1), claims : BOOLEAN]

(* A rule that was accepted does what it says: a record in the format and  *)
(* the character set that the rule names - or in Unicode, for MARC-8, if   *)
(* its leader says so - comes out in the format and the character set it   *)
(* names, never garbled; an OPAC record comes out in UTF-8                 *)
(* (src/src/record_conv.c:615).                                            *)
RulesDoAsTheySay ==
  case.unit = "conv" =>
    LET conf == RecordConvConfigure(<<case.first>> \o case.rest)
        rule == conf.rules[1]
        in == Rec(IF rule.in = "marc" THEN "iso" ELSE "marcxml",
                  IF rule.in = "marc" THEN InputCharset(rule.from, case) ELSE rule.from, case.claims)
        marc == Convert(rule, in)
        chain == ConvRecord(conf.rules, in)
    IN conf.ok =>
         /\ rule.in # "json" => marc # <<>> /\ marc[1].form = OutForm(rule.out) /\ marc[1].coding = rule.to
         /\ chain # <<>> => chain[1].coding = rule.to
         /\ rule.in = "marc" =>
              \A rec \in Range(ConvOpac(conf.rules, in)) : rec.coding = "utf-8"

(* Records of each form, rendered in each way, with and without a charset. *)
RenderCases == [unit : {"render"}, type : {"render", "xml", "txml", "json", "raw", "opac", "other"},
                form : {"iso", "badiso", "opac", "sutrs", "xml", "grs1"}, from : {NULL, "marc8", "latin1"},
                to : {NULL, "latin1"}, claims : BOOLEAN]

(* What is rendered is there once, in the character set asked for, when it *)
(* is in the character set that it is said to be in                        *)
(* (src/src/record_render.c:148).  A GRS-1 record with a charset is the    *)
(* exception: the text from before the conversion stays in front of it.    *)
RenderedOnce ==
  case.unit = "render" /\ (case.form = "grs1" => case.from = NULL) =>
    LET said == IF case.from = NULL THEN "latin1" ELSE IF case.form \in {"iso", "opac"} THEN InputCharset(case.from, case) ELSE case.from
        r == Render(case.type, Rec(case.form, said, case.claims), case)
        to == IF case.to = NULL THEN "utf-8" ELSE case.to
    IN r.form # NULL => r.texts = <<IF case.from = NULL THEN said ELSE to>>

-----------------------------------------------------------------------------
Marc == case' \in MarcCases
Opac == case' \in OpacCases
ConvUnit == case' \in ConvCases
Rendering == case' \in RenderCases
=============================================================================
