----------------------------- MODULE OpacRecord -----------------------------
(***************************************************************************)
(* OPAC records in XML (src/src/opac_to_xml.c, src/src/xml_to_opac.c).  A  *)
(* holding is a function from names to optional texts, with volumes and    *)
(* circulations that are such functions too; a flag is always there.  An   *)
(* element is its name and its text, or its children.                      *)
(***************************************************************************)
EXTENDS YazTypes

HoldingNames ==
  <<"typeOfRecord", "encodingLevel", "format", "receiptAcqStatus", "generalRetention", "completeness", "dateOfReport", "nucCode",
    "localLocation", "shelvingLocation", "callNumber", "shelvingData", "copyNumber", "publicNote", "reproductionNote",
    "termsUseRepro", "enumAndChron">>
VolumeNames == <<"enumeration", "chronology", "enumAndChron">>
CircNames == <<"availableNow", "availabilityDate", "availableThru", "restrictions", "itemId", "renewable", "onHold", "enumAndChron",
               "midspine", "temporaryLocation">>
Flags == {"availableNow", "renewable", "onHold"}

TextElement(name, v) == [name |-> name, text |-> v, kids |-> <<>>]
ParentElement(name, kids) == [name |-> name, text |-> "", kids |-> kids]

(* opac_element_str and opac_element_bool, for the names in turn           *)
ElementList(names, r) ==
  FlattenSeq([i \in DOMAIN names |-> IF r[names[i]] = <<>> THEN <<>> ELSE <<TextElement(names[i], r[names[i]][1])>>])
Group(name, item, names, rs) ==
  IF rs = <<>> THEN <<>>
  ELSE <<ParentElement(name, [i \in DOMAIN rs |-> ParentElement(item, ElementList(names, rs[i]))])>>

(* yaz_opac_decode_wrbuf2                                                  *)
HoldingXml(h) ==
  ParentElement("holding",
    IF h.which = "marc" THEN <<ParentElement("marcHoldingsRecord", <<>>)>>
    ELSE ElementList(HoldingNames, h.data) \o Group("volumes", "volume", VolumeNames, h.volumes)
         \o Group("circulations", "circulation", CircNames, h.circ))
OpacXml(r) ==
  ParentElement("opacRecord",
    (IF r.bib = <<>> THEN <<>> ELSE <<TextElement("bibliographicRecord", r.bib[1])>>)
    \o <<ParentElement("holdings", [i \in DOMAIN r.holdings |-> HoldingXml(r.holdings[i])])>>)

(* match_element_next and match_v_next: the next element is taken only if  *)
(* it has the name that is due.                                            *)
MatchNext(st, name) ==
  IF st.kids # <<>> /\ Head(st.kids).name = name
    THEN [kids |-> Tail(st.kids), got |-> [st.got EXCEPT ![name] = <<Head(st.kids).text>>]]
  ELSE [st EXCEPT !.got[name] = IF name \in Flags THEN <<"0">> ELSE <<>>]
MatchAll(names, kids) == FoldLeft(MatchNext, [kids |-> kids, got |-> [n \in Range(names) |-> <<>>]], names)

(* volumes and circulations: all or none of the elements.                  *)
ReadGroup(st, name, item, names) ==
  IF st.kids # <<>> /\ Head(st.kids).name = name
    THEN LET items == Head(st.kids).kids
         IN [kids |-> Tail(st.kids),
             rs |-> IF \A i \in DOMAIN items : items[i].name = item THEN [i \in DOMAIN items |-> MatchAll(names, items[i].kids).got]
                    ELSE <<>>]
  ELSE [kids |-> st.kids, rs |-> <<>>]

ReadHolding(e) ==
  LET h == MatchAll(HoldingNames, e.kids)
      v == ReadGroup(h, "volumes", "volume", VolumeNames)
      c == ReadGroup(v, "circulations", "circulation", CircNames)
  IN [which |-> "circ", data |-> h.got, volumes |-> v.rs, circ |-> c.rs]

(* yaz_xml_to_opac_ptr: without a bibliographic record there is no record. *)
ReadOpac(e) ==
  IF e.name = "opacRecord" /\ Len(e.kids) >= 2 /\ e.kids[1].name = "bibliographicRecord" /\ e.kids[2].name = "holdings"
       /\ \A i \in DOMAIN e.kids[2].kids : e.kids[2].kids[i].name = "holding"
    THEN <<[bib |-> <<e.kids[1].text>>, holdings |-> [i \in DOMAIN e.kids[2].kids |-> ReadHolding(e.kids[2].kids[i])]]>>
  ELSE <<>>
=============================================================================
