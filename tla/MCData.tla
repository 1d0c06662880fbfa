------------------------------- MODULE MCData -------------------------------
(***************************************************************************)
(* The pure parts of YAZ in one run: the codecs, the services of the       *)
(* frontend server that fill the messages, character sets, queries and     *)
(* records, in their languages and formats.                                *)
(***************************************************************************)
EXTENDS MCCodecs, MCServices, MCChars, MCQueries, MCRecords

(* The functions of the library that cases are stated of.                  *)
Library ==
  LET Symbols == Seq(STRING)
  IN [DecodeHttpRequest |-> [t \in Symbols |-> DecodeHttpRequest(t)],
      DecodeHttpResponse |-> [t \in Symbols |-> DecodeHttpResponse(t)],
      CompleteHttp |-> [t \in Symbols |-> CompleteHttp(t, FALSE, HeadLimit)],
      OdrPut |-> [e \in Elements |-> OdrPut(e[1][1], e[2], FALSE, <<e[1][2]>>).b],
      OdrGet |-> [e \in Elements, b \in Seq(Nat) |-> OdrGet(e[1][1], e[2], FALSE, b, 1, NoFrame)],
      ConvertText |-> [to \in STRING, from \in STRING, t \in Seq(Nat), size \in Nat |-> ConvertText(to, from, t, size)],
      PqfParse |-> [t \in Symbols |-> PqfParse(t)],
      PqfScan |-> [t \in Symbols |-> PqfScan(t)],
      PqfFacetList |-> [t \in Symbols |-> PqfFacetList(t)],
      CqlToPqf |-> [t \in Symbols |->
                      LET q == CqlParse(t, FALSE)
                      IN [q |-> q, pqf |-> IF q.ok THEN CqlTransform(CqlTable, q.v) ELSE Emit(<<>>, "syntax")]],
      CclFind |-> [bib \in DOMAIN Bibs, t \in Symbols |-> CclFind(Bibs[bib], t)]]

Init == \E p \in {"codecs", "chunks", "solr", "services", "charsets", "texts",
                  "marc", "records", "pqf", "xml", "cql", "ccl"} : Part(p)

Next ==
  \/ Part("codecs") /\ CodecUnit
  \/ Part("chunks") /\ ChunkedCase
  \/ Part("solr") /\ (SolrSearchCase \/ SolrScanCase \/ SolrCase)
  \/ Part("services") /\ ServiceUnit
  \/ Part("charsets") /\ CharUnit
  \/ Part("texts") /\ TextUnit
  \/ Part("marc") /\ Marc
  \/ Part("records") /\ (Opac \/ ConvUnit \/ Rendering)
  \/ Part("pqf") /\ (PqfCase \/ PqfTextCase)
  \/ Part("xml") /\ (XmlCase \/ XmlTreeCase \/ SortCase)
  \/ Part("cql") /\ (CqlCase \/ RpnCqlCase \/ CqlSortCase)
  \/ Part("ccl") /\ (CclCase \/ CclTextCase \/ BibsetCase)

Spec == Init /\ [][Next]_case

-----------------------------------------------------------------------------
(* HTTP packages and BER elements: a reader finds the end of what was      *)
(* written and decodes what was encoded (src/src/comstack.c:349,           *)
(* src/src/http.c:77, src/src/ber_len.c:30).                               *)
WireSurvives ==
  /\ PackagesAreFramed /\ PackagesSurvive /\ ChunksJoin /\ ParametersSurvive
  /\ ElementsSurvive /\ ElementsAreFramed

(* SRU and Solr: the fields of requests and responses come to the other    *)
(* end in every version, by GET, POST and SOAP (but for two losses of SOAP *)
(* requests that SruRequestsSurvive names), and a client of Solr gets the  *)
(* page that it asked for (src/src/srwutil.c:357, src/src/srw.c:575,       *)
(* src/src/solr.c:57).                                                     *)
SruSurvives ==
  /\ SruRequestsSurvive /\ ResponsesSurvive /\ RecordsSurvive /\ FacetsSurvive
  /\ SolrPagesAreRight /\ SolrTermsRead

(* The services of the frontend server tell the client the truth: every    *)
(* record can be reached, messages fit, pages and next positions are       *)
(* right, failures are told (src/src/seshigh.c:2621, src/src/seshigh.c:1058, *)
(* src/src/retrieval.c:297).                                               *)
ServicesAreTrue ==
  /\ PresentsReachAll /\ MessagesFit /\ SearchThenPresent /\ SruPageIsRight
  /\ RetrievalIsRight /\ SyntaxHonoured /\ SruFailureTold /\ GrantedIsServed

(* Texts come through the character sets: wherever a buffer ends, with     *)
(* marks, pages and escapes held in between, and with local loss where a   *)
(* set lacks a character (src/src/siconv.c:259).                           *)
CharactersSurvive ==
  TextsSurvive /\ LossIsLocal /\ Utf8IsStrict /\ GreekSurvives /\ MarksFollowLetters

(* RPN comes through PQF and XML, sort keys through their notations, and   *)
(* half a query is always an error (src/src/querytowrbuf.c:19,             *)
(* src/src/pquery.c:586, src/src/xmlquery.c:689, src/src/sortspec.c:237).  *)
PqfSurvives ==
  /\ QueriesSurvivePqf /\ NoHalfQueries /\ QueriesSurviveXml /\ XmlErrorsShow
  /\ SortKeysSurvive /\ SortOperandsInOrder

(* Translations between CQL, CCL, RPN, XCQL and Solr ask for the same:     *)
(* each operand matches the same strings, operators nest as before         *)
(* (src/src/cqltransform.c:593, src/src/rpn2cql.c:178,                     *)
(* src/src/cclfind.c:292, src/src/rpn2solr.c:102).                         *)
QueriesAskTheSame ==
  /\ CqlMeansTheSame /\ XcqlBalanced /\ RpnSurvivesCql /\ SortbySurvives /\ CqlSurvivesCcl
  /\ BibsetsAgree /\ CclMeansTheSame /\ StopWordsLeave /\ CclPrintsAsPqf /\ SolrFindsTheSame

(* Records come through their formats whole: none torn at a limit, none    *)
(* garbled by a rule (src/src/marcdisp.c:1192, src/src/xml_to_opac.c:25,   *)
(* src/src/record_conv.c:615).                                             *)
FormatsKeepRecords ==
  /\ IsoSurvives /\ XmlSurvives /\ CollectionsSurvive /\ JsonSurvives /\ LinesSurvive
  /\ OpacSurvives /\ RulesDoAsTheySay /\ RenderedOnce
=============================================================================
