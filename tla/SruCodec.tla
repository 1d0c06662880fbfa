------------------------------ MODULE SruCodec ------------------------------
(***************************************************************************)
(* SRU packages on the wire (src/src/srwutil.c, srw.c, soap.c, sru_facet.c *)
(* and facet.c): requests as parameters of GET and POST or as elements of  *)
(* a SOAP package, responses as XML.  A parameter or an element is a name  *)
(* with a text; numbers are their texts.  A scan has its clause under      *)
(* query, responsePosition under start and maximumTerms under maximum; an  *)
(* update has its action under query and its record under schema.          *)
(***************************************************************************)
EXTENDS YazTypes

Versions == {"1.1", "1.2", "2.0"}

(* yaz_negotiate_sru_version.                                              *)
NegotiateVersion(v) ==
  CASE v = NULL -> "2.0"
    [] v = "1.1" -> "1.1"
    [] v \in {"1.0", "1.2", "1.3"} -> "1.2"
    [] v \in {"2.0", "2.1"} -> "2.0"
    [] OTHER -> NULL

Version2(v) == v \in {NULL, "2.0", "2.1"}

(* yaz_srw_get_pdu.                                                        *)
SrwPdu(which, version) ==
  [which |-> which, version |-> version, queryType |-> "cql", query |-> NULL, sort |-> NULL,
   start |-> NULL, maximum |-> NULL, schema |-> NULL, escaping |-> NULL, packing |-> NULL,
   xpath |-> NULL, ttl |-> NULL, stylesheet |-> NULL, database |-> NULL, user |-> NULL, extra |-> <<>>]

(* yaz_add_name_value_str and _int, add_xsd_string and add_xsd_integer: a  *)
(* name for a value that there is.                                         *)
Arg(n, v) == IF v = NULL THEN <<>> ELSE <<[n |-> n, v |-> v]>>

(* The value that a loop over names leaves: that of the last of them.      *)
LastArg(args, names) ==
  LET k == Highest({i \in DOMAIN args : args[i].n \in names})
  IN IF k = 0 THEN [n |-> NULL, v |-> NULL] ELSE args[k]
ArgValue(args, n) == LastArg(args, {n}).v

-----------------------------------------------------------------------------
(* yaz_get_sru_parms: recordPacking has two names and two meanings.        *)
PackingArgs(p) ==
  IF Version2(p.version)
  THEN Arg("recordXMLEscaping", p.escaping) \o Arg("recordPacking", p.packing)
  ELSE Arg("recordPacking", p.escaping)

QueryArgs(p, names) ==
  IF Version2(p.version)
  THEN (IF p.queryType = "cql" THEN <<>> ELSE Arg("queryType", p.queryType)) \o Arg(names["cql"], p.query)
  ELSE IF p.queryType \in DOMAIN names THEN Arg(names[p.queryType], p.query) ELSE <<>>

(* (mutant) The packing of version 2 goes under the name of version 1.     *)
SruParms_Packing(p) ==
  Arg("version", p.version) \o Arg("operation", p.which)
  \o (IF p.which = "update" THEN <<>>
      ELSE QueryArgs(p, [cql |-> "query", pqf |-> "x-pquery"]) \o Arg("recordPacking", p.escaping))
  \o p.extra

SruParms(p) ==
  Arg("version", p.version) \o Arg("operation", p.which)
  \o (CASE p.which = "searchRetrieve" ->
             QueryArgs(p, [cql |-> "query", pqf |-> "x-pquery", xcql |-> "x-cql"])
             \o Arg("sortKeys", p.sort) \o Arg("startRecord", p.start) \o Arg("maximumRecords", p.maximum)
             \o Arg("recordSchema", p.schema) \o PackingArgs(p) \o Arg("recordXPath", p.xpath)
             \o Arg("stylesheet", p.stylesheet) \o Arg("resultSetTTL", p.ttl)
        [] p.which = "explain" -> PackingArgs(p) \o Arg("stylesheet", p.stylesheet)
        [] p.which = "scan" ->
             QueryArgs(p, [cql |-> "scanClause", pqf |-> "x-pScanClause", xcql |-> "x-cqlScanClause"])
             \o Arg("responsePosition", p.start) \o Arg("maximumTerms", p.maximum)
             \o Arg("stylesheet", p.stylesheet)
        [] OTHER -> <<>>)
  \o p.extra

SruNames == {"query", "x-pquery", "queryType", "x-username", "x-password", "operation", "stylesheet",
             "sortKeys", "recordXPath", "recordSchema", "recordPacking", "recordXMLEscaping",
             "version", "scanClause", "x-pScanClause", "maximumRecords", "startRecord",
             "maximumTerms", "responsePosition", "facetLimit", "facetStart", "facetSort",
             "extraRequestData"}
ExtraNames == {"x-a", "x-cql", "x-cqlScanClause"}

(* yaz_sru_decode_integer: no number, or one below the least, is a         *)
(* diagnostic.                                                             *)
DecodeInteger(v, least) ==
  IF v = NULL THEN [v |-> NULL, diag |-> FALSE]
  ELSE LET bad == v = "junk" \/ (least >= 1 /\ v = "0") \/ (least >= 0 /\ v = "-1")
       IN [v |-> IF bad THEN NULL ELSE v, diag |-> bad]

(* yaz_srw_decodeauth: HTTP Basic goes before the x- parameters.           *)
DecodeAuth(args, basic) == IF basic # NULL THEN basic ELSE ArgValue(args, "x-username")

(* yaz_sru_decode, what the parameters say: the operation is guessed when  *)
(* it is not named, a packing of version 1 is the escaping of version 2.   *)
SruGiven(args) ==
  LET query == LastArg(args, {"query", "x-pquery"}).v
      clause == LastArg(args, {"scanClause", "x-pScanClause"}).v
      qt == LastArg(args, {"queryType", "x-pquery", "x-pScanClause"})
      negotiated == NegotiateVersion(ArgValue(args, "version"))
      v2 == negotiated \in {NULL, "2.0"}
      escaping == ArgValue(args, IF v2 THEN "recordXMLEscaping" ELSE "recordPacking")
  IN [query |-> query, clause |-> clause,
      queryType |-> IF qt.n = NULL THEN "cql" ELSE IF qt.n = "queryType" THEN qt.v ELSE "pqf",
      oper |-> IF ArgValue(args, "operation") # NULL THEN ArgValue(args, "operation")
               ELSE IF query # NULL THEN "searchRetrieve" ELSE IF clause # NULL THEN "scan" ELSE "explain",
      version |-> IF negotiated = NULL THEN "2.0" ELSE negotiated,
      escaping |-> IF escaping = NULL THEN "xml" ELSE escaping,
      packing |-> IF v2 THEN ArgValue(args, "recordPacking") ELSE "packed",
      diag |-> \/ negotiated = NULL
               \/ \E i \in DOMAIN args : args[i].n \notin SruNames \cup ExtraNames
               \/ ~v2 /\ ArgValue(args, "recordXMLEscaping") # NULL]

(* ... and the request made of it: an operation that is not known is an    *)
(* explain with a diagnostic.                                              *)
SruDecode(args, path, basic) ==
  LET g == SruGiven(args)
      known == g.oper \in {"searchRetrieve", "scan", "explain"}
      base == [SrwPdu(IF known THEN g.oper ELSE "explain", g.version) EXCEPT
                 !.database = IF path = NULL THEN "Default" ELSE path,
                 !.stylesheet = ArgValue(args, "stylesheet"),
                 !.extra = IF known THEN SelectSeq(args, LAMBDA a : a.n \in ExtraNames /\ a.v # "") ELSE <<>>,
                 !.user = IF known THEN DecodeAuth(args, basic) ELSE NULL]
      typed == [base EXCEPT !.queryType = g.queryType]
      first == DecodeInteger(ArgValue(args, IF g.oper = "scan" THEN "responsePosition" ELSE "startRecord"),
                             IF g.oper = "scan" THEN 0 ELSE 1)
      most == DecodeInteger(ArgValue(args, IF g.oper = "scan" THEN "maximumTerms" ELSE "maximumRecords"), 0)
      pdu == CASE g.oper = "searchRetrieve" ->
                    [typed EXCEPT !.query = g.query, !.sort = ArgValue(args, "sortKeys"),
                       !.xpath = ArgValue(args, "recordXPath"), !.schema = ArgValue(args, "recordSchema"),
                       !.escaping = g.escaping, !.packing = g.packing, !.start = first.v, !.maximum = most.v]
               [] g.oper = "scan" -> [typed EXCEPT !.query = g.clause, !.start = first.v, !.maximum = most.v]
               [] g.oper = "explain" -> [base EXCEPT !.escaping = g.escaping, !.packing = g.packing]
               [] OTHER -> [base EXCEPT !.escaping = g.packing]
  IN [pdu |-> pdu,
      diag |-> \/ g.diag \/ ~known
               \/ g.oper \in {"searchRetrieve", "scan"} /\ (pdu.query = NULL \/ first.diag \/ most.diag)]

-----------------------------------------------------------------------------
(* yaz_srw_codec and yaz_ucp_codec, requests as elements.                  *)
SruSearchElements(p) ==
  LET v2 == Version2(p.version)
      name == IF v2 \/ p.queryType = "cql" THEN "query" ELSE IF p.queryType = "xcql" THEN "xQuery" ELSE "pQuery"
  IN (IF v2 THEN <<>> ELSE Arg("version", p.version))
     \o Arg(name, p.query) \o Arg("startRecord", p.start) \o Arg("maximumRecords", p.maximum)
     \o Arg(IF v2 THEN "recordXMLEscaping" ELSE "recordPacking", p.escaping)
     \o Arg("recordSchema", p.schema) \o Arg("recordXPath", p.xpath) \o Arg("resultSetTTL", p.ttl)
     \o Arg("stylesheet", p.stylesheet) \o (IF v2 THEN Arg("queryType", p.queryType) ELSE <<>>)
     \o Arg("sortKeys", p.sort) \o Arg("database", p.database)
     \o (IF v2 THEN Arg("recordPacking", p.packing) ELSE <<>>)

ExplainElements(p) ==
  (IF Version2(p.version) THEN <<>> ELSE Arg("version", p.version))
  \o PackingArgs(p) \o Arg("stylesheet", p.stylesheet) \o Arg("database", p.database)

ScanElements(p) ==
  (IF Version2(p.version) THEN <<>> ELSE Arg("version", p.version))
  \o QueryArgs(p, [cql |-> "scanClause", pqf |-> "pScanClause"])
  \o Arg("responsePosition", p.start) \o Arg("maximumTerms", p.maximum)
  \o Arg("stylesheet", p.stylesheet) \o Arg("database", p.database)

(* The action is written as it is, and read as one of three names.         *)
UpdateElements(p) ==
  Arg("version", p.version) \o Arg("action", p.query) \o Arg("recordIdentifier", p.start)
  \o Arg("record", p.schema) \o Arg("stylesheet", p.stylesheet) \o Arg("database", p.database)

RequestElements(p) ==
  CASE p.which = "searchRetrieve" -> SruSearchElements(p)
    [] p.which = "explain" -> ExplainElements(p)
    [] p.which = "scan" -> ScanElements(p)
    [] OTHER -> UpdateElements(p)

(* A search without a query is an error.                                   *)
SearchFromElements(els, version) ==
  LET q == LastArg(els, {"query", "pQuery", "xQuery"})
      t == LastArg(els, {"queryType", "pQuery", "xQuery"})
  IN [SrwPdu("searchRetrieve", version) EXCEPT
        !.queryType = CASE t.n = NULL -> "cql" [] t.n = "queryType" -> t.v [] t.n = "pQuery" -> "pqf"
                        [] OTHER -> "xcql",
        !.query = q.v, !.sort = ArgValue(els, "sortKeys"), !.start = ArgValue(els, "startRecord"),
        !.maximum = ArgValue(els, "maximumRecords"), !.schema = ArgValue(els, "recordSchema"),
        !.escaping = ArgValue(els, IF version = "2.0" THEN "recordXMLEscaping" ELSE "recordPacking"),
        !.packing = IF version = "2.0" THEN ArgValue(els, "recordPacking") ELSE NULL,
        !.xpath = ArgValue(els, "recordXPath"), !.ttl = ArgValue(els, "resultSetTTL"),
        !.stylesheet = ArgValue(els, "stylesheet"), !.database = ArgValue(els, "database")]

(* recordXMLEscaping is not read.                                          *)
ExplainFromElements(els, version) ==
  [SrwPdu("explain", version) EXCEPT
     !.escaping = ArgValue(els, "recordPacking"), !.stylesheet = ArgValue(els, "stylesheet"),
     !.database = ArgValue(els, "database")]

(* queryType is not read.                                                  *)
ScanFromElements(els, version) ==
  LET q == LastArg(els, {"scanClause", "pScanClause"})
  IN [SrwPdu("scan", version) EXCEPT
        !.query = q.v, !.queryType = IF LastArg(els, {"pScanClause"}).n # NULL THEN "pqf" ELSE "cql",
        !.start = ArgValue(els, "responsePosition"), !.maximum = ArgValue(els, "maximumTerms"),
        !.stylesheet = ArgValue(els, "stylesheet"), !.database = ArgValue(els, "database")]

UpdateAction(uri) ==
  CASE uri = "info:srw/action/1/delete" -> "delete"
    [] uri = "info:srw/action/1/replace" -> "replace"
    [] uri = "info:srw/action/1/create" -> "insert"
    [] OTHER -> NULL

UpdateFromElements(els, version) ==
  [SrwPdu("update", version) EXCEPT
     !.query = UpdateAction(ArgValue(els, "action")), !.start = ArgValue(els, "recordIdentifier"),
     !.schema = ArgValue(els, "record"), !.stylesheet = ArgValue(els, "stylesheet"),
     !.database = ArgValue(els, "database")]

RequestFromElements(method, els) ==
  LET given == ArgValue(els, "version")
      version == IF given = NULL THEN "2.0" ELSE IF method = "update" \/ NegotiateVersion(given) = NULL THEN given
                 ELSE NegotiateVersion(given)
  IN CASE method = "searchRetrieve" -> SearchFromElements(els, version)
       [] method = "explain" -> ExplainFromElements(els, version)
       [] method = "scan" -> ScanFromElements(els, version)
       [] OTHER -> UpdateFromElements(els, version)

-----------------------------------------------------------------------------
(* z_soap_codec_enc_xsl: an envelope with a body, or the bare package for  *)
(* "SRU"; a document is a record of what the decoder looks at.             *)
SoapNamespaces == {"soap1.1", "soap1.2"}
PackageNs(p) == CASE p.which = "update" -> "update0.9" [] Version2(p.version) -> "sru2" [] OTHER -> "sru1.1"

SoapEncode(p, ns) ==
  [ok |-> TRUE, root |-> IF ns = "SRU" THEN "package" ELSE "Envelope", ns |-> ns, body |-> TRUE,
   content |-> "package", contentNs |-> PackageNs(p), method |-> p.which, els |-> RequestElements(p)]

(* The handler table of yaz_srw_decode, and the place of each in it.       *)
SoapHandlers == <<"sru1.1", "sru1.0", "update0.9", "sru2">>
SoapHandler(ns) == Lowest({i \in DOMAIN SoapHandlers : SoapHandlers[i] = ns})

SoapFault(what) == [kind |-> "error", what |-> what, no |-> 0]

SoapDecode(doc) ==
  LET direct == doc.root = "package"
      handler == SoapHandler(doc.contentNs)
      pdu == RequestFromElements(doc.method, doc.els)
  IN CASE ~doc.ok -> SoapFault("Bad XML Document")
       [] ~direct /\ doc.root # "Envelope" -> SoapFault("No Envelope element")
       [] ~direct /\ doc.ns \notin SoapNamespaces -> SoapFault("Bad SOAP version")
       [] ~direct /\ ~doc.body -> SoapFault("SOAP Body element not found")
       [] ~direct /\ doc.content = NULL -> SoapFault("SOAP No content for Body")
       [] ~direct /\ doc.content = "Fault" -> [kind |-> "fault", what |-> NULL, no |-> 0]
       [] handler = 0 -> SoapFault("No handler for NS")
       [] doc.method = "searchRetrieve" /\ pdu.query = NULL -> SoapFault("SOAP Handler returned error")
       [] OTHER -> [kind |-> "generic", pdu |-> pdu, no |-> handler]

(* yaz_srw_decode: a POST of XML; the database comes from the path unless  *)
(* the package names one.                                                  *)
SrwDecode(method, type, path, basic, doc) ==
  IF method # "POST" \/ type \notin {"text/xml", "application/soap+xml", "text/plain"}
  THEN [ret |-> 2]
  ELSE LET s == SoapDecode(doc)
       IN IF s.kind # "generic" THEN [ret |-> IF s.kind = "fault" THEN 1 ELSE -1]
          ELSE [ret |-> 0, no |-> IF s.no = 4 THEN 1 ELSE s.no,
                pdu |-> [s.pdu EXCEPT !.user = basic,
                           !.database = IF @ # NULL THEN @ ELSE IF path = NULL THEN "Default" ELSE path]]

(* yaz_sru_get_encode, yaz_sru_post_encode and yaz_sru_soap_encode.        *)
SruHttp(p, binding) ==
  [method |-> IF binding = "get" THEN "GET" ELSE "POST",
   type |-> IF binding = "post" THEN "application/x-www-form-urlencoded" ELSE "text/xml",
   basic |-> p.user,
   args |-> IF binding = "soap" THEN <<>> ELSE SruParms(p),
   doc |-> SoapEncode(p, "soap1.1")]

-----------------------------------------------------------------------------
(* Records of a response (yaz_srw_record): the packing is told by whether  *)
(* there are elements below recordData, not by what the record says.       *)
RecordElements(r, v2) ==
  [schema |-> IF r.schema = NULL THEN "" ELSE r.schema,
   escaping |-> r.packing, xml |-> r.data # NULL /\ r.packing = "xml", data |-> r.data,
   position |-> r.position, id |-> r.id, extra |-> r.extra]

RecordFromElements(e) ==
  [schema |-> e.schema, packing |-> IF e.xml THEN "xml" ELSE "string",
   data |-> IF e.data = NULL THEN "" ELSE e.data, position |-> e.position, id |-> e.id, extra |-> e.extra]

RecordsOf(rs, v2) == [i \in DOMAIN rs |-> RecordFromElements(RecordElements(rs[i], v2))]

(* yaz_srw_diagnostics: a message for a standard diagnostic that has none. *)
DiagElements(d) ==
  [d EXCEPT !.message = IF @ # NULL THEN @ ELSE IF d.uri \in {"1/7", "12/1"} THEN "std" ELSE NULL]

(* Responses as elements; what is nested in one is a text here.            *)
SruResponse(which, version) ==
  [which |-> which, version |-> version, number |-> NULL, setId |-> NULL, idle |-> NULL, precision |-> NULL,
   records |-> NULL, next |-> NULL, diags |-> NULL, extra |-> NULL, facets |-> NULL, status |-> NULL, id |-> NULL]

SearchResponseElements(r) ==
  LET v2 == Version2(r.version)
  IN (IF v2 THEN <<>> ELSE Arg("version", r.version))
     \o Arg("numberOfRecords", r.number) \o Arg("resultSetId", r.setId)
     \o (IF v2 THEN <<>> ELSE Arg("resultSetIdleTime", r.idle))
     \o Arg("records", r.records) \o Arg("nextRecordPosition", r.next)
     \o Arg("diagnostics", r.diags) \o Arg("extraResponseData", r.extra)
     \o (IF v2 THEN Arg("resultSetTTL", r.idle) \o Arg("resultCountPrecision", r.precision)
                    \o Arg("facetedResults", r.facets)
               ELSE <<>>)

ExplainResponseElements(r) ==
  Arg("version", r.version) \o Arg("record", r.records) \o Arg("diagnostics", r.diags)
  \o Arg("extraResponseData", r.extra)

ScanResponseElements(r) ==
  (IF Version2(r.version) THEN <<>> ELSE Arg("version", r.version))
  \o Arg("terms", r.records) \o Arg("diagnostics", r.diags) \o Arg("extraResponseData", r.extra)

UpdateResponseElements(r) ==
  Arg("version", r.version) \o Arg("operationStatus", r.status) \o Arg("recordIdentifier", r.id)
  \o Arg("record", r.records) \o Arg("diagnostics", r.diags)

ResponseElements(r) ==
  CASE r.which = "searchRetrieve" -> SearchResponseElements(r)
    [] r.which = "explain" -> ExplainResponseElements(r)
    [] r.which = "scan" -> ScanResponseElements(r)
    [] OTHER -> UpdateResponseElements(r)

(* The version is negotiated but for an update, 2.0 where none is named.   *)
ResponseVersion(which, els) ==
  LET v == ArgValue(els, "version")
      neg == NegotiateVersion(v)
  IN IF which = "update" \/ (v # NULL /\ neg = NULL) THEN (IF v = NULL THEN "2.0" ELSE v) ELSE neg

SearchResponseFromElements(els) ==
  [SruResponse("searchRetrieve", ResponseVersion("searchRetrieve", els)) EXCEPT
     !.number = ArgValue(els, "numberOfRecords"), !.setId = ArgValue(els, "resultSetId"),
     !.idle = LastArg(els, {"resultSetIdleTime", "resultSetTTL"}).v,
     !.precision = ArgValue(els, "resultCountPrecision"), !.records = ArgValue(els, "records"),
     !.next = ArgValue(els, "nextRecordPosition"), !.diags = ArgValue(els, "diagnostics"),
     !.extra = ArgValue(els, "extraResponseData"),
     !.facets = LastArg(els, {"facet_analysis", "facetedResults"}).v]

ExplainResponseFromElements(els) ==
  [SruResponse("explain", ResponseVersion("explain", els)) EXCEPT
     !.records = ArgValue(els, "record"), !.diags = ArgValue(els, "diagnostics"),
     !.extra = ArgValue(els, "extraResponseData")]

ScanResponseFromElements(els) ==
  [SruResponse("scan", ResponseVersion("scan", els)) EXCEPT
     !.records = ArgValue(els, "terms"), !.diags = ArgValue(els, "diagnostics"),
     !.extra = ArgValue(els, "extraResponseData")]

UpdateResponseFromElements(els) ==
  [SruResponse("update", ResponseVersion("update", els)) EXCEPT
     !.status = ArgValue(els, "operationStatus"), !.id = ArgValue(els, "recordIdentifier"),
     !.records = ArgValue(els, "record"), !.diags = ArgValue(els, "diagnostics")]

ResponseFromElements(which, els) ==
  CASE which = "searchRetrieve" -> SearchResponseFromElements(els)
    [] which = "explain" -> ExplainResponseFromElements(els)
    [] which = "scan" -> ScanResponseFromElements(els)
    [] OTHER -> UpdateResponseFromElements(els)

-----------------------------------------------------------------------------
(* yaz_facet_attr_get_z_attributes: a facet's attributes; the first error  *)
(* ends it.                                                                *)
FacetAttr(attrs) ==
  FoldLeft(LAMBDA av, a :
             IF av.err THEN av
             ELSE CASE a.type = 1 -> [av EXCEPT !.err = a.string /\ av.use # NULL, !.use = a.value]
                    [] a.type \in 2..4 ->
                         IF a.string THEN [av EXCEPT !.err = TRUE]
                         ELSE IF a.type = 2 THEN [av EXCEPT !.sort = a.num]
                         ELSE IF a.type = 3 THEN [av EXCEPT !.limit = a.num] ELSE [av EXCEPT !.start = a.num]
                    [] OTHER -> [av EXCEPT !.err = TRUE],
           [err |-> FALSE, use |-> NULL, sort |-> -1, limit |-> -1, start |-> -1], attrs)

(* yaz_sru_facet_request, to parameters: start and order are those of the  *)
(* last facet that has them, a limit without a field is put first.         *)
FacetParms(fl) ==
  LET avs == SelectSeq([i \in DOMAIN fl |-> FacetAttr(fl[i])], LAMBDA av : ~av.err)
      lim == SelectSeq(avs, LAMBDA av : av.limit # -1 /\ av.use # NULL)
      last(ok(_)) == Highest({i \in DOMAIN avs : ok(avs[i])})
      g == last(LAMBDA av : av.limit # -1 /\ av.use = NULL)
      st == last(LAMBDA av : av.start # -1)
      so == last(LAMBDA av : av.sort # -1)
  IN [limits |-> (IF g = 0 THEN <<>> ELSE <<[limit |-> avs[g].limit, field |-> NULL]>>)
                 \o [i \in DOMAIN lim |-> [limit |-> lim[i].limit, field |-> lim[i].use]],
      start |-> IF st = 0 THEN -1 ELSE avs[st].start,
      alphanumeric |-> so # 0 /\ avs[so].sort = 1]

(* ... and from them: one facet a field, and one for what has no field.    *)
(* insert_field: a field that is named again gets its attributes before    *)
(* those it has, so that the first limit is the one that is left.          *)
FacetsFromParms(ps) ==
  LET fields == {ps.limits[i].field : i \in DOMAIN ps.limits} \ {NULL}
      general == Highest({i \in DOMAIN ps.limits : ps.limits[i].field = NULL})
      sort == IF ps.alphanumeric THEN 1 ELSE 0
  IN [field |-> [f \in fields |->
        [limit |-> ps.limits[Lowest({i \in DOMAIN ps.limits : ps.limits[i].field = f})].limit,
         start |-> ps.start, sort |-> sort]],
      general |-> IF ~ps.alphanumeric /\ ps.start = -1 /\ general = 0 THEN {}
                  ELSE {[limit |-> IF general = 0 THEN -1 ELSE ps.limits[general].limit,
                         start |-> ps.start, sort |-> sort]}]

=============================================================================
