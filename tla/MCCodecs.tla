------------------------------ MODULE MCCodecs ------------------------------
(***************************************************************************)
(* What goes over the wire, on bounded inputs: HTTP packages, SRU requests *)
(* and BER elements.  A state is one case: a unit, its input and what the  *)
(* code makes of it.                                                       *)
(***************************************************************************)
EXTENDS MCCases, HttpCodec, SolrCodec, OdrBer

CONSTANTS MaxBody,   \* bytes in an HTTP body or chunk
          MaxArgs,   \* parameters of a URI
          MaxFacets  \* facets of a request to Solr

-----------------------------------------------------------------------------
(* HTTP packages, and what may follow one in the stream.                   *)
Bodies == SeqsUpTo({"x", "CR", "LF"}, MaxBody)
SomeHeaders == {<<>>, <<[n |-> "Host", v |-> <<"h", ":", "8">>]>>,
                <<[n |-> "X", v |-> <<>>], [n |-> "Transfer-Encoding", v |-> <<"chunked">>]>>}
Followers == {<<>>, <<"LF">>, <<"GET", "SP">>, <<"CR", "LF", "CR", "LF", "x">>}
HeadLimit == 40

Requests == [method : {"GET", "POST"}, path : {<<"/">>, <<"/", "SP", "a">>}, version : {"1.1"},
             body : Bodies, headers : SomeHeaders]
Responses == [code : {"200", "404"}, version : {"1.1"}, body : Bodies,
              headers : SomeHeaders \cup {<<[n |-> "Content-Length", v |-> <<"9">>]>>}]
             \cup [code : {"100", "204", "304"}, version : {"1.1"}, body : {<<>>}, headers : SomeHeaders]

Frames(msg, sfx) == [all |-> Yaz.CompleteHttp[msg \o sfx],
                     parts |-> {Yaz.CompleteHttp[SubSeq(msg, 1, n)] : n \in 1..(Len(msg) - 1)}]

HttpRequestCase ==
  \E r \in Requests, sfx \in Followers : \E msg \in {EncodeHttpRequest(r)} :
    case' = [unit |-> "http", sent |-> r, len |-> Len(msg), frames |-> Frames(msg, sfx),
             got |-> Yaz.DecodeHttpRequest[msg]]
HttpResponseCase ==
  \E r \in Responses, sfx \in Followers : \E msg \in {EncodeHttpResponse(r)} :
    case' = [unit |-> "http", sent |-> r, len |-> Len(msg), frames |-> Frames(msg, sfx),
             got |-> Yaz.DecodeHttpResponse[msg]]

(* A server that is not YAZ sends its body in chunks.                      *)
ChunkLists == SeqsUpTo(Bodies \ {<<>>}, 1) \cup {<<b, c>> : b \in Bodies \ {<<>>}, c \in {<<"x">>, <<"CR", "LF">>}}
Chunk(c, ext) == <<Numeral(Len(c))>> \o (IF ext THEN <<";", "e">> ELSE <<>>) \o CRLF \o c \o CRLF
ChunkedCase ==
  \E cs \in ChunkLists, ext, trailer \in BOOLEAN, sfx \in Followers :
    \E msg \in {<<"HTTP/", "1.1", "SP", "200", "SP", "OK">> \o CRLF \o HeaderLine("Transfer-Encoding", <<"chunked">>)
                \o CRLF \o FoldLeft(LAMBDA b, c : b \o Chunk(c, ext), <<>>, cs) \o <<"0">> \o CRLF
                \o (IF trailer THEN HeaderLine("X", <<"x">>) ELSE <<>>) \o CRLF} :
      case' = [unit |-> "chunked", body |-> FlattenSeq(cs), len |-> Len(msg), frames |-> Frames(msg, sfx),
               got |-> Yaz.DecodeHttpResponse[msg]]

(* The end of a package is found where it was written, whatever follows it *)
(* in the stream and wherever the stream is cut: a body that looks like a  *)
(* line end, or a header that does not hold for the body, ends nothing     *)
(* (src/src/comstack.c:349).                                               *)
PackagesAreFramed ==
  case.unit \in {"http", "chunked"} => case.frames.all = case.len /\ case.frames.parts \subseteq {0}

(* What was encoded is what is decoded; headers that say how the body is   *)
(* carried are those of this transfer (src/src/http.c:616).                *)
PackagesSurvive ==
  case.unit = "http" =>
    /\ case.got.ok
    /\ \E rest \in {SelectSeq(case.sent.headers, LAMBDA h : h.n \notin {"Transfer-Encoding", "Content-Length"})} :
         /\ [case.got.p EXCEPT !.headers = rest] = [case.sent EXCEPT !.headers = rest]
         /\ SelectSeq(case.got.p.headers, LAMBDA h : h.n # "Content-Length") = rest

(* The decoder takes the same bytes for the body as the framing did, chunk *)
(* by chunk (src/src/http.c:77 and src/src/comstack.c:303).                *)
ChunksJoin == case.unit = "chunked" => case.got.ok /\ case.got.p.body = case.body

-----------------------------------------------------------------------------
UriCase ==
  \E args \in SeqsUpTo([n : {"a", "b"}, v : SeqsUpTo({"x", "&", "=", "+", "%", "2", "5", "SP"}, 2)], MaxArgs) :
    case' = [unit |-> "uri", args |-> args, got |-> UriToArray(ArrayToUri(args))]

(* Parameters come back from a URI as they were put into it.               *)
ParametersSurvive ==
  case.unit = "uri" => case.got = [i \in DOMAIN case.args |-> [n |-> <<case.args[i].n>>, v |-> case.args[i].v]]

-----------------------------------------------------------------------------
(* BER: elements of every kind, some longer than a short length can say.   *)
Long(n) == [i \in 1..n |-> i % 3]
Atoms ==
  {<<OdrBool, b>> : b \in BOOLEAN}
  \cup {<<t, v>> : t \in {OdrInteger, OdrEnum},
                  v \in {0, 1, 127, 128, 255, 256, 32767, 32768, -1, -128, -129, -32768, -32769, 8388607, -8388608}}
  \cup {<<OdrOid, v>> : v \in {<<1, 2, 840>>, <<0, 0>>, <<2, 100, 3>>, <<1, 39, 16384>>}}
  \cup {<<t, v>> : t \in {OdrOctetstring, OdrBitstring, OdrCstring},
                  v \in {<<>>, <<0, 0>>, <<128>>, Long(126), Long(127), Long(128), Long(300)}}
  \cup {<<OdrNull, TRUE>>}
Elements ==
  {<<e, <<>>>> : e \in Atoms}
  \cup {<<<<OdrSequenceOf(a[1]), [i \in 1..n |-> a[2]]>>, <<>>>> : a \in Atoms, n \in 0..2}
  \cup {<<<<OdrSet(<<OdrField(a[1], <<2, 1>>, TRUE), OdrField(OdrInteger, <<2, 31>>, TRUE),
                     OdrField(OdrExplicit(<<2, 200>>, OdrOctetstring), <<>>, TRUE)>>), <<x, y, z>>>>, <<>>>> :
          a \in Atoms, x \in {<<>>}, y \in {<<>>, <<-1>>}, z \in {<<>>, <<<<0, 0>>>>}}
  \cup {<<<<OdrSequence(<<OdrField(a[1], <<2, 1>>, TRUE), OdrField(OdrInteger, <<2, 31>>, FALSE)>>),
            <<<<a[2]>>, <<5>>>>>>, <<1, 22>>>> : a \in Atoms}
  \cup {<<<<OdrExternal, <<o, i, g, <<[which |-> w, v |-> IF w = 1 THEN <<4, 1, 7>> ELSE s]>>>>>>, ExternalTag>> :
          o \in {<<>>, <<<<1, 2, 840>>>>}, i \in {<<>>, <<3>>}, g \in {<<>>, <<<<65>>>>}, w \in 1..3,
          s \in {<<7>>, Long(130)}}
BerCase ==
  \E e \in Elements : \E b \in {Yaz.OdrPut[e]} :
    case' = [unit |-> "ber", v |-> e[1][2], len |-> Len(b), got |-> Yaz.OdrGet[e, b],
             frames |-> {CompleteBER(b \o s, 1) : s \in {<<>>, <<0>>, <<0, 0>>, <<48, 3>>}},
             parts |-> {CompleteBER(SubSeq(b, 1, n), 1) : n \in (1..(Len(b) - 1)) \cap ((1..12) \cup (126..132) \cup {Len(b) - 1})},
             dump |-> DumpBER(b \o <<0, 0>>, 1, Len(b))]

(* An element that was encoded is the element that is decoded, be its      *)
(* length definite or not (src/src/ber_len.c:30).                          *)
ElementsSurvive == case.unit = "ber" => case.got = Got(<<case.v>>, case.len + 1)

(* The framing finds the end of every element that ODR writes, and never   *)
(* an end in the middle of one; the dump of an element covers it too.      *)
ElementsAreFramed ==
  case.unit = "ber" => case.frames = {case.len} /\ case.parts \subseteq {0} /\ case.dump = case.len

-----------------------------------------------------------------------------
(* SRU requests: every binding, every version, each field there or not.    *)
SruRequests ==
  LET pdu(w, v, qt, b) ==
        [SrwPdu(w, v) EXCEPT !.queryType = qt, !.query = "q", !.start = IF b THEN "2" ELSE NULL,
           !.maximum = IF b THEN "5" ELSE NULL, !.schema = IF w = "searchRetrieve" /\ b THEN "dc" ELSE NULL,
           !.sort = IF w = "searchRetrieve" /\ b THEN "k" ELSE NULL, !.stylesheet = IF b THEN NULL ELSE "s",
           !.user = IF b THEN "u" ELSE NULL]
      paged == {pdu(w, v, qt, b) : w \in {"searchRetrieve", "scan"}, v \in Versions, qt \in {"cql", "pqf"}, b \in BOOLEAN}
      explains == {[SrwPdu("explain", v) EXCEPT !.stylesheet = s] : v \in Versions, s \in {NULL, "s"}}
      packed(p) == {[p EXCEPT !.escaping = e, !.packing = IF Version2(p.version) THEN k ELSE NULL,
                               !.database = d] :
                      e \in {NULL, "string", "xml"}, k \in {NULL, "packed", "unpacked"}, d \in {NULL, "db"}}
  IN UNION {packed(p) : p \in paged \cup explains}

SruCase ==
  \E p \in SruRequests, b \in {"get", "post", "soap"} : \E h \in {SruHttp(p, b)} :
    case' = [unit |-> "sru", sent |-> p, binding |-> b,
             got |-> IF b = "soap"
                       THEN LET d == SrwDecode(h.method, h.type, p.database, h.basic, h.doc)
                            IN [pdu |-> IF d.ret = 0 THEN d.pdu ELSE SrwPdu("fault", NULL), diag |-> d.ret # 0]
                       ELSE SruDecode(h.args, p.database, h.basic)]

(* The fields that an operation has: a scan returns no records to pack.    *)
SruFields(p) == DOMAIN p \ (IF p.which = "scan" THEN {"escaping", "packing"} ELSE {})

(* What the protocol takes for a field that is not there.                  *)
ProtocolDefault == [escaping |-> "xml", packing |-> "packed", database |-> "Default"]

(* Two known losses of SOAP packages of version 2, left out here: the      *)
(* decoder of an explain reads its packing as the escaping of version 1    *)
(* (src/src/srw.c:784), and that of a scan reads no queryType              *)
(* (src/src/srw.c:833-856).                                                *)
LostOverSoap(p) ==
  IF ~Version2(p.version) THEN {}
  ELSE CASE p.which = "explain" -> {"escaping", "packing"}
         [] p.which = "scan" /\ p.queryType # "cql" -> {"queryType"}
         [] OTHER -> {}

(* A server that decodes a request with the decoder of its binding gets    *)
(* every field as the client had it, or the protocol's default for one     *)
(* that the client left out, and has nothing to complain about; but for    *)
(* two losses over SOAP (src/src/srwutil.c:950 and 357, src/src/srw.c:575).*)
SruRequestsSurvive ==
  case.unit = "sru" =>
    /\ ~case.got.diag
    /\ \A f \in SruFields(case.sent) \ (IF case.binding = "soap" THEN LostOverSoap(case.sent) ELSE {}) :
         \/ case.got.pdu[f] = case.sent[f]
         \/ case.sent[f] = NULL /\ f \in DOMAIN ProtocolDefault /\ case.got.pdu[f] = ProtocolDefault[f]

(* Facets: lists of attributes.                                            *)
FacetAttrs == {[type |-> 1, string |-> TRUE, value |-> f, num |-> 0] : f \in {"a", "b"}}
              \cup {[type |-> 3, string |-> FALSE, value |-> NULL, num |-> n] : n \in {5, 7}}
              \cup {[type |-> 4, string |-> FALSE, value |-> NULL, num |-> 2],
                    [type |-> 2, string |-> FALSE, value |-> NULL, num |-> 1],
                    [type |-> 1, string |-> FALSE, value |-> "9", num |-> 9]}
FacetCase ==
  \E fl \in SeqsUpTo(SeqsUpTo(FacetAttrs, 2), 2) :
    case' = [unit |-> "facet", avs |-> [i \in DOMAIN fl |-> FacetAttr(fl[i])], got |-> FacetsFromParms(FacetParms(fl))]

(* The facets a client asks for with a limit are those that the server is  *)
(* asked for, each with its first limit; the rest of the list is not lost  *)
(* behind a facet that has an error (src/src/sru_facet.c:28).              *)
FacetsSurvive ==
  case.unit = "facet" =>
    LET limited == {i \in DOMAIN case.avs : ~case.avs[i].err /\ case.avs[i].use # NULL /\ case.avs[i].limit # -1}
    IN /\ DOMAIN case.got.field = {case.avs[i].use : i \in limited}
       /\ \A f \in DOMAIN case.got.field :
            case.got.field[f].limit = case.avs[Lowest({i \in limited : case.avs[i].use = f})].limit

RecordCase ==
  \E rs \in SeqsUpTo([schema : {NULL, "dc"}, packing : {"string", "xml"}, data : {NULL, "d"},
                       position : {NULL, "1"}, id : {NULL, "i"}, extra : {NULL, "e"}], 1), v2 \in BOOLEAN,
     d \in [uri : {"1/7", "12/1", "x"}, message : {NULL, "m"}, details : {NULL, "t"}] :
    case' = [unit |-> "srurec", sent |-> rs, got |-> RecordsOf(rs, v2), diag |-> d, diagGot |-> DiagElements(d)]

(* A record of a response keeps its place, identity and extra data, and is *)
(* XML again only if it was XML and there was any; a diagnostic keeps the  *)
(* message it came with (src/src/srw.c:39 and 433).                        *)
RecordsSurvive ==
  case.unit = "srurec" =>
    /\ \A i \in DOMAIN case.sent :
         /\ \A f \in {"position", "id", "extra"} : case.got[i][f] = case.sent[i][f]
         /\ case.sent[i].data # NULL => case.got[i].packing = case.sent[i].packing /\ case.got[i].data = case.sent[i].data
    /\ case.diag.message # NULL => case.diagGot = case.diag

ResponseCase ==
  \E w \in {"searchRetrieve", "explain", "scan", "update"}, v \in Versions \ {"1.2"}, S \in SUBSET {"number", "setId", "idle", "precision", "records", "next", "diags", "extra", "facets", "status", "id"} :
    \E r \in {[f \in DOMAIN SruResponse(w, v) |-> IF f \in S THEN f ELSE SruResponse(w, v)[f]]} :
      case' = [unit |-> "sruresp", sent |-> r, got |-> ResponseFromElements(w, ResponseElements(r))]

(* The parts a response of each kind has, and those version 1 lacks.       *)
Parts(w, v) ==
  CASE w = "searchRetrieve" -> {"number", "setId", "idle", "records", "next", "diags", "extra"}
                               \cup (IF Version2(v) THEN {"precision", "facets"} ELSE {})
    [] w \in {"explain", "scan"} -> {"records", "diags", "extra"}
    [] OTHER -> {"records", "diags", "status", "id"}

(* A response that a server encodes is the one its client decodes, in its  *)
(* version (src/src/srw.c:986 and 697).                                    *)
ResponsesSurvive ==
  case.unit = "sruresp" =>
    \A f \in DOMAIN case.sent :
      case.got[f] = IF f \in {"which", "version"} \cup Parts(case.sent.which, case.sent.version)
                      THEN case.sent[f] ELSE NULL

-----------------------------------------------------------------------------
(* Solr: a server with some hits answers a page, with facets or a spell    *)
(* check as asked; its header comes first.                                 *)
SolrServer(parms, hits, lists, words) ==
  LET val(n, default) == LET i == Lowest({j \in DOMAIN parms : parms[j].n = <<n>>}) IN IF i = 0 THEN default ELSE Value(parms[i].v)
      start == val("start", 0)
  IN <<[el |-> "header"], [el |-> "result", numFound |-> hits, start |-> start, docs |-> Most(0, Least(val("rows", 9), hits - start))],
       [el |-> "facet_counts", lists |-> lists], [el |-> "spellcheck", words |-> words]>>
SolrFacets == {<<[type |-> 1, string |-> TRUE, value |-> "a", num |-> 0]>>,
               <<[type |-> 1, string |-> TRUE, value |-> "b", num |-> 0], [type |-> 3, string |-> FALSE, value |-> NULL, num |-> 5],
                 [type |-> 4, string |-> FALSE, value |-> NULL, num |-> 3], [type |-> 2, string |-> FALSE, value |-> NULL, num |-> 1]>>}
SolrSearchCase ==
  \E start \in {NULL, "1", "2", "5"}, maximum \in {NULL, "0", "2"}, extra \in {<<>>, <<[n |-> "defType", v |-> "x"]>>}, hits \in 0..4,
     facets \in SeqsUpTo(SolrFacets, MaxFacets), lists \in SeqsUpTo({[name |-> NULL, terms |-> <<>>], [name |-> "a", terms |-> <<[name |-> NULL], [name |-> "x"]>>]}, 2),
     words \in {<<>>, <<[word |-> "x", for |-> "y"]>>} :
    \E p \in {[SrwPdu("searchRetrieve", NULL) EXCEPT !.query = "q", !.start = start, !.maximum = maximum, !.schema = "s", !.sort = "k", !.extra = extra]} :
      \E parms \in {SolrSearchParms(p, facets)} :
        case' = [unit |-> "solr", p |-> p, hits |-> hits, facets |-> facets, parms |-> parms, room |-> SolrRoom(p, facets), ok |-> SolrRequestOk(p, facets), lists |-> lists,
                 got |-> SolrDecode(SolrServer(parms, hits, lists, words)),
                 refused |-> SolrDecode(<<[el |-> "header"], [el |-> "error", msgs |-> <<"m">>]>>),
                 path |-> SolrPath(<<"/", "solr", "/", "select">>, "select")]
SolrScanCase ==
  \E field \in {NULL, "f"}, ts \in SeqsUpTo([name : {<<"x">>, <<"x", "X">>}, count : {1, 2}], 2), late \in BOOLEAN,
     p \in {[SrwPdu("scan", NULL) EXCEPT !.query = "c", !.maximum = "2", !.queryType = "cql"]} :
    case' = [unit |-> "solrscan", field |-> field, terms |-> ts, late |-> late, parms |-> SolrScanParms(p, [field |-> field, term |-> "t"]), ok |-> SolrRequestOk(p, <<>>),
             got |-> SolrDecode((IF late THEN <<[el |-> "terms", terms |-> ts], [el |-> "error", msgs |-> <<"m">>]>>
                                 ELSE <<[el |-> "error", msgs |-> <<"m">>], [el |-> "terms", terms |-> ts]>>))]

(* A page of Solr is the page that was asked for: a client that asks for   *)
(* records from s on gets records with the positions from s on, as many as *)
(* there are up to what it asked for, facets only with hits, suggestions   *)
(* only without; and an error of the server is a diagnostic                *)
(* (src/src/solr.c:57, 336 and 484).                                       *)
SolrPagesAreRight ==
  case.unit = "solr" =>
    LET s == IF case.p.start = NULL THEN 1 ELSE Value(case.p.start)
        m == IF case.p.maximum = NULL THEN 9 ELSE Value(case.p.maximum)
        sr == case.got.sr[1]
    IN /\ case.ok /\ case.got.which = "search" /\ case.got.ret = 0
       /\ sr.number = case.hits
       /\ sr.positions = [i \in 1..Most(0, Least(m, case.hits - s + 1)) |-> s + i - 1]
       /\ Len(sr.facets) = (IF case.hits = 0 THEN 0 ELSE Len(SelectSeq(case.lists, LAMBDA l : l.name # NULL)))
       /\ sr.suggestions # <<>> => case.hits = 0
       /\ case.refused.ret = 0 /\ case.refused.sr[1].diags = <<"m">>

(* The terms of a scan are those of the server, with the text to show      *)
(* apart; they are read after an error too, which is lost then, and an     *)
(* answer without any is an error (src/src/solr.c:260).                    *)
SolrTermsRead ==
  case.unit = "solrscan" =>
    /\ case.ok /\ (case.field # NULL <=> \E i \in DOMAIN case.parms : case.parms[i].n = <<"terms.fl">>)
    /\ case.got.which = "scan" /\ Len(case.got.terms) = Len(case.terms)
    /\ \A i \in DOMAIN case.terms : case.got.terms[i].value = case.terms[i].name[1] /\ (case.got.terms[i].display = NULL <=> Len(case.terms[i].name) = 1)
    /\ (case.terms = <<>>) <=> case.got.ret = -1

(* The arrays that the parameters of a request to Solr are put into have   *)
(* room for them and for the end: 20 is the "safe upper limit of args      *)
(* without extra_args", and one more for every facet is "to make room for  *)
(* facets in yaz_solr_encode_facet_list later" (src/src/solr.c:495-503).   *)
SolrParmsFit == case.unit = "solr" => Len(case.parms) + 1 <= case.room

-----------------------------------------------------------------------------
CodecUnit == HttpRequestCase \/ HttpResponseCase \/ UriCase \/ BerCase
             \/ SruCase \/ FacetCase \/ RecordCase \/ ResponseCase
=============================================================================
