----------------------------- MODULE HttpCodec ------------------------------
(***************************************************************************)
(* HTTP packages (src/src/http.c), the framing that tells where one ends   *)
(* (src/src/comstack.c) and the parameters of a URI (src/src/uri.c).       *)
(* A buffer is a sequence of tokens: a word that the code compares as a    *)
(* whole, such as a header's name, is one token, any other byte is one,    *)
(* a digit is its text; words are those that are equal but for case.       *)
(***************************************************************************)
EXTENDS YazTypes

CRLF == <<"CR", "LF">>
Digit == [c \in {"0", "1", "2", "3", "4", "5", "6", "7", "8", "9", "a", "b", "c", "d", "e", "f"} |->
            CASE c = "0" -> 0 [] c = "1" -> 1 [] c = "2" -> 2 [] c = "3" -> 3 [] c = "4" -> 4 [] c = "5" -> 5
              [] c = "6" -> 6 [] c = "7" -> 7 [] c = "8" -> 8 [] c = "9" -> 9 [] c = "a" -> 10 [] c = "b" -> 11
              [] c = "c" -> 12 [] c = "d" -> 13 [] c = "e" -> 14 [] OTHER -> 15]
Numeral(n) == CHOOSE c \in DOMAIN Digit : Digit[c] = n

(* yaz_atoi: the run of digits from i on.                                  *)
Atoi(base, buf, i) ==
  LET isDigit(j) == buf[j] \in DOMAIN Digit /\ Digit[buf[j]] < base
      n == CHOOSE k \in 0..(Len(buf) - i + 1) :
             (\A j \in i..(i + k - 1) : isDigit(j)) /\ (i + k <= Len(buf) => ~isDigit(i + k))
  IN [n |-> n, v |-> FoldLeft(LAMBDA v, j : v * base + Digit[buf[i + j - 1]], 0, UpTo(n))]

-----------------------------------------------------------------------------
(* skip_crlf: the place after a line end at i, i itself when there is none.*)
SkipCrlf(buf, i) ==
  CASE i > Len(buf) -> i
    [] buf[i] = "CR" /\ i < Len(buf) /\ buf[i + 1] = "LF" -> i + 2
    [] buf[i] = "LF" -> i + 1
    [] OTHER -> i

(* The first place from i on that satisfies a condition of set S, or 0.    *)
NextIn(i, S) == Lowest({j \in S : j >= i})
LineEnds(buf) == {j \in DOMAIN buf : SkipCrlf(buf, j) > j}

(* cs_read_chunks, after the last chunk: trailing headers up to an empty   *)
(* line.                                                                   *)
ReadTrailer(buf, i) ==
  LET ends == LineEnds(buf)
      k == NextIn(i, {j \in ends : SkipCrlf(buf, j) \in ends})
  IN IF k = 0 THEN 0 ELSE SkipCrlf(buf, SkipCrlf(buf, k)) - 1

(* (mutant) The end of the last chunk's line is the end of the package.    *)
RECURSIVE ReadChunks_NoTrailer(_, _)

ReadChunks_NoTrailer(buf, i) ==
  LET len == Atoi(16, buf, i)
      eol == NextIn(i + len.n, LineEnds(buf))
      after == SkipCrlf(buf, eol) + len.v
  IN CASE i > Len(buf) -> 0
       [] len.n = 0 -> -1
       [] eol = 0 -> 0
       [] len.v = 0 -> SkipCrlf(buf, eol) - 1
       [] after >= Len(buf) - 1 \/ SkipCrlf(buf, after) = after -> 0
       [] OTHER -> ReadChunks_NoTrailer(buf, SkipCrlf(buf, after))

(* cs_read_chunks: chunks, each a length, a line end, so many bytes and a  *)
(* line end.                                                               *)
RECURSIVE ReadChunks(_, _)
ReadChunks(buf, i) ==
  LET len == Atoi(16, buf, i)
      eol == NextIn(i + len.n, LineEnds(buf))
      after == SkipCrlf(buf, eol) + len.v
  IN CASE i > Len(buf) -> 0
       [] len.n = 0 -> -1
       [] len.v = 0 -> ReadTrailer(buf, i + len.n)
       [] eol = 0 \/ eol >= Len(buf) -> 0
       [] after >= Len(buf) - 1 \/ SkipCrlf(buf, after) = after -> 0
       [] OTHER -> ReadChunks(buf, SkipCrlf(buf, after))

(* A response whose code promises no body, or one of unknown length (-1).  *)
ResponseBody(buf) ==
  LET sp == NextIn(2, {j \in DOMAIN buf : buf[j] = "SP"})
      eol == NextIn(1, {j \in DOMAIN buf : buf[j] \in {"CR", "LF"}})
  IN IF buf[1] # "HTTP/" \/ sp = 0 \/ sp > eol THEN [none |-> FALSE, len |-> 0]
     ELSE IF buf[sp + 1] \in {"100", "101", "204", "304"} THEN [none |-> TRUE, len |-> 0]
     ELSE [none |-> FALSE, len |-> -1]

(* The scan of cs_complete_http from i on, with what the headers so far    *)
(* said.  The limit on the head is MaxHead tokens where it is 8192 bytes.  *)
RECURSIVE ScanHead(_, _, _, _, _, _)
ScanHead(buf, i, len, chunked, headOnly, maxHead) ==
  LET n == Len(buf)
      a == SkipCrlf(buf, i)
      b == SkipCrlf(buf, a)
      start == NextIn(a + 2, {j \in DOMAIN buf : buf[j] # "SP"})
      eol == NextIn(start, LineEnds(buf))
      isHeader(name) == a + 1 <= n /\ buf[a] = name /\ buf[a + 1] = ":" /\ a + 2 < n
      num == Atoi(10, buf, start)
  IN CASE i > n - 1 -> 0
       [] i > maxHead + 1 -> -1
       [] a = i -> ScanHead(buf, i + 1, len, chunked, headOnly, maxHead)
       [] b # a -> (CASE headOnly -> b - 1
                     [] chunked -> ReadChunks(buf, b)
                     [] len = -1 -> 0
                     [] OTHER -> IF n >= b - 1 + len THEN b - 1 + len ELSE 0)
       [] isHeader("Transfer-Encoding") ->
            IF start = 0 \/ eol = 0 \/ eol >= n - 1 THEN 0
            ELSE ScanHead(buf, eol, len, chunked \/ buf[start] = "chunked", headOnly, maxHead)
       [] isHeader("Content-Length") ->
            IF start = 0 THEN 0
            ELSE IF num.n = 0 THEN -1
            ELSE ScanHead(buf, start + num.n, num.v, chunked, headOnly, maxHead)
       [] OTHER -> ScanHead(buf, a + 1, len, chunked, headOnly, maxHead)

(* cs_complete_http: the length of the package that a buffer begins with,  *)
(* 0 when it is not all there, -1 when it is none.                         *)
CompleteHttp(buf, headOnly, maxHead) ==
  LET body == ResponseBody(buf)
  IN IF ~\E j \in DOMAIN buf : buf[j] \in {"CR", "LF"} THEN 0
     ELSE ScanHead(buf, 2, IF headOnly THEN 0 ELSE body.len, FALSE, headOnly \/ (~headOnly /\ body.none), maxHead)

-----------------------------------------------------------------------------
(* Headers: z_HTTP_header_add and z_HTTP_header_lookup.                    *)
HeaderAdd(hs, n, v) == Append(hs, [n |-> n, v |-> v])
FirstHeader(hs, n) == Lowest({i \in DOMAIN hs : hs[i].n = n})
HeaderLookup(hs, n) == LET k == FirstHeader(hs, n) IN IF k = 0 THEN <<>> ELSE hs[k].v

ErrMsg == [c \in {"100", "200", "204", "301", "302", "304", "400", "404", "500"} |->
             CASE c = "100" -> "Continue" [] c = "200" -> "OK" [] c = "204" -> "No Content"
               [] c = "301" -> "Moved" [] c = "302" -> "Found" [] c = "304" -> "Not Modified"
               [] c = "400" -> "Bad Request" [] c = "404" -> "Not Found" [] OTHER -> "Internal Error"]

-----------------------------------------------------------------------------
HeaderLine(n, v) == <<n, ":", "SP">> \o v \o CRLF
HeaderLines(hs) == FoldLeft(LAMBDA b, h : b \o HeaderLine(h.n, h.v), <<>>, hs)
LengthLine(body) == HeaderLine("Content-Length", <<Numeral(Len(body))>>)

(* yaz_encode_http_response: the length is that of the body, whatever the  *)
(* headers say.                                                            *)
EncodeHttpResponse(r) ==
  <<"HTTP/", r.version, "SP", r.code, "SP", ErrMsg[r.code]>> \o CRLF \o LengthLine(r.body)
  \o HeaderLines(SelectSeq(r.headers, LAMBDA h : h.n \notin {"Content-Length", "Transfer-Encoding"}))
  \o CRLF \o r.body

(* yaz_encode_http_request: a fragment is cut off; a length that is given  *)
(* is taken as it is.                                                      *)
EncodeHttpRequest(r) ==
  LET frag == Lowest({i \in DOMAIN r.path : r.path[i] = "#"})
  IN <<r.method, "SP">> \o (IF frag = 0 THEN r.path ELSE SubSeq(r.path, 1, frag - 1))
     \o <<"SP", "HTTP/", r.version>> \o CRLF
     \o (IF r.body # <<>> /\ HeaderLookup(r.headers, "Content-Length") = <<>> THEN LengthLine(r.body) ELSE <<>>)
     \o HeaderLines(SelectSeq(r.headers, LAMBDA h : h.n # "Transfer-Encoding"))
     \o CRLF \o r.body

-----------------------------------------------------------------------------
(* decode_headers_content: headers from the line end at i on, then the     *)
(* body, the chunks of which are joined.                                   *)
RECURSIVE DecodeHeaders(_, _, _)
DecodeHeaders(buf, i, hs) ==
  LET n == Len(buf)
      j == i + 1
      colon == NextIn(j, {k \in DOMAIN buf : buf[k] = ":"})
      start == NextIn(colon + 1, {k \in DOMAIN buf : buf[k] # "SP" \/ k = n})
      end == NextIn(start, {k \in DOMAIN buf : buf[k] \in {"CR", "LF"} \/ k = n})
      after == IF end < n /\ buf[end] = "CR" THEN end + 1 ELSE end
  IN CASE ~(i < n /\ buf[i] = "LF") -> [ok |-> i <= n /\ buf[i] = "LF", hs |-> hs, at |-> i + 1]
       [] buf[j] = "CR" /\ j < n /\ buf[j + 1] = "LF" -> [ok |-> TRUE, hs |-> hs, at |-> j + 2]
       [] buf[j] = "LF" -> [ok |-> TRUE, hs |-> hs, at |-> j + 1]
       [] colon = 0 -> [ok |-> FALSE, hs |-> hs, at |-> 0]
       [] OTHER -> DecodeHeaders(buf, after, HeaderAdd(hs, buf[j], SubSeq(buf, start, end - 1)))

(* A chunk's line ends at the first CR, or before the first LF, after its  *)
(* length.                                                                 *)
RECURSIVE DecodeChunks(_, _)
DecodeChunks(buf, i) ==
  LET len == Atoi(16, buf, i)
      eol == NextIn(i + len.n, {k \in 1..(Len(buf) - 1) : buf[k] = "CR" \/ buf[k + 1] = "LF"})
      rest == DecodeChunks(buf, eol + 2 + len.v + 2)
  IN IF eol = 0 THEN [ok |-> FALSE, body |-> <<>>]
     ELSE IF len.v = 0 THEN [ok |-> TRUE, body |-> <<>>]
     ELSE [ok |-> rest.ok, body |-> SubSeq(buf, eol + 2, eol + 1 + len.v) \o rest.body]

DecodeContent(buf, i) ==
  LET h == DecodeHeaders(buf, i, <<>>)
      chunked == \E k \in DOMAIN h.hs : h.hs[k] = [n |-> "Transfer-Encoding", v |-> <<"chunked">>]
      body == IF chunked THEN DecodeChunks(buf, h.at) ELSE [ok |-> h.at <= Len(buf) + 1, body |-> SubSeq(buf, h.at, Len(buf))]
  IN IF ~h.ok THEN [ok |-> FALSE] ELSE [ok |-> body.ok, headers |-> h.hs, body |-> body.body]

(* yaz_decode_http_response.                                               *)
DecodeHttpResponse(buf) ==
  LET eol == NextIn(1, {k \in DOMAIN buf : buf[k] \in {"CR", "LF"}})
      at == IF eol < Len(buf) /\ buf[eol] = "CR" THEN eol + 1 ELSE eol
      c == DecodeContent(buf, at)
  IN IF eol < 6 \/ buf[1] # "HTTP/" \/ buf[3] # "SP" \/ buf[4] \notin DOMAIN ErrMsg \/ buf[5] # "SP"
        \/ buf[at] # "LF" \/ ~c.ok
     THEN [ok |-> FALSE]
     ELSE [ok |-> TRUE, p |-> [code |-> buf[4], version |-> buf[2], headers |-> c.headers, body |-> c.body]]

(* yaz_decode_http_request: the path ends at the last blank of the line.   *)
DecodeHttpRequest(buf) ==
  LET eol == NextIn(1, {k \in DOMAIN buf : buf[k] \in {"CR", "LF"}})
      lspace == Highest({k \in 3..eol : buf[k] = "SP"})
      at == IF eol < Len(buf) /\ buf[eol] = "CR" THEN eol + 1 ELSE eol
      c == DecodeContent(buf, at)
  IN IF eol = 0 \/ buf[2] # "SP" \/ lspace = 0 \/ buf[lspace + 1] # "HTTP/" \/ buf[at] # "LF" \/ ~c.ok
     THEN [ok |-> FALSE]
     ELSE [ok |-> TRUE, p |-> [method |-> buf[1], path |-> SubSeq(buf, 3, lspace - 1),
                               version |-> buf[lspace + 2], headers |-> c.headers, body |-> c.body]]

-----------------------------------------------------------------------------
(* yaz_array_to_uri and yaz_uri_to_array: a byte that is not unreserved is *)
(* written as % and two digits; + is read as a blank.                      *)
Hex == [c \in {"&", "=", "+", "%", "SP"} |->
          CASE c = "&" -> <<"2", "6">> [] c = "=" -> <<"3", "d">> [] c = "+" -> <<"2", "b">>
            [] c = "%" -> <<"2", "5">> [] OTHER -> <<"2", "0">>]

EncodeUriChar(c) == IF c \in DOMAIN Hex THEN <<"%">> \o Hex[c] ELSE <<c>>
EncodeUriComponent(v) == FoldLeft(LAMBDA b, c : b \o EncodeUriChar(c), <<>>, v)

RECURSIVE DecodeUriComponent(_)
DecodeUriComponent(v) ==
  IF v = <<>> THEN <<>>
  ELSE IF v[1] = "%" /\ Len(v) >= 3 /\ \E c \in DOMAIN Hex : Hex[c] = SubSeq(v, 2, 3)
  THEN <<CHOOSE c \in DOMAIN Hex : Hex[c] = SubSeq(v, 2, 3)>> \o DecodeUriComponent(SubSeq(v, 4, Len(v)))
  ELSE <<IF v[1] = "+" THEN "SP" ELSE v[1]>> \o DecodeUriComponent(Tail(v))

ArrayToUri(args) ==
  FoldLeft(LAMBDA b, i : b \o (IF i = 1 THEN <<>> ELSE <<"&">>) \o <<args[i].n, "=">> \o EncodeUriComponent(args[i].v),
           <<>>, UpTo(Len(args)))

(* Parts between &, each up to its first = a name; none when a name after  *)
(* the first has a byte in it that no name has.                            *)
RECURSIVE UriParts(_)
UriParts(path) ==
  LET amp == Lowest({i \in DOMAIN path : path[i] = "&"})
      part == IF amp = 0 THEN path ELSE SubSeq(path, 1, amp - 1)
      eq == Lowest({i \in DOMAIN part : part[i] = "="})
      rest == IF amp = 0 THEN <<>> ELSE UriParts(SubSeq(path, amp + 1, Len(path)))
  IN IF part = <<>> THEN rest
     ELSE <<[n |-> IF eq = 0 THEN part ELSE SubSeq(part, 1, eq - 1),
             v |-> IF eq = 0 THEN <<>> ELSE DecodeUriComponent(SubSeq(part, eq + 1, Len(part)))]>> \o rest

UriToArray(path) ==
  LET p == IF path # <<>> /\ path[1] = "?" THEN Tail(path) ELSE path
      parts == UriParts(p)
  IN IF \E i \in 2..Len(parts) : "SP" \in ToSet(parts[i].n) THEN <<>> ELSE parts
=============================================================================
