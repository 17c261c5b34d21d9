------------------------------- MODULE Parser -------------------------------
(***************************************************************************)
(* ParseRequest of http/parser.go on the stream of one connection: the     *)
(* request line, the headers, the framing they ask for, the body or the    *)
(* chunks and their trailers, with every limit.                            *)
(*                                                                         *)
(* A line is what the tests of the parser find in it.  What the stream     *)
(* holds is chosen when it is read.  A scan by the WAF may report a match  *)
(* or not; module Scanner has the detail.  The result is one of the        *)
(* outcomes that module Connection starts from.                            *)
(***************************************************************************)
EXTENDS Naturals, FiniteSets

CONSTANTS MaxHeaders,   \* maxHeaderCount
          MaxTrailers,  \* maxTrailerCount
          MaxBody,      \* maxBodyBytes
          Others,       \* names of headers without a meaning here, as sent
          Canonical,    \* Canonical[n]: CanonicalMIMEHeaderKey(n)
          NotDecimal,   \* a Content-Length that is no number
          MaxDigits     \* bound on the digits of a chunk size

Names == {"Host", "Content-Length", "Transfer-Encoding", "Trailer"} \cup Others

ASSUME ParserAssumption ==
    /\ MaxHeaders \in Nat \ {0}
    /\ MaxTrailers \in Nat \ {0}
    /\ MaxBody \in Nat /\ MaxBody >= 16
    /\ Canonical \in [Names -> Names]
    /\ \A n \in Names \ Others : Canonical[n] = n
    /\ NotDecimal \notin Nat
    /\ MaxDigits \in Nat

VARIABLES pc,
          headers,    \* req.headers: a function on the names seen
          trailers,   \* names of the trailers seen
          size,       \* parseChunkSize: the size so far
          digits,     \* its digits so far
          value,      \* history: the number those digits denote
          body,       \* len(body), as allocated
          consumed,   \* history: body bytes taken from the stream
          scanned,    \* history: body bytes the scanner was fed
          finished,   \* history: the body scanner's Finish was called
          result      \* what ParseRequest returns

vars == <<pc, headers, trailers, size, digits, value, body, consumed, scanned,
          finished, result>>
bodyVars == <<body, consumed, scanned, finished>>
sizeVars == <<size, digits, value>>

RequestLines == [ok : BOOLEAN,       \* three fields, token, target
                 hit : BOOLEAN,      \* the URI matches a rule
                 version : BOOLEAN]  \* it says HTTP/1.1

\* The values the parser tells apart, by canonical name.
Values(n) ==
    CASE n = "Host" -> {"ok", "blank", "spaced"}
      [] n = "Content-Length" -> 0 .. MaxBody + 1 \cup {NotDecimal}
      [] n = "Transfer-Encoding" -> {"chunked", "other"}
      [] OTHER -> {"ok"}
HeaderLines ==
    UNION {[name : {n}, value : Values(Canonical[n]),
            hit : BOOLEAN] : n \in Names}

Init ==
    /\ pc = "requestLine"
    /\ headers = <<>>
    /\ trailers = {}
    /\ size = 0 /\ digits = 0 /\ value = 0
    /\ body = 0 /\ consumed = 0 /\ scanned = 0
    /\ finished = FALSE
    /\ result = "none"

Goto(l) == pc' = l /\ UNCHANGED result
Return(r) == pc' = "done" /\ result' = r

-----------------------------------------------------------------------------
(* The head.                                                               *)

ReadRequestLine(l) ==
    /\ pc = "requestLine"
    /\ IF ~l.ok THEN Return("bad")
       ELSE IF l.hit THEN Return("waf")
       ELSE IF ~l.version THEN Return("bad")
       ELSE Goto("headers")
    /\ UNCHANGED <<headers, trailers>>
    /\ UNCHANGED sizeVars /\ UNCHANGED bodyVars

HeaderCount == Cardinality(DOMAIN headers)

\* Faulty variant: one header more.
HeadersLeftOneMore == HeaderCount <= MaxHeaders
HeadersLeft == HeaderCount < MaxHeaders
TrailersLeft == Cardinality(trailers) < MaxTrailers

\* The counts are tested before a line is read.
LineIsRead ==
    /\ pc = "headers" => HeadersLeft
    /\ pc = "trailers" => TrailersLeft

\* A line that is too long; one of the head or of the trailers that is no
\* header: folded, without a colon, with a name that is no token; a chunk
\* size without a digit or with a byte that is none.
BadLine ==
    /\ pc \in {"headers", "trailers", "chunkSize"}
    /\ LineIsRead
    /\ Return("bad")
    /\ UNCHANGED <<headers, trailers>>
    /\ UNCHANGED sizeVars /\ UNCHANGED bodyVars

\* The count is tested before the line is read: it may be the empty one.
TooManyHeaders ==
    /\ pc = "headers"
    /\ ~HeadersLeft
    /\ Return("bad")
    /\ UNCHANGED <<headers, trailers>>
    /\ UNCHANGED sizeVars /\ UNCHANGED bodyVars

\* The value is scanned, the name is not; then duplicates are refused.
ReadHeader(l) ==
    LET name == Canonical[l.name]
    IN  /\ pc = "headers"
        /\ HeadersLeft
        /\ IF l.hit \/ name \in DOMAIN headers
           THEN /\ Return(IF l.hit THEN "waf" ELSE "bad")
                /\ UNCHANGED headers
           ELSE /\ Goto("headers")
                /\ headers' = [n \in DOMAIN headers \cup {name} |->
                                  IF n = name THEN l.value ELSE headers[n]]
        /\ UNCHANGED trailers
        /\ UNCHANGED sizeVars /\ UNCHANGED bodyVars

Has(n) == n \in DOMAIN headers

\* The tests of the headers that frame the request.
FramingOK ==
    /\ ~(Has("Transfer-Encoding") /\ Has("Content-Length"))
    /\ Has("Transfer-Encoding") => headers["Transfer-Encoding"] = "chunked"
    /\ Has("Host") /\ headers["Host"] \notin {"blank", "spaced"}
    /\ Has("Content-Length") => headers["Content-Length"] \in 0 .. MaxBody

\* The empty line: the way the body comes is settled, and with
\* Content-Length all of it is allocated.
EndOfHeaders ==
    /\ pc = "headers"
    /\ HeadersLeft
    /\ IF ~FramingOK THEN Return("bad") /\ UNCHANGED body
       ELSE IF Has("Transfer-Encoding") THEN Goto("chunkSize") /\ UNCHANGED body
       ELSE IF Has("Content-Length") /\ headers["Content-Length"] > 0
       THEN Goto("body") /\ body' = headers["Content-Length"]
       ELSE Return("request") /\ UNCHANGED body
    /\ UNCHANGED <<headers, trailers, consumed, scanned, finished>>
    /\ UNCHANGED sizeVars

-----------------------------------------------------------------------------
(* readBody: as much as there is, scanned piece by piece.                  *)

ReadBody(n, hit) ==
    /\ pc = "body"
    /\ n <= body - consumed
    /\ consumed' = consumed + n
    /\ scanned' = scanned + n
    /\ IF hit THEN Return("waf") ELSE Goto("body")
    /\ UNCHANGED <<headers, trailers, body, finished>>
    /\ UNCHANGED sizeVars

EndOfBody(hit) ==
    /\ pc = "body"
    /\ consumed = body
    /\ finished' = TRUE
    /\ Return(IF hit THEN "waf" ELSE "request")
    /\ UNCHANGED <<headers, trailers, body, consumed, scanned>>
    /\ UNCHANGED sizeVars

-----------------------------------------------------------------------------
(* readChunkedBody and parseChunkSize, whose loop is a step per digit.     *)

\* Faulty variant: off by one.
TooLargeEarly(d) == size >= (MaxBody - d) \div 16
TooLarge(d) == size > (MaxBody - d) \div 16

ChunkDigit(d) ==
    /\ pc = "chunkSize"
    /\ digits < MaxDigits
    /\ digits' = digits + 1
    /\ value' = value * 16 + d
    /\ IF TooLarge(d) THEN Return("bad") /\ UNCHANGED size
                      ELSE Goto("chunkSize") /\ size' = size * 16 + d
    /\ UNCHANGED <<headers, trailers>>
    /\ UNCHANGED bodyVars

\* The last chunk: the scanner's Finish, then the trailers.  (Faulty
\* variants: no Finish; an empty chunk is a chunk.)
LastChunkUnfinished(hit) ==
    /\ pc = "chunkSize"
    /\ digits > 0 /\ size = 0
    /\ IF hit THEN Return("waf") ELSE Goto("trailers")
    /\ UNCHANGED <<headers, trailers>>
    /\ UNCHANGED sizeVars /\ UNCHANGED bodyVars
LastChunkGoesOn(hit) ==
    /\ pc = "chunkSize"
    /\ digits > 0 /\ size = 0
    /\ Goto("chunkEnd")
    /\ UNCHANGED <<headers, trailers>>
    /\ UNCHANGED sizeVars /\ UNCHANGED bodyVars
LastChunk(hit) ==
    /\ pc = "chunkSize"
    /\ digits > 0 /\ size = 0
    /\ finished' = TRUE
    /\ IF hit THEN Return("waf") ELSE Goto("trailers")
    /\ UNCHANGED <<headers, trailers, body, consumed, scanned>>
    /\ UNCHANGED sizeVars

\* Faulty variant: the limit is one for each chunk.
OverLimitPerChunk == size > MaxBody
OverLimit == body + size > MaxBody

\* Another chunk: room for it is allocated before it is read.
Chunk ==
    /\ pc = "chunkSize"
    /\ digits > 0 /\ size > 0
    /\ IF OverLimit THEN Return("bad") /\ UNCHANGED body
                    ELSE Goto("chunkData") /\ body' = body + size
    /\ UNCHANGED <<headers, trailers, consumed, scanned, finished>>
    /\ UNCHANGED sizeVars

\* io.ReadFull and the scan.
ReadChunk(hit) ==
    /\ pc = "chunkData"
    /\ consumed' = body
    /\ scanned' = body
    /\ IF hit THEN Return("waf") ELSE Goto("chunkEnd")
    /\ UNCHANGED <<headers, trailers, body, finished>>
    /\ UNCHANGED sizeVars

\* readCRLF.
ReadCRLF(ok) ==
    /\ pc = "chunkEnd"
    /\ IF ok THEN Goto("chunkSize") ELSE Return("bad")
    /\ size' = 0 /\ digits' = 0 /\ value' = 0
    /\ UNCHANGED <<headers, trailers>>
    /\ UNCHANGED bodyVars

-----------------------------------------------------------------------------
(* readTrailers.                                                           *)

Forbidden(n) == n \in {"Content-Length", "Host", "Transfer-Encoding", "Trailer"}

TooManyTrailers ==
    /\ pc = "trailers"
    /\ ~TrailersLeft
    /\ Return("bad")
    /\ UNCHANGED <<headers, trailers>>
    /\ UNCHANGED sizeVars /\ UNCHANGED bodyVars

ReadTrailer(l) ==
    LET name == Canonical[l.name]
    IN  /\ pc = "trailers"
        /\ TrailersLeft
        /\ IF l.hit \/ Forbidden(name) \/ name \in trailers
           THEN /\ Return(IF l.hit THEN "waf" ELSE "bad")
                /\ UNCHANGED trailers
           ELSE Goto("trailers") /\ trailers' = trailers \cup {name}
        /\ UNCHANGED headers
        /\ UNCHANGED sizeVars /\ UNCHANGED bodyVars

EndOfTrailers ==
    /\ pc = "trailers"
    /\ TrailersLeft
    /\ Return("request")
    /\ UNCHANGED <<headers, trailers>>
    /\ UNCHANGED sizeVars /\ UNCHANGED bodyVars

-----------------------------------------------------------------------------
\* The stream ends or the read deadline passes.  The error is or wraps
\* io.EOF at the beginning of a line, inside a body or a chunk terminator
\* and before the first byte of a chunk; it is another one elsewhere.
StreamEnds(r) ==
    /\ pc # "done"
    /\ pc = "chunkSize" => digits = 0
    /\ LineIsRead
    /\ Return(r)
    /\ UNCHANGED <<headers, trailers>>
    /\ UNCHANGED sizeVars /\ UNCHANGED bodyVars

Terminated == pc = "done" /\ UNCHANGED vars

Read ==
    \/ \E l \in RequestLines : ReadRequestLine(l)
    \/ BadLine \/ TooManyHeaders \/ EndOfHeaders
    \/ \E l \in HeaderLines : ReadHeader(l) \/ ReadTrailer(l)
    \/ \E n \in 1 .. MaxBody, hit \in BOOLEAN : ReadBody(n, hit)
    \/ \E hit \in BOOLEAN : EndOfBody(hit) \/ LastChunk(hit) \/ ReadChunk(hit)
    \/ \E d \in 0 .. 15 : ChunkDigit(d)
    \/ Chunk
    \/ \E ok \in BOOLEAN : ReadCRLF(ok)
    \/ TooManyTrailers \/ EndOfTrailers
    \/ \E r \in {"eof", "bad"} : StreamEnds(r)

Next == Read \/ Terminated

\* The worker runs, and a read ends: data, the end of the stream or the
\* deadline.
Spec == Init /\ [][Next]_vars /\ WF_vars(Read)

-----------------------------------------------------------------------------
(* Properties.                                                             *)

\* Every variable has its type; the maps stay below their limits.
TypeOK ==
    /\ pc \in {"requestLine", "headers", "body", "chunkSize", "chunkData",
               "chunkEnd", "trailers", "done"}
    /\ DOMAIN headers \subseteq Names
    /\ HeaderCount <= MaxHeaders
    /\ trailers \subseteq Names
    /\ Cardinality(trailers) <= MaxTrailers
    /\ {size, digits, value, body, consumed, scanned} \subseteq Nat
    /\ finished \in BOOLEAN
    /\ result \in {"none", "request", "waf", "bad", "eof"}

\* Memory: whatever lengths a client declares, in one number or chunk by
\* chunk, no more than the limit is ever allocated for a body.
BodyBounded == body <= MaxBody /\ size <= MaxBody

\* parseChunkSize computes the number its digits denote, whatever their
\* number, and a size it refuses is above the limit: nothing wraps round.
SizeIsValue ==
    /\ pc # "done" => size = value
    /\ pc = "done" /\ size # value => value > MaxBody

\* A request that is returned leaves the stream at its end, and was seen
\* whole by the WAF: all of the body that was declared, in the one way that
\* was declared, was read and scanned to the last held-back byte.
BodyIsWhole ==
    result = "request" =>
        /\ consumed = body /\ scanned = body
        /\ Has("Transfer-Encoding") => finished /\ ~Has("Content-Length")
        /\ ~Has("Transfer-Encoding") =>
              /\ trailers = {}
              /\ body = IF Has("Content-Length")
                        THEN headers["Content-Length"] ELSE 0
              /\ finished = (body > 0)

\* However many headers, digits, chunks and trailers come: every call of
\* ParseRequest returns.
ParserReturns == <>(pc = "done")
=============================================================================
