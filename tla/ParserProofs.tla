---------------------------- MODULE ParserProofs ----------------------------
(***************************************************************************)
(* Proofs about Parser, for all limits and all lines: the body never       *)
(* exceeds its limit, chunk sizes are computed without loss, and a request *)
(* that is returned was read and scanned to its end.                       *)
(***************************************************************************)
EXTENDS Parser, FiniteSetTheorems, TLAPS

Chunked == Has("Transfer-Encoding") /\ ~Has("Content-Length")
Read0 == body = 0 /\ consumed = 0 /\ scanned = 0 /\ ~finished
Size0 == size = 0 /\ digits = 0 /\ value = 0

(***************************************************************************)
(* What is known at each place of the parser: how far the body is read and *)
(* scanned, and by which header it is framed.                              *)
(***************************************************************************)
Numbers ==
    /\ size \in Nat /\ digits \in Nat /\ value \in Nat
    /\ body \in Nat /\ consumed \in Nat /\ scanned \in Nat
    /\ finished \in BOOLEAN
Places ==
    /\ pc # "done" => result = "none"
    /\ pc \in {"requestLine", "headers"} => Read0 /\ Size0 /\ trailers = {}
    /\ pc = "body" =>
          /\ ~Has("Transfer-Encoding") /\ Has("Content-Length")
          /\ body = headers["Content-Length"] /\ body > 0
          /\ consumed <= body /\ scanned = consumed
          /\ ~finished /\ trailers = {}
    /\ pc \in {"chunkSize", "chunkEnd"} =>
          Chunked /\ consumed = body /\ scanned = body /\ trailers = {}
    /\ pc = "chunkData" => Chunked /\ trailers = {}
    /\ pc = "trailers" =>
          Chunked /\ consumed = body /\ scanned = body /\ finished

Inv == Numbers /\ Places /\ BodyBounded /\ SizeIsValue /\ BodyIsWhole

-----------------------------------------------------------------------------
\* The digit test of parseChunkSize is exact: the new size is above the
\* limit if and only if the test says so.
LEMMA DigitTest ==
    ASSUME size \in Nat, NEW d \in 0 .. 15
    PROVE  TooLarge(d) <=> size * 16 + d > MaxBody
  <1>1. MaxBody \in Nat /\ MaxBody >= 16 BY ParserAssumption
  <1> QED BY <1>1 DEF TooLarge

LEMMA InvInit == ASSUME Init PROVE Inv
  <1>1. MaxBody \in Nat BY ParserAssumption
  <1>2. Numbers BY DEF Init, Numbers
  <1>3. Places
    <2>1. pc = "requestLine" /\ result = "none" /\ trailers = {} BY DEF Init
    <2>2. Read0 BY DEF Init, Read0
    <2>3. Size0 BY DEF Init, Size0
    <2> QED BY <2>1, <2>2, <2>3 DEF Places
  <1>4. BodyBounded BY <1>1 DEF Init, BodyBounded
  <1>5. SizeIsValue BY DEF Init, SizeIsValue
  <1>6. BodyIsWhole BY DEF Init, BodyIsWhole
  <1> QED BY <1>2, <1>3, <1>4, <1>5, <1>6 DEF Inv

LEMMA InvStep == ASSUME Inv, Read PROVE Inv'
  <1> USE DEF Inv
  <1>1. ASSUME NEW l \in RequestLines, ReadRequestLine(l) PROVE Inv'
    <2>n. Numbers'
      BY <1>1 DEF Numbers, ReadRequestLine, sizeVars, bodyVars
    <2>p. Places'
      BY <1>1 DEF Numbers, Places, Chunked, Has, Read0, Size0, ReadRequestLine,
         Return, Goto, sizeVars, bodyVars
    <2>b. BodyBounded'
      BY <1>1 DEF Numbers, BodyBounded, ReadRequestLine, sizeVars, bodyVars
    <2>s. SizeIsValue'
      BY <1>1 DEF Numbers, SizeIsValue, ReadRequestLine, Return, Goto,
         sizeVars, bodyVars
    <2>w. BodyIsWhole'
      BY <1>1 DEF Numbers, Places, BodyIsWhole, Chunked, Has, Read0,
         ReadRequestLine, Return, Goto, sizeVars, bodyVars
    <2> QED BY <2>n, <2>p, <2>b, <2>s, <2>w
  <1>2. ASSUME BadLine PROVE Inv'
    <2>n. Numbers'
      BY <1>2 DEF Numbers, BadLine, sizeVars, bodyVars
    <2>p. Places'
      BY <1>2 DEF Numbers, Places, Chunked, Has, Read0, Size0, BadLine, Return,
         Goto, sizeVars, bodyVars
    <2>b. BodyBounded'
      BY <1>2 DEF Numbers, BodyBounded, BadLine, sizeVars, bodyVars
    <2>s. SizeIsValue'
      BY <1>2 DEF Numbers, SizeIsValue, BadLine, Return, Goto, sizeVars,
         bodyVars
    <2>w. BodyIsWhole'
      BY <1>2 DEF Numbers, Places, BodyIsWhole, Chunked, Has, Read0, BadLine,
         Return, Goto, sizeVars, bodyVars
    <2> QED BY <2>n, <2>p, <2>b, <2>s, <2>w
  <1>3. ASSUME TooManyHeaders PROVE Inv'
    <2>n. Numbers'
      BY <1>3 DEF Numbers, TooManyHeaders, sizeVars, bodyVars
    <2>p. Places'
      BY <1>3 DEF Numbers, Places, Chunked, Has, Read0, Size0, TooManyHeaders,
         Return, Goto, sizeVars, bodyVars
    <2>b. BodyBounded'
      BY <1>3 DEF Numbers, BodyBounded, TooManyHeaders, sizeVars, bodyVars
    <2>s. SizeIsValue'
      BY <1>3 DEF Numbers, SizeIsValue, TooManyHeaders, Return, Goto, sizeVars,
         bodyVars
    <2>w. BodyIsWhole'
      BY <1>3 DEF Numbers, Places, BodyIsWhole, Chunked, Has, Read0,
         TooManyHeaders, Return, Goto, sizeVars, bodyVars
    <2> QED BY <2>n, <2>p, <2>b, <2>s, <2>w
  <1>4. ASSUME NEW l \in HeaderLines, ReadHeader(l) PROVE Inv'
    <2>n. Numbers'
      BY <1>4 DEF Numbers, ReadHeader, sizeVars, bodyVars
    <2>p. Places'
      BY <1>4 DEF Numbers, Places, Chunked, Has, Read0, Size0, ReadHeader,
         Return, Goto, sizeVars, bodyVars
    <2>b. BodyBounded'
      BY <1>4 DEF Numbers, BodyBounded, ReadHeader, sizeVars, bodyVars
    <2>s. SizeIsValue'
      BY <1>4 DEF Numbers, SizeIsValue, ReadHeader, Return, Goto, sizeVars,
         bodyVars
    <2>w. BodyIsWhole'
      BY <1>4 DEF Numbers, Places, BodyIsWhole, Chunked, Has, Read0,
         ReadHeader, Return, Goto, sizeVars, bodyVars
    <2> QED BY <2>n, <2>p, <2>b, <2>s, <2>w
  <1>5. ASSUME EndOfHeaders PROVE Inv'
    <2>n. Numbers'
      BY <1>5 DEF Numbers, EndOfHeaders, sizeVars, bodyVars, FramingOK, Has
    <2>p. Places'
      BY <1>5 DEF Numbers, Places, Chunked, Has, Read0, Size0, EndOfHeaders,
         Return, Goto, sizeVars, bodyVars, FramingOK
    <2>b. BodyBounded'
      BY <1>5, ParserAssumption DEF Numbers, BodyBounded, EndOfHeaders,
         sizeVars, bodyVars, FramingOK, Has
    <2>s. SizeIsValue'
      BY <1>5, ParserAssumption DEF Numbers, SizeIsValue, EndOfHeaders, Return,
         Goto, sizeVars, bodyVars
    <2>w. BodyIsWhole'
      BY <1>5 DEF Numbers, Places, BodyIsWhole, Chunked, Has, Read0,
         EndOfHeaders, Return, Goto, sizeVars, bodyVars, FramingOK
    <2> QED BY <2>n, <2>p, <2>b, <2>s, <2>w
  <1>6. ASSUME NEW n \in 1 .. MaxBody, NEW hit \in BOOLEAN, ReadBody(n, hit)
         PROVE Inv'
    <2>n. Numbers'
      BY <1>6 DEF Numbers, ReadBody, sizeVars, bodyVars
    <2>p. Places'
      BY <1>6 DEF Numbers, Places, Chunked, Has, Read0, Size0, ReadBody,
         Return, Goto, sizeVars, bodyVars
    <2>b. BodyBounded'
      BY <1>6 DEF Numbers, BodyBounded, ReadBody, sizeVars, bodyVars
    <2>s. SizeIsValue'
      BY <1>6 DEF Numbers, SizeIsValue, ReadBody, Return, Goto, sizeVars,
         bodyVars
    <2>w. BodyIsWhole'
      BY <1>6 DEF Numbers, Places, BodyIsWhole, Chunked, Has, Read0, ReadBody,
         Return, Goto, sizeVars, bodyVars
    <2> QED BY <2>n, <2>p, <2>b, <2>s, <2>w
  <1>7. ASSUME NEW hit \in BOOLEAN, EndOfBody(hit) PROVE Inv'
    <2>n. Numbers'
      BY <1>7 DEF Numbers, EndOfBody, sizeVars, bodyVars
    <2>p. Places'
      BY <1>7 DEF Numbers, Places, Chunked, Has, Read0, Size0, EndOfBody,
         Return, Goto, sizeVars, bodyVars
    <2>b. BodyBounded'
      BY <1>7 DEF Numbers, BodyBounded, EndOfBody, sizeVars, bodyVars
    <2>s. SizeIsValue'
      BY <1>7 DEF Numbers, SizeIsValue, EndOfBody, Return, Goto, sizeVars,
         bodyVars
    <2>w. BodyIsWhole'
      BY <1>7 DEF Numbers, Places, BodyIsWhole, Chunked, Has, Read0, EndOfBody,
         Return, Goto, sizeVars, bodyVars
    <2> QED BY <2>n, <2>p, <2>b, <2>s, <2>w
  <1>8. ASSUME NEW d \in 0 .. 15, ChunkDigit(d) PROVE Inv'
    <2>n. Numbers'
      BY <1>8, DigitTest DEF Numbers, ChunkDigit, sizeVars, bodyVars
    <2>p. Places'
      BY <1>8 DEF Numbers, Places, Chunked, Has, Read0, Size0, ChunkDigit,
         Return, Goto, sizeVars, bodyVars
    <2>b. BodyBounded'
      BY <1>8, ParserAssumption, DigitTest DEF Numbers, BodyBounded,
         ChunkDigit, sizeVars, bodyVars
    <2>s. SizeIsValue'
      BY <1>8, ParserAssumption, DigitTest DEF Numbers, SizeIsValue,
         ChunkDigit, Return, Goto, sizeVars, bodyVars
    <2>w. BodyIsWhole'
      BY <1>8 DEF Numbers, Places, BodyIsWhole, Chunked, Has, Read0,
         ChunkDigit, Return, Goto, sizeVars, bodyVars
    <2> QED BY <2>n, <2>p, <2>b, <2>s, <2>w
  <1>9. ASSUME NEW hit \in BOOLEAN, LastChunk(hit) PROVE Inv'
    <2>n. Numbers'
      BY <1>9 DEF Numbers, LastChunk, sizeVars, bodyVars
    <2>p. Places'
      BY <1>9 DEF Numbers, Places, Chunked, Has, Read0, Size0, LastChunk,
         Return, Goto, sizeVars, bodyVars
    <2>b. BodyBounded'
      BY <1>9 DEF Numbers, BodyBounded, LastChunk, sizeVars, bodyVars
    <2>s. SizeIsValue'
      BY <1>9 DEF Numbers, SizeIsValue, LastChunk, Return, Goto, sizeVars,
         bodyVars
    <2>w. BodyIsWhole'
      BY <1>9 DEF Numbers, Places, BodyIsWhole, Chunked, Has, Read0, LastChunk,
         Return, Goto, sizeVars, bodyVars
    <2> QED BY <2>n, <2>p, <2>b, <2>s, <2>w
  <1>10. ASSUME Chunk PROVE Inv'
    <2>n. Numbers'
      BY <1>10 DEF Numbers, Chunk, sizeVars, bodyVars, OverLimit
    <2>p. Places'
      BY <1>10 DEF Numbers, Places, Chunked, Has, Read0, Size0, Chunk, Return,
         Goto, sizeVars, bodyVars, OverLimit
    <2>b. BodyBounded'
      BY <1>10, ParserAssumption DEF Numbers, BodyBounded, Chunk, sizeVars,
         bodyVars, OverLimit
    <2>s. SizeIsValue'
      BY <1>10, ParserAssumption DEF Numbers, SizeIsValue, Chunk, Return, Goto,
         sizeVars, bodyVars
    <2>w. BodyIsWhole'
      BY <1>10 DEF Numbers, Places, BodyIsWhole, Chunked, Has, Read0, Chunk,
         Return, Goto, sizeVars, bodyVars, OverLimit
    <2> QED BY <2>n, <2>p, <2>b, <2>s, <2>w
  <1>11. ASSUME NEW hit \in BOOLEAN, ReadChunk(hit) PROVE Inv'
    <2>n. Numbers'
      BY <1>11 DEF Numbers, ReadChunk, sizeVars, bodyVars
    <2>p. Places'
      BY <1>11 DEF Numbers, Places, Chunked, Has, Read0, Size0, ReadChunk,
         Return, Goto, sizeVars, bodyVars
    <2>b. BodyBounded'
      BY <1>11 DEF Numbers, BodyBounded, ReadChunk, sizeVars, bodyVars
    <2>s. SizeIsValue'
      BY <1>11 DEF Numbers, SizeIsValue, ReadChunk, Return, Goto, sizeVars,
         bodyVars
    <2>w. BodyIsWhole'
      BY <1>11 DEF Numbers, Places, BodyIsWhole, Chunked, Has, Read0,
         ReadChunk, Return, Goto, sizeVars, bodyVars
    <2> QED BY <2>n, <2>p, <2>b, <2>s, <2>w
  <1>12. ASSUME NEW ok \in BOOLEAN, ReadCRLF(ok) PROVE Inv'
    <2>n. Numbers'
      BY <1>12 DEF Numbers, ReadCRLF, sizeVars, bodyVars
    <2>p. Places'
      BY <1>12 DEF Numbers, Places, Chunked, Has, Read0, Size0, ReadCRLF,
         Return, Goto, sizeVars, bodyVars
    <2>b. BodyBounded'
      BY <1>12, ParserAssumption DEF Numbers, BodyBounded, ReadCRLF, sizeVars,
         bodyVars
    <2>s. SizeIsValue'
      BY <1>12, ParserAssumption DEF Numbers, SizeIsValue, ReadCRLF, Return,
         Goto, sizeVars, bodyVars
    <2>w. BodyIsWhole'
      BY <1>12 DEF Numbers, Places, BodyIsWhole, Chunked, Has, Read0, ReadCRLF,
         Return, Goto, sizeVars, bodyVars
    <2> QED BY <2>n, <2>p, <2>b, <2>s, <2>w
  <1>13. ASSUME TooManyTrailers PROVE Inv'
    <2>n. Numbers'
      BY <1>13 DEF Numbers, TooManyTrailers, sizeVars, bodyVars
    <2>p. Places'
      BY <1>13 DEF Numbers, Places, Chunked, Has, Read0, Size0,
         TooManyTrailers, Return, Goto, sizeVars, bodyVars
    <2>b. BodyBounded'
      BY <1>13 DEF Numbers, BodyBounded, TooManyTrailers, sizeVars, bodyVars
    <2>s. SizeIsValue'
      BY <1>13 DEF Numbers, SizeIsValue, TooManyTrailers, Return, Goto,
         sizeVars, bodyVars
    <2>w. BodyIsWhole'
      BY <1>13 DEF Numbers, Places, BodyIsWhole, Chunked, Has, Read0,
         TooManyTrailers, Return, Goto, sizeVars, bodyVars
    <2> QED BY <2>n, <2>p, <2>b, <2>s, <2>w
  <1>14. ASSUME NEW l \in HeaderLines, ReadTrailer(l) PROVE Inv'
    <2>n. Numbers'
      BY <1>14 DEF Numbers, ReadTrailer, sizeVars, bodyVars
    <2>p. Places'
      BY <1>14 DEF Numbers, Places, Chunked, Has, Read0, Size0, ReadTrailer,
         Return, Goto, sizeVars, bodyVars
    <2>b. BodyBounded'
      BY <1>14 DEF Numbers, BodyBounded, ReadTrailer, sizeVars, bodyVars
    <2>s. SizeIsValue'
      BY <1>14 DEF Numbers, SizeIsValue, ReadTrailer, Return, Goto, sizeVars,
         bodyVars
    <2>w. BodyIsWhole'
      BY <1>14 DEF Numbers, Places, BodyIsWhole, Chunked, Has, Read0,
         ReadTrailer, Return, Goto, sizeVars, bodyVars
    <2> QED BY <2>n, <2>p, <2>b, <2>s, <2>w
  <1>15. ASSUME EndOfTrailers PROVE Inv'
    <2>n. Numbers'
      BY <1>15 DEF Numbers, EndOfTrailers, sizeVars, bodyVars
    <2>p. Places'
      BY <1>15 DEF Numbers, Places, Chunked, Has, Read0, Size0, EndOfTrailers,
         Return, Goto, sizeVars, bodyVars
    <2>b. BodyBounded'
      BY <1>15 DEF Numbers, BodyBounded, EndOfTrailers, sizeVars, bodyVars
    <2>s. SizeIsValue'
      BY <1>15 DEF Numbers, SizeIsValue, EndOfTrailers, Return, Goto, sizeVars,
         bodyVars
    <2>w. BodyIsWhole'
      BY <1>15 DEF Numbers, Places, BodyIsWhole, Chunked, Has, Read0,
         EndOfTrailers, Return, Goto, sizeVars, bodyVars
    <2> QED BY <2>n, <2>p, <2>b, <2>s, <2>w
  <1>16. ASSUME NEW r \in {"eof", "bad"}, StreamEnds(r) PROVE Inv'
    <2>n. Numbers'
      BY <1>16 DEF Numbers, StreamEnds, sizeVars, bodyVars
    <2>p. Places'
      BY <1>16 DEF Numbers, Places, Chunked, Has, Read0, Size0, StreamEnds,
         Return, Goto, sizeVars, bodyVars
    <2>b. BodyBounded'
      BY <1>16 DEF Numbers, BodyBounded, StreamEnds, sizeVars, bodyVars
    <2>s. SizeIsValue'
      BY <1>16 DEF Numbers, SizeIsValue, StreamEnds, Return, Goto, sizeVars,
         bodyVars
    <2>w. BodyIsWhole'
      BY <1>16 DEF Numbers, Places, BodyIsWhole, Chunked, Has, Read0,
         StreamEnds, Return, Goto, sizeVars, bodyVars
    <2> QED BY <2>n, <2>p, <2>b, <2>s, <2>w
  <1> QED BY <1>1, <1>2, <1>3, <1>4, <1>5, <1>6, <1>7, <1>8, <1>9, <1>10,
         <1>11, <1>12, <1>13, <1>14, <1>15, <1>16 DEF Read

LEMMA InvStutter == ASSUME Inv, UNCHANGED vars PROVE Inv'
  BY DEF Inv, Numbers, Places, BodyBounded, SizeIsValue, BodyIsWhole, vars,
     Has, Chunked, Read0, Size0

-----------------------------------------------------------------------------
\* The inductive invariant holds throughout.
THEOREM Invariance == Spec => []Inv
  <1>1. Init => Inv BY InvInit
  <1>2. Inv /\ [Next]_vars => Inv'
    <2> SUFFICES ASSUME Inv, [Next]_vars PROVE Inv' OBVIOUS
    <2>1. CASE Read BY <2>1, InvStep
    <2>2. CASE UNCHANGED vars BY <2>2, InvStutter
    <2> QED BY <2>1, <2>2 DEF Next, Terminated
  <1> QED BY <1>1, <1>2, PTL DEF Spec

\* A body, in one piece or in chunks, never takes more than maxBodyBytes,
\* whatever lengths are declared.
THEOREM BodyLimit == Spec => []BodyBounded
  <1>1. Inv => BodyBounded BY DEF Inv
  <1> QED BY <1>1, Invariance, PTL

\* parseChunkSize returns the number that was sent and refuses only numbers
\* above the limit.
THEOREM ChunkSizeExact == Spec => []SizeIsValue
  <1>1. Inv => SizeIsValue BY DEF Inv
  <1> QED BY <1>1, Invariance, PTL

\* A request that ParseRequest returns was read to its end, framed in one
\* way, and its whole body scanned.
THEOREM WholeBody == Spec => []BodyIsWhole
  <1>1. Inv => BodyIsWhole BY DEF Inv
  <1> QED BY <1>1, Invariance, PTL

-----------------------------------------------------------------------------
(* The counts of headers and trailers.                                     *)

Limits ==
    /\ pc \in {"requestLine", "headers", "body", "chunkSize", "chunkData",
               "chunkEnd", "trailers", "done"}
    /\ result \in {"none", "request", "waf", "bad", "eof"}
    /\ DOMAIN headers \subseteq Names /\ IsFiniteSet(DOMAIN headers)
    /\ HeaderCount <= MaxHeaders
    /\ trailers \subseteq Names /\ IsFiniteSet(trailers)
    /\ Cardinality(trailers) <= MaxTrailers

\* A name that is added to fewer than max others.
LEMMA OneMoreName ==
    ASSUME NEW S, IsFiniteSet(S), S \subseteq Names, NEW max \in Nat,
           Cardinality(S) < max, NEW n \in Names
    PROVE  /\ IsFiniteSet(S \cup {n}) /\ S \cup {n} \subseteq Names
           /\ Cardinality(S \cup {n}) <= max
  <1>1. /\ IsFiniteSet(S \cup {n}) /\ Cardinality(S) \in Nat
        /\ Cardinality(S \cup {n}) = IF n \in S THEN Cardinality(S)
                                     ELSE Cardinality(S) + 1
    BY FS_AddElement, FS_CardinalityType
  <1> QED BY <1>1

LEMMA CanonicalName == \A l \in HeaderLines : Canonical[l.name] \in Names
  BY ParserAssumption DEF HeaderLines

LEMMA LimitsStep == ASSUME Limits, [Next]_vars PROVE Limits'
  <1>0. MaxHeaders \in Nat /\ MaxTrailers \in Nat BY ParserAssumption
  <1>1. ASSUME UNCHANGED <<headers, trailers>>,
               pc' \in {"requestLine", "headers", "body", "chunkSize",
                        "chunkData", "chunkEnd", "trailers", "done"},
               result' \in {"none", "request", "waf", "bad", "eof"}
        PROVE  Limits'
    BY <1>1 DEF Limits, HeaderCount
  <1>2. ASSUME NEW l \in HeaderLines, ReadHeader(l) PROVE Limits'
    <2> DEFINE name == Canonical[l.name]
    <2>1. CASE UNCHANGED headers
      BY <1>1, <1>2, <2>1 DEF ReadHeader, Return, Goto, Limits
    <2>2. CASE DOMAIN headers' = DOMAIN headers \cup {name}
      <3>1. name \in Names /\ Cardinality(DOMAIN headers) < MaxHeaders
        BY <1>2, CanonicalName DEF ReadHeader, HeadersLeft, HeaderCount
      <3>2. /\ IsFiniteSet(DOMAIN headers') /\ DOMAIN headers' \subseteq Names
            /\ Cardinality(DOMAIN headers') <= MaxHeaders
        BY <1>0, <2>2, <3>1, OneMoreName DEF Limits
      <3>3. /\ UNCHANGED trailers /\ pc' \in {"headers", "done"}
            /\ result' \in {result, "waf", "bad"}
        BY <1>2 DEF ReadHeader, Return, Goto
      <3> QED BY <3>2, <3>3 DEF Limits, HeaderCount
    <2> QED BY <1>2, <2>1, <2>2 DEF ReadHeader
  <1>3. ASSUME NEW l \in HeaderLines, ReadTrailer(l) PROVE Limits'
    <2> DEFINE name == Canonical[l.name]
    <2>1. CASE UNCHANGED trailers
      BY <1>1, <1>3, <2>1 DEF ReadTrailer, Return, Goto, Limits
    <2>2. CASE trailers' = trailers \cup {name}
      <3>1. name \in Names /\ Cardinality(trailers) < MaxTrailers
        BY <1>3, CanonicalName DEF ReadTrailer, TrailersLeft
      <3>2. /\ IsFiniteSet(trailers') /\ trailers' \subseteq Names
            /\ Cardinality(trailers') <= MaxTrailers
        BY <1>0, <2>2, <3>1, OneMoreName DEF Limits
      <3>3. /\ UNCHANGED headers /\ pc' \in {"trailers", "done"}
            /\ result' \in {result, "waf", "bad"}
        BY <1>3 DEF ReadTrailer, Return, Goto
      <3> QED BY <3>2, <3>3 DEF Limits, HeaderCount
    <2> QED BY <1>3, <2>1, <2>2 DEF ReadTrailer
  <1>4. ASSUME NEW l \in RequestLines, ReadRequestLine(l) PROVE Limits'
    BY <1>1, <1>4 DEF Limits, ReadRequestLine, Return, Goto
  <1>5. CASE BadLine \/ TooManyHeaders \/ TooManyTrailers \/ EndOfTrailers
    BY <1>1, <1>5 DEF BadLine, TooManyHeaders, TooManyTrailers, EndOfTrailers,
       Return
  <1>6. CASE EndOfHeaders
    BY <1>1, <1>6 DEF Limits, EndOfHeaders, Return, Goto
  <1>7. ASSUME NEW hit \in BOOLEAN,
               \/ \E n \in 1 .. MaxBody : ReadBody(n, hit)
               \/ EndOfBody(hit) \/ LastChunk(hit) \/ ReadChunk(hit)
        PROVE  Limits'
    BY <1>1, <1>7 DEF Limits, ReadBody, EndOfBody, LastChunk, ReadChunk, Return,
       Goto
  <1>8. ASSUME NEW d \in 0 .. 15, ChunkDigit(d) PROVE Limits'
    BY <1>1, <1>8 DEF Limits, ChunkDigit, Return, Goto
  <1>9. CASE Chunk
    BY <1>1, <1>9 DEF Limits, Chunk, Return, Goto
  <1>10. ASSUME NEW ok \in BOOLEAN, ReadCRLF(ok) PROVE Limits'
    BY <1>1, <1>10 DEF Limits, ReadCRLF, Return, Goto
  <1>11. ASSUME NEW r \in {"eof", "bad"}, StreamEnds(r) PROVE Limits'
    BY <1>1, <1>11 DEF StreamEnds, Return
  <1>12. CASE UNCHANGED vars
    BY <1>1, <1>12 DEF Limits, vars
  <1> QED BY <1>2, <1>3, <1>4, <1>5, <1>6, <1>7, <1>8, <1>9, <1>10, <1>11,
         <1>12 DEF Next, Read, Terminated

\* The maps of ParseRequest never pass maxHeaderCount and maxTrailerCount,
\* however many lines come: the count is tested before a line is read.
THEOREM LimitsHold == Spec => []TypeOK
  <1>1. Init => Limits
    <2> SUFFICES ASSUME Init PROVE Limits OBVIOUS
    <2>1. DOMAIN headers = {} /\ trailers = {} BY DEF Init
    <2>2. IsFiniteSet({}) /\ Cardinality({}) = 0 BY FS_EmptySet
    <2> QED BY <2>1, <2>2, ParserAssumption DEF Init, Limits, HeaderCount
  <1>2. Limits /\ [Next]_vars => Limits' BY LimitsStep
  <1>3. Inv /\ Limits => TypeOK BY DEF Inv, Numbers, Limits, TypeOK
  <1> QED BY <1>1, <1>2, <1>3, Invariance, PTL DEF Spec

=============================================================================
