-------------------------- MODULE ConnectionProofs --------------------------
(***************************************************************************)
(* What a client can rely on: order and number of the answers, the promise *)
(* of the connection headers, the counters, for every number of requests   *)
(* per connection, of requests sent and of writes of a handler.            *)
(***************************************************************************)
EXTENDS Connection, FiniteSetTheorems, TLAPS

\* Where the handler has a request of its own in hand.
Answering == {"route", "handler", "fallback", "refuse"}

\* The loop: which request is in hand, and that a connection that will be
\* kept has a request left.
Progress ==
    /\ pc = "start" => read = 0 /\ served = 0 /\ parsed = "none" /\ out = <<>>
    /\ pc = "parse" => read = served
    /\ pc \in Answering => read = served + 1
    /\ pc \in {"handler", "fallback"} /\ keepAlive => served + 1 < MaxRequests
    /\ pc = "fallback" => ~wrote

\* What was sent and not read is in the inbox, until something else than a
\* request was read.
Received ==
    /\ pc \in {"start", "parse", "route", "handler", "fallback"} =>
          parsed \in {"none", "keep", "close"}
    /\ pc \in {"start", "parse", "route", "handler", "fallback"} =>
          sent = Len(inbox) + read
    /\ parsed \in StreamEnds => stream = parsed
    /\ parsed \in {"none", "keep", "close"} => metrics["parseRejects"] = 0
    /\ parsed = "eof" /\ sent > 0 => metrics["parseRejects"] = 0

\* The responses on the wire belong to the requests read so far, and one with
\* keep-alive says how many may follow.
Wire ==
    \A i \in 1 .. Len(out) :
        /\ out[i].req \in 1 .. read
        /\ pc \in {"route", "refuse"} => out[i].req < read
        /\ out[i].keep => out[i].max = MaxRequests - out[i].req

\* A whole response without keep-alive can only be the last one.
Kept ==
    \A i \in 1 .. Len(out) : out[i].whole =>
        /\ pc \in {"parse", "route", "refuse"} => out[i].keep
        /\ pc \in {"handler", "fallback"} =>
              IF out[i].req = read THEN wrote /\ out[i].keep = keepAlive
                                   ELSE out[i].keep

\* A whole answer to request n is on the wire.
Answered(n) == \E i \in 1 .. Len(out) : out[i].req = n /\ out[i].whole

\* No request was skipped.
NoGap ==
    /\ pc = "parse" => \A n \in 1 .. read : Answered(n)
    /\ pc \in {"route", "handler"} => \A n \in 1 .. read - 1 : Answered(n)
    /\ pc = "handler" /\ wrote => Answered(read)

\* In their order, and the last one of a request is the only whole one.
Ordered ==
    \A i, j \in 1 .. Len(out) : i < j =>
        \/ out[i].req < out[j].req
        \/ out[i].req = out[j].req /\ ~out[i].whole

\* A whole response that says close is the last one.
Final ==
    \A i, j \in 1 .. Len(out) : i < j /\ out[i].whole => out[i].keep

Rejects == metrics["wafBlocks"] + metrics["parseRejects"]
Whole == {i \in 1 .. Len(out) : out[i].whole}

\* The counters, and the gauge that is decremented once.
Counted ==
    /\ metrics["active"] = IF pc \in {"start", "close", "closed"} THEN 0 ELSE 1
    /\ metrics["responses"] = Cardinality(Whole)
    /\ Rejects <= 1
    /\ metrics["requests"] + Rejects <= read
    /\ pc \in {"start", "parse", "route", "handler", "fallback"} =>
          Rejects = 0 /\ metrics["requests"] = read

\* The inductive invariant.
Inv ==
    /\ TypeOK /\ Progress /\ Received
    /\ Wire /\ Kept /\ NoGap /\ Ordered /\ Final
    /\ Counted

-----------------------------------------------------------------------------
(* A response is appended to what is on the wire.                          *)

\* The wire after a response, element by element.
LEMMA Responded ==
    ASSUME TypeOK, NEW whole \in BOOLEAN, NEW keep \in BOOLEAN,
           keep => served + 1 < MaxRequests, Respond(whole, keep)
    PROVE  /\ out' \in Seq(Response)
           /\ Len(out) \in Nat /\ Len(out') = Len(out) + 1
           /\ \A i \in 1 .. Len(out) : out'[i] = out[i]
           /\ out'[Len(out) + 1].req = read
           /\ out'[Len(out) + 1].whole = whole
           /\ out'[Len(out) + 1].keep = keep
           /\ keep => out'[Len(out) + 1].max = MaxRequests - (served + 1)
<1> DEFINE r == [req |-> read, whole |-> whole, keep |-> keep,
                 max |-> IF keep THEN Remaining ELSE 0]
<1>1. r \in Response
  BY ConnectionAssumption DEF TypeOK, Response, Remaining
<1>2. out' = Append(out, r)
  BY DEF Respond
<1>3. /\ r.req = read /\ r.whole = whole /\ r.keep = keep
      /\ keep => r.max = MaxRequests - (served + 1)
  BY DEF Remaining
<1> HIDE DEF r
<1>4. QED
  BY <1>1, <1>2, <1>3 DEF TypeOK

\* What is counted by the responses.
LEMMA WholeFinite ==
    ASSUME TypeOK
    PROVE  IsFiniteSet(Whole) /\ Cardinality(Whole) \in Nat
<1>1. Len(out) \in Nat
  BY DEF TypeOK
<1>2. IsFiniteSet(1 .. Len(out))
  BY <1>1, FS_Interval
<1>3. QED
  BY <1>2, FS_Subset, FS_CardinalityType DEF Whole

LEMMA WholeGrows ==
    ASSUME TypeOK, NEW whole \in BOOLEAN, NEW keep \in BOOLEAN,
           keep => served + 1 < MaxRequests, Respond(whole, keep)
    PROVE  Cardinality(Whole') = Cardinality(Whole) + (IF whole THEN 1 ELSE 0)
<1> DEFINE n == Len(out) + 1
<1>0. /\ n \in Nat /\ n \notin 1 .. Len(out)
      /\ 1 .. Len(out') = 1 .. Len(out) \cup {n}
      /\ \A i \in 1 .. Len(out) : out'[i] = out[i]
      /\ out'[n].whole = whole
  BY Responded
<1> HIDE DEF n
<1>1. CASE whole
  <2>1. Whole' = Whole \cup {n} /\ n \notin Whole
    BY <1>0, <1>1, Zenon DEF Whole
  <2>2. QED
    BY <1>1, <2>1, WholeFinite, FS_AddElement
<1>2. CASE ~whole
  <2>1. Whole' = Whole
    BY <1>0, <1>2, Zenon DEF Whole
  <2>2. QED
    BY <1>2, <2>1, WholeFinite
<1>3. QED
  BY <1>1, <1>2

-----------------------------------------------------------------------------
(* Initially.                                                              *)

LEMMA InvInit ==
    ASSUME Init
    PROVE  Inv
<1>1. TypeOK
  <2>1. inbox \in Seq(Kinds) /\ out \in Seq(Response)
    BY DEF Init
  <2>2. /\ sent \in 0 .. MaxSent /\ read \in 0 .. MaxRequests
        /\ served \in 0 .. MaxRequests - 1 /\ attempts \in 0 .. MaxAttempts
        /\ metrics \in [Counters -> Nat]
    BY ConnectionAssumption DEF Init
  <2>3. QED
    BY <2>1, <2>2 DEF Init, TypeOK, PCs, Results
<1>2. out = <<>> /\ Len(out) = 0
  BY DEF Init
<1>3. Progress /\ Received
  BY <1>2 DEF Init, Progress, Received, Answering, StreamEnds, Counters
<1>4. Wire /\ Kept /\ NoGap /\ Ordered /\ Final
  BY <1>2 DEF Init, Wire, Kept, NoGap, Ordered, Final
<1>5. Counted
  <2>1. Whole = {}
    BY <1>2 DEF Whole
  <2>2. Cardinality(Whole) = 0
    BY <2>1, FS_EmptySet
  <2>3. QED
    BY <2>2 DEF Init, Counted, Rejects, Counters
<1>6. QED
  BY <1>1, <1>3, <1>4, <1>5 DEF Inv

-----------------------------------------------------------------------------
(* Every step preserves each part of the invariant.                        *)

\* The steps that write: a whole response, the beginning of one, or nothing.
LEMMA Writes ==
    ASSUME Inv, HandlerWrite \/ Fallback \/ Refuse
    PROVE  /\ \/ UNCHANGED <<out, metrics, wrote>>
              \/ \E whole, keep \in BOOLEAN :
                    /\ Respond(whole, keep)
                    /\ pc \in {"handler", "fallback"} =>
                          ~wrote /\ wrote' = whole /\ keep = keepAlive
                    /\ pc = "refuse" => ~keep /\ UNCHANGED wrote
                    /\ keep => served + 1 < MaxRequests
                    /\ metrics' = IF whole THEN Inc(metrics, {"responses"})
                                           ELSE metrics
           /\ \/ HandlerWrite /\ UNCHANGED <<pc, keepAlive>> /\ pc = "handler"
              \/ pc \in {"fallback", "refuse"} /\ pc' = "uncount"
           /\ UNCHANGED <<parsed, read, served>> /\ UNCHANGED inputVars
           /\ attempts' \in 0 .. MaxAttempts /\ keepAlive' \in BOOLEAN
<1> USE DEF Inv
<1>1. CASE HandlerWrite
  <2>1. keepAlive \in BOOLEAN /\ (keepAlive => served + 1 < MaxRequests)
    BY <1>1 DEF HandlerWrite, TypeOK, Progress
  <2>2. attempts' \in 0 .. MaxAttempts
    BY <1>1, ConnectionAssumption DEF HandlerWrite, TypeOK
  <2>3. CASE Respond(TRUE, keepAlive) /\ ~wrote /\ wrote' = TRUE
              /\ metrics' = Inc(metrics, {"responses"})
    BY <1>1, <2>1, <2>2, <2>3 DEF HandlerWrite
  <2>4. CASE Respond(FALSE, keepAlive) /\ ~wrote /\ UNCHANGED <<wrote, metrics>>
    <3>1. wrote' = FALSE
      BY <2>4 DEF TypeOK
    <3>2. QED
      BY <1>1, <2>1, <2>2, <2>4, <3>1 DEF HandlerWrite
  <2>5. CASE UNCHANGED <<wrote, out, metrics>>
    BY <1>1, <2>1, <2>2, <2>5 DEF HandlerWrite
  <2>6. QED
    BY <1>1, <2>3, <2>4, <2>5 DEF HandlerWrite, Write
<1>2. CASE Fallback
  <2>1. keepAlive \in BOOLEAN /\ (keepAlive => served + 1 < MaxRequests)
    BY <1>2 DEF Fallback, TypeOK, Progress
  <2>2. attempts' \in 0 .. MaxAttempts
    BY <1>2 DEF Fallback, TypeOK
  <2>3. CASE Respond(TRUE, keepAlive) /\ ~wrote /\ wrote' = TRUE
              /\ metrics' = Inc(metrics, {"responses"})
    BY <1>2, <2>1, <2>2, <2>3 DEF Fallback
  <2>4. CASE Respond(FALSE, keepAlive) /\ ~wrote /\ UNCHANGED <<wrote, metrics>>
    <3>1. wrote' = FALSE
      BY <2>4 DEF TypeOK
    <3>2. QED
      BY <1>2, <2>1, <2>2, <2>4, <3>1 DEF Fallback
  <2>5. CASE UNCHANGED <<wrote, out, metrics>>
    BY <1>2, <2>1, <2>2, <2>5 DEF Fallback
  <2>6. QED
    BY <1>2, <2>3, <2>4, <2>5 DEF Fallback, Write
<1>3. CASE Refuse
  BY <1>3 DEF Refuse, TypeOK
<1>4. QED
  BY <1>1, <1>2, <1>3

\* A response was appended by the writer of the request in hand, and what it
\* said.
Appended(whole, keep) ==
    /\ pc \in {"handler", "fallback", "refuse"} /\ read = served + 1
    /\ UNCHANGED <<read, served>>
    /\ pc' = "uncount" \/ (pc = "handler" /\ UNCHANGED <<pc, keepAlive>>)
    /\ Len(out) \in Nat /\ Len(out') = Len(out) + 1
    /\ \A i \in 1 .. Len(out) : out'[i] = out[i]
    /\ out'[Len(out) + 1].req = read
    /\ out'[Len(out) + 1].whole = whole
    /\ out'[Len(out) + 1].keep = keep
    /\ keep => out'[Len(out) + 1].max = MaxRequests - (served + 1)
    /\ pc \in {"handler", "fallback"} =>
          ~wrote /\ wrote' = whole /\ keep = keepAlive

LEMMA Written ==
    ASSUME Inv, HandlerWrite \/ Fallback \/ Refuse
    PROVE  \/ UNCHANGED <<out, wrote>>
           \/ \E whole, keep \in BOOLEAN : Appended(whole, keep)
<1>1. CASE UNCHANGED <<out, metrics, wrote>>
  BY <1>1
<1>2. CASE ~UNCHANGED <<out, metrics, wrote>>
  <2>1. PICK whole, keep \in BOOLEAN :
           /\ Respond(whole, keep)
           /\ pc \in {"handler", "fallback"} =>
                 ~wrote /\ wrote' = whole /\ keep = keepAlive
           /\ keep => served + 1 < MaxRequests
    BY <1>2, Writes
  <2>2. /\ UNCHANGED <<read, served>>
        /\ pc' = "uncount" \/ (pc = "handler" /\ UNCHANGED <<pc, keepAlive>>)
        /\ pc \in {"handler", "fallback", "refuse"} /\ read = served + 1
    BY Writes DEF HandlerWrite, Fallback, Refuse, Inv, Progress, Answering
  <2>3. Appended(whole, keep)
    BY <2>1, <2>2, Responded DEF Appended, Inv
  <2>4. QED
    BY <2>3
<1>3. QED
  BY <1>1, <1>2

\* No whole response to the request in hand is on the wire before.
LEMMA FirstWhole ==
    ASSUME Inv, NEW whole, NEW keep, Appended(whole, keep),
           NEW i \in 1 .. Len(out)
    PROVE  /\ out[i].req \in Nat /\ read \in Nat /\ out[i].req <= read
           /\ out[i].whole => out[i].req < read /\ out[i].keep
  BY DEF Appended, Inv, TypeOK, Wire, Kept

LEMMA TypeStep ==
    ASSUME Inv, [Next]_vars
    PROVE  TypeOK'
<1> USE ConnectionAssumption
        DEF Inv, TypeOK, inputVars, writerVars, PCs, Results, Kinds, StreamEnds
<1>1. CASE \E k \in Kinds : ClientSend(k)
  BY <1>1 DEF ClientSend
<1>2. CASE \E how \in StreamEnds : ClientEnd(how)
  BY <1>2 DEF ClientEnd
<1>3. CASE Start
  BY <1>3 DEF Start, Inc
<1>4. CASE DeadlineFails
  BY <1>4 DEF DeadlineFails
<1>5. CASE ParseRequest
  <2>1. /\ inbox' \in Seq(Kinds) /\ parsed' \in Kinds /\ read' \in 0 .. MaxRequests
        /\ pc' \in PCs
    BY <1>5 DEF ParseRequest, Progress
  <2>2. metrics' \in [Counters -> Nat]
    BY <1>5 DEF ParseRequest, Inc
  <2>3. QED
    BY <1>5, <2>1, <2>2 DEF ParseRequest
<1>6. CASE ParseEnd
  BY <1>6 DEF ParseEnd, Progress, Inc
<1>7. CASE ParseTimeout
  BY <1>7 DEF ParseTimeout, Progress, Inc
<1>8. CASE Route
  <2>1. keepAlive' \in BOOLEAN
    <3>1. ShouldKeepAlive(parsed) \in BOOLEAN
      BY Zenon DEF ShouldKeepAlive
    <3>2. QED
      BY <1>8, <3>1 DEF Route
  <2>2. pc' \in {"refuse", "handler"} /\ wrote' \in BOOLEAN
    BY <1>8, Zenon DEF Route
  <2>3. attempts' \in 0 .. MaxAttempts
    BY <1>8 DEF Route
  <2>4. UNCHANGED <<args, inbox, sent, stream, parsed, read, served, out, metrics>>
    BY <1>8 DEF Route
  <2>5. QED
    BY <2>1, <2>2, <2>3, <2>4
<1>9. CASE HandlerWrite \/ Fallback \/ Refuse
  <2>1. out' \in Seq(Response) /\ metrics' \in [Counters -> Nat]
        /\ wrote' \in BOOLEAN
    <3>1. CASE UNCHANGED <<out, metrics, wrote>>
      BY <3>1
    <3>2. CASE ~UNCHANGED <<out, metrics, wrote>>
      <4>1. PICK whole, keep \in BOOLEAN :
               /\ Respond(whole, keep)
               /\ wrote' \in BOOLEAN
               /\ keep => served + 1 < MaxRequests
               /\ metrics' = IF whole THEN Inc(metrics, {"responses"})
                                      ELSE metrics
        BY <1>9, <3>2, Writes
      <4>2. out' \in Seq(Response)
        BY <4>1, Responded
      <4>3. QED
        BY <4>1, <4>2 DEF Inc
    <3>3. QED
      BY <3>1, <3>2
  <2>2. QED
    BY <1>9, <2>1, Writes
<1>10. CASE HandlerReturn
  BY <1>10 DEF HandlerReturn, Progress
<1>11. CASE Uncount
  <2>1. metrics["active"] = 1
    BY <1>11 DEF Uncount, Counted
  <2>2. QED
    BY <1>11, <2>1 DEF Uncount, Counters
<1>12. CASE Close
  BY <1>12 DEF Close
<1>13. CASE Terminated \/ UNCHANGED vars
  BY <1>13 DEF Terminated, vars
<1>14. QED
  BY <1>1, <1>2, <1>3, <1>4, <1>5, <1>6, <1>7, <1>8, <1>9, <1>10, <1>11,
     <1>12, <1>13 DEF Next, ServerStep

LEMMA ProgressStep ==
    ASSUME Inv, [Next]_vars
    PROVE  Progress'
<1> USE ConnectionAssumption
        DEF Inv, TypeOK, inputVars, writerVars, Progress, Answering
<1>1. CASE \E k \in Kinds : ClientSend(k)
  BY <1>1 DEF ClientSend
<1>2. CASE \E how \in StreamEnds : ClientEnd(how)
  BY <1>2 DEF ClientEnd
<1>3. CASE Start
  BY <1>3 DEF Start
<1>4. CASE DeadlineFails
  BY <1>4 DEF DeadlineFails
<1>5. CASE ParseRequest
  BY <1>5 DEF ParseRequest
<1>6. CASE ParseEnd
  BY <1>6 DEF ParseEnd
<1>7. CASE ParseTimeout
  BY <1>7 DEF ParseTimeout
<1>8. CASE Route
  BY <1>8 DEF Route, ShouldKeepAlive
<1>9. CASE HandlerWrite \/ Fallback \/ Refuse
  BY <1>9, Writes
<1>10. CASE HandlerReturn
  BY <1>10 DEF HandlerReturn
<1>11. CASE Uncount
  BY <1>11 DEF Uncount
<1>12. CASE Close
  BY <1>12 DEF Close
<1>13. CASE Terminated \/ UNCHANGED vars
  BY <1>13 DEF Terminated, vars
<1>14. QED
  BY <1>1, <1>2, <1>3, <1>4, <1>5, <1>6, <1>7, <1>8, <1>9, <1>10, <1>11,
     <1>12, <1>13 DEF Next, ServerStep

LEMMA ReceivedStep ==
    ASSUME Inv, [Next]_vars
    PROVE  Received'
<1> USE ConnectionAssumption
        DEF Inv, TypeOK, inputVars, writerVars, Received, Kinds, StreamEnds
<1>1. CASE \E k \in Kinds : ClientSend(k)
  BY <1>1 DEF ClientSend
<1>2. CASE \E how \in StreamEnds : ClientEnd(how)
  BY <1>2 DEF ClientEnd
<1>3. CASE Start
  BY <1>3 DEF Start, Inc, Counters
<1>4. CASE DeadlineFails
  BY <1>4 DEF DeadlineFails
<1>5. CASE ParseRequest
  BY <1>5 DEF ParseRequest, Inc, Counters
<1>6. CASE ParseEnd
  BY <1>6 DEF ParseEnd, Inc, Counters, Progress
<1>7. CASE ParseTimeout
  BY <1>7 DEF ParseTimeout, Inc, Counters
<1>8. CASE Route
  BY <1>8 DEF Route
<1>9. CASE HandlerWrite \/ Fallback \/ Refuse
  BY <1>9, Writes DEF Inc, Counters
<1>10. CASE HandlerReturn
  BY <1>10 DEF HandlerReturn
<1>11. CASE Uncount
  BY <1>11 DEF Uncount, Counters
<1>12. CASE Close
  BY <1>12 DEF Close
<1>13. CASE Terminated \/ UNCHANGED vars
  BY <1>13 DEF Terminated, vars
<1>14. QED
  BY <1>1, <1>2, <1>3, <1>4, <1>5, <1>6, <1>7, <1>8, <1>9, <1>10, <1>11,
     <1>12, <1>13 DEF Next, ServerStep

LEMMA WireStep ==
    ASSUME Inv, [Next]_vars
    PROVE  Wire'
<1> USE ConnectionAssumption
        DEF Inv, TypeOK, inputVars, writerVars, Progress, Wire
<1>1. CASE \E k \in Kinds : ClientSend(k)
  BY <1>1 DEF ClientSend
<1>2. CASE \E how \in StreamEnds : ClientEnd(how)
  BY <1>2 DEF ClientEnd
<1>3. CASE Start
  BY <1>3 DEF Start
<1>4. CASE DeadlineFails
  BY <1>4 DEF DeadlineFails
<1>5. CASE ParseRequest
  BY <1>5 DEF ParseRequest
<1>6. CASE ParseEnd
  BY <1>6 DEF ParseEnd
<1>7. CASE ParseTimeout
  BY <1>7 DEF ParseTimeout
<1>8. CASE Route
  BY <1>8 DEF Route
<1>9. CASE HandlerWrite \/ Fallback \/ Refuse
  <2>1. CASE UNCHANGED <<out, wrote>>
    BY <1>9, <2>1, Writes
  <2>2. ASSUME NEW whole \in BOOLEAN, NEW keep \in BOOLEAN,
               Appended(whole, keep)
        PROVE  Wire'
    BY <2>2 DEF Appended
  <2>3. QED
    BY <1>9, <2>1, <2>2, Written
<1>10. CASE HandlerReturn
  BY <1>10 DEF HandlerReturn
<1>11. CASE Uncount
  BY <1>11 DEF Uncount
<1>12. CASE Close
  BY <1>12 DEF Close
<1>13. CASE Terminated \/ UNCHANGED vars
  BY <1>13 DEF Terminated, vars
<1>14. QED
  BY <1>1, <1>2, <1>3, <1>4, <1>5, <1>6, <1>7, <1>8, <1>9, <1>10, <1>11,
     <1>12, <1>13 DEF Next, ServerStep

LEMMA KeptStep ==
    ASSUME Inv, [Next]_vars
    PROVE  Kept'
<1> USE ConnectionAssumption
        DEF Inv, TypeOK, inputVars, writerVars, Progress, Wire, Kept
<1>1. CASE \E k \in Kinds : ClientSend(k)
  BY <1>1 DEF ClientSend
<1>2. CASE \E how \in StreamEnds : ClientEnd(how)
  BY <1>2 DEF ClientEnd
<1>3. CASE Start
  BY <1>3 DEF Start
<1>4. CASE DeadlineFails
  BY <1>4 DEF DeadlineFails
<1>5. CASE ParseRequest
  BY <1>5 DEF ParseRequest
<1>6. CASE ParseEnd
  BY <1>6 DEF ParseEnd
<1>7. CASE ParseTimeout
  BY <1>7 DEF ParseTimeout
<1>8. CASE Route
  BY <1>8 DEF Route
<1>9. CASE HandlerWrite \/ Fallback \/ Refuse
  <2>1. CASE UNCHANGED <<out, wrote>>
    BY <1>9, <2>1, Writes
  <2>2. ASSUME NEW whole \in BOOLEAN, NEW keep \in BOOLEAN,
               Appended(whole, keep)
        PROVE  Kept'
    <3>1. SUFFICES ASSUME pc' = "handler", NEW i \in 1 .. Len(out) + 1,
                          out'[i].whole
                   PROVE  IF out'[i].req = read THEN wrote' /\ out'[i].keep = keepAlive
                                                ELSE out'[i].keep
      BY <2>2 DEF Appended
    <3>2. CASE i \in 1 .. Len(out)
      BY <2>2, <3>1, <3>2, FirstWhole DEF Appended
    <3>3. CASE i = Len(out) + 1
      BY <2>2, <3>1, <3>3, Zenon DEF Appended
    <3>4. QED
      BY <2>2, <3>2, <3>3 DEF Appended
  <2>3. QED
    BY <1>9, <2>1, <2>2, Written
<1>10. CASE HandlerReturn
  BY <1>10 DEF HandlerReturn
<1>11. CASE Uncount
  BY <1>11 DEF Uncount
<1>12. CASE Close
  BY <1>12 DEF Close
<1>13. CASE Terminated \/ UNCHANGED vars
  BY <1>13 DEF Terminated, vars
<1>14. QED
  BY <1>1, <1>2, <1>3, <1>4, <1>5, <1>6, <1>7, <1>8, <1>9, <1>10, <1>11,
     <1>12, <1>13 DEF Next, ServerStep

LEMMA NoGapStep ==
    ASSUME Inv, [Next]_vars
    PROVE  NoGap'
<1> USE ConnectionAssumption
        DEF Inv, TypeOK, inputVars, writerVars, Progress, NoGap
<1>1. CASE \E k \in Kinds : ClientSend(k)
  BY <1>1 DEF ClientSend, Answered
<1>2. CASE \E how \in StreamEnds : ClientEnd(how)
  BY <1>2 DEF ClientEnd, Answered
<1>3. CASE Start
  BY <1>3 DEF Start, Answered
<1>4. CASE DeadlineFails
  BY <1>4 DEF DeadlineFails, Answered
<1>5. CASE ParseRequest
  BY <1>5 DEF ParseRequest, Answered
<1>6. CASE ParseEnd
  BY <1>6 DEF ParseEnd, Answered
<1>7. CASE ParseTimeout
  BY <1>7 DEF ParseTimeout, Answered
<1>8. CASE Route
  BY <1>8 DEF Route, Answered
<1>9. CASE HandlerWrite \/ Fallback \/ Refuse
  <2>1. CASE UNCHANGED <<out, wrote>>
    <3>1. \A n : Answered(n) <=> Answered(n)'
      BY <2>1 DEF Answered
    <3>2. QED
      BY <1>9, <2>1, <3>1, Writes
  <2>2. ASSUME NEW whole \in BOOLEAN, NEW keep \in BOOLEAN,
               Appended(whole, keep)
        PROVE  NoGap'
    <3>1. \A n : Answered(n) => Answered(n)'
      BY <2>2 DEF Appended, Answered
    <3>2. whole => Answered(read)'
      <4>1. Len(out) + 1 \in 1 .. Len(out')
        BY <2>2 DEF Appended
      <4>2. QED
        BY <2>2, <4>1, Zenon DEF Appended, Answered
    <3>3. QED
      BY <2>2, <3>1, <3>2 DEF Appended
  <2>3. QED
    BY <1>9, <2>1, <2>2, Written
<1>10. CASE HandlerReturn
  <2>1. \A n : Answered(n) <=> Answered(n)'
    BY <1>10 DEF HandlerReturn, Answered
  <2>2. QED
    BY <1>10, <2>1 DEF HandlerReturn
<1>11. CASE Uncount
  BY <1>11 DEF Uncount, Answered
<1>12. CASE Close
  BY <1>12 DEF Close, Answered
<1>13. CASE Terminated \/ UNCHANGED vars
  <2>1. \A n : Answered(n) <=> Answered(n)'
    BY <1>13 DEF Terminated, vars, Answered
  <2>2. QED
    BY <1>13, <2>1 DEF Terminated, vars
<1>14. QED
  BY <1>1, <1>2, <1>3, <1>4, <1>5, <1>6, <1>7, <1>8, <1>9, <1>10, <1>11,
     <1>12, <1>13 DEF Next, ServerStep

LEMMA OrderedStep ==
    ASSUME Inv, [Next]_vars
    PROVE  Ordered'
<1> USE ConnectionAssumption
        DEF Inv, TypeOK, inputVars, writerVars, Ordered
<1>1. CASE \E k \in Kinds : ClientSend(k)
  BY <1>1 DEF ClientSend
<1>2. CASE \E how \in StreamEnds : ClientEnd(how)
  BY <1>2 DEF ClientEnd
<1>3. CASE Start
  BY <1>3 DEF Start
<1>4. CASE DeadlineFails
  BY <1>4 DEF DeadlineFails
<1>5. CASE ParseRequest
  BY <1>5 DEF ParseRequest
<1>6. CASE ParseEnd
  BY <1>6 DEF ParseEnd
<1>7. CASE ParseTimeout
  BY <1>7 DEF ParseTimeout
<1>8. CASE Route
  BY <1>8 DEF Route
<1>9. CASE HandlerWrite \/ Fallback \/ Refuse
  <2>1. CASE UNCHANGED <<out, wrote>>
    BY <1>9, <2>1, Writes
  <2>2. ASSUME NEW whole \in BOOLEAN, NEW keep \in BOOLEAN,
               Appended(whole, keep)
        PROVE  Ordered'
    <3>1. SUFFICES ASSUME NEW i \in 1 .. Len(out) + 1,
                          NEW j \in 1 .. Len(out) + 1, i < j
                   PROVE  \/ out'[i].req < out'[j].req
                          \/ out'[i].req = out'[j].req /\ ~out'[i].whole
      BY <2>2 DEF Appended
    <3>2. CASE j \in 1 .. Len(out)
      BY <2>2, <3>1, <3>2 DEF Appended
    <3>3. CASE j = Len(out) + 1
      <4>1. i \in 1 .. Len(out) /\ out'[i] = out[i] /\ out'[j].req = read
        BY <2>2, <3>1, <3>3 DEF Appended
      <4>2. /\ out[i].req \in Nat /\ read \in Nat /\ out[i].req <= read
            /\ out[i].whole => out[i].req < read
        BY <2>2, <4>1, FirstWhole
      <4>3. QED
        BY <4>1, <4>2
    <3>4. QED
      BY <3>2, <3>3
  <2>3. QED
    BY <1>9, <2>1, <2>2, Written
<1>10. CASE HandlerReturn
  BY <1>10 DEF HandlerReturn
<1>11. CASE Uncount
  BY <1>11 DEF Uncount
<1>12. CASE Close
  BY <1>12 DEF Close
<1>13. CASE Terminated \/ UNCHANGED vars
  BY <1>13 DEF Terminated, vars
<1>14. QED
  BY <1>1, <1>2, <1>3, <1>4, <1>5, <1>6, <1>7, <1>8, <1>9, <1>10, <1>11,
     <1>12, <1>13 DEF Next, ServerStep

LEMMA FinalStep ==
    ASSUME Inv, [Next]_vars
    PROVE  Final'
<1> USE ConnectionAssumption
        DEF Inv, TypeOK, inputVars, writerVars, Kept, Final
<1>1. CASE \E k \in Kinds : ClientSend(k)
  BY <1>1 DEF ClientSend
<1>2. CASE \E how \in StreamEnds : ClientEnd(how)
  BY <1>2 DEF ClientEnd
<1>3. CASE Start
  BY <1>3 DEF Start
<1>4. CASE DeadlineFails
  BY <1>4 DEF DeadlineFails
<1>5. CASE ParseRequest
  BY <1>5 DEF ParseRequest
<1>6. CASE ParseEnd
  BY <1>6 DEF ParseEnd
<1>7. CASE ParseTimeout
  BY <1>7 DEF ParseTimeout
<1>8. CASE Route
  BY <1>8 DEF Route
<1>9. CASE HandlerWrite \/ Fallback \/ Refuse
  <2>1. CASE UNCHANGED <<out, wrote>>
    BY <1>9, <2>1, Writes
  <2>2. ASSUME NEW whole \in BOOLEAN, NEW keep \in BOOLEAN,
               Appended(whole, keep)
        PROVE  Final'
    BY <2>2, FirstWhole DEF Appended
  <2>3. QED
    BY <1>9, <2>1, <2>2, Written
<1>10. CASE HandlerReturn
  BY <1>10 DEF HandlerReturn
<1>11. CASE Uncount
  BY <1>11 DEF Uncount
<1>12. CASE Close
  BY <1>12 DEF Close
<1>13. CASE Terminated \/ UNCHANGED vars
  BY <1>13 DEF Terminated, vars
<1>14. QED
  BY <1>1, <1>2, <1>3, <1>4, <1>5, <1>6, <1>7, <1>8, <1>9, <1>10, <1>11,
     <1>12, <1>13 DEF Next, ServerStep

LEMMA CountedStep ==
    ASSUME Inv, [Next]_vars
    PROVE  Counted'
<1> USE ConnectionAssumption DEF inputVars, writerVars
<1>0. /\ TypeOK /\ Counted /\ Cardinality(Whole) \in Nat
      /\ \A x \in Counters : metrics[x] \in Nat
  BY WholeFinite DEF Inv, TypeOK
<1>1. CASE UNCHANGED <<pc, out, read, metrics>>
  BY <1>0, <1>1 DEF Counted, Whole, Rejects
<1>2. CASE Start
  <2>1. Whole' = Whole
    BY <1>2 DEF Start, Whole
  <2>2. QED
    BY <1>0, <1>2, <2>1 DEF Start, Counted, Rejects, Inc, Counters
<1>3. CASE DeadlineFails
  <2>1. Whole' = Whole
    BY <1>3 DEF DeadlineFails, Whole
  <2>2. QED
    BY <1>0, <1>3, <2>1 DEF DeadlineFails, Counted, Rejects, TypeOK
<1>4. CASE ParseRequest
  <2>1. Whole' = Whole
    BY <1>4 DEF ParseRequest, Whole
  <2>2. QED
    BY <1>0, <1>4, <2>1 DEF ParseRequest, Counted, Rejects, Inc, Counters, TypeOK
<1>5. CASE ParseEnd
  <2>1. Whole' = Whole
    BY <1>5 DEF ParseEnd, Whole
  <2>2. QED
    BY <1>0, <1>5, <2>1 DEF ParseEnd, Counted, Rejects, Inc, Counters, TypeOK
<1>6. CASE ParseTimeout
  <2>1. Whole' = Whole
    BY <1>6 DEF ParseTimeout, Whole
  <2>2. QED
    BY <1>0, <1>6, <2>1 DEF ParseTimeout, Counted, Rejects, Inc, Counters, TypeOK
<1>7. CASE Route
  <2>1. Whole' = Whole
    BY <1>7 DEF Route, Whole
  <2>2. QED
    BY <1>0, <1>7, <2>1 DEF Route, Counted, Rejects
<1>8. CASE HandlerReturn
  <2>1. Whole' = Whole
    BY <1>8 DEF HandlerReturn, Whole
  <2>2. QED
    BY <1>0, <1>8, <2>1 DEF HandlerReturn, Counted, Rejects
<1>9. CASE HandlerWrite \/ Fallback \/ Refuse
  <2>0. /\ pc \in {"handler", "fallback", "refuse"} /\ read' = read
        /\ pc' = pc \/ pc' = "uncount"
    BY <1>9, Writes DEF HandlerWrite, Fallback, Refuse
  <2>1. CASE UNCHANGED <<out, metrics, wrote>>
    BY <1>0, <2>0, <2>1 DEF Counted, Whole, Rejects
  <2>2. ASSUME NEW whole \in BOOLEAN, NEW keep \in BOOLEAN,
               Respond(whole, keep), keep => served + 1 < MaxRequests,
               metrics' = IF whole THEN Inc(metrics, {"responses"}) ELSE metrics
        PROVE  Counted'
    <3>1. Cardinality(Whole') = Cardinality(Whole) + (IF whole THEN 1 ELSE 0)
      BY <1>0, <2>2, WholeGrows
    <3>2. QED
      BY <1>0, <2>0, <2>2, <3>1 DEF Counted, Rejects, Inc, Counters
  <2>3. QED
    BY <1>9, <2>1, <2>2, Writes
<1>10. CASE Uncount
  <2>1. Whole' = Whole
    BY <1>10 DEF Uncount, Whole
  <2>2. QED
    BY <1>0, <1>10, <2>1 DEF Uncount, Counted, Rejects, Counters, TypeOK
<1>11. CASE Close
  <2>1. Whole' = Whole
    BY <1>11 DEF Close, Whole
  <2>2. QED
    BY <1>0, <1>11, <2>1 DEF Close, Counted, Rejects
<1>12. QED
  BY <1>1, <1>2, <1>3, <1>4, <1>5, <1>6, <1>7, <1>8, <1>9, <1>10, <1>11
     DEF Next, ServerStep, ClientSend, ClientEnd, Terminated, vars

-----------------------------------------------------------------------------
(* The theorems.                                                           *)

\* The invariant holds in every state of HandleConnectionWithOptions, for
\* every limit on the requests of a connection.
THEOREM Invariance == Spec => []Inv
<1>1. Init => Inv
  BY InvInit
<1>2. Inv /\ [Next]_vars => Inv'
  BY TypeStep, ProgressStep, ReceivedStep, WireStep, KeptStep, NoGapStep,
     OrderedStep, FinalStep, CountedStep DEF Inv
<1>3. QED
  BY <1>1, <1>2, PTL DEF Spec

\* However requests are pipelined, however often a handler writes and
\* whichever conn.Write fails, the client finds the answers in the order of
\* its requests, at most one whole answer to each, and none skipped.
THEOREM AnswersMatch == Spec => []OneAnswerInOrder
<1>1. Inv => OneAnswerInOrder
  BY DEF Inv, Ordered, NoGap, Answered, OneAnswerInOrder
<1>2. QED
  BY <1>1, Invariance, PTL

\* Nothing follows a whole response with Connection: close, and at most N
\* responses follow Keep-Alive: max=N, whatever options.MaxRequests is.
THEOREM PromisesHold == Spec => []PromisesAreKept
<1>1. ASSUME Inv PROVE PromisesAreKept
  <2>1. SUFFICES ASSUME NEW i \in 1 .. Len(out), NEW j \in 1 .. Len(out), i < j
                 PROVE  /\ out[i].whole => out[i].keep
                        /\ out[i].keep => out[j].req - out[i].req <= out[i].max
    BY DEF PromisesAreKept
  <2>2. out[i].whole => out[i].keep
    BY <1>1, <2>1 DEF Inv, Final
  <2>3. /\ out[i].req \in 1 .. read /\ out[j].req \in 1 .. read
        /\ out[i].keep => out[i].max = MaxRequests - out[i].req
        /\ read \in 0 .. MaxRequests
    BY <1>1 DEF Inv, Wire, TypeOK
  <2>4. QED
    BY <2>2, <2>3, ConnectionAssumption
<1>2. QED
  BY <1>1, Invariance, PTL

\* The counters of core.Metrics are what happened on the wire: one response
\* for each complete write, one reject at most, every other request counted.
THEOREM CountersHold == Spec => []CountersAreTrue
<1>1. Inv => CountersAreTrue
  BY DEF Inv, Counted, Rejects, Whole, CountersAreTrue
<1>2. QED
  BY <1>1, Invariance, PTL

\* A client that sends well-formed requests in time and closes between two of
\* them is not counted as malformed, however many requests it sent.
THEOREM PoliteClientHolds == Spec => []PoliteClientIsNotRejected
<1>1. Inv => PoliteClientIsNotRejected
  BY DEF Inv, Received, PoliteClientIsNotRejected
<1>2. QED
  BY <1>1, Invariance, PTL
=============================================================================
