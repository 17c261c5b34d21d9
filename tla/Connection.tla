----------------------------- MODULE Connection -----------------------------
(***************************************************************************)
(* One connection: HandleConnectionWithOptions of core/connection.go, the  *)
(* ResponseWriter of core/response.go and the router that runs a handler.  *)
(*                                                                         *)
(* A request is what parsing it leads to: "keep" and "close" are well      *)
(* formed, without and with the token close in the Connection header,      *)
(* "waf" matches a rule and "bad" is malformed.  What is written to the    *)
(* socket is the sequence `out' of responses, whole or cut short.          *)
(***************************************************************************)
EXTENDS Naturals, Sequences, FiniteSets

CONSTANTS MaxRequests,  \* options.MaxRequestsPerConnection
          MaxSent,      \* bound on the requests the client sends
          MaxAttempts   \* bound on the writes a handler tries

\* Values that are not positive are replaced by defaults on entry.
ASSUME ConnectionAssumption ==
    /\ MaxRequests \in Nat \ {0}
    /\ MaxSent \in Nat
    /\ MaxAttempts \in Nat

VARIABLES pc,
          args,       \* what the handler was called with
          inbox,      \* requests sent and not yet parsed
          sent,       \* how many were sent
          stream,     \* the client's side of the connection
          parsed,     \* what the last ParseRequest returned
          read,       \* number of the request being answered
          served,     \* loop counter
          keepAlive,  \* shouldKeepAlive for that request
          wrote,      \* writer.wrote
          attempts,   \* writes the handler has tried
          out,        \* responses on the wire
          metrics     \* counters of core.Metrics this module moves

vars == <<pc, args, inbox, sent, stream, parsed, read, served, keepAlive,
          wrote, attempts, out, metrics>>
inputVars == <<args, inbox, sent, stream>>
writerVars == <<wrote, attempts, out>>

Kinds == {"keep", "close", "waf", "bad"}

(***************************************************************************)
(* A client that stops sending closes the stream between requests          *)
(* ("eof"), inside one where the parser returns io.EOF or wraps it, as at  *)
(* the end of a line ("eofInside"), or inside one where it returns another *)
(* error, as in the middle of a line ("cut").                              *)
(***************************************************************************)
StreamEnds == {"eof", "eofInside", "cut"}
Results == Kinds \cup StreamEnds \cup {"none", "timeout"}
PCs == {"start", "parse", "route", "handler", "fallback", "refuse",
        "uncount", "close", "closed"}
Counters == {"active", "requests", "wafBlocks", "parseRejects", "responses"}
Response == [req : Nat, whole : BOOLEAN, keep : BOOLEAN, max : Nat]

Args == [disableKeepAlive : BOOLEAN,  \* options.DisableKeepAlive
         router : BOOLEAN]            \* router # nil

Inc(m, s) == [x \in Counters |-> IF x \in s THEN m[x] + 1 ELSE m[x]]

Init ==
    /\ pc = "start"
    /\ args \in Args
    /\ inbox = <<>>
    /\ sent = 0
    /\ stream = "open"
    /\ parsed = "none"
    /\ read = 0
    /\ served = 0
    /\ keepAlive = FALSE
    /\ wrote = FALSE
    /\ attempts = 0
    /\ out = <<>>
    /\ metrics = [m \in Counters |-> 0]

-----------------------------------------------------------------------------
(* The client.                                                             *)

ClientSend(k) ==
    /\ pc # "closed"
    /\ stream = "open"
    /\ sent < MaxSent
    /\ inbox' = Append(inbox, k)
    /\ sent' = sent + 1
    /\ UNCHANGED <<pc, args, stream, parsed, read, served, keepAlive, metrics>>
    /\ UNCHANGED writerVars

ClientEnd(how) ==
    /\ pc # "closed"
    /\ stream = "open"
    /\ stream' = how
    /\ UNCHANGED <<pc, args, inbox, sent, parsed, read, served, keepAlive,
                   metrics>>
    /\ UNCHANGED writerVars

-----------------------------------------------------------------------------
(* HandleConnectionWithOptions up to the router.                           *)

\* Entry: IncActiveConnection, the reader, served := 0.
Start ==
    /\ pc = "start"
    /\ pc' = "parse"
    /\ metrics' = Inc(metrics, {"active"})
    /\ UNCHANGED <<parsed, read, served, keepAlive>>
    /\ UNCHANGED inputVars /\ UNCHANGED writerVars

\* SetReadDeadline fails.
DeadlineFails ==
    /\ pc = "parse"
    /\ pc' = "uncount"
    /\ UNCHANGED <<parsed, read, served, keepAlive, metrics>>
    /\ UNCHANGED inputVars /\ UNCHANGED writerVars

\* ParseRequest returns a request, or the error of a whole request.
ParseRequest ==
    /\ pc = "parse"
    /\ inbox # <<>>
    /\ inbox' = Tail(inbox)
    /\ parsed' = Head(inbox)
    /\ read' = read + 1
    /\ \/ /\ Head(inbox) \in {"keep", "close"}
          /\ pc' = "route"
          /\ metrics' = Inc(metrics, {"requests"})
       \/ /\ Head(inbox) = "waf"
          /\ pc' = "refuse"
          /\ metrics' = Inc(metrics, {"wafBlocks"})
       \/ /\ Head(inbox) = "bad"
          /\ pc' = "refuse"
          /\ metrics' = Inc(metrics, {"parseRejects"})
    /\ UNCHANGED <<args, sent, stream, served, keepAlive>>
    /\ UNCHANGED writerVars

\* Faulty variant of ParseEnd: the end of a connection that was served is
\* taken for a malformed request.
ParseEndRejects ==
    /\ pc = "parse"
    /\ inbox = <<>>
    /\ stream \in StreamEnds
    /\ parsed' = stream
    /\ read' = read + 1
    /\ pc' = "refuse"
    /\ metrics' = Inc(metrics, {"parseRejects"})
    /\ UNCHANGED <<served, keepAlive>>
    /\ UNCHANGED inputVars /\ UNCHANGED writerVars

\* ParseRequest comes to the end of the stream.  The end is silent only if
\* the error is io.EOF and a request was served before.
ParseEnd ==
    /\ pc = "parse"
    /\ inbox = <<>>
    /\ stream \in StreamEnds
    /\ parsed' = stream
    /\ read' = read + 1
    /\ IF stream \in {"eof", "eofInside"} /\ served > 0
       THEN pc' = "uncount" /\ UNCHANGED metrics
       ELSE pc' = "refuse" /\ metrics' = Inc(metrics, {"parseRejects"})
    /\ UNCHANGED <<served, keepAlive>>
    /\ UNCHANGED inputVars /\ UNCHANGED writerVars

\* Faulty variant of ParseTimeout: no read deadline is set.
ParseTimeoutMissing == FALSE

\* The read deadline passes before a whole request is in (it may be on its
\* way), or the read fails for another reason than the end of the stream.
ParseTimeout ==
    /\ pc = "parse"
    /\ parsed' = "timeout"
    /\ read' = read + 1
    /\ pc' = "refuse"
    /\ metrics' = Inc(metrics, {"parseRejects"})
    /\ UNCHANGED <<served, keepAlive>>
    /\ UNCHANGED inputVars /\ UNCHANGED writerVars

\* Faulty variant: the request being answered is counted twice in the number
\* announced.
RemainingOffByOne == MaxRequests - (served + 2)

\* shouldKeepAlive(req, options, remainingRequests).
Remaining == MaxRequests - (served + 1)
ShouldKeepAlive(kind) ==
    ~args.disableKeepAlive /\ MaxRequests > served + 1 /\ kind # "close"

\* A router that is nil is answered with 500 at once; otherwise the writer
\* for this request is made and the router called.
Route ==
    /\ pc = "route"
    /\ \/ ~args.router /\ pc' = "refuse" /\ UNCHANGED keepAlive
       \/ /\ args.router
          /\ pc' = "handler"
          /\ keepAlive' = ShouldKeepAlive(parsed)
    /\ wrote' = FALSE
    /\ attempts' = 0
    /\ UNCHANGED <<parsed, read, served, out, metrics>>
    /\ UNCHANGED inputVars

-----------------------------------------------------------------------------
\* What one conn.Write puts on the wire, all of it or the beginning.
Respond(whole, keep) ==
    out' = Append(out, [req |-> read, whole |-> whole, keep |-> keep,
                        max |-> IF keep THEN Remaining ELSE 0])

\* Faulty variants of Write: `wrote' is not looked at; a response is counted
\* as soon as a byte of it is out.
WriteAgain(keep) ==
    \/ wrote' = TRUE /\ Respond(TRUE, keep)
       /\ metrics' = Inc(metrics, {"responses"})
    \/ UNCHANGED <<wrote, out, metrics>>
WriteCountsPartial(keep) ==
    \/ ~wrote /\ wrote' \in BOOLEAN /\ Respond(wrote', keep)
       /\ metrics' = Inc(metrics, {"responses"})
    \/ UNCHANGED <<wrote, out, metrics>>

(***************************************************************************)
(* ResponseWriter.write with the given keep-alive option: nothing if this  *)
(* writer has written; otherwise all of the response reaches the socket,   *)
(* or the deadline or an error stops it before or after the first byte.    *)
(* Only a complete write sets `wrote' and is counted.                      *)
(***************************************************************************)
Write(keep) ==
    \/ ~wrote /\ wrote' = TRUE /\ Respond(TRUE, keep)
       /\ metrics' = Inc(metrics, {"responses"})
    \/ ~wrote /\ Respond(FALSE, keep) /\ UNCHANGED <<wrote, metrics>>
    \/ UNCHANGED <<wrote, out, metrics>>

\* The router or a handler calls WriteText or WriteBytes.
HandlerWrite ==
    /\ pc = "handler"
    /\ attempts < MaxAttempts
    /\ attempts' = attempts + 1
    /\ Write(keepAlive)
    /\ UNCHANGED <<pc, parsed, read, served, keepAlive>>
    /\ UNCHANGED inputVars

\* The handler returns: if nothing was written there is a fallback, else the
\* loop goes round or ends.
HandlerReturn ==
    /\ pc = "handler"
    /\ \/ ~wrote /\ pc' = "fallback" /\ UNCHANGED served
       \/ wrote /\ keepAlive /\ pc' = "parse" /\ served' = served + 1
       \/ wrote /\ ~keepAlive /\ pc' = "uncount" /\ UNCHANGED served
    /\ UNCHANGED <<parsed, read, keepAlive, metrics>>
    /\ UNCHANGED inputVars /\ UNCHANGED writerVars

\* The 500 goes through the request's own writer; then keepAlive = false.
Fallback ==
    /\ pc = "fallback"
    /\ Write(keepAlive)
    /\ keepAlive' = FALSE
    /\ pc' = "uncount"
    /\ UNCHANGED <<parsed, read, served, attempts>>
    /\ UNCHANGED inputVars

\* writeErrorResponseWithOptions: a new writer without keep-alive.
Refuse ==
    /\ pc = "refuse"
    /\ \/ Respond(TRUE, FALSE) /\ metrics' = Inc(metrics, {"responses"})
       \/ Respond(FALSE, FALSE) /\ UNCHANGED metrics
       \/ UNCHANGED <<out, metrics>>
    /\ pc' = "uncount"
    /\ UNCHANGED <<parsed, read, served, keepAlive, wrote, attempts>>
    /\ UNCHANGED inputVars

\* The deferred calls, last one first.
Uncount ==
    /\ pc = "uncount"
    /\ metrics' = [metrics EXCEPT !["active"] = @ - 1]
    /\ pc' = "close"
    /\ UNCHANGED <<parsed, read, served, keepAlive>>
    /\ UNCHANGED inputVars /\ UNCHANGED writerVars

Close ==
    /\ pc = "close"
    /\ pc' = "closed"
    /\ UNCHANGED <<parsed, read, served, keepAlive, metrics>>
    /\ UNCHANGED inputVars /\ UNCHANGED writerVars

-----------------------------------------------------------------------------
ServerStep ==
    \/ Start \/ DeadlineFails \/ ParseRequest \/ ParseEnd \/ ParseTimeout
    \/ Route \/ HandlerWrite \/ HandlerReturn \/ Fallback \/ Refuse
    \/ Uncount \/ Close

Terminated == pc = "closed" /\ UNCHANGED vars

Next ==
    \/ \E k \in Kinds : ClientSend(k)
    \/ \E how \in StreamEnds : ClientEnd(how)
    \/ ServerStep
    \/ Terminated

\* The worker runs, every read has a deadline and handlers return.  A failed
\* SetReadDeadline is not counted on.
Fairness ==
    /\ WF_vars(Start \/ ParseRequest \/ ParseEnd \/ ParseTimeout \/ Route)
    /\ WF_vars(HandlerWrite \/ HandlerReturn \/ Fallback \/ Refuse)
    /\ WF_vars(Uncount \/ Close)

Spec == Init /\ [][Next]_vars /\ Fairness

-----------------------------------------------------------------------------
(* Properties.                                                             *)

TypeOK ==
    /\ pc \in PCs
    /\ args \in Args
    /\ inbox \in Seq(Kinds)
    /\ sent \in 0 .. MaxSent
    /\ stream \in StreamEnds \cup {"open"}
    /\ parsed \in Results
    /\ read \in 0 .. MaxRequests
    /\ served \in 0 .. MaxRequests - 1
    /\ keepAlive \in BOOLEAN
    /\ wrote \in BOOLEAN
    /\ attempts \in 0 .. MaxAttempts
    /\ out \in Seq(Response)
    /\ metrics \in [Counters -> Nat]

\* A client can match responses to requests: they are on the wire in the
\* order of the requests, no request is answered by two whole responses,
\* and none is skipped while the connection is kept: pipelined requests,
\* handlers that write twice and failed writes included.
OneAnswerInOrder ==
    /\ \A i, j \in 1 .. Len(out) : i < j =>
          \/ out[i].req < out[j].req
          \/ out[i].req = out[j].req /\ ~out[i].whole
    /\ pc = "parse" =>
          \A n \in 1 .. read :
              \E i \in 1 .. Len(out) : out[i].req = n /\ out[i].whole

\* What the connection headers promise is kept: a whole response that says
\* Connection: close is the last one on the wire, and after Keep-Alive: max=N
\* at most N more follow, so that no connection gets more than MaxRequests.
PromisesAreKept ==
    \A i, j \in 1 .. Len(out) : i < j =>
        /\ out[i].whole => out[i].keep
        /\ out[i].keep => out[j].req - out[i].req <= out[i].max

\* The state is well formed, and the response counter is the number of whole
\* responses on the wire, whatever writes failed; a connection is rejected
\* once at most, and the requests counted are those read and not rejected.
CountersAreTrue ==
    LET rejects == metrics["wafBlocks"] + metrics["parseRejects"]
        whole == {i \in 1 .. Len(out) : out[i].whole}
    IN  /\ TypeOK
        /\ metrics["responses"] = Cardinality(whole)
        /\ rejects <= 1
        /\ metrics["requests"] + rejects <= read
        /\ pc \in {"parse", "route", "handler", "fallback"} =>
              rejects = 0 /\ metrics["requests"] = read

\* A client that sends requests that parse, in time, and then closes between
\* two of them is never counted or answered as a malformed request.
PoliteClientIsNotRejected ==
    sent > 0 /\ parsed \in {"none", "keep", "close", "eof"}
        => metrics["parseRejects"] = 0

\* The connection ends whatever the client does, also if it sends nothing or
\* stops in the middle: no worker is held for ever.
AlwaysCloses == <>(pc = "closed")

\* core/response.go:87 refuses a second write of a writer with "response
\* already written": a response cut short would be the last of its request.
\* The flag is set by complete writes only and the fallback writes again.
OneResponsePerWriter ==
    \A i, j \in 1 .. Len(out) : i < j => out[i].req < out[j].req
=============================================================================
