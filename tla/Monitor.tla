------------------------------ MODULE Monitor -------------------------------
(***************************************************************************)
(* What the server tells about itself while it works: the atomic counters  *)
(* of core/metrics.go, the bounded list of log lines of core/logsink.go,   *)
(* and the handlers of /metrics, /api/monitor and /api/logs that read them *)
(* from inside requests that are being counted and logged themselves.      *)
(*                                                                         *)
(* A worker takes requests one after another through                       *)
(* HandleConnectionWithOptions from where ParseRequest has returned; the   *)
(* accept loop's goroutine refuses connections.  All of them answer through *)
(* ResponseWriter.write and so move the same counters of responses.  Every *)
(* atomic Add, Load and CompareAndSwap is a step.  The log package's own   *)
(* mutex is left out: a message is one line (structured entries are JSON), *)
(* so it only orders whole Adds.  Left out are the lines about a new       *)
(* connection and about a write that failed, and the counters that no      *)
(* property here is about: connections (in Server) and 3xx, which no       *)
(* handler answers with.                                                   *)
(***************************************************************************)
EXTENDS Integers, Sequences, FiniteSets

CONSTANTS Workers,      \* goroutines that serve requests
          Acceptor,     \* the goroutine of the accept loop
          MaxRequests,  \* bound on the requests and refusals of all of them
          Durations,    \* what time.Since may return, in microseconds
          LogMax,       \* LogStore.max
          LogFallback,  \* lines /api/logs returns if not told otherwise
          LogCap,       \* lines it returns at most
          Limits,       \* values of ?limit=; 0: none, or not a number
          NoWorker

ASSUME MonitorAssumption ==
    /\ IsFiniteSet(Workers) /\ Acceptor \notin Workers
    /\ NoWorker \notin Workers \cup {Acceptor}
    /\ MaxRequests \in Nat
    /\ Durations \subseteq Int
    /\ {LogMax, LogFallback, LogCap} \subseteq Nat \ {0}
    /\ Limits \subseteq Int

VARIABLES pc,       \* pc[w]: where goroutine w is
          req,      \* req[w]: the request it serves and its local variables
          m,        \* the counters
          mu,       \* holder of LogStore.mu
          entries,  \* LogStore.entries
          history,  \* every line ever added
          begun,    \* the longest duration RecordRequestDuration was given
          ended     \* ... and has returned from

vars == <<pc, req, m, mu, entries, history, begun, ended>>
logVars == <<mu, entries, history>>
maxVars == <<begun, ended>>

Threads == Workers \cup {Acceptor}

\* What is refused before it has a route, and the status it is refused with:
\* a security error and any other error of ParseRequest, a router that is
\* nil, a full queue and the rate limiter.
Refusal == [waf |-> 403, parse |-> 400, nilrouter |-> 500,
            queue |-> 503, limited |-> 429]
Refusals == DOMAIN Refusal

\* The refusals that have a counter of their own; a nil router has a request.
Rejects == {"waf", "parse", "queue", "limited"}

Routes == {"page", "post", "metrics", "logs"}
Counters == {"requests", "total", "max", "2xx", "4xx", "5xx"} \cup Rejects
PCs == {"idle", "request", "handler", "snapshot", "write", "record", "load",
        "cas", "written", "access", "refuse"}

Statuses == {0, 200, 400, 403, 405, 429, 500, 503}
Lines == {"request", "refuse", "access"} \X Statuses
Request == [route : Routes \cup Refusals, limit : Limits \cup {0}, status : Statuses,
            micros : Nat, current : Nat, loaded : Seq(Nat), tail : Seq(Lines)]
Idle == [route |-> "page", limit |-> 0, status |-> 0, micros |-> 0,
         current |-> 0, loaded |-> <<>>, tail |-> <<>>]

Init ==
    /\ pc = [w \in Threads |-> "idle"]
    /\ req = [w \in Threads |-> Idle]
    /\ m = [c \in Counters |-> 0]
    /\ mu = NoWorker
    /\ entries = <<>> /\ history = <<>>
    /\ begun = 0 /\ ended = 0

Goto(w, label) == pc' = [pc EXCEPT ![w] = label]
AtomicAdd(c, n) == m' = [m EXCEPT ![c] = @ + n]
Larger(a, b) == IF a > b THEN a ELSE b
Smaller(a, b) == IF a < b THEN a ELSE b
Last(s, n) == SubSeq(s, Len(s) - n + 1, Len(s))

-----------------------------------------------------------------------------
(* A request up to its handler, or its refusal.                            *)

\* What has come in so far.
Arrived == m["requests"] + m["waf"] + m["parse"] + m["queue"] + m["limited"]

Arrives(w, r, n) ==
    /\ pc[w] = "idle"
    /\ Arrived < MaxRequests
    /\ req' = [req EXCEPT ![w] = [Idle EXCEPT !.route = r, !.limit = n]]
    /\ AtomicAdd(IF r \in Rejects THEN r ELSE "requests", 1)
    /\ Goto(w, "request")
    /\ UNCHANGED <<logVars, maxVars>>

\* A request was parsed, or is refused by the worker that parsed it:
\* IncRequest, IncWAFBlock or IncParseReject.
Begin(w) ==
    \/ \E r \in Routes, n \in Limits : (r # "logs" => n = 0) /\ Arrives(w, r, n)
    \/ \E r \in {"waf", "parse", "nilrouter"} : Arrives(w, r, 0)

\* handleConnection refuses a connection: IncQueueReject or IncRateLimited.
Turn == \E r \in {"queue", "limited"} : Arrives(Acceptor, r, 0)

\* The router finds the route; requireMethod refuses what is not a GET.
Handle(w) ==
    /\ pc[w] = "handler"
    /\ \/ req[w].route = "metrics" /\ Goto(w, "snapshot")
       \/ req[w].route \in {"page", "post"} /\ Goto(w, "write")
    /\ UNCHANGED <<req, m, logVars, maxVars>>

\* Snapshot evaluates its loads from left to right; the average is made of
\* the total and of a second load of the number of requests.  The faulty
\* order has the divisor first.
LoadsDivisorFirst == <<"requests", "requests", "total", "max", "waf", "parse",
                       "queue", "limited", "2xx", "4xx", "5xx">>
Loads == <<"requests", "total", "requests", "max", "waf", "parse",
           "queue", "limited", "2xx", "4xx", "5xx">>

Load(w) ==
    /\ pc[w] = "snapshot"
    /\ LET loaded == Append(req[w].loaded, m[Loads[Len(req[w].loaded) + 1]])
       IN  /\ req' = [req EXCEPT ![w].loaded = loaded]
           /\ Goto(w, IF Len(loaded) = Len(Loads) THEN "write" ELSE "snapshot")
    /\ UNCHANGED <<m, logVars, maxVars>>

\* logLimit: anything that is not a positive number is the fallback.
LogLimit(n) == IF n <= 0 THEN LogFallback ELSE Smaller(n, LogCap)

\* Faulty variant of RecentLogs: the entries are copied without the lock.
RecentLogsUnlocked(w) ==
    /\ pc[w] = "handler" /\ req[w].route = "logs"
    /\ req' = [req EXCEPT ![w].tail =
                  Last(entries, Smaller(LogLimit(req[w].limit), Len(entries)))]
    /\ Goto(w, "write")
    /\ UNCHANGED <<m, logVars, maxVars>>

\* LogStore.Snapshot, under the lock.
RecentLogs(w) ==
    /\ pc[w] = "handler" /\ req[w].route = "logs"
    /\ mu = NoWorker
    /\ req' = [req EXCEPT ![w].tail =
                  Last(entries, Smaller(LogLimit(req[w].limit), Len(entries)))]
    /\ Goto(w, "write")
    /\ UNCHANGED <<m, logVars, maxVars>>

-----------------------------------------------------------------------------
(* Its response, its duration and its line in the log.                     *)

\* RecordResponse; no handler of the server answers with a 3xx.
Class(code) == CASE code \in 200 .. 299 -> "2xx"
                 [] code \in 400 .. 499 -> "4xx"
                 [] code >= 500 -> "5xx"

\* ResponseWriter.write: complete, with RecordResponse, or without a trace.
\* The handler's variables are dead after its write.
Write(w, code) ==
    \/ /\ req' = [req EXCEPT ![w] = [Idle EXCEPT !.status = code]]
       /\ AtomicAdd(Class(code), 1)
    \/ req' = [req EXCEPT ![w] = Idle] /\ UNCHANGED m

Respond(w) ==
    /\ pc[w] = "write"
    /\ Write(w, IF req[w].route = "post" THEN 405 ELSE 200)
    /\ Goto(w, "record")
    /\ UNCHANGED <<logVars, maxVars>>

\* The answer of a refusal, counted when it was written; the connection is
\* closed whether it was or not.
Refuse(w) ==
    /\ pc[w] = "refuse"
    /\ \/ AtomicAdd(Class(Refusal[req[w].route]), 1)
       \/ UNCHANGED m
    /\ req' = [req EXCEPT ![w] = Idle]
    /\ Goto(w, "idle")
    /\ UNCHANGED <<logVars, maxVars>>

\* RecordRequestDuration: the total first.
Record(w) ==
    /\ pc[w] = "record"
    /\ \E d \in Durations :
          \/ d < 0 /\ Goto(w, "written") /\ UNCHANGED <<req, m, maxVars>>
          \/ /\ d >= 0
             /\ req' = [req EXCEPT ![w].micros = d]
             /\ AtomicAdd("total", d)
             /\ Goto(w, "load")
             /\ begun' = Larger(begun, d) /\ UNCHANGED ended
    /\ UNCHANGED logVars

Returns(w) ==
    /\ Goto(w, "written")
    /\ ended' = Larger(ended, req[w].micros)
    /\ req' = [req EXCEPT ![w] = [Idle EXCEPT !.status = req[w].status]]

LoadMax(w) ==
    /\ pc[w] = "load"
    /\ \/ req[w].micros <= m["max"] /\ Returns(w)
       \/ /\ req[w].micros > m["max"]
          /\ req' = [req EXCEPT ![w].current = m["max"]]
          /\ Goto(w, "cas") /\ UNCHANGED ended
    /\ UNCHANGED <<m, begun, logVars>>

\* Faulty variants: a plain store; a retry with the value loaded before.
StoreMax(w) ==
    /\ pc[w] = "cas"
    /\ m' = [m EXCEPT !["max"] = req[w].micros]
    /\ Returns(w)
    /\ UNCHANGED <<begun, logVars>>

CompareAndSwap(w) ==
    /\ pc[w] = "cas"
    /\ \/ /\ m["max"] = req[w].current
          /\ m' = [m EXCEPT !["max"] = req[w].micros]
          /\ Returns(w)
       \/ /\ m["max"] # req[w].current
          /\ Goto(w, "load") /\ UNCHANGED <<req, m, ended>>
    /\ UNCHANGED <<begun, logVars>>

\* Faulty variant: the 500 of a request without an answer is not logged.
FallbackUnlogged(w) ==
    /\ pc[w] = "written"
    /\ IF req[w].status = 0 THEN Write(w, 500) /\ Goto(w, "idle")
                            ELSE Goto(w, "access") /\ UNCHANGED <<req, m>>
    /\ UNCHANGED <<logVars, maxVars>>

\* A handler that has not written gets a 500.
Fallback(w) ==
    /\ pc[w] = "written"
    /\ IF req[w].status = 0 THEN Write(w, 500) ELSE UNCHANGED <<req, m>>
    /\ Goto(w, "access")
    /\ UNCHANGED <<logVars, maxVars>>

(***************************************************************************)
(* log.Printf, logAccessEvent, logSecurityEvent and logParseReject: a line *)
(* reaches LogStore.Add, which appends it or, at the capacity, moves the   *)
(* others down and then stores it, all under the lock.  A refusal is       *)
(* logged before it is written.                                            *)
(***************************************************************************)
Line(w) == IF pc[w] = "access" THEN <<"access", req[w].status>>
           ELSE IF req[w].route \in Refusals
                THEN <<"refuse", Refusal[req[w].route]>>
                ELSE <<"request", 0>>
Added(w) ==
    /\ history' = Append(history, Line(w))
    /\ mu' = NoWorker
    /\ \/ /\ pc[w] = "request"
          /\ Goto(w, IF req[w].route \in Refusals THEN "refuse" ELSE "handler")
          /\ UNCHANGED req
       \/ pc[w] = "access" /\ Goto(w, "idle") /\ req' = [req EXCEPT ![w] = Idle]
    /\ UNCHANGED <<m, maxVars>>

AddAppends(w) ==
    /\ pc[w] \in {"request", "access"}
    /\ mu = NoWorker
    /\ Len(entries) < LogMax
    /\ entries' = Append(entries, Line(w))
    /\ Added(w)

AddShifts(w) ==
    /\ pc[w] \in {"request", "access"}
    /\ mu = NoWorker
    /\ Len(entries) >= LogMax
    /\ mu' = w
    /\ entries' = Append(Tail(entries), entries[Len(entries)])
    /\ UNCHANGED <<pc, req, m, history, maxVars>>

AddStores(w) ==
    /\ mu = w
    /\ entries' = [entries EXCEPT ![Len(entries)] = Line(w)]
    /\ Added(w)

-----------------------------------------------------------------------------
Step(w) ==
    \/ Handle(w) \/ Load(w) \/ RecentLogs(w) \/ Respond(w) \/ Refuse(w)
    \/ Record(w)
    \/ LoadMax(w) \/ CompareAndSwap(w) \/ Fallback(w)
    \/ AddAppends(w) \/ AddShifts(w) \/ AddStores(w)

AllDone ==
    /\ Arrived = MaxRequests
    /\ \A w \in Threads : pc[w] = "idle"
    /\ UNCHANGED vars

Next ==
    \/ \E w \in Workers : Begin(w)
    \/ Turn
    \/ \E w \in Threads : Step(w)
    \/ AllDone

\* Goroutines are scheduled; requests need not come.
Spec == Init /\ [][Next]_vars /\ \A w \in Threads : WF_vars(Step(w))

-----------------------------------------------------------------------------
(* Properties.                                                             *)

\* The type of every variable; the list of lines has its capacity.
TypeOK ==
    /\ pc \in [Threads -> PCs]
    /\ req \in [Threads -> Request]
    /\ \A w \in Threads : Len(req[w].loaded) <= Len(Loads)
    /\ m \in [Counters -> Nat]
    /\ mu \in Threads \cup {NoWorker}
    /\ entries \in Seq(Lines) /\ Len(entries) <= LogMax
    /\ history \in Seq(Lines)
    /\ begun \in Nat /\ ended \in Nat

\* However the handlers interleave, the maximum is the largest duration:
\* none whose recorder has returned is lost to a concurrent one, and with no
\* recorder inside the two are equal.
MaxIsLargest ==
    /\ ended <= m["max"] /\ m["max"] <= begun
    /\ (\A w \in Threads : pc[w] \notin {"load", "cas"}) =>
          m["max"] = begun /\ ended = begun

\* Snapshot is not atomic, but what it returns hangs together although the
\* counters move under it.  Its average is one the requests can have: the
\* total is loaded before the number it is divided by, so it is never above
\* the longest duration (it may be above the maximum reported with it, which
\* is raised after the total).  The scrape's own request is in, its own
\* answer is not, and every answer it reports belongs to a request or to a
\* refusal that was counted by its end (which may be later than the numbers
\* it reports, and refusals are not among the requests: a scrape may well
\* report more answers than requests).
ScrapeIsConsistent ==
    \A w \in Threads :
        LET s == req[w].loaded
        IN  /\ Len(s) >= 3 => s[2] <= s[3] * begun
            /\ Len(s) = Len(Loads) /\ pc[w] = "write" =>
                  /\ s[1] >= 1 /\ s[1] <= s[3]
                  /\ s[9] + s[10] + s[11] < Arrived

\* The lines kept are the newest ones in their order, and what /api/logs
\* returns was the end of the log at one moment: never a line twice, out of
\* order or with a gap, whatever was being added.
LogsAreTail ==
    /\ TypeOK
    /\ mu = NoWorker => entries = Last(history, Smaller(LogMax, Len(history)))
    /\ \A w \in Threads : req[w].tail # <<>> =>
          \E n \in 1 .. Len(history) :
              req[w].tail = Last(SubSeq(history, 1, n),
                                 Smaller(n, Smaller(LogMax,
                                                    LogLimit(req[w].limit))))

\* The counters and the log agree, fallbacks and failed writes included.
\* Every refusal that was counted gets its line.  Every answer that was
\* counted has its line in the access log with the status that was counted,
\* or it is the answer of a refusal that has a line: no class of answers is
\* below the access log, and none is above it by more than the refusals
\* logged with a status of this class (whose answers may not be written).
AnswersAreLogged ==
    /\ \A r \in Rejects :
          m[r] = Cardinality({i \in 1 .. Len(history) :
                                 history[i] = <<"refuse", Refusal[r]>>})
               + Cardinality({w \in Threads :
                                 pc[w] = "request" /\ req[w].route = r})
    /\ \A code \in {200, 405, 500} :
          LET logged == Cardinality({i \in 1 .. Len(history) :
                                        history[i] = <<"access", code>>})
                      + Cardinality({w \in Threads : req[w].status = code})
              refused == Cardinality({i \in 1 .. Len(history) :
                                         /\ history[i][1] = "refuse"
                                         /\ Class(history[i][2]) = Class(code)})
          IN  m[Class(code)] \in logged .. logged + refused

=============================================================================
