------------------------------- MODULE Server -------------------------------
(***************************************************************************)
(* The process of cmd/server/main.go: the accept loop (run, serve,         *)
(* handleConnection, enqueueJob), the bounded jobs channel, the worker     *)
(* pool of pool/pool.go and graceful shutdown.                             *)
(*                                                                         *)
(* Goroutines: the main one (run -> serve -> select), the one that closes  *)
(* the listener when the context is cancelled, the one that runs           *)
(* WorkerPool.Stop, and the workers.  A worker's                           *)
(* HandleConnectionWithOptions is reduced to what the rest of the process  *)
(* sees of it: it takes the connection, counts it active, serves a bounded *)
(* number of requests, uncounts it and closes it.  Module Connection has   *)
(* the detail.                                                             *)
(***************************************************************************)
EXTENDS Naturals, Sequences, FiniteSets

CONSTANTS Conns,             \* the TCP connections clients may open
          Workers,           \* the goroutines of StartWorkerPool
          JobQueueSize,      \* capacity of the jobs channel
          MaxKeepAlive,      \* requests served on one connection at most
          RateLimitEnabled,  \* cfg.RateLimitEnabled
          NoConn             \* no connection

\* config.envInt falls back to a positive default for anything not positive.
ASSUME ServerAssumption ==
    /\ IsFiniteSet(Conns)
    /\ IsFiniteSet(Workers) /\ Workers # {}
    /\ JobQueueSize \in Nat \ {0}
    /\ MaxKeepAlive \in Nat \ {0}
    /\ RateLimitEnabled \in BOOLEAN
    /\ NoConn \notin Conns

VARIABLES main,        \* where the main goroutine is
          cur,         \* the connection handleConnection works on
          ctxDone,     \* SIGINT or SIGTERM has cancelled the context
          listening,   \* the listener is open
          conn,        \* conn[c]: the state of the TCP connection
          jobs,        \* the buffered channel
          jobsClosed,  \* close(p.jobs) was called
          stopper,     \* the goroutine that runs workers.Stop()
          wpc,         \* wpc[w]: where worker w is
          wconn,       \* wconn[w]: the connection of w's job
          served,      \* served[w]: requests answered on that connection
          metrics      \* the counters of core.Metrics this module moves

vars == <<main, cur, ctxDone, listening, conn, jobs, jobsClosed, stopper,
          wpc, wconn, served, metrics>>
mainVars   == <<main, cur>>
poolVars   == <<jobs, jobsClosed, wpc, wconn, served>>

(***************************************************************************)
(* "run" is run() before the listener exists, "select" its wait for the    *)
(* workers; "accept" to "refuse503" are inside serve().                    *)
(***************************************************************************)
MainStates == {"run", "accept", "admit", "enqueue", "refuse429", "refuse503",
               "served", "select", "returned", "timedOut", "failed", "exited"}
ConnStates == {"new", "backlog", "open", "closed", "reset"}
WorkerStates == {"off", "receive", "entry", "serving", "closing", "exited"}
Counters == {"accepted", "active", "rateLimited", "queueRejects",
             "refused4xx", "refused5xx"}

Init ==
    /\ main = "run"
    /\ cur = NoConn
    /\ ctxDone = FALSE
    /\ listening = FALSE
    /\ conn = [c \in Conns |-> "new"]
    /\ jobs = <<>>
    /\ jobsClosed = FALSE
    /\ stopper = "none"
    /\ wpc = [w \in Workers |-> "off"]
    /\ wconn = [w \in Workers |-> NoConn]
    /\ served = [w \in Workers |-> 0]
    /\ metrics = [m \in Counters |-> 0]

Add(m, n) == metrics' = [metrics EXCEPT ![m] = @ + n]

-----------------------------------------------------------------------------
(***************************************************************************)
(* Faulty variants: actions below, each with one plausible fault.  Spec    *)
(* does not use them; they show that the properties can fail.              *)
(***************************************************************************)

\* The queue timeout drops the connection without closing it.
EnqueueTimeoutDrops ==
    /\ main = "enqueue"
    /\ main' = "accept"
    /\ cur' = NoConn
    /\ Add("queueRejects", 1)
    /\ UNCHANGED <<ctxDone, listening, conn, stopper>>
    /\ UNCHANGED poolVars

\* The queue timeout is counted as a rate limit.
EnqueueTimeoutMiscounted ==
    /\ main = "enqueue"
    /\ main' = "refuse503"
    /\ Add("rateLimited", 1)
    /\ UNCHANGED <<cur, ctxDone, listening, conn, stopper>>
    /\ UNCHANGED poolVars

\* The ctx.Done() case closes the connection and returns false.
EnqueueCancelledFalse ==
    /\ main = "enqueue"
    /\ ctxDone
    /\ conn' = [conn EXCEPT ![cur] = "closed"]
    /\ main' = "refuse503"
    /\ Add("queueRejects", 1)
    /\ UNCHANGED <<cur, ctxDone, listening, stopper>>
    /\ UNCHANGED poolVars

\* The goroutine that waits for the signal also stops the pool.
CloseListenerAndJobs ==
    /\ ctxDone
    /\ listening
    /\ listening' = FALSE
    /\ jobsClosed' = TRUE
    /\ conn' = [c \in Conns |-> IF conn[c] = "backlog" THEN "reset"
                                                        ELSE conn[c]]
    /\ UNCHANGED <<main, cur, ctxDone, stopper, metrics, jobs, wpc, wconn,
                   served>>

\* run() waits for the workers without a limit.
ReturnTimeoutMissing == FALSE

\* Stop() does not wait for the workers.
StopWithoutWait ==
    /\ main # "exited"
    /\ stopper = "wait"
    /\ stopper' = "done"
    /\ UNCHANGED <<main, cur, ctxDone, listening, conn, metrics>>
    /\ UNCHANGED poolVars

\* Keep-alive without a limit: the counter wraps round.
KeepServingForever(w) ==
    /\ wpc[w] = "serving"
    /\ served' = [served EXCEPT ![w] = (@ + 1) % MaxKeepAlive]
    /\ UNCHANGED <<main, cur, ctxDone, listening, conn, jobs, jobsClosed,
                   stopper, wpc, wconn, metrics>>

\* An early return that misses the deferred DecActiveConnection.
EndConnStillActive(w) ==
    /\ wpc[w] = "serving"
    /\ wpc' = [wpc EXCEPT ![w] = "closing"]
    /\ UNCHANGED <<main, cur, ctxDone, listening, conn, jobs, jobsClosed,
                   stopper, wconn, served, metrics>>

-----------------------------------------------------------------------------
(* The environment: clients and signals.                                   *)

Connect(c) ==
    /\ listening
    /\ conn[c] = "new"
    /\ conn' = [conn EXCEPT ![c] = "backlog"]
    /\ UNCHANGED <<main, cur, ctxDone, listening, stopper, metrics>>
    /\ UNCHANGED poolVars

Signal ==
    /\ main # "exited"
    /\ ~ctxDone
    /\ ctxDone' = TRUE
    /\ UNCHANGED <<main, cur, listening, conn, stopper, metrics>>
    /\ UNCHANGED poolVars

-----------------------------------------------------------------------------
(* The main goroutine.                                                     *)

\* run(): TLS half configured, or listen() fails.
StartFails ==
    /\ main = "run"
    /\ main' = "failed"
    /\ UNCHANGED <<cur, ctxDone, listening, conn, stopper, metrics>>
    /\ UNCHANGED poolVars

\* run(): the listener, the channel and the workers are created.
Start ==
    /\ main = "run"
    /\ main' = "accept"
    /\ listening' = TRUE
    /\ wpc' = [w \in Workers |-> "receive"]
    /\ UNCHANGED <<cur, ctxDone, conn, jobs, jobsClosed, stopper, wconn,
                   served, metrics>>

\* serve(): Accept returns a connection.
Accept(c) ==
    /\ main = "accept"
    /\ listening
    /\ conn[c] = "backlog"
    /\ conn' = [conn EXCEPT ![c] = "open"]
    /\ cur' = c
    /\ main' = "admit"
    /\ Add("accepted", 1)
    /\ UNCHANGED <<ctxDone, listening, stopper>>
    /\ UNCHANGED poolVars

\* serve(): Accept fails because the listener is closed, or fails for any
\* reason once the context is cancelled.  (An Accept error at any other time
\* is logged and the loop goes round: a stuttering step.)
ServeReturns ==
    /\ main = "accept"
    /\ ~listening \/ ctxDone
    /\ main' = "served"
    /\ UNCHANGED <<cur, ctxDone, listening, conn, stopper, metrics>>
    /\ UNCHANGED poolVars

\* handleConnection(): no limiter, or limiter.Allow says yes.
Admit ==
    /\ main = "admit"
    /\ main' = "enqueue"
    /\ UNCHANGED <<cur, ctxDone, listening, conn, stopper, metrics>>
    /\ UNCHANGED poolVars

\* handleConnection(): limiter.Allow says no.
RateLimit ==
    /\ main = "admit"
    /\ RateLimitEnabled
    /\ main' = "refuse429"
    /\ Add("rateLimited", 1)
    /\ UNCHANGED <<cur, ctxDone, listening, conn, stopper>>
    /\ UNCHANGED poolVars

\* enqueueJob(): the select sends the job.
EnqueueSend ==
    /\ main = "enqueue"
    /\ Len(jobs) < JobQueueSize
    /\ jobs' = Append(jobs, cur)
    /\ main' = "accept"
    /\ cur' = NoConn
    /\ UNCHANGED <<ctxDone, listening, conn, jobsClosed, stopper, wpc, wconn,
                   served, metrics>>

\* enqueueJob(): the select takes the timer, and handleConnection counts the
\* refusal.  A select with several ready cases takes any of them.
EnqueueTimeout ==
    /\ main = "enqueue"
    /\ main' = "refuse503"
    /\ Add("queueRejects", 1)
    /\ UNCHANGED <<cur, ctxDone, listening, conn, stopper>>
    /\ UNCHANGED poolVars

\* enqueueJob(): the select takes ctx.Done() and closes the connection.
EnqueueCancelled ==
    /\ main = "enqueue"
    /\ ctxDone
    /\ conn' = [conn EXCEPT ![cur] = "closed"]
    /\ main' = "accept"
    /\ cur' = NoConn
    /\ UNCHANGED <<ctxDone, listening, stopper, metrics>>
    /\ UNCHANGED poolVars

\* handleConnection(): the 429 or 503 is written (and counted) or the write
\* fails; the connection is closed either way.
Refuse ==
    /\ main \in {"refuse429", "refuse503"}
    /\ \E n \in {0, 1} :
          Add(IF main = "refuse429" THEN "refused4xx" ELSE "refused5xx", n)
    /\ conn' = [conn EXCEPT ![cur] = "closed"]
    /\ main' = "accept"
    /\ cur' = NoConn
    /\ UNCHANGED <<ctxDone, listening, stopper>>
    /\ UNCHANGED poolVars

\* run(): serve has returned; the goroutine that stops the pool is started.
SpawnStopper ==
    /\ main = "served"
    /\ main' = "select"
    /\ stopper' = "close"
    /\ UNCHANGED <<cur, ctxDone, listening, conn, metrics>>
    /\ UNCHANGED poolVars

\* run(): the select sees `stopped' closed and run returns nil.  The deferred
\* l.Close() comes with the return.
ReturnNil ==
    /\ main = "select"
    /\ stopper = "done"
    /\ main' = "returned"
    /\ listening' = FALSE
    /\ conn' = [c \in Conns |-> IF conn[c] = "backlog" THEN "reset"
                                                        ELSE conn[c]]
    /\ UNCHANGED <<cur, ctxDone, stopper, metrics>>
    /\ UNCHANGED poolVars

\* run(): the shutdown timer fires first and run returns an error.
ReturnTimeout ==
    /\ main = "select"
    /\ main' = "timedOut"
    /\ listening' = FALSE
    /\ conn' = [c \in Conns |-> IF conn[c] = "backlog" THEN "reset"
                                                        ELSE conn[c]]
    /\ UNCHANGED <<cur, ctxDone, stopper, metrics>>
    /\ UNCHANGED poolVars

\* main() ends, or calls log.Fatal: every goroutine disappears and the
\* operating system drops what is still open.
Exit ==
    /\ main \in {"returned", "timedOut", "failed"}
    /\ main' = "exited"
    /\ jobs' = <<>>
    /\ wpc' = [w \in Workers |-> "off"]
    /\ conn' = [c \in Conns |-> IF conn[c] = "open" THEN "reset" ELSE conn[c]]
    /\ UNCHANGED <<cur, ctxDone, listening, jobsClosed, stopper, wconn,
                   served, metrics>>

-----------------------------------------------------------------------------
(* The goroutine of run() that closes the listener on cancellation.        *)

CloseListener ==
    /\ ctxDone
    /\ listening
    /\ listening' = FALSE
    /\ conn' = [c \in Conns |-> IF conn[c] = "backlog" THEN "reset"
                                                        ELSE conn[c]]
    /\ UNCHANGED <<main, cur, ctxDone, stopper, metrics>>
    /\ UNCHANGED poolVars

(* WorkerPool.Stop(): close(p.jobs), then p.wg.Wait().                     *)

StopClose ==
    /\ main # "exited"
    /\ stopper = "close"
    /\ jobsClosed' = TRUE
    /\ stopper' = "wait"
    /\ UNCHANGED <<main, cur, ctxDone, listening, conn, jobs, wpc, wconn,
                   served, metrics>>

StopWait ==
    /\ main # "exited"
    /\ stopper = "wait"
    /\ \A w \in Workers : wpc[w] = "exited"
    /\ stopper' = "done"
    /\ UNCHANGED <<main, cur, ctxDone, listening, conn, metrics>>
    /\ UNCHANGED poolVars

-----------------------------------------------------------------------------
(* A worker: `for job := range jobs { HandleConnectionWithOptions(...) }'. *)

Receive(w) ==
    /\ wpc[w] = "receive"
    /\ jobs # <<>>
    /\ wconn' = [wconn EXCEPT ![w] = Head(jobs)]
    /\ jobs' = Tail(jobs)
    /\ wpc' = [wpc EXCEPT ![w] = "entry"]
    /\ UNCHANGED <<main, cur, ctxDone, listening, conn, jobsClosed, stopper,
                   served, metrics>>

\* The channel is closed and empty: the range ends and wg.Done() runs.
WorkerExit(w) ==
    /\ wpc[w] = "receive"
    /\ jobs = <<>>
    /\ jobsClosed
    /\ wpc' = [wpc EXCEPT ![w] = "exited"]
    /\ UNCHANGED <<main, cur, ctxDone, listening, conn, jobs, jobsClosed,
                   stopper, wconn, served, metrics>>

\* HandleConnectionWithOptions: IncActiveConnection.
BeginConn(w) ==
    /\ wpc[w] = "entry"
    /\ wpc' = [wpc EXCEPT ![w] = "serving"]
    /\ served' = [served EXCEPT ![w] = 0]
    /\ Add("active", 1)
    /\ UNCHANGED <<main, cur, ctxDone, listening, conn, jobs, jobsClosed,
                   stopper, wconn>>

\* One turn of its loop that keeps the connection: there must be requests
\* left after this one.
KeepServing(w) ==
    /\ wpc[w] = "serving"
    /\ MaxKeepAlive - served[w] - 1 > 0
    /\ served' = [served EXCEPT ![w] = @ + 1]
    /\ UNCHANGED <<main, cur, ctxDone, listening, conn, jobs, jobsClosed,
                   stopper, wpc, wconn, metrics>>

\* Any return from the loop: the deferred DecActiveConnection runs first.
EndConn(w) ==
    /\ wpc[w] = "serving"
    /\ wpc' = [wpc EXCEPT ![w] = "closing"]
    /\ metrics' = [metrics EXCEPT !["active"] = @ - 1]
    /\ UNCHANGED <<main, cur, ctxDone, listening, conn, jobs, jobsClosed,
                   stopper, wconn, served>>

\* ... then the deferred conn.Close(), and the worker ranges on.
CloseConn(w) ==
    /\ wpc[w] = "closing"
    /\ conn' = [conn EXCEPT ![wconn[w]] = "closed"]
    /\ wpc' = [wpc EXCEPT ![w] = "receive"]
    /\ UNCHANGED <<main, cur, ctxDone, listening, jobs, jobsClosed, stopper,
                   wconn, served, metrics>>

-----------------------------------------------------------------------------
Terminated == main = "exited" /\ UNCHANGED vars

ServeLoop ==
    \/ \E c \in Conns : Accept(c)
    \/ ServeReturns \/ Admit \/ RateLimit
    \/ EnqueueSend \/ EnqueueTimeout \/ EnqueueCancelled \/ Refuse

MainStep ==
    \/ StartFails \/ Start \/ ServeLoop
    \/ SpawnStopper \/ ReturnNil \/ Exit

WorkerStep(w) ==
    \/ Receive(w) \/ WorkerExit(w) \/ BeginConn(w)
    \/ KeepServing(w) \/ EndConn(w) \/ CloseConn(w)

Next ==
    \/ \E c \in Conns : Connect(c)
    \/ Signal
    \/ MainStep \/ ReturnTimeout
    \/ CloseListener \/ StopClose \/ StopWait
    \/ \E w \in Workers : WorkerStep(w)
    \/ Terminated

(***************************************************************************)
(* The main goroutine and the one that waits for the signal are scheduled, *)
(* and the enqueue timer fires.  Clients and signals owe nothing.  The     *)
(* rest is for the liveness properties to assume, each what it needs.      *)
(***************************************************************************)
Refusing == main \in {"refuse429", "refuse503"}

Fairness ==
    /\ WF_vars(~Refusing /\ MainStep)
    /\ WF_vars(CloseListener)

Spec == Init /\ [][Next]_vars /\ Fairness

\* The write of a refusal ends.  On a TCP listener its write deadline sees to
\* that; on a TLS one it first runs the handshake, which reads from the client
\* without a deadline.
RefusalsEnd == WF_vars(Refuse)

\* No handler hangs: its reads and writes have deadlines.
WorkersRun ==
    /\ WF_vars(StopClose \/ StopWait)
    /\ \A w \in Workers : WF_vars(WorkerStep(w))

\* The shutdown timer fires.
TimerFires == WF_vars(ReturnTimeout)

-----------------------------------------------------------------------------
(* Properties.                                                             *)

\* Every variable has its type; the channel never holds more than its
\* capacity.
TypeOK ==
    /\ main \in MainStates
    /\ cur \in Conns \cup {NoConn}
    /\ ctxDone \in BOOLEAN
    /\ listening \in BOOLEAN
    /\ conn \in [Conns -> ConnStates]
    /\ jobs \in Seq(Conns)
    /\ Len(jobs) <= JobQueueSize
    /\ jobsClosed \in BOOLEAN
    /\ stopper \in {"none", "close", "wait", "done"}
    /\ wpc \in [Workers -> WorkerStates]
    /\ wconn \in [Workers -> Conns \cup {NoConn}]
    /\ served \in [Workers -> 0 .. MaxKeepAlive]
    /\ metrics \in [Counters -> Nat]

Holding == {"admit", "enqueue", "refuse429", "refuse503"}
Busy == {"entry", "serving", "closing"}
MainHolds(c) == main \in Holding /\ cur = c
Queued(c) == \E i \in 1 .. Len(jobs) : jobs[i] = c
Serving == {w \in Workers : wpc[w] = "serving"}
WorkerHolds(w, c) == wpc[w] \in Busy /\ wconn[w] = c

\* No leak: an open connection is in the hands of the accept loop, in the
\* channel, or with a worker, whatever cancellation and timers did.
NoLeak ==
    \A c \in Conns : conn[c] = "open" =>
        MainHolds(c) \/ Queued(c) \/ \E w \in Workers : WorkerHolds(w, c)

\* A connection has one owner, and the owner finds it open: the accept loop
\* never answers or closes what it has enqueued or enqueueJob has closed, no
\* job is delivered twice, and Close is called once.
OneOwner ==
    /\ \A c \in Conns : MainHolds(c) =>
          /\ conn[c] = "open"
          /\ ~Queued(c)
          /\ \A w \in Workers : ~WorkerHolds(w, c)
    /\ \A c \in Conns : Queued(c) =>
          /\ conn[c] = "open"
          /\ \A w \in Workers : ~WorkerHolds(w, c)
    /\ \A w \in Workers, c \in Conns : WorkerHolds(w, c) => conn[c] = "open"
    /\ \A v, w \in Workers, c \in Conns :
          WorkerHolds(v, c) /\ WorkerHolds(w, c) => v = w
    /\ \A i, j \in 1 .. Len(jobs) : jobs[i] = jobs[j] => i = j

\* No send on a closed channel (it would panic the process): when
\* WorkerPool.Stop closes jobs the accept loop is over.
NoSendOnClosed == jobsClosed => main \notin Holding \cup {"run", "accept"}

\* run returns nil only after a complete drain: nothing queued, no worker
\* running, every accepted connection closed by the server itself.
CleanReturn ==
    main = "returned" =>
        /\ jobs = <<>>
        /\ \A w \in Workers : wpc[w] = "exited"
        /\ \A c \in Conns : conn[c] # "open"

\* The active gauge is the number of workers between IncActiveConnection and
\* DecActiveConnection, so it never underflows its uint64 and never exceeds
\* the size of the pool.
GaugeIsExact ==
    main # "exited" =>
        metrics["active"] = Cardinality(Serving)

\* The refusal counters tell the truth about the connections: each accepted
\* connection is counted once, refused for one reason at most, and answered
\* at most once for it.
Accounting ==
    LET taken == {c \in Conns : conn[c] \in {"open", "closed"}}
    IN  /\ main # "exited" => metrics["accepted"] = Cardinality(taken)
        /\ metrics["rateLimited"] + metrics["queueRejects"]
               <= metrics["accepted"]
        /\ metrics["refused4xx"] <= metrics["rateLimited"]
        /\ metrics["refused5xx"] <= metrics["queueRejects"]

\* Every accepted connection is closed in the end, by its owner or by the
\* end of the process: keep-alive cannot hold a worker for ever, and the
\* queue always moves.  There are finitely many and each is opened once, so
\* this is that from some moment on none is open.
EveryConnEnds ==
    RefusalsEnd /\ WorkersRun =>
        <>[](\A c \in Conns : conn[c] # "open")

\* A signal ends the process, in either of two ways: by the drain alone
\* (serve() sees the closed listener, Stop() ends the workers and run()
\* returns), or, although no worker ever makes another step and the queue
\* stays full, by the shutdown timer.
SignalEnds ==
    RefusalsEnd /\ (WorkersRun \/ TimerFires) => (ctxDone ~> main = "exited")
=============================================================================
