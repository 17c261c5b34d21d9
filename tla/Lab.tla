-------------------------------- MODULE Lab ---------------------------------
(***************************************************************************)
(* cmd/lab/main.go: `benchmark' (a number of requests, or a time-boxed     *)
(* soak, by concurrent workers that record under a mutex), `summarize'     *)
(* (medians over report files) and `compare' (fixtures sent to two         *)
(* servers).  The result of a request is its status code, 0 for a status   *)
(* line without one, NoAnswer for an error.                                *)
(***************************************************************************)
EXTENDS Integers, Sequences, FiniteSets, FiniteSetsExt, SequencesExt

CONSTANTS Benchmarks,   \* flags: [requests, soak, concurrency, timed]
          Latencies,    \* measured durations
          Codes,        \* status codes
          MaxSoak,      \* bound on the requests of a soak
          ReportLists,  \* the files given to a summarize
          Directories,  \* the entries of a compare's directory, by name
          RankBound     \* bound on the samples for the rank of a percentile

NoAnswer == -1
Results == Codes \cup {NoAnswer}

ASSUME LabAssumption ==
    /\ {MaxSoak, RankBound} \subseteq Nat
    /\ Latencies \subseteq Nat /\ Codes \subseteq Nat

VARIABLES cmd,        \* the command
          in,         \* its flags or its files
          pc,         \* the main goroutine
          jobs,       \* tokens in the channel
          left,       \* tokens still to be sent
          expired,    \* the context's deadline has passed
          issued,     \* requests made
          worker,     \* worker[w]: where it is and what it records
          mu,         \* the worker that holds the mutex, 0 if none
          latencies, errCount, statusCounts,
          next,       \* the file, the URL or the payload in hand
          payloads,   \* the fixtures loaded by compare
          out         \* what is printed

recVars == <<mu, latencies, errCount, statusCounts>>
benchVars == <<jobs, left, expired, issued, worker, recVars>>
fileVars == <<cmd, in, next, payloads, out>>
vars == <<pc, benchVars, fileVars>>

Ready == [at |-> "loop", latency |-> 0, code |-> 0, seen |-> <<>>]

\* main: the command line names one of the three.
Init ==
    /\ \/ cmd = "benchmark" /\ in \in Benchmarks
       \/ cmd = "summarize" /\ in \in ReportLists
       \/ cmd = "compare" /\ in \in Directories
    /\ pc = "start"
    /\ jobs = 0 /\ left = 0 /\ expired = FALSE /\ issued = 0
    /\ worker = <<>> /\ mu = 0
    /\ latencies = <<>> /\ errCount = 0
    /\ statusCounts = [c \in Codes |-> 0]
    /\ next = 1 /\ payloads = <<>> /\ out = <<>>

Goto(label) == pc' = label
Ended == pc \in {"done", "error", "panic"}

-----------------------------------------------------------------------------
(* Statistics.                                                             *)

Sorted(s) == SortSeq(s, <)
Sum(s) == FoldLeft(+, 0, s)

\* Faulty variant: the rank is rounded down.
PercentileIndexFloor(n, p) == Max({1, (n * p) \div 100})

\* percentile: the nearest rank, int(math.Ceil(n * p)) kept inside.
PercentileIndex(n, p) == Min({n, Max({1, (n * p + 99) \div 100})})
Percentile(s, p) == s[PercentileIndex(Len(s), p)]

SummarizeLatencies(samples) ==
    LET s == Sorted(samples)
    IN  IF s = <<>>
        THEN [avg |-> 0, min |-> 0, max |-> 0, p |-> [q \in {50, 95, 99} |-> 0]]
        ELSE [avg |-> Sum(s) \div Len(s), min |-> s[1], max |-> s[Len(s)],
              p |-> [q \in {50, 95, 99} |-> Percentile(s, q)]]

\* medianDuration and medianFloat64.
Median(values) ==
    LET s == Sorted(values)
        mid == Len(s) \div 2
    IN  IF Len(s) % 2 = 1 THEN s[mid + 1] ELSE (s[mid] + s[mid + 1]) \div 2

-----------------------------------------------------------------------------
(* runBenchmark.  The flag timed is a -timeout above zero: http.Client has *)
(* no timeout otherwise, and a request may last for ever.                  *)

\* The flags; make([]time.Duration, 0, requests) panics below zero.
Flags ==
    /\ cmd = "benchmark" /\ pc = "start"
    /\ Goto(IF (~in.soak /\ in.requests <= 0) \/ in.concurrency <= 0
            THEN "error"
            ELSE IF in.requests < 0 THEN "panic" ELSE "spawn")
    /\ left' = in.requests
    /\ UNCHANGED <<jobs, expired, issued, worker, recVars, fileVars>>

\* wg.Add and go, once per worker.
Spawn ==
    /\ pc = "spawn"
    /\ worker' = Append(worker, Ready)
    /\ IF Len(worker') < in.concurrency THEN UNCHANGED pc
       ELSE Goto(IF in.soak THEN "wait" ELSE "feed")
    /\ UNCHANGED <<jobs, left, expired, issued, recVars, fileVars>>

\* A token into the channel, whose buffer holds them all; the last one is
\* followed by close.
Feed ==
    /\ pc = "feed"
    /\ \/ /\ left > 0
          /\ jobs' = jobs + 1 /\ left' = left - 1
          /\ UNCHANGED pc
       \/ /\ left = 0
          /\ Goto("wait")
          /\ UNCHANGED <<jobs, left>>
    /\ UNCHANGED <<expired, issued, worker, recVars, fileVars>>

\* The deadline of the soak's context.
Expire ==
    /\ cmd = "benchmark" /\ pc \in {"spawn", "wait"} /\ in.soak /\ ~expired
    /\ expired' = TRUE
    /\ UNCHANGED <<pc, jobs, left, issued, worker, recVars, fileVars>>

\* The turn of a worker's loop: a token taken, or a context not yet done.
Turn(w) ==
    /\ worker[w].at = "loop"
    /\ IF in.soak THEN ~expired /\ issued < MaxSoak /\ UNCHANGED jobs
       ELSE jobs > 0 /\ jobs' = jobs - 1
    /\ issued' = issued + 1
    /\ worker' = [worker EXCEPT ![w].at = "issue"]
    /\ UNCHANGED <<pc, left, expired, recVars, fileVars>>

\* Faulty variant: break leaves the select, not the loop.
ExitBreaks(w) ==
    /\ worker[w].at = "loop"
    /\ IF in.soak THEN expired ELSE jobs = 0 /\ pc = "wait"
    /\ worker' = IF in.soak THEN worker ELSE [worker EXCEPT ![w].at = "exit"]
    /\ UNCHANGED <<pc, jobs, left, expired, issued, recVars, fileVars>>

\* The worker returns: the context is done, or the channel closed and empty.
Exit(w) ==
    /\ worker[w].at = "loop"
    /\ IF in.soak THEN expired ELSE jobs = 0 /\ pc = "wait"
    /\ worker' = [worker EXCEPT ![w].at = "exit"]
    /\ UNCHANGED <<pc, jobs, left, expired, issued, recVars, fileVars>>

\* issue: client.Get answers with a code or fails.
Issue(w) ==
    /\ worker[w].at = "issue"
    /\ \E l \in Latencies, c \in Results \ {0} :
           worker' = [worker EXCEPT ![w].at = "record", ![w].latency = l,
                                    ![w].code = c]
    /\ UNCHANGED <<pc, jobs, left, expired, issued, recVars, fileVars>>

\* Faulty variant: record without the mutex.
RecordLockless(w) ==
    /\ worker[w].at = "record"
    /\ mu' = w
    /\ worker' = [worker EXCEPT ![w].at = "store", ![w].seen = latencies]
    /\ UNCHANGED <<pc, jobs, left, expired, issued, latencies, errCount,
                   statusCounts, fileVars>>

\* record: the lock, and the slice that append reads.
RecordLock(w) ==
    /\ worker[w].at = "record" /\ mu = 0
    /\ mu' = w
    /\ worker' = [worker EXCEPT ![w].at = "store", ![w].seen = latencies]
    /\ UNCHANGED <<pc, jobs, left, expired, issued, latencies, errCount,
                   statusCounts, fileVars>>

\* record: the grown slice, the count, the deferred unlock.
RecordStore(w) ==
    /\ worker[w].at = "store"
    /\ latencies' = Append(worker[w].seen, worker[w].latency)
    /\ IF worker[w].code = NoAnswer
       THEN errCount' = errCount + 1 /\ UNCHANGED statusCounts
       ELSE /\ statusCounts' = [statusCounts EXCEPT ![worker[w].code] = @ + 1]
            /\ UNCHANGED errCount
    /\ worker' = [worker EXCEPT ![w] = Ready]
    /\ mu' = 0
    /\ UNCHANGED <<pc, jobs, left, expired, issued, fileVars>>

WorkerStep(w) ==
    Turn(w) \/ Exit(w) \/ Issue(w) \/ RecordLock(w) \/ RecordStore(w)

\* wg.Wait, then what is printed.
Report ==
    /\ cmd = "benchmark" /\ pc = "wait"
    /\ \A w \in DOMAIN worker : worker[w].at = "exit"
    /\ out' = [requests |-> IF in.soak THEN Len(latencies) ELSE in.requests,
               errors |-> errCount, statusCodes |-> statusCounts,
               latency |-> SummarizeLatencies(latencies)]
    /\ Goto("write")
    /\ UNCHANGED <<cmd, in, benchVars, next, payloads>>

\* writeJSON, when -json-out names a file: it may fail.
WriteJSON ==
    /\ pc = "write"
    /\ Goto("done") \/ Goto("error")
    /\ UNCHANGED <<benchVars, fileVars>>

-----------------------------------------------------------------------------
(* runSummarize.  A report is [url, value]; its URL is 0 when the file is  *)
(* not a benchmark report, its value NoAnswer when a duration does not     *)
(* parse.                                                                  *)

NamedFiles ==
    /\ cmd = "summarize" /\ pc = "start"
    /\ Goto(IF in = <<>> THEN "error" ELSE "read")
    /\ UNCHANGED <<benchVars, fileVars>>

\* readBenchmarkReport: the first bad file ends the command.
ReadBenchmarkReport ==
    /\ pc = "read"
    /\ IF in[next].url = 0 THEN Goto("error") /\ UNCHANGED next
       ELSE IF next < Len(in) THEN next' = next + 1 /\ UNCHANGED pc
       ELSE next' = 1 /\ Goto("summary")
    /\ UNCHANGED <<cmd, in, benchVars, payloads, out>>

URLs == {in[i].url : i \in DOMAIN in}
\* reportsByURL[url]
ValuesOf(url) ==
    LET reports == SelectSeq(in, LAMBDA r : r.url = url)
    IN  [i \in DOMAIN reports |-> reports[i].value]

\* A row per URL, in order: summarizeBenchmarkReports fails on a bad value.
SummaryRow ==
    /\ pc = "summary"
    /\ LET url == SetToSortSeq(URLs, <)[next]
           values == ValuesOf(url)
       IN  IF NoAnswer \in ToSet(values)
           THEN Goto("error") /\ UNCHANGED <<next, out>>
           ELSE /\ out' = Append(out, [url |-> url, runs |-> Len(values),
                                       median |-> Median(values)])
                /\ next' = next + 1
                /\ IF next = Cardinality(URLs) THEN Goto("done")
                   ELSE UNCHANGED pc
    /\ UNCHANGED <<cmd, in, benchVars, payloads>>

-----------------------------------------------------------------------------
(* runCompare.  An entry of the directory is [kind, body]; its kind is     *)
(* "http", "raw" or "other" (a directory or another extension) and its     *)
(* body is Unreadable when os.ReadFile fails.  A file is a sequence of     *)
(* bytes.                                                                  *)

CR == "CR"
LF == "LF"
Unreadable == <<"unreadable">>
BlankLine == <<CR, LF, CR, LF>>

\* The number of bytes that TrimRight(text, "\r\n") leaves.
Kept(text) == Max({0} \cup {i \in DOMAIN text : text[i] \notin {CR, LF}})

\* Faulty variant: a lone CR is left as it is.
NormalizeHTTPFixtureLone(body) ==
    LET keep == SelectSeq([i \in DOMAIN body |-> i], LAMBDA i :
                    ~(body[i] = CR /\ i < Len(body) /\ body[i + 1] = LF))
        text == FlattenSeq([k \in DOMAIN keep |->
                    IF body[keep[k]] = LF THEN <<CR, LF>>
                    ELSE <<body[keep[k]]>>])
    IN  IF IsSuffix(BlankLine, text) THEN text
        ELSE SubSeq(text, 1, Kept(text)) \o BlankLine

\* normalizeHTTPFixture: CRLF, CR and LF become CRLF, a blank line ends it.
NormalizeHTTPFixture(body) ==
    LET keep == SelectSeq([i \in DOMAIN body |-> i], LAMBDA i :
                    ~(body[i] = CR /\ i < Len(body) /\ body[i + 1] = LF))
        text == FlattenSeq([k \in DOMAIN keep |->
                    IF body[keep[k]] \in {CR, LF} THEN <<CR, LF>>
                    ELSE <<body[keep[k]]>>])
    IN  IF IsSuffix(BlankLine, text) THEN text
        ELSE SubSeq(text, 1, Kept(text)) \o BlankLine

\* os.ReadDir lists the entries by name, or fails.
ReadDir ==
    /\ cmd = "compare" /\ pc = "start"
    /\ Goto(IF in = <<>> THEN "write" ELSE "load") \/ Goto("error")
    /\ UNCHANGED <<benchVars, fileVars>>

\* loadPayloads: the next entry; the last one is followed by a sort by name,
\* the order they already have.
LoadPayload ==
    /\ pc = "load"
    /\ IF in[next].kind # "other" /\ in[next].body = Unreadable
       THEN Goto("error") /\ UNCHANGED <<next, payloads>>
       ELSE /\ payloads' =
                   CASE in[next].kind = "http" -> Append(payloads,
                            [name |-> next,
                             body |-> NormalizeHTTPFixture(in[next].body)])
                     [] in[next].kind = "raw" -> Append(payloads,
                            [name |-> next, body |-> in[next].body])
                     [] OTHER -> payloads
            /\ IF next < Len(in) THEN next' = next + 1 /\ UNCHANGED pc
               ELSE next' = 1 /\ Goto(IF payloads' = <<>> THEN "write"
                                      ELSE "mtws")
    /\ UNCHANGED <<cmd, in, benchVars, out>>

ClassifyDifference(mtws, proxy) ==
    CASE mtws = NoAnswer /\ proxy = NoAnswer -> "unavailable"
      [] (mtws = NoAnswer) # (proxy = NoAnswer) -> "infra-gap"
      [] OTHER -> IF mtws # proxy THEN "yes" ELSE "no"

\* executeRawRequest to MTWS, whose result waits for the proxy's.
AskMTWS ==
    /\ pc = "mtws"
    /\ \E r \in Results :
           out' = Append(out, [payload |-> payloads[next].name, mtws |-> r,
                               proxy |-> NoAnswer, divergence |-> ""])
    /\ Goto("proxy")
    /\ UNCHANGED <<cmd, in, benchVars, next, payloads>>

\* executeRawRequest to the proxy and the row of the report.
AskProxy ==
    /\ pc = "proxy"
    /\ \E r \in Results :
           out' = [out EXCEPT ![next].proxy = r,
                       ![next].divergence = ClassifyDifference(out[next].mtws, r)]
    /\ IF next < Len(payloads) THEN next' = next + 1 /\ Goto("mtws")
       ELSE UNCHANGED next /\ Goto("write")
    /\ UNCHANGED <<cmd, in, benchVars, payloads>>

-----------------------------------------------------------------------------
MainStep ==
    \/ Flags \/ Spawn \/ Feed \/ Report \/ WriteJSON
    \/ NamedFiles \/ ReadBenchmarkReport \/ SummaryRow
    \/ ReadDir \/ LoadPayload \/ AskMTWS \/ AskProxy

\* The process has ended.
Rest == Ended /\ UNCHANGED vars

Next == MainStep \/ Expire \/ (\E w \in DOMAIN worker : WorkerStep(w)) \/ Rest

\* The main goroutine, the timer and every worker keep running, and the mutex
\* is held over no blocking call.  A request is sure to end if the client has
\* a timeout; one to a raw address has a deadline whatever the flag.
Workers == UNION {1 .. b.concurrency : b \in Benchmarks}
WorkerRuns(w) == /\ w \in DOMAIN worker
                 /\ worker[w].at = "issue" => in.timed
                 /\ WorkerStep(w)
Fairness ==
    /\ WF_vars(MainStep) /\ WF_vars(Expire)
    /\ \A w \in Workers : WF_vars(WorkerRuns(w))

Spec == Init /\ [][Next]_vars /\ Fairness

-----------------------------------------------------------------------------
(* Properties.                                                             *)

Total(counts) == MapThenSumSet(LAMBDA c : counts[c], DOMAIN counts)

\* The type of every variable; the mutex of runBenchmark's record belongs to the
\* one worker that is storing.
TypeOK ==
    /\ cmd \in {"benchmark", "summarize", "compare"}
    /\ pc \in {"start", "spawn", "feed", "wait", "read", "summary", "load",
               "mtws", "proxy", "write", "done", "error", "panic"}
    /\ jobs \in Nat /\ issued \in Nat /\ left \in Int
    /\ expired \in BOOLEAN /\ next \in Nat \ {0}
    /\ errCount \in Nat /\ statusCounts \in [Codes -> Nat]
    /\ latencies \in Seq(Latencies)
    /\ mu \in {0} \cup DOMAIN worker
    /\ \A w \in DOMAIN worker :
           /\ worker[w].at \in {"loop", "issue", "record", "store", "exit"}
           /\ worker[w].at = "store" <=> mu = w

\* record and wg.Wait: every request made is in flight or has left exactly
\* one sample and one count, whatever the workers' interleaving; the report
\* is over all of them, and those asked for were all made.
EveryRequestCounts ==
    LET flying == {w \in DOMAIN worker :
                      worker[w].at \in {"issue", "record", "store"}}
    IN  /\ TypeOK
        /\ cmd = "benchmark" =>
            /\ issued = Len(latencies) + Cardinality(flying)
            /\ Len(latencies) = errCount + Total(statusCounts)
            /\ out # <<>> =>
                  /\ flying = {} /\ out.requests = issued
                  /\ out.errors + Total(out.statusCodes) = issued
                  /\ ~in.soak => issued = in.requests

\* A percentile is a sample, as many samples as it promises are at or below
\* it and fewer are below it; the rank is right up to RankBound samples.
PercentilesAreNearestRank ==
    pc = "write" /\ cmd = "benchmark" =>
        /\ \A p \in {50, 95, 99}, n \in 1 .. RankBound :
               /\ 100 * PercentileIndex(n, p) >= n * p
               /\ 100 * (PercentileIndex(n, p) - 1) < n * p
        /\ latencies # <<>> => \A p \in {50, 95, 99} :
               LET v == out.latency.p[p]
                   Samples(Test(_)) == Len(SelectSeq(latencies, Test))
               IN  /\ v \in ToSet(latencies)
                   /\ 100 * Samples(LAMBDA l : l <= v) >= Len(latencies) * p
                   /\ 100 * Samples(LAMBDA l : l < v) < Len(latencies) * p
                   /\ out.latency.min <= v /\ v <= out.latency.max

\* A row stands for all the reports of its URL, at most half of them on
\* either side of its median.
MediansAreMiddle ==
    cmd = "summarize" =>
        /\ \A i \in DOMAIN out :
               LET mine == {j \in DOMAIN in : in[j].url = out[i].url}
               IN  /\ out[i].runs = Cardinality(mine)
                   /\ 2 * Cardinality({j \in mine : in[j].value < out[i].median})
                          <= out[i].runs
                   /\ 2 * Cardinality({j \in mine : in[j].value > out[i].median})
                          <= out[i].runs
        /\ pc = "done" => {out[i].url : i \in DOMAIN out} = URLs
        /\ 0 \in URLs => out = <<>>

\* summarizeLatencies, percentile and runSummarize: the percentiles printed
\* are the nearest ranks and the medians the middles of all the samples they
\* stand for, at every length; a summary that does not fail has a row for
\* every URL, one that fails on a file has none.
StatisticsAreRight == PercentilesAreNearestRank /\ MediansAreMiddle

\* A line ends at LF, or at a CR that no LF follows.
Breaks(text, upTo) ==
    {i \in 1 .. upTo : \/ text[i] = LF
                       \/ /\ text[i] = CR
                          /\ i < Len(text) => text[i + 1] # LF}
Content(text) ==
    {<<Cardinality(Breaks(text, i)), i - Cardinality({j \in 1 .. i :
          text[j] \in {CR, LF}}), text[i]>> :
        i \in {j \in DOMAIN text : text[j] \notin {CR, LF}}}

\* What is sent for an .http file ends in a blank line and holds CR and LF
\* only as CRLF, and every other byte stays in its place of its line.
FixturesAreFramed ==
    \A k \in DOMAIN payloads :
        LET p == payloads[k]
            text == p.body
            CRLFOnly ==
                \A i \in DOMAIN text :
                    /\ text[i] = CR => i < Len(text) /\ text[i + 1] = LF
                    /\ text[i] = LF => i > 1 /\ text[i - 1] = CR
        IN  IF in[p.name].kind = "raw" THEN text = in[p.name].body
            ELSE /\ CRLFOnly /\ IsSuffix(BlankLine, text)
                 /\ Content(text) = Content(in[p.name].body)
                 /\ NormalizeHTTPFixture(text) = text

\* normalizeHTTPFixture and runCompare: what is sent is the fixture, framed
\* (and normalising it again changes nothing); a comparison that got past
\* loading has a row for every .http and .raw file, in the order of their
\* names, and a verdict about the servers' decisions only where both of them
\* answered.
CompareIsSound ==
    cmd = "compare" =>
        /\ FixturesAreFramed
        /\ pc = "write" =>
               /\ {out[i].payload : i \in DOMAIN out} =
                      {i \in DOMAIN in : in[i].kind # "other"}
               /\ \A i, j \in DOMAIN out : i < j => out[i].payload < out[j].payload
               /\ \A i \in DOMAIN out :
                      /\ out[i].divergence \in {"yes", "no"} <=>
                             NoAnswer \notin {out[i].mtws, out[i].proxy}
                      /\ out[i].mtws = out[i].proxy =>
                             out[i].divergence \in {"no", "unavailable"}
        /\ (\E i \in DOMAIN in : in[i].kind # "other"
                                 /\ in[i].body = Unreadable) => out = <<>>

\* Every command comes to its end, with its report or an error: a soak after
\* its deadline, a benchmark after its requests, whatever the workers'
\* interleaving.  It needs a -timeout above zero, or else requests that all
\* come back, and no negative -requests beside -duration.
RequestsReturn ==
    \A w \in Workers : []<>(w \in DOMAIN worker => worker[w].at # "issue")
Usable == cmd = "benchmark" => (in.soak => in.requests >= 0)
HasTimeout == cmd = "benchmark" => in.timed
CommandsEnd ==
    Usable /\ (HasTimeout \/ RequestsReturn) => <>(pc \in {"done", "error"})
=============================================================================
