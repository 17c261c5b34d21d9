--------------------------- MODULE MonitorProofs ----------------------------
(***************************************************************************)
(* What the server says about itself is true, for every number of workers  *)
(* and of requests, all durations and every capacity of the log.           *)
(***************************************************************************)
EXTENDS Monitor, FiniteSetTheorems, SequenceTheorems, TLAPS

\* What comes in: a request of a worker, or a refusal.
Comes(w) ==
    \E r \in Routes \cup Refusals, n \in Limits \cup {0} : Arrives(w, r, n)

\* Where RecordRequestDuration is between its total and its return.
Inside == {"load", "cas"}

\* What the local variables of a request are worth where it stands.
Local(w) ==
    /\ pc[w] \in {"idle", "request", "refuse", "handler", "snapshot", "write"} =>
          req[w].status = 0
    /\ pc[w] = "refuse" => req[w].route \in Refusals
    /\ req[w].loaded # <<>> => pc[w] \in {"snapshot", "write"}
    /\ pc[w] = "snapshot" => Len(req[w].loaded) < Len(Loads)
    /\ pc[w] = "cas" => req[w].current < req[w].micros
    /\ pc[w] \in Inside => req[w].micros <= begun

Locals == \A w \in Threads : Local(w)

\* The longest duration is in the maximum, or its recorder is still inside.
Maximum ==
    /\ ended <= m["max"] /\ m["max"] <= begun
    /\ begun <= ended \/ \E w \in Threads :
                            pc[w] \in Inside /\ req[w].micros = begun

\* Requests that were counted and whose duration, or whose answer, was not.
Unrecorded ==
    {w \in Threads :
        \/ pc[w] \in {"handler", "snapshot", "write", "record"}
        \/ pc[w] = "request" /\ req[w].route \notin Refusals}
Unanswered == {w \in Threads : pc[w] # "idle" /\ req[w].status = 0}

Answers == m["2xx"] + m["4xx"] + m["5xx"]

\* The total is made of the durations of the recorded requests, and there are
\* no more answers than answered requests and refusals.
Ratio ==
    /\ Cardinality(Unrecorded) <= m["requests"]
    /\ m["total"] <= (m["requests"] - Cardinality(Unrecorded)) * begun
AnswerCount == Answers + Cardinality(Unanswered) <= Arrived

\* A scrape that is under way, against the counters as they are now.
Scrape(w) ==
    LET s == req[w].loaded
    IN  /\ Len(s) >= 1 => 1 <= s[1] /\ s[1] <= m["requests"]
        /\ Len(s) = 2 => s[2] <= m["requests"] * begun
        /\ Len(s) >= 3 => s[1] <= s[3] /\ s[2] <= s[3] * begun
        /\ Len(s) >= 9 => s[9] <= m["2xx"]
        /\ Len(s) >= 10 => s[10] <= m["4xx"]
        /\ Len(s) >= 11 => s[11] <= m["5xx"]

Scrapes == \A w \in Threads : Scrape(w)

\* The lines kept; while LogStore.Add holds the lock they have moved down and
\* the last place waits for the new line.
Stored ==
    /\ Len(entries) = Smaller(LogMax, Len(history))
    /\ mu = NoWorker =>
          \A i \in 1 .. Len(entries) :
              entries[i] = history[Len(history) - Len(entries) + i]
    /\ mu # NoWorker =>
          /\ Len(entries) = LogMax /\ pc[mu] \in {"request", "access"}
          /\ \A i \in 1 .. LogMax - 1 :
                entries[i] = history[Len(history) - LogMax + i + 1]

\* The end of the first n lines, as /api/logs with this limit returns it.
TailAt(limit, n) ==
    Last(SubSeq(history, 1, n), Smaller(n, Smaller(LogMax, LogLimit(limit))))

TailOf(w) ==
    req[w].tail # <<>> =>
        \E n \in 1 .. Len(history) : req[w].tail = TailAt(req[w].limit, n)

Tails == \A w \in Threads : TailOf(w)

\* The lines of a kind, and who is about to add one or to count its answer.
LinesOf(h, T) == {i \in 1 .. Len(h) : h[i] \in T}
AccessLines(code) == {<<"access", code>>}
RefuseLines(code) ==
    {l \in Lines : l[1] = "refuse" /\ Class(l[2]) = Class(code)}
RejectLines(r) == {<<"refuse", Refusal[r]>>}

Answered(code) == {w \in Threads : req[w].status = code}
Refusing(code) ==
    {w \in Threads :
        pc[w] = "refuse" /\ Class(Refusal[req[w].route]) = Class(code)}
Coming(r) == {w \in Threads : pc[w] = "request" /\ req[w].route = r}

\* The counter of a class is made of the answers that are in the access log or
\* will be, and of those of the refusals that are logged and done.
Logged(code) ==
    LET logged == Cardinality(LinesOf(history, AccessLines(code)))
                + Cardinality(Answered(code))
    IN  /\ logged <= m[Class(code)]
        /\ m[Class(code)] + Cardinality(Refusing(code))
              <= logged + Cardinality(LinesOf(history, RefuseLines(code)))
RejectLogged(r) ==
    m[r] = Cardinality(LinesOf(history, RejectLines(r)))
         + Cardinality(Coming(r))

AllLogged == \A code \in {200, 405, 500} : Logged(code)
AllRejects == \A r \in Rejects : RejectLogged(r)

\* The part of TypeOK about the requests.
RequestsOK ==
    /\ req \in [Threads -> Request]
    /\ \A w \in Threads : Len(req[w].loaded) <= Len(Loads)

\* The inductive invariant.
Inv ==
    /\ TypeOK /\ Locals /\ Maximum /\ Ratio /\ AnswerCount /\ Scrapes
    /\ Stored /\ Tails /\ AllLogged /\ AllRejects

-----------------------------------------------------------------------------
(* The operators the model is built from.                                  *)

LEMMA Classes ==
    /\ Class(200) = "2xx" /\ Class(405) = "4xx" /\ Class(500) = "5xx"
    /\ \A code \in {200, 405, 500} :
          Class(code) \in {"2xx", "4xx", "5xx"}
    /\ \A r \in Refusals : Class(Refusal[r]) \in {"4xx", "5xx"}
    /\ \A code \in {200, 405, 500} : Class(code) \in Counters
    /\ \A r \in Refusals : Class(Refusal[r]) \in Counters
<1>1. Refusals = {"waf", "parse", "nilrouter", "queue", "limited"}
  BY DEF Refusals, Refusal
<1>2. /\ Class(200) = "2xx" /\ Class(405) = "4xx" /\ Class(500) = "5xx"
      /\ Class(403) = "4xx" /\ Class(400) = "4xx" /\ Class(503) = "5xx"
      /\ Class(429) = "4xx"
  BY DEF Class
<1>3. \A r \in Refusals : Class(Refusal[r]) \in {"4xx", "5xx"}
  BY <1>1, <1>2 DEF Refusal
<1>4. QED
  BY <1>2, <1>3 DEF Counters

\* The counters by their kind.
LEMMA Kinds ==
    /\ Counters = {"requests", "total", "max", "2xx", "4xx", "5xx", "waf",
                   "parse", "queue", "limited"}
    /\ Rejects \subseteq Counters /\ Rejects \subseteq Refusals
    /\ Rejects = {"waf", "parse", "queue", "limited"}
    /\ Refusals = {"waf", "parse", "nilrouter", "queue", "limited"}
    /\ Routes \cap Refusals = {}
    /\ \A r \in Refusals : Refusal[r] \in Statuses
  BY DEF Counters, Rejects, Refusals, Refusal, Routes, Statuses

\* Every refusal has a status of its own.
LEMMA Apart ==
    ASSUME NEW r \in Refusals, NEW q \in Refusals, r # q
    PROVE  Refusal[r] # Refusal[q]
<1>1. /\ Refusal["waf"] = 403 /\ Refusal["parse"] = 400
      /\ Refusal["nilrouter"] = 500 /\ Refusal["queue"] = 503
      /\ Refusal["limited"] = 429
  BY DEF Refusal
<1>2. QED
  BY <1>1, Kinds

LEMMA FiniteThreads == IsFiniteSet(Threads) /\ NoWorker \notin Threads
  BY MonitorAssumption, FS_AddElement DEF Threads

\* Somebody comes, or a goroutine that is at work makes a step.
LEMMA NextCases ==
    ASSUME [Next]_vars
    PROVE  UNCHANGED vars \/ \E w \in Threads : Comes(w) \/ Step(w)
<1>1. {"waf", "parse", "nilrouter", "queue", "limited"} = Refusals
  BY Kinds
<1>2. ASSUME NEW w \in Workers, Begin(w) PROVE w \in Threads /\ Comes(w)
  BY <1>1, <1>2 DEF Begin, Comes, Threads
<1>3. ASSUME Turn PROVE Acceptor \in Threads /\ Comes(Acceptor)
  BY <1>1, <1>3 DEF Turn, Comes, Threads
<1>4. QED
  BY <1>2, <1>3 DEF Next, AllDone

\* The end of a sequence, element by element.
LEMMA LastProperties ==
    ASSUME NEW S, NEW s \in Seq(S), NEW n \in 0 .. Len(s)
    PROVE  /\ Last(s, n) \in Seq(S)
           /\ Len(Last(s, n)) = n
           /\ \A i \in 1 .. n : Last(s, n)[i] = s[Len(s) - n + i]
<1>1. /\ Len(s) \in Nat /\ Len(s) - n + 1 \in Int
      /\ \A i \in Len(s) - n + 1 .. Len(s) : s[i] \in S
  OBVIOUS
<1>2. QED
  BY <1>1, SubSeqProperties DEF Last

\* Products of natural numbers grow with their factors.
LEMMA Product ==
    ASSUME NEW a \in Nat, NEW b \in Nat, NEW c \in Nat, a <= b
    PROVE  a * c <= b * c /\ c * a <= c * b /\ a * c \in Nat
<1>1. PICK k \in Nat : b = a + k
  <2>1. b - a \in Nat /\ b = a + (b - a)
    OBVIOUS
  <2>2. QED
    BY <2>1
<1>2. (a + k) * c = a * c + k * c /\ c * (a + k) = c * a + c * k
  BY SMT
<1>3. a * c \in Nat /\ k * c \in Nat /\ c * a \in Nat /\ c * k \in Nat
  BY SMT
<1>4. QED
  BY <1>1, <1>2, <1>3

\* A set of workers that differs in one of them.
LEMMA Members ==
    ASSUME NEW S \in SUBSET Threads, NEW T \in SUBSET Threads,
           NEW w \in Threads, \A v \in Threads : v # w => (v \in T <=> v \in S)
    PROVE  /\ Cardinality(S) \in Nat /\ Cardinality(T) \in Nat
           /\ w \in S => Cardinality(S) >= 1
           /\ (w \in T <=> w \in S) => T = S
           /\ w \notin S /\ w \in T => Cardinality(T) = Cardinality(S) + 1
           /\ w \in S /\ w \notin T => Cardinality(T) = Cardinality(S) - 1
<1>1. IsFiniteSet(S) /\ IsFiniteSet(T)
  BY FiniteThreads, FS_Subset
<1>2. Cardinality(S) \in Nat /\ Cardinality(T) \in Nat
  BY <1>1, FS_CardinalityType
<1>3. ASSUME w \in S PROVE Cardinality(S) >= 1
  <2>1. S # {}
    BY <1>3
  <2>2. Cardinality(S) # 0
    BY <1>1, <2>1, FS_EmptySet
  <2>3. QED
    BY <1>2, <2>2
<1>4. (w \in T <=> w \in S) => T = S
  OBVIOUS
<1>5. ASSUME w \notin S, w \in T
      PROVE  Cardinality(T) = Cardinality(S) + 1
  <2>1. T = S \cup {w}
    BY <1>5
  <2>2. QED
    BY <1>1, <1>5, <2>1, FS_AddElement
<1>6. ASSUME w \in S, w \notin T
      PROVE  Cardinality(T) = Cardinality(S) - 1
  <2>1. T = S \ {w}
    BY <1>6
  <2>2. QED
    BY <1>1, <1>6, <2>1, FS_RemoveElement
<1>7. QED
  BY <1>2, <1>3, <1>4, <1>5, <1>6

\* What Snapshot loads.
LEMMA LoadsAre ==
    /\ Len(Loads) = 11 /\ \A i \in 1 .. 11 : Loads[i] \in Counters
    /\ Len(<<>>) <= Len(Loads) /\ Len(<<>>) < Len(Loads)
    /\ Loads[1] = "requests" /\ Loads[2] = "total" /\ Loads[3] = "requests"
    /\ Loads[9] = "2xx" /\ Loads[10] = "4xx" /\ Loads[11] = "5xx"
<1>1. Len(Loads) = 11
  BY DEF Loads
<1>2. /\ Loads[1] = "requests" /\ Loads[2] = "total" /\ Loads[3] = "requests"
      /\ Loads[4] = "max" /\ Loads[5] = "waf" /\ Loads[6] = "parse"
      /\ Loads[7] = "queue" /\ Loads[8] = "limited"
  BY DEF Loads
<1>3. Loads[9] = "2xx" /\ Loads[10] = "4xx" /\ Loads[11] = "5xx"
  BY DEF Loads
<1>4. \A i \in 1 .. 11 : i \in {1, 2, 3, 4, 5, 6, 7, 8, 9, 10, 11}
  OBVIOUS
<1>5. \A i \in 1 .. 11 : Loads[i] \in Counters
  BY <1>2, <1>3, <1>4, Kinds, Zenon
<1>6. Len(<<>>) <= Len(Loads) /\ Len(<<>>) < Len(Loads)
  BY <1>1
<1>7. QED
  BY <1>1, <1>2, <1>3, <1>5, <1>6

\* A request without loads, and the requests as they were.
LEMMA NoLoads ==
    ASSUME TypeOK, NEW w \in Threads, req' \in [Threads -> Request],
           \A v \in Threads : v # w => req'[v] = req[v], req'[w].loaded = <<>>
    PROVE  RequestsOK'
<1>1. \A v \in Threads : Len(req'[v].loaded) <= Len(Loads)
  <2> TAKE v \in Threads
  <2>1. CASE v = w
    BY <2>1, LoadsAre
  <2>2. CASE v # w
    BY <2>2 DEF TypeOK
  <2>3. QED
    BY <2>1, <2>2
<1>2. QED
  BY <1>1 DEF RequestsOK

\* The next value of a snapshot.
LEMMA NextLoad ==
    ASSUME TypeOK, NEW s \in Seq(Nat), Len(s) < Len(Loads)
    PROVE  LET t == Append(s, m[Loads[Len(s) + 1]])
           IN  /\ Len(Loads) = 11 /\ Len(s) + 1 \in 1 .. 11
               /\ m[Loads[Len(s) + 1]] \in Nat
               /\ t \in Seq(Nat) /\ Len(t) = Len(s) + 1 /\ Len(t) <= Len(Loads)
               /\ Len(t) = Len(Loads) \/ Len(t) < Len(Loads)
               /\ t[Len(s) + 1] = m[Loads[Len(s) + 1]]
               /\ \A i \in 1 .. Len(s) : t[i] = s[i]
<1>1. Len(Loads) = 11 /\ \A i \in 1 .. 11 : Loads[i] \in Counters
  BY LoadsAre
<1>2. Len(s) \in Nat /\ Len(s) + 1 \in 1 .. 11
  <2>1. Len(s) \in Nat /\ Len(s) < 11
    BY <1>1
  <2>2. \A n \in Nat : n < 11 => n + 1 \in 1 .. 11
    OBVIOUS
  <2>3. QED
    BY <2>1, <2>2, Zenon
<1>3. m[Loads[Len(s) + 1]] \in Nat
  BY <1>1, <1>2 DEF TypeOK
<1>4. PICK x \in Nat : x = m[Loads[Len(s) + 1]]
  BY <1>3
<1>5. PICK t : t = Append(s, x)
  OBVIOUS
<1>6. /\ t \in Seq(Nat) /\ Len(t) = Len(s) + 1 /\ t[Len(s) + 1] = x
      /\ \A i \in 1 .. Len(s) : t[i] = s[i]
  BY <1>5
<1>7. /\ Len(t) <= Len(Loads)
      /\ Len(t) = Len(Loads) \/ Len(t) < Len(Loads)
  <2>1. Len(t) \in 1 .. 11
    BY <1>2, <1>6
  <2>2. \A n \in 1 .. 11 : n <= 11 /\ (n = 11 \/ n < 11)
    OBVIOUS
  <2>3. QED
    BY <1>1, <2>1, <2>2, Zenon
<1>8. QED
  BY <1>1, <1>2, <1>3, <1>4, <1>5, <1>6, <1>7, Zenon

\* logLimit is positive and within the cap, or the fallback.
LEMMA LogLimitType ==
    ASSUME NEW n \in Limits \cup {0}
    PROVE  LogLimit(n) \in Nat \ {0}
<1>1. /\ n \in Int /\ LogCap \in Nat /\ LogCap > 0
      /\ LogFallback \in Nat /\ LogFallback > 0
  BY MonitorAssumption
<1>2. QED
  BY <1>1 DEF LogLimit, Smaller

\* What is left of a request: nothing but its status, or its route and limit.
LEMMA IdleType == Idle \in Request
<1>1. <<>> \in Seq(Nat) /\ <<>> \in Seq(Lines)
  OBVIOUS
<1>2. QED
  BY <1>1 DEF Idle, Request, Routes, Statuses

AnswerOf(code) == [Idle EXCEPT !.status = code]
QuestionOf(route, limit) == [Idle EXCEPT !.route = route, !.limit = limit]

LEMMA Answer ==
    ASSUME NEW code \in Statuses
    PROVE  /\ AnswerOf(code) \in Request /\ AnswerOf(code).status = code
           /\ AnswerOf(code).loaded = <<>> /\ AnswerOf(code).tail = <<>>
<1>1. AnswerOf(code) \in Request
  BY IdleType DEF AnswerOf, Request
<1>2. QED
  BY <1>1 DEF AnswerOf, Idle

LEMMA Question ==
    ASSUME NEW r \in Routes \cup Refusals, NEW n \in Limits \cup {0}
    PROVE  /\ QuestionOf(r, n) \in Request /\ QuestionOf(r, n).status = 0
           /\ QuestionOf(r, n).loaded = <<>> /\ QuestionOf(r, n).tail = <<>>
           /\ QuestionOf(r, n).route = r
<1>1. QuestionOf(r, n) \in Request
  BY IdleType DEF QuestionOf, Request
<1>2. QED
  BY <1>1 DEF QuestionOf, Idle

LEMMA Nothing ==
    Idle.status = 0 /\ Idle.loaded = <<>> /\ Idle.tail = <<>>
  BY DEF Idle

\* A request that was replaced, or one of its fields.
LEMMA Replaced ==
    ASSUME TypeOK, NEW w \in Threads, NEW r \in Request,
           req' = [req EXCEPT ![w] = r]
    PROVE  /\ req' \in [Threads -> Request]
           /\ req'[w] = r
           /\ \A v \in Threads : v # w => req'[v] = req[v]
  BY DEF TypeOK

\* ResponseWriter.write, and what a recorder leaves of its request.
LEMMA Wrote ==
    ASSUME TypeOK, NEW w \in Threads, NEW code \in {200, 405, 500}, Write(w, code)
    PROVE  /\ req' \in [Threads -> Request]
           /\ \A v \in Threads : v # w => req'[v] = req[v]
           /\ req'[w].loaded = <<>> /\ req'[w].tail = <<>>
           /\ \/ req'[w].status = code /\ m' = [m EXCEPT ![Class(code)] = @ + 1]
              \/ req'[w].status = 0 /\ UNCHANGED m
           /\ m' \in [Counters -> Nat]
<1>0. code \in Statuses
  BY DEF Statuses
<1>1. CASE /\ req' = [req EXCEPT ![w] = AnswerOf(code)]
           /\ m' = [m EXCEPT ![Class(code)] = @ + 1]
  <2>1. m' \in [Counters -> Nat]
    BY <1>1, Classes DEF TypeOK
  <2>2. /\ req' \in [Threads -> Request] /\ req'[w] = AnswerOf(code)
        /\ \A v \in Threads : v # w => req'[v] = req[v]
    <3>1. req' = [req EXCEPT ![w] = AnswerOf(code)] /\ AnswerOf(code) \in Request
      BY <1>0, <1>1, Answer
    <3>2. QED
      BY <3>1, SMT DEF TypeOK
  <2>3. QED
    BY <1>0, <1>1, <2>1, <2>2, Answer
<1>2. CASE req' = [req EXCEPT ![w] = Idle] /\ UNCHANGED m
  <2>1. m' \in [Counters -> Nat]
    BY <1>2 DEF TypeOK
  <2>2. /\ req' \in [Threads -> Request] /\ req'[w] = Idle
        /\ \A v \in Threads : v # w => req'[v] = req[v]
    <3>1. req' = [req EXCEPT ![w] = Idle]
      BY <1>2
    <3>2. QED
      BY <3>1, IdleType, SMT DEF TypeOK
  <2>3. QED
    BY <1>2, <2>1, <2>2, Nothing
<1>3. QED
  BY <1>1, <1>2, Zenon DEF Write, AtomicAdd, AnswerOf

\* A request or a refusal has come.
LEMMA Came ==
    ASSUME TypeOK, NEW w \in Threads, Comes(w)
    PROVE  /\ pc[w] = "idle" /\ pc' = [pc EXCEPT ![w] = "request"]
           /\ RequestsOK'
           /\ \A v \in Threads : v # w => req'[v] = req[v]
           /\ req'[w].status = 0 /\ req'[w].loaded = <<>> /\ req'[w].tail = <<>>
           /\ m' \in [Counters -> Nat]
           /\ \/ /\ req'[w].route \notin Rejects
                 /\ m' = [m EXCEPT !["requests"] = m["requests"] + 1]
              \/ /\ req'[w].route \in Rejects
                 /\ m' = [m EXCEPT ![req'[w].route] = m[req'[w].route] + 1]
           /\ UNCHANGED <<mu, entries, history, begun, ended>>
<1>1. PICK r \in Routes \cup Refusals, n \in Limits \cup {0} : Arrives(w, r, n)
  BY DEF Comes
<1>2. /\ pc[w] = "idle" /\ pc' = [pc EXCEPT ![w] = "request"]
      /\ UNCHANGED <<mu, entries, history, begun, ended>>
      /\ req' = [req EXCEPT ![w] = QuestionOf(r, n)]
  BY <1>1 DEF Arrives, Goto, logVars, maxVars, QuestionOf
<1>3. \/ r \notin Rejects /\ m' = [m EXCEPT !["requests"] = m["requests"] + 1]
      \/ r \in Rejects /\ m' = [m EXCEPT ![r] = m[r] + 1]
  BY <1>1, Zenon DEF Arrives, AtomicAdd
<1>4. /\ req' \in [Threads -> Request] /\ req'[w] = QuestionOf(r, n)
      /\ \A v \in Threads : v # w => req'[v] = req[v]
  BY <1>2, Question, Replaced
<1>5. RequestsOK'
  BY <1>4, Question, NoLoads
<1>6. m' \in [Counters -> Nat]
  <2>1. m \in [Counters -> Nat] /\ "requests" \in Counters
    BY Kinds DEF TypeOK
  <2>2. \A c \in Counters : [m EXCEPT ![c] = m[c] + 1] \in [Counters -> Nat]
    BY <2>1
  <2>3. r \in Rejects => r \in Counters
    BY Kinds
  <2>4. QED
    BY <1>3, <2>1, <2>2, <2>3, Zenon
<1>7. QED
  BY <1>2, <1>3, <1>4, <1>5, <1>6, Question

LEMMA CameCounter ==
    ASSUME TypeOK, NEW w \in Threads, Comes(w)
    PROVE  \E c \in {"requests"} \cup Rejects : m' = [m EXCEPT ![c] = m[c] + 1]
<1>1. "requests" \in {"requests"} \cup Rejects
  OBVIOUS
<1>2. req'[w].route \in Rejects => req'[w].route \in {"requests"} \cup Rejects
  OBVIOUS
<1>3. QED
  BY <1>1, <1>2, Came, Zenon

\* A refusal was answered, or not.
LEMMA Refused ==
    ASSUME TypeOK, Locals, NEW w \in Threads, Refuse(w)
    PROVE  /\ pc[w] = "refuse" /\ pc' = [pc EXCEPT ![w] = "idle"]
           /\ req[w].route \in Refusals
           /\ RequestsOK' /\ req'[w] = Idle
           /\ \A v \in Threads : v # w => req'[v] = req[v]
           /\ m' \in [Counters -> Nat]
           /\ \/ LET c == Class(Refusal[req[w].route])
                 IN  m' = [m EXCEPT ![c] = m[c] + 1]
              \/ UNCHANGED m
           /\ UNCHANGED <<mu, entries, history, begun, ended>>
<1>1. /\ pc[w] = "refuse" /\ pc' = [pc EXCEPT ![w] = "idle"]
      /\ UNCHANGED <<mu, entries, history, begun, ended>>
      /\ req' = [req EXCEPT ![w] = Idle]
  BY DEF Refuse, Goto, logVars, maxVars
<1>2. req[w].route \in Refusals
  BY <1>1 DEF Locals, Local
<1> DEFINE c == Class(Refusal[req[w].route])
<1>3. m' = [m EXCEPT ![c] = m[c] + 1] \/ UNCHANGED m
  BY Zenon DEF Refuse, AtomicAdd
<1>4. c \in Counters
  BY <1>2, Classes
<1>5. m' \in [Counters -> Nat]
  <2>1. m \in [Counters -> Nat]
    BY DEF TypeOK
  <2>2. \A d \in Counters : [m EXCEPT ![d] = m[d] + 1] \in [Counters -> Nat]
    BY <2>1
  <2> HIDE DEF c
  <2>3. QED
    BY <1>3, <1>4, <2>1, <2>2, Zenon
<1>6. /\ req' \in [Threads -> Request] /\ req'[w] = Idle
      /\ \A v \in Threads : v # w => req'[v] = req[v]
  BY <1>1, IdleType, Replaced
<1>7. RequestsOK'
  BY <1>6, Nothing, NoLoads
<1>8. QED
  BY <1>1, <1>2, <1>3, <1>5, <1>6, <1>7

LEMMA RefusedClass ==
    ASSUME TypeOK, Locals, NEW w \in Threads, Refuse(w)
    PROVE  \E c \in {"4xx", "5xx"} : /\ c = Class(Refusal[req[w].route])
                                    /\ \/ m' = [m EXCEPT ![c] = m[c] + 1]
                                       \/ UNCHANGED m
<1>1. PICK c \in {"4xx", "5xx"} : c = Class(Refusal[req[w].route])
  BY Refused, Classes
<1>2. m' = [m EXCEPT ![c] = m[c] + 1] \/ UNCHANGED m
  BY <1>1, Refused, Zenon
<1>3. QED
  BY <1>1, <1>2, Zenon

LEMMA Returned ==
    ASSUME TypeOK, NEW w \in Threads, Returns(w)
    PROVE  /\ req' \in [Threads -> Request]
           /\ \A v \in Threads : v # w => req'[v] = req[v]
           /\ req'[w].loaded = <<>> /\ req'[w].tail = <<>>
           /\ req'[w].status = req[w].status
           /\ ended' \in Nat /\ ended' >= ended /\ ended' >= req[w].micros
           /\ ended' \in {ended, req[w].micros}
           /\ pc' = [pc EXCEPT ![w] = "written"]
<1>1. req[w].status \in Statuses /\ req[w].micros \in Nat
  BY DEF TypeOK, Request
<1>2. req' = [req EXCEPT ![w] = AnswerOf(req[w].status)]
  BY DEF Returns, AnswerOf
<1>3. /\ req' \in [Threads -> Request] /\ req'[w] = AnswerOf(req[w].status)
      /\ \A v \in Threads : v # w => req'[v] = req[v]
  BY <1>1, <1>2, Answer, Replaced
<1>4. /\ ended' \in Nat /\ ended' >= ended /\ ended' >= req[w].micros
      /\ ended' \in {ended, req[w].micros}
  BY <1>1 DEF Returns, TypeOK, Larger
<1>5. QED
  BY <1>1, <1>3, <1>4, Answer DEF Returns, Goto

\* LogStore.Add has stored a line: log.Printf returns, or the request ends.
LEMMA LineAdded ==
    ASSUME TypeOK, NEW w \in Threads, pc[w] \in {"request", "access"}, Added(w)
    PROVE  /\ Line(w) \in Lines
           /\ history' \in Seq(Lines) /\ Len(history) \in Nat
           /\ Len(history') = Len(history) + 1
           /\ \A i \in 1 .. Len(history) : history'[i] = history[i]
           /\ history'[Len(history) + 1] = Line(w)
           /\ RequestsOK' /\ pc' \in [Threads -> PCs]
           /\ \A v \in Threads : v # w => req'[v] = req[v]
           /\ \/ /\ pc[w] = "request" /\ req'[w] = req[w]
                 /\ req[w].route \in Refusals /\ pc'[w] = "refuse"
                 /\ Line(w) = <<"refuse", Refusal[req[w].route]>>
              \/ /\ pc[w] = "request" /\ req'[w] = req[w]
                 /\ req[w].route \notin Refusals /\ pc'[w] = "handler"
                 /\ Line(w) = <<"request", 0>>
              \/ /\ pc[w] = "access" /\ req'[w] = Idle /\ pc'[w] = "idle"
                 /\ Line(w) = <<"access", req[w].status>>
           /\ UNCHANGED m
<1>0. /\ req[w].status \in Statuses /\ 0 \in Statuses
      /\ \A r \in Refusals : Refusal[r] \in Statuses
  BY Kinds DEF TypeOK, Request, Statuses
<1>1. /\ pc[w] = "request" /\ req[w].route \in Refusals =>
            Line(w) = <<"refuse", Refusal[req[w].route]>>
      /\ pc[w] = "request" /\ req[w].route \notin Refusals =>
            Line(w) = <<"request", 0>>
      /\ pc[w] = "access" => Line(w) = <<"access", req[w].status>>
  BY DEF Line
<1>2. Line(w) \in Lines
  BY <1>0, <1>1 DEF Lines
<1>3. /\ history' \in Seq(Lines) /\ Len(history) \in Nat
      /\ Len(history') = Len(history) + 1
      /\ \A i \in 1 .. Len(history) : history'[i] = history[i]
      /\ history'[Len(history) + 1] = Line(w)
  <2>1. history \in Seq(Lines) /\ history' = Append(history, Line(w))
    BY DEF TypeOK, Added
  <2>2. QED
    BY <1>2, <2>1
<1>4. CASE pc[w] = "request"
  <2>1. /\ UNCHANGED <<req, m>>
        /\ pc' = [pc EXCEPT ![w] = IF req[w].route \in Refusals
                                   THEN "refuse" ELSE "handler"]
    BY <1>4 DEF Added, Goto
  <2>2. pc' \in [Threads -> PCs]
    BY <2>1 DEF TypeOK, PCs
  <2>3. QED
    BY <1>1, <1>2, <1>3, <1>4, <2>1, <2>2 DEF TypeOK, RequestsOK
<1>5. CASE pc[w] = "access"
  <2>1. /\ req' = [req EXCEPT ![w] = Idle] /\ UNCHANGED m
        /\ pc' = [pc EXCEPT ![w] = "idle"]
    BY <1>5 DEF Added, Goto
  <2>2. /\ req' \in [Threads -> Request] /\ req'[w] = Idle
        /\ \A v \in Threads : v # w => req'[v] = req[v]
    BY <2>1, IdleType, Replaced
  <2>3. Len(Idle.loaded) <= Len(Loads)
    BY Nothing, LoadsAre
  <2>4. RequestsOK'
    BY <2>2, <2>3 DEF RequestsOK, TypeOK
  <2>5. pc' \in [Threads -> PCs] /\ pc'[w] = "idle"
    BY <2>1 DEF TypeOK, PCs
  <2>6. QED
    BY <1>1, <1>2, <1>3, <1>5, <2>1, <2>2, <2>4, <2>5
<1>6. QED
  BY <1>4, <1>5

-----------------------------------------------------------------------------
(* Every step preserves each part of the invariant.                        *)

LEMMA TypeStep ==
    ASSUME Inv, [Next]_vars
    PROVE  TypeOK'
<1> USE MonitorAssumption, FiniteThreads
    DEF Inv, TypeOK, RequestsOK, logVars, maxVars, Goto, PCs
<1>1. CASE \E w \in Threads : Comes(w)
  <2>1. PICK w \in Threads : Comes(w)
    BY <1>1
  <2>2. /\ RequestsOK' /\ m' \in [Counters -> Nat]
        /\ pc' = [pc EXCEPT ![w] = "request"]
        /\ UNCHANGED <<mu, entries, history, begun, ended>>
    BY <2>1, Came
  <2>3. QED
    BY <2>2
<1>2. CASE \E w \in Threads : Handle(w)
  BY <1>2 DEF Handle
<1>3. CASE \E w \in Threads : Load(w)
  <2>1. PICK w \in Threads : Load(w)
    BY <1>3
  <2> DEFINE t == Append(req[w].loaded, m[Loads[Len(req[w].loaded) + 1]])
  <2>2. req[w].loaded \in Seq(Nat) /\ Len(req[w].loaded) < Len(Loads)
    BY <2>1 DEF Load, Locals, Local, Request
  <2>3. t \in Seq(Nat) /\ Len(t) <= Len(Loads)
    BY <2>2, NextLoad
  <2>4. /\ req' = [req EXCEPT ![w].loaded = t] /\ pc' \in [Threads -> PCs]
        /\ UNCHANGED <<m, mu, entries, history, begun, ended>>
    BY <2>1 DEF Load
  <2> HIDE DEF t
  <2>5. RequestsOK'
    BY <2>3, <2>4 DEF Request
  <2>6. QED
    BY <2>4, <2>5
<1>4. CASE \E w \in Threads : RecentLogs(w)
  <2>1. PICK w \in Threads : RecentLogs(w)
    BY <1>4
  <2> DEFINE t == Last(entries, Smaller(LogLimit(req[w].limit), Len(entries)))
  <2>2. t \in Seq(Lines)
    <3>1. Smaller(LogLimit(req[w].limit), Len(entries)) \in 0 .. Len(entries)
      <4>1. LogLimit(req[w].limit) \in Nat
        BY LogLimitType DEF Request
      <4>2. QED
        BY <4>1 DEF Smaller
    <3>2. QED
      BY <3>1, LastProperties
  <2>3. /\ req' = [req EXCEPT ![w].tail = t] /\ pc' \in [Threads -> PCs]
        /\ UNCHANGED <<m, mu, entries, history, begun, ended>>
    BY <2>1 DEF RecentLogs
  <2> HIDE DEF t
  <2>4. RequestsOK'
    BY <2>2, <2>3 DEF Request
  <2>5. QED
    BY <2>3, <2>4
<1>5. CASE \E w \in Threads : Respond(w)
  <2>1. PICK w \in Threads : Respond(w)
    BY <1>5
  <2>2. PICK code \in {200, 405, 500} : Write(w, code)
    BY <2>1 DEF Respond
  <2>3. RequestsOK' /\ m' \in [Counters -> Nat]
    <3>1. Len(<<>>) <= Len(Loads)
      BY LoadsAre
    <3>2. /\ req' \in [Threads -> Request] /\ m' \in [Counters -> Nat]
          /\ \A v \in Threads : v # w => req'[v] = req[v]
          /\ req'[w].loaded = <<>>
      BY <2>2, Wrote
    <3>3. QED
      BY <3>1, <3>2
  <2>4. QED
    BY <2>1, <2>3 DEF Respond
<1>6. CASE \E w \in Threads : Record(w)
  <2>1. PICK w \in Threads, d \in Durations :
           /\ Record(w)
           /\ \/ UNCHANGED <<req, m, maxVars>> /\ Goto(w, "written")
              \/ /\ d >= 0
                 /\ req' = [req EXCEPT ![w].micros = d]
                 /\ AtomicAdd("total", d)
                 /\ Goto(w, "load")
                 /\ begun' = Larger(begun, d) /\ UNCHANGED ended
    BY <1>6 DEF Record
  <2>2. CASE UNCHANGED <<req, m, maxVars>> /\ Goto(w, "written")
    BY <2>1, <2>2 DEF Record
  <2>3. CASE /\ d >= 0
             /\ req' = [req EXCEPT ![w].micros = d]
             /\ AtomicAdd("total", d)
             /\ Goto(w, "load")
             /\ begun' = Larger(begun, d) /\ UNCHANGED ended
    <3>1. d \in Nat
      BY <2>3
    <3>2. RequestsOK'
      BY <2>3, <3>1 DEF Request
    <3>3. m' \in [Counters -> Nat] /\ begun' \in Nat
      BY <2>3, <3>1 DEF AtomicAdd, Counters, Larger
    <3>4. QED
      BY <2>1, <2>3, <3>2, <3>3 DEF Record
  <2>4. QED
    BY <2>1, <2>2, <2>3
<1>7. CASE \E w \in Threads : LoadMax(w)
  <2>1. PICK w \in Threads : LoadMax(w)
    BY <1>7
  <2>2. CASE Returns(w)
    <3>1. RequestsOK'
      BY <2>2, Returned, NoLoads
    <3>2. ended' \in Nat /\ pc' \in [Threads -> PCs]
      BY <2>2, Returned
    <3>3. QED
      BY <2>1, <3>1, <3>2 DEF LoadMax
  <2>3. CASE /\ req' = [req EXCEPT ![w].current = m["max"]]
             /\ Goto(w, "cas") /\ UNCHANGED ended
    <3>1. m["max"] \in Nat
      BY DEF Counters
    <3>2. RequestsOK'
      BY <2>3, <3>1 DEF Request
    <3>3. QED
      BY <2>1, <2>3, <3>2 DEF LoadMax
  <2>4. QED
    BY <2>1, <2>2, <2>3 DEF LoadMax
<1>8. CASE \E w \in Threads : CompareAndSwap(w)
  <2>1. PICK w \in Threads : CompareAndSwap(w)
    BY <1>8
  <2>2. CASE Returns(w) /\ m' = [m EXCEPT !["max"] = req[w].micros]
    <3>1. m' \in [Counters -> Nat]
      <4>1. req[w].micros \in Nat
        BY DEF Request
      <4>2. QED
        BY <2>2, <4>1 DEF Counters
    <3>2. QED
      <4>1. RequestsOK'
        BY <2>2, Returned, NoLoads
      <4>2. ended' \in Nat /\ pc' \in [Threads -> PCs]
        BY <2>2, Returned
      <4>3. QED
        BY <2>1, <3>1, <4>1, <4>2 DEF CompareAndSwap
  <2>3. CASE Goto(w, "load") /\ UNCHANGED <<req, m, ended>>
    BY <2>1, <2>3 DEF CompareAndSwap
  <2>4. QED
    BY <2>1, <2>2, <2>3 DEF CompareAndSwap
<1>9. CASE \E w \in Threads : Fallback(w)
  <2>1. PICK w \in Threads : Fallback(w)
    BY <1>9
  <2>2. RequestsOK' /\ m' \in [Counters -> Nat]
    <3>1. CASE Write(w, 500)
      <4>1. /\ req' \in [Threads -> Request] /\ m' \in [Counters -> Nat]
            /\ \A v \in Threads : v # w => req'[v] = req[v]
            /\ req'[w].loaded = <<>>
        BY <3>1, Wrote
      <4>2. Len(<<>>) <= Len(Loads)
        BY LoadsAre
      <4>3. QED
        BY <4>1, <4>2
    <3>2. CASE UNCHANGED <<req, m>>
      BY <3>2
    <3>3. QED
      BY <2>1, <3>1, <3>2 DEF Fallback
  <2>3. QED
    BY <2>1, <2>2 DEF Fallback
<1>10. CASE \E w \in Threads : AddAppends(w)
  <2>1. PICK w \in Threads : AddAppends(w)
    BY <1>10
  <2>2. /\ pc[w] \in {"request", "access"} /\ Added(w)
        /\ entries' = Append(entries, Line(w)) /\ Len(entries) < LogMax
    BY <2>1 DEF AddAppends
  <2>3. Line(w) \in Lines
    BY <2>2, LineAdded
  <2>4. entries' \in Seq(Lines) /\ Len(entries') <= LogMax
    BY <2>2, <2>3
  <2>5. QED
    BY <2>2, <2>4, LineAdded DEF Added
<1>11. CASE \E w \in Threads : AddShifts(w)
  <2>1. PICK w \in Threads : AddShifts(w)
    BY <1>11
  <2>2. Len(entries) \in Nat /\ Len(entries) = LogMax /\ LogMax > 0
    BY <2>1 DEF AddShifts
  <2>3. entries' \in Seq(Lines) /\ Len(entries') <= LogMax
    BY <2>1, <2>2 DEF AddShifts
  <2>4. QED
    BY <2>1, <2>3 DEF AddShifts
<1>12. CASE \E w \in Threads : AddStores(w)
  <2>1. PICK w \in Threads : AddStores(w)
    BY <1>12
  <2>2. /\ pc[w] \in {"request", "access"} /\ Added(w)
        /\ entries' = [entries EXCEPT ![Len(entries)] = Line(w)]
    BY <2>1 DEF AddStores, Stored
  <2>3. Line(w) \in Lines
    BY <2>2, LineAdded
  <2>4. entries' \in Seq(Lines) /\ Len(entries') <= LogMax
    <3>1. Len(entries) = LogMax /\ Len(entries) \in 1 .. Len(entries)
      BY <2>1 DEF AddStores, Stored
    <3>2. QED
      BY <2>2, <2>3, <3>1, ExceptSeq
  <2>5. QED
    BY <2>2, <2>4, LineAdded DEF Added
<1>13. CASE UNCHANGED vars
  BY <1>13 DEF vars
<1>14. CASE \E w \in Threads : Refuse(w)
  <2>1. PICK w \in Threads : Refuse(w)
    BY <1>14
  <2>2. /\ RequestsOK' /\ m' \in [Counters -> Nat]
        /\ pc' = [pc EXCEPT ![w] = "idle"]
        /\ UNCHANGED <<mu, entries, history, begun, ended>>
    BY <2>1, Refused
  <2>3. QED
    BY <2>2
<1>15. QED
  BY <1>1, <1>2, <1>3, <1>4, <1>5, <1>6, <1>7, <1>8, <1>9, <1>10, <1>11,
     <1>12, <1>13, <1>14, NextCases, Zenon DEF Step


\* A step of one worker leaves the requests of the others alone; the counters
\* and the longest duration only grow.
LEMMA Frame ==
    ASSUME Inv, NEW w \in Threads, Comes(w) \/ Step(w)
    PROVE  /\ \A v \in Threads : v # w => pc'[v] = pc[v] /\ req'[v] = req[v]
           /\ \A c \in Counters : m[c] \in Nat /\ m'[c] \in Nat /\ m[c] <= m'[c]
           /\ begun \in Nat /\ begun' \in Nat /\ begun <= begun'
<1> USE DEF Inv, TypeOK, logVars, maxVars, Goto
<1>0. m \in [Counters -> Nat] /\ begun \in Nat
  OBVIOUS
<1>1. CASE Comes(w)
  <2>1. /\ \A v \in Threads : v # w => pc'[v] = pc[v] /\ req'[v] = req[v]
        /\ UNCHANGED begun /\ m' \in [Counters -> Nat]
    BY <1>1, Came
  <2>2. PICK c : m' = [m EXCEPT ![c] = m[c] + 1]
    BY <1>1, Came
  <2>3. \A d \in Counters : m'[d] \in Nat /\ m[d] <= m'[d]
    BY <1>0, <2>2
  <2>4. QED
    BY <1>0, <2>1, <2>3
<1>2. CASE Handle(w)
  BY <1>0, <1>2 DEF Handle
<1>3. CASE Load(w)
  BY <1>0, <1>3 DEF Load
<1>4. CASE RecentLogs(w)
  BY <1>0, <1>4 DEF RecentLogs
<1>5. CASE Respond(w)
  <2>1. PICK code \in {200, 405, 500} : Write(w, code)
    BY <1>5 DEF Respond
  <2>2. /\ \A v \in Threads : v # w => req'[v] = req[v]
        /\ m' = [m EXCEPT ![Class(code)] = @ + 1] \/ UNCHANGED m
    BY <2>1, Wrote
  <2>3. \A c \in Counters : m'[c] \in Nat /\ m[c] <= m'[c]
    BY <1>0, <2>2
  <2>4. QED
    BY <1>0, <1>5, <2>2, <2>3 DEF Respond
<1>6. CASE Record(w)
  <2>1. \A v \in Threads : v # w => pc'[v] = pc[v] /\ req'[v] = req[v]
    BY <1>6 DEF Record
  <2>2. PICK d \in Durations :
           \/ UNCHANGED <<m, begun>>
           \/ /\ d >= 0 /\ m' = [m EXCEPT !["total"] = @ + d]
              /\ begun' = Larger(begun, d)
    BY <1>6 DEF Record, AtomicAdd
  <2>3. d \in Int /\ "total" \in Counters
    BY MonitorAssumption DEF Counters
  <2>4. begun' \in Nat /\ begun <= begun'
    BY <1>0, <2>2, <2>3 DEF Larger
  <2>5. \A c \in Counters : m[c] \in Nat /\ m'[c] \in Nat /\ m[c] <= m'[c]
    BY <1>0, <2>2, <2>3
  <2>6. QED
    BY <1>0, <2>1, <2>4, <2>5
<1>7. CASE LoadMax(w)
  BY <1>0, <1>7, Returned DEF LoadMax
<1>8. CASE CompareAndSwap(w)
  <2>1. CASE Returns(w) /\ m["max"] = req[w].current /\ pc[w] = "cas"
             /\ m' = [m EXCEPT !["max"] = req[w].micros]
    <3>1. m["max"] <= req[w].micros /\ req[w].micros \in Nat
      BY <2>1 DEF Locals, Local, Request
    <3>2. \A c \in Counters : m'[c] \in Nat /\ m[c] <= m'[c]
      BY <1>0, <2>1, <3>1
    <3>3. QED
      BY <1>0, <1>8, <2>1, <3>2, Returned DEF CompareAndSwap
  <2>2. CASE Goto(w, "load") /\ UNCHANGED <<req, m, ended>>
    BY <1>0, <1>8, <2>2 DEF CompareAndSwap
  <2>3. QED
    BY <1>8, <2>1, <2>2 DEF CompareAndSwap
<1>9. CASE Fallback(w)
  <2>1. CASE UNCHANGED <<req, m>>
    BY <1>0, <1>9, <2>1 DEF Fallback
  <2>2. CASE Write(w, 500)
    <3>1. /\ \A v \in Threads : v # w => req'[v] = req[v]
          /\ m' = [m EXCEPT ![Class(500)] = @ + 1] \/ UNCHANGED m
      BY <2>2, Wrote
    <3>2. \A c \in Counters : m'[c] \in Nat /\ m[c] <= m'[c]
      BY <1>0, <3>1
    <3>3. QED
      BY <1>0, <1>9, <3>1, <3>2 DEF Fallback
  <2>3. QED
    BY <1>9, <2>1, <2>2 DEF Fallback
<1>10. CASE AddAppends(w)
  BY <1>0, <1>10 DEF AddAppends, Added
<1>11. CASE AddShifts(w)
  BY <1>0, <1>11 DEF AddShifts
<1>12. CASE AddStores(w)
  BY <1>0, <1>12 DEF AddStores, Added
<1>13. CASE Refuse(w)
  <2>1. /\ \A v \in Threads : v # w => pc'[v] = pc[v] /\ req'[v] = req[v]
        /\ UNCHANGED begun
    BY <1>13, Refused
  <2>2. \A d \in Counters : m'[d] \in Nat /\ m[d] <= m'[d]
    <3>1. CASE UNCHANGED m
      BY <1>0, <3>1
    <3>2. ASSUME NEW c, m' = [m EXCEPT ![c] = m[c] + 1]
          PROVE  \A d \in Counters : m'[d] \in Nat /\ m[d] <= m'[d]
      BY <1>0, <3>2
    <3>3. QED
      BY <1>13, <3>1, <3>2, Refused
  <2>3. QED
    BY <1>0, <2>1, <2>2
<1>14. QED
  BY <1>1, <1>2, <1>3, <1>4, <1>5, <1>6, <1>7, <1>8, <1>9, <1>10, <1>11,
     <1>12, <1>13 DEF Step

LEMMA LocalsStep ==
    ASSUME Inv, [Next]_vars
    PROVE  Locals'
<1> USE DEF Inv, TypeOK, logVars, maxVars, Goto
<1>0. CASE UNCHANGED vars
  BY <1>0 DEF vars, Locals, Local
<1>1. SUFFICES ASSUME NEW w \in Threads, Comes(w) \/ Step(w)
               PROVE  Local(w)'
  <2>1. ASSUME NEW w \in Threads, Comes(w) \/ Step(w),
               NEW v \in Threads, v # w
        PROVE  Local(v)'
    <3>1. Local(v) /\ req[v].micros \in Nat
      BY <2>1 DEF Locals, Request
    <3>2. QED
      BY <2>1, <3>1, Frame DEF Local
  <2>2. QED
    BY <1>0, <1>1, <2>1, NextCases DEF Locals
<1>2. Local(w)
  BY DEF Locals
<1>3. CASE Comes(w)
  <2>1. pc'[w] = "request" /\ req'[w].status = 0 /\ req'[w].loaded = <<>>
    BY <1>3, Came
  <2>2. QED
    BY <2>1 DEF Local, Inside
<1>4. CASE Handle(w)
  <2>1. req'[w] = req[w] /\ pc[w] = "handler" /\ pc'[w] \in {"snapshot", "write"}
    BY <1>4 DEF Handle
  <2>2. Len(<<>>) < Len(Loads)
    BY LoadsAre
  <2>3. QED
    BY <1>2, <2>1, <2>2 DEF Local, Inside
<1>5. CASE Load(w)
  <2>1. req[w].loaded \in Seq(Nat) /\ Len(req[w].loaded) < Len(Loads)
    BY <1>2, <1>5 DEF Load, Local, Request
  <2> DEFINE t == Append(req[w].loaded, m[Loads[Len(req[w].loaded) + 1]])
  <2>2. Len(t) = Len(Loads) \/ Len(t) < Len(Loads)
    BY <2>1, NextLoad
  <2>3. /\ req'[w].loaded = t /\ req'[w].status = req[w].status
        /\ pc[w] = "snapshot"
        /\ pc'[w] = IF Len(t) = Len(Loads) THEN "write" ELSE "snapshot"
    BY <1>5 DEF Load, Request
  <2> HIDE DEF t
  <2>4. /\ pc'[w] \in {"snapshot", "write"}
        /\ pc'[w] = "snapshot" => Len(t) < Len(Loads)
    <3>1. CASE Len(t) = Len(Loads)
      BY <2>3, <3>1
    <3>2. CASE Len(t) # Len(Loads)
      BY <2>2, <2>3, <3>2
    <3>3. QED
      BY <3>1, <3>2
  <2>5. req'[w].status = 0
    BY <1>2, <2>3 DEF Local
  <2>6. QED
    BY <2>3, <2>4, <2>5 DEF Local, Inside
<1>6. CASE RecentLogs(w)
  <2>1. /\ req'[w].loaded = req[w].loaded /\ req'[w].status = req[w].status
        /\ pc[w] = "handler" /\ pc'[w] = "write"
    BY <1>6 DEF RecentLogs, Request
  <2>2. QED
    BY <1>2, <2>1 DEF Local, Inside
<1>7. CASE Respond(w)
  <2>1. PICK code \in {200, 405, 500} : Write(w, code)
    BY <1>7 DEF Respond
  <2>2. req'[w].loaded = <<>> /\ pc'[w] = "record"
    BY <1>7, <2>1, Wrote DEF Respond
  <2>3. QED
    BY <2>2 DEF Local, Inside
<1>8. CASE Record(w)
  <2>1. pc[w] = "record" /\ req[w].loaded = <<>>
    BY <1>2, <1>8 DEF Record, Local
  <2>2. \/ pc'[w] = "written" /\ req'[w].loaded = req[w].loaded
        \/ /\ pc'[w] = "load" /\ req'[w].loaded = req[w].loaded
           /\ req'[w].micros <= begun'
    BY <1>8, MonitorAssumption DEF Record, Request, Larger
  <2>3. QED
    BY <2>1, <2>2 DEF Local, Inside
<1>9. CASE LoadMax(w)
  <2>1. CASE Returns(w)
    BY <2>1, Returned DEF Local, Inside
  <2>2. CASE ~Returns(w)
    <3>1. /\ pc[w] = "load" /\ pc'[w] = "cas" /\ begun' = begun
          /\ req'[w].current = m["max"] /\ req'[w].micros = req[w].micros
          /\ req'[w].loaded = req[w].loaded /\ m["max"] < req[w].micros
      BY <1>9, <2>2 DEF LoadMax, Request, Counters
    <3>2. QED
      BY <1>2, <3>1 DEF Local, Inside
  <2>3. QED
    BY <2>1, <2>2
<1>10. CASE CompareAndSwap(w)
  <2>1. CASE Returns(w)
    BY <2>1, Returned DEF Local, Inside
  <2>2. CASE ~Returns(w)
    BY <1>2, <1>10, <2>2 DEF CompareAndSwap, Local, Inside
  <2>3. QED
    BY <2>1, <2>2
<1>11. CASE Fallback(w)
  <2>1. pc[w] = "written" /\ pc'[w] = "access" /\ req[w].loaded = <<>>
    BY <1>2, <1>11 DEF Fallback, Local
  <2>2. req'[w].loaded = <<>>
    <3>1. CASE UNCHANGED <<req, m>>
      BY <2>1, <3>1
    <3>2. CASE Write(w, 500)
      BY <3>2, Wrote
    <3>3. QED
      BY <1>11, <3>1, <3>2 DEF Fallback
  <2>3. QED
    BY <2>1, <2>2 DEF Local, Inside
<1>12. CASE AddAppends(w) \/ AddStores(w)
  <2>1. pc[w] \in {"request", "access"} /\ Added(w)
    BY <1>12, FiniteThreads DEF AddAppends, AddStores, Stored
  <2>2. \/ pc[w] = "request" /\ pc'[w] = "handler" /\ req'[w] = req[w]
        \/ /\ pc[w] = "request" /\ pc'[w] = "refuse" /\ req'[w] = req[w]
           /\ req[w].route \in Refusals
        \/ pc[w] = "access" /\ pc'[w] = "idle" /\ req'[w] = Idle
    BY <2>1, LineAdded
  <2>3. QED
    BY <1>2, <2>2, Nothing DEF Local, Inside
<1>13. CASE AddShifts(w)
  BY <1>2, <1>13 DEF AddShifts, Local
<1>14. CASE Refuse(w)
  <2>1. pc'[w] = "idle" /\ req'[w] = Idle
    BY <1>14, Refused
  <2>2. QED
    BY <2>1, Nothing DEF Local, Inside
<1>15. QED
  BY <1>1, <1>3, <1>4, <1>5, <1>6, <1>7, <1>8, <1>9, <1>10, <1>11, <1>12,
     <1>13, <1>14 DEF Step

\* What is not the end of RecordRequestDuration does not move the maximum.
LEMMA Outside ==
    ASSUME Inv, NEW w \in Threads, Comes(w) \/ Step(w),
           ~Record(w), ~LoadMax(w), ~CompareAndSwap(w)
    PROVE  /\ UNCHANGED <<begun, ended>>
           /\ m'["max"] = m["max"] /\ m'["total"] = m["total"]
           /\ pc[w] \notin Inside \cup {"record"} /\ pc'[w] \notin Inside
<1> USE DEF Inv, TypeOK, logVars, maxVars, Goto, Inside
<1>0. /\ pc \in [Threads -> PCs] /\ m \in [Counters -> Nat]
      /\ {"max", "total", "requests"} \subseteq Counters
  BY DEF Counters
<1>1. CASE Comes(w)
  <2>1. /\ pc[w] = "idle" /\ pc'[w] = "request"
        /\ UNCHANGED <<begun, ended>>
    BY <1>0, <1>1, Came
  <2>2. PICK c \in {"requests"} \cup Rejects : m' = [m EXCEPT ![c] = m[c] + 1]
    BY <1>1, CameCounter
  <2>3. c # "max" /\ c # "total"
    BY Kinds
  <2>4. QED
    BY <1>0, <2>1, <2>2, <2>3
<1>2. CASE Handle(w)
  BY <1>0, <1>2 DEF Handle
<1>3. CASE Load(w)
  BY <1>0, <1>3 DEF Load
<1>4. CASE RecentLogs(w)
  BY <1>0, <1>4 DEF RecentLogs
<1>5. CASE Respond(w)
  <2>1. PICK code \in {200, 405, 500} : Write(w, code)
    BY <1>5 DEF Respond
  <2>2. m'["max"] = m["max"] /\ m'["total"] = m["total"]
    <3>1. m' = [m EXCEPT ![Class(code)] = @ + 1] \/ UNCHANGED m
      BY <2>1, Wrote
    <3>2. QED
      BY <1>0, <3>1, Classes
  <2>3. QED
    BY <1>0, <1>5, <2>2 DEF Respond
<1>6. CASE Fallback(w)
  <2>1. m'["max"] = m["max"] /\ m'["total"] = m["total"]
    <3>1. m' = [m EXCEPT ![Class(500)] = @ + 1] \/ UNCHANGED m
      BY <1>6, Wrote DEF Fallback
    <3>2. QED
      BY <1>0, <3>1, Classes
  <2>2. QED
    BY <1>0, <1>6, <2>1 DEF Fallback
<1>7. CASE AddAppends(w) \/ AddStores(w)
  <2>1. pc[w] \in {"request", "access"} /\ Added(w)
    BY <1>7, FiniteThreads DEF AddAppends, AddStores, Stored
  <2>2. QED
    BY <1>0, <2>1 DEF Added
<1>8. CASE AddShifts(w)
  BY <1>0, <1>8 DEF AddShifts
<1>9. CASE Refuse(w)
  <2>1. /\ pc[w] = "refuse" /\ pc'[w] = "idle" /\ UNCHANGED <<begun, ended>>
        /\ req[w].route \in Refusals
    BY <1>0, <1>9, Refused
  <2>2. PICK c \in {"4xx", "5xx"} :
           m' = [m EXCEPT ![c] = m[c] + 1] \/ UNCHANGED m
    BY <1>9, RefusedClass
  <2>3. m'["max"] = m["max"] /\ m'["total"] = m["total"]
    BY <1>0, <2>2
  <2>4. QED
    BY <2>1, <2>3
<1>10. QED
  BY <1>1, <1>2, <1>3, <1>4, <1>5, <1>6, <1>7, <1>8, <1>9 DEF Step

LEMMA MaximumStep ==
    ASSUME Inv, [Next]_vars
    PROVE  Maximum'
<1> DEFINE Late(v) == pc[v] \in Inside /\ req[v].micros = begun
<1>0. CASE UNCHANGED vars
  BY <1>0 DEF vars, Maximum, Inv
<1>1. SUFFICES ASSUME NEW w \in Threads, Comes(w) \/ Step(w)
               PROVE  Maximum'
  BY <1>0, NextCases
<1>2. /\ ended \in Nat /\ begun \in Nat /\ m["max"] \in Nat
      /\ ended <= m["max"] /\ m["max"] <= begun
      /\ begun <= ended \/ \E v \in Threads : Late(v)
      /\ m \in [Counters -> Nat] /\ "max" \in Counters /\ "total" \in Counters
      /\ pc \in [Threads -> PCs] /\ req[w].micros \in Nat
  BY DEF Inv, TypeOK, Maximum, Counters, Request
<1>3. \A v \in Threads : v # w => pc'[v] = pc[v] /\ req'[v] = req[v]
  BY <1>1, Frame
<1>4. CASE Record(w)
  <2>1. CASE UNCHANGED <<req, m, maxVars>> /\ pc'[w] = "written"
    BY <1>2, <1>3, <1>4, <2>1 DEF Record, Maximum, maxVars, Inside
  <2>2. ASSUME NEW d \in Durations, d >= 0,
               req' = [req EXCEPT ![w].micros = d], AtomicAdd("total", d),
               Goto(w, "load"), begun' = Larger(begun, d), UNCHANGED ended
        PROVE  Maximum'
    <3>1. /\ d \in Nat /\ pc'[w] = "load" /\ req'[w].micros = d
          /\ m'["max"] = m["max"] /\ pc[w] = "record"
      BY <1>2, <1>4, <2>2, MonitorAssumption
         DEF Record, Goto, AtomicAdd, Inv, TypeOK, Request
    <3>2. CASE d > begun
      BY <1>2, <2>2, <3>1, <3>2 DEF Larger, Maximum, Inside
    <3>3. CASE d <= begun
      <4>1. begun' = begun
        BY <1>2, <2>2, <3>1, <3>3 DEF Larger
      <4>2. \A v \in Threads : Late(v) => Late(v)'
        BY <1>3, <3>1, <4>1 DEF Inside
      <4>3. QED
        BY <1>2, <2>2, <3>1, <4>1, <4>2 DEF Maximum
    <3>4. QED
      BY <1>2, <3>1, <3>2, <3>3
  <2>3. QED
    BY <1>2, <1>4, <2>1, <2>2 DEF Record, Goto
<1>5. ASSUME Returns(w), UNCHANGED begun, m'["max"] \in Nat,
             req[w].micros <= m'["max"], m["max"] <= m'["max"],
             m'["max"] <= begun
      PROVE  Maximum'
  <2>1. /\ ended' \in Nat /\ ended' >= ended /\ ended' >= req[w].micros
        /\ ended' \in {ended, req[w].micros}
    BY <1>5, Returned DEF Inv
  <2>2. CASE begun <= ended
    BY <1>2, <1>5, <2>1, <2>2 DEF Maximum
  <2>3. ASSUME NEW v \in Threads, Late(v) PROVE Maximum'
    <3>1. CASE v = w
      BY <1>2, <1>5, <2>1, <2>3, <3>1 DEF Maximum
    <3>2. CASE v # w
      BY <1>2, <1>3, <1>5, <2>1, <2>3, <3>2 DEF Maximum
    <3>3. QED
      BY <3>1, <3>2
  <2>4. QED
    BY <1>2, <2>2, <2>3
<1>6. CASE LoadMax(w)
  <2>1. CASE Returns(w) /\ req[w].micros <= m["max"]
    BY <1>2, <1>5, <1>6, <2>1 DEF LoadMax
  <2>2. CASE req' = [req EXCEPT ![w].current = m["max"]] /\ Goto(w, "cas")
             /\ UNCHANGED ended
    <3>1. /\ pc'[w] = "cas" /\ pc[w] = "load" /\ req'[w].micros = req[w].micros
          /\ UNCHANGED <<m, begun>>
      BY <1>2, <1>6, <2>2 DEF LoadMax, Goto, Inv, TypeOK, Request
    <3>2. \A v \in Threads : Late(v) => Late(v)'
      BY <1>3, <3>1 DEF Inside
    <3>3. QED
      BY <1>2, <2>2, <3>1, <3>2 DEF Maximum
  <2>3. QED
    BY <1>6, <2>1, <2>2 DEF LoadMax
<1>7. CASE CompareAndSwap(w)
  <2>0. /\ pc[w] = "cas" /\ req[w].micros <= begun
        /\ req[w].current < req[w].micros /\ UNCHANGED begun
    BY <1>7 DEF CompareAndSwap, Inv, Locals, Local, Inside
  <2>1. CASE /\ m["max"] = req[w].current
             /\ m' = [m EXCEPT !["max"] = req[w].micros]
             /\ Returns(w)
    BY <1>2, <1>5, <2>0, <2>1
  <2>2. CASE Goto(w, "load") /\ UNCHANGED <<req, m, ended>>
    <3>1. pc'[w] = "load"
      BY <1>2, <2>2 DEF Goto
    <3>2. \A v \in Threads : Late(v) => Late(v)'
      BY <1>3, <2>0, <2>2, <3>1 DEF Inside
    <3>3. QED
      BY <1>2, <2>0, <2>2, <3>2 DEF Maximum
  <2>3. QED
    BY <1>7, <2>1, <2>2 DEF CompareAndSwap
<1>8. CASE ~Record(w) /\ ~LoadMax(w) /\ ~CompareAndSwap(w)
  <2>1. /\ UNCHANGED <<begun, ended>> /\ m'["max"] = m["max"]
        /\ pc[w] \notin Inside
    BY <1>1, <1>8, Outside
  <2>2. \A v \in Threads : Late(v) => Late(v)'
    BY <1>3, <2>1
  <2>3. QED
    BY <1>2, <2>1, <2>2 DEF Maximum
<1>9. QED
  BY <1>4, <1>6, <1>7, <1>8

\* Only Begin and Record move the set of unrecorded requests.
LEMMA SameUnrecorded ==
    ASSUME Inv, NEW w \in Threads, Step(w), ~Record(w)
    PROVE  /\ w \in Unrecorded' <=> w \in Unrecorded
           /\ m'["requests"] = m["requests"] /\ m'["total"] = m["total"]
           /\ UNCHANGED begun
<1> USE DEF Inv, TypeOK, logVars, maxVars, Goto, Unrecorded
<1>0. /\ pc \in [Threads -> PCs] /\ m \in [Counters -> Nat]
      /\ {"max", "total", "requests"} \subseteq Counters
  BY DEF Counters
<1>1. CASE Handle(w)
  BY <1>0, <1>1 DEF Handle
<1>2. CASE Load(w)
  BY <1>0, <1>2 DEF Load
<1>3. CASE RecentLogs(w)
  BY <1>0, <1>3 DEF RecentLogs
<1>4. CASE Respond(w)
  <2>1. PICK code \in {200, 405, 500} : Write(w, code)
    BY <1>4 DEF Respond
  <2>2. m'["requests"] = m["requests"] /\ m'["total"] = m["total"]
    <3>1. m' = [m EXCEPT ![Class(code)] = @ + 1] \/ UNCHANGED m
      BY <2>1, Wrote
    <3>2. QED
      BY <1>0, <3>1, Classes
  <2>3. QED
    BY <1>0, <1>4, <2>2 DEF Respond
<1>5. CASE LoadMax(w)
  BY <1>0, <1>5 DEF LoadMax, Returns
<1>6. CASE CompareAndSwap(w)
  BY <1>0, <1>6 DEF CompareAndSwap, Returns
<1>7. CASE Fallback(w)
  <2>1. m'["requests"] = m["requests"] /\ m'["total"] = m["total"]
    <3>1. m' = [m EXCEPT ![Class(500)] = @ + 1] \/ UNCHANGED m
      BY <1>7, Wrote DEF Fallback
    <3>2. QED
      BY <1>0, <3>1, Classes
  <2>2. QED
    BY <1>0, <1>7, <2>1 DEF Fallback
<1>8. CASE AddAppends(w) \/ AddStores(w)
  <2>1. pc[w] \in {"request", "access"} /\ Added(w)
    BY <1>8, FiniteThreads DEF AddAppends, AddStores, Stored
  <2>2. /\ UNCHANGED <<m, begun>>
        /\ \/ /\ pc[w] = "request" /\ req'[w] = req[w]
              /\ req[w].route \in Refusals /\ pc'[w] = "refuse"
           \/ /\ pc[w] = "request" /\ req'[w] = req[w]
              /\ req[w].route \notin Refusals /\ pc'[w] = "handler"
           \/ pc[w] = "access" /\ pc'[w] = "idle"
    BY <2>1, LineAdded DEF Added
  <2>3. QED
    BY <2>2
<1>9. CASE AddShifts(w)
  BY <1>0, <1>9 DEF AddShifts
<1>10. CASE Refuse(w)
  <2>1. /\ pc[w] = "refuse" /\ pc'[w] = "idle" /\ UNCHANGED begun
        /\ req[w].route \in Refusals
    BY <1>0, <1>10, Refused
  <2>2. PICK c \in {"4xx", "5xx"} :
           m' = [m EXCEPT ![c] = m[c] + 1] \/ UNCHANGED m
    BY <1>10, RefusedClass
  <2>3. m'["requests"] = m["requests"] /\ m'["total"] = m["total"]
    BY <1>0, <2>2
  <2>4. QED
    BY <2>1, <2>3
<1>11. QED
  BY <1>1, <1>2, <1>3, <1>4, <1>5, <1>6, <1>7, <1>8, <1>9, <1>10 DEF Step

LEMMA RatioStep ==
    ASSUME Inv, [Next]_vars
    PROVE  Ratio'
<1>0. CASE UNCHANGED vars
  <2>1. Unrecorded' = Unrecorded
    BY <1>0 DEF vars, Unrecorded
  <2>2. QED
    BY <1>0, <2>1 DEF vars, Ratio, Inv
<1>1. SUFFICES ASSUME NEW w \in Threads, Comes(w) \/ Step(w)
               PROVE  Ratio'
  BY <1>0, NextCases
<1> DEFINE r == m["requests"]  u == Cardinality(Unrecorded)
<1>2. /\ m \in [Counters -> Nat] /\ {"total", "requests"} \subseteq Counters
      /\ r \in Nat /\ m["total"] \in Nat /\ begun \in Nat
      /\ u <= r /\ m["total"] <= (r - u) * begun
      /\ pc \in [Threads -> PCs]
  BY DEF Inv, TypeOK, Ratio, Counters
<1>3. /\ Unrecorded \in SUBSET Threads /\ Unrecorded' \in SUBSET Threads
      /\ \A v \in Threads : v # w => (v \in Unrecorded' <=> v \in Unrecorded)
  BY <1>1, Frame DEF Unrecorded
<1>4. /\ u \in Nat /\ u' \in Nat
      /\ w \in Unrecorded => u >= 1
      /\ (w \in Unrecorded' <=> w \in Unrecorded) => u' = u
      /\ w \notin Unrecorded /\ w \in Unrecorded' => u' = u + 1
      /\ w \in Unrecorded /\ w \notin Unrecorded' => u' = u - 1
  BY <1>3, Members
<1>5. CASE Comes(w)
  <2>0. TypeOK
    BY DEF Inv
  <2>1. /\ w \notin Unrecorded /\ UNCHANGED begun
        /\ w \in Unrecorded' <=> req'[w].route \notin Refusals
    BY <1>2, <1>5, <2>0, Came DEF Unrecorded
  <2>2. \/ /\ req'[w].route \notin Rejects
           /\ m' = [m EXCEPT !["requests"] = m["requests"] + 1]
        \/ /\ req'[w].route \in Rejects
           /\ m' = [m EXCEPT ![req'[w].route] = m[req'[w].route] + 1]
    BY <1>5, <2>0, Came
  <2>3. "requests" \notin Rejects /\ "total" \notin Rejects
    BY Kinds
  <2>4. /\ m'["total"] = m["total"]
        /\ r' = r + 1 \/ (r' = r /\ req'[w].route \in Refusals)
    <3>1. CASE /\ req'[w].route \notin Rejects
               /\ m' = [m EXCEPT !["requests"] = m["requests"] + 1]
      BY <1>2, <3>1
    <3>2. CASE /\ req'[w].route \in Rejects
               /\ m' = [m EXCEPT ![req'[w].route] = m[req'[w].route] + 1]
      <4>1. req'[w].route # "requests" /\ req'[w].route # "total"
        BY <2>3, <3>2
      <4>2. m'["total"] = m["total"] /\ r' = r
        BY <1>2, <3>2, <4>1
      <4>3. QED
        BY <3>2, <4>2, Kinds
    <3>3. QED
      BY <2>2, <3>1, <3>2
  <2>5. PICK e \in Nat : r' - u' = (r - u) + e /\ u' <= r' /\ r - u \in Nat
    <3>1. CASE w \in Unrecorded'
      <4>1. r' = r + 1 /\ u' = u + 1
        BY <1>4, <2>1, <2>4, <3>1
      <4>2. r' - u' = (r - u) + 0 /\ u' <= r' /\ r - u \in Nat
        BY <1>2, <1>4, <4>1
      <4>3. QED
        BY <4>2
    <3>2. CASE w \notin Unrecorded'
      <4>1. u' = u /\ (r' = r \/ r' = r + 1)
        BY <1>4, <2>1, <2>4, <3>2
      <4> HIDE DEF r, u
      <4>2. /\ u' <= r' /\ r - u \in Nat
            /\ r' - u' = (r - u) + 0 \/ r' - u' = (r - u) + 1
        BY <1>2, <1>4, <4>1
      <4>3. QED
        BY <4>2
    <3>3. QED
      BY <3>1, <3>2
  <2> HIDE DEF r, u
  <2>6. /\ (r - u) * begun <= ((r - u) + e) * begun
        /\ (r - u) * begun \in Nat /\ ((r - u) + e) * begun \in Nat
    <3>1. r - u <= (r - u) + e /\ (r - u) + e \in Nat
      BY <2>5
    <3>2. QED
      BY <1>2, <2>5, <3>1, Product
  <2>7. m'["total"] <= (r' - u') * begun'
    BY <1>2, <2>1, <2>4, <2>5, <2>6
  <2>8. QED
    BY <2>5, <2>7 DEF Ratio, r, u
<1>6. CASE Record(w)
  <2>1. w \in Unrecorded /\ w \notin Unrecorded' /\ r' = r
    BY <1>2, <1>6 DEF Record, Goto, AtomicAdd, Unrecorded
  <2>2. u >= 1 /\ u' = u - 1 /\ r' - u' = (r - u) + 1 /\ r - u \in Nat
    BY <1>2, <1>4, <2>1
  <2>3. \/ UNCHANGED <<m, begun>>
        \/ \E d \in Nat : m'["total"] = m["total"] + d /\ begun' = Larger(begun, d)
    BY <1>2, <1>6, MonitorAssumption DEF Record, AtomicAdd, maxVars
  <2>4. PICK d \in Nat : /\ m'["total"] <= m["total"] + d
                         /\ m'["total"] \in Nat /\ begun' \in Nat
                         /\ begun' >= begun /\ begun' >= d
    BY <1>2, <2>3 DEF Larger
  <2>5. (r - u) * begun <= (r - u) * begun'
    BY <1>2, <2>2, <2>4, Product
  <2>6. ((r - u) + 1) * begun' = (r - u) * begun' + begun'
    BY <2>2, <2>4
  <2>7. (r - u) * begun' \in Nat /\ (r - u) * begun \in Nat
    BY <1>2, <2>2, <2>4, Product
  <2> HIDE DEF r, u
  <2>8. m'["total"] <= ((r - u) + 1) * begun'
    BY <1>2, <2>4, <2>5, <2>6, <2>7
  <2>9. m'["total"] <= (r' - u') * begun' /\ u' <= r'
    BY <1>2, <1>4, <2>1, <2>2, <2>8
  <2>10. QED
    BY <2>9 DEF Ratio, r, u
<1>7. CASE ~Comes(w) /\ ~Record(w)
  <2>1. /\ w \in Unrecorded' <=> w \in Unrecorded
        /\ r' = r /\ m'["total"] = m["total"] /\ UNCHANGED begun
    BY <1>1, <1>7, SameUnrecorded
  <2>2. QED
    BY <1>2, <1>4, <2>1 DEF Ratio
<1>8. QED
  BY <1>5, <1>6, <1>7

\* Only ResponseWriter.write counts answers, only it and the end of a request
\* move the set of requests without one.
LEMMA SameUnanswered ==
    ASSUME Inv, NEW w \in Threads, Step(w), ~Respond(w), ~Fallback(w), ~Refuse(w),
           ~(pc[w] = "access" /\ (AddAppends(w) \/ AddStores(w)))
    PROVE  /\ w \in Unanswered' <=> w \in Unanswered
           /\ req'[w].status = req[w].status
           /\ m'["requests"] = m["requests"] /\ \A r \in Rejects : m'[r] = m[r]
           /\ pc'[w] \notin {"request", "idle"} \/ AddShifts(w)
           /\ pc[w] # "refuse"
           /\ m'["2xx"] = m["2xx"] /\ m'["4xx"] = m["4xx"] /\ m'["5xx"] = m["5xx"]
<1> USE DEF Inv, TypeOK, logVars, maxVars, Goto, Unanswered
<1>0. /\ pc \in [Threads -> PCs] /\ m \in [Counters -> Nat]
      /\ {"max", "total", "requests", "2xx", "4xx", "5xx"} \subseteq Counters
      /\ Rejects \subseteq Counters /\ "total" \notin Rejects
      /\ "max" \notin Rejects
  BY Kinds
<1>1. CASE Handle(w)
  BY <1>0, <1>1 DEF Handle
<1>2. CASE Load(w)
  BY <1>0, <1>2 DEF Load, Request
<1>3. CASE RecentLogs(w)
  BY <1>0, <1>3 DEF RecentLogs, Request
<1>4. CASE Record(w)
  <2>1. pc'[w] \in {"written", "load"} /\ req'[w].status = req[w].status
    BY <1>0, <1>4 DEF Record, Request
  <2>2. UNCHANGED m \/ \E d \in Durations : m' = [m EXCEPT !["total"] = @ + d]
    BY <1>4 DEF Record, AtomicAdd
  <2>3. QED
    BY <1>0, <1>4, <2>1, <2>2 DEF Record
<1>5. CASE LoadMax(w)
  <2>1. pc'[w] \in {"written", "cas"} /\ req'[w].status = req[w].status
    BY <1>0, <1>5, Returned DEF LoadMax, Request
  <2>2. QED
    BY <1>0, <1>5, <2>1 DEF LoadMax
<1>6. CASE CompareAndSwap(w)
  <2>1. pc'[w] \in {"written", "load"} /\ req'[w].status = req[w].status
    BY <1>0, <1>6, Returned DEF CompareAndSwap
  <2>2. QED
    BY <1>0, <1>6, <2>1 DEF CompareAndSwap
<1>7. CASE AddAppends(w) \/ AddStores(w)
  <2>1. pc[w] = "request" /\ Added(w)
    BY <1>7, FiniteThreads DEF AddAppends, AddStores, Stored
  <2>2. /\ UNCHANGED m /\ req'[w] = req[w] /\ pc'[w] \in {"refuse", "handler"}
    BY <2>1, LineAdded
  <2>3. QED
    BY <1>0, <2>1, <2>2
<1>8. CASE AddShifts(w)
  BY <1>0, <1>8 DEF AddShifts
<1>9. QED
  BY <1>1, <1>2, <1>3, <1>4, <1>5, <1>6, <1>7, <1>8 DEF Step

LEMMA AnswerCountStep ==
    ASSUME Inv, [Next]_vars
    PROVE  AnswerCount'
<1>0. CASE UNCHANGED vars
  <2>1. Unanswered' = Unanswered /\ Answers' = Answers /\ Arrived' = Arrived
    BY <1>0 DEF vars, Unanswered, Answers, Arrived
  <2>2. QED
    BY <1>0, <2>1 DEF vars, AnswerCount, Inv
<1>1. SUFFICES ASSUME NEW w \in Threads, Comes(w) \/ Step(w)
               PROVE  AnswerCount'
  BY <1>0, NextCases
<1> DEFINE r == Arrived  u == Cardinality(Unanswered)
<1>2. /\ TypeOK /\ r \in Nat /\ Answers \in Nat /\ Answers + u <= r
      /\ m \in [Counters -> Nat] /\ pc \in [Threads -> PCs]
      /\ {"requests", "2xx", "4xx", "5xx"} \subseteq Counters
      /\ {"waf", "parse", "queue", "limited"} \subseteq Counters
  BY Kinds DEF Inv, TypeOK, AnswerCount, Answers, Arrived
<1>3. /\ Unanswered \in SUBSET Threads /\ Unanswered' \in SUBSET Threads
      /\ \A v \in Threads : v # w => (v \in Unanswered' <=> v \in Unanswered)
  BY <1>1, Frame DEF Unanswered
<1>4. /\ u \in Nat /\ u' \in Nat
      /\ w \in Unanswered => u >= 1
      /\ (w \in Unanswered' <=> w \in Unanswered) => u' = u
      /\ w \notin Unanswered /\ w \in Unanswered' => u' = u + 1
      /\ w \in Unanswered /\ w \notin Unanswered' => u' = u - 1
  BY <1>3, Members
<1> HIDE DEF u
<1>5. CASE Comes(w)
  <2>1. w \notin Unanswered
    BY <1>2, <1>5, Came DEF Unanswered
  <2>2. PICK c \in {"requests"} \cup Rejects : m' = [m EXCEPT ![c] = m[c] + 1]
    BY <1>2, <1>5, CameCounter
  <2>3. c \in {"requests", "waf", "parse", "queue", "limited"}
    BY Kinds
  <2>4. r' = r + 1 /\ Answers' = Answers
    <3>1. Answers' = Answers
      BY <1>2, <2>2, <2>3 DEF Answers
    <3>2. CASE c = "requests"
      BY <1>2, <2>2, <3>1, <3>2 DEF Arrived
    <3>3. CASE c = "waf"
      BY <1>2, <2>2, <3>1, <3>3 DEF Arrived
    <3>4. CASE c = "parse"
      BY <1>2, <2>2, <3>1, <3>4 DEF Arrived
    <3>5. CASE c = "queue"
      BY <1>2, <2>2, <3>1, <3>5 DEF Arrived
    <3>6. CASE c = "limited"
      BY <1>2, <2>2, <3>1, <3>6 DEF Arrived
    <3>7. QED
      BY <2>3, <3>1, <3>2, <3>3, <3>4, <3>5, <3>6
  <2> HIDE DEF r
  <2>5. QED
    BY <1>2, <1>4, <2>1, <2>4 DEF AnswerCount, u, r
<1>6. ASSUME NEW code \in {200, 405, 500}, Write(w, code), w \in Unanswered,
             pc'[w] # "idle"
      PROVE  AnswerCount'
  <2>1. CASE req'[w].status = code /\ m' = [m EXCEPT ![Class(code)] = @ + 1]
    <3>1. w \notin Unanswered'
      BY <2>1 DEF Unanswered
    <3>2. r' = r /\ Answers' = Answers + 1
      <4>1. m' = [m EXCEPT ![Class(code)] = m[Class(code)] + 1]
        BY <2>1
      <4>2. CASE code = 200
        BY <1>2, <4>1, <4>2, Classes DEF Answers, Arrived
      <4>3. CASE code = 405
        BY <1>2, <4>1, <4>3, Classes DEF Answers, Arrived
      <4>4. CASE code = 500
        BY <1>2, <4>1, <4>4, Classes DEF Answers, Arrived
      <4>5. QED
        BY <1>6, <4>2, <4>3, <4>4
    <3>3. QED
      BY <1>2, <1>4, <1>6, <3>1, <3>2 DEF AnswerCount, u
  <2>2. CASE req'[w].status = 0 /\ UNCHANGED m
    <3>1. w \in Unanswered' /\ r' = r /\ Answers' = Answers
      BY <1>6, <2>2 DEF Unanswered, Answers, Arrived
    <3>2. QED
      BY <1>2, <1>4, <1>6, <3>1 DEF AnswerCount, u
  <2>3. \/ req'[w].status = code /\ m' = [m EXCEPT ![Class(code)] = @ + 1]
        \/ req'[w].status = 0 /\ UNCHANGED m
    <3>1. TypeOK /\ Write(w, code)
      BY <1>2, <1>6
    <3>2. QED
      BY <3>1, Wrote
  <2>4. QED
    BY <2>1, <2>2, <2>3, Zenon
<1>7. CASE Respond(w)
  <2>1. PICK code \in {200, 405, 500} : Write(w, code)
    BY <1>7 DEF Respond
  <2>2. w \in Unanswered /\ pc'[w] # "idle"
    BY <1>2, <1>7 DEF Respond, Goto, Unanswered, Inv, Locals, Local
  <2>3. QED
    BY <1>6, <2>1, <2>2
<1>8. CASE Fallback(w)
  <2>1. pc[w] = "written" /\ pc'[w] = "access"
    BY <1>2, <1>8 DEF Fallback, Goto
  <2>2. CASE req[w].status = 0
    BY <1>6, <1>8, <2>1, <2>2 DEF Fallback, Unanswered
  <2>3. CASE req[w].status # 0
    <3>1. UNCHANGED <<req, m>>
      BY <1>8, <2>3 DEF Fallback
    <3>2. /\ w \in Unanswered' <=> w \in Unanswered
          /\ r' = r /\ Answers' = Answers
      BY <2>1, <3>1 DEF Unanswered, Answers, Arrived
    <3>3. QED
      BY <1>2, <1>4, <3>2 DEF AnswerCount, u
  <2>4. QED
    BY <2>2, <2>3
<1>9. CASE pc[w] = "access" /\ (AddAppends(w) \/ AddStores(w))
  <2>1. w \notin Unanswered' /\ UNCHANGED m
    BY <1>2, <1>9 DEF AddAppends, AddStores, Added, Goto, Unanswered
  <2>2. r' = r /\ Answers' = Answers
    BY <2>1 DEF Answers, Arrived
  <2>3. QED
    BY <1>2, <1>4, <2>1, <2>2 DEF AnswerCount, u
<1>10. CASE Refuse(w)
  <2>1. w \in Unanswered /\ w \notin Unanswered' /\ req[w].route \in Refusals
    BY <1>2, <1>10, Refused DEF Unanswered, Inv, Locals, Local
  <2>2. PICK c \in {"4xx", "5xx"} :
           m' = [m EXCEPT ![c] = m[c] + 1] \/ UNCHANGED m
    BY <1>10, RefusedClass DEF Inv
  <2>3. r' = r /\ Answers' \in {Answers, Answers + 1}
    <3>1. CASE UNCHANGED m
      BY <3>1 DEF Arrived, Answers
    <3>2. CASE m' = [m EXCEPT !["4xx"] = m["4xx"] + 1]
      BY <1>2, <3>2 DEF Arrived, Answers
    <3>3. CASE m' = [m EXCEPT !["5xx"] = m["5xx"] + 1]
      BY <1>2, <3>3 DEF Arrived, Answers
    <3>4. QED
      BY <2>2, <3>1, <3>2, <3>3
  <2> HIDE DEF r
  <2>4. QED
    BY <1>2, <1>4, <2>1, <2>3 DEF AnswerCount, u, r
<1>11. CASE /\ ~Comes(w) /\ ~Respond(w) /\ ~Fallback(w) /\ ~Refuse(w)
            /\ ~(pc[w] = "access" /\ (AddAppends(w) \/ AddStores(w)))
  <2>1. /\ w \in Unanswered' <=> w \in Unanswered
        /\ r' = r /\ Answers' = Answers
    <3>1. /\ w \in Unanswered' <=> w \in Unanswered
          /\ m'["requests"] = m["requests"] /\ \A x \in Rejects : m'[x] = m[x]
          /\ Answers' = Answers
      BY <1>1, <1>11, SameUnanswered DEF Answers
    <3>2. QED
      BY <3>1, Kinds DEF Arrived
  <2>2. QED
    BY <1>2, <1>4, <2>1 DEF AnswerCount, u
<1>12. QED
  BY <1>5, <1>7, <1>8, <1>9, <1>10, <1>11

\* A value that was loaded stays below the counter it came from.
LEMMA ScrapeKept ==
    ASSUME Inv, NEW w \in Threads, Comes(w) \/ Step(w), NEW v \in Threads,
           req'[v].loaded = req[v].loaded
    PROVE  Scrape(v)'
<1> DEFINE s == req[v].loaded
<1>1. /\ \A c \in Counters : m[c] \in Nat /\ m'[c] \in Nat /\ m[c] <= m'[c]
      /\ begun \in Nat /\ begun' \in Nat /\ begun <= begun'
      /\ {"requests", "2xx", "4xx", "5xx"} \subseteq Counters
  BY Frame DEF Counters
<1>2. Scrape(v) /\ s \in Seq(Nat)
  BY DEF Inv, Scrapes, TypeOK, Request
<1>3. Len(s) \in Nat /\ \A i \in 1 .. Len(s) : s[i] \in Nat
  BY <1>2
<1>4. ASSUME Len(s) = 2 PROVE s[2] <= m'["requests"] * begun'
  <2>1. s[2] <= m["requests"] * begun /\ s[2] \in Nat
    BY <1>2, <1>3, <1>4 DEF Scrape
  <2>2. /\ m["requests"] * begun <= m'["requests"] * begun
        /\ m'["requests"] * begun <= m'["requests"] * begun'
        /\ m["requests"] * begun \in Nat /\ m'["requests"] * begun \in Nat
        /\ m'["requests"] * begun' \in Nat
    BY <1>1, Product
  <2>3. QED
    BY <2>1, <2>2
<1>5. ASSUME Len(s) >= 3 PROVE s[1] <= s[3] /\ s[2] <= s[3] * begun'
  <2>1. /\ s[1] <= s[3] /\ s[2] <= s[3] * begun
        /\ s[2] \in Nat /\ s[3] \in Nat
    BY <1>2, <1>3, <1>5 DEF Scrape
  <2>2. \A x \in Nat : /\ x * begun <= x * begun'
                        /\ x * begun \in Nat /\ x * begun' \in Nat
    <3> TAKE x \in Nat
    <3>1. begun \in Nat /\ begun' \in Nat /\ begun <= begun'
      BY <1>1
    <3>2. x * begun <= x * begun'
      BY <3>1, Product
    <3>3. x <= x
      OBVIOUS
    <3>4. x * begun \in Nat /\ x * begun' \in Nat
      BY <3>1, <3>3, Product
    <3>5. QED
      BY <3>2, <3>4
  <2>3. QED
    BY <2>1, <2>2
<1>6. /\ Len(s) >= 1 => 1 <= s[1] /\ s[1] <= m'["requests"]
      /\ Len(s) >= 9 => s[9] <= m'["2xx"]
      /\ Len(s) >= 10 => s[10] <= m'["4xx"]
      /\ Len(s) >= 11 => s[11] <= m'["5xx"]
  <2>1. /\ Len(s) >= 1 => 1 <= s[1] /\ s[1] <= m["requests"] /\ s[1] \in Nat
        /\ Len(s) >= 9 => s[9] <= m["2xx"] /\ s[9] \in Nat
        /\ Len(s) >= 10 => s[10] <= m["4xx"] /\ s[10] \in Nat
        /\ Len(s) >= 11 => s[11] <= m["5xx"] /\ s[11] \in Nat
    BY <1>2, <1>3 DEF Scrape
  <2>2. /\ m["requests"] \in Nat /\ m'["requests"] \in Nat
        /\ m["2xx"] \in Nat /\ m'["2xx"] \in Nat
        /\ m["4xx"] \in Nat /\ m'["4xx"] \in Nat
        /\ m["5xx"] \in Nat /\ m'["5xx"] \in Nat
        /\ m["requests"] <= m'["requests"] /\ m["2xx"] <= m'["2xx"]
        /\ m["4xx"] <= m'["4xx"] /\ m["5xx"] <= m'["5xx"]
    BY <1>1
  <2>3. \A x, y, z \in Nat : x <= y /\ y <= z => x <= z
    OBVIOUS
  <2>4. Len(s) >= 1 => 1 <= s[1] /\ s[1] <= m'["requests"]
    BY <2>1, <2>2, <2>3, Zenon
  <2>5. Len(s) >= 9 => s[9] <= m'["2xx"]
    BY <2>1, <2>2, <2>3, Zenon
  <2>6. Len(s) >= 10 => s[10] <= m'["4xx"]
    BY <2>1, <2>2, <2>3, Zenon
  <2>7. Len(s) >= 11 => s[11] <= m'["5xx"]
    BY <2>1, <2>2, <2>3, Zenon
  <2>8. QED
    BY <2>4, <2>5, <2>6, <2>7, Zenon
<1>7. QED
  BY <1>4, <1>5, <1>6 DEF Scrape

\* A scrape that is begun has a request of its own.
LEMMA OwnRequest ==
    ASSUME Inv, NEW w \in Threads, pc[w] \in {"snapshot", "write"}
    PROVE  Answers \in Nat /\ Answers < Arrived /\ m["requests"] >= 1
<1>1. /\ w \in Unanswered /\ Unanswered \in SUBSET Threads
      /\ w \in Unrecorded /\ Unrecorded \in SUBSET Threads
  BY DEF Unanswered, Unrecorded, Inv, Locals, Local
<1>2. Cardinality(Unanswered) \in Nat /\ Cardinality(Unanswered) >= 1
  BY <1>1, Members
<1>3. Cardinality(Unrecorded) \in Nat /\ Cardinality(Unrecorded) >= 1
  BY <1>1, Members
<1>4. Answers \in Nat /\ m["requests"] \in Nat /\ Arrived \in Nat
  <2>1. /\ m["2xx"] \in Nat /\ m["4xx"] \in Nat /\ m["5xx"] \in Nat
        /\ m["requests"] \in Nat /\ m["waf"] \in Nat /\ m["parse"] \in Nat
        /\ m["queue"] \in Nat /\ m["limited"] \in Nat
    BY Kinds DEF Inv, TypeOK
  <2>2. QED
    BY <2>1 DEF Answers, Arrived
<1>5. Answers + Cardinality(Unanswered) <= Arrived
  BY DEF Inv, AnswerCount
<1>6. Cardinality(Unrecorded) <= m["requests"]
  BY DEF Inv, Ratio
<1>7. QED
  BY <1>2, <1>3, <1>4, <1>5, <1>6

\* The total never exceeds what all requests can have taken.
LEMMA TotalBound ==
    ASSUME Inv
    PROVE  m["total"] <= m["requests"] * begun
<1> DEFINE u == Cardinality(Unrecorded)
<1>1. /\ m["requests"] \in Nat /\ m["total"] \in Nat /\ begun \in Nat
      /\ u <= m["requests"] /\ m["total"] <= (m["requests"] - u) * begun
  BY DEF Inv, TypeOK, Ratio, Counters
<1>2. u \in Nat
  BY FiniteThreads, FS_Subset, FS_CardinalityType DEF Unrecorded
<1> HIDE DEF u
<1>3. m["requests"] - u \in Nat /\ m["requests"] - u <= m["requests"]
  BY <1>1, <1>2
<1>4. /\ (m["requests"] - u) * begun <= m["requests"] * begun
      /\ (m["requests"] - u) * begun \in Nat /\ m["requests"] * begun \in Nat
  BY <1>1, <1>3, Product
<1>5. QED
  BY <1>1, <1>4

LEMMA ScrapeLoads ==
    ASSUME Inv, NEW w \in Threads, Load(w)
    PROVE  Scrape(w)'
<1> DEFINE s == req[w].loaded
           t == Append(s, m[Loads[Len(s) + 1]])
<1>1. s \in Seq(Nat) /\ Len(s) < Len(Loads) /\ pc[w] = "snapshot" /\ TypeOK
  BY DEF Load, Inv, TypeOK, Locals, Local, Request
<1>2. /\ Len(s) + 1 \in 1 .. 11 /\ t \in Seq(Nat) /\ Len(t) = Len(s) + 1
      /\ t[Len(s) + 1] = m[Loads[Len(s) + 1]]
      /\ \A i \in 1 .. Len(s) : t[i] = s[i]
  BY <1>1, NextLoad
<1>3. req'[w].loaded = t /\ UNCHANGED <<m, begun>>
  BY DEF Load, Inv, TypeOK, Request, maxVars
<1>4. Scrape(w)
  BY DEF Inv, Scrapes
<1>5. m["requests"] >= 1 /\ m["total"] <= m["requests"] * begun
  BY <1>1, OwnRequest, TotalBound
<1>6. /\ Loads[1] = "requests" /\ Loads[2] = "total" /\ Loads[3] = "requests"
      /\ Loads[9] = "2xx" /\ Loads[10] = "4xx" /\ Loads[11] = "5xx"
  BY LoadsAre
<1>7. /\ \A c \in Counters : m[c] \in Nat
      /\ {"requests", "total", "2xx", "4xx", "5xx"} \subseteq Counters
  BY <1>1 DEF TypeOK, Counters
<1> HIDE DEF t
<1>8. Len(s) \in Nat /\ \A i \in 1 .. Len(s) : s[i] \in Nat
  BY <1>1
<1>9. \A i \in 1 .. 11 : i <= Len(t) =>
         \/ i <= Len(s) /\ t[i] = s[i]
         \/ i = Len(s) + 1 /\ t[i] = m[Loads[i]]
  <2> TAKE i \in 1 .. 11
  <2> HAVE i <= Len(t)
  <2>1. i <= Len(s) \/ i = Len(s) + 1
    BY <1>2, <1>8
  <2>2. CASE i <= Len(s)
    <3>1. i \in 1 .. Len(s)
      BY <1>8, <2>2
    <3>2. QED
      BY <1>2, <2>2, <3>1, Zenon
  <2>3. CASE i = Len(s) + 1
    BY <1>2, <2>3, Zenon
  <2>4. QED
    BY <2>1, <2>2, <2>3
<1>10. /\ Len(t) >= 1 => 1 <= t[1] /\ t[1] <= m["requests"]
       /\ Len(t) >= 9 => t[9] <= m["2xx"]
       /\ Len(t) >= 10 => t[10] <= m["4xx"]
       /\ Len(t) >= 11 => t[11] <= m["5xx"]
  <2>1. /\ Len(s) >= 1 => 1 <= s[1] /\ s[1] <= m["requests"]
        /\ Len(s) >= 9 => s[9] <= m["2xx"]
        /\ Len(s) >= 10 => s[10] <= m["4xx"]
        /\ Len(s) >= 11 => s[11] <= m["5xx"]
    BY <1>4 DEF Scrape
  <2>2. QED
    BY <1>5, <1>6, <1>7, <1>9, <2>1
<1>11. Len(t) = 2 => t[2] <= m["requests"] * begun
  BY <1>2, <1>5, <1>6, <1>8
<1>12. ASSUME Len(t) >= 3 PROVE t[1] <= t[3] /\ t[2] <= t[3] * begun
  <2>1. CASE Len(s) = 2
    <3>1. /\ t[1] = s[1] /\ t[2] = s[2] /\ t[3] = m["requests"]
      BY <1>2, <1>6, <2>1
    <3>2. s[1] <= m["requests"] /\ s[2] <= m["requests"] * begun
      BY <1>4, <2>1 DEF Scrape
    <3>3. QED
      BY <3>1, <3>2
  <2>2. CASE Len(s) >= 3
    <3>1. t[1] = s[1] /\ t[2] = s[2] /\ t[3] = s[3]
      BY <1>2, <1>8, <2>2
    <3>2. s[1] <= s[3] /\ s[2] <= s[3] * begun
      BY <1>4, <2>2 DEF Scrape
    <3>3. QED
      BY <3>1, <3>2
  <2>3. Len(s) = 2 \/ Len(s) >= 3
    <3>1. Len(s) + 1 >= 3 /\ Len(s) \in Nat
      BY <1>2, <1>8, <1>12
    <3>2. \A x \in Nat : x + 1 >= 3 => x = 2 \/ x >= 3
      OBVIOUS
    <3>3. QED
      BY <3>1, <3>2, Zenon
  <2>4. QED
    BY <2>1, <2>2, <2>3
<1>13. QED
  BY <1>3, <1>10, <1>11, <1>12 DEF Scrape

LEMMA ScrapesStep ==
    ASSUME Inv, [Next]_vars
    PROVE  Scrapes'
<1>0. CASE UNCHANGED vars
  BY <1>0 DEF vars, Scrapes, Scrape, Inv
<1>1. SUFFICES ASSUME NEW w \in Threads, Comes(w) \/ Step(w)
               PROVE  Scrapes'
  BY <1>0, NextCases
<1>2. ASSUME NEW v \in Threads, v # w
      PROVE  Scrape(v)'
  BY <1>1, <1>2, Frame, ScrapeKept
<1>3. Scrape(w)'
  <2>1. CASE Load(w)
    BY <2>1, ScrapeLoads
  <2>2. CASE req'[w].loaded = req[w].loaded
    BY <1>1, <2>2, ScrapeKept
  <2>3. CASE req'[w].loaded = <<>>
    BY <2>3 DEF Scrape
  <2>4. req'[w].loaded \in {<<>>, req[w].loaded} \/ Load(w)
    <3> USE DEF Inv, TypeOK
    <3>1. CASE Comes(w)
      BY <3>1, Came
    <3>2. CASE Respond(w)
      <4>1. PICK code \in {200, 405, 500} : Write(w, code)
        BY <3>2 DEF Respond
      <4>2. QED
        BY <4>1, Wrote
    <3>3. CASE Fallback(w)
      BY <3>3, Wrote DEF Fallback
    <3>4. CASE LoadMax(w)
      BY <3>4, Returned DEF LoadMax, Request
    <3>5. CASE CompareAndSwap(w)
      BY <3>5, Returned DEF CompareAndSwap
    <3>6. CASE Record(w)
      BY <3>6 DEF Record, Request
    <3>7. CASE RecentLogs(w)
      BY <3>7 DEF RecentLogs, Request
    <3>8. CASE AddAppends(w) \/ AddStores(w)
      BY <3>8, Nothing DEF AddAppends, AddStores, Added
    <3>9. CASE Handle(w) \/ AddShifts(w)
      BY <3>9 DEF Handle, AddShifts
    <3>10. CASE Refuse(w)
      BY <3>10, Refused, Nothing
    <3>11. QED
      BY <1>1, <3>1, <3>2, <3>3, <3>4, <3>5, <3>6, <3>7, <3>8, <3>9, <3>10
         DEF Step
  <2>5. QED
    BY <2>1, <2>2, <2>3, <2>4
<1>4. QED
  BY <1>2, <1>3 DEF Scrapes
\* Only LogStore.Add touches the log, and a request is nowhere else then.
LEMMA LogFrame ==
    ASSUME Inv, NEW w \in Threads, Comes(w) \/ Step(w),
           ~AddAppends(w), ~AddShifts(w), ~AddStores(w)
    PROVE  UNCHANGED logVars /\ pc[w] \notin {"request", "access"}
<1>1. CASE Comes(w)
  <2>1. TypeOK
    BY DEF Inv
  <2>2. QED
    BY <1>1, <2>1, Came DEF logVars
<1>2. CASE Step(w)
  BY <1>2 DEF Step, Handle, Load, RecentLogs, Respond, Refuse, Record, LoadMax,
              CompareAndSwap, Fallback
<1>3. QED
  BY <1>1, <1>2

LEMMA StoredStep ==
    ASSUME Inv, [Next]_vars
    PROVE  Stored'
<1>0. CASE UNCHANGED vars
  BY <1>0 DEF vars, Stored, Inv
<1>1. SUFFICES ASSUME NEW w \in Threads, Comes(w) \/ Step(w)
               PROVE  Stored'
  BY <1>0, NextCases
<1> DEFINE L == Len(history)  E == Len(entries)
<1>2. /\ Stored /\ TypeOK /\ L \in Nat /\ E \in Nat
      /\ history \in Seq(Lines) /\ entries \in Seq(Lines)
      /\ LogMax \in Nat /\ LogMax >= 1 /\ E <= LogMax
      /\ E = IF LogMax < L THEN LogMax ELSE L
      /\ w # NoWorker
  BY MonitorAssumption, FiniteThreads DEF Inv, TypeOK, Stored, Smaller
<1>3. CASE AddAppends(w)
  <2>1. /\ mu = NoWorker /\ mu' = NoWorker /\ E = L /\ L < LogMax
        /\ entries' = Append(entries, Line(w))
        /\ pc[w] \in {"request", "access"} /\ Added(w)
    BY <1>2, <1>3 DEF AddAppends, Added
  <2>2. /\ Line(w) \in Lines /\ Len(history') = L + 1
        /\ \A i \in 1 .. L : history'[i] = history[i]
        /\ history'[L + 1] = Line(w)
    BY <1>2, <2>1, LineAdded
  <2>3. /\ Len(entries') = L + 1
        /\ \A i \in 1 .. L : entries'[i] = entries[i]
        /\ entries'[L + 1] = Line(w)
    BY <1>2, <2>1, <2>2
  <2>4. \A i \in 1 .. L : entries[i] = history[i]
    <3>1. \A i \in 1 .. E : entries[i] = history[L - E + i]
      BY <1>2, <2>1 DEF Stored
    <3>2. \A i \in 1 .. L : L - L + i = i
      BY <1>2
    <3>3. QED
      BY <2>1, <3>1, <3>2
  <2>5. \A i \in 1 .. L + 1 : entries'[i] = history'[i]
    BY <1>2, <2>2, <2>3, <2>4
  <2>6. L + 1 = Smaller(LogMax, L + 1)
    BY <1>2, <2>1 DEF Smaller
  <2>7. \A i \in 1 .. L + 1 : (L + 1) - (L + 1) + i = i
    BY <1>2
  <2>8. QED
    BY <2>1, <2>2, <2>3, <2>5, <2>6, <2>7 DEF Stored
<1>4. CASE AddShifts(w)
  <2>1. /\ mu = NoWorker /\ mu' = w /\ E = LogMax /\ L >= LogMax
        /\ entries' = Append(Tail(entries), entries[E])
        /\ pc[w] \in {"request", "access"} /\ UNCHANGED <<pc, history>>
    BY <1>2, <1>4 DEF AddShifts
  <2>2. /\ Tail(entries) \in Seq(Lines) /\ Len(Tail(entries)) = E - 1
        /\ \A i \in 1 .. E - 1 : Tail(entries)[i] = entries[i + 1]
        /\ entries[E] \in Lines
    BY <1>2, <2>1
  <2>3. Len(entries') = E /\ \A i \in 1 .. E - 1 : entries'[i] = entries[i + 1]
    BY <1>2, <2>1, <2>2
  <2>4. \A i \in 1 .. E : entries[i] = history[L - E + i]
    BY <2>1 DEF Inv, Stored
  <2>5. \A i \in 1 .. E - 1 : /\ i + 1 \in 1 .. E
                              /\ L - E + (i + 1) = L - E + i + 1
    BY <1>2
  <2>6. \A i \in 1 .. LogMax - 1 : entries'[i] = history[L - LogMax + i + 1]
    BY <2>1, <2>3, <2>4, <2>5
  <2>7. Smaller(LogMax, L) = LogMax
    BY <1>2, <2>1 DEF Smaller
  <2>8. QED
    BY <1>2, <2>1, <2>3, <2>6, <2>7 DEF Stored
<1>5. CASE AddStores(w)
  <2>1. /\ mu = w /\ mu' = NoWorker /\ E = LogMax /\ L >= LogMax
        /\ entries' = [entries EXCEPT ![E] = Line(w)]
        /\ pc[w] \in {"request", "access"} /\ Added(w)
        /\ \A i \in 1 .. LogMax - 1 : entries[i] = history[L - LogMax + i + 1]
    BY <1>2, <1>5 DEF AddStores, Added, Stored
  <2>2. /\ Line(w) \in Lines /\ Len(history') = L + 1
        /\ \A i \in 1 .. L : history'[i] = history[i]
        /\ history'[L + 1] = Line(w)
    BY <1>2, <2>1, LineAdded
  <2>3. /\ Len(entries') = E
        /\ \A i \in 1 .. E - 1 : entries'[i] = entries[i]
        /\ entries'[E] = Line(w)
    <3>1. E \in 1 .. Len(entries)
      BY <1>2, <2>1
    <3>2. QED
      BY <1>2, <2>1, <2>2, <3>1, ExceptSeq
  <2>4. ASSUME NEW i \in 1 .. LogMax
        PROVE  entries'[i] = history'[(L + 1) - LogMax + i]
    <3>1. CASE i = LogMax
      <4>1. (L + 1) - LogMax + i = L + 1
        BY <1>2, <3>1
      <4>2. QED
        BY <2>1, <2>2, <2>3, <3>1, <4>1
    <3>2. CASE i # LogMax
      <4>1. /\ i \in 1 .. LogMax - 1 /\ L - LogMax + i + 1 \in 1 .. L
            /\ (L + 1) - LogMax + i = L - LogMax + i + 1
        BY <1>2, <2>1, <3>2
      <4>2. QED
        BY <2>1, <2>2, <2>3, <4>1
    <3>3. QED
      BY <3>1, <3>2
  <2>5. Smaller(LogMax, L + 1) = LogMax
    BY <1>2, <2>1 DEF Smaller
  <2>6. QED
    BY <2>1, <2>2, <2>3, <2>4, <2>5 DEF Stored
<1>6. CASE ~AddAppends(w) /\ ~AddShifts(w) /\ ~AddStores(w)
  <2>1. UNCHANGED <<mu, entries, history>> /\ pc[w] \notin {"request", "access"}
    BY <1>1, <1>6, LogFrame DEF logVars
  <2>2. mu # NoWorker => pc'[mu] = pc[mu]
    <3>1. mu # NoWorker => mu \in Threads /\ mu # w
      BY <1>2, <2>1 DEF TypeOK, Stored
    <3>2. QED
      BY <1>1, <3>1, Frame
  <2>3. QED
    BY <1>2, <2>1, <2>2 DEF Stored
<1>7. QED
  BY <1>3, <1>4, <1>5, <1>6

\* What happens to the lines a request has copied for /api/logs.
LEMMA TailCases ==
    ASSUME Inv, NEW w \in Threads, Comes(w) \/ Step(w), ~RecentLogs(w)
    PROVE  \/ req'[w].tail = <<>>
           \/ req'[w].tail = req[w].tail /\ req'[w].limit = req[w].limit
<1> USE DEF Inv, TypeOK
<1>1. CASE Comes(w)
  BY <1>1, Came
<1>2. CASE Respond(w)
  <2>1. PICK code \in {200, 405, 500} : Write(w, code)
    BY <1>2 DEF Respond
  <2>2. QED
    BY <2>1, Wrote
<1>3. CASE Fallback(w)
  BY <1>3, Wrote DEF Fallback
<1>4. CASE LoadMax(w)
  BY <1>4, Returned DEF LoadMax, Request
<1>5. CASE CompareAndSwap(w)
  BY <1>5, Returned DEF CompareAndSwap
<1>6. CASE Record(w)
  BY <1>6 DEF Record, Request
<1>7. CASE Load(w)
  BY <1>7 DEF Load, Request
<1>8. CASE AddAppends(w) \/ AddStores(w)
  BY <1>8, Nothing DEF AddAppends, AddStores, Added
<1>9. CASE Handle(w) \/ AddShifts(w)
  BY <1>9 DEF Handle, AddShifts
<1>10. CASE Refuse(w)
  BY <1>10, Refused, Nothing
<1>11. QED
  BY <1>1, <1>2, <1>3, <1>4, <1>5, <1>6, <1>7, <1>8, <1>9, <1>10 DEF Step

\* The log only grows.
LEMMA HistoryGrows ==
    ASSUME Inv, NEW w \in Threads, Comes(w) \/ Step(w)
    PROVE  /\ history \in Seq(Lines) /\ history' \in Seq(Lines)
           /\ Len(history) \in Nat /\ Len(history') \in Nat
           /\ Len(history) <= Len(history')
           /\ \A i \in 1 .. Len(history) : history'[i] = history[i]
<1>1. history \in Seq(Lines) /\ TypeOK
  BY DEF Inv, TypeOK
<1>2. CASE UNCHANGED history
  BY <1>1, <1>2
<1>3. CASE pc[w] \in {"request", "access"} /\ Added(w)
  BY <1>1, <1>3, LineAdded
<1>4. CASE AddAppends(w) \/ AddStores(w)
  BY <1>3, <1>4, FiniteThreads DEF AddAppends, AddStores, Inv, Stored
<1>5. CASE ~AddAppends(w) /\ ~AddStores(w)
  BY <1>2, <1>5, LogFrame DEF AddShifts, logVars
<1>6. QED
  BY <1>4, <1>5

\* An end of the log stays one when lines are added.
LEMMA TailKept ==
    ASSUME Inv, NEW w \in Threads, Comes(w) \/ Step(w), NEW v \in Threads,
           TailOf(v),
           req'[v].tail = req[v].tail, req'[v].limit = req[v].limit
    PROVE  TailOf(v)'
<1>1. SUFFICES ASSUME req[v].tail # <<>>
               PROVE  \E n \in 1 .. Len(history') :
                         req[v].tail = TailAt(req[v].limit, n)'
  BY DEF TailOf, TailAt
<1>2. PICK n \in 1 .. Len(history) : req[v].tail = TailAt(req[v].limit, n)
  BY <1>1 DEF TailOf
<1>3. /\ history \in Seq(Lines) /\ history' \in Seq(Lines)
      /\ Len(history) \in Nat /\ Len(history') \in Nat
      /\ Len(history) <= Len(history')
      /\ \A i \in 1 .. Len(history) : history'[i] = history[i]
  BY HistoryGrows
<1>4. SubSeq(history', 1, n) = SubSeq(history, 1, n)
  <2>1. /\ \A i \in 1 .. n : history[i] \in Lines
        /\ \A i \in 1 .. n : history'[i] = history[i] /\ 1 + i - 1 = i
        /\ n - 1 + 1 = n /\ 1 <= n /\ n \in Int
    BY <1>3
  <2>2. /\ SubSeq(history, 1, n) \in Seq(Lines)
        /\ Len(SubSeq(history, 1, n)) = n
        /\ \A i \in 1 .. n : SubSeq(history, 1, n)[i] = history[i]
    BY <2>1, SubSeqProperties
  <2>3. \A i \in 1 .. n : history'[i] \in Lines
    BY <2>1
  <2>4. /\ SubSeq(history', 1, n) \in Seq(Lines)
        /\ Len(SubSeq(history', 1, n)) = n
        /\ \A i \in 1 .. n : SubSeq(history', 1, n)[i] = history'[i]
    BY <2>1, <2>3, SubSeqProperties
  <2>5. QED
    BY <2>1, <2>2, <2>4, SeqEqual
<1>5. n \in 1 .. Len(history')
  BY <1>3
<1>6. QED
  BY <1>2, <1>4, <1>5 DEF TailAt

\* LogStore.Snapshot returns the end of the log.
LEMMA TailCopied ==
    ASSUME Inv, NEW w \in Threads, RecentLogs(w)
    PROVE  TailOf(w)'
<1> DEFINE n == Len(history)
           E == Len(entries)
           limit == LogLimit(req[w].limit)
           k == Smaller(limit, E)
<1>1. /\ TypeOK /\ Stored /\ mu = NoWorker /\ UNCHANGED history
      /\ history \in Seq(Lines) /\ entries \in Seq(Lines)
      /\ n \in Nat /\ E \in Nat /\ LogMax \in Nat /\ LogMax > 0
  BY MonitorAssumption DEF Inv, TypeOK, RecentLogs, logVars
<1>2. limit \in Nat /\ limit > 0
  <2>1. req[w].limit \in Limits \cup {0}
    BY <1>1 DEF TypeOK, Request
  <2>2. QED
    BY <2>1, LogLimitType
<1>3. /\ req'[w].tail = Last(entries, k)
      /\ req'[w].limit = req[w].limit
  BY <1>1 DEF RecentLogs, TypeOK, Request
<1>4. E = Smaller(LogMax, n) /\ \A i \in 1 .. E : entries[i] = history[n - E + i]
  BY <1>1 DEF Stored
<1>5. /\ k \in Nat /\ k <= E /\ k <= n /\ E <= n
      /\ k = Smaller(n, Smaller(LogMax, limit))
  <2> HIDE DEF limit, n, E
  <2>1. QED
    BY <1>1, <1>2, <1>4 DEF Smaller
<1>6. Last(entries, k) = Last(history, k)
  <2>1. /\ Last(entries, k) \in Seq(Lines) /\ Len(Last(entries, k)) = k
        /\ \A i \in 1 .. k : Last(entries, k)[i] = entries[E - k + i]
    <3>1. k \in 0 .. E
      BY <1>1, <1>5
    <3> HIDE DEF k
    <3>2. QED
      BY <1>1, <3>1, LastProperties
  <2>2. /\ Last(history, k) \in Seq(Lines) /\ Len(Last(history, k)) = k
        /\ \A i \in 1 .. k : Last(history, k)[i] = history[n - k + i]
    <3>1. k \in 0 .. n
      BY <1>1, <1>5
    <3> HIDE DEF k
    <3>2. QED
      BY <1>1, <3>1, LastProperties
  <2>3. \A i \in 1 .. k : entries[E - k + i] = history[n - k + i]
    <3> TAKE i \in 1 .. k
    <3>1. E - k + i \in 1 .. E /\ n - E + (E - k + i) = n - k + i
      BY <1>1, <1>5
    <3>2. QED
      BY <1>4, <3>1
  <2>4. \A i \in 1 .. k : Last(entries, k)[i] = Last(history, k)[i]
    BY <2>1, <2>2, <2>3
  <2>5. QED
    BY <2>1, <2>2, <2>4, SeqEqual
<1>7. CASE n = 0
  <2>1. k = 0
    BY <1>5, <1>7
  <2>2. Last(entries, k) \in Seq(Lines) /\ Len(Last(entries, k)) = 0
    BY <1>1, <1>5, <2>1, LastProperties
  <2>3. QED
    BY <1>3, <2>2, EmptySeq DEF TailOf
<1>8. CASE n # 0
  <2>1. n \in 1 .. n /\ SubSeq(history, 1, n) = history
    BY <1>1, <1>8, SubSeqFull
  <2>2. req'[w].tail = Last(SubSeq(history', 1, n),
                            Smaller(n, Smaller(LogMax, LogLimit(req'[w].limit))))
    BY <1>1, <1>3, <1>5, <1>6, <2>1
  <2>3. n \in 1 .. Len(history')
    BY <1>1, <2>1
  <2> HIDE DEF n
  <2>4. QED
    BY <2>2, <2>3 DEF TailOf, TailAt
<1>9. QED
  BY <1>7, <1>8

LEMMA TailsStep ==
    ASSUME Inv, [Next]_vars
    PROVE  Tails'
<1>0. CASE UNCHANGED vars
  BY <1>0 DEF vars, Tails, TailOf, TailAt, Inv
<1>1. SUFFICES ASSUME NEW w \in Threads, Comes(w) \/ Step(w)
               PROVE  Tails'
  BY <1>0, NextCases
<1>2. \A v \in Threads : TailOf(v)
  BY DEF Inv, Tails
<1>3. ASSUME NEW v \in Threads, v # w
      PROVE  TailOf(v)'
  BY <1>1, <1>2, <1>3, Frame, TailKept
<1>4. TailOf(w)'
  <2>1. CASE req'[w].tail = <<>>
    BY <2>1 DEF TailOf
  <2>2. CASE req'[w].tail = req[w].tail /\ req'[w].limit = req[w].limit
    BY <1>1, <1>2, <2>2, TailKept
  <2>3. CASE RecentLogs(w)
    BY <2>3, TailCopied
  <2>4. QED
    BY <1>1, <2>1, <2>2, <2>3, TailCases
<1>5. QED
  BY <1>3, <1>4 DEF Tails

\* A line more: the lines of a kind are one more or the same.
LEMMA LinesAdded ==
    ASSUME NEW h \in Seq(Lines), NEW g \in Seq(Lines), NEW T,
           Len(g) = Len(h) + 1, \A i \in 1 .. Len(h) : g[i] = h[i]
    PROVE  /\ Cardinality(LinesOf(h, T)) \in Nat
           /\ Cardinality(LinesOf(g, T)) \in Nat
           /\ g[Len(h) + 1] \in T =>
                 Cardinality(LinesOf(g, T)) = Cardinality(LinesOf(h, T)) + 1
           /\ g[Len(h) + 1] \notin T => LinesOf(g, T) = LinesOf(h, T)
<1> DEFINE n == Len(h)
<1>1. n \in Nat /\ Len(g) = n + 1 /\ \A i \in 1 .. n : g[i] = h[i]
  OBVIOUS
<1>2. IsFiniteSet(1 .. n) /\ IsFiniteSet(1 .. n + 1)
  BY <1>1, FS_Interval
<1>3. IsFiniteSet(LinesOf(h, T)) /\ IsFiniteSet(LinesOf(g, T))
  BY <1>1, <1>2, FS_Subset DEF LinesOf
<1>4. 1 .. n + 1 = (1 .. n) \cup {n + 1} /\ n + 1 \notin 1 .. n
  BY <1>1
<1>5. ASSUME g[n + 1] \in T
      PROVE  Cardinality(LinesOf(g, T)) = Cardinality(LinesOf(h, T)) + 1
  <2>1. /\ LinesOf(g, T) = LinesOf(h, T) \cup {n + 1}
        /\ n + 1 \notin LinesOf(h, T)
    BY <1>1, <1>4, <1>5, Zenon DEF LinesOf
  <2>2. QED
    BY <1>3, <2>1, FS_AddElement
<1>6. ASSUME g[n + 1] \notin T
      PROVE  LinesOf(g, T) = LinesOf(h, T)
  BY <1>1, <1>4, <1>6, Zenon DEF LinesOf
<1>7. QED
  BY <1>3, <1>5, <1>6, FS_CardinalityType

LEMMA LinesCount ==
    ASSUME TypeOK, NEW T
    PROVE  Cardinality(LinesOf(history, T)) \in Nat
<1>1. Len(history) \in Nat
  BY DEF TypeOK
<1>2. IsFiniteSet(1 .. Len(history))
  BY <1>1, FS_Interval
<1>3. IsFiniteSet(LinesOf(history, T))
  BY <1>2, FS_Subset DEF LinesOf
<1>4. QED
  BY <1>3, FS_CardinalityType

LEMMA LoggedStep ==
    ASSUME Inv, [Next]_vars
    PROVE  AllLogged'
<1>0. CASE UNCHANGED vars
  <2>1. \A code \in {200, 405, 500} : Logged(code)' <=> Logged(code)
    BY <1>0 DEF vars, Logged, Answered, Refusing
  <2>2. QED
    BY <2>1 DEF AllLogged, Inv
<1>1. SUFFICES ASSUME NEW w \in Threads, Comes(w) \/ Step(w),
                      NEW code \in {200, 405, 500}
               PROVE  Logged(code)'
  BY <1>0, NextCases, Zenon DEF AllLogged
<1>2. /\ Logged(code) /\ TypeOK /\ Locals
      /\ m \in [Counters -> Nat] /\ m[Class(code)] \in Nat
      /\ Class(code) \in Counters
  BY Classes DEF Inv, TypeOK, AllLogged
<1> DEFINE A == Cardinality(Answered(code))
           F == Cardinality(Refusing(code))
           H == Cardinality(LinesOf(history, AccessLines(code)))
           D == Cardinality(LinesOf(history, RefuseLines(code)))
           c == m[Class(code)]
           Holds(w1) == /\ pc[w1] = "refuse"
                        /\ Class(Refusal[req[w1].route]) = Class(code)
<1>3. /\ A \in Nat /\ A' \in Nat
      /\ (req'[w].status = code <=> req[w].status = code) => A' = A
      /\ req[w].status # code /\ req'[w].status = code => A' = A + 1
      /\ req[w].status = code /\ req'[w].status # code => A' = A - 1
  <2>1. /\ Answered(code) \in SUBSET Threads /\ Answered(code)' \in SUBSET Threads
        /\ \A v \in Threads :
              v # w => (v \in Answered(code)' <=> v \in Answered(code))
        /\ w \in Answered(code) <=> req[w].status = code
        /\ w \in Answered(code)' <=> req'[w].status = code
    BY <1>1, Frame DEF Answered
  <2>2. QED
    BY <2>1, Members
<1>4. /\ F \in Nat /\ F' \in Nat
      /\ (Holds(w)' <=> Holds(w)) => F' = F
      /\ ~Holds(w) /\ Holds(w)' => F' = F + 1
      /\ Holds(w) /\ ~Holds(w)' => F' = F - 1
      /\ Holds(w) => F >= 1
  <2>1. /\ Refusing(code) \in SUBSET Threads /\ Refusing(code)' \in SUBSET Threads
        /\ \A v \in Threads :
              v # w => (v \in Refusing(code)' <=> v \in Refusing(code))
        /\ w \in Refusing(code) <=> Holds(w)
        /\ w \in Refusing(code)' <=> Holds(w)'
    BY <1>1, Frame DEF Refusing
  <2> HIDE DEF Holds
  <2>2. QED
    BY <2>1, Members
<1>5. H \in Nat /\ D \in Nat /\ H + A <= c /\ c + F <= H + A + D
  BY <1>2, LinesCount DEF Logged
<1>6. ASSUME NEW H1 \in Nat, NEW D1 \in Nat, H' = H1, D' = D1,
             H1 + A' <= c', c' + F' <= H1 + A' + D1
      PROVE  Logged(code)'
  BY <1>6 DEF Logged
<1>7. ASSUME UNCHANGED history,
             req'[w].status = code <=> req[w].status = code,
             Holds(w)' <=> Holds(w),
             c' = c
      PROVE  Logged(code)'
  <2>1. H' = H /\ D' = D /\ A' = A /\ F' = F
    <3>1. A' = A /\ F' = F
      BY <1>3, <1>4, <1>7
    <3>2. H' = H /\ D' = D
      BY <1>7 DEF AccessLines, RefuseLines
    <3>3. QED
      BY <3>1, <3>2
  <2>2. H + A' <= c' /\ c' + F' <= H + A' + D
    <3> HIDE DEF A, F, H, D, c
    <3>1. QED
      BY <1>5, <1>7, <2>1
  <2>3. QED
    BY <1>5, <1>6, <2>1, <2>2
<1>8. CASE Comes(w)
  <2>1. /\ req'[w].status = 0 /\ pc[w] = "idle" /\ pc'[w] = "request"
        /\ UNCHANGED history
    BY <1>2, <1>8, Came DEF TypeOK
  <2>2. req[w].status = 0
    BY <1>2, <2>1 DEF Locals, Local
  <2>3. PICK x \in {"requests"} \cup Rejects : m' = [m EXCEPT ![x] = m[x] + 1]
    BY <1>2, <1>8, CameCounter
  <2>4. Class(code) \notin {"requests"} \cup Rejects
    BY Classes, Kinds
  <2>5. c' = c
    BY <1>2, <2>3, <2>4
  <2>6. QED
    BY <1>7, <2>1, <2>2, <2>5
<1>9. ASSUME NEW answer \in {200, 405, 500}, Write(w, answer),
             req[w].status = 0, UNCHANGED history,
             pc[w] # "refuse", pc'[w] # "refuse"
      PROVE  Logged(code)'
  <2>0. Holds(w)' <=> Holds(w)
    BY <1>9
  <2>1. CASE /\ req'[w].status = answer
             /\ m' = [m EXCEPT ![Class(answer)] = @ + 1]
    <3>1. CASE answer = code
      <4>1. c' = c + 1
        BY <1>2, <2>1, <3>1
      <4>2. A' = A + 1 /\ F' = F
        BY <1>3, <1>4, <1>9, <2>0, <2>1, <3>1
      <4>3. H' = H /\ D' = D
        BY <1>9 DEF AccessLines, RefuseLines
      <4>4. H + A' <= c' /\ c' + F' <= H + A' + D
        <5> HIDE DEF A, F, H, D, c
        <5>1. QED
          BY <1>2, <1>3, <1>4, <1>5, <4>1, <4>2 DEF c
      <4>5. QED
        BY <1>5, <1>6, <4>3, <4>4
    <3>2. CASE answer # code
      <4>1. Class(answer) # Class(code)
        BY <3>2, Classes
      <4>2. c' = c
        BY <1>2, <2>1, <4>1, Classes
      <4>3. QED
        BY <1>7, <1>9, <2>0, <2>1, <3>2, <4>2
    <3>3. QED
      BY <3>1, <3>2
  <2>2. CASE req'[w].status = 0 /\ UNCHANGED m
    BY <1>7, <1>9, <2>0, <2>2
  <2>3. \/ req'[w].status = answer /\ m' = [m EXCEPT ![Class(answer)] = @ + 1]
        \/ req'[w].status = 0 /\ UNCHANGED m
    BY <1>2, <1>9, Wrote
  <2>4. QED
    BY <2>1, <2>2, <2>3
<1>10. CASE Respond(w)
  <2>1. PICK answer \in {200, 405, 500} : Write(w, answer)
    BY <1>10 DEF Respond
  <2>2. /\ req[w].status = 0 /\ UNCHANGED history
        /\ pc[w] # "refuse" /\ pc'[w] # "refuse"
    BY <1>2, <1>10 DEF Respond, Goto, logVars, Locals, Local, TypeOK
  <2>3. QED
    BY <1>9, <2>1, <2>2
<1>11. CASE Fallback(w)
  <2>1. UNCHANGED history /\ pc[w] # "refuse" /\ pc'[w] # "refuse"
    BY <1>2, <1>11 DEF Fallback, Goto, logVars, TypeOK
  <2>2. CASE req[w].status = 0
    <3>1. Write(w, 500)
      BY <1>11, <2>2 DEF Fallback
    <3>2. QED
      BY <1>9, <2>1, <2>2, <3>1
  <2>3. CASE req[w].status # 0
    <3>1. UNCHANGED <<req, m>>
      BY <1>11, <2>3 DEF Fallback
    <3>2. QED
      BY <1>7, <2>1, <3>1
  <2>4. QED
    BY <2>2, <2>3
<1>12. CASE Refuse(w)
  <2>1. /\ pc[w] = "refuse" /\ pc'[w] = "idle" /\ req'[w] = Idle
        /\ UNCHANGED history
    BY <1>2, <1>12, Refused DEF TypeOK
  <2>2. req[w].status = 0 /\ req'[w].status = 0
    BY <1>2, <2>1, Nothing DEF Locals, Local
  <2>3. PICK x \in {"4xx", "5xx"} :
           /\ x = Class(Refusal[req[w].route])
           /\ m' = [m EXCEPT ![x] = m[x] + 1] \/ UNCHANGED m
    BY <1>2, <1>12, RefusedClass
  <2>4. CASE x = Class(code)
    <3>1. Holds(w) /\ ~Holds(w)'
      BY <2>1, <2>3, <2>4
    <3>2. F' = F - 1 /\ F >= 1 /\ A' = A
      BY <1>3, <1>4, <2>2, <3>1
    <3>3. c' = c \/ c' = c + 1
      BY <1>2, <2>3, <2>4
    <3>4. H' = H /\ D' = D
      BY <2>1 DEF AccessLines, RefuseLines
    <3>5. H + A' <= c' /\ c' + F' <= H + A' + D
      <4> HIDE DEF A, F, H, D, c, Holds
      <4>1. QED
        BY <1>2, <1>3, <1>4, <1>5, <3>2, <3>3 DEF c
    <3>6. QED
      BY <1>5, <1>6, <3>4, <3>5
  <2>5. CASE x # Class(code)
    <3>1. c' = c
      BY <1>2, <2>3, <2>5
    <3>2. ~Holds(w) /\ ~Holds(w)'
      BY <2>1, <2>3, <2>5
    <3>3. QED
      BY <1>7, <2>1, <2>2, <3>1, <3>2
  <2>6. QED
    BY <2>4, <2>5
<1>13. CASE AddAppends(w) \/ AddStores(w)
  <2>1. pc[w] \in {"request", "access"} /\ Added(w)
    BY <1>13, FiniteThreads DEF AddAppends, AddStores, Inv, Stored
  <2> DEFINE l == history'[Len(history) + 1]
  <2>2. /\ history \in Seq(Lines) /\ history' \in Seq(Lines)
        /\ Len(history') = Len(history) + 1
        /\ \A i \in 1 .. Len(history) : history'[i] = history[i]
        /\ \/ /\ pc[w] = "request" /\ req'[w] = req[w]
              /\ req[w].route \in Refusals /\ pc'[w] = "refuse"
              /\ l = <<"refuse", Refusal[req[w].route]>>
           \/ /\ pc[w] = "request" /\ req'[w] = req[w]
              /\ req[w].route \notin Refusals /\ pc'[w] = "handler"
              /\ l = <<"request", 0>>
           \/ /\ pc[w] = "access" /\ req'[w] = Idle /\ pc'[w] = "idle"
              /\ l = <<"access", req[w].status>>
        /\ UNCHANGED m
    BY <1>2, <2>1, LineAdded DEF TypeOK
  <2>3. /\ H' \in Nat /\ D' \in Nat
        /\ l \in AccessLines(code) => H' = H + 1
        /\ l \notin AccessLines(code) => H' = H
        /\ l \in RefuseLines(code) => D' = D + 1
        /\ l \notin RefuseLines(code) => D' = D
    <3>1. /\ AccessLines(code)' = AccessLines(code)
          /\ RefuseLines(code)' = RefuseLines(code)
      BY DEF AccessLines, RefuseLines
    <3>2. \A T : /\ Cardinality(LinesOf(history', T)) \in Nat
                 /\ l \in T => Cardinality(LinesOf(history', T))
                                 = Cardinality(LinesOf(history, T)) + 1
                 /\ l \notin T => Cardinality(LinesOf(history', T))
                                    = Cardinality(LinesOf(history, T))
      BY <2>2, LinesAdded
    <3>3. /\ H' = Cardinality(LinesOf(history', AccessLines(code)))
          /\ D' = Cardinality(LinesOf(history', RefuseLines(code)))
      BY <3>1
    <3> HIDE DEF l
    <3>4. QED
      BY <3>2, <3>3, Zenon
  <2>4. CASE pc[w] = "access" /\ req[w].status = code
    <3>1. l = <<"access", code>> /\ req'[w] = Idle /\ pc'[w] = "idle"
      BY <2>2, <2>4
    <3>2. l \in AccessLines(code) /\ l \notin RefuseLines(code)
      BY <3>1 DEF AccessLines, RefuseLines
    <3>3. H' = H + 1 /\ D' = D
      BY <2>3, <3>2
    <3>4. A' = A - 1 /\ F' = F
      <4>1. req'[w].status = 0 /\ 0 # code
        BY <3>1, Nothing
      <4>2. ~Holds(w) /\ ~Holds(w)'
        BY <2>4, <3>1
      <4>3. QED
        BY <1>3, <1>4, <2>4, <4>1, <4>2
    <3>5. c' = c
      BY <2>2
    <3>6. H' + A' <= c' /\ c' + F' <= H' + A' + D'
      <4> HIDE DEF A, F, H, D, c
      <4>1. QED
        BY <1>2, <1>3, <1>4, <1>5, <3>3, <3>4, <3>5 DEF c
    <3>7. QED
      BY <1>6, <2>3, <3>6
  <2>5. CASE pc[w] = "access" /\ req[w].status # code
    <3>1. /\ l = <<"access", req[w].status>> /\ req'[w].status = 0
          /\ pc'[w] = "idle"
      BY <2>2, <2>5, Nothing
    <3>2. l \notin AccessLines(code) /\ l \notin RefuseLines(code)
      BY <2>5, <3>1 DEF AccessLines, RefuseLines
    <3>3. H' = H /\ D' = D
      BY <2>3, <3>2
    <3>4. A' = A /\ F' = F
      <4>1. 0 # code /\ req'[w].status # code
        BY <3>1
      <4>2. ~Holds(w) /\ ~Holds(w)'
        BY <2>5, <3>1
      <4>3. QED
        BY <1>3, <1>4, <2>5, <4>1, <4>2
    <3>5. c' = c
      BY <2>2
    <3>6. H' + A' <= c' /\ c' + F' <= H' + A' + D'
      <4> HIDE DEF A, F, H, D, c
      <4>1. QED
        BY <1>5, <3>3, <3>4, <3>5
    <3>7. QED
      BY <1>6, <2>3, <3>6
  <2>6. CASE /\ pc[w] = "request" /\ req[w].route \in Refusals
             /\ Class(Refusal[req[w].route]) = Class(code)
    <3>1. /\ l = <<"refuse", Refusal[req[w].route]>> /\ req'[w] = req[w]
          /\ pc'[w] = "refuse" /\ l \in Lines
      BY <2>2, <2>6, Kinds DEF Lines
    <3>2. l \notin AccessLines(code) /\ l \in RefuseLines(code)
      BY <2>6, <3>1 DEF AccessLines, RefuseLines
    <3>3. H' = H /\ D' = D + 1
      BY <2>3, <3>2
    <3>4. A' = A /\ F' = F + 1
      <4>1. ~Holds(w) /\ Holds(w)'
        BY <2>6, <3>1
      <4>2. QED
        BY <1>3, <1>4, <3>1, <4>1
    <3>5. c' = c
      BY <2>2
    <3>6. H' + A' <= c' /\ c' + F' <= H' + A' + D'
      <4> HIDE DEF A, F, H, D, c
      <4>1. QED
        BY <1>2, <1>3, <1>4, <1>5, <3>3, <3>4, <3>5 DEF c
    <3>7. QED
      BY <1>6, <2>3, <3>6
  <2>7. CASE /\ pc[w] = "request"
             /\ ~(/\ req[w].route \in Refusals
                  /\ Class(Refusal[req[w].route]) = Class(code))
    <3>1. /\ req'[w] = req[w] /\ ~Holds(w) /\ ~Holds(w)'
          /\ \/ l = <<"request", 0>>
             \/ /\ l = <<"refuse", Refusal[req[w].route]>>
                /\ Class(Refusal[req[w].route]) # Class(code)
      BY <2>2, <2>7
    <3>2. l \notin AccessLines(code) /\ l \notin RefuseLines(code)
      BY <3>1 DEF AccessLines, RefuseLines
    <3>3. H' = H /\ D' = D
      BY <2>3, <3>2
    <3>4. A' = A /\ F' = F
      BY <1>3, <1>4, <3>1
    <3>5. c' = c
      BY <2>2
    <3>6. H' + A' <= c' /\ c' + F' <= H' + A' + D'
      <4> HIDE DEF A, F, H, D, c
      <4>1. QED
        BY <1>5, <3>3, <3>4, <3>5
    <3>7. QED
      BY <1>6, <2>3, <3>6
  <2>8. QED
    BY <2>1, <2>4, <2>5, <2>6, <2>7
<1>14. CASE /\ ~Comes(w) /\ ~Respond(w) /\ ~Fallback(w) /\ ~Refuse(w)
            /\ ~AddAppends(w) /\ ~AddStores(w)
  <2>1. /\ req'[w].status = req[w].status
        /\ m'["2xx"] = m["2xx"] /\ m'["4xx"] = m["4xx"] /\ m'["5xx"] = m["5xx"]
    BY <1>1, <1>14, SameUnanswered
  <2>2. UNCHANGED history /\ pc[w] # "refuse" /\ pc'[w] # "refuse"
    <3>1. CASE AddShifts(w)
      BY <3>1 DEF AddShifts
    <3>2. CASE ~AddShifts(w)
      BY <1>1, <1>2, <1>14, <3>2
         DEF Step, Handle, Load, RecentLogs, Record, LoadMax, CompareAndSwap,
             Returns, Goto, logVars, TypeOK
    <3>3. QED
      BY <3>1, <3>2
  <2>3. c' = c
    <3>1. Class(code) \in {"2xx", "4xx", "5xx"}
      BY Classes
    <3>2. QED
      BY <2>1, <3>1
  <2>4. QED
    BY <1>7, <2>1, <2>2, <2>3
<1>15. QED
  BY <1>1, <1>8, <1>10, <1>11, <1>12, <1>13, <1>14

\* What neither comes in nor writes its line leaves the refusals alone.
LEMMA SameRejects ==
    ASSUME Inv, NEW w \in Threads, Step(w), ~AddAppends(w), ~AddStores(w)
    PROVE  /\ \A r \in Rejects : m'[r] = m[r]
           /\ UNCHANGED history
           /\ \/ pc[w] # "request" /\ pc'[w] # "request"
              \/ UNCHANGED <<pc, req>>
<1> USE DEF Inv, TypeOK, logVars, maxVars, Goto
<1>0. /\ pc \in [Threads -> PCs] /\ m \in [Counters -> Nat]
      /\ Rejects \subseteq Counters
      /\ \A x \in {"2xx", "4xx", "5xx", "total", "max", "requests"} :
            x \in Counters /\ x \notin Rejects
  BY Kinds
<1>1. ASSUME NEW x \in {"2xx", "4xx", "5xx", "total", "max", "requests"},
             NEW y, m' = [m EXCEPT ![x] = y]
      PROVE  \A r \in Rejects : m'[r] = m[r]
  BY <1>0, <1>1
<1>2. CASE Handle(w)
  BY <1>0, <1>2 DEF Handle
<1>3. CASE Load(w)
  BY <1>0, <1>3 DEF Load
<1>4. CASE RecentLogs(w)
  BY <1>0, <1>4 DEF RecentLogs
<1>5. ASSUME NEW code \in {200, 405, 500}, Write(w, code)
      PROVE  \A r \in Rejects : m'[r] = m[r]
  <2>1. Class(code) \in {"2xx", "4xx", "5xx"}
    BY Classes
  <2>2. m' = [m EXCEPT ![Class(code)] = m[Class(code)] + 1] \/ UNCHANGED m
    BY <1>5, Wrote
  <2>3. PICK x \in {"2xx", "4xx", "5xx"} : x = Class(code)
    BY <2>1
  <2>4. CASE m' = [m EXCEPT ![x] = m[x] + 1]
    BY <1>0, <2>4
  <2>5. CASE UNCHANGED m
    BY <2>5
  <2>6. QED
    BY <2>2, <2>3, <2>4, <2>5, Zenon
<1>6. CASE Respond(w)
  <2>1. PICK code \in {200, 405, 500} : Write(w, code)
    BY <1>6 DEF Respond
  <2>2. QED
    BY <1>0, <1>5, <1>6, <2>1 DEF Respond
<1>7. CASE Fallback(w)
  <2>1. \A r \in Rejects : m'[r] = m[r]
    <3>1. CASE UNCHANGED <<req, m>>
      BY <3>1
    <3>2. CASE Write(w, 500)
      <4>1. 500 \in {200, 405, 500}
        OBVIOUS
      <4>2. QED
        BY <1>5, <3>2, <4>1, Zenon
    <3>3. QED
      BY <1>7, <3>1, <3>2 DEF Fallback
  <2>2. QED
    BY <1>0, <1>7, <2>1 DEF Fallback
<1>8. CASE Refuse(w)
  <2>1. /\ pc[w] = "refuse" /\ pc'[w] = "idle" /\ UNCHANGED history
    BY <1>0, <1>8, Refused
  <2>2. PICK c \in {"4xx", "5xx"} :
           m' = [m EXCEPT ![c] = m[c] + 1] \/ UNCHANGED m
    BY <1>8, RefusedClass
  <2>3. QED
    BY <1>1, <2>1, <2>2
<1>9. CASE Record(w)
  <2>1. UNCHANGED m \/ \E d \in Durations : m' = [m EXCEPT !["total"] = m["total"] + d]
    BY <1>9 DEF Record, AtomicAdd
  <2>2. \A r \in Rejects : m'[r] = m[r]
    BY <1>1, <2>1
  <2>3. QED
    BY <1>0, <1>9, <2>2 DEF Record
<1>10. CASE LoadMax(w)
  BY <1>0, <1>10 DEF LoadMax, Returns
<1>11. CASE CompareAndSwap(w)
  <2>1. \A r \in Rejects : m'[r] = m[r]
    BY <1>1, <1>11 DEF CompareAndSwap
  <2>2. QED
    BY <1>0, <1>11, <2>1 DEF CompareAndSwap, Returns
<1>12. CASE AddShifts(w)
  BY <1>12 DEF AddShifts
<1>13. QED
  BY <1>2, <1>3, <1>4, <1>6, <1>7, <1>8, <1>9, <1>10, <1>11, <1>12 DEF Step

LEMMA RejectsStep ==
    ASSUME Inv, [Next]_vars
    PROVE  AllRejects'
<1>0. CASE UNCHANGED vars
  <2>1. \A r \in Rejects : RejectLogged(r)' <=> RejectLogged(r)
    BY <1>0 DEF vars, RejectLogged, RejectLines, Coming
  <2>2. QED
    BY <2>1 DEF AllRejects, Inv
<1>1. SUFFICES ASSUME NEW w \in Threads, Comes(w) \/ Step(w), NEW r \in Rejects
               PROVE  RejectLogged(r)'
  BY <1>0, NextCases, Zenon DEF AllRejects
<1>2. /\ RejectLogged(r) /\ TypeOK /\ Locals
      /\ m \in [Counters -> Nat] /\ m[r] \in Nat /\ r \in Counters
      /\ r \in Refusals /\ r # "requests"
  BY Kinds DEF Inv, TypeOK, AllRejects
<1> DEFINE C == Cardinality(Coming(r))
           H == Cardinality(LinesOf(history, RejectLines(r)))
           Comer(w1) == pc[w1] = "request" /\ req[w1].route = r
<1>3. /\ C \in Nat /\ C' \in Nat
      /\ (Comer(w)' <=> Comer(w)) => C' = C
      /\ ~Comer(w) /\ Comer(w)' => C' = C + 1
      /\ Comer(w) /\ ~Comer(w)' => C' = C - 1
  <2>1. /\ Coming(r) \in SUBSET Threads /\ Coming(r)' \in SUBSET Threads
        /\ \A v \in Threads : v # w => (v \in Coming(r)' <=> v \in Coming(r))
        /\ w \in Coming(r) <=> Comer(w)
        /\ w \in Coming(r)' <=> Comer(w)'
    BY <1>1, Frame DEF Coming
  <2> HIDE DEF Comer
  <2>2. QED
    BY <2>1, Members
<1>4. H \in Nat /\ m[r] = H + C
  BY <1>2, LinesCount DEF RejectLogged
<1>5. ASSUME NEW H1 \in Nat, H' = H1, m'[r] = H1 + C'
      PROVE  RejectLogged(r)'
  BY <1>5 DEF RejectLogged
<1>6. CASE Comes(w)
  <2>1. /\ pc[w] = "idle" /\ pc'[w] = "request" /\ UNCHANGED history
        /\ \/ /\ req'[w].route \notin Rejects
              /\ m' = [m EXCEPT !["requests"] = m["requests"] + 1]
           \/ /\ req'[w].route \in Rejects
              /\ m' = [m EXCEPT ![req'[w].route] = m[req'[w].route] + 1]
    BY <1>2, <1>6, Came DEF TypeOK
  <2>2. H' = H
    BY <2>1 DEF RejectLines
  <2>3. CASE req'[w].route = r
    <3>1. m'[r] = m[r] + 1
      BY <1>2, <2>1, <2>3
    <3>2. C' = C + 1
      BY <1>3, <2>1, <2>3
    <3>3. m'[r] = H + C'
      <4> HIDE DEF H, C
      <4>1. QED
        BY <1>3, <1>4, <3>1, <3>2
    <3>4. QED
      BY <1>4, <1>5, <2>2, <3>3
  <2>4. CASE req'[w].route # r
    <3>1. m'[r] = m[r]
      BY <1>2, <2>1, <2>4
    <3>2. C' = C
      BY <1>3, <2>1, <2>4
    <3>3. m'[r] = H + C'
      <4> HIDE DEF H, C
      <4>1. QED
        BY <1>3, <1>4, <3>1, <3>2
    <3>4. QED
      BY <1>4, <1>5, <2>2, <3>3
  <2>5. QED
    BY <2>3, <2>4
<1>7. CASE AddAppends(w) \/ AddStores(w)
  <2>1. pc[w] \in {"request", "access"} /\ Added(w)
    BY <1>7, FiniteThreads DEF AddAppends, AddStores, Inv, Stored
  <2> DEFINE l == history'[Len(history) + 1]
  <2>2. /\ history \in Seq(Lines) /\ history' \in Seq(Lines)
        /\ Len(history') = Len(history) + 1
        /\ \A i \in 1 .. Len(history) : history'[i] = history[i]
        /\ \/ /\ pc[w] = "request" /\ req[w].route \in Refusals
              /\ pc'[w] = "refuse"
              /\ l = <<"refuse", Refusal[req[w].route]>>
           \/ /\ pc[w] = "request" /\ req[w].route \notin Refusals
              /\ pc'[w] = "handler" /\ l = <<"request", 0>>
           \/ /\ pc[w] = "access" /\ pc'[w] = "idle"
              /\ l = <<"access", req[w].status>>
        /\ UNCHANGED m
    BY <1>2, <2>1, LineAdded DEF TypeOK
  <2>3. /\ H' \in Nat
        /\ l \in RejectLines(r) => H' = H + 1
        /\ l \notin RejectLines(r) => H' = H
    <3>1. \A T : /\ Cardinality(LinesOf(history', T)) \in Nat
                 /\ l \in T => Cardinality(LinesOf(history', T))
                                 = Cardinality(LinesOf(history, T)) + 1
                 /\ l \notin T => Cardinality(LinesOf(history', T))
                                    = Cardinality(LinesOf(history, T))
      BY <2>2, LinesAdded
    <3>2. H' = Cardinality(LinesOf(history', RejectLines(r)))
      BY DEF RejectLines
    <3> HIDE DEF l
    <3>3. QED
      BY <3>1, <3>2, Zenon
  <2>4. CASE Comer(w)
    <3>1. l = <<"refuse", Refusal[r]>> /\ pc'[w] = "refuse"
      BY <1>2, <2>2, <2>4
    <3>2. H' = H + 1
      BY <2>3, <3>1 DEF RejectLines
    <3>3. C' = C - 1
      BY <1>3, <2>4, <3>1
    <3>4. m'[r] = H' + C'
      <4>1. m'[r] = m[r]
        BY <2>2
      <4> HIDE DEF H, C
      <4>2. QED
        BY <1>3, <1>4, <3>2, <3>3, <4>1
    <3>5. QED
      BY <1>5, <2>3, <3>4
  <2>5. CASE ~Comer(w)
    <3>1. l # <<"refuse", Refusal[r]>> /\ pc'[w] # "request"
      <4>1. CASE pc[w] = "request" /\ req[w].route \in Refusals
        <5>1. Refusal[req[w].route] # Refusal[r]
          BY <1>2, <2>5, <4>1, Apart
        <5>2. QED
          BY <2>2, <4>1, <5>1
      <4>2. CASE ~(pc[w] = "request" /\ req[w].route \in Refusals)
        BY <2>2, <4>2
      <4>3. QED
        BY <4>1, <4>2
    <3>2. H' = H
      BY <2>3, <3>1 DEF RejectLines
    <3>3. C' = C
      BY <1>3, <2>5, <3>1
    <3>4. m'[r] = H' + C'
      <4>1. m'[r] = m[r]
        BY <2>2
      <4> HIDE DEF H, C
      <4>2. QED
        BY <1>3, <1>4, <3>2, <3>3, <4>1
    <3>5. QED
      BY <1>5, <2>3, <3>4
  <2>6. QED
    BY <2>4, <2>5
<1>8. CASE ~Comes(w) /\ ~AddAppends(w) /\ ~AddStores(w)
  <2>1. /\ m'[r] = m[r] /\ UNCHANGED history
        /\ \/ pc[w] # "request" /\ pc'[w] # "request"
           \/ UNCHANGED <<pc, req>>
    BY <1>1, <1>8, SameRejects
  <2>2. H' = H
    BY <2>1 DEF RejectLines
  <2>3. C' = C
    <3>1. Comer(w)' <=> Comer(w)
      BY <2>1
    <3>2. QED
      BY <1>3, <3>1
  <2>4. m'[r] = H + C'
    <3> HIDE DEF H, C
    <3>1. QED
      BY <1>4, <2>1, <2>3
  <2>5. QED
    BY <1>4, <1>5, <2>2, <2>4
<1>9. QED
  BY <1>1, <1>6, <1>7, <1>8

-----------------------------------------------------------------------------
(* The theorems.                                                           *)

LEMMA InvInit == Init => Inv
<1> SUFFICES ASSUME Init PROVE Inv
  OBVIOUS
<1>1. /\ pc = [w \in Threads |-> "idle"] /\ req = [w \in Threads |-> Idle]
      /\ m = [c \in Counters |-> 0] /\ mu = NoWorker
      /\ entries = <<>> /\ history = <<>> /\ begun = 0 /\ ended = 0
  BY DEF Init
<1>2. \A w \in Threads : /\ pc[w] = "idle" /\ req[w] \in Request
                         /\ req[w].status = 0 /\ req[w].loaded = <<>>
                         /\ req[w].tail = <<>>
  BY <1>1, IdleType, Nothing
<1>3. m \in [Counters -> Nat] /\ \A c \in Counters : m[c] = 0
  BY <1>1
<1>4. /\ {"requests", "total", "max", "2xx", "4xx", "5xx"} \subseteq Counters
      /\ {"waf", "parse", "queue", "limited"} \subseteq Counters
  BY Kinds
<1>5. LogMax \in Nat /\ LogMax > 0
  BY MonitorAssumption
<1>6. TypeOK
  <2>1. \A w \in Threads : Len(req[w].loaded) <= Len(Loads)
    BY <1>2, LoadsAre
  <2>2. entries \in Seq(Lines) /\ history \in Seq(Lines) /\ Len(entries) = 0
    BY <1>1
  <2>3. req \in [Threads -> Request] /\ pc \in [Threads -> PCs]
    BY <1>1, IdleType DEF PCs
  <2>4. QED
    BY <1>1, <1>3, <1>5, <2>1, <2>2, <2>3 DEF TypeOK
<1>7. Locals
  BY <1>2 DEF Locals, Local, Inside
<1>8. Maximum
  BY <1>1, <1>3, <1>4 DEF Maximum
<1>9. Ratio /\ AnswerCount
  <2>1. Unrecorded = {} /\ Unanswered = {}
    BY <1>2 DEF Unrecorded, Unanswered
  <2>2. Cardinality(Unrecorded) = 0 /\ Cardinality(Unanswered) = 0
    BY <2>1, FS_EmptySet
  <2>3. QED
    BY <1>1, <1>3, <1>4, <2>2 DEF Ratio, AnswerCount, Answers, Arrived
<1>10. Scrapes
  BY <1>2 DEF Scrapes, Scrape
<1>11. Stored
  BY <1>1, <1>5 DEF Stored, Smaller
<1>12. Tails
  BY <1>2 DEF Tails, TailOf
<1>13. \A T : LinesOf(history, T) = {} /\ Cardinality(LinesOf(history, T)) = 0
  <2> TAKE T
  <2>1. LinesOf(history, T) = {}
    BY <1>1 DEF LinesOf
  <2>2. QED
    BY <2>1, FS_EmptySet
<1>14. AllLogged
  <2> SUFFICES ASSUME NEW code \in {200, 405, 500} PROVE Logged(code)
    BY DEF AllLogged
  <2>1. Answered(code) = {} /\ Refusing(code) = {}
    BY <1>2 DEF Answered, Refusing
  <2>2. Cardinality(Answered(code)) = 0 /\ Cardinality(Refusing(code)) = 0
    BY <2>1, FS_EmptySet
  <2>3. m[Class(code)] = 0
    BY <1>3, Classes
  <2>4. QED
    BY <1>13, <2>2, <2>3 DEF Logged
<1>15. AllRejects
  <2> SUFFICES ASSUME NEW r \in Rejects PROVE RejectLogged(r)
    BY DEF AllRejects
  <2>1. Coming(r) = {}
    BY <1>2 DEF Coming
  <2>2. Cardinality(Coming(r)) = 0 /\ m[r] = 0
    BY <1>3, <2>1, Kinds, FS_EmptySet
  <2>3. QED
    BY <1>13, <2>2 DEF RejectLogged
<1>16. QED
  BY <1>6, <1>7, <1>8, <1>9, <1>10, <1>11, <1>12, <1>14, <1>15 DEF Inv

\* The invariant holds in every reachable state, whatever the number of
\* workers, the durations and the capacity of LogStore.
THEOREM Invariance == Spec => []Inv
<1>1. Inv /\ [Next]_vars => Inv'
  <2> SUFFICES ASSUME Inv, [Next]_vars PROVE Inv'
    OBVIOUS
  <2>1. TypeOK' /\ Locals' /\ Maximum' /\ Ratio' /\ AnswerCount'
    BY TypeStep, LocalsStep, MaximumStep, RatioStep, AnswerCountStep
  <2>2. Scrapes' /\ Stored' /\ Tails' /\ AllLogged' /\ AllRejects'
    BY ScrapesStep, StoredStep, TailsStep, LoggedStep, RejectsStep
  <2>3. QED
    BY <2>1, <2>2 DEF Inv
<1>2. QED
  BY <1>1, InvInit, PTL DEF Spec

\* The compare-and-swap loop of RecordRequestDuration loses no duration to a
\* concurrent recorder.
THEOREM MaximumHolds == Spec => []MaxIsLargest
<1>1. Inv => MaxIsLargest
  <2> SUFFICES ASSUME Inv PROVE MaxIsLargest
    OBVIOUS
  <2>1. m["max"] \in Nat /\ begun \in Nat /\ ended \in Nat
    BY DEF Inv, TypeOK, Counters
  <2>2. QED
    BY <2>1 DEF Inv, Maximum, MaxIsLargest, Inside
<1>2. QED
  BY <1>1, Invariance, PTL

\* What Metrics.Snapshot returns hangs together although it is not atomic:
\* average, requests and answers of one scrape agree.
THEOREM ScrapesHold == Spec => []ScrapeIsConsistent
<1>1. Inv => ScrapeIsConsistent
  <2> SUFFICES ASSUME Inv, NEW w \in Threads
               PROVE  LET s == req[w].loaded
                      IN  /\ Len(s) >= 3 => s[2] <= s[3] * begun
                          /\ Len(s) = Len(Loads) /\ pc[w] = "write" =>
                                /\ s[1] >= 1 /\ s[1] <= s[3]
                                /\ s[9] + s[10] + s[11] < Arrived
    BY DEF ScrapeIsConsistent
  <2> DEFINE s == req[w].loaded
  <2>1. Scrape(w) /\ s \in Seq(Nat) /\ Len(Loads) = 11
    BY LoadsAre DEF Inv, Scrapes, TypeOK, Request
  <2>2. Len(s) >= 3 => s[2] <= s[3] * begun
    BY <2>1 DEF Scrape
  <2>3. ASSUME Len(s) = 11, pc[w] = "write"
        PROVE  s[1] >= 1 /\ s[1] <= s[3] /\ s[9] + s[10] + s[11] < Arrived
    <3>1. s[1] \in Nat /\ s[9] \in Nat /\ s[10] \in Nat /\ s[11] \in Nat
      BY <2>1, <2>3
    <3>2. /\ 1 <= s[1] /\ s[1] <= s[3]
          /\ s[9] <= m["2xx"] /\ s[10] <= m["4xx"] /\ s[11] <= m["5xx"]
      BY <2>1, <2>3 DEF Scrape
    <3>3. m["2xx"] + m["4xx"] + m["5xx"] < Arrived
      BY <2>3, OwnRequest DEF Answers
    <3>4. /\ m["2xx"] \in Nat /\ m["4xx"] \in Nat /\ m["5xx"] \in Nat
          /\ m["requests"] \in Nat /\ m["waf"] \in Nat /\ m["parse"] \in Nat
          /\ m["queue"] \in Nat /\ m["limited"] \in Nat
      BY Kinds DEF Inv, TypeOK
    <3>5. Arrived \in Nat
      BY <3>4 DEF Arrived
    <3>6. s[9] + s[10] + s[11] < Arrived
      <4> HIDE DEF s
      <4>1. QED
        BY <3>1, <3>2, <3>3, <3>4, <3>5
    <3>7. QED
      BY <3>1, <3>2, <3>6
  <2>4. QED
    BY <2>1, <2>2, <2>3
<1>2. QED
  BY <1>1, Invariance, PTL

\* LogStore keeps the newest lines in their order, and /api/logs returns the
\* end of the log at one moment.
THEOREM LogsHold == Spec => []LogsAreTail
<1>1. Inv => LogsAreTail
  <2> SUFFICES ASSUME Inv PROVE LogsAreTail
    OBVIOUS
  <2>1. TypeOK /\ \A w \in Threads : TailOf(w)
    BY DEF Inv, Tails
  <2>2. ASSUME mu = NoWorker
        PROVE  entries = Last(history, Smaller(LogMax, Len(history)))
    <3> DEFINE k == Len(entries)
    <3>1. /\ entries \in Seq(Lines) /\ history \in Seq(Lines)
          /\ k = Smaller(LogMax, Len(history)) /\ Len(history) \in Nat
          /\ \A i \in 1 .. k : entries[i] = history[Len(history) - k + i]
      BY <2>2 DEF Inv, TypeOK, Stored
    <3>2. k \in 0 .. Len(history)
      BY <3>1, MonitorAssumption DEF Smaller
    <3>3. /\ Last(history, k) \in Seq(Lines) /\ Len(Last(history, k)) = k
          /\ \A i \in 1 .. k : Last(history, k)[i] = history[Len(history) - k + i]
      BY <3>1, <3>2, LastProperties
    <3>4. \A i \in 1 .. k : entries[i] = Last(history, k)[i]
      BY <3>1, <3>3
    <3>5. entries = Last(history, k)
      BY <3>1, <3>3, <3>4, SeqEqual
    <3>6. QED
      BY <3>1, <3>5
  <2>3. QED
    BY <2>1, <2>2 DEF LogsAreTail, TailOf, TailAt
<1>2. QED
  BY <1>1, Invariance, PTL

\* The counters and the log agree: every refusal that was counted has its line
\* or is about to add it, every answer that was counted has its line in the
\* access log or belongs to a refusal that has a line.
THEOREM AnswersHold == Spec => []AnswersAreLogged
<1>1. Inv => AnswersAreLogged
  <2> SUFFICES ASSUME Inv PROVE AnswersAreLogged
    OBVIOUS
  <2>1. TypeOK /\ history \in Seq(Lines) /\ Len(history) \in Nat
    BY DEF Inv, TypeOK
  <2>2. ASSUME NEW r \in Rejects
        PROVE  m[r] = Cardinality({i \in 1 .. Len(history) :
                                      history[i] = <<"refuse", Refusal[r]>>})
                    + Cardinality({w \in Threads :
                                      pc[w] = "request" /\ req[w].route = r})
    <3>1. LinesOf(history, RejectLines(r)) =
             {i \in 1 .. Len(history) : history[i] = <<"refuse", Refusal[r]>>}
      BY DEF LinesOf, RejectLines
    <3>2. QED
      BY <3>1, Zenon DEF Inv, AllRejects, RejectLogged, Coming
  <2>3. ASSUME NEW code \in {200, 405, 500}
        PROVE  LET logged == Cardinality({i \in 1 .. Len(history) :
                                             history[i] = <<"access", code>>})
                           + Cardinality({w \in Threads : req[w].status = code})
                   refused == Cardinality({i \in 1 .. Len(history) :
                                 /\ history[i][1] = "refuse"
                                 /\ Class(history[i][2]) = Class(code)})
               IN  m[Class(code)] \in logged .. logged + refused
    <3>1. LinesOf(history, AccessLines(code)) =
             {i \in 1 .. Len(history) : history[i] = <<"access", code>>}
      BY DEF LinesOf, AccessLines
    <3>2. LinesOf(history, RefuseLines(code)) =
             {i \in 1 .. Len(history) : /\ history[i][1] = "refuse"
                                        /\ Class(history[i][2]) = Class(code)}
      <4>1. \A i \in 1 .. Len(history) : history[i] \in Lines
        BY <2>1
      <4>2. QED
        BY <4>1, SMT DEF LinesOf, RefuseLines
    <3> DEFINE H == Cardinality(LinesOf(history, AccessLines(code)))
               D == Cardinality(LinesOf(history, RefuseLines(code)))
               A == Cardinality(Answered(code))
               F == Cardinality(Refusing(code))
    <3>3. H \in Nat /\ D \in Nat
      BY <2>1, LinesCount
    <3>4. A \in Nat /\ F \in Nat
      <4>1. Answered(code) \subseteq Threads /\ Refusing(code) \subseteq Threads
        BY DEF Answered, Refusing
      <4>2. IsFiniteSet(Answered(code)) /\ IsFiniteSet(Refusing(code))
        BY <4>1, FiniteThreads, FS_Subset
      <4>3. QED
        BY <4>2, FS_CardinalityType
    <3>5. /\ H + A <= m[Class(code)] /\ m[Class(code)] + F <= H + A + D
          /\ m[Class(code)] \in Nat
      BY <2>1, Classes DEF Inv, AllLogged, Logged, TypeOK
    <3>6. m[Class(code)] \in H + A .. H + A + D
      <4> HIDE DEF H, A, D, F
      <4>1. QED
        BY <3>3, <3>4, <3>5
    <3>7. QED
      BY <3>1, <3>2, <3>6, Zenon DEF Answered
  <2>4. QED
    BY <2>2, <2>3, Zenon DEF AnswersAreLogged
<1>2. QED
  BY <1>1, Invariance, PTL

=============================================================================
