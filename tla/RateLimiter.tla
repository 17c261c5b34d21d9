---------------------------- MODULE RateLimiter -----------------------------
(***************************************************************************)
(* security/ratelimiter/limiter.go: lazily refilled token buckets in a map *)
(* under a mutex, with idle buckets deleted.  Allow reads the clock before *)
(* it takes the lock, so a caller may come in with an old `now'.           *)
(*                                                                         *)
(* Units as in TokenBucket: a bucket earns one unit of tokens per unit of  *)
(* time, Cost is one token and Capacity the capacity in those units.  The  *)
(* clock is Go's monotonic one.                                            *)
(***************************************************************************)
EXTENDS Integers

CONSTANTS Keys,      \* client addresses
          Callers,   \* goroutines that call Allow; the server has one
          Cost, Capacity,
          TTL,       \* bucketTTL
          NoKey,     \* the caller is not in Allow
          NoBucket,  \* no entry in the map
          MaxStall,  \* longest wait between time.Now() and the lock
          MaxClock   \* bound on the clock

\* NewWithTTL replaces a bucketTTL that is not positive.
ASSUME LimiterAssumption ==
    /\ Cost \in Nat \ {0}
    /\ Capacity \in Nat \ {0}
    /\ TTL \in Nat \ {0}
    /\ MaxStall \in Nat
    /\ MaxClock \in Nat
    /\ NoKey \notin Keys
    /\ NoBucket \notin [tokens : Int, lastRefill : Nat]

VARIABLES clock,
          now,          \* now[c]: what c's time.Now() returned last
          want,         \* want[c]: the key c calls Allow with
          buckets,      \* the map
          lastCleanup,
          answer,       \* the last result of Allow
          windowStart,  \* observer, see TokenBucket
          inWindow

vars == <<clock, now, want, buckets, lastCleanup, answer, windowStart,
          inWindow>>

Bucket == [tokens : Int, lastRefill : Nat]

Least(a, b) == IF a <= b THEN a ELSE b

Init ==
    /\ clock = 0
    /\ now = [c \in Callers |-> 0]
    /\ want = [c \in Callers |-> NoKey]
    /\ buckets = [k \in Keys |-> NoBucket]
    /\ lastCleanup = 0
    /\ answer = "none"
    /\ windowStart = 0
    /\ inWindow = [k \in Keys |-> 0]

Tick ==
    /\ clock < MaxClock
    /\ \A c \in Callers : want[c] # NoKey => clock - now[c] < MaxStall
    /\ clock' = clock + 1
    /\ UNCHANGED <<now, want, buckets, lastCleanup, answer, windowStart,
                   inWindow>>

\* Allow(k): now := time.Now(), outside the lock.
ReadClock(c, k) ==
    /\ want[c] = NoKey
    /\ want' = [want EXCEPT ![c] = k]
    /\ now' = [now EXCEPT ![c] = clock]
    /\ answer' = "none"
    /\ UNCHANGED <<clock, buckets, lastCleanup, windowStart, inWindow>>

-----------------------------------------------------------------------------
(* The critical section of Allow, in the three parts of the source.        *)

\* cleanupExpiredBuckets(now): whether it runs, and the map it leaves.
CleanupDue(n) == 2 * (n - lastCleanup) >= TTL
Expired(n, b) == b # NoBucket /\ b.lastRefill < n - TTL
Cleaned(n) ==
    [k \in Keys |-> IF CleanupDue(n) /\ Expired(n, buckets[k])
                    THEN NoBucket ELSE buckets[k]]

\* Faulty variants of Refilled: lastRefill is not advanced; a `now' in the
\* past earns nothing but is stored.
RefilledTwice(n, b) ==
    IF b = NoBucket
    THEN [tokens |-> Capacity, lastRefill |-> n]
    ELSE [tokens |-> Least(Capacity, b.tokens + (n - b.lastRefill)),
          lastRefill |-> b.lastRefill]
RefilledClamped(n, b) ==
    IF b = NoBucket
    THEN [tokens |-> Capacity, lastRefill |-> n]
    ELSE [tokens |-> Least(Capacity, b.tokens + (IF n > b.lastRefill
                                                 THEN n - b.lastRefill
                                                 ELSE 0)),
          lastRefill |-> n]

\* The bucket of k after the refill, or the one a new client gets: full.
Refilled(n, b) ==
    IF b = NoBucket
    THEN [tokens |-> Capacity, lastRefill |-> n]
    ELSE [tokens |-> Least(Capacity, b.tokens + (n - b.lastRefill)),
          lastRefill |-> n]

\* A new client is let in without a test.
Admits(n, b) == b = NoBucket \/ Refilled(n, b).tokens >= Cost

Deduct(b) == [b EXCEPT !.tokens = @ - Cost]

\* Allow(k): everything under l.mu.
Decide(c) ==
    /\ want[c] # NoKey
    /\ LET k  == want[c]
           n  == now[c]
           m  == Cleaned(n)
           b  == Refilled(n, m[k])
           ok == Admits(n, m[k])
       IN  /\ buckets' = [m EXCEPT ![k] = IF ok THEN Deduct(b) ELSE b]
           /\ lastCleanup' = IF CleanupDue(n) THEN n ELSE lastCleanup
           /\ answer' = IF ok THEN "yes" ELSE "no"
           /\ inWindow' = [inWindow EXCEPT ![k] = IF ok THEN @ + 1 ELSE @]
    /\ want' = [want EXCEPT ![c] = NoKey]
    /\ UNCHANGED <<clock, now, windowStart>>

-----------------------------------------------------------------------------
\* The latest time any caller has read.
IsLatest(t) == (\E c \in Callers : t = now[c]) /\ \A c \in Callers : t >= now[c]

\* The observer starts a window between calls.
StartWindow ==
    /\ \A c \in Callers : want[c] = NoKey
    /\ \E c \in Callers : IsLatest(now[c]) /\ windowStart' = now[c]
    /\ inWindow' = [k \in Keys |-> 0]
    /\ UNCHANGED <<clock, now, want, buckets, lastCleanup, answer>>

Next ==
    \/ Tick
    \/ \E c \in Callers, k \in Keys : ReadClock(c, k)
    \/ \E c \in Callers : Decide(c)
    \/ StartWindow

Spec == Init /\ [][Next]_vars

-----------------------------------------------------------------------------
(* Properties.                                                             *)

TypeOK ==
    /\ clock \in Nat
    /\ now \in [Callers -> Nat]
    /\ want \in [Callers -> Keys \cup {NoKey}]
    /\ buckets \in [Keys -> Bucket \cup {NoBucket}]
    /\ \A k \in Keys :
          buckets[k] # NoBucket => buckets[k].tokens <= Capacity
    /\ lastCleanup \in Nat
    /\ answer \in {"none", "yes", "no"}
    /\ windowStart \in Nat
    /\ inWindow \in [Keys -> Nat]

\* The server calls Allow from the accept loop only.
Caller == CHOOSE c \in Callers : TRUE

\* What bucket b is worth at time t: an absent one is full.
Level(t, b) == Refilled(t, b).tokens

TB == INSTANCE TokenBucket WITH
          time   <- now[Caller],
          level  <- [k \in Keys |-> Level(now[Caller], buckets[k])],
          asking <- want[Caller]

\* With one caller, lazy refill and deletion of idle buckets cannot be told
\* from buckets that fill all the time and are never deleted, provided that
\* a bucket holds a token and is full again when it may be deleted.
ImplementsTokenBucket == TB!Spec

\* So no client gets more in a window than a full bucket and what the rate
\* earns in the window, deletions of idle buckets included.
WindowBoundKept == TB!WindowBound

\* With any number of callers, and whatever the order in which they take the
\* lock after reading the clock, no client gets more in a window than a full
\* bucket and what is earned in the window: an old `now' moves lastRefill
\* back, but never earns the same time twice.
StaleWindowBound ==
    /\ TypeOK
    /\ \A k \in Keys, t \in {now[c] : c \in Callers} :
          IsLatest(t) => inWindow[k] * Cost <= Capacity + (t - windowStart)
=============================================================================
