------------------------- MODULE RateLimiterProofs --------------------------
(***************************************************************************)
(* The limiter as the server uses it, called by one goroutine, implements  *)
(* TokenBucket, for every rate, capacity, TTL and set of clients with      *)
(* 1 <= capacity <= rate * bucketTTL.  It follows that it never lets more  *)
(* in than a token bucket may.                                             *)
(***************************************************************************)
EXTENDS RateLimiter, TLAPS

\* The accept loop is the only caller; a bucket holds a token and an idle one
\* is full again before it may be deleted.
ServerUse ==
    /\ Callers = {Caller}
    /\ Cost <= Capacity
    /\ Capacity <= TTL

\* What is in the map is never in debt or in the future: this is what makes
\* a deleted bucket equal to a full one.
BucketOK(t, b) ==
    /\ b \in Bucket \cup {NoBucket}
    /\ b # NoBucket => b.tokens \in 0 .. Capacity /\ b.lastRefill <= t

Inv ==
    /\ clock \in Nat
    /\ now \in [Callers -> Nat]
    /\ now[Caller] <= clock
    /\ want \in [Callers -> Keys \cup {NoKey}]
    /\ buckets \in [Keys -> Bucket \cup {NoBucket}]
    /\ \A k \in Keys : BucketOK(now[Caller], buckets[k])
    /\ inWindow \in [Keys -> Nat]

-----------------------------------------------------------------------------
(* The level of one bucket.                                                *)

LEMMA NoBucketIsNone == NoBucket \notin Bucket
  BY LimiterAssumption DEF Bucket

LEMMA LevelOf ==
    ASSUME NEW t \in Nat, NEW b, BucketOK(t, b)
    PROVE  /\ b = NoBucket => Level(t, b) = Capacity
           /\ b # NoBucket =>
                 Level(t, b) = Least(Capacity, b.tokens + (t - b.lastRefill))
           /\ Level(t, b) \in 0 .. Capacity
  BY LimiterAssumption DEF Level, Refilled, BucketOK, Bucket, Least

\* Lazy refill: the level at a later time is the level now and what is earned
\* between.
LEMMA LevelLater ==
    ASSUME NEW t \in Nat, NEW u \in Nat, t <= u, NEW b, BucketOK(t, b)
    PROVE  /\ BucketOK(u, b)
           /\ Level(u, b) = Least(Capacity, Level(t, b) + (u - t))
<1>1. BucketOK(u, b)
  BY DEF BucketOK, Bucket
<1>2. QED
  BY <1>1, LevelOf, LimiterAssumption DEF BucketOK, Bucket, Least

\* An expired bucket is full, so deleting it changes nothing.
LEMMA ExpiredIsFull ==
    ASSUME NEW t \in Nat, NEW b, BucketOK(t, b), Expired(t, b), Capacity <= TTL
    PROVE  Level(t, b) = Capacity
  BY LevelOf, LimiterAssumption DEF BucketOK, Bucket, Least, Expired

LEMMA CleanedLevel ==
    ASSUME ServerUse, Inv, NEW k \in Keys, NEW t, t = now[Caller]
    PROVE  /\ BucketOK(t, Cleaned(t)[k])
           /\ Level(t, Cleaned(t)[k]) = Level(t, buckets[k])
<1>1. t \in Nat /\ BucketOK(t, buckets[k])
  BY DEF Inv, ServerUse
<1>2. CASE CleanupDue(t) /\ Expired(t, buckets[k])
  <2>1. Cleaned(t)[k] = NoBucket
    BY <1>2 DEF Cleaned
  <2>2. BucketOK(t, NoBucket)
    BY DEF BucketOK
  <2>3. Level(t, NoBucket) = Capacity
    BY <2>2, <1>1, LevelOf
  <2>4. Level(t, buckets[k]) = Capacity
    BY <1>1, <1>2, ExpiredIsFull DEF ServerUse
  <2>5. QED
    BY <2>1, <2>2, <2>3, <2>4
<1>3. CASE ~(CleanupDue(t) /\ Expired(t, buckets[k]))
  <2>1. Cleaned(t)[k] = buckets[k]
    BY <1>3 DEF Cleaned
  <2>2. QED
    BY <2>1, <1>1
<1>4. QED
  BY <1>2, <1>3

\* What Allow does to the bucket of its key.
LEMMA Decided ==
    ASSUME NEW t \in Nat, NEW b, BucketOK(t, b), Cost <= Capacity
    PROVE  LET r == Refilled(t, b)
           IN  /\ Admits(t, b) <=> Level(t, b) >= Cost
               /\ BucketOK(t, r) /\ r # NoBucket
               /\ Level(t, r) = Level(t, b)
               /\ Admits(t, b) =>
                     /\ BucketOK(t, Deduct(r)) /\ Deduct(r) # NoBucket
                     /\ Level(t, Deduct(r)) = Level(t, b) - Cost
<1> DEFINE r == Refilled(t, b)
<1>1. /\ r = [tokens |-> Level(t, b), lastRefill |-> t]
      /\ Level(t, b) \in 0 .. Capacity
  <2>1. CASE b = NoBucket
    BY <2>1, LevelOf DEF Refilled, Level
  <2>2. CASE b # NoBucket
    BY <2>2, LevelOf DEF Refilled, Level
  <2>3. QED
    BY <2>1, <2>2
<1>2. Admits(t, b) <=> Level(t, b) >= Cost
  <2>1. CASE b = NoBucket
    BY <2>1, LevelOf DEF Admits
  <2>2. CASE b # NoBucket
    BY <2>2 DEF Admits, Level
  <2>3. QED
    BY <2>1, <2>2
<1>3. ASSUME NEW n \in 0 .. Capacity
      PROVE  LET c == [tokens |-> n, lastRefill |-> t]
             IN  BucketOK(t, c) /\ c # NoBucket /\ Level(t, c) = n
  <2> DEFINE c == [tokens |-> n, lastRefill |-> t]
  <2>1. c \in Bucket
    BY LimiterAssumption DEF Bucket
  <2>2. c # NoBucket
    BY <2>1, NoBucketIsNone
  <2>3. BucketOK(t, c)
    BY <2>1 DEF BucketOK
  <2>4. Level(t, c) = Least(Capacity, n + (t - t))
    BY <2>2, <2>3, LevelOf
  <2>5. QED
    BY <2>2, <2>3, <2>4, LimiterAssumption DEF Least
<1>4. Admits(t, b) =>
         /\ Deduct(r) = [tokens |-> Level(t, b) - Cost, lastRefill |-> t]
         /\ Level(t, b) - Cost \in 0 .. Capacity
  BY <1>1, <1>2, LimiterAssumption DEF Deduct
<1>5. BucketOK(t, r) /\ r # NoBucket /\ Level(t, r) = Level(t, b)
  BY <1>1, <1>3
<1>6. Admits(t, b) => /\ BucketOK(t, Deduct(r)) /\ Deduct(r) # NoBucket
                      /\ Level(t, Deduct(r)) = Level(t, b) - Cost
  BY <1>3, <1>4
<1>7. QED
  BY <1>2, <1>5, <1>6

-----------------------------------------------------------------------------
(* One step of the limiter is a step of the token bucket.                  *)

LEMMA OneCaller ==
    ASSUME ServerUse
    PROVE  Caller \in Callers /\ \A c \in Callers : c = Caller
  BY DEF ServerUse

LEMMA InvInit ==
    ASSUME ServerUse, Init
    PROVE  Inv /\ TB!Init
<1>1. Inv
  BY OneCaller DEF Init, Inv, BucketOK
<1>2. \A k \in Keys : Level(now[Caller], buckets[k]) = Capacity
  BY <1>1, LevelOf, OneCaller DEF Init, Inv
<1>3. QED
  BY <1>1, <1>2, OneCaller DEF Init, TB!Init

\* Reading the clock is the arrival of a request.
LEMMA ReadClockAsks ==
    ASSUME ServerUse, Inv, NEW c \in Callers, NEW k \in Keys, ReadClock(c, k)
    PROVE  Inv' /\ TB!Ask(k)
<1>1. /\ c = Caller /\ Caller \in Callers
      /\ now[Caller] \in Nat /\ clock \in Nat /\ now[Caller] <= clock
  BY OneCaller DEF Inv
<1>2. /\ now'[Caller] = clock /\ want'[Caller] = k /\ want[Caller] = NoKey
      /\ buckets' = buckets /\ clock' = clock
  BY <1>1 DEF ReadClock, Inv
<1>3. \A j \in Keys :
         /\ BucketOK(clock, buckets[j])
         /\ Level(clock, buckets[j]) =
               Least(Capacity, Level(now[Caller], buckets[j])
                                  + (clock - now[Caller]))
  BY <1>1, LevelLater DEF Inv
<1>4. Inv'
  <2>1. now' \in [Callers -> Nat] /\ want' \in [Callers -> Keys \cup {NoKey}]
    BY <1>1 DEF ReadClock, Inv
  <2>2. \A j \in Keys : BucketOK(now'[Caller], buckets'[j])
    BY <1>2, <1>3
  <2>3. QED
    BY <1>1, <1>2, <2>1, <2>2 DEF ReadClock, Inv
<1>5. [j \in Keys |-> Level(now'[Caller], buckets'[j])] =
      [j \in Keys |-> TB!Least(Capacity,
                               [i \in Keys |-> Level(now[Caller], buckets[i])][j]
                                  + (now'[Caller] - now[Caller]))]
  BY <1>2, <1>3 DEF Least, TB!Least
<1>6. QED
  BY <1>1, <1>2, <1>4, <1>5 DEF ReadClock, TB!Ask

\* The critical section is the decision.
LEMMA DecideReplies ==
    ASSUME ServerUse, Inv, NEW c \in Callers, Decide(c)
    PROVE  Inv' /\ TB!Reply
<1> DEFINE t == now[Caller]
           k == want[Caller]
           b == Cleaned(t)[k]
           r == Refilled(t, b)
           level == [j \in Keys |-> Level(t, buckets[j])]
<1>1. /\ c = Caller /\ Caller \in Callers /\ t \in Nat /\ k \in Keys
      /\ now' = now /\ clock' = clock /\ want' = [want EXCEPT ![Caller] = NoKey]
      /\ windowStart' = windowStart
  BY OneCaller DEF Decide, Inv
<1>2. BucketOK(t, b) /\ Level(t, b) = level[k]
  BY <1>1, CleanedLevel
<1>3. /\ Admits(t, b) <=> level[k] >= Cost
      /\ BucketOK(t, r) /\ Level(t, r) = level[k]
      /\ Admits(t, b) => /\ BucketOK(t, Deduct(r))
                         /\ Level(t, Deduct(r)) = level[k] - Cost
  BY <1>1, <1>2, Decided DEF ServerUse
<1>4. /\ buckets' = [Cleaned(t) EXCEPT
                        ![k] = IF Admits(t, b) THEN Deduct(r) ELSE r]
      /\ answer' = IF Admits(t, b) THEN "yes" ELSE "no"
      /\ inWindow' = [inWindow EXCEPT ![k] = IF Admits(t, b) THEN @ + 1 ELSE @]
  BY <1>1 DEF Decide
<1> DEFINE after == IF Admits(t, b) THEN Deduct(r) ELSE r
<1>5. \A j \in Keys : buckets'[j] = IF j = k THEN after ELSE Cleaned(t)[j]
  BY <1>1, <1>4 DEF Cleaned
<1>6. \A j \in Keys :
         /\ BucketOK(t, buckets'[j])
         /\ Level(t, buckets'[j]) =
               IF j = k /\ Admits(t, b) THEN level[k] - Cost ELSE level[j]
  <2> SUFFICES ASSUME NEW j \in Keys
               PROVE  /\ BucketOK(t, buckets'[j])
                      /\ Level(t, buckets'[j]) =
                            IF j = k /\ Admits(t, b) THEN level[k] - Cost
                                                     ELSE level[j]
      OBVIOUS
  <2>1. CASE j = k
    BY <2>1, <1>1, <1>3, <1>5
  <2>2. CASE j # k
    <3>1. BucketOK(t, Cleaned(t)[j]) /\ Level(t, Cleaned(t)[j]) = level[j]
      BY CleanedLevel
    <3>2. QED
      BY <2>2, <3>1, <1>5
  <2>3. QED
    BY <2>1, <2>2
<1>7. Inv'
  <2>1. buckets' \in [Keys -> Bucket \cup {NoBucket}]
    <3>1. \A j \in Keys : buckets'[j] \in Bucket \cup {NoBucket}
      BY <1>6 DEF BucketOK
    <3>2. buckets' = [j \in Keys |-> buckets'[j]]
      BY <1>4 DEF Cleaned
    <3>3. QED
      BY <3>1, <3>2
  <2>2. want' \in [Callers -> Keys \cup {NoKey}]
    BY <1>1 DEF Inv
  <2>3. inWindow' \in [Keys -> Nat]
    BY <1>1, <1>4 DEF Inv
  <2>4. QED
    BY <1>1, <1>6, <2>1, <2>2, <2>3 DEF Inv
<1>8. TB!Reply
  <2>1. k # NoKey /\ want'[Caller] = NoKey
    BY <1>1, LimiterAssumption DEF Inv
  <2>2. CASE Admits(t, b)
    <3>1. [j \in Keys |-> Level(now'[Caller], buckets'[j])] =
          [level EXCEPT ![k] = @ - Cost]
      BY <1>1, <1>6, <2>2
    <3>2. inWindow' = [inWindow EXCEPT ![k] = @ + 1] /\ answer' = "yes"
      BY <1>4, <2>2
    <3>3. QED
      BY <1>1, <1>3, <2>1, <2>2, <3>1, <3>2 DEF TB!Reply
  <2>3. CASE ~Admits(t, b)
    <3>1. [j \in Keys |-> Level(now'[Caller], buckets'[j])] = level
      BY <1>1, <1>6, <2>3
    <3>2. inWindow' = inWindow /\ answer' = "no"
      BY <1>1, <1>4, <2>3 DEF Inv
    <3>3. level[k] < Cost
      <4>1. level[k] \in Int
        BY <1>1, <1>2, LevelOf
      <4>2. QED
        BY <4>1, <1>3, <2>3, LimiterAssumption
    <3>4. QED
      BY <1>1, <2>1, <3>1, <3>2, <3>3 DEF TB!Reply
  <2>4. QED
    BY <2>2, <2>3
<1>9. QED
  BY <1>7, <1>8

LEMMA StepRefines ==
    ASSUME ServerUse, Inv, [Next]_vars
    PROVE  Inv' /\ [TB!Next]_TB!vars
<1>1. CASE Tick
  <2>1. UNCHANGED <<now, want, buckets, answer, windowStart, inWindow>>
    BY <1>1 DEF Tick
  <2>2. Inv'
    BY <1>1, <2>1, OneCaller DEF Tick, Inv
  <2>3. QED
    BY <2>1, <2>2 DEF TB!vars
<1>2. CASE \E c \in Callers, k \in Keys : ReadClock(c, k)
  BY <1>2, ReadClockAsks DEF TB!Next
<1>3. CASE \E c \in Callers : Decide(c)
  BY <1>3, DecideReplies DEF TB!Next
<1>4. CASE StartWindow
  <2>1. /\ UNCHANGED <<clock, now, want, buckets, answer>>
        /\ windowStart' = now[Caller] /\ want[Caller] = NoKey
        /\ inWindow' = [k \in Keys |-> 0]
    BY <1>4, OneCaller DEF StartWindow
  <2>2. Inv'
    BY <2>1 DEF Inv
  <2>3. TB!StartWindow
    BY <2>1 DEF TB!StartWindow
  <2>4. QED
    BY <2>2, <2>3 DEF TB!Next
<1>5. CASE UNCHANGED vars
  BY <1>5 DEF vars, Inv, TB!vars
<1>6. QED
  BY <1>1, <1>2, <1>3, <1>4, <1>5 DEF Next

\* The limiter implements the token bucket.
THEOREM Refinement ==
    ASSUME ServerUse
    PROVE  Spec => ImplementsTokenBucket
<1>1. Init => Inv /\ TB!Init
  BY InvInit
<1>2. Inv /\ [Next]_vars => Inv' /\ [TB!Next]_TB!vars
  BY StepRefines
<1>3. QED
  BY <1>1, <1>2, PTL DEF Spec, ImplementsTokenBucket, TB!Spec

-----------------------------------------------------------------------------
(* The bound of a token bucket, by induction along its own steps.          *)

\* The level of k's bucket in the abstract state.
Units(k) == [j \in Keys |-> Level(now[Caller], buckets[j])][k]

LEMMA UnitsInRange ==
    ASSUME ServerUse, Inv, NEW k \in Keys
    PROVE  Units(k) \in 0 .. Capacity
<1>1. now[Caller] \in Nat /\ BucketOK(now[Caller], buckets[k])
  BY OneCaller DEF Inv
<1>2. QED
  BY <1>1, LevelOf DEF Units

LEMMA OneMore ==
    ASSUME NEW n \in Nat, NEW c \in Nat
    PROVE  (n + 1) * c = n * c + c /\ n * c \in Nat
  OBVIOUS

\* A request costs what it takes out of the bucket; time fills the bucket by
\* what the window grows; a new window begins with the bucket as it is.
LEMMA BoundStep ==
    ASSUME ServerUse, Inv, Inv', windowStart \in Nat, TB!WindowBound,
           [TB!Next]_TB!vars
    PROVE  windowStart' \in Nat /\ TB!WindowBound'
<1>0. /\ Cost \in Nat /\ Capacity \in Nat /\ inWindow \in [Keys -> Nat]
      /\ now[Caller] \in Nat /\ now'[Caller] \in Nat /\ want[Caller] \in Keys \cup {NoKey}
  BY OneCaller, LimiterAssumption DEF Inv
<1>1. windowStart' \in Nat
  BY <1>0 DEF TB!Next, TB!Ask, TB!Reply, TB!StartWindow, TB!vars
<1>2. SUFFICES ASSUME NEW k \in Keys
               PROVE  inWindow'[k] * Cost + Units(k)'
                         <= Capacity + (now'[Caller] - windowStart')
  BY <1>1 DEF TB!WindowBound, Units
<1> DEFINE used == inWindow[k] * Cost
<1>3. /\ used + Units(k) <= Capacity + (now[Caller] - windowStart)
      /\ used \in Nat
      /\ (inWindow[k] + 1) * Cost = used + Cost
      /\ Units(k) \in 0 .. Capacity
  <2>1. inWindow[k] \in Nat
    BY <1>0
  <2>2. used + Units(k) <= Capacity + (now[Caller] - windowStart)
    BY DEF TB!WindowBound, Units
  <2>3. QED
    BY <1>0, <2>1, <2>2, OneMore, UnitsInRange
<1>4. Units(k)' \in 0 .. Capacity
  <2>1. now'[Caller] \in Nat /\ BucketOK(now'[Caller], buckets'[k])
    BY <1>0 DEF Inv
  <2>2. Level(now'[Caller], buckets'[k]) \in 0 .. Capacity
    BY <2>1, LevelOf
  <2>3. QED
    BY <2>2 DEF Units
<1> HIDE DEF used
<1>5. CASE \E j \in Keys : TB!Ask(j)
  <2>1. inWindow' = inWindow /\ windowStart' = windowStart
    BY <1>5 DEF TB!Ask
  <2>2. Units(k)' = TB!Least(Capacity, Units(k) + (now'[Caller] - now[Caller]))
    BY <1>5 DEF TB!Ask, Units
  <2>3. Units(k)' <= Units(k) + (now'[Caller] - now[Caller])
    BY <2>2, <1>0, <1>3 DEF TB!Least
  <2>4. inWindow'[k] * Cost = used
    BY <2>1 DEF used
  <2>5. QED
    BY <1>0, <1>3, <1>4, <2>1, <2>3, <2>4
<1>6. CASE TB!Reply
  <2>1. now'[Caller] = now[Caller] /\ windowStart' = windowStart
    BY <1>6 DEF TB!Reply
  <2>2. want[Caller] \in Keys
    BY <1>0, <1>6 DEF TB!Reply
  <2>3. \/ /\ want[Caller] = k
           /\ Units(k)' = Units(k) - Cost /\ inWindow'[k] = inWindow[k] + 1
        \/ Units(k)' = Units(k) /\ inWindow'[k] = inWindow[k]
    BY <1>0, <1>6, <2>2 DEF TB!Reply, Units
  <2>4. CASE Units(k)' = Units(k) - Cost /\ inWindow'[k] = inWindow[k] + 1
    BY <1>0, <1>3, <2>1, <2>4
  <2>5. CASE Units(k)' = Units(k) /\ inWindow'[k] = inWindow[k]
    BY <1>0, <1>3, <2>1, <2>5 DEF used
  <2>6. QED
    BY <2>3, <2>4, <2>5
<1>7. CASE TB!StartWindow
  <2>1. /\ inWindow'[k] = 0 /\ Units(k)' = Units(k)
        /\ windowStart' = now[Caller] /\ now'[Caller] = now[Caller]
    BY <1>7 DEF TB!StartWindow, Units
  <2>2. inWindow'[k] * Cost = 0
    BY <1>0, <2>1
  <2>3. QED
    BY <1>0, <1>3, <2>1, <2>2
<1>8. CASE UNCHANGED TB!vars
  <2>1. /\ inWindow'[k] = inWindow[k] /\ Units(k)' = Units(k)
        /\ windowStart' = windowStart /\ now'[Caller] = now[Caller]
    BY <1>8 DEF TB!vars, Units
  <2>2. QED
    BY <1>3, <2>1 DEF used
<1>9. QED
  BY <1>5, <1>6, <1>7, <1>8 DEF TB!Next

\* The limiter has the bound of the bucket it implements: no client gets
\* more in a window than a full bucket and what the rate earns.
THEOREM LimiterBounded ==
    ASSUME ServerUse
    PROVE  Spec => []WindowBoundKept
<1> DEFINE I == Inv /\ windowStart \in Nat /\ TB!WindowBound
<1>1. Init => I
  <2> SUFFICES ASSUME Init PROVE I
    OBVIOUS
  <2>1. Inv /\ windowStart = 0 /\ now[Caller] = 0
    BY InvInit, OneCaller DEF Init
  <2>2. ASSUME NEW k \in Keys
        PROVE  inWindow[k] * Cost + Units(k) <= Capacity + (now[Caller] - windowStart)
    <3>1. Units(k) \in 0 .. Capacity /\ Capacity \in Nat
      BY <2>1, UnitsInRange, LimiterAssumption
    <3>2. inWindow[k] * Cost = 0
      BY LimiterAssumption DEF Init
    <3>3. QED
      BY <2>1, <3>1, <3>2
  <2>3. TB!WindowBound
    BY <2>2 DEF TB!WindowBound, Units
  <2>4. QED
    BY <2>1, <2>3
<1>2. I /\ [Next]_vars => I'
  BY StepRefines, BoundStep
<1>3. I => WindowBoundKept
  BY DEF WindowBoundKept
<1> HIDE DEF I
<1>4. QED
  BY <1>1, <1>2, <1>3, PTL DEF Spec

-----------------------------------------------------------------------------
(* Any number of callers, which may take the lock in another order than    *)
(* the one in which they read the clock.                                   *)

\* An idle bucket is only deleted when it is full again even if its last
\* caller, and the one who deletes it, were as late as they can be.
PatientTTL == Cost <= Capacity /\ Capacity + 2 * MaxStall <= TTL

\* A call is as old as the window at most, and as the longest stall.
Clocks ==
    /\ windowStart <= clock
    /\ \A c \in Callers :
          /\ now[c] <= clock
          /\ want[c] # NoKey =>
                windowStart <= now[c] /\ clock <= now[c] + MaxStall

Spent(k) == inWindow[k] * Cost

\* A late caller takes back what was earned after its `now' (the tokens may
\* even become negative), so lastRefill - tokens, the moment the bucket was
\* empty, stands still.  It bounds what was spent in the window.
Debt(k, b) ==
    b # NoBucket =>
        /\ b.lastRefill - b.tokens <= clock
        /\ 0 <= b.tokens + MaxStall
        /\ inWindow[k] > 0 =>
              Spent(k) + (b.tokens - b.lastRefill) <= Capacity - windowStart

\* What a deleted bucket has spent was earned before any call under way.
Forgotten(k, b) ==
    b = NoBucket /\ inWindow[k] > 0 =>
        Spent(k) + windowStart + MaxStall <= clock

\* The bound, for every time that no caller has passed yet.
Earned(k) ==
    \A t \in Nat : (\A c \in Callers : now[c] <= t) =>
        windowStart <= t /\ Spent(k) <= Capacity + (t - windowStart)

StaleInv ==
    /\ TypeOK /\ Clocks
    /\ \A k \in Keys :
          Debt(k, buckets[k]) /\ Forgotten(k, buckets[k]) /\ Earned(k)

LEMMA SpentMore ==
    ASSUME NEW n \in Nat
    PROVE  (n + 1) * Cost = n * Cost + Cost /\ n * Cost \in Nat
  BY LimiterAssumption

\* cleanupExpiredBuckets, on one bucket.
LEMMA CleanedStale ==
    ASSUME PatientTTL, StaleInv, NEW n \in Nat, n <= clock, NEW k \in Keys
    PROVE  LET b == Cleaned(n)[k]
           IN  /\ b \in Bucket \cup {NoBucket}
               /\ b # NoBucket => b.tokens <= Capacity
               /\ Debt(k, b) /\ Forgotten(k, b)
<1>1. /\ buckets[k] \in Bucket \cup {NoBucket}
      /\ buckets[k] # NoBucket => buckets[k].tokens <= Capacity
      /\ Debt(k, buckets[k]) /\ Forgotten(k, buckets[k])
      /\ clock \in Nat /\ windowStart \in Nat /\ inWindow[k] \in Nat
  BY DEF StaleInv, TypeOK
<1>2. CASE CleanupDue(n) /\ Expired(n, buckets[k])
  <2>1. Cleaned(n)[k] = NoBucket
    BY <1>2 DEF Cleaned
  <2>2. /\ buckets[k].lastRefill < n - TTL /\ buckets[k] # NoBucket
        /\ buckets[k].lastRefill \in Nat /\ buckets[k].tokens \in Int
    BY <1>1, <1>2 DEF Expired, Bucket
  <2>3. Spent(k) \in Nat
    BY <1>1, SpentMore DEF Spent
  <2>4. Forgotten(k, NoBucket)
    <3>1. SUFFICES ASSUME inWindow[k] > 0
                   PROVE  Spent(k) + windowStart + MaxStall <= clock
      BY DEF Forgotten
    <3>2. /\ Spent(k) + (buckets[k].tokens - buckets[k].lastRefill)
                <= Capacity - windowStart
          /\ 0 <= buckets[k].tokens + MaxStall
      BY <1>1, <2>2, <3>1 DEF Debt
    <3>3. QED
      BY <1>1, <2>2, <2>3, <3>2, LimiterAssumption DEF PatientTTL
  <2>5. QED
    BY <2>1, <2>4 DEF Debt
<1>3. CASE ~(CleanupDue(n) /\ Expired(n, buckets[k]))
  <2>1. Cleaned(n)[k] = buckets[k]
    BY <1>3 DEF Cleaned
  <2>2. QED
    BY <1>1, <2>1
<1>4. QED
  BY <1>2, <1>3

\* The rest of Allow, on the bucket it is about: it keeps its place in time
\* and what it pays was earned since the window began.
LEMMA DecidedStale ==
    ASSUME PatientTTL, StaleInv, NEW k \in Keys, NEW n \in Nat,
           windowStart <= n, n <= clock, clock <= n + MaxStall,
           NEW b \in Bucket \cup {NoBucket},
           b # NoBucket => b.tokens <= Capacity, Debt(k, b), Forgotten(k, b)
    PROVE  LET ok == Admits(n, b)
               r  == IF ok THEN Deduct(Refilled(n, b)) ELSE Refilled(n, b)
               w  == IF ok THEN inWindow[k] + 1 ELSE inWindow[k]
           IN  /\ r \in Bucket /\ r.tokens <= Capacity /\ w \in Nat
               /\ r.lastRefill - r.tokens <= clock
               /\ 0 <= r.tokens + MaxStall
               /\ w > 0 => w * Cost + (r.tokens - r.lastRefill)
                              <= Capacity - windowStart
               /\ ok => w * Cost <= Capacity + (n - windowStart)
<1> DEFINE ok == Admits(n, b)
           r  == IF ok THEN Deduct(Refilled(n, b)) ELSE Refilled(n, b)
           w  == IF ok THEN inWindow[k] + 1 ELSE inWindow[k]
           s  == inWindow[k] * Cost
           full == Refilled(n, b).tokens
<1>1. /\ clock \in Nat /\ windowStart \in Nat /\ inWindow[k] \in Nat
      /\ Cost \in Nat /\ Capacity \in Nat /\ Cost <= Capacity /\ MaxStall \in Nat
      /\ Cost > 0
  BY LimiterAssumption DEF StaleInv, TypeOK, PatientTTL
<1>2. /\ s \in Nat /\ (inWindow[k] + 1) * Cost = s + Cost
      /\ inWindow[k] = 0 => s = 0
  BY <1>1, SpentMore
<1>3. /\ full \in Int /\ full <= Capacity
      /\ Refilled(n, b) = [tokens |-> full, lastRefill |-> n]
      /\ b = NoBucket => full = Capacity
      /\ b # NoBucket =>
            /\ b.tokens \in Int /\ b.lastRefill \in Nat
            /\ full <= b.tokens + (n - b.lastRefill)
            /\ full = Capacity \/ full = b.tokens + (n - b.lastRefill)
  BY <1>1, NoBucketIsNone DEF Refilled, Least, Bucket
<1>4. /\ r \in Bucket /\ r.lastRefill = n /\ w \in Nat
      /\ ok => r.tokens = full - Cost /\ w * Cost = s + Cost
      /\ ~ok => r.tokens = full /\ w * Cost = s
      /\ ok <=> b = NoBucket \/ full >= Cost
  <2> HIDE DEF full
  <2>1. ok <=> b = NoBucket \/ full >= Cost
    BY DEF Admits, full
  <2>2. CASE ok
    BY <1>1, <1>2, <1>3, <2>1, <2>2 DEF Deduct, Bucket
  <2>3. CASE ~ok
    BY <1>1, <1>2, <1>3, <2>1, <2>3 DEF Bucket
  <2>4. QED
    BY <2>2, <2>3
<1>5. /\ b # NoBucket => /\ b.lastRefill - b.tokens <= clock
                         /\ inWindow[k] > 0 =>
                               s + (b.tokens - b.lastRefill)
                                  <= Capacity - windowStart
      /\ b = NoBucket /\ inWindow[k] > 0 => s + windowStart + MaxStall <= clock
  BY DEF Debt, Forgotten, Spent
<1> HIDE DEF r, full, s, ok
<1>6. /\ r.tokens \in Int /\ r.tokens <= Capacity
      /\ n - r.tokens <= clock /\ 0 <= r.tokens + MaxStall
  <2>1. CASE ok
    BY <1>1, <1>3, <1>4, <2>1
  <2>2. CASE ~ok
    BY <1>1, <1>3, <1>4, <1>5, <2>2
  <2>3. QED
    BY <2>1, <2>2
<1>7. inWindow[k] > 0 => s + (full - n) <= Capacity - windowStart
  <2>1. CASE b = NoBucket
    BY <1>1, <1>2, <1>3, <1>5, <2>1
  <2>2. CASE b # NoBucket
    BY <1>1, <1>2, <1>3, <1>5, <2>2
  <2>3. QED
    BY <2>1, <2>2
<1>8. s + (full - n) <= Capacity - windowStart
  <2>1. CASE inWindow[k] = 0
    BY <1>1, <1>2, <1>3, <2>1
  <2>2. QED
    BY <1>1, <1>7, <2>1
<1>9. w > 0 => w * Cost + (r.tokens - n) <= Capacity - windowStart
  <2>1. CASE ok
    BY <1>1, <1>2, <1>3, <1>4, <1>8, <2>1
  <2>2. CASE ~ok
    BY <1>1, <1>2, <1>3, <1>4, <1>8, <2>2
  <2>3. QED
    BY <2>1, <2>2
<1>10. ok => w * Cost <= Capacity + (n - windowStart)
  BY <1>1, <1>2, <1>3, <1>4, <1>8
<1>11. QED
  BY <1>4, <1>6, <1>9, <1>10 DEF r, ok

LEMMA StaleDecide ==
    ASSUME PatientTTL, StaleInv, NEW c \in Callers, Decide(c)
    PROVE  StaleInv'
<1> DEFINE k  == want[c]
           n  == now[c]
           b  == Cleaned(n)[k]
           ok == Admits(n, b)
           r  == IF ok THEN Deduct(Refilled(n, b)) ELSE Refilled(n, b)
           w  == IF ok THEN inWindow[k] + 1 ELSE inWindow[k]
<1>1. /\ TypeOK /\ Clocks /\ k \in Keys /\ n \in Nat
      /\ windowStart <= n /\ n <= clock /\ clock <= n + MaxStall
  BY DEF StaleInv, TypeOK, Clocks, Decide
<1>2. /\ buckets' = [Cleaned(n) EXCEPT ![k] = r]
      /\ inWindow' = [inWindow EXCEPT ![k] = w]
      /\ lastCleanup' \in {n, lastCleanup} /\ answer' \in {"yes", "no"}
      /\ want' = [want EXCEPT ![c] = NoKey]
      /\ UNCHANGED <<clock, now, windowStart>>
  BY DEF Decide
<1>3. \A j \in Keys : /\ Cleaned(n)[j] \in Bucket \cup {NoBucket}
                      /\ Cleaned(n)[j] # NoBucket => Cleaned(n)[j].tokens <= Capacity
                      /\ Debt(j, Cleaned(n)[j]) /\ Forgotten(j, Cleaned(n)[j])
  BY <1>1, CleanedStale
<1>4. /\ r \in Bucket /\ r.tokens <= Capacity /\ w \in Nat
      /\ r.lastRefill - r.tokens <= clock
      /\ 0 <= r.tokens + MaxStall
      /\ w > 0 => w * Cost + (r.tokens - r.lastRefill) <= Capacity - windowStart
      /\ ok => w * Cost <= Capacity + (n - windowStart)
  BY <1>1, <1>3, DecidedStale
<1>5. ~ok => w = inWindow[k]
  OBVIOUS
<1> HIDE DEF k, n, r, w, ok
<1>6. /\ Cleaned(n) \in [Keys -> Bucket \cup {NoBucket}]
      /\ inWindow \in [Keys -> Nat]
  BY <1>1, <1>3 DEF Cleaned, TypeOK
<1>7. /\ buckets' \in [Keys -> Bucket \cup {NoBucket}]
      /\ inWindow' \in [Keys -> Nat]
      /\ buckets'[k] = r /\ inWindow'[k] = w
      /\ \A j \in Keys : j # k => /\ buckets'[j] = Cleaned(n)[j]
                                  /\ inWindow'[j] = inWindow[j]
  BY <1>1, <1>2, <1>4, <1>6
<1>8. TypeOK'
  <2>1. \A j \in Keys : buckets'[j] # NoBucket => buckets'[j].tokens <= Capacity
    BY <1>3, <1>4, <1>7
  <2>2. want' \in [Callers -> Keys \cup {NoKey}] /\ lastCleanup' \in Nat
    BY <1>1, <1>2 DEF TypeOK
  <2>3. QED
    BY <1>1, <1>2, <1>7, <2>1, <2>2 DEF TypeOK
<1>9. Clocks'
  BY <1>1, <1>2 DEF Clocks, TypeOK
<1>10. ASSUME NEW j \in Keys PROVE (Debt(j, buckets[j]) /\ Forgotten(j, buckets[j]))'
  <2>1. CASE j = k
    <3>1. r # NoBucket
      BY <1>4, NoBucketIsNone
    <3>2. QED
      BY <1>2, <1>4, <1>7, <2>1, <3>1 DEF Debt, Forgotten, Spent
  <2>2. CASE j # k
    <3>1. buckets'[j] = Cleaned(n)[j] /\ inWindow'[j] = inWindow[j]
      BY <1>7, <2>2
    <3>2. QED
      BY <1>2, <1>3, <3>1 DEF Debt, Forgotten, Spent
  <2>3. QED
    BY <2>1, <2>2
<1>11. ASSUME NEW j \in Keys PROVE Earned(j)'
  <2>1. SUFFICES ASSUME NEW t \in Nat, \A d \in Callers : now[d] <= t
                 PROVE  /\ windowStart <= t
                        /\ inWindow'[j] * Cost <= Capacity + (t - windowStart)
    BY <1>2 DEF Earned, Spent
  <2>2. /\ windowStart <= t
        /\ inWindow[j] * Cost <= Capacity + (t - windowStart)
    BY <2>1 DEF StaleInv, Earned, Spent
  <2>3. CASE inWindow'[j] = inWindow[j]
    BY <2>2, <2>3
  <2>4. CASE j = k /\ ok
    <3>1. n <= t
      BY <2>1 DEF n
    <3>2. w * Cost <= Capacity + (n - windowStart) /\ w * Cost \in Nat
      BY <1>4, <2>4, SpentMore
    <3>3. windowStart \in Nat /\ Capacity \in Nat
      BY <1>1, LimiterAssumption DEF TypeOK
    <3>4. w * Cost <= Capacity + (t - windowStart)
      BY <1>1, <3>1, <3>2, <3>3
    <3>5. QED
      BY <1>7, <2>2, <2>4, <3>4
  <2>5. QED
    BY <1>5, <1>7, <2>3, <2>4
<1>12. QED
  BY <1>8, <1>9, <1>10, <1>11 DEF StaleInv

LEMMA StaleStep ==
    ASSUME PatientTTL, StaleInv, [Next]_vars
    PROVE  StaleInv'
<1>0. /\ TypeOK /\ Clocks /\ clock \in Nat /\ windowStart \in Nat
      /\ now \in [Callers -> Nat] /\ want \in [Callers -> Keys \cup {NoKey}]
      /\ NoKey \notin Keys /\ MaxStall \in Nat /\ Capacity \in Nat
  BY LimiterAssumption DEF StaleInv, TypeOK
<1>1. CASE Tick
  <2>1. /\ clock' = clock + 1
        /\ \A c \in Callers : want[c] # NoKey => clock - now[c] < MaxStall
        /\ UNCHANGED <<now, want, buckets, lastCleanup, answer, windowStart,
                       inWindow>>
    BY <1>1 DEF Tick
  <2>2. TypeOK'
    BY <1>0, <2>1 DEF TypeOK
  <2>3. Clocks'
    BY <1>0, <2>1 DEF Clocks
  <2>4. ASSUME NEW k \in Keys
        PROVE  (Debt(k, buckets[k]) /\ Forgotten(k, buckets[k]) /\ Earned(k))'
    <3>1. /\ Debt(k, buckets[k]) /\ Forgotten(k, buckets[k]) /\ Earned(k)
          /\ buckets[k] \in Bucket \cup {NoBucket} /\ inWindow[k] \in Nat
      BY <1>0 DEF StaleInv, TypeOK
    <3>2. Earned(k)'
      BY <2>1, <3>1 DEF Earned, Spent
    <3>3. Debt(k, buckets[k])'
      BY <1>0, <2>1, <3>1 DEF Debt, Spent, Bucket
    <3>4. Spent(k) \in Nat /\ Spent(k)' = Spent(k)
      BY <2>1, <3>1, SpentMore DEF Spent
    <3>5. Forgotten(k, buckets[k])'
      BY <1>0, <2>1, <3>1, <3>4 DEF Forgotten
    <3>6. QED
      BY <3>2, <3>3, <3>5
  <2>5. QED
    BY <2>2, <2>3, <2>4 DEF StaleInv
<1>2. CASE \E c \in Callers, k \in Keys : ReadClock(c, k)
  <2>1. PICK c \in Callers, k \in Keys : ReadClock(c, k)
    BY <1>2
  <2>2. /\ now' = [now EXCEPT ![c] = clock] /\ want' = [want EXCEPT ![c] = k]
        /\ answer' = "none"
        /\ UNCHANGED <<clock, buckets, lastCleanup, windowStart, inWindow>>
    BY <2>1 DEF ReadClock
  <2>3. TypeOK'
    BY <1>0, <2>2 DEF TypeOK
  <2>4. Clocks'
    BY <1>0, <2>2 DEF Clocks
  <2>5. \A d \in Callers : now[d] <= now'[d] /\ now[d] \in Nat /\ now'[d] \in Nat
    BY <1>0, <2>2 DEF Clocks
  <2>6. ASSUME NEW j \in Keys
        PROVE  (Debt(j, buckets[j]) /\ Forgotten(j, buckets[j]))'
    BY <2>2 DEF StaleInv, Debt, Forgotten, Spent
  <2>7. ASSUME NEW j \in Keys PROVE Earned(j)'
    <3>1. SUFFICES ASSUME NEW t \in Nat, \A d \in Callers : now'[d] <= t
                   PROVE  /\ windowStart <= t
                          /\ Spent(j) <= Capacity + (t - windowStart)
      BY <2>2 DEF Earned, Spent
    <3>2. \A d \in Callers : now[d] <= t
      BY <2>5, <3>1
    <3>3. QED
      BY <3>2 DEF StaleInv, Earned
  <2>8. QED
    BY <2>3, <2>4, <2>6, <2>7 DEF StaleInv
<1>3. CASE \E c \in Callers : Decide(c)
  BY <1>3, StaleDecide
<1>4. CASE StartWindow
  <2>1. PICK c \in Callers : IsLatest(now[c]) /\ windowStart' = now[c]
    BY <1>4 DEF StartWindow
  <2>2. /\ \A d \in Callers : want[d] = NoKey
        /\ inWindow' = [j \in Keys |-> 0]
        /\ UNCHANGED <<clock, now, want, buckets, lastCleanup, answer>>
    BY <1>4 DEF StartWindow
  <2>3. TypeOK'
    BY <1>0, <2>1, <2>2 DEF TypeOK
  <2>4. Clocks'
    BY <1>0, <2>1, <2>2 DEF Clocks
  <2>5. ASSUME NEW k \in Keys
        PROVE  (Debt(k, buckets[k]) /\ Forgotten(k, buckets[k]) /\ Earned(k))'
    <3>1. inWindow'[k] = 0 /\ Spent(k)' = 0
      BY <2>2, LimiterAssumption DEF Spent
    <3>2. Debt(k, buckets[k])' /\ Forgotten(k, buckets[k])'
      BY <2>2, <3>1 DEF StaleInv, Debt, Forgotten
    <3>3. Earned(k)'
      BY <1>0, <2>1, <2>2, <3>1 DEF Earned
    <3>4. QED
      BY <3>2, <3>3
  <2>6. QED
    BY <2>3, <2>4, <2>5 DEF StaleInv
<1>5. CASE UNCHANGED vars
  BY <1>5 DEF vars, StaleInv, TypeOK, Clocks, Debt, Forgotten, Earned, Spent
<1>6. QED
  BY <1>1, <1>2, <1>3, <1>4, <1>5 DEF Next

LEMMA StaleInit ==
    ASSUME Init
    PROVE  StaleInv
<1>1. /\ clock = 0 /\ windowStart = 0 /\ MaxStall \in Nat /\ Capacity \in Nat
      /\ \A c \in Callers : now[c] = 0 /\ want[c] = NoKey
      /\ \A k \in Keys : buckets[k] = NoBucket /\ inWindow[k] = 0
  BY LimiterAssumption DEF Init
<1>2. TypeOK
  BY DEF Init, TypeOK
<1>3. Clocks
  BY <1>1 DEF Clocks
<1>4. ASSUME NEW k \in Keys
      PROVE  Debt(k, buckets[k]) /\ Forgotten(k, buckets[k]) /\ Earned(k)
  <2>1. Spent(k) = 0
    <3>1. 0 * Cost = 0
      BY LimiterAssumption
    <3>2. QED
      BY <1>1, <3>1 DEF Spent
  <2>2. Debt(k, buckets[k]) /\ Forgotten(k, buckets[k])
    BY <1>1 DEF Debt, Forgotten
  <2>3. Earned(k)
    BY <1>1, <2>1 DEF Earned
  <2>4. QED
    BY <2>2, <2>3
<1>5. QED
  BY <1>2, <1>3, <1>4 DEF StaleInv

\* Allow called by any number of goroutines, each of which may wait for the
\* lock for as long as MaxStall after it read the clock: no client gets more
\* than a token bucket gives, although lastRefill may run backwards.
THEOREM StaleBounded ==
    ASSUME PatientTTL
    PROVE  Spec => []StaleWindowBound
<1>1. Init => StaleInv
  BY StaleInit
<1>2. StaleInv /\ [Next]_vars => StaleInv'
  BY StaleStep
<1>3. StaleInv => StaleWindowBound
  <2> SUFFICES ASSUME StaleInv PROVE StaleWindowBound
    OBVIOUS
  <2>1. TypeOK
    BY DEF StaleInv
  <2>2. ASSUME NEW k \in Keys, NEW t \in {now[c] : c \in Callers}, IsLatest(t)
        PROVE  inWindow[k] * Cost <= Capacity + (t - windowStart)
    <3>1. t \in Nat
      BY <2>1 DEF TypeOK
    <3>2. \A c \in Callers : now[c] <= t
      BY <2>1, <2>2, <3>1 DEF IsLatest, TypeOK
    <3>3. QED
      BY <3>1, <3>2 DEF StaleInv, Earned, Spent
  <2>3. QED
    BY <2>1, <2>2 DEF StaleWindowBound
<1>4. QED
  BY <1>1, <1>2, <1>3, PTL DEF Spec

=============================================================================
