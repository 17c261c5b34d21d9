---------------------------- MODULE ServerProofs ----------------------------
(***************************************************************************)
(* Safety of the accept loop, the jobs channel, the pool and the active    *)
(* gauge, for every set of connections and workers and every queue size.   *)
(***************************************************************************)
EXTENDS Server, FiniteSetTheorems, TLAPS

\* Whoever works on a connection has one.
HolderOK ==
    /\ main \in Holding => cur \in Conns
    /\ \A w \in Workers : wpc[w] \in Busy => wconn[w] \in Conns

\* The order of the shutdown: the stopper starts when serve has returned,
\* closes the channel before it waits, and is done when all workers are; a
\* worker leaves when the channel is closed and empty.
Phases ==
    /\ main \in {"run", "exited"} => \A w \in Workers : wpc[w] = "off"
    /\ stopper # "none" => main \in {"select", "returned", "timedOut", "exited"}
    /\ jobsClosed => stopper \in {"wait", "done"}
    /\ main = "returned" => stopper = "done"
    /\ \A w \in Workers : wpc[w] = "exited" => jobsClosed /\ jobs = <<>>
    /\ stopper = "done" /\ main # "exited" =>
          \A w \in Workers : wpc[w] = "exited"

\* The inductive invariant.
Inv == TypeOK /\ GaugeIsExact /\ HolderOK /\ Phases /\ NoLeak /\ OneOwner

-----------------------------------------------------------------------------
(* The channel as a sequence.                                              *)

LEMMA Sent ==
    ASSUME NEW q \in Seq(Conns), NEW c \in Conns
    PROVE  /\ Append(q, c) \in Seq(Conns)
           /\ Len(Append(q, c)) = Len(q) + 1
           /\ \A i \in 1 .. Len(q) : Append(q, c)[i] = q[i]
           /\ Append(q, c)[Len(q) + 1] = c
  OBVIOUS

LEMMA Received ==
    ASSUME NEW q \in Seq(Conns), q # <<>>
    PROVE  /\ Tail(q) \in Seq(Conns)
           /\ Len(q) \in Nat /\ Len(q) >= 1
           /\ Len(Tail(q)) = Len(q) - 1
           /\ \A i \in 1 .. Len(Tail(q)) : Tail(q)[i] = q[i + 1]
           /\ Head(q) = q[1] /\ Head(q) \in Conns
  OBVIOUS

(* The set of workers the gauge counts.                                    *)

LEMMA ServingFinite == IsFiniteSet(Serving) /\ Cardinality(Serving) \in Nat
  BY ServerAssumption, FS_Subset, FS_CardinalityType DEF Serving

LEMMA GaugeUp ==
    ASSUME NEW w \in Workers, wpc \in [Workers -> WorkerStates],
           wpc[w] # "serving", wpc' = [wpc EXCEPT ![w] = "serving"]
    PROVE  Cardinality(Serving') = Cardinality(Serving) + 1
<1>1. Serving' = Serving \cup {w} /\ w \notin Serving
  BY DEF Serving
<1>2. QED
  BY <1>1, ServingFinite, FS_AddElement

LEMMA GaugeDown ==
    ASSUME NEW w \in Workers, wpc \in [Workers -> WorkerStates],
           wpc[w] = "serving", wpc' = [wpc EXCEPT ![w] = "closing"]
    PROVE  /\ Cardinality(Serving') = Cardinality(Serving) - 1
           /\ Cardinality(Serving) >= 1
<1>1. Serving' = Serving \ {w} /\ w \in Serving
  BY DEF Serving
<1>2. Cardinality(Serving') = Cardinality(Serving) - 1
  BY <1>1, ServingFinite, FS_RemoveElement
<1>3. Serving # {}
  BY <1>1
<1>4. Cardinality(Serving) # 0
  BY <1>3, ServingFinite, FS_EmptySet
<1>5. QED
  BY <1>2, <1>4, ServingFinite

\* Any other step of a worker, or of another goroutine.
LEMMA GaugeSame ==
    ASSUME \A w \in Workers : wpc'[w] = "serving" <=> wpc[w] = "serving"
    PROVE  Serving' = Serving
  BY DEF Serving

-----------------------------------------------------------------------------
(* Initially.                                                              *)

LEMMA InvInit ==
    ASSUME Init
    PROVE  Inv
<1>1. TypeOK
  <2>1. jobs \in Seq(Conns) /\ Len(jobs) <= JobQueueSize
    BY ServerAssumption DEF Init
  <2>2. /\ served \in [Workers -> 0 .. MaxKeepAlive]
        /\ metrics \in [Counters -> Nat]
    BY ServerAssumption DEF Init
  <2>3. /\ conn \in [Conns -> ConnStates] /\ wpc \in [Workers -> WorkerStates]
        /\ wconn \in [Workers -> Conns \cup {NoConn}]
    BY DEF Init, ConnStates, WorkerStates
  <2>4. QED
    BY <2>1, <2>2, <2>3 DEF Init, TypeOK, MainStates
<1>2. GaugeIsExact
  <2>1. Serving = {}
    BY DEF Init, Serving
  <2>2. QED
    BY <2>1, FS_EmptySet DEF GaugeIsExact, Init, Counters
<1>3. HolderOK /\ Phases
  BY DEF Init, HolderOK, Phases, Holding, Busy
<1>4. NoLeak /\ OneOwner
  BY DEF Init, NoLeak, OneOwner, MainHolds, WorkerHolds, Queued, Holding, Busy
<1>5. QED
  BY <1>1, <1>2, <1>3, <1>4 DEF Inv

-----------------------------------------------------------------------------
(* Every step preserves each part of the invariant.                        *)

LEMMA TypeStep ==
    ASSUME Inv, [Next]_vars
    PROVE  TypeOK'
<1> USE ServerAssumption DEF Inv, TypeOK, MainStates, ConnStates,
        WorkerStates, Counters
<1>1. CASE \E c \in Conns : Connect(c)
  BY <1>1 DEF Connect, poolVars
<1>2. CASE Signal
  BY <1>2 DEF Signal, poolVars
<1>3. CASE StartFails
  BY <1>3 DEF StartFails, poolVars
<1>4. CASE Start
  BY <1>4 DEF Start
<1>5. CASE \E c \in Conns : Accept(c)
  BY <1>5 DEF Accept, poolVars, Add
<1>6. CASE ServeReturns
  BY <1>6 DEF ServeReturns, poolVars
<1>7. CASE Admit
  BY <1>7 DEF Admit, poolVars
<1>8. CASE RateLimit
  BY <1>8 DEF RateLimit, poolVars, Add
<1>9. CASE EnqueueSend
  <2>1. cur \in Conns
    BY <1>9 DEF EnqueueSend, HolderOK, Holding
  <2>2. jobs' \in Seq(Conns) /\ Len(jobs') <= JobQueueSize
    BY <1>9, <2>1, Sent DEF EnqueueSend
  <2>3. QED
    BY <1>9, <2>2 DEF EnqueueSend
<1>10. CASE EnqueueTimeout
  BY <1>10 DEF EnqueueTimeout, poolVars, Add
<1>11. CASE EnqueueCancelled
  BY <1>11 DEF EnqueueCancelled, poolVars
<1>12. CASE Refuse
  <2>1. metrics' \in [Counters -> Nat]
    <3>1. PICK m \in Counters, n \in {0, 1} :
             metrics' = [metrics EXCEPT ![m] = metrics[m] + n]
      BY <1>12 DEF Refuse, Add
    <3>2. metrics[m] + n \in Nat
      OBVIOUS
    <3>3. QED
      BY <3>1, <3>2
  <2>2. QED
    BY <1>12, <2>1 DEF Refuse, poolVars
<1>13. CASE SpawnStopper
  BY <1>13 DEF SpawnStopper, poolVars
<1>14. CASE ReturnNil
  BY <1>14 DEF ReturnNil, poolVars
<1>15. CASE ReturnTimeout
  BY <1>15 DEF ReturnTimeout, poolVars
<1>16. CASE Exit
  BY <1>16 DEF Exit
<1>17. CASE CloseListener
  BY <1>17 DEF CloseListener, poolVars
<1>18. CASE StopClose
  BY <1>18 DEF StopClose
<1>19. CASE StopWait
  BY <1>19 DEF StopWait, poolVars
<1>20. CASE \E w \in Workers : Receive(w)
  BY <1>20 DEF Receive
<1>21. CASE \E w \in Workers : WorkerExit(w)
  BY <1>21 DEF WorkerExit
<1>22. CASE \E w \in Workers : BeginConn(w)
  BY <1>22 DEF BeginConn, Add
<1>23. CASE \E w \in Workers : KeepServing(w)
  <2>1. PICK w \in Workers : KeepServing(w)
    BY <1>23
  <2>2. served[w] + 1 \in 0 .. MaxKeepAlive
    BY <2>1 DEF KeepServing
  <2>3. served' \in [Workers -> 0 .. MaxKeepAlive]
    BY <2>1, <2>2 DEF KeepServing
  <2>4. QED
    BY <2>1, <2>3 DEF KeepServing
<1>24. CASE \E w \in Workers : EndConn(w)
  <2>1. PICK w \in Workers : EndConn(w)
    BY <1>24
  <2>2. metrics["active"] >= 1
    <3>1. main # "exited"
      BY <2>1 DEF EndConn, Phases
    <3>2. QED
      BY <2>1, <3>1, GaugeDown DEF EndConn, GaugeIsExact
  <2>3. metrics' \in [Counters -> Nat]
    BY <2>1, <2>2 DEF EndConn
  <2>4. QED
    BY <2>1, <2>3 DEF EndConn
<1>25. CASE \E w \in Workers : CloseConn(w)
  <2>1. PICK w \in Workers : CloseConn(w)
    BY <1>25
  <2>2. conn' \in [Conns -> ConnStates] /\ wpc' \in [Workers -> WorkerStates]
    BY <2>1 DEF CloseConn
  <2>3. QED
    BY <2>1, <2>2 DEF CloseConn
<1>26. CASE Terminated \/ UNCHANGED vars
  BY <1>26 DEF Terminated, vars
<1>27. QED
  BY <1>1, <1>2, <1>3, <1>4, <1>5, <1>6, <1>7, <1>8, <1>9, <1>10, <1>11,
     <1>12, <1>13, <1>14, <1>15, <1>16, <1>17, <1>18, <1>19, <1>20, <1>21,
     <1>22, <1>23, <1>24, <1>25, <1>26
     DEF Next, MainStep, ServeLoop, WorkerStep

LEMMA GaugeStep ==
    ASSUME Inv, [Next]_vars
    PROVE  GaugeIsExact'
<1> USE ServerAssumption DEF Inv, TypeOK, GaugeIsExact
<1>0. ASSUME UNCHANGED wpc, metrics'["active"] = metrics["active"],
             main = "exited" => main' = "exited"
      PROVE  GaugeIsExact'
  <2>1. Serving' = Serving
    BY <1>0 DEF Serving
  <2>2. QED
    BY <1>0, <2>1
<1>1. CASE \E c \in Conns : Connect(c)
  BY <1>1, <1>0 DEF Connect, poolVars, Counters
<1>2. CASE Signal
  BY <1>2, <1>0 DEF Signal, poolVars, Counters
<1>3. CASE StartFails
  BY <1>3, <1>0 DEF StartFails, poolVars, Counters
<1>4. CASE Start
  <2>1. Serving' = Serving
    BY <1>4, GaugeSame DEF Start, Phases
  <2>2. QED
    BY <1>4, <2>1 DEF Start
<1>5. CASE \E c \in Conns : Accept(c)
  BY <1>5, <1>0 DEF Accept, poolVars, Add, Counters
<1>6. CASE ServeReturns
  BY <1>6, <1>0 DEF ServeReturns, poolVars, Counters
<1>7. CASE Admit
  BY <1>7, <1>0 DEF Admit, poolVars, Counters
<1>8. CASE RateLimit
  BY <1>8, <1>0 DEF RateLimit, poolVars, Add, Counters
<1>9. CASE EnqueueSend
  BY <1>9, <1>0 DEF EnqueueSend, Counters
<1>10. CASE EnqueueTimeout
  BY <1>10, <1>0 DEF EnqueueTimeout, poolVars, Add, Counters
<1>11. CASE EnqueueCancelled
  BY <1>11, <1>0 DEF EnqueueCancelled, poolVars, Counters
<1>12. CASE Refuse
  BY <1>12, <1>0 DEF Refuse, poolVars, Add, Counters
<1>13. CASE SpawnStopper
  BY <1>13, <1>0 DEF SpawnStopper, poolVars, Counters
<1>14. CASE ReturnNil
  BY <1>14, <1>0 DEF ReturnNil, poolVars, Counters
<1>15. CASE ReturnTimeout
  BY <1>15, <1>0 DEF ReturnTimeout, poolVars, Counters
<1>16. CASE Exit
  BY <1>16 DEF Exit
<1>17. CASE CloseListener
  BY <1>17, <1>0 DEF CloseListener, poolVars, Counters
<1>18. CASE StopClose
  BY <1>18, <1>0 DEF StopClose, Counters
<1>19. CASE StopWait
  BY <1>19, <1>0 DEF StopWait, poolVars, Counters
<1>20. CASE \E w \in Workers : Receive(w)
  <2>1. Serving' = Serving
    BY <1>20, GaugeSame DEF Receive
  <2>2. QED
    BY <1>20, <2>1 DEF Receive
<1>21. CASE \E w \in Workers : WorkerExit(w)
  <2>1. Serving' = Serving
    BY <1>21, GaugeSame DEF WorkerExit
  <2>2. QED
    BY <1>21, <2>1 DEF WorkerExit
<1>22. CASE \E w \in Workers : BeginConn(w)
  <2>1. PICK w \in Workers : BeginConn(w)
    BY <1>22
  <2>2. metrics'["active"] = metrics["active"] + 1
    BY <2>1 DEF BeginConn, Add, Counters
  <2>3. Cardinality(Serving') = Cardinality(Serving) + 1
    BY <2>1, GaugeUp DEF BeginConn
  <2>4. QED
    BY <2>1, <2>2, <2>3 DEF BeginConn
<1>23. CASE \E w \in Workers : KeepServing(w)
  BY <1>23, <1>0 DEF KeepServing, Counters
<1>24. CASE \E w \in Workers : EndConn(w)
  <2>1. PICK w \in Workers : EndConn(w)
    BY <1>24
  <2>2. metrics'["active"] = metrics["active"] - 1
    BY <2>1 DEF EndConn, Counters
  <2>3. Cardinality(Serving') = Cardinality(Serving) - 1
    BY <2>1, GaugeDown DEF EndConn
  <2>4. QED
    BY <2>1, <2>2, <2>3 DEF EndConn
<1>25. CASE \E w \in Workers : CloseConn(w)
  <2>1. Serving' = Serving
    BY <1>25, GaugeSame DEF CloseConn
  <2>2. QED
    BY <1>25, <2>1 DEF CloseConn
<1>26. CASE Terminated \/ UNCHANGED vars
  BY <1>26, <1>0 DEF Terminated, vars
<1>27. QED
  BY <1>1, <1>2, <1>3, <1>4, <1>5, <1>6, <1>7, <1>8, <1>9, <1>10, <1>11,
     <1>12, <1>13, <1>14, <1>15, <1>16, <1>17, <1>18, <1>19, <1>20, <1>21,
     <1>22, <1>23, <1>24, <1>25, <1>26
     DEF Next, MainStep, ServeLoop, WorkerStep

LEMMA HolderStep ==
    ASSUME Inv, [Next]_vars
    PROVE  HolderOK'
<1> USE ServerAssumption DEF Inv, TypeOK, HolderOK, Holding, Busy
<1>1. CASE \E c \in Conns : Connect(c)
  BY <1>1 DEF Connect, poolVars
<1>2. CASE Signal
  BY <1>2 DEF Signal, poolVars
<1>3. CASE StartFails
  BY <1>3 DEF StartFails, poolVars
<1>4. CASE Start
  BY <1>4 DEF Start
<1>5. CASE \E c \in Conns : Accept(c)
  BY <1>5 DEF Accept, poolVars
<1>6. CASE ServeReturns
  BY <1>6 DEF ServeReturns, poolVars
<1>7. CASE Admit
  BY <1>7 DEF Admit, poolVars
<1>8. CASE RateLimit
  BY <1>8 DEF RateLimit, poolVars
<1>9. CASE EnqueueSend
  BY <1>9 DEF EnqueueSend
<1>10. CASE EnqueueTimeout
  BY <1>10 DEF EnqueueTimeout, poolVars
<1>11. CASE EnqueueCancelled
  BY <1>11 DEF EnqueueCancelled, poolVars
<1>12. CASE Refuse
  BY <1>12 DEF Refuse, poolVars
<1>13. CASE SpawnStopper
  BY <1>13 DEF SpawnStopper, poolVars
<1>14. CASE ReturnNil
  BY <1>14 DEF ReturnNil, poolVars
<1>15. CASE ReturnTimeout
  BY <1>15 DEF ReturnTimeout, poolVars
<1>16. CASE Exit
  BY <1>16 DEF Exit
<1>17. CASE CloseListener
  BY <1>17 DEF CloseListener, poolVars
<1>18. CASE StopClose
  BY <1>18 DEF StopClose
<1>19. CASE StopWait
  BY <1>19 DEF StopWait, poolVars
<1>20. CASE \E w \in Workers : Receive(w)
  BY <1>20 DEF Receive
<1>21. CASE \E w \in Workers : WorkerExit(w)
  BY <1>21 DEF WorkerExit
<1>22. CASE \E w \in Workers : BeginConn(w)
  BY <1>22 DEF BeginConn
<1>23. CASE \E w \in Workers : KeepServing(w)
  BY <1>23 DEF KeepServing
<1>24. CASE \E w \in Workers : EndConn(w)
  BY <1>24 DEF EndConn
<1>25. CASE \E w \in Workers : CloseConn(w)
  BY <1>25 DEF CloseConn
<1>26. CASE Terminated \/ UNCHANGED vars
  BY <1>26 DEF Terminated, vars
<1>27. QED
  BY <1>1, <1>2, <1>3, <1>4, <1>5, <1>6, <1>7, <1>8, <1>9, <1>10, <1>11,
     <1>12, <1>13, <1>14, <1>15, <1>16, <1>17, <1>18, <1>19, <1>20, <1>21,
     <1>22, <1>23, <1>24, <1>25, <1>26
     DEF Next, MainStep, ServeLoop, WorkerStep

LEMMA PhasesStep ==
    ASSUME Inv, [Next]_vars
    PROVE  Phases'
<1> USE ServerAssumption DEF Inv, TypeOK, HolderOK, Holding, Busy, Phases
<1>1. CASE \E c \in Conns : Connect(c)
  BY <1>1 DEF Connect, poolVars
<1>2. CASE Signal
  BY <1>2 DEF Signal, poolVars
<1>3. CASE StartFails
  BY <1>3 DEF StartFails, poolVars
<1>4. CASE Start
  BY <1>4 DEF Start
<1>5. CASE \E c \in Conns : Accept(c)
  BY <1>5 DEF Accept, poolVars
<1>6. CASE ServeReturns
  BY <1>6 DEF ServeReturns, poolVars
<1>7. CASE Admit
  BY <1>7 DEF Admit, poolVars
<1>8. CASE RateLimit
  BY <1>8 DEF RateLimit, poolVars
<1>9. CASE EnqueueSend
  BY <1>9 DEF EnqueueSend
<1>10. CASE EnqueueTimeout
  BY <1>10 DEF EnqueueTimeout, poolVars
<1>11. CASE EnqueueCancelled
  BY <1>11 DEF EnqueueCancelled, poolVars
<1>12. CASE Refuse
  BY <1>12 DEF Refuse, poolVars
<1>13. CASE SpawnStopper
  BY <1>13 DEF SpawnStopper, poolVars
<1>14. CASE ReturnNil
  BY <1>14 DEF ReturnNil, poolVars
<1>15. CASE ReturnTimeout
  BY <1>15 DEF ReturnTimeout, poolVars
<1>16. CASE Exit
  BY <1>16 DEF Exit
<1>17. CASE CloseListener
  BY <1>17 DEF CloseListener, poolVars
<1>18. CASE StopClose
  BY <1>18 DEF StopClose
<1>19. CASE StopWait
  BY <1>19 DEF StopWait, poolVars
<1>20. CASE \E w \in Workers : Receive(w)
  BY <1>20 DEF Receive
<1>21. CASE \E w \in Workers : WorkerExit(w)
  BY <1>21 DEF WorkerExit
<1>22. CASE \E w \in Workers : BeginConn(w)
  BY <1>22 DEF BeginConn
<1>23. CASE \E w \in Workers : KeepServing(w)
  BY <1>23 DEF KeepServing
<1>24. CASE \E w \in Workers : EndConn(w)
  BY <1>24 DEF EndConn
<1>25. CASE \E w \in Workers : CloseConn(w)
  BY <1>25 DEF CloseConn
<1>26. CASE Terminated \/ UNCHANGED vars
  BY <1>26 DEF Terminated, vars
<1>27. QED
  BY <1>1, <1>2, <1>3, <1>4, <1>5, <1>6, <1>7, <1>8, <1>9, <1>10, <1>11,
     <1>12, <1>13, <1>14, <1>15, <1>16, <1>17, <1>18, <1>19, <1>20, <1>21,
     <1>22, <1>23, <1>24, <1>25, <1>26
     DEF Next, MainStep, ServeLoop, WorkerStep

LEMMA NoLeakStep ==
    ASSUME Inv, [Next]_vars
    PROVE  NoLeak'
<1> USE ServerAssumption DEF Inv, TypeOK, HolderOK, Holding, Busy, NoLeak,
        MainHolds, WorkerHolds, Queued
<1>1. CASE \E c \in Conns : Connect(c)
  BY <1>1 DEF Connect, poolVars
<1>2. CASE Signal
  BY <1>2 DEF Signal, poolVars
<1>3. CASE StartFails
  BY <1>3 DEF StartFails, poolVars
<1>4. CASE Start
  BY <1>4 DEF Start, Phases
<1>5. CASE \E c \in Conns : Accept(c)
  BY <1>5 DEF Accept, poolVars
<1>6. CASE ServeReturns
  BY <1>6 DEF ServeReturns, poolVars
<1>7. CASE Admit
  BY <1>7 DEF Admit, poolVars
<1>8. CASE RateLimit
  BY <1>8 DEF RateLimit, poolVars
<1>9. CASE EnqueueSend
  <2>1. cur \in Conns /\ jobs' = Append(jobs, cur)
    BY <1>9 DEF EnqueueSend
  <2>2. /\ Len(jobs) \in Nat /\ Len(jobs') = Len(jobs) + 1
        /\ \A i \in 1 .. Len(jobs) : jobs'[i] = jobs[i]
        /\ jobs'[Len(jobs) + 1] = cur
    BY <2>1, Sent
  <2>3. \A c \in Conns : Queued(c) => Queued(c)'
    BY <2>2
  <2>4. \A c \in Conns : MainHolds(c) => Queued(c)'
    BY <2>2
  <2>5. UNCHANGED <<conn, wpc, wconn>>
    BY <1>9 DEF EnqueueSend
  <2>6. QED
    BY <2>3, <2>4, <2>5
<1>10. CASE EnqueueTimeout
  BY <1>10 DEF EnqueueTimeout, poolVars
<1>11. CASE EnqueueCancelled
  BY <1>11 DEF EnqueueCancelled, poolVars
<1>12. CASE Refuse
  BY <1>12 DEF Refuse, poolVars
<1>13. CASE SpawnStopper
  BY <1>13 DEF SpawnStopper, poolVars
<1>14. CASE ReturnNil
  BY <1>14 DEF ReturnNil, poolVars
<1>15. CASE ReturnTimeout
  BY <1>15 DEF ReturnTimeout, poolVars
<1>16. CASE Exit
  BY <1>16 DEF Exit
<1>17. CASE CloseListener
  BY <1>17 DEF CloseListener, poolVars
<1>18. CASE StopClose
  BY <1>18 DEF StopClose
<1>19. CASE StopWait
  BY <1>19 DEF StopWait, poolVars
<1>20. CASE \E w \in Workers : Receive(w)
  <2>1. PICK w \in Workers : Receive(w)
    BY <1>20
  <2>2. SUFFICES ASSUME NEW c \in Conns, conn[c] = "open", Queued(c)
                 PROVE  Queued(c)' \/ WorkerHolds(w, c)'
    BY <2>1 DEF Receive
  <2>3. PICK i \in 1 .. Len(jobs) : jobs[i] = c
    BY <2>2
  <2>4. CASE i = 1
    BY <2>1, <2>3, <2>4, Received DEF Receive
  <2>5. CASE i # 1
    <3>1. i - 1 \in 1 .. Len(jobs') /\ jobs'[i - 1] = c
      BY <2>1, <2>3, <2>5, Received DEF Receive
    <3>2. QED
      BY <3>1
  <2>6. QED
    BY <2>4, <2>5
<1>21. CASE \E w \in Workers : WorkerExit(w)
  BY <1>21 DEF WorkerExit
<1>22. CASE \E w \in Workers : BeginConn(w)
  BY <1>22 DEF BeginConn
<1>23. CASE \E w \in Workers : KeepServing(w)
  <2>1. UNCHANGED <<main, cur, conn, jobs, wpc, wconn>>
    BY <1>23 DEF KeepServing
  <2>2. QED
    BY <2>1
<1>24. CASE \E w \in Workers : EndConn(w)
  BY <1>24 DEF EndConn
<1>25. CASE \E w \in Workers : CloseConn(w)
  BY <1>25 DEF CloseConn
<1>26. CASE Terminated \/ UNCHANGED vars
  BY <1>26 DEF Terminated, vars
<1>27. QED
  BY <1>1, <1>2, <1>3, <1>4, <1>5, <1>6, <1>7, <1>8, <1>9, <1>10, <1>11,
     <1>12, <1>13, <1>14, <1>15, <1>16, <1>17, <1>18, <1>19, <1>20, <1>21,
     <1>22, <1>23, <1>24, <1>25, <1>26
     DEF Next, MainStep, ServeLoop, WorkerStep

\* Receiving moves the head of the channel to the worker.
LEMMA ReceiveOwner ==
    ASSUME Inv, NEW u \in Workers, Receive(u)
    PROVE  OneOwner'
<1>0. /\ jobs # <<>> /\ jobs' = Tail(jobs) /\ jobs \in Seq(Conns)
      /\ UNCHANGED <<main, cur, conn>>
  BY DEF Receive, Inv, TypeOK
<1>1. Head(jobs) \in Conns /\ Queued(Head(jobs))
  BY <1>0, Received DEF Queued
<1>2. \A i \in 1 .. Len(jobs') :
         i + 1 \in 1 .. Len(jobs) /\ jobs'[i] = jobs[i + 1]
  BY <1>0, Received
<1>3. \A c \in Conns : Queued(c)' => Queued(c) /\ c # Head(jobs)
  <2>1. Head(jobs) = jobs[1] /\ Len(jobs) \in Nat /\ 1 \in 1 .. Len(jobs)
    BY <1>0, Received
  <2>2. SUFFICES ASSUME NEW i \in 1 .. Len(jobs')
                 PROVE  Queued(jobs'[i]) /\ jobs'[i] # Head(jobs)
    BY DEF Queued
  <2>3. i + 1 \in 1 .. Len(jobs) /\ jobs'[i] = jobs[i + 1] /\ i + 1 # 1
    BY <1>2, <2>1
  <2>4. QED
    BY <2>1, <2>3 DEF Queued, Inv, OneOwner
<1>4. \A c \in Conns : WorkerHolds(u, c)' <=> c = Head(jobs)
  BY DEF Receive, WorkerHolds, Busy, Inv, TypeOK
<1>5. \A w \in Workers, c \in Conns :
         w # u => (WorkerHolds(w, c)' <=> WorkerHolds(w, c))
  BY DEF Receive, WorkerHolds, Inv, TypeOK
<1>6. \A w \in Workers : ~WorkerHolds(w, Head(jobs))
  BY <1>1 DEF Inv, OneOwner
<1>7. \A c \in Conns : MainHolds(c)' =>
         /\ conn'[c] = "open" /\ ~Queued(c)'
         /\ \A w \in Workers : ~WorkerHolds(w, c)'
  <2>1. \A c \in Conns : MainHolds(c)' <=> MainHolds(c)
    BY <1>0 DEF MainHolds
  <2>2. QED
    BY <2>1, <1>0, <1>1, <1>3, <1>4, <1>5 DEF Inv, OneOwner
<1>8. \A c \in Conns : Queued(c)' =>
         conn'[c] = "open" /\ \A w \in Workers : ~WorkerHolds(w, c)'
  BY <1>0, <1>3, <1>4, <1>5 DEF Inv, OneOwner
<1>9. \A w \in Workers, c \in Conns : WorkerHolds(w, c)' => conn'[c] = "open"
  BY <1>0, <1>1, <1>4, <1>5 DEF Inv, OneOwner
<1>10. \A v, w \in Workers, c \in Conns :
          WorkerHolds(v, c)' /\ WorkerHolds(w, c)' => v = w
  BY <1>4, <1>5, <1>6 DEF Inv, OneOwner
<1>11. \A i, j \in 1 .. Len(jobs') : jobs'[i] = jobs'[j] => i = j
  BY <1>2 DEF Inv, OneOwner
<1>12. QED
  BY <1>7, <1>8, <1>9, <1>10, <1>11 DEF OneOwner

LEMMA OneOwnerStep ==
    ASSUME Inv, [Next]_vars
    PROVE  OneOwner'
<1> USE ServerAssumption DEF Inv, TypeOK, HolderOK, Holding, Busy, OneOwner,
        MainHolds, WorkerHolds, Queued
<1>1. CASE \E c \in Conns : Connect(c)
  BY <1>1 DEF Connect, poolVars
<1>2. CASE Signal
  BY <1>2 DEF Signal, poolVars
<1>3. CASE StartFails
  BY <1>3 DEF StartFails, poolVars
<1>4. CASE Start
  BY <1>4 DEF Start
<1>5. CASE \E c \in Conns : Accept(c)
  <2>0. PICK a \in Conns : Accept(a)
    BY <1>5
  <2>1. \A c \in Conns : MainHolds(c)' =>
           /\ conn'[c] = "open" /\ ~Queued(c)'
           /\ \A w \in Workers : ~WorkerHolds(w, c)'
    BY <2>0 DEF Accept, poolVars
  <2>2. \A c \in Conns : Queued(c)' =>
           /\ conn'[c] = "open"
           /\ \A w \in Workers : ~WorkerHolds(w, c)'
    BY <2>0 DEF Accept, poolVars
  <2>3. \A w \in Workers, c \in Conns : WorkerHolds(w, c)' => conn'[c] = "open"
    BY <2>0 DEF Accept, poolVars
  <2>4. \A v, w \in Workers, c \in Conns :
           WorkerHolds(v, c)' /\ WorkerHolds(w, c)' => v = w
    BY <2>0 DEF Accept, poolVars
  <2>5. \A i, j \in 1 .. Len(jobs') : jobs'[i] = jobs'[j] => i = j
    BY <2>0 DEF Accept, poolVars
  <2>6. QED
    BY <2>1, <2>2, <2>3, <2>4, <2>5 DEF OneOwner
<1>6. CASE ServeReturns
  BY <1>6 DEF ServeReturns, poolVars
<1>7. CASE Admit
  BY <1>7 DEF Admit, poolVars
<1>8. CASE RateLimit
  BY <1>8 DEF RateLimit, poolVars
<1>9. CASE EnqueueSend
  BY <1>9 DEF EnqueueSend
<1>10. CASE EnqueueTimeout
  BY <1>10 DEF EnqueueTimeout, poolVars
<1>11. CASE EnqueueCancelled
  BY <1>11 DEF EnqueueCancelled, poolVars
<1>12. CASE Refuse
  BY <1>12 DEF Refuse, poolVars
<1>13. CASE SpawnStopper
  BY <1>13 DEF SpawnStopper, poolVars
<1>14. CASE ReturnNil
  BY <1>14 DEF ReturnNil, poolVars
<1>15. CASE ReturnTimeout
  BY <1>15 DEF ReturnTimeout, poolVars
<1>16. CASE Exit
  BY <1>16 DEF Exit
<1>17. CASE CloseListener
  BY <1>17 DEF CloseListener, poolVars
<1>18. CASE StopClose
  BY <1>18 DEF StopClose
<1>19. CASE StopWait
  BY <1>19 DEF StopWait, poolVars
<1>20. CASE \E w \in Workers : Receive(w)
  BY <1>20, ReceiveOwner
<1>21. CASE \E w \in Workers : WorkerExit(w)
  BY <1>21 DEF WorkerExit
<1>22. CASE \E w \in Workers : BeginConn(w)
  BY <1>22 DEF BeginConn
<1>23. CASE \E w \in Workers : KeepServing(w)
  BY <1>23 DEF KeepServing
<1>24. CASE \E w \in Workers : EndConn(w)
  <2>0. PICK u \in Workers : EndConn(u)
    BY <1>24
  <2>1. \A c \in Conns : MainHolds(c)' =>
           /\ conn'[c] = "open" /\ ~Queued(c)'
           /\ \A w \in Workers : ~WorkerHolds(w, c)'
    BY <2>0 DEF EndConn
  <2>2. \A c \in Conns : Queued(c)' =>
           /\ conn'[c] = "open"
           /\ \A w \in Workers : ~WorkerHolds(w, c)'
    BY <2>0 DEF EndConn
  <2>3. \A w \in Workers, c \in Conns : WorkerHolds(w, c)' => conn'[c] = "open"
    BY <2>0 DEF EndConn
  <2>4. \A v, w \in Workers, c \in Conns :
           WorkerHolds(v, c)' /\ WorkerHolds(w, c)' => v = w
    BY <2>0 DEF EndConn
  <2>5. \A i, j \in 1 .. Len(jobs') : jobs'[i] = jobs'[j] => i = j
    BY <2>0 DEF EndConn
  <2>6. QED
    BY <2>1, <2>2, <2>3, <2>4, <2>5 DEF OneOwner
<1>25. CASE \E w \in Workers : CloseConn(w)
  BY <1>25 DEF CloseConn
<1>26. CASE Terminated \/ UNCHANGED vars
  <2>1. \A c \in Conns : MainHolds(c)' =>
           /\ conn'[c] = "open" /\ ~Queued(c)'
           /\ \A w \in Workers : ~WorkerHolds(w, c)'
    BY <1>26 DEF Terminated, vars
  <2>2. \A c \in Conns : Queued(c)' =>
           /\ conn'[c] = "open"
           /\ \A w \in Workers : ~WorkerHolds(w, c)'
    BY <1>26 DEF Terminated, vars
  <2>3. \A w \in Workers, c \in Conns : WorkerHolds(w, c)' => conn'[c] = "open"
    BY <1>26 DEF Terminated, vars
  <2>4. \A v, w \in Workers, c \in Conns :
           WorkerHolds(v, c)' /\ WorkerHolds(w, c)' => v = w
    BY <1>26 DEF Terminated, vars
  <2>5. \A i, j \in 1 .. Len(jobs') : jobs'[i] = jobs'[j] => i = j
    BY <1>26 DEF Terminated, vars
  <2>6. QED
    BY <2>1, <2>2, <2>3, <2>4, <2>5 DEF OneOwner
<1>27. QED
  BY <1>1, <1>2, <1>3, <1>4, <1>5, <1>6, <1>7, <1>8, <1>9, <1>10, <1>11,
     <1>12, <1>13, <1>14, <1>15, <1>16, <1>17, <1>18, <1>19, <1>20, <1>21,
     <1>22, <1>23, <1>24, <1>25, <1>26
     DEF Next, MainStep, ServeLoop, WorkerStep

-----------------------------------------------------------------------------
(* The counters of accepted and refused connections.                       *)

\* The connections Accept has returned, while the process runs.
Taken == {c \in Conns : conn[c] \in {"open", "closed"}}

\* A connection in the hands of the accept loop is accepted and not refused
\* yet; one whose refusal is being written is not counted as answered yet.
Tally ==
    /\ main # "exited" => metrics["accepted"] = Cardinality(Taken)
    /\ metrics["rateLimited"] + metrics["queueRejects"] +
          (IF main \in {"admit", "enqueue"} THEN 1 ELSE 0)
              <= metrics["accepted"]
    /\ metrics["refused4xx"] + (IF main = "refuse429" THEN 1 ELSE 0)
              <= metrics["rateLimited"]
    /\ metrics["refused5xx"] + (IF main = "refuse503" THEN 1 ELSE 0)
              <= metrics["queueRejects"]

LEMMA TakenOnAccept ==
    ASSUME Inv, NEW c \in Conns, Accept(c)
    PROVE  Cardinality(Taken') = Cardinality(Taken) + 1
<1>1. Taken' = Taken \cup {c} /\ c \notin Taken
  BY DEF Accept, Taken, Inv, TypeOK
<1>2. IsFiniteSet(Taken)
  BY ServerAssumption, FS_Subset DEF Taken
<1>3. QED
  BY <1>1, <1>2, FS_AddElement

\* Every other step but the end of the process leaves them: what the accept
\* loop or a worker closes was open.
LEMMA TakenSame ==
    ASSUME Inv, [Next]_vars, ~Exit, \A c \in Conns : ~Accept(c)
    PROVE  Taken' = Taken
<1> USE DEF Inv, TypeOK, Taken
<1>1. CASE UNCHANGED conn
  BY <1>1
<1>2. CASE \E c \in Conns : Connect(c)
  BY <1>2 DEF Connect
<1>3. CASE EnqueueCancelled
  BY <1>3 DEF EnqueueCancelled, OneOwner, HolderOK, MainHolds, Holding
<1>4. CASE Refuse
  BY <1>4 DEF Refuse, OneOwner, HolderOK, MainHolds, Holding
<1>5. CASE ReturnNil
  BY <1>5 DEF ReturnNil
<1>6. CASE ReturnTimeout
  BY <1>6 DEF ReturnTimeout
<1>7. CASE CloseListener
  BY <1>7 DEF CloseListener
<1>8. CASE \E w \in Workers : CloseConn(w)
  BY <1>8 DEF CloseConn, OneOwner, HolderOK, WorkerHolds, Busy
<1>9. QED
  BY <1>1, <1>2, <1>3, <1>4, <1>5, <1>6, <1>7, <1>8
     DEF Next, MainStep, ServeLoop, WorkerStep, Terminated, vars,
         Signal, StartFails, Start, ServeReturns, Admit, RateLimit,
         EnqueueSend, EnqueueTimeout, SpawnStopper, StopClose,
         StopWait, Receive, WorkerExit, BeginConn, KeepServing, EndConn

LEMMA TallyStep ==
    ASSUME Inv, Tally, [Next]_vars
    PROVE  Tally'
<1> USE DEF Tally, Counters
<1>0. /\ \A m \in Counters : metrics[m] \in Nat
      /\ metrics \in [Counters -> Nat]
  BY DEF Inv, TypeOK
<1>1. CASE \E c \in Conns : Accept(c)
  <2>1. PICK c \in Conns : Accept(c)
    BY <1>1
  <2>2. /\ main = "accept" /\ main' = "admit"
        /\ metrics' = [metrics EXCEPT !["accepted"] = @ + 1]
    BY <2>1 DEF Accept, Add
  <2>3. QED
    BY <1>0, <2>1, <2>2, TakenOnAccept
<1>2. CASE Exit
  BY <1>0, <1>2 DEF Exit
<1>3. ASSUME ~Exit, \A c \in Conns : ~Accept(c)
      PROVE  Tally'
  <2>0. Cardinality(Taken') = Cardinality(Taken)
    BY <1>3, TakenSame
  <2>1. CASE RateLimit
    BY <1>0, <2>0, <2>1 DEF RateLimit, Add
  <2>2. CASE EnqueueTimeout
    BY <1>0, <2>0, <2>2 DEF EnqueueTimeout, Add
  <2>3. CASE Refuse
    BY <1>0, <2>0, <2>3 DEF Refuse, Add
  <2>4. CASE \E w \in Workers : BeginConn(w)
    BY <1>0, <2>0, <2>4 DEF BeginConn, Add
  <2>5. CASE \E w \in Workers : EndConn(w)
    BY <1>0, <2>0, <2>5 DEF EndConn
  <2>6. CASE EnqueueSend \/ EnqueueCancelled \/ Admit
    BY <1>0, <2>0, <2>6 DEF EnqueueSend, EnqueueCancelled, Admit
  <2>7. CASE StartFails \/ Start \/ ServeReturns \/ SpawnStopper
             \/ ReturnNil \/ ReturnTimeout
    BY <1>0, <2>0, <2>7
       DEF StartFails, Start, ServeReturns, SpawnStopper, ReturnNil,
           ReturnTimeout
  <2>8. CASE UNCHANGED <<main, metrics>>
    BY <1>0, <2>0, <2>8
  <2>9. QED
    BY <1>3, <2>1, <2>2, <2>3, <2>4, <2>5, <2>6, <2>7, <2>8
       DEF Next, MainStep, ServeLoop, WorkerStep, Terminated, vars, Connect,
           Signal, CloseListener, StopClose, StopWait, Receive, WorkerExit,
           KeepServing, CloseConn
<1>4. QED
  BY <1>1, <1>2, <1>3

-----------------------------------------------------------------------------
(* What follows.                                                           *)

\* The invariant holds of every behaviour.
THEOREM Invariance == Spec => []Inv
<1>1. Init => Inv
  BY InvInit
<1>2. Inv /\ [Next]_vars => Inv'
  BY TypeStep, GaugeStep, HolderStep, PhasesStep, NoLeakStep, OneOwnerStep
     DEF Inv
<1>3. QED
  BY <1>1, <1>2, PTL DEF Spec

\* Type correctness: the channel stays within its capacity and the active
\* gauge never goes below zero.
THEOREM TypeCorrect == Spec => []TypeOK
<1>1. Inv => TypeOK
  BY DEF Inv
<1>2. QED
  BY <1>1, Invariance, PTL

\* The active gauge is the number of connections being served.
THEOREM GaugeCorrect == Spec => []GaugeIsExact
<1>1. Inv => GaugeIsExact
  BY DEF Inv
<1>2. QED
  BY <1>1, Invariance, PTL

\* No accepted connection is lost between Accept and Close, whichever of the
\* cases of the select in enqueueJob is taken and whenever the context is
\* cancelled.
THEOREM NothingLeaks == Spec => []NoLeak
<1>1. Inv => NoLeak
  BY DEF Inv
<1>2. QED
  BY <1>1, Invariance, PTL

\* Nor has one two owners: the job a worker receives is no longer in the
\* channel or with the accept loop, and its connection is still open.
THEOREM Ownership == Spec => []OneOwner
<1>1. Inv => OneOwner
  BY DEF Inv
<1>2. QED
  BY <1>1, Invariance, PTL

\* The accept loop never sends on the closed channel.
THEOREM SendSafe == Spec => []NoSendOnClosed
<1>1. Inv => NoSendOnClosed
  BY DEF Inv, Phases, NoSendOnClosed, Holding
<1>2. QED
  BY <1>1, Invariance, PTL

\* If run() returns nil, everything accepted was served and closed.
THEOREM DrainComplete == Spec => []CleanReturn
<1>1. Inv => CleanReturn
  <2> SUFFICES ASSUME Inv, main = "returned"
               PROVE  /\ jobs = <<>>
                      /\ \A w \in Workers : wpc[w] = "exited"
                      /\ \A c \in Conns : conn[c] # "open"
      BY DEF CleanReturn
  <2>1. \A w \in Workers : wpc[w] = "exited"
    BY DEF Inv, Phases
  <2>2. jobs = <<>>
    BY <2>1, ServerAssumption DEF Inv, Phases
  <2>3. \A c \in Conns :
           /\ ~MainHolds(c) /\ ~Queued(c)
           /\ \A w \in Workers : ~WorkerHolds(w, c)
    BY <2>1, <2>2 DEF MainHolds, Queued, WorkerHolds, Holding, Busy
  <2>4. QED
    BY <2>1, <2>2, <2>3 DEF Inv, NoLeak
<1>2. QED
  BY <1>1, Invariance, PTL

\* The counters of accepted and refused connections tell the truth: each
\* accepted connection is counted once, refused for one reason at most and
\* answered at most once for it, for any number of clients.
THEOREM AccountsBalance == Spec => []Accounting
<1>1. Init => Tally
  <2>1. SUFFICES ASSUME Init PROVE Tally
    OBVIOUS
  <2>2. Taken = {}
    BY <2>1 DEF Init, Taken
  <2>3. Cardinality(Taken) = 0
    BY <2>2, FS_EmptySet
  <2>4. \A m \in Counters : metrics[m] = 0
    BY <2>1 DEF Init
  <2>5. main = "run"
    BY <2>1 DEF Init
  <2>6. QED
    BY <2>3, <2>4, <2>5 DEF Tally, Counters
<1>2. Inv /\ Tally /\ [Next]_vars => Tally'
  BY TallyStep
<1>3. Inv /\ Tally => Accounting
  <2>1. Inv => \A m \in Counters : metrics[m] \in Nat
    BY DEF Inv, TypeOK
  <2>2. QED
    BY <2>1 DEF Tally, Taken, Accounting, Counters
<1>4. QED
  BY <1>1, <1>2, <1>3, Invariance, PTL DEF Spec
=============================================================================
