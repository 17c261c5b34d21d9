---------------------------- MODULE TokenBucket -----------------------------
(***************************************************************************)
(* What security/ratelimiter promises: one token bucket per client that is *)
(* always full to begin with, fills at a constant rate up to its capacity  *)
(* and never forgets anything.                                             *)
(*                                                                         *)
(* The unit of tokens is what the bucket earns in one unit of time, so a   *)
(* request costs Cost units (1/rate) and Capacity is capacity/rate.        *)
(***************************************************************************)
EXTENDS Integers

CONSTANTS Keys,      \* client addresses
          Cost,      \* units one request takes, at least one
          Capacity,  \* units a full bucket holds; config accepts any above 0
          NoKey      \* nobody is asking

VARIABLES time,         \* the time of the latest request
          level,        \* level[k]: units in k's bucket at that time
          asking,       \* the client whose request is being decided
          answer,       \* the last decision
          windowStart,  \* an observer's window begins ...
          inWindow      \* ... and inWindow[k] requests of k were let in since

vars == <<time, level, asking, answer, windowStart, inWindow>>

Least(a, b) == IF a <= b THEN a ELSE b

Init ==
    /\ time = 0
    /\ level = [k \in Keys |-> Capacity]
    /\ asking = NoKey
    /\ answer = "none"
    /\ windowStart = 0
    /\ inWindow = [k \in Keys |-> 0]

\* A request of k arrives at a later (or the same) time; all buckets have
\* filled meanwhile.
Ask(k) ==
    /\ asking = NoKey
    /\ time' \in Nat
    /\ time' >= time
    /\ level' = [j \in Keys |-> Least(Capacity, level[j] + (time' - time))]
    /\ asking' = k
    /\ answer' = "none"
    /\ UNCHANGED <<windowStart, inWindow>>

\* It is let in if and only if the bucket holds a whole token.
Reply ==
    /\ asking # NoKey
    /\ \/ /\ level[asking] >= Cost
          /\ level' = [level EXCEPT ![asking] = @ - Cost]
          /\ inWindow' = [inWindow EXCEPT ![asking] = @ + 1]
          /\ answer' = "yes"
       \/ /\ level[asking] < Cost
          /\ answer' = "no"
          /\ UNCHANGED <<level, inWindow>>
    /\ asking' = NoKey
    /\ UNCHANGED <<time, windowStart>>

\* The observer starts a new window.
StartWindow ==
    /\ asking = NoKey
    /\ windowStart' = time
    /\ inWindow' = [k \in Keys |-> 0]
    /\ UNCHANGED <<time, level, asking, answer>>

Next == (\E k \in Keys : Ask(k)) \/ Reply \/ StartWindow

Spec == Init /\ [][Next]_vars

TypeOK ==
    /\ time \in Nat
    /\ level \in [Keys -> 0 .. Capacity]
    /\ asking \in Keys \cup {NoKey}
    /\ answer \in {"none", "yes", "no"}
    /\ windowStart \in 0 .. time
    /\ inWindow \in [Keys -> Nat]

\* What a token bucket is for: in whatever window, a client gets a full
\* bucket and what is earned during the window at most, and what it has not
\* used of that is no more than what the bucket holds.
WindowBound ==
    \A k \in Keys :
        inWindow[k] * Cost + level[k] <= Capacity + (time - windowStart)
=============================================================================
