------------------------------ MODULE MCServer ------------------------------
(* Server on four connections and two workers, with a queue of one: both   *)
(* workers may be busy and the queue full when the next connection comes.  *)
EXTENDS Server

CONSTANTS c1, c2, c3, c4, w1, w2

MCConns == {c1, c2, c3, c4}
MCWorkers == {w1, w2}
=============================================================================
