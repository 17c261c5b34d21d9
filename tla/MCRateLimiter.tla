--------------------------- MODULE MCRateLimiter ----------------------------
(* RateLimiter on small sets of clients and callers.                       *)
EXTENDS RateLimiter, TLC

Symmetry == Permutations(Keys) \cup Permutations(Callers)
=============================================================================
