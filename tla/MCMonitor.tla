----------------------------- MODULE MCMonitor ------------------------------
(* Monitor on two workers and the accept loop.                             *)
EXTENDS Monitor

\* A duration below zero and two to compare; no limit, and one below the cap.
MCDurations == {-1, 1, 2}
MCLimits == {0, 1}
=============================================================================
