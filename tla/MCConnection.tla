---------------------------- MODULE MCConnection ----------------------------
(* Connection with small bounds.                                           *)
EXTENDS Connection
=============================================================================
