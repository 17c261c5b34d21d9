------------------------------ MODULE MCParser ------------------------------
(* Parser with small limits and two spellings of a name.                   *)
EXTENDS Parser

MCOthers == {"host", "X", "x", "Y"}
MCCanonical == [n \in Names |-> IF n = "host" THEN "Host"
                                ELSE IF n = "x" THEN "X" ELSE n]
=============================================================================
