------------------------------- MODULE MCWaf --------------------------------
(* Automaton on all lists of up to three short patterns, and Scanner on    *)
(* two policies and every short input.                                     *)
EXTENDS Scanner

MCBytes == {"a", "B", "b", "/", "*", " "}
MCLower == [b \in MCBytes |-> IF b = "B" THEN "b" ELSE b]

\* Texts of one to four letters, and the shapes normalisation changes: the
\* last one leaves nothing.
Words == {<<"a">>, <<"b">>, <<"a", "b">>, <<"b", "a">>, <<"a", "a", "b">>,
          <<"a", "b", "a">>, <<"b", "a", "b">>, <<"a", "b", "a", "b">>}
Raw == {<<>>, <<"B", " ", " ", "a">>, <<"a", "/", "*", "*", "/", "b">>,
        <<" ", "a", "/">>, <<"/", "*", "b", "*", "/">>}

\* "a/a b", "/a*", "b /" and "a *": beginnings of one end others.
Overlapping == <<<<"a", "/", "a", " ", "b">>, <<"/", "a", "*">>,
                 <<"B", "/", "*", "*", "/", "/">>, <<"a", " ", " ", "*">>>>
MCScanned == {Overlapping, <<<<"a", "b">>, <<"/", "*", "b", "*", "/">>>>}
MCPolicies == UNION {[1 .. n -> Words \cup Raw] : n \in 0 .. 3} \cup MCScanned
=============================================================================
