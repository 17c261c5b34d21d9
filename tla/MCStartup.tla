----------------------------- MODULE MCStartup ------------------------------
(* Startup with environments that differ in one or two variables.          *)
EXTENDS Startup, TLC

Plain == [size |-> Unset, timeout |-> Unset, capacity |-> Unset,
          disabled |-> "", benchmark |-> "", cert |-> FALSE, key |-> FALSE]
Raw == {Unset, [is |-> "junk"], [is |-> "nan"]} \cup {Number(n) : n \in {-1, 0, 1, 7}}
MCEnvs ==
    {[Plain EXCEPT !.cert = c, !.key = k] : c, k \in BOOLEAN}
      \cup {[Plain EXCEPT !.size = r, !.timeout = r, !.capacity = r] : r \in Raw}
      \cup {[Plain EXCEPT !.disabled = d, !.benchmark = b] :
               d \in {"0", "on"}, b \in {"0", "1"}}
MCPolicies == {<<>>, <<"comment", "blank">>, <<"rule", "comment", "rule">>,
               <<"rule", "tooLong", "rule">>}
=============================================================================
