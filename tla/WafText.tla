------------------------------ MODULE WafText -------------------------------
(***************************************************************************)
(* security/waf/normalize.go and what the automaton of                     *)
(* security/waf/automaton.go is about: rules, the text they stand for, the *)
(* trie of their prefixes and its failure links.                           *)
(*                                                                         *)
(* A text is a sequence of bytes; a node of the trie is the path to it.    *)
(***************************************************************************)
EXTENDS Naturals, Sequences, SequencesExt

CONSTANTS Bytes,   \* the bytes told apart
          Blanks,  \* isWhitespace
          Lower    \* Lower[b]: lowerASCII(b)

ASSUME TextAssumption ==
    /\ {"/", "*", " "} \subseteq Bytes
    /\ Blanks \subseteq Bytes \ {"/", "*"}
    /\ " " \in Blanks
    /\ Lower \in [Bytes -> Bytes]
    /\ \A b \in Bytes : Lower[Lower[b]] = Lower[b]
    /\ \A b \in {"/", "*"} \cup Blanks : Lower[b] = b
    /\ \A b \in Bytes \ Blanks : Lower[b] \notin Blanks

TrimTrailingSpace(s) ==
    IF s # <<>> /\ Last(s) = " " THEN Front(s) ELSE s

(***************************************************************************)
(* The loop of Normalize: Loop[s][m] is what it appends for the rest s of  *)
(* its input.  The mode m says whether it is in the loop over a comment    *)
(* ("open", or "lead" when no byte is out yet) or not: "start" when no     *)
(* byte is out, which makes a pending space void, "space" when one is      *)
(* pending, otherwise "byte".                                              *)
(***************************************************************************)
Modes == {"start", "byte", "space", "lead", "open"}

Begins(s, b, c) == Len(s) >= 2 /\ s[1] = b /\ s[2] = c
Spaced(m) == IF m \in {"start", "lead"} THEN "start" ELSE "space"
Opened(m) == IF m = "start" THEN "lead" ELSE "open"

Turn(loop, s, m) ==
    IF s = <<>> THEN <<>>
    ELSE IF m \in {"lead", "open"}
    THEN IF Begins(s, "*", "/") THEN loop[Tail(Tail(s))][Spaced(m)]
                                ELSE loop[Tail(s)][m]
    ELSE IF Begins(s, "/", "*") THEN loop[Tail(Tail(s))][Opened(m)]
    ELSE IF Head(s) \in Blanks THEN loop[Tail(s)][Spaced(m)]
    ELSE (IF m = "space" THEN <<" ", Lower[Head(s)]>> ELSE <<Lower[Head(s)]>>)
             \o loop[Tail(s)]["byte"]

Loop[s \in Seq(Bytes)] == [m \in Modes |-> Turn(Loop, s, m)]

\* A block comment or a run of blanks is one space, except at the beginning
\* and at the end; a comment that is not closed swallows the rest.
Normalize(s) == TrimTrailingSpace(Loop[s]["start"])

-----------------------------------------------------------------------------
(* The trie and its links as the theory has them.                          *)

Root == <<>>
None == 0        \* no rule

\* texts[i] is what rule i looks for.
NodesOf(texts) == (UNION {Prefixes(texts[i]) : i \in DOMAIN texts}) \cup {Root}

Longest(S) == CHOOSE s \in S : \A t \in S : Len(t) <= Len(s)
ProperSuffixes(n) == {SubSeq(n, l, Len(n)) : l \in 2 .. Len(n)} \cup {Root}

\* The failure link of n: the longest proper suffix of n that is a node.
FailLink(nodes, n) == Longest(ProperSuffixes(n) \cap nodes)

\* The rule reported at n: that with the longest text that ends in n, the
\* last one of several with that text.
EndsIn(texts, n) ==
    {i \in DOMAIN texts : texts[i] # <<>> /\ texts[i] \in Suffixes(n)}
RuleAt(texts, n) ==
    LET found == EndsIn(texts, n)
        best == {i \in found : \A j \in found : Len(texts[j]) <= Len(texts[i])}
    IN  IF found = {} THEN None ELSE CHOOSE i \in best : \A j \in best : j <= i
=============================================================================
