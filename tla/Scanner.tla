------------------------------ MODULE Scanner -------------------------------
(***************************************************************************)
(* The Scanner of security/waf/automaton.go: bytes come one by one, in     *)
(* pieces of any size, and are normalised and matched on the way, against  *)
(* the automaton that NewRules has built.                                  *)
(*                                                                         *)
(* feedRaw hands at most three bytes to feedNormalized; they wait in `due' *)
(* while feedNormalized follows failure links.  A scanner that has matched *)
(* is not used again.                                                      *)
(***************************************************************************)
EXTENDS Automaton

CONSTANTS Scanned,   \* bound: the policies whose scanner is followed
          MaxInput   \* bound on the bytes fed

ASSUME ScannerAssumption == Scanned \subseteq Policies /\ MaxInput \in Nat

VARIABLES input,               \* history: the bytes fed
          text,                \* history: the bytes feedNormalized has taken
          due,                 \* bytes feedNormalized is still called with
          finished,            \* Finish was called
          state,
          pendingSpace, pendingSlash, inBlockComment, pendingCommentStar,
          emitted,
          match                \* the rule reported, or None

scanVars == <<input, text, due, finished, state, pendingSpace, pendingSlash,
              inBlockComment, pendingCommentStar, emitted, match>>
vars == <<buildVars, scanVars>>
nodeVars == <<text, state, match>>

Init ==
    /\ BuildInit
    /\ input = <<>>
    /\ text = <<>>
    /\ due = <<>>
    /\ finished = FALSE
    /\ state = Root
    /\ pendingSpace = FALSE
    /\ pendingSlash = FALSE
    /\ inBlockComment = FALSE
    /\ pendingCommentStar = FALSE
    /\ emitted = FALSE
    /\ match = None

-----------------------------------------------------------------------------
\* Idle: between two calls of feedRaw.
Idle == pc = "built" /\ due = <<>> /\ match = None /\ ~finished

Take(raw) ==
    /\ Idle
    /\ rules \in Scanned /\ Len(input) < MaxInput
    /\ input' = Append(input, raw)
    /\ UNCHANGED finished
    /\ UNCHANGED nodeVars

\* Inside a comment: only its end matters.
FeedComment(raw) ==
    /\ Take(raw)
    /\ inBlockComment
    /\ LET ends == pendingCommentStar /\ raw = "/"
       IN  /\ inBlockComment' = ~ends
           /\ pendingCommentStar' = (~ends /\ raw = "*")
           /\ pendingSpace' = (pendingSpace \/ ends)
    /\ UNCHANGED <<due, pendingSlash, emitted>>

\* A slash that was held back and a star open a comment.
OpenComment(raw) ==
    /\ Take(raw)
    /\ ~inBlockComment
    /\ pendingSlash
    /\ raw = "*"
    /\ pendingSlash' = FALSE
    /\ inBlockComment' = TRUE
    /\ pendingSpace' = TRUE
    /\ UNCHANGED <<due, pendingCommentStar, emitted>>

\* The pending space, if some byte came before it, and the given byte.
WithSpace(b) == IF pendingSpace /\ emitted THEN <<" ", b>> ELSE <<b>>

\* Faulty variant: the pending space stays behind the slash.
HeldBare == IF pendingSlash THEN <<"/">> ELSE <<>>
\* What a slash that was held back and opens no comment comes to.
Held == IF pendingSlash THEN WithSpace("/") ELSE <<>>

\* Any other byte: the slash goes first; a slash or a blank is held back.
FeedRaw(raw) ==
    /\ Take(raw)
    /\ ~inBlockComment
    /\ ~(pendingSlash /\ raw = "*")
    /\ pendingSlash' = (raw = "/")
    /\ \/ /\ raw = "/"
          /\ due' = Held
          /\ pendingSpace' = (pendingSpace /\ ~pendingSlash)
       \/ /\ raw \in Blanks
          /\ due' = Held
          /\ pendingSpace' = TRUE
       \/ /\ raw \notin Blanks \cup {"/"}
          /\ due' = IF pendingSlash THEN Append(Held, Lower[raw])
                                    ELSE WithSpace(Lower[raw])
          /\ pendingSpace' = FALSE
    /\ emitted' = (emitted \/ due' # <<>>)
    /\ UNCHANGED <<inBlockComment, pendingCommentStar>>

\* Finish: a slash held back was just a slash.
Finish ==
    /\ Idle
    /\ finished' = TRUE
    /\ due' = Held
    /\ emitted' = (emitted \/ pendingSlash)
    /\ pendingSlash' = FALSE /\ pendingSpace' = FALSE
    /\ inBlockComment' = FALSE /\ pendingCommentStar' = FALSE
    /\ UNCHANGED input
    /\ UNCHANGED nodeVars

-----------------------------------------------------------------------------
(* feedNormalized.                                                         *)

Pending == due # <<>> /\ match = None
HasNext == Append(state, Head(due)) \in nodes

\* Faulty variant: back to the root at once.
FollowFailToRoot ==
    /\ Pending
    /\ state # Root /\ ~HasNext
    /\ state' = Root
    /\ UNCHANGED <<input, text, due, finished, pendingSpace, pendingSlash,
                   inBlockComment, pendingCommentStar, emitted, match>>

FollowFail ==
    /\ Pending
    /\ state # Root /\ ~HasNext
    /\ state' = fail[state]
    /\ UNCHANGED <<input, text, due, finished, pendingSpace, pendingSlash,
                   inBlockComment, pendingCommentStar, emitted, match>>

\* The byte is consumed; a match ends the calls of feedRaw and Finish.
Consume ==
    /\ Pending
    /\ state = Root \/ HasNext
    /\ state' = IF HasNext THEN Append(state, Head(due)) ELSE state
    /\ text' = Append(text, Head(due))
    /\ match' = output[state']
    /\ due' = Tail(due)
    /\ UNCHANGED <<input, finished, pendingSpace, pendingSlash,
                   inBlockComment, pendingCommentStar, emitted>>

Over == (match # None \/ (finished /\ due = <<>>)) /\ UNCHANGED vars

Scan ==
    \/ \E raw \in Bytes : FeedComment(raw) \/ OpenComment(raw) \/ FeedRaw(raw)
    \/ Finish \/ FollowFail \/ Consume

Next ==
    \/ BuildNext /\ UNCHANGED scanVars
    \/ Scan /\ UNCHANGED buildVars
    \/ Over

Spec == Init /\ [][Next]_vars

-----------------------------------------------------------------------------
(* Properties.                                                             *)

\* Every variable has its type: the scanner stands on a node of the trie
\* (following links never leaves it) and one byte fed gives at most three.
TypeOK ==
    /\ BuildTypeOK
    /\ input \in Seq(Bytes) /\ Len(input) <= MaxInput
    /\ text \in Seq(Bytes)
    /\ due \in Seq(Bytes) /\ Len(due) <= 3
    /\ finished \in BOOLEAN
    /\ state \in nodes
    /\ {pendingSpace, pendingSlash, inBlockComment, pendingCommentStar, emitted}
           \subseteq BOOLEAN
    /\ match \in {None} \cup DOMAIN rules

\* Between two bytes the scanner is in the longest suffix of the text that
\* is a node: no failure link skips the beginning of a rule.
StateIsLongest ==
    due = <<>> => state = Longest(Suffixes(text) \cap nodes)

Occurs(t, s) == \E i \in 0 .. Len(s) - Len(t) : SubSeq(s, i + 1, i + Len(t)) = t

\* The scanner agrees with Normalize, however the input is cut: what it has
\* taken is what Normalize makes of the input so far, up to a slash held
\* back, and in the end exactly that.
TextIsNormalized ==
    due = <<>> /\ match = None =>
        IF pendingSlash THEN text \o Held = Normalize(input)
                        ELSE text = Normalize(input)

\* security/waf/automaton_fuzz_test.go: a scanner that no link leads astray
\* (StateIsLongest) reports a match if and only if
\* the normalised input contains the text of a rule, and the rule reported
\* is one of those that do.  (One without a text is reported only when no
\* other has begun to match.)
MatchIffContained ==
    /\ TypeOK /\ StateIsLongest
    /\ match # None => /\ Occurs(Texts[match], Normalize(input))
                       /\ Texts[match] = <<>> => state = Root
    /\ finished /\ due = <<>> /\ match = None =>
          \A i \in DOMAIN Texts :
              Texts[i] # <<>> => ~Occurs(Texts[i], Normalize(input))
=============================================================================
