----------------------------- MODULE Automaton ------------------------------
(***************************************************************************)
(* NewRules of security/waf/automaton.go: the trie is filled rule by rule, *)
(* then a breadth-first walk sets failure links and inherited outputs.  Go *)
(* ranges over the children of a node in any order.                        *)
(***************************************************************************)
EXTENDS WafText, FiniteSets

CONSTANT Policies   \* the lists of patterns NewRules may be called with

ASSUME PolicyAssumption == Policies \subseteq Seq(Seq(Bytes))

VARIABLES pc, rules,
          added,    \* rules inserted so far
          nodes,
          output,   \* output[n]: the rule at n, or None
          fail,     \* links set so far; the root has none
          queue,
          current,  \* the node taken from the queue
          todo,     \* bytes of its children still to be linked
          child,    \* the child being linked
          climb     \* where the search for its link is

buildVars == <<pc, rules, added, nodes, output, fail, queue, current, todo,
               child, climb>>

BuildInit ==
    /\ pc = "insert"
    /\ rules \in Policies
    /\ added = 0
    /\ nodes = {Root}
    /\ output = [n \in {Root} |-> None]
    /\ fail = <<>>
    /\ queue = <<>>
    /\ current = Root
    /\ todo = {}
    /\ child = Root
    /\ climb = Root

Children(n) == {b \in Bytes : Append(n, b) \in nodes}

\* One turn of the first loop.  An empty pattern is skipped.
Insert ==
    /\ pc = "insert"
    /\ added < Len(rules)
    /\ LET i    == added + 1
           path == Normalize(rules[i])
           new  == Prefixes(path) \ nodes
       IN  /\ added' = i
           /\ IF rules[i] = <<>> THEN UNCHANGED <<nodes, output>>
              ELSE /\ nodes' = nodes \cup new
                   /\ output' = [n \in nodes \cup new |->
                                    IF n = path THEN i
                                    ELSE IF n \in new THEN None ELSE output[n]]
    /\ UNCHANGED <<pc, rules, fail, queue, current, todo, child, climb>>

\* The children of the root are enqueued next.
InsertDone ==
    /\ pc = "insert"
    /\ added = Len(rules)
    /\ pc' = "seed"
    /\ todo' = Children(Root)
    /\ UNCHANGED <<rules, added, nodes, output, fail, queue, current, child,
                   climb>>

Link(n, target) ==
    fail' = [m \in DOMAIN fail \cup {n} |-> IF m = n THEN target ELSE fail[m]]

Seed(b) ==
    /\ pc = "seed"
    /\ b \in todo
    /\ Link(<<b>>, Root)
    /\ queue' = Append(queue, <<b>>)
    /\ todo' = todo \ {b}
    /\ UNCHANGED <<pc, rules, added, nodes, output, current, child, climb>>

SeedDone ==
    /\ pc = "seed"
    /\ todo = {}
    /\ pc' = "walk"
    /\ UNCHANGED <<rules, added, nodes, output, fail, queue, current, todo,
                   child, climb>>

-----------------------------------------------------------------------------
(* `for len(queue) > 0': the next node, and its children one by one.       *)

Dequeue ==
    /\ pc = "walk"
    /\ todo = {}
    /\ queue # <<>>
    /\ current' = Head(queue)
    /\ queue' = Tail(queue)
    /\ todo' = Children(Head(queue))
    /\ UNCHANGED <<pc, rules, added, nodes, output, fail, child, climb>>

NextChild(b) ==
    /\ pc = "walk"
    /\ b \in todo
    /\ todo' = todo \ {b}
    /\ child' = Append(current, b)
    /\ queue' = Append(queue, child')
    /\ climb' = fail[current]
    /\ pc' = "climb"
    /\ UNCHANGED <<rules, added, nodes, output, fail, current>>

\* `for fail != nil && fail.next[b] == nil' is over, with a node or at the
\* root.
Stops == climb = Root \/ Last(child) \in Children(climb)

Climb ==
    /\ pc = "climb"
    /\ ~Stops
    /\ climb' = fail[climb]
    /\ UNCHANGED <<pc, rules, added, nodes, output, fail, queue, current, todo,
                   child>>

\* `if child.output == nil { child.output = child.fail.output }'.  (The
\* faulty variant does not inherit.)
InheritedNot(target) == output[child]
Inherited(target) == IF output[child] = None THEN output[target]
                                             ELSE output[child]

LinkChild ==
    /\ pc = "climb"
    /\ Stops
    /\ LET target == Append(climb, Last(child))
       IN  IF target \in nodes
           THEN /\ Link(child, target)
                /\ output' = [output EXCEPT ![child] = Inherited(target)]
           ELSE Link(child, Root) /\ UNCHANGED output
    /\ pc' = "walk"
    /\ UNCHANGED <<rules, added, nodes, queue, current, todo, child, climb>>

Return ==
    /\ pc = "walk"
    /\ todo = {}
    /\ queue = <<>>
    /\ pc' = "built"
    /\ UNCHANGED <<rules, added, nodes, output, fail, queue, current, todo,
                   child, climb>>

BuildNext ==
    \/ Insert \/ InsertDone \/ SeedDone
    \/ \E b \in Bytes : Seed(b) \/ NextChild(b)
    \/ Dequeue \/ Climb \/ LinkChild \/ Return

-----------------------------------------------------------------------------
(* Properties.                                                             *)

\* Every variable has its type; no node is ever twice in the queue, and no
\* link is read before it is set.
BuildTypeOK ==
    /\ pc \in {"insert", "seed", "walk", "climb", "built"}
    /\ rules \in Policies
    /\ added \in 0 .. Len(rules)
    /\ nodes \subseteq Seq(Bytes) /\ Root \in nodes
    /\ output \in [nodes -> 0 .. Len(rules)]
    /\ DOMAIN fail \subseteq nodes \ {Root}
    /\ \A n \in DOMAIN fail : fail[n] \in nodes
    /\ \A i, j \in DOMAIN queue : queue[i] = queue[j] => i = j
    /\ current \in nodes /\ child \in nodes /\ climb \in nodes
    /\ todo \subseteq Bytes
    /\ pc = "climb" => climb = Root \/ climb \in DOMAIN fail

Texts == [i \in DOMAIN rules |-> Normalize(rules[i])]

\* From the moment it is set, in whatever order the children are visited,
\* the link of a node is its longest proper suffix in the trie; in the end
\* every node but the root has one.
LinksAreLongest ==
    /\ \A n \in DOMAIN fail : fail[n] = FailLink(nodes, n)
    /\ pc = "built" => DOMAIN fail = nodes \ {Root}

\* The automaton is that of the theory.  Its links are the longest ones.  A
\* node reports a rule if and only if the text of a rule ends there, and
\* then the one with the longest text, in whatever order the children were
\* visited: overlapping rules hide each other only that way.  The root, where
\* the scanner is when no rule has begun to match, reports the last pattern
\* that is not empty but whose text is, such as a comment: NewRules looks for
\* the empty pattern before it normalises.
AutomatonIsRight ==
    /\ LinksAreLongest
    /\ pc = "built" =>
          /\ nodes = NodesOf(Texts)
          /\ \A n \in nodes \ {Root} : output[n] = RuleAt(Texts, n)
          /\ LET silent == {i \in DOMAIN rules :
                               rules[i] # <<>> /\ Texts[i] = <<>>}
             IN  IF silent = {} THEN output[Root] = None
                 ELSE /\ output[Root] \in silent
                      /\ \A i \in silent : i <= output[Root]
=============================================================================
