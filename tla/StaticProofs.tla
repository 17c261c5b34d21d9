---------------------------- MODULE StaticProofs ----------------------------
(***************************************************************************)
(* For every tree of files, every request and every deployment under way:  *)
(* what /static/ sends is a file, below the root unless a link moves after *)
(* the check; the test on the cleaned path refuses exactly the paths that  *)
(* climb out; and what is there is found.                                  *)
(***************************************************************************)
EXTENDS Static, SequenceTheorems, FiniteSetTheorems, WellFoundedInduction, TLAPS

-----------------------------------------------------------------------------
(* Recursion over the naturals.                                            *)

\* Every set of naturals with an element has a least one.
LEMMA Least ==
    ASSUME NEW T, T \subseteq Nat, T # {}
    PROVE  \E x \in T : \A y \in T : x <= y
<1>1. PICK x \in T : \A y \in T : <<y, x>> \notin OpToRel(<, Nat)
  BY WFMin, NatLessThanWellFounded
<1>2. \A y \in T : ~(y < x)
  BY <1>1 DEF OpToRel
<1>3. QED
  BY <1>2

\* f begins with v and goes on with the step G, up to n.
Runs(f, V, v, G, n) ==
    /\ f \in [0 .. n -> V]
    /\ f[0] = v
    /\ \A i \in 0 .. n : i # 0 => f[i] = G[<<i, f[i - 1]>>]

LEMMA RunMore ==
    ASSUME NEW V, NEW v \in V, NEW G \in [Nat \X V -> V], NEW n \in Nat,
           NEW f, Runs(f, V, v, G, n)
    PROVE  \E g : Runs(g, V, v, G, n + 1)
<1> DEFINE g == [i \in 0 .. n + 1 |-> IF i <= n THEN f[i] ELSE G[<<i, f[n]>>]]
<1>1. f[n] \in V /\ G[<<n + 1, f[n]>>] \in V
  BY DEF Runs
<1>2. \A i \in 0 .. n : g[i] = f[i] /\ f[i] \in V
  BY DEF Runs
<1>3. g[n + 1] = G[<<n + 1, f[n]>>]
  OBVIOUS
<1>4. \A i \in 0 .. n + 1 : i \in 0 .. n \/ i = n + 1
  OBVIOUS
<1>5. g \in [0 .. n + 1 -> V]
  <2>1. \A i \in 0 .. n + 1 : g[i] \in V
    BY <1>1, <1>2, <1>3, <1>4
  <2>2. g = [i \in 0 .. n + 1 |-> g[i]]
    OBVIOUS
  <2> HIDE DEF g
  <2>3. QED
    BY <2>1, <2>2
<1> HIDE DEF g
<1>6. g[0] = v
  BY <1>2 DEF Runs
<1>7. ASSUME NEW i \in 0 .. n + 1, i # 0
      PROVE  g[i] = G[<<i, g[i - 1]>>]
  <2>1. i - 1 \in 0 .. n /\ g[i - 1] = f[i - 1]
    BY <1>2, <1>7
  <2>2. CASE i \in 0 .. n
    BY <1>2, <1>7, <2>1, <2>2 DEF Runs
  <2>3. CASE i = n + 1
    BY <1>3, <2>1, <2>3
  <2>4. QED
    BY <1>4, <2>2, <2>3
<1>8. QED
  BY <1>5, <1>6, <1>7 DEF Runs

\* There is such a function for every n: there is no least n without.
LEMMA RunExists ==
    ASSUME NEW V, NEW v \in V, NEW G \in [Nat \X V -> V], NEW n \in Nat
    PROVE  \E f : Runs(f, V, v, G, n)
<1> DEFINE Bad == {m \in Nat : ~\E f : Runs(f, V, v, G, m)}
<1>1. SUFFICES ASSUME Bad # {} PROVE FALSE
  OBVIOUS
<1>2. PICK m \in Bad : \A j \in Bad : m <= j
  <2> HIDE DEF Bad
  <2>1. Bad \subseteq Nat
    BY DEF Bad
  <2>2. QED
    BY <1>1, <2>1, Least
<1>3. CASE m = 0
  <2> DEFINE f == [i \in 0 .. 0 |-> v]
  <2>1. f \in [0 .. 0 -> V] /\ f[0] = v
    OBVIOUS
  <2>2. Runs(f, V, v, G, 0)
    BY <2>1 DEF Runs
  <2> HIDE DEF f
  <2>3. QED
    BY <1>2, <1>3, <2>2
<1>4. CASE m # 0
  <2>1. m - 1 \in Nat /\ m - 1 \notin Bad
    BY <1>2, <1>4
  <2>2. PICK f : Runs(f, V, v, G, m - 1)
    BY <2>1
  <2>3. \E g : Runs(g, V, v, G, (m - 1) + 1)
    BY <2>1, <2>2, RunMore
  <2>4. (m - 1) + 1 = m
    BY <1>2
  <2>5. QED
    BY <1>2, <2>3, <2>4
<1>5. QED
  BY <1>3, <1>4

\* Two of them agree as far as both go.
LEMMA RunUnique ==
    ASSUME NEW V, NEW v, NEW G, NEW n \in Nat, NEW m \in Nat,
           NEW f, Runs(f, V, v, G, n), NEW g, Runs(g, V, v, G, m),
           NEW i \in 0 .. n, i \in 0 .. m
    PROVE  f[i] = g[i]
<1> DEFINE Bad == {j \in Nat : j <= n /\ j <= m /\ f[j] # g[j]}
<1>1. SUFFICES ASSUME Bad # {} PROVE FALSE
  OBVIOUS
<1>2. PICK j \in Bad : \A l \in Bad : j <= l
  <2> HIDE DEF Bad
  <2>1. Bad \subseteq Nat
    BY DEF Bad
  <2>2. QED
    BY <1>1, <2>1, Least
<1>3. j # 0
  BY <1>2 DEF Runs
<1>4. j - 1 \in Nat /\ f[j - 1] = g[j - 1]
  BY <1>2, <1>3
<1>5. j \in 0 .. n /\ j \in 0 .. m
  BY <1>2
<1>6. f[j] = G[<<j, f[j - 1]>>] /\ g[j] = G[<<j, g[j - 1]>>]
  BY <1>3, <1>5 DEF Runs
<1>7. QED
  BY <1>2, <1>4, <1>6

RunsOn(f, V, v, G) ==
    /\ f \in [Nat -> V]
    /\ f[0] = v
    /\ \A n \in Nat : n # 0 => f[n] = G[<<n, f[n - 1]>>]

\* So there is one for all naturals.
LEMMA Recursion ==
    ASSUME NEW V, NEW v \in V, NEW G \in [Nat \X V -> V]
    PROVE  \E f : RunsOn(f, V, v, G)
<1> DEFINE Run(n) == CHOOSE f : Runs(f, V, v, G, n)
           F == [n \in Nat |-> Run(n)[n]]
<1>1. \A n \in Nat : Runs(Run(n), V, v, G, n)
  BY RunExists
<1> HIDE DEF Run
<1>2. \A n \in Nat : F[n] = Run(n)[n] /\ F[n] \in V
  BY <1>1 DEF Runs
<1>3. F \in [Nat -> V]
  BY <1>2
<1> HIDE DEF F
<1>4. F[0] = v
  BY <1>1, <1>2 DEF Runs
<1>5. ASSUME NEW n \in Nat, n # 0
      PROVE  F[n] = G[<<n, F[n - 1]>>]
  <2>1. n - 1 \in Nat /\ n \in 0 .. n /\ n - 1 \in 0 .. n /\ n - 1 \in 0 .. n - 1
    BY <1>5
  <2>2. Run(n)[n] = G[<<n, Run(n)[n - 1]>>]
    BY <1>1, <1>5, <2>1 DEF Runs
  <2>3. Run(n)[n - 1] = Run(n - 1)[n - 1]
    BY <1>1, <2>1, RunUnique
  <2>4. QED
    BY <1>2, <2>1, <2>2, <2>3
<1>6. RunsOn(F, V, v, G)
  BY <1>3, <1>4, <1>5 DEF RunsOn
<1>7. QED
  BY <1>6

-----------------------------------------------------------------------------
(* Paths and the walk along them.                                          *)

\* What EvalSymlinks may return.
Errors == {"", "notExist", "notDir", "loop", "io"}
Results == [err : Errors, path : Paths]

LEMMA NodeIs ==
    ASSUME fs \in FileSystems, NEW p
    PROVE  /\ Kind(p) \in {"none", "file", "dir", "link"}
           /\ Kind(p) = "link" => Node(p).to \in Paths
<1>1. CASE p = <<>>
  BY <1>1 DEF Kind, Node, Dir
<1>2. CASE p # <<>> /\ p \in DOMAIN fs
  <2>1. Node(p) = fs[p]
    BY <1>2 DEF Node
  <2>2. QED
    BY <1>2, <2>1, StaticAssumption DEF Kind
<1>3. CASE p # <<>> /\ p \notin DOMAIN fs
  BY <1>3 DEF Kind, Node, Nothing
<1>4. QED
  BY <1>1, <1>2, <1>3

LEMMA KindOfTop == Kind(<<>>) = "dir"
  BY DEF Kind, Node, Dir

\* q is p and one more component.
OneMore(q, S, p, c) ==
    /\ q \in Seq(S) /\ Len(q) = Len(p) + 1 /\ q[Len(p) + 1] = c
    /\ \A i \in 1 .. Len(p) : q[i] = p[i]

LEMMA AppendIs ==
    ASSUME NEW p \in Paths, NEW c \in STRING
    PROVE  OneMore(Append(p, c), STRING, p, c)
<1>1. ASSUME NEW S, NEW r \in Seq(S), NEW d \in S, NEW q, q = Append(r, d)
      PROVE  OneMore(q, S, r, d)
  <2>1. q \in Seq(S) /\ Len(q) = Len(r) + 1
    BY <1>1
  <2>2. q[Len(r) + 1] = d
    BY <1>1
  <2>3. \A i \in 1 .. Len(r) : q[i] = r[i]
    BY <1>1
  <2>4. QED
    BY <2>1, <2>2, <2>3 DEF OneMore
<1>2. p \in Seq(STRING)
  BY DEF Paths
<1>3. QED
  BY <1>1, <1>2

\* The beginning and the rest of a path.
LEMMA CutIs ==
    ASSUME NEW p \in Paths, NEW k \in 0 .. Len(p)
    PROVE  /\ SubSeq(p, 1, k) \in Paths /\ Len(SubSeq(p, 1, k)) = k
           /\ \A i \in 1 .. k : SubSeq(p, 1, k)[i] = p[i]
           /\ SubSeq(p, k + 1, Len(p)) \in Paths
           /\ Len(SubSeq(p, k + 1, Len(p))) = Len(p) - k
<1>1. Len(p) \in Nat /\ \A i \in 1 .. Len(p) : p[i] \in STRING
  BY DEF Paths
<1>2. PICK q : q = SubSeq(p, 1, k)
  OBVIOUS
<1>3. PICK r : r = SubSeq(p, k + 1, Len(p))
  OBVIOUS
<1>4. q \in Paths /\ Len(q) = k /\ \A i \in 1 .. k : q[i] = p[i]
  <2>1. \A i \in 1 .. k : p[i] \in STRING
    BY <1>1
  <2>2. /\ q \in Seq(STRING) /\ Len(q) = (IF 1 <= k THEN k - 1 + 1 ELSE 0)
        /\ \A i \in 1 .. k - 1 + 1 : q[i] = p[1 + i - 1]
    BY <1>1, <1>2, <2>1, SubSeqProperties
  <2>3. QED
    BY <1>1, <2>2 DEF Paths
<1>5. r \in Paths /\ Len(r) = Len(p) - k
  <2>1. \A i \in k + 1 .. Len(p) : p[i] \in STRING
    BY <1>1
  <2>2. /\ r \in Seq(STRING)
        /\ Len(r) = (IF k + 1 <= Len(p) THEN Len(p) - (k + 1) + 1 ELSE 0)
    BY <1>1, <1>3, <2>1, SubSeqProperties
  <2>3. QED
    BY <1>1, <2>2 DEF Paths
<1>6. QED
  BY <1>2, <1>3, <1>4, <1>5

\* The first place where a path stops.
LEMMA StopIs ==
    ASSUME NEW p \in Paths, Stops(p) # {}
    PROVE  /\ Min(Stops(p)) \in 1 .. Len(p)
           /\ Kind(SubSeq(p, 1, Min(Stops(p)))) # "dir"
           /\ \A j \in 1 .. Min(Stops(p)) - 1 : Kind(SubSeq(p, 1, j)) = "dir"
<1>1. Len(p) \in Nat
  BY DEF Paths
<1>2. Stops(p) \subseteq Nat
  BY <1>1 DEF Stops
<1>3. \E x \in Stops(p) : \A y \in Stops(p) : x <= y
  BY <1>2, Least
<1>4. Min(Stops(p)) \in Stops(p) /\ \A y \in Stops(p) : Min(Stops(p)) <= y
  BY <1>3 DEF Min
<1>5. PICK k : k = Min(Stops(p))
  OBVIOUS
<1>6. k \in 1 .. Len(p) /\ Kind(SubSeq(p, 1, k)) # "dir"
  BY <1>4, <1>5 DEF Stops
<1>7. ASSUME NEW j \in 1 .. k - 1
      PROVE  Kind(SubSeq(p, 1, j)) = "dir"
  <2>1. j \in 1 .. Len(p) /\ ~(k <= j)
    BY <1>1, <1>6
  <2>2. j \notin Stops(p)
    BY <1>4, <1>5, <2>1
  <2>3. QED
    BY <2>1, <2>2 DEF Stops
<1>8. QED
  BY <1>5, <1>6, <1>7

\* One round of the walk, if w is the walk with a link less.
Round(w, links, p) ==
    LET k    == Min(Stops(p))
        at   == SubSeq(p, 1, k)
        rest == SubSeq(p, k + 1, Len(p))
    IN  IF Stops(p) = {} THEN Found(p)
        ELSE IF Kind(at) = "none" THEN Failed("notExist")
        ELSE IF Kind(at) = "file"
        THEN IF rest = <<>> THEN Found(p) ELSE Failed("notDir")
        ELSE IF links = 0 THEN Failed("loop")
        ELSE w[Node(at).to \o rest]

LEMMA ResultIs ==
    /\ \A p \in Paths : Found(p) \in Results /\ Found(p).err = "" /\ Found(p).path = p
    /\ \A e \in Errors : /\ Failed(e) \in Results /\ Failed(e).err = e
                         /\ Failed(e).path = <<>>
<1>1. <<>> \in Paths
  BY DEF Paths
<1>2. QED
  BY <1>1 DEF Found, Failed, Results, Errors

LEMMA ErrorNames ==
    {"notExist", "notDir", "loop", "io"} \subseteq Errors /\ "" \in Errors
  BY DEF Errors

\* Where a link leads, with the rest of the path.
LEMMA LinkLeads ==
    ASSUME fs \in FileSystems, NEW p \in Paths, Stops(p) # {},
           Kind(SubSeq(p, 1, Min(Stops(p)))) = "link"
    PROVE  Node(SubSeq(p, 1, Min(Stops(p)))).to
              \o SubSeq(p, Min(Stops(p)) + 1, Len(p)) \in Paths
<1>1. PICK k : k = Min(Stops(p))
  OBVIOUS
<1>2. Len(p) \in Nat
  BY DEF Paths
<1>3. k \in 0 .. Len(p)
  BY <1>1, <1>2, StopIs
<1>4. SubSeq(p, k + 1, Len(p)) \in Paths
  BY <1>3, CutIs
<1>5. Node(SubSeq(p, 1, k)).to \in Paths
  BY <1>1, NodeIs
<1>6. QED
  BY <1>1, <1>4, <1>5, ConcatProperties DEF Paths

LEMMA RoundIs ==
    ASSUME fs \in FileSystems, NEW p \in Paths, NEW links \in Nat, NEW w,
           links # 0 => w \in [Paths -> Results]
    PROVE  Round(w, links, p) \in Results
<1> DEFINE at == SubSeq(p, 1, Min(Stops(p)))
           rest == SubSeq(p, Min(Stops(p)) + 1, Len(p))
<1>1. \/ Round(w, links, p) = Found(p)
      \/ \E e \in {"notExist", "notDir", "loop"} : Round(w, links, p) = Failed(e)
      \/ /\ Stops(p) # {} /\ Kind(at) \notin {"none", "file"} /\ links # 0
         /\ Round(w, links, p) = w[Node(at).to \o rest]
  <2> HIDE DEF at, rest
  <2>1. QED
    BY DEF Round, at, rest
<1>2. CASE /\ Stops(p) # {} /\ Kind(at) \notin {"none", "file"} /\ links # 0
           /\ Round(w, links, p) = w[Node(at).to \o rest]
  <2>1. Kind(at) # "dir"
    BY <1>2, StopIs
  <2>2. Kind(at) = "link"
    BY <1>2, <2>1, NodeIs
  <2>3. Node(at).to \o rest \in Paths
    BY <1>2, <2>2, LinkLeads
  <2> HIDE DEF at, rest
  <2>4. QED
    BY <1>2, <2>3
<1>3. QED
  BY <1>1, <1>2, ResultIs, ErrorNames

\* The walk is what its definition says, whatever the number of links.
LEMMA WalkIs ==
    ASSUME fs \in FileSystems
    PROVE  /\ Walk \in [Nat -> [Paths -> Results]]
           /\ \A links \in Nat, p \in Paths :
                 Walk[links][p] = Round(Walk[links - 1], links, p)
<1> DEFINE V == [Paths -> Results]
           Turn(w, links) == [p \in Paths |-> Round(w, links, p)]
           G == [x \in Nat \X V |-> Turn(x[2], x[1])]
           Eq(f) == f = [links \in Nat |-> Turn(f[links - 1], links)]
<1>1. \A w \in V, links \in Nat : Turn(w, links) \in V
  BY RoundIs
<1>2. \A w : Turn(w, 0) \in V
  BY RoundIs
<1>3. \A u, w : Turn(u, 0) = Turn(w, 0)
  <2>1. \A u, w, p : Round(u, 0, p) = Round(w, 0, p)
    BY DEF Round
  <2>2. QED
    BY <2>1
<1> HIDE DEF Turn, V
<1>4. G \in [Nat \X V -> V]
  BY <1>1
<1>5. \A n \in Nat, w \in V : G[<<n, w>>] = Turn(w, n)
  OBVIOUS
<1> HIDE DEF G
<1>6. PICK f \in [Nat -> V] :
         /\ f[0] = Turn(0, 0)
         /\ \A n \in Nat : n # 0 => f[n] = G[<<n, f[n - 1]>>]
  <2>1. PICK v : v = Turn(0, 0)
    OBVIOUS
  <2>2. v \in V
    BY <1>2, <2>1
  <2>3. PICK f : RunsOn(f, V, v, G)
    BY <1>4, <2>2, Recursion
  <2>4. QED
    BY <2>1, <2>3 DEF RunsOn
<1>7. ASSUME NEW n \in Nat
      PROVE  f[n] = Turn(f[n - 1], n)
  <2>1. CASE n = 0
    BY <1>3, <1>6, <2>1
  <2>2. CASE n # 0
    <3>1. n - 1 \in Nat
      BY <2>2
    <3>2. f[n - 1] \in V
      BY <1>6, <3>1
    <3>3. QED
      BY <1>5, <1>6, <2>2, <3>2
  <2>3. QED
    BY <2>1, <2>2
<1>8. Eq(f)
  <2>1. f = [n \in Nat |-> f[n]]
    OBVIOUS
  <2>2. QED
    BY <1>7, <2>1
<1>9. Walk = CHOOSE w : Eq(w)
  BY DEF Walk, Turn, Round
<1>10. Eq(Walk)
  BY <1>8, <1>9
<1>11. \A n \in Nat : Walk[n] = Turn(Walk[n - 1], n)
  BY <1>10
<1>12. Walk \in [Nat -> V]
  <2> DEFINE Bad == {n \in Nat : Walk[n] \notin V}
  <2>1. Bad = {}
    <3>1. SUFFICES ASSUME Bad # {} PROVE FALSE
      OBVIOUS
    <3>2. PICK n \in Bad : \A j \in Bad : n <= j
      <4> HIDE DEF Bad
      <4>1. Bad \subseteq Nat
        BY DEF Bad
      <4>2. QED
        BY <3>1, <4>1, Least
    <3>3. CASE n = 0
      BY <1>2, <1>11, <3>2, <3>3
    <3>4. CASE n # 0
      <4>1. n - 1 \in Nat /\ Walk[n - 1] \in V
        BY <3>2, <3>4
      <4>2. QED
        BY <1>1, <1>11, <3>2, <4>1
    <3>5. QED
      BY <3>3, <3>4
  <2>2. \A n \in Nat : Walk[n] \in V
    BY <2>1
  <2>3. Walk = [n \in Nat |-> Walk[n]]
    BY <1>10
  <2>4. QED
    BY <2>2, <2>3
<1>13. \A n \in Nat, p \in Paths : Walk[n][p] = Round(Walk[n - 1], n, p)
  BY <1>11 DEF Turn
<1>14. QED
  BY <1>12, <1>13 DEF V

LEMMA Whole == ASSUME NEW p \in Paths PROVE SubSeq(p, 1, Len(p)) = p
<1>1. Len(p) \in Nat
  BY DEF Paths
<1>2. PICK q : q = SubSeq(p, 1, Len(p))
  OBVIOUS
<1>3. Len(p) \in 0 .. Len(p)
  BY <1>1
<1>4. q \in Paths /\ Len(q) = Len(p) /\ \A i \in 1 .. Len(p) : q[i] = p[i]
  BY <1>2, <1>3, CutIs
<1>5. q = p
  BY <1>4, SeqEqual DEF Paths
<1>6. QED
  BY <1>2, <1>5

\* No link on the way to p.
Straight(p) == \A k \in 1 .. Len(p) : Kind(SubSeq(p, 1, k)) # "link"

\* There is a file or directory at p, and the way to it has no link.
Real(p) ==
    \A k \in 1 .. Len(p) :
        \/ Kind(SubSeq(p, 1, k)) = "dir"
        \/ k = Len(p) /\ Kind(SubSeq(p, 1, k)) = "file"

LEMMA RealIs ==
    ASSUME NEW p \in Paths, Real(p)
    PROVE  Straight(p) /\ Kind(p) \in {"dir", "file"}
<1>1. Straight(p)
  BY DEF Real, Straight
<1>2. CASE p = <<>>
  BY <1>1, <1>2, KindOfTop
<1>3. CASE p # <<>>
  <2>1. Len(p) \in 1 .. Len(p)
    BY <1>3, EmptySeq DEF Paths
  <2>2. Kind(SubSeq(p, 1, Len(p))) \in {"dir", "file"}
    BY <2>1 DEF Real
  <2>3. QED
    BY <1>1, <2>2, Whole
<1>4. QED
  BY <1>2, <1>3

\* Without links a path leads to itself or nowhere.
LEMMA StraightRound ==
    ASSUME fs \in FileSystems, NEW p \in Paths, Straight(p), NEW w, NEW links
    PROVE  \/ Round(w, links, p) = Found(p) /\ Real(p)
           \/ \E e \in {"notExist", "notDir"} :
                 Round(w, links, p) = Failed(e) /\ ~Real(p)
<1>0. Len(p) \in Nat
  BY DEF Paths
<1>1. CASE Stops(p) = {}
  <2>1. Real(p)
    BY <1>1 DEF Stops, Real
  <2>2. QED
    BY <1>1, <2>1 DEF Round
<1>2. CASE Stops(p) # {}
  <2>1. PICK k : k = Min(Stops(p))
    OBVIOUS
  <2>2. PICK at : at = SubSeq(p, 1, k)
    OBVIOUS
  <2>3. PICK rest : rest = SubSeq(p, k + 1, Len(p))
    OBVIOUS
  <2>4. /\ k \in 1 .. Len(p) /\ Kind(at) # "dir"
        /\ \A j \in 1 .. k - 1 : Kind(SubSeq(p, 1, j)) = "dir"
    BY <1>2, <2>1, <2>2, StopIs
  <2>5. Kind(at) # "link"
    BY <2>2, <2>4 DEF Straight
  <2>6. Kind(at) \in {"none", "file"}
    BY <2>4, <2>5, NodeIs
  <2>7. Round(w, links, p) = IF Kind(at) = "none" THEN Failed("notExist")
                             ELSE IF rest = <<>> THEN Found(p) ELSE Failed("notDir")
    BY <1>2, <2>1, <2>2, <2>3, <2>6 DEF Round
  <2>8. rest = <<>> <=> k = Len(p)
    <3>1. k \in 0 .. Len(p)
      BY <1>0, <2>4
    <3>2. rest \in Paths /\ Len(rest) = Len(p) - k
      BY <2>3, <3>1, CutIs
    <3>3. rest = <<>> <=> Len(rest) = 0
      BY <3>2, EmptySeq DEF Paths
    <3>4. QED
      BY <1>0, <2>4, <3>2, <3>3
  <2>9. Real(p) <=> Kind(at) = "file" /\ k = Len(p)
    <3>1. ASSUME Kind(at) = "file" /\ k = Len(p) PROVE Real(p)
      <4>1. SUFFICES ASSUME NEW j \in 1 .. Len(p)
                     PROVE  \/ Kind(SubSeq(p, 1, j)) = "dir"
                            \/ j = Len(p) /\ Kind(SubSeq(p, 1, j)) = "file"
        BY DEF Real
      <4>2. j \in 1 .. k - 1 \/ j = k
        BY <1>0, <3>1
      <4>3. QED
        BY <2>2, <2>4, <3>1, <4>2
    <3>2. ASSUME Real(p) PROVE Kind(at) = "file" /\ k = Len(p)
      BY <2>2, <2>4, <3>2 DEF Real
    <3>3. QED
      BY <3>1, <3>2
  <2>10. QED
    BY <2>6, <2>7, <2>8, <2>9
<1>3. QED
  BY <1>1, <1>2

\* What the walk finds is real, whatever links lead to it.
LEMMA WalkFinds ==
    ASSUME fs \in FileSystems, NEW links \in Nat, NEW p \in Paths
    PROVE  \/ \E q \in Paths : Walk[links][p] = Found(q) /\ Real(q)
           \/ \E e \in {"notExist", "notDir", "loop"} : Walk[links][p] = Failed(e)
<1> DEFINE Good(l, r) ==
              \/ \E q \in Paths : Walk[l][r] = Found(q) /\ Real(q)
              \/ \E e \in {"notExist", "notDir", "loop"} : Walk[l][r] = Failed(e)
           Bad == {l \in Nat : \E r \in Paths : ~Good(l, r)}
<1>1. SUFFICES ASSUME Bad # {} PROVE FALSE
  OBVIOUS
<1> HIDE DEF Good
<1>2. PICK l \in Bad : \A j \in Bad : l <= j
  <2> HIDE DEF Bad
  <2>1. Bad \subseteq Nat
    BY DEF Bad
  <2>2. QED
    BY <1>1, <2>1, Least
<1>3. PICK r \in Paths : ~Good(l, r)
  BY <1>2
<1>4. l \in Nat /\ Walk[l][r] = Round(Walk[l - 1], l, r)
  BY <1>2, WalkIs
<1>5. ~Straight(r)
  <2>1. SUFFICES ASSUME Straight(r) PROVE Good(l, r)
    BY <1>3
  <2>2. \/ Round(Walk[l - 1], l, r) = Found(r) /\ Real(r)
        \/ \E e \in {"notExist", "notDir"} :
              Round(Walk[l - 1], l, r) = Failed(e) /\ ~Real(r)
    BY <2>1, StraightRound
  <2>3. QED
    BY <1>4, <2>2 DEF Good
<1>6. Stops(r) # {}
  BY <1>5 DEF Straight, Stops
<1> DEFINE at == SubSeq(r, 1, Min(Stops(r)))
           rest == SubSeq(r, Min(Stops(r)) + 1, Len(r))
<1>7. Kind(at) \in {"none", "file", "link"}
  BY <1>6, StopIs, NodeIs
<1>8. Kind(at) = "file" /\ rest = <<>> => Real(r)
  <2>1. SUFFICES ASSUME Kind(at) = "file", rest = <<>> PROVE Real(r)
    OBVIOUS
  <2>2. PICK k : k = Min(Stops(r))
    OBVIOUS
  <2>3. /\ k \in 1 .. Len(r) /\ Len(r) \in Nat
        /\ \A j \in 1 .. k - 1 : Kind(SubSeq(r, 1, j)) = "dir"
    BY <1>6, <2>2, StopIs DEF Paths
  <2>4. k = Len(r)
    <3>1. k \in 0 .. Len(r)
      BY <2>3
    <3>2. Len(rest) = Len(r) - k
      BY <2>2, <3>1, CutIs
    <3>3. Len(rest) = 0
      BY <2>1, EmptySeq
    <3> HIDE DEF rest
    <3>4. QED
      BY <2>3, <3>2, <3>3
  <2>5. \A j \in 1 .. Len(r) : j \in 1 .. k - 1 \/ j = k
    BY <2>3, <2>4
  <2>6. QED
    BY <2>1, <2>2, <2>3, <2>4, <2>5 DEF Real
<1>9. CASE Kind(at) = "link" /\ l # 0
  <2>1. PICK t : t = Node(at).to \o rest
    OBVIOUS
  <2>2. t \in Paths
    BY <1>6, <1>9, <2>1, LinkLeads
  <2>3. Walk[l][r] = Walk[l - 1][t]
    <3> HIDE DEF at, rest
    <3>1. QED
      BY <1>4, <1>6, <1>9, <2>1 DEF Round, at, rest
  <2>4. l - 1 \in Nat /\ l - 1 \notin Bad
    BY <1>2, <1>9
  <2>5. Good(l - 1, t)
    BY <2>2, <2>4
  <2>6. QED
    BY <1>3, <2>3, <2>5 DEF Good
<1>10. CASE ~(Kind(at) = "link" /\ l # 0)
  <2>1. \/ Walk[l][r] = Found(r) /\ Real(r)
        \/ \E e \in {"notExist", "notDir", "loop"} : Walk[l][r] = Failed(e)
    <3>1. Walk[l][r] = IF Kind(at) = "none" THEN Failed("notExist")
                       ELSE IF Kind(at) = "file"
                       THEN IF rest = <<>> THEN Found(r) ELSE Failed("notDir")
                       ELSE Failed("loop")
      <4> HIDE DEF at, rest
      <4>1. QED
        BY <1>4, <1>6, <1>7, <1>10 DEF Round, at, rest
    <3> HIDE DEF at, rest
    <3>2. QED
      BY <3>1, <1>7, <1>8
  <2>2. QED
    BY <1>3, <2>1 DEF Good
<1>11. QED
  BY <1>9, <1>10

\* EvalSymlinks, as the actions use it.
LEMMA EvalIs ==
    ASSUME fs \in FileSystems, NEW p \in Paths
    PROVE  /\ EvalSymlinks(p) \in Results
           /\ EvalSymlinks(p).err # "io"
           /\ EvalSymlinks(p) # IOError
           /\ EvalSymlinks(p).err = "" =>
                 /\ EvalSymlinks(p) = Found(EvalSymlinks(p).path)
                 /\ Real(EvalSymlinks(p).path)
                 /\ IsFile(EvalSymlinks(p)) <=> ~IsDir(EvalSymlinks(p))
<1>0. MaxLinks \in Nat
  BY StaticAssumption
<1>1. PICK r : r = EvalSymlinks(p)
  OBVIOUS
<1>2. CASE \E q \in Paths : r = Found(q) /\ Real(q)
  <2>1. PICK q \in Paths : r = Found(q) /\ Real(q)
    BY <1>2
  <2>2. r \in Results /\ r.err = "" /\ r.path = q
    BY <2>1, ResultIs
  <2>3. r # IOError
    BY <2>2, ResultIs, ErrorNames DEF IOError
  <2>4. IsFile(r) <=> ~IsDir(r)
    BY <2>1, <2>2, RealIs DEF IsFile, IsDir
  <2>5. QED
    BY <1>1, <2>1, <2>2, <2>3, <2>4
<1>3. CASE \E e \in {"notExist", "notDir", "loop"} : r = Failed(e)
  <2>1. PICK e \in {"notExist", "notDir", "loop"} : r = Failed(e)
    BY <1>3
  <2>2. r \in Results /\ r.err = e
    BY <2>1, ResultIs, ErrorNames
  <2>3. r # IOError
    BY <2>2, ResultIs, ErrorNames DEF IOError
  <2>4. QED
    BY <1>1, <2>2, <2>3
<1>4. QED
  BY <1>0, <1>1, <1>2, <1>3, WalkFinds DEF EvalSymlinks

\* What has no link on the way is found as it is or not at all ...
LEMMA EvalStraight ==
    ASSUME fs \in FileSystems, NEW p \in Paths, Straight(p)
    PROVE  EvalSymlinks(p).err = "" => EvalSymlinks(p) = Found(p)
<1>1. MaxLinks \in Nat
  BY StaticAssumption
<1>2. EvalSymlinks(p) = Round(Walk[MaxLinks - 1], MaxLinks, p)
  BY <1>1, WalkIs DEF EvalSymlinks
<1>3. \/ EvalSymlinks(p) = Found(p)
      \/ \E e \in {"notExist", "notDir"} : EvalSymlinks(p) = Failed(e)
  BY <1>2, StraightRound
<1>4. QED
  BY <1>3, ResultIs, ErrorNames

\* ... so what was found is found again.
LEMMA EvalReal ==
    ASSUME fs \in FileSystems, NEW p \in Paths, Real(p)
    PROVE  EvalSymlinks(p) = Found(p)
<1>1. MaxLinks \in Nat
  BY StaticAssumption
<1>2. EvalSymlinks(p) = Round(Walk[MaxLinks - 1], MaxLinks, p)
  BY <1>1, WalkIs DEF EvalSymlinks
<1>3. QED
  BY <1>2, StraightRound, RealIs

-----------------------------------------------------------------------------
(* The cleaned path.                                                       *)

LEMMA CleanStepIs ==
    ASSUME NEW done \in Paths, NEW c \in STRING
    PROVE  CleanStep(done, c) \in Paths
<1> DEFINE Drops == c \in {"", "."}
           Climbs == c = ".." /\ done # <<>> /\ Last(done) # ".."
<1>1. CASE Drops
  BY <1>1 DEF CleanStep
<1>2. CASE ~Drops /\ Climbs
  <2>1. Len(done) - 1 \in 0 .. Len(done)
    BY <1>2, EmptySeq DEF Paths
  <2>2. Front(done) \in Paths
    BY <2>1, CutIs DEF Front
  <2>3. CleanStep(done, c) = Front(done)
    BY <1>2 DEF CleanStep
  <2>4. QED
    BY <2>2, <2>3
<1>3. CASE ~Drops /\ ~Climbs
  <2>1. CleanStep(done, c) = Append(done, c)
    BY <1>3 DEF CleanStep
  <2>2. QED
    BY <2>1, AppendIs DEF OneMore, Paths
<1> HIDE DEF Drops, Climbs
<1>4. QED
  BY <1>1, <1>2, <1>3

\* Clean takes one component at a time.
LEMMA CleanIs ==
    ASSUME NEW p \in Paths
    PROVE  /\ CleanTo(p) \in [0 .. Len(p) -> Paths]
           /\ CleanTo(p)[0] = <<>>
           /\ \A k \in 1 .. Len(p) :
                 CleanTo(p)[k] = CleanStep(CleanTo(p)[k - 1], p[k])
<1> DEFINE D == 0 .. Len(p)
           G == [x \in Nat \X Paths |->
                    IF x[1] \in 1 .. Len(p) THEN CleanStep(x[2], p[x[1]]) ELSE <<>>]
           Eq(f) == f = [k \in D |-> IF k = 0 THEN <<>>
                                     ELSE CleanStep(f[k - 1], p[k])]
<1>1. Len(p) \in Nat /\ <<>> \in Paths /\ \A k \in 1 .. Len(p) : p[k] \in STRING
  BY DEF Paths
<1>2. G \in [Nat \X Paths -> Paths]
  <2>1. \A n \in 1 .. Len(p), d \in Paths : CleanStep(d, p[n]) \in Paths
    BY <1>1, CleanStepIs
  <2>2. QED
    BY <1>1, <2>1
<1>3. \A n \in 1 .. Len(p), d \in Paths : G[<<n, d>>] = CleanStep(d, p[n])
  OBVIOUS
<1> HIDE DEF G
<1>4. PICK f : RunsOn(f, Paths, <<>>, G)
  BY <1>1, <1>2, Recursion
<1> DEFINE g == [k \in D |-> f[k]]
<1>5. \A k \in D : g[k] = f[k] /\ f[k] \in Paths
  BY <1>4 DEF RunsOn
<1>6. ASSUME NEW k \in D, k # 0
      PROVE  g[k] = CleanStep(g[k - 1], p[k])
  <2>1. k \in 1 .. Len(p) /\ k - 1 \in D /\ k \in Nat
    BY <1>1, <1>6
  <2>2. f[k] = G[<<k, f[k - 1]>>] /\ f[k - 1] \in Paths
    BY <1>4, <1>5, <1>6, <2>1 DEF RunsOn
  <2>3. QED
    BY <1>3, <1>5, <2>1, <2>2
<1>7. g[0] = <<>> /\ 0 \in D
  BY <1>1, <1>4 DEF RunsOn
<1>8. Eq(g)
  <2>1. g = [k \in D |-> g[k]]
    OBVIOUS
  <2> HIDE DEF g, D
  <2>2. QED
    BY <1>6, <1>7, <2>1
<1>9. CleanTo(p) = CHOOSE h : Eq(h)
  BY DEF CleanTo
<1> HIDE DEF g
<1>10. Eq(CleanTo(p))
  <2> HIDE DEF Eq
  <2>1. QED
    BY <1>8, <1>9
<1> DEFINE h == CleanTo(p)
<1>11. h = [k \in D |-> IF k = 0 THEN <<>> ELSE CleanStep(h[k - 1], p[k])]
  BY <1>10
<1> HIDE DEF h, D
<1>12. h[0] = <<>> /\ \A k \in D : k # 0 => h[k] = CleanStep(h[k - 1], p[k])
  BY <1>7, <1>11
<1>13. \A k \in D : h[k] \in Paths
  <2> DEFINE Bad == {k \in Nat : k \in D /\ h[k] \notin Paths}
  <2>1. SUFFICES ASSUME Bad # {} PROVE FALSE
    BY DEF D
  <2>2. PICK k \in Bad : \A j \in Bad : k <= j
    <3> HIDE DEF Bad
    <3>1. Bad \subseteq Nat
      BY DEF Bad
    <3>2. QED
      BY <2>1, <3>1, Least
  <2>3. k # 0
    BY <1>1, <1>12, <2>2
  <2>4. k - 1 \in Nat /\ k - 1 \in D /\ h[k - 1] \in Paths
    BY <1>1, <2>2, <2>3 DEF D
  <2>5. p[k] \in STRING
    BY <1>1, <2>2, <2>3 DEF D
  <2>6. QED
    BY <1>12, <2>2, <2>3, <2>4, <2>5, CleanStepIs
<1>14. h \in [D -> Paths]
  <2>1. h = [k \in D |-> h[k]]
    BY <1>11
  <2>2. QED
    BY <1>13, <2>1
<1>15. \A k \in 1 .. Len(p) : h[k] = CleanStep(h[k - 1], p[k])
  BY <1>1, <1>12 DEF D
<1>16. QED
  BY <1>12, <1>14, <1>15 DEF h, D

LEMMA CleanPath == ASSUME NEW p \in Paths PROVE Clean(p) \in Paths
<1>1. Len(p) \in 0 .. Len(p)
  BY DEF Paths
<1>2. QED
  BY <1>1, CleanIs DEF Clean

\* Counting the members of S up to k.
LEMMA CountMore ==
    ASSUME NEW S, NEW k \in Nat
    PROVE  /\ Cardinality({i \in 1 .. k : i \in S}) \in Nat
           /\ Cardinality({i \in 1 .. k + 1 : i \in S})
                 = Cardinality({i \in 1 .. k : i \in S})
                      + (IF k + 1 \in S THEN 1 ELSE 0)
<1>1. PICK A : A = {i \in 1 .. k : i \in S}
  OBVIOUS
<1>2. PICK B : B = {i \in 1 .. k + 1 : i \in S}
  OBVIOUS
<1>3. IsFiniteSet(A) /\ k + 1 \notin A
  <2>1. IsFiniteSet(1 .. k)
    BY FS_Interval
  <2>2. A \subseteq 1 .. k
    BY <1>1
  <2>3. QED
    BY <1>1, <2>1, <2>2, FS_Subset
<1>4. Cardinality(A) \in Nat
  BY <1>3, FS_CardinalityType
<1>5. CASE k + 1 \in S
  <2>1. B = A \cup {k + 1}
    BY <1>1, <1>2, <1>5
  <2>2. Cardinality(A \cup {k + 1}) = Cardinality(A) + 1
    BY <1>3, FS_AddElement
  <2>3. QED
    BY <1>1, <1>2, <1>4, <1>5, <2>1, <2>2
<1>6. CASE k + 1 \notin S
  <2>1. \A i \in 1 .. k + 1 : i \in 1 .. k \/ i = k + 1
    OBVIOUS
  <2>2. \A i \in 1 .. k : i \in 1 .. k + 1
    OBVIOUS
  <2>3. B = A
    BY <1>1, <1>2, <1>6, <2>1, <2>2
  <2>4. QED
    BY <1>1, <1>2, <1>4, <1>6, <2>3
<1>7. QED
  BY <1>5, <1>6

Dots == {"", ".", ".."}
Ups(p, k) == Cardinality({i \in 1 .. k : p[i] = ".."})
Downs(p, k) == Cardinality({i \in 1 .. k : p[i] \notin Dots})

LEMMA UpsMore ==
    ASSUME NEW p, NEW k \in Nat
    PROVE  /\ Ups(p, k) \in Nat /\ Downs(p, k) \in Nat
           /\ Ups(p, k + 1) = Ups(p, k) + (IF p[k + 1] = ".." THEN 1 ELSE 0)
           /\ Downs(p, k + 1)
                 = Downs(p, k) + (IF p[k + 1] \notin Dots THEN 1 ELSE 0)
<1>1. PICK S : S = {i \in 1 .. k + 1 : p[i] = ".."}
  OBVIOUS
<1>2. PICK T : T = {i \in 1 .. k + 1 : p[i] \notin Dots}
  OBVIOUS
<1>3. /\ \A i \in 1 .. k : i \in 1 .. k + 1
      /\ k + 1 \in 1 .. k + 1
  OBVIOUS
<1>4. /\ {i \in 1 .. k : p[i] = ".."} = {i \in 1 .. k : i \in S}
      /\ {i \in 1 .. k + 1 : p[i] = ".."} = {i \in 1 .. k + 1 : i \in S}
      /\ p[k + 1] = ".." <=> k + 1 \in S
  BY <1>1, <1>3
<1>5. /\ {i \in 1 .. k : p[i] \notin Dots} = {i \in 1 .. k : i \in T}
      /\ {i \in 1 .. k + 1 : p[i] \notin Dots} = {i \in 1 .. k + 1 : i \in T}
      /\ p[k + 1] \notin Dots <=> k + 1 \in T
  BY <1>2, <1>3
<1>6. Ups(p, k) \in Nat /\ Ups(p, k + 1) = Ups(p, k) + (IF k + 1 \in S THEN 1 ELSE 0)
  BY <1>4, CountMore DEF Ups
<1>7. /\ Downs(p, k) \in Nat
      /\ Downs(p, k + 1) = Downs(p, k) + (IF k + 1 \in T THEN 1 ELSE 0)
  BY <1>5, CountMore DEF Downs
<1>8. QED
  BY <1>4, <1>5, <1>6, <1>7

LEMMA UpsZero == ASSUME NEW p PROVE Ups(p, 0) = 0 /\ Downs(p, 0) = 0
<1>1. {i \in 1 .. 0 : p[i] = ".."} = {} /\ {i \in 1 .. 0 : p[i] \notin Dots} = {}
  OBVIOUS
<1>2. QED
  BY <1>1, FS_EmptySet DEF Ups, Downs

\* A cleaned path climbs u times and goes down afterwards.
Shape(d, u) ==
    /\ u \in 0 .. Len(d)
    /\ \A i \in 1 .. u : d[i] = ".."
    /\ \A i \in u + 1 .. Len(d) : d[i] \notin Dots

LEMMA ShapeStep ==
    ASSUME NEW d \in Paths, NEW u, Shape(d, u), NEW c \in STRING
    PROVE  LET e == CleanStep(d, c)
           IN  \/ c \in {"", "."} /\ e = d
               \/ c = ".." /\ u = Len(d) /\ Shape(e, u + 1) /\ Len(e) = Len(d) + 1
               \/ c = ".." /\ u < Len(d) /\ Shape(e, u) /\ Len(e) = Len(d) - 1
               \/ c \notin Dots /\ Shape(e, u) /\ Len(e) = Len(d) + 1
<1>0. Len(d) \in Nat /\ u \in Nat /\ u <= Len(d)
  BY DEF Shape, Paths
<1>1. CASE c \in {"", "."}
  BY <1>1 DEF CleanStep
<1>2. CASE c = ".." /\ u < Len(d)
  <2>1. d # <<>>
    BY <1>0, <1>2, EmptySeq
  <2>2. Last(d) # ".."
    <3>1. Len(d) \in u + 1 .. Len(d)
      BY <1>0, <1>2
    <3>2. d[Len(d)] \notin Dots
      BY <3>1 DEF Shape
    <3>3. QED
      BY <3>2 DEF Last, Dots
  <2>3. CleanStep(d, c) = SubSeq(d, 1, Len(d) - 1)
    BY <1>2, <2>1, <2>2 DEF CleanStep, Front
  <2>4. PICK e : e = SubSeq(d, 1, Len(d) - 1)
    OBVIOUS
  <2>5. Len(e) = Len(d) - 1 /\ \A i \in 1 .. Len(d) - 1 : e[i] = d[i]
    <3>1. Len(d) - 1 \in 0 .. Len(d)
      BY <1>0, <1>2
    <3>2. QED
      BY <2>4, <3>1, CutIs
  <2>6. Shape(e, u)
    <3>1. u \in 0 .. Len(e)
      BY <1>0, <1>2, <2>5
    <3>2. \A i \in 1 .. u : i \in 1 .. Len(d) - 1
      BY <1>0, <1>2
    <3>3. \A i \in u + 1 .. Len(e) : i \in 1 .. Len(d) - 1 /\ i \in u + 1 .. Len(d)
      BY <1>0, <2>5
    <3>4. QED
      BY <2>5, <3>1, <3>2, <3>3 DEF Shape
  <2>7. QED
    BY <1>2, <2>3, <2>4, <2>5, <2>6
<1>3. ASSUME \/ c = ".." /\ u = Len(d)
             \/ c \notin Dots
      PROVE  LET e == CleanStep(d, c)
             IN  /\ Len(e) = Len(d) + 1 /\ e[Len(d) + 1] = c
                 /\ \A i \in 1 .. Len(d) : e[i] = d[i]
  <2>1. c = ".." /\ d # <<>> => Last(d) = ".."
    <3>1. SUFFICES ASSUME c = "..", d # <<>> PROVE d[Len(d)] = ".."
      BY DEF Last
    <3>2. u = Len(d) /\ Len(d) # 0
      BY <1>3, <3>1, EmptySeq DEF Dots, Paths
    <3>3. Len(d) \in 1 .. u
      BY <1>0, <3>2
    <3>4. QED
      BY <3>3 DEF Shape
  <2>2. CleanStep(d, c) = Append(d, c)
    BY <1>3, <2>1 DEF CleanStep, Dots
  <2>3. PICK e : e = Append(d, c)
    OBVIOUS
  <2>4. /\ Len(e) = Len(d) + 1 /\ e[Len(d) + 1] = c
        /\ \A i \in 1 .. Len(d) : e[i] = d[i]
    <3>1. OneMore(e, STRING, d, c)
      BY <2>3, AppendIs
    <3>2. QED
      BY <3>1 DEF OneMore
  <2>5. QED
    BY <2>2, <2>3, <2>4
<1>4. CASE c = ".." /\ u = Len(d)
  <2>1. PICK e : e = CleanStep(d, c)
    OBVIOUS
  <2>2. /\ Len(e) = Len(d) + 1 /\ e[Len(d) + 1] = ".."
        /\ \A i \in 1 .. Len(d) : e[i] = d[i]
    BY <1>3, <1>4, <2>1
  <2>3. \A i \in 1 .. u + 1 : i \in 1 .. Len(d) \/ i = Len(d) + 1
    BY <1>0, <1>4
  <2>4. \A i \in 1 .. u + 1 : e[i] = ".."
    BY <1>4, <2>2, <2>3 DEF Shape
  <2>5. u + 1 \in 0 .. Len(e) /\ u + 1 + 1 .. Len(e) = {}
    BY <1>0, <1>4, <2>2
  <2>6. Shape(e, u + 1)
    BY <2>4, <2>5 DEF Shape
  <2>7. QED
    BY <1>4, <2>1, <2>2, <2>6
<1>5. CASE c \notin Dots
  <2>1. PICK e : e = CleanStep(d, c)
    OBVIOUS
  <2>2. /\ Len(e) = Len(d) + 1 /\ e[Len(d) + 1] = c
        /\ \A i \in 1 .. Len(d) : e[i] = d[i]
    BY <1>3, <1>5, <2>1
  <2>3. u \in 0 .. Len(e) /\ \A i \in 1 .. u : i \in 1 .. Len(d)
    BY <1>0, <2>2
  <2>4. \A i \in u + 1 .. Len(e) :
           (i \in 1 .. Len(d) /\ i \in u + 1 .. Len(d)) \/ i = Len(d) + 1
    BY <1>0, <2>2
  <2>5. Shape(e, u)
    BY <1>5, <2>2, <2>3, <2>4 DEF Shape
  <2>6. QED
    BY <1>5, <2>1, <2>2, <2>5
<1>6. c \in {"", "."} \/ c = ".." \/ c \notin Dots
  BY DEF Dots
<1>7. u < Len(d) \/ u = Len(d)
  BY <1>0
<1>8. QED
  BY <1>1, <1>2, <1>4, <1>5, <1>6, <1>7

Climbed(p, k) == \E j \in 1 .. k : Ups(p, j) > Downs(p, j)

\* After k components the cleaned path has gone down as often as it has
\* climbed, besides what is left of the k; it begins with ".." if and only if
\* some beginning of them leads above.
CleanedTo(p, k, d) ==
    \E u \in Nat : /\ Shape(d, u)
                   /\ Len(d) - 2 * u = Downs(p, k) - Ups(p, k)
                   /\ u > 0 <=> Climbed(p, k)

LEMMA CleanedStep ==
    ASSUME NEW p \in Paths, NEW k \in Nat, k + 1 \in 1 .. Len(p),
           NEW d \in Paths, CleanedTo(p, k, d)
    PROVE  CleanedTo(p, k + 1, CleanStep(d, p[k + 1]))
<1>1. PICK u \in Nat : /\ Shape(d, u)
                       /\ Len(d) - 2 * u = Downs(p, k) - Ups(p, k)
                       /\ u > 0 <=> Climbed(p, k)
  BY DEF CleanedTo
<1>2. PICK c : c = p[k + 1]
  OBVIOUS
<1>3. c \in STRING /\ Len(d) \in Nat
  BY <1>2 DEF Paths
<1>4. PICK e : e = CleanStep(d, c)
  OBVIOUS
<1>5. \/ c \in {"", "."} /\ e = d
      \/ c = ".." /\ u = Len(d) /\ Shape(e, u + 1) /\ Len(e) = Len(d) + 1
      \/ c = ".." /\ u < Len(d) /\ Shape(e, u) /\ Len(e) = Len(d) - 1
      \/ c \notin Dots /\ Shape(e, u) /\ Len(e) = Len(d) + 1
  BY <1>1, <1>3, <1>4, ShapeStep
<1>6. /\ Ups(p, k) \in Nat /\ Downs(p, k) \in Nat
      /\ Ups(p, k + 1) = Ups(p, k) + (IF c = ".." THEN 1 ELSE 0)
      /\ Downs(p, k + 1) = Downs(p, k) + (IF c \notin Dots THEN 1 ELSE 0)
  BY <1>2, UpsMore
<1>6a. /\ c = ".." => Ups(p, k + 1) = Ups(p, k) + 1
       /\ c # ".." => Ups(p, k + 1) = Ups(p, k)
       /\ c \in Dots => Downs(p, k + 1) = Downs(p, k)
       /\ c \notin Dots => Downs(p, k + 1) = Downs(p, k) + 1
  <2>1. \A n \in Nat : n + 0 = n
    OBVIOUS
  <2>2. QED
    BY <1>6, <2>1
<1>7. Climbed(p, k + 1) <=> Climbed(p, k) \/ Ups(p, k + 1) > Downs(p, k + 1)
  <2>1. \A j \in 1 .. k + 1 : j \in 1 .. k \/ j = k + 1
    OBVIOUS
  <2>2. (\A j \in 1 .. k : j \in 1 .. k + 1) /\ k + 1 \in 1 .. k + 1
    OBVIOUS
  <2>3. QED
    BY <2>1, <2>2 DEF Climbed
<1>8. ".." \in Dots /\ "" \in Dots /\ "." \in Dots /\ ".." \notin {"", "."}
  BY DEF Dots
<1>9. CASE c \in {"", "."} /\ e = d
  <2>1. Ups(p, k + 1) = Ups(p, k) /\ Downs(p, k + 1) = Downs(p, k)
    BY <1>6a, <1>8, <1>9
  <2>2. Ups(p, k) > Downs(p, k) => Climbed(p, k)
    BY <1>1, <1>3, <1>6
  <2>3. QED
    BY <1>1, <1>2, <1>4, <1>7, <1>9, <2>1, <2>2 DEF CleanedTo
<1>10. CASE c = ".." /\ u = Len(d) /\ Shape(e, u + 1) /\ Len(e) = Len(d) + 1
  <2>1. Ups(p, k + 1) = Ups(p, k) + 1 /\ Downs(p, k + 1) = Downs(p, k)
    BY <1>6a, <1>8, <1>10
  <2>2. Len(e) - 2 * (u + 1) = Downs(p, k + 1) - Ups(p, k + 1)
    BY <1>1, <1>3, <1>6, <1>10, <2>1
  <2>3. Ups(p, k + 1) > Downs(p, k + 1)
    BY <1>1, <1>3, <1>6, <1>10, <2>1
  <2>4. u + 1 > 0 /\ u + 1 \in Nat
    OBVIOUS
  <2>5. QED
    BY <1>2, <1>4, <1>7, <1>10, <2>2, <2>3, <2>4 DEF CleanedTo
<1>11. CASE c = ".." /\ u < Len(d) /\ Shape(e, u) /\ Len(e) = Len(d) - 1
  <2>1. Ups(p, k + 1) = Ups(p, k) + 1 /\ Downs(p, k + 1) = Downs(p, k)
    BY <1>6a, <1>8, <1>11
  <2>2. Len(e) - 2 * u = Downs(p, k + 1) - Ups(p, k + 1)
    BY <1>1, <1>3, <1>6, <1>11, <2>1
  <2>3. Ups(p, k + 1) > Downs(p, k + 1) => u > 0
    BY <1>1, <1>3, <1>6, <1>11, <2>1
  <2>4. QED
    BY <1>1, <1>2, <1>4, <1>7, <1>11, <2>2, <2>3 DEF CleanedTo
<1>12. CASE c \notin Dots /\ Shape(e, u) /\ Len(e) = Len(d) + 1
  <2>1. Ups(p, k + 1) = Ups(p, k) /\ Downs(p, k + 1) = Downs(p, k) + 1
    BY <1>6a, <1>8, <1>12
  <2>2. Len(e) - 2 * u = Downs(p, k + 1) - Ups(p, k + 1)
    BY <1>1, <1>3, <1>6, <1>12, <2>1
  <2>3. Ups(p, k + 1) > Downs(p, k + 1) => u > 0
    BY <1>1, <1>3, <1>6, <1>12, <2>1
  <2>4. QED
    BY <1>1, <1>2, <1>4, <1>7, <1>12, <2>2, <2>3 DEF CleanedTo
<1>13. QED
  BY <1>5, <1>9, <1>10, <1>11, <1>12

LEMMA CleanedAll ==
    ASSUME NEW p \in Paths, NEW k \in 0 .. Len(p)
    PROVE  CleanedTo(p, k, CleanTo(p)[k])
<1> DEFINE Bad == {n \in Nat : n \in 0 .. Len(p) /\ ~CleanedTo(p, n, CleanTo(p)[n])}
<1>0. Len(p) \in Nat
  BY DEF Paths
<1>1. SUFFICES ASSUME Bad # {} PROVE FALSE
  BY <1>0
<1>2. PICK n \in Bad : \A j \in Bad : n <= j
  <2> HIDE DEF Bad
  <2>1. Bad \subseteq Nat
    BY DEF Bad
  <2>2. QED
    BY <1>1, <2>1, Least
<1>3. CASE n = 0
  <2>1. Shape(<<>>, 0) /\ Len(<<>>) = 0
    BY EmptySeq DEF Shape
  <2>2. ~Climbed(p, 0) /\ Ups(p, 0) = 0 /\ Downs(p, 0) = 0
    BY UpsZero DEF Climbed
  <2>3. CleanedTo(p, 0, <<>>)
    BY <2>1, <2>2 DEF CleanedTo
  <2>4. QED
    BY <1>2, <1>3, <2>3, CleanIs
<1>4. CASE n # 0
  <2>1. PICK m : m = n - 1
    OBVIOUS
  <2>2. m \in Nat /\ m \in 0 .. Len(p) /\ n = m + 1 /\ n \in 1 .. Len(p)
    BY <1>0, <1>2, <1>4, <2>1
  <2>3. m \notin Bad
    BY <1>2, <2>1, <2>2
  <2>4. CleanedTo(p, m, CleanTo(p)[m])
    BY <2>2, <2>3
  <2>5. CleanTo(p)[m] \in Paths /\ CleanTo(p)[n] = CleanStep(CleanTo(p)[m], p[n])
    BY <2>1, <2>2, CleanIs
  <2>6. CleanedTo(p, m + 1, CleanStep(CleanTo(p)[m], p[m + 1]))
    BY <2>2, <2>4, <2>5, CleanedStep
  <2>7. QED
    BY <1>2, <2>2, <2>5, <2>6
<1>5. QED
  BY <1>3, <1>4

\* The cleaned path begins with ".." if and only if the path climbs out.
LEMMA CleanClimbs ==
    ASSUME NEW p \in Paths
    PROVE  (Clean(p) # <<>> => Clean(p)[1] # "..") <=> ~ClimbsOut(p)
<1>0. Len(p) \in Nat /\ Len(p) \in 0 .. Len(p)
  BY DEF Paths
<1>1. PICK d : d = Clean(p)
  OBVIOUS
<1>2. d \in Paths
  BY <1>1, CleanPath
<1>3. CleanedTo(p, Len(p), d)
  BY <1>0, <1>1, CleanedAll DEF Clean
<1>4. PICK u \in Nat : Shape(d, u) /\ (u > 0 <=> Climbed(p, Len(p)))
  BY <1>3 DEF CleanedTo
<1>5. Climbed(p, Len(p)) <=> ClimbsOut(p)
  BY DEF Climbed, ClimbsOut, Ups, Downs, Dots
<1>6. Len(d) \in Nat /\ (d = <<>> <=> Len(d) = 0)
  BY <1>2, EmptySeq DEF Paths
<1>7. CASE u > 0
  <2>1. 1 \in 1 .. u /\ Len(d) # 0
    BY <1>4, <1>6, <1>7 DEF Shape
  <2>2. d[1] = ".."
    BY <1>4, <2>1 DEF Shape
  <2>3. QED
    BY <1>1, <1>4, <1>5, <1>6, <1>7, <2>1, <2>2
<1>8. CASE ~(u > 0)
  <2>1. d # <<>> => 1 \in u + 1 .. Len(d)
    BY <1>6, <1>8
  <2>2. d # <<>> => d[1] \notin Dots
    BY <1>4, <2>1 DEF Shape
  <2>3. QED
    BY <1>1, <1>4, <1>5, <1>8, <2>2 DEF Dots
<1>9. QED
  BY <1>7, <1>8

-----------------------------------------------------------------------------
(* The inductive invariant.                                                *)

Named == EvalSymlinks(root.path \o Clean(Relative))
Index == EvalSymlinks(Append(Named.path, "index.html"))
Below(r) == IsPrefix(root.path, r.path)

InStatic == {"check", "resolve", "stat", "resolveIndex", "statIndex", "read"}
Labels == InStatic \cup {"boot", "idle", "index", "readIndex", "done"}
Codes == {0, 200, 400, 403, 404, 405, 500}

Types ==
    /\ pc \in Labels /\ dir \in Dirs /\ rq \in Requests /\ fs \in FileSystems
    /\ root \in Results /\ target \in Paths /\ body \in Paths
    /\ changes \in 0 .. MaxChanges /\ quiet \in BOOLEAN
    /\ relinked \in BOOLEAN
    /\ status \in Codes

\* Where a request can be.
Control ==
    /\ pc # "done" => status = 0 /\ body = <<>>
    /\ pc \in InStatic => IsStatic(rq.path) /\ rq.method = "GET"
    /\ pc \in InStatic \ {"check"} => IsSafeStaticPath(Relative) /\ root.err = ""
    /\ pc = "resolve" => target = root.path \o Clean(Relative)
    /\ pc \in {"index", "readIndex"} => rq.path = <<"">>
    /\ Served => (status = 400 <=> ~IsSafeStaticPath(Relative))

\* Between the checks and the read the path is below the root, and it has no
\* link, as long as none is made.
Way(label, t) ==
    label \in {"stat", "statIndex", "read"} => IsPrefix(root.path, t)
Clear(label, t) ==
    label \in {"stat", "statIndex", "read"} => Straight(t)
OnTheWay ==
    /\ Way(pc, target)
    /\ ~relinked => Clear(pc, target)
    /\ Served /\ status = 200 =>
          body # <<>> /\ (~relinked => IsPrefix(root.path, body))
    /\ body # <<>> => status = 200 /\ Kind(body) = "file"

\* The index page is the one of the directory found for the request.
AsksIndex == rq = [method |-> "GET", path |-> <<"">>]
IndexPage == EvalSymlinks(Append(IndexRoot.path, "index.html"))
PageFound == IndexRoot.err = "" /\ IsFile(IndexPage)
RootNow ==
    quiet =>
        /\ pc = "readIndex" =>
              IndexRoot.err = "" /\ target = Append(IndexRoot.path, "index.html")
        /\ pc = "done" /\ AsksIndex =>
              /\ status = 200 <=> PageFound
              /\ status = 200 => body = IndexPage.path

\* What is known of the file named while nothing changes.
Known(label, t) ==
    /\ label \in {"stat", "resolveIndex", "statIndex", "read"} =>
          Named.err = "" /\ Below(Named)
    /\ label = "stat" => t = Named.path
    /\ label \in {"resolveIndex", "statIndex"} => IsDir(Named)
    /\ label = "resolveIndex" => t = Append(Named.path, "index.html")
    /\ label = "statIndex" => Index.err = "" /\ Below(Index) /\ t = Index.path
    /\ label = "read" =>
          \/ IsFile(Named) /\ t = Named.path
          \/ IsDir(Named) /\ IsFile(Index) /\ Below(Index) /\ t = Index.path

\* What there is to be found.
There ==
    IF root.err # "" \/ Named.err # "" \/ ~Below(Named) THEN <<>>
    ELSE IF IsFile(Named) THEN Named.path
    ELSE IF IsFile(Index) /\ Below(Index) THEN Index.path
    ELSE <<>>
Undisturbed ==
    quiet => /\ Known(pc, target)
             /\ Served /\ status \notin {400, 0} =>
                   body = There /\ (status = 200 <=> There # <<>>)

StaticInv == Types /\ Control /\ OnTheWay /\ RootNow /\ Undisturbed

\* While the files stay as they are, so does what they come to.
LEMMA SameFiles ==
    ASSUME fs' = fs
    PROVE  /\ \A p : Kind(p)' = Kind(p)
           /\ \A p : EvalSymlinks(p)' = EvalSymlinks(p)
           /\ \A r : IsFile(r)' <=> IsFile(r)
           /\ \A r : IsDir(r)' <=> IsDir(r)
           /\ \A p : Straight(p)' <=> Straight(p)
           /\ \A d : ResolveStaticRoot(d)' = ResolveStaticRoot(d)
<1>1. \A p : Node(p)' = Node(p)
  BY DEF Node
<1>2. \A p : Kind(p)' = Kind(p)
  BY <1>1 DEF Kind
<1>3. \A p : Stops(p)' = Stops(p)
  BY <1>2 DEF Stops
<1>4. Walk' = Walk
  BY DEF Walk, Stops, Kind, Node
<1>5. \A p : EvalSymlinks(p)' = EvalSymlinks(p)
  BY <1>4 DEF EvalSymlinks
<1>6. /\ \A r : IsFile(r)' <=> IsFile(r)
      /\ \A r : IsDir(r)' <=> IsDir(r)
      /\ \A p : Straight(p)' <=> Straight(p)
  BY <1>2 DEF IsFile, IsDir, Straight
<1>7. \A d : ResolveStaticRoot(d)' = ResolveStaticRoot(d)
  BY <1>4 DEF ResolveStaticRoot, EvalSymlinks, IsDir, Kind, Node
<1>8. QED
  BY <1>2, <1>5, <1>6, <1>7

LEMMA Frozen ==
    ASSUME fs' = fs, root' = root, rq' = rq, dir' = dir
    PROVE  /\ Relative' = Relative /\ Named' = Named /\ Index' = Index
           /\ There' = There /\ IndexPage' = IndexPage
           /\ AsksIndex' <=> AsksIndex
           /\ PageFound' <=> PageFound
           /\ IndexRoot' = IndexRoot
           /\ \A l, t : Way(l, t)' <=> Way(l, t)
           /\ \A l, t : Clear(l, t)' <=> Clear(l, t)
           /\ \A l, t : Known(l, t)' <=> Known(l, t)
<1>1. Relative' = Relative
  BY DEF Relative
<1>2. Named' = Named
  BY <1>1, SameFiles DEF Named
<1>3. Index' = Index
  BY <1>2, SameFiles DEF Index
<1>4. \A r : Below(r)' <=> Below(r)
  BY DEF Below
<1>5. There' = There
  BY <1>2, <1>3, <1>4, SameFiles DEF There
<1>6. /\ \A l, t : Way(l, t)' <=> Way(l, t)
      /\ \A l, t : Clear(l, t)' <=> Clear(l, t)
  BY SameFiles DEF Way, Clear
<1>7. \A l, t : Known(l, t)' <=> Known(l, t)
  BY <1>2, <1>3, <1>4, SameFiles DEF Known
<1>8. IndexRoot' = IndexRoot
  BY SameFiles DEF IndexRoot, ResolveStaticRoot
<1>9. IndexPage' = IndexPage
  BY <1>8, SameFiles DEF IndexPage
<1>10. PageFound' <=> PageFound
  BY <1>8, <1>9, SameFiles DEF PageFound, IsFile
<1>11. QED
  BY <1>1, <1>2, <1>3, <1>5, <1>6, <1>7, <1>8, <1>9, <1>10 DEF AsksIndex

LEMMA AsksIndexIs ==
    ASSUME AsksIndex
    PROVE  rq.path = <<"">> /\ rq.method = "GET" /\ ~IsStatic(rq.path)
<1>1. PICK p : p = <<"">>
  OBVIOUS
<1>2. rq.path = p /\ rq.method = "GET"
  BY <1>1 DEF AsksIndex
<1>3. ~IsStatic(<<"">>)
  BY DEF IsStatic
<1>4. QED
  BY <1>1, <1>2, <1>3

LEMMA RelativeIs ==
    ASSUME rq \in Requests, IsStatic(rq.path)
    PROVE  Relative \in Paths /\ Len(Relative) > 0
<1>1. rq.path \in Paths /\ Len(rq.path) > 1
  BY StaticAssumption DEF IsStatic
<1>2. rq.path # <<>>
  BY <1>1, EmptySeq
<1>3. PICK q : q = Tail(rq.path)
  OBVIOUS
<1>4. q \in Paths /\ Len(q) = Len(rq.path) - 1
  BY <1>1, <1>2, <1>3, HeadTailProperties DEF Paths
<1>5. PICK c : c = "index.html"
  OBVIOUS
<1>6. c \in STRING
  BY <1>5, StaticAssumption
<1>7. <<c>> \in Paths /\ Len(<<c>>) = 1
  BY <1>6 DEF Paths
<1>8. Relative = q \/ Relative = <<c>>
  BY <1>3, <1>5 DEF Relative
<1>9. Len(q) > 0
  BY <1>1, <1>4 DEF Paths
<1>10. PICK r : r = Relative
  OBVIOUS
<1>11. CASE r = q
  BY <1>4, <1>9, <1>10, <1>11
<1>12. CASE r = <<c>>
  <2>1. PICK s : s = <<c>>
    OBVIOUS
  <2>2. s \in Paths /\ Len(s) > 0
    BY <1>7, <2>1
  <2>3. QED
    BY <1>10, <1>12, <2>1, <2>2
<1>13. QED
  BY <1>8, <1>10, <1>11, <1>12

LEMMA AppendName ==
    ASSUME NEW p \in Paths
    PROVE  Append(p, "index.html") \in Paths
<1>1. "index.html" \in STRING
  BY StaticAssumption
<1>2. QED
  BY <1>1, AppendIs DEF OneMore, Paths

\* What the names come to.
LEMMA NamedIs ==
    ASSUME Types, IsStatic(rq.path)
    PROVE  /\ root.path \o Clean(Relative) \in Paths
           /\ Named \in Results /\ Named # IOError
           /\ Named.err = "" => /\ Named = Found(Named.path) /\ Real(Named.path)
                                /\ IsFile(Named) <=> ~IsDir(Named)
           /\ Append(Named.path, "index.html") \in Paths
           /\ Index \in Results /\ Index # IOError
           /\ Index.err = "" => /\ Index = Found(Index.path) /\ Real(Index.path)
                                /\ IsFile(Index) <=> ~IsDir(Index)
<1>1. root.path \in Paths /\ fs \in FileSystems /\ rq \in Requests
  BY DEF Types, Results
<1>2. Clean(Relative) \in Paths
  BY <1>1, RelativeIs, CleanPath
<1>3. root.path \o Clean(Relative) \in Paths
  BY <1>1, <1>2, ConcatProperties DEF Paths
<1>4. /\ Named \in Results /\ Named # IOError
      /\ Named.err = "" => /\ Named = Found(Named.path) /\ Real(Named.path)
                           /\ IsFile(Named) <=> ~IsDir(Named)
  BY <1>1, <1>3, EvalIs DEF Named
<1>5. Append(Named.path, "index.html") \in Paths
  <2>1. Named.path \in Paths
    BY <1>4 DEF Results
  <2>2. QED
    BY <2>1, AppendName
<1>6. /\ Index \in Results /\ Index # IOError
      /\ Index.err = "" => /\ Index = Found(Index.path) /\ Real(Index.path)
                           /\ IsFile(Index) <=> ~IsDir(Index)
  BY <1>1, <1>5, EvalIs DEF Index
<1>7. QED
  BY <1>3, <1>4, <1>5, <1>6

LEMMA RootIs ==
    ASSUME fs \in FileSystems, NEW d \in Dirs
    PROVE  ResolveStaticRoot(d) \in Results
<1>1. /\ d.path \in Paths /\ Wd \in Paths /\ MaxUp \in Nat /\ Len(Wd) \in Nat
  BY StaticAssumption DEF Paths
<1>2. CASE d.abs
  BY <1>1, <1>2, EvalIs DEF ResolveStaticRoot
<1>3. CASE ~d.abs
  <2> DEFINE up(i) == SubSeq(Wd, 1, Len(Wd) - i) \o d.path
             has == {i \in 0 .. MaxUp - 1 :
                        i <= Len(Wd) /\ IsDir(EvalSymlinks(up(i)))}
  <2>1. ASSUME NEW i \in Nat, i <= Len(Wd)
        PROVE  EvalSymlinks(up(i)) \in Results
    <3>1. Len(Wd) - i \in 0 .. Len(Wd)
      BY <1>1, <2>1
    <3>2. PICK q : q = SubSeq(Wd, 1, Len(Wd) - i)
      OBVIOUS
    <3>3. q \in Paths
      BY <1>1, <3>1, <3>2, CutIs
    <3>4. q \o d.path \in Paths
      BY <1>1, <3>3, ConcatProperties DEF Paths
    <3>5. QED
      BY <3>2, <3>4, EvalIs
  <2>2. ResolveStaticRoot(d) =
           IF has = {} THEN EvalSymlinks(up(0))
           ELSE EvalSymlinks(up(CHOOSE i \in has : \A j \in has : i <= j))
    BY <1>3 DEF ResolveStaticRoot
  <2>3. has \subseteq Nat /\ \A i \in has : i <= Len(Wd)
    OBVIOUS
  <2> HIDE DEF has, up
  <2>4. CASE has = {}
    BY <1>1, <2>1, <2>2, <2>4
  <2>5. CASE has # {}
    <3>1. \E i \in has : \A j \in has : i <= j
      BY <2>3, <2>5, Least
    <3>2. (CHOOSE i \in has : \A j \in has : i <= j) \in has
      BY <3>1
    <3>3. QED
      BY <2>1, <2>2, <2>3, <2>5, <3>2
  <2>6. QED
    BY <2>4, <2>5
<1>4. QED
  BY <1>2, <1>3

-----------------------------------------------------------------------------
(* The steps.                                                              *)

LEMMA StaticInit == ASSUME Init PROVE StaticInv
<1>1. <<>> \in Paths
  BY DEF Paths
<1>2. root \in Results /\ root = IOError
  BY ResultIs, ErrorNames DEF Init, IOError
<1>3. Types
  <2>1. quiet \in BOOLEAN /\ relinked \in BOOLEAN
    BY Zenon DEF Init
  <2>2. QED
    BY <1>1, <1>2, <2>1, StaticAssumption DEF Init, Types, Labels, Codes
<1>4. Control
  BY DEF Init, Control, InStatic, Served
<1>5. OnTheWay
  BY DEF Init, OnTheWay, Way, Clear, Served
<1>6. RootNow
  BY DEF Init, RootNow
<1>7. Undisturbed
  BY DEF Init, Undisturbed, Known, Served
<1>8. QED
  BY <1>3, <1>4, <1>5, <1>6, <1>7 DEF StaticInv

LEMMA BootKeeps == ASSUME StaticInv, Boot PROVE StaticInv'
<1>1. /\ pc = "boot" /\ pc' = "idle" /\ root' = ResolveStaticRoot(dir)
      /\ UNCHANGED <<dir, fs, rq, target, status, body, changes, quiet, relinked>>
  BY DEF Boot
<1>2. Types /\ Control
  BY DEF StaticInv
<1>3. root' \in Results
  BY <1>1, <1>2, RootIs DEF Types
<1>4. Types'
  BY <1>1, <1>2, <1>3 DEF Types, Labels
<1>5. Control'
  BY <1>1, <1>2 DEF Control, InStatic, Served
<1>6. OnTheWay'
  BY <1>1, <1>2 DEF OnTheWay, Way, Clear, Served, Control
<1>7. RootNow'
  BY <1>1 DEF RootNow
<1>8. Undisturbed'
  BY <1>1 DEF Undisturbed, Known, Served
<1>9. QED
  BY <1>4, <1>5, <1>6, <1>7, <1>8 DEF StaticInv

\* A deployment that moves no link makes none.
LEMMA DeployStraight ==
    ASSUME fs \in FileSystems, NEW f \in FileSystems, Deploy(f), ~Moves(f),
           NEW p, Straight(p)
    PROVE  Straight(p)'
<1>1. fs' = f /\ \A q \in DOMAIN f : f[q] # fs[q] => "link" \notin {f[q].is, fs[q].is}
  BY DEF Deploy, Moves
<1>2. DOMAIN f = DOMAIN fs
  BY StaticAssumption
<1>3. ASSUME NEW q, Kind(q) # "link"
      PROVE  Kind(q)' # "link"
  <2>1. CASE q = <<>>
    BY <2>1 DEF Kind, Node, Dir
  <2>2. CASE q # <<>> /\ q \notin DOMAIN fs
    BY <1>1, <1>2, <2>2 DEF Kind, Node, Nothing
  <2>3. CASE q # <<>> /\ q \in DOMAIN fs
    <3>1. Kind(q) = fs[q].is /\ Kind(q)' = f[q].is
      BY <1>1, <1>2, <2>3 DEF Kind, Node
    <3>2. CASE f[q] = fs[q]
      BY <1>3, <3>1, <3>2
    <3>3. CASE f[q] # fs[q]
      BY <1>1, <1>2, <2>3, <3>1, <3>3
    <3>4. QED
      BY <3>2, <3>3
  <2>4. QED
    BY <2>1, <2>2, <2>3
<1>4. QED
  BY <1>3 DEF Straight

LEMMA DeployKeeps ==
    ASSUME StaticInv, NEW f \in FileSystems, Deploy(f)
    PROVE  StaticInv'
<1>1. /\ pc \notin {"boot", "done"} /\ fs' = f /\ changes < MaxChanges
      /\ changes' = changes + 1 /\ quiet' = (pc = "idle")
      /\ relinked' = (relinked \/ Moves(f))
      /\ UNCHANGED <<pc, dir, root, rq, target, status, body>>
  BY DEF Deploy
<1>2. Types /\ Control /\ OnTheWay
  BY DEF StaticInv
<1>3. changes' \in 1 .. MaxChanges
  BY <1>1, <1>2, StaticAssumption DEF Types
<1>4. Types'
  <2>1. changes' \in 0 .. MaxChanges /\ quiet' \in BOOLEAN /\ relinked' \in BOOLEAN
    BY <1>1, <1>3
  <2>2. QED
    BY <1>1, <1>2, <2>1 DEF Types
<1>5. Control'
  BY <1>1, <1>2 DEF Control, Served, Relative
<1>6. OnTheWay'
  <2>1. body' = <<>> /\ ~Served'
    BY <1>1, <1>2 DEF Control, Served
  <2>2. Way(pc, target)'
    BY <1>1, <1>2 DEF OnTheWay, Way
  <2>3. ~relinked' => Clear(pc, target)'
    <3>1. SUFFICES ASSUME ~relinked', pc \in {"stat", "statIndex", "read"}
                   PROVE  Straight(target)'
      BY <1>1 DEF Clear
    <3>2. ~relinked /\ ~Moves(f)
      BY <1>1, <3>1
    <3>3. Straight(target)
      BY <1>2, <3>1, <3>2 DEF OnTheWay, Clear
    <3>4. \A p : Straight(p) => Straight(p)'
      BY <1>2, <3>2, DeployStraight DEF Types
    <3>5. QED
      BY <1>1, <3>3, <3>4 DEF Straight
  <2>4. QED
    BY <2>1, <2>2, <2>3 DEF OnTheWay
<1>7. RootNow'
  <2>1. quiet' => pc' = "idle"
    BY <1>1
  <2>2. QED
    BY <2>1 DEF RootNow
<1>8. Undisturbed'
  <2>1. quiet' => pc' = "idle"
    BY <1>1
  <2>2. QED
    BY <1>1, <2>1 DEF Undisturbed, Known, Served
<1>9. QED
  BY <1>4, <1>5, <1>6, <1>7, <1>8 DEF StaticInv

\* What all steps of a request leave alone.
Steady == UNCHANGED <<dir, root, fs, rq, changes>>
Loose == target' \in Paths /\ quiet' \in BOOLEAN /\ relinked' \in BOOLEAN

\* When a request may be answered without a body.
MayAnswer(code) ==
    /\ code = 200 => ~IsStatic(rq.path) /\ rq.path # <<"">>
    /\ IsStatic(rq.path) /\ rq.method = "GET" =>
          /\ code = 400 <=> ~IsSafeStaticPath(Relative)
          /\ quiet' /\ code # 400 => There = <<>>
    /\ AsksIndex /\ quiet' => ~PageFound

LEMMA AnswerKeeps ==
    ASSUME StaticInv, pc \notin {"boot", "done"}, Steady, Loose,
           NEW code \in Codes \ {0}, Answer(code), MayAnswer(code)
    PROVE  StaticInv'
<1>0. /\ code = 200 => ~IsStatic(rq.path) /\ rq.path # <<"">>
      /\ IsStatic(rq.path) /\ rq.method = "GET" =>
            /\ code = 400 <=> ~IsSafeStaticPath(Relative)
            /\ quiet' /\ code # 400 => There = <<>>
      /\ AsksIndex /\ quiet' => ~PageFound
  BY DEF MayAnswer
<1>1. /\ pc' = "done" /\ status' = code /\ body' = body
      /\ UNCHANGED <<dir, root, fs, rq, changes>>
      /\ target' \in Paths /\ quiet' \in BOOLEAN /\ relinked' \in BOOLEAN
  BY DEF Answer, Steady, Loose
<1>2. Types /\ Control
  BY DEF StaticInv
<1>3. body' = <<>> /\ (status' = 200 => ~Served')
  BY <1>0, <1>1, <1>2 DEF Control, Served
<1>4. /\ Relative' = Relative /\ There' = There /\ IndexPage' = IndexPage
      /\ IndexRoot' = IndexRoot /\ (PageFound' <=> PageFound)
      /\ AsksIndex' <=> AsksIndex
  BY <1>1, Frozen
<1>5. Types'
  <2>1. status' \in Codes /\ body' \in Paths
    BY <1>1, <1>2 DEF Types
  <2>2. QED
    BY <1>1, <1>2, <2>1 DEF Types, Labels
<1>6. Control'
  <2>1. pc' = "done" /\ pc' \notin InStatic /\ pc' \notin {"resolve", "index", "readIndex"}
    BY <1>1 DEF InStatic
  <2>2. Served' => (status' = 400 <=> ~IsSafeStaticPath(Relative)')
    BY <1>0, <1>1, <1>4 DEF Served
  <2>3. QED
    BY <2>1, <2>2 DEF Control
<1>7. OnTheWay'
  BY <1>1, <1>3 DEF OnTheWay, Way, Clear
<1>8. RootNow'
  <2>1. quiet' /\ AsksIndex' => ~PageFound'
    BY <1>0, <1>4
  <2>2. AsksIndex' => status' # 200
    BY <1>0, <1>1, <1>4, AsksIndexIs
  <2>3. QED
    BY <1>1, <2>1, <2>2 DEF RootNow
<1>9. Undisturbed'
  <2>1. quiet' /\ Served' /\ status' \notin {400, 0} => There' = <<>>
    BY <1>0, <1>1, <1>4 DEF Served
  <2>2. Known(pc, target)'
    BY <1>1 DEF Known
  <2>3. QED
    BY <1>3, <2>1, <2>2 DEF Undisturbed
<1>10. QED
  BY <1>5, <1>6, <1>7, <1>8, <1>9 DEF StaticInv

LEMMA CodesAre ==
    /\ 200 \in Codes \ {0} /\ 400 \in Codes \ {0} /\ 403 \in Codes \ {0}
    /\ 404 \in Codes \ {0} /\ 405 \in Codes \ {0} /\ 500 \in Codes \ {0}
    /\ 400 # 200 /\ 403 # 200 /\ 404 # 200 /\ 405 # 200 /\ 500 # 200
    /\ 403 # 400 /\ 404 # 400 /\ 405 # 400 /\ 500 # 400
  BY DEF Codes

\* A file sent.
LEMMA SendKeeps ==
    ASSUME StaticInv, pc \notin {"boot", "done"}, Steady, Loose,
           NEW p \in Paths, Kind(p) = "file", Send(p),
           IsStatic(rq.path) /\ rq.method = "GET" =>
              /\ IsSafeStaticPath(Relative)
              /\ ~relinked' => IsPrefix(root.path, p)
              /\ quiet' => There = p,
           AsksIndex /\ quiet' => PageFound /\ IndexPage.path = p
    PROVE  StaticInv'
<1>1. /\ pc' = "done" /\ status' = 200 /\ body' = p
      /\ UNCHANGED <<dir, root, fs, rq, changes>>
      /\ target' \in Paths /\ quiet' \in BOOLEAN /\ relinked' \in BOOLEAN
  BY DEF Send, Steady, Loose
<1>2. Types /\ Control
  BY DEF StaticInv
<1>3. p # <<>> /\ Kind(body)' = "file"
  <2>1. p # <<>>
    BY KindOfTop
  <2>2. Kind(p)' = "file"
    BY <1>1, SameFiles
  <2>3. Kind(body)' = Kind(p)'
    BY <1>1 DEF Kind, Node
  <2>4. QED
    BY <2>1, <2>2, <2>3
<1>4. /\ Relative' = Relative /\ There' = There /\ IndexPage' = IndexPage
      /\ IndexRoot' = IndexRoot /\ (PageFound' <=> PageFound)
      /\ AsksIndex' <=> AsksIndex
  BY <1>1, Frozen
<1>5. Types'
  BY <1>1, <1>2 DEF Types, Labels, Codes
<1>6. Control'
  <2>1. pc' = "done" /\ pc' \notin InStatic /\ pc' \notin {"resolve", "index", "readIndex"}
    BY <1>1 DEF InStatic
  <2>2. Served' => (status' = 400 <=> ~IsSafeStaticPath(Relative)')
    <3>1. status' # 400
      <4>1. status' = 200
        BY <1>1
      <4>2. QED
        BY <4>1, CodesAre, Zenon
    <3>2. Served' => IsSafeStaticPath(Relative)
      BY <1>1 DEF Served
    <3>3. QED
      BY <1>4, <3>1, <3>2
  <2>3. QED
    BY <2>1, <2>2 DEF Control
<1>7. OnTheWay'
  <2>1. Served' /\ ~relinked' => IsPrefix(root'.path, body')
    BY <1>1 DEF Served
  <2>2. QED
    BY <1>1, <1>3, <2>1 DEF OnTheWay, Way, Clear
<1>8. RootNow'
  <2>1. quiet' /\ AsksIndex' => PageFound' /\ body' = IndexPage'.path
    BY <1>1, <1>4
  <2>2. QED
    BY <1>1, <2>1 DEF RootNow
<1>9. Undisturbed'
  <2>1. quiet' /\ Served' => There' = body'
    BY <1>1, <1>4 DEF Served
  <2>2. Known(pc, target)'
    BY <1>1 DEF Known
  <2>3. status' = 200 /\ body' # <<>>
    BY <1>1, <1>3
  <2>4. quiet' /\ Served' => body' = There' /\ There' # <<>>
    BY <2>1, <2>3
  <2>5. QED
    BY <2>2, <2>3, <2>4 DEF Undisturbed
<1>10. QED
  BY <1>5, <1>6, <1>7, <1>8, <1>9 DEF StaticInv

\* On to the next operation.
LEMMA GotoKeeps ==
    ASSUME StaticInv, pc \notin {"boot", "done"}, Steady, Loose,
           NEW label \in Labels \ {"boot", "done"}, Goto(label),
           label \in InStatic => IsStatic(rq.path) /\ rq.method = "GET",
           label \in InStatic \ {"check"} =>
              IsSafeStaticPath(Relative) /\ root.err = "",
           label = "resolve" => target' = root.path \o Clean(Relative),
           label \in {"index", "readIndex"} => rq.path = <<"">>,
           label = "readIndex" /\ quiet' =>
              IndexRoot.err = "" /\ target' = Append(IndexRoot.path, "index.html"),
           Way(label, target'), ~relinked' => Clear(label, target'),
           quiet' => Known(label, target')
    PROVE  StaticInv'
<1>1. /\ pc' = label /\ status' = status /\ body' = body
      /\ UNCHANGED <<dir, root, fs, rq, changes>>
      /\ target' \in Paths /\ quiet' \in BOOLEAN /\ relinked' \in BOOLEAN
  BY DEF Goto, Steady, Loose
<1>2. Types /\ Control
  BY DEF StaticInv
<1>3. body' = <<>> /\ status' = 0 /\ ~Served'
  BY <1>1, <1>2 DEF Control, Served
<1>4. Relative' = Relative /\ IndexRoot' = IndexRoot
  BY <1>1, Frozen
<1>5. Types'
  BY <1>1, <1>2, <1>3 DEF Types
<1>6. Control'
  <2>1. IsSafeStaticPath(Relative)' <=> IsSafeStaticPath(Relative)
    BY <1>4
  <2>2. label = "resolve" => target' = root'.path \o Clean(Relative)'
    BY <1>1, <1>4
  <2>3. QED
    BY <1>1, <1>3, <2>1, <2>2 DEF Control
<1>7. /\ Way(pc, target)' /\ (~relinked' => Clear(pc, target)')
      /\ quiet' => Known(pc, target)'
  <2>1. /\ \A l, t : Way(l, t)' <=> Way(l, t)
        /\ \A l, t : Clear(l, t)' <=> Clear(l, t)
        /\ \A l, t : Known(l, t)' <=> Known(l, t)
    BY <1>1, Frozen
  <2>2. PICK t : t = target'
    OBVIOUS
  <2>3. Way(label, t)' /\ (~relinked' => Clear(label, t)') /\ (quiet' => Known(label, t)')
    BY <2>1, <2>2
  <2>4. (Way(pc, target)' <=> Way(label, t)') /\ (Clear(pc, target)' <=> Clear(label, t)')
    BY <1>1, <2>2 DEF Way, Clear, Straight
  <2>5. Known(pc, target)' <=> Known(label, t)'
    BY <1>1, <2>2 DEF Known
  <2>6. QED
    BY <2>3, <2>4, <2>5
<1>8. OnTheWay'
  BY <1>3, <1>7 DEF OnTheWay
<1>9. RootNow'
  <2>1. quiet' /\ pc' = "readIndex" =>
           IndexRoot'.err = "" /\ target' = Append(IndexRoot'.path, "index.html")
    BY <1>1, <1>4
  <2>2. pc' # "done"
    BY <1>1
  <2>3. QED
    BY <2>1, <2>2 DEF RootNow
<1>10. Undisturbed'
  BY <1>3, <1>7 DEF Undisturbed
<1>11. QED
  BY <1>5, <1>6, <1>8, <1>9, <1>10 DEF StaticInv

\* The pages without files are not below /static/.
LEMMA PagesAre ==
    \A c : ~IsStatic(<<c>>)
  BY DEF IsStatic

LEMMA ServeHTTPKeeps == ASSUME StaticInv, ServeHTTP PROVE StaticInv'
<1>1. /\ pc = "idle" /\ UNCHANGED <<dir, root, fs, rq, target, changes, quiet, relinked>>
  BY DEF ServeHTTP
<1>2. Types
  BY DEF StaticInv
<1>3. Steady /\ Loose /\ pc \notin {"boot", "done"}
  BY <1>1, <1>2 DEF Steady, Loose, Types
<1>4. \/ rq.path \notin Exact /\ ~IsStatic(rq.path) /\ Answer(404)
      \/ /\ rq.path \in Exact \/ IsStatic(rq.path)
         /\ rq.method # MethodOf(rq.path) /\ Answer(405)
      \/ /\ rq.method = MethodOf(rq.path)
         /\ \/ rq.path = <<"">> /\ Goto("index")
            \/ rq.path \in Exact \ {<<"">>} /\ Answer(200)
            \/ IsStatic(rq.path) /\ Goto("check")
  BY DEF ServeHTTP
<1>5. /\ \A c : rq.path = <<c>> => ~IsStatic(rq.path)
      /\ <<"">> \in Exact /\ MethodOf(<<"">>) = "GET"
      /\ IsStatic(rq.path) => MethodOf(rq.path) = "GET"
  <2>1. \A c : rq.path = <<c>> => ~IsStatic(rq.path)
    BY PagesAre
  <2>2. <<"">> \in Exact
    BY DEF Exact
  <2>3. IsStatic(rq.path) => MethodOf(rq.path) = "GET"
    BY <2>1 DEF MethodOf
  <2>4. MethodOf(<<"">>) = "GET"
    BY DEF MethodOf
  <2>5. QED
    BY <2>1, <2>2, <2>3, <2>4
<1>6. /\ 200 \in Codes \ {0} /\ 404 \in Codes \ {0} /\ 405 \in Codes \ {0}
      /\ 404 # 200 /\ 405 # 200
  BY CodesAre
<1>7. CASE rq.path \notin Exact /\ ~IsStatic(rq.path) /\ Answer(404)
  <2>1. ~AsksIndex
    BY <1>5, <1>7, AsksIndexIs
  <2>2. MayAnswer(404)
    BY <1>6, <1>7, <2>1 DEF MayAnswer
  <2>3. QED
    BY <1>3, <1>6, <1>7, <2>2, AnswerKeeps
<1>8. CASE rq.method # MethodOf(rq.path) /\ Answer(405)
  <2>1. ~(IsStatic(rq.path) /\ rq.method = "GET")
    BY <1>5, <1>8
  <2>2. ~AsksIndex
    BY <1>5, <1>8, AsksIndexIs
  <2>3. MayAnswer(405)
    BY <1>6, <2>1, <2>2 DEF MayAnswer
  <2>4. QED
    BY <1>3, <1>6, <1>8, <2>3, AnswerKeeps
<1>9. CASE rq.path \in Exact \ {<<"">>} /\ Answer(200)
  <2>1. ~IsStatic(rq.path) /\ rq.path # <<"">>
    BY <1>5, <1>9 DEF Exact
  <2>2. ~AsksIndex
    BY <2>1, AsksIndexIs
  <2>3. MayAnswer(200)
    BY <2>1, <2>2 DEF MayAnswer
  <2>4. Answer(200)
    BY <1>9
  <2>5. QED
    BY <1>3, <1>6, <2>3, <2>4, AnswerKeeps
<1>10. CASE rq.path = <<"">> /\ Goto("index")
  <2>1. "index" \in Labels \ {"boot", "done"} /\ "index" \notin InStatic
    BY DEF Labels, InStatic
  <2>2. Way("index", target') /\ Clear("index", target') /\ Known("index", target')
    BY DEF Way, Clear, Known
  <2>3. QED
    BY <1>3, <1>10, <2>1, <2>2, GotoKeeps
<1>11. CASE rq.method = MethodOf(rq.path) /\ IsStatic(rq.path) /\ Goto("check")
  <2>1. "check" \in Labels \ {"boot", "done"}
    BY DEF Labels, InStatic
  <2>2. Way("check", target') /\ Clear("check", target') /\ Known("check", target')
    BY DEF Way, Clear, Known
  <2>3. rq.method = "GET"
    BY <1>5, <1>11
  <2>4. QED
    BY <1>3, <1>11, <2>1, <2>2, <2>3, GotoKeeps
<1>12. QED
  BY <1>4, <1>7, <1>8, <1>9, <1>10, <1>11

LEMMA CheckKeeps == ASSUME StaticInv, Check PROVE StaticInv'
<1>1. /\ pc = "check" /\ UNCHANGED <<dir, root, fs, rq, changes, quiet, relinked>>
      /\ target' = root.path \o Clean(Relative)
  BY DEF Check
<1>2. Types /\ IsStatic(rq.path) /\ rq.method = "GET"
  BY <1>1 DEF StaticInv, Control, InStatic
<1>3. Steady /\ Loose /\ pc \notin {"boot", "done"}
  BY <1>1, <1>2, NamedIs DEF Steady, Loose, Types
<1>4. ~AsksIndex
  BY <1>2, AsksIndexIs
<1>5. /\ 400 \in Codes \ {0} /\ 500 \in Codes \ {0}
      /\ 500 # 400 /\ 500 # 200 /\ 400 # 200
  BY CodesAre
<1>6. CASE ~IsSafeStaticPath(Relative)
  <2>1. Answer(400)
    BY <1>6 DEF Check
  <2>2. MayAnswer(400)
    BY <1>4, <1>5, <1>6 DEF MayAnswer
  <2>3. QED
    BY <1>3, <1>5, <2>1, <2>2, AnswerKeeps
<1>7. CASE IsSafeStaticPath(Relative) /\ root.err # ""
  <2>1. Answer(500) /\ There = <<>>
    BY <1>7 DEF Check, There
  <2>2. MayAnswer(500)
    BY <1>4, <1>5, <1>7, <2>1 DEF MayAnswer
  <2>3. QED
    BY <1>3, <1>5, <2>1, <2>2, AnswerKeeps
<1>8. CASE IsSafeStaticPath(Relative) /\ root.err = ""
  <2>1. Goto("resolve")
    BY <1>8 DEF Check
  <2>2. "resolve" \in Labels \ {"boot", "done"}
    BY DEF Labels, InStatic
  <2>3. Way("resolve", target') /\ Clear("resolve", target') /\ Known("resolve", target')
    BY DEF Way, Clear, Known
  <2>4. QED
    BY <1>1, <1>2, <1>3, <1>8, <2>1, <2>2, <2>3, GotoKeeps
<1>9. QED
  BY <1>6, <1>7, <1>8

\* An error, once the path was accepted.
Refuse == \E code \in {403, 404, 500} : Answer(code)
Gone == quiet' => There = <<>>

LEMMA RefuseIs == Answer(403) \/ Answer(404) \/ Answer(500) => Refuse
<1>1. 403 \in {403, 404, 500} /\ 404 \in {403, 404, 500} /\ 500 \in {403, 404, 500}
  OBVIOUS
<1>2. QED
  BY <1>1, Zenon DEF Refuse

LEMMA RefuseKeeps ==
    ASSUME StaticInv, pc \in InStatic \ {"check"}, Steady, Loose, Refuse, Gone
    PROVE  StaticInv'
<1>0. PICK code \in {403, 404, 500} : Answer(code)
  BY DEF Refuse
<1>1. /\ IsStatic(rq.path) /\ rq.method = "GET" /\ IsSafeStaticPath(Relative)
      /\ pc \notin {"boot", "done"}
  BY DEF StaticInv, Control, InStatic
<1>2. ~AsksIndex
  BY <1>1, AsksIndexIs
<1>3. code # 200 /\ code # 400 /\ code \in Codes \ {0}
  BY DEF Codes
<1>4. MayAnswer(code)
  BY <1>1, <1>2, <1>3 DEF MayAnswer, Gone
<1>5. QED
  BY <1>0, <1>1, <1>3, <1>4, AnswerKeeps

\* What a call on target gives: what is there, or an error of the system.
LEMMA CallIs ==
    ASSUME Types, NEW r, r = EvalSymlinks(target) \/ r = IOError
    PROVE  /\ r \in Results /\ r.path \in Paths
           /\ r.err = "" => /\ r # IOError /\ r = EvalSymlinks(target)
                            /\ Straight(r.path)
           /\ IsFile(r) \/ IsDir(r) <=> r.err = ""
           /\ ~(IsFile(r) /\ IsDir(r))
           /\ Straight(target) /\ r.err = "" => r.path = target
<1>1. fs \in FileSystems /\ target \in Paths
  BY DEF Types
<1>2. IOError \in Results /\ IOError.err = "io"
  BY ResultIs, ErrorNames DEF IOError
<1>3. PICK e : e = EvalSymlinks(target)
  OBVIOUS
<1>4. /\ e \in Results /\ e.err # "io"
      /\ e.err = "" => Real(e.path) /\ (IsFile(e) <=> ~IsDir(e))
  BY <1>1, <1>3, EvalIs
<1>5. e.path \in Paths
  BY <1>4 DEF Results
<1>6. e.err = "" => Straight(e.path)
  BY <1>4, <1>5, RealIs
<1>7. Straight(target) /\ e.err = "" => e.path = target
  BY <1>1, <1>3, EvalStraight, ResultIs
<1>8. \A x : IsFile(x) \/ IsDir(x) => x.err = ""
  BY DEF IsFile, IsDir
<1>9. CASE r = e
  BY <1>2, <1>3, <1>4, <1>5, <1>6, <1>7, <1>8, <1>9
<1>10. CASE r = IOError
  <2>1. r.err # "" /\ r.path \in Paths
    BY <1>2, <1>10 DEF Results
  <2>2. QED
    BY <1>2, <1>8, <1>10, <2>1
<1>11. QED
  BY <1>3, <1>9, <1>10

\* EvalSymlinks of the candidate or of the index, one lemma for both calls:
\* where it begins and where it goes on is known.
LEMMA ResolveKeeps ==
    ASSUME StaticInv, NEW next \in {"stat", "statIndex"}, Resolve(next),
           pc \in {"resolve", "resolveIndex"},
           quiet => IF next = "stat" THEN EvalSymlinks(target) = Named
                    ELSE /\ EvalSymlinks(target) = Index
                         /\ Named.err = "" /\ Below(Named) /\ IsDir(Named)
    PROVE  StaticInv'
<1>1. PICK r \in {EvalSymlinks(target), IOError} :
        /\ \/ r.err = "notExist" /\ Answer(404) /\ UNCHANGED target
           \/ r.err \notin {"", "notExist"} /\ Answer(500) /\ UNCHANGED target
           \/ /\ r.err = ""
              /\ target' = r.path
              /\ IF IsWithinRoot(root.path, r.path) THEN Goto(next)
                 ELSE Answer(403)
        /\ quiet' = (quiet /\ r # IOError)
        /\ relinked' = FALSE
        /\ UNCHANGED <<dir, root, fs, rq, changes>>
  BY Zenon DEF Resolve
<1>2. /\ Types /\ target \in Paths
      /\ IsStatic(rq.path) /\ rq.method = "GET"
      /\ IsSafeStaticPath(Relative) /\ root.err = ""
      /\ pc \in InStatic \ {"check"} /\ pc \notin {"boot", "done"}
  BY DEF StaticInv, Types, Control, InStatic
<1>3. /\ r.path \in Paths
      /\ r.err = "" => r = EvalSymlinks(target) /\ Straight(r.path)
  BY <1>1, <1>2, CallIs
<1>4. Steady /\ Loose
  <2>1. target' \in Paths
    BY <1>1, <1>2, <1>3
  <2>2. quiet' \in BOOLEAN /\ relinked' \in BOOLEAN
    BY <1>1
  <2>3. QED
    BY <1>1, <2>1, <2>2 DEF Steady, Loose
<1>5. quiet' => quiet /\ r = EvalSymlinks(target)
  BY <1>1
<1>6. ASSUME ~(r.err = "" /\ IsPrefix(root.path, r.path)), quiet'
      PROVE  There = <<>>
  <2>1. CASE next = "stat"
    BY <1>5, <1>6, <2>1 DEF There, Below
  <2>2. CASE next # "stat"
    <3>1. r = Index /\ Named.err = "" /\ IsDir(Named)
      BY <1>5, <1>6, <2>2
    <3>2. ~IsFile(Named)
      BY <1>2, <3>1, NamedIs
    <3>3. ~(IsFile(Index) /\ Below(Index))
      BY <1>6, <3>1 DEF IsFile, Below
    <3>4. QED
      BY <3>2, <3>3 DEF There
  <2>3. QED
    BY <2>1, <2>2
<1>7. /\ Answer(403) \/ Answer(404) \/ Answer(500) => Refuse
      /\ ~(r.err = "" /\ IsPrefix(root.path, r.path)) => Gone
  <2>1. ~(r.err = "" /\ IsPrefix(root.path, r.path)) => Gone
    BY <1>6 DEF Gone
  <2>2. Answer(403) \/ Answer(404) \/ Answer(500) => Refuse
    BY RefuseIs
  <2>3. QED
    BY <2>1, <2>2
<1>8. CASE r.err = "notExist" /\ Answer(404)
  BY <1>2, <1>4, <1>7, <1>8, RefuseKeeps
<1>9. CASE r.err \notin {"", "notExist"} /\ Answer(500)
  BY <1>2, <1>4, <1>7, <1>9, RefuseKeeps
<1>10. CASE r.err = "" /\ ~IsPrefix(root.path, r.path) /\ Answer(403)
  BY <1>2, <1>4, <1>7, <1>10, RefuseKeeps
<1>11. CASE /\ r.err = "" /\ target' = r.path /\ IsPrefix(root.path, r.path)
            /\ Goto(next)
  <2>1. /\ next \in Labels \ {"boot", "done"} /\ next \in InStatic \ {"check"}
        /\ next # "resolve" /\ next \notin {"index", "readIndex"}
    BY DEF Labels, InStatic
  <2>2. Way(next, target') /\ Clear(next, target')
    BY <1>3, <1>11 DEF Way, Clear
  <2>3. quiet' => Known(next, target')
    <3>1. SUFFICES ASSUME quiet' PROVE Known(next, target')
      OBVIOUS
    <3>2. CASE next = "stat"
      <4>1. r = Named
        BY <1>5, <3>1, <3>2
      <4>2. QED
        BY <1>11, <3>2, <4>1 DEF Known, Below
    <3>3. CASE next = "statIndex"
      <4>1. r = Index /\ Named.err = "" /\ Below(Named) /\ IsDir(Named)
        BY <1>5, <3>1, <3>3
      <4>2. QED
        BY <1>11, <3>3, <4>1 DEF Known, Below
    <3>4. QED
      BY <3>2, <3>3
  <2>4. QED
    BY <1>2, <1>4, <1>11, <2>1, <2>2, <2>3, GotoKeeps
<1>12. QED
  BY <1>1, <1>8, <1>9, <1>10, <1>11 DEF IsWithinRoot

LEMMA ResolveFileKeeps == ASSUME StaticInv, ResolveFile PROVE StaticInv'
<1>1. pc = "resolve" /\ Resolve("stat")
  BY DEF ResolveFile
<1>2. EvalSymlinks(target) = Named
  BY <1>1 DEF StaticInv, Control, Named
<1>3. QED
  BY <1>1, <1>2, ResolveKeeps

LEMMA ResolveIndexKeeps == ASSUME StaticInv, ResolveIndex PROVE StaticInv'
<1>1. pc = "resolveIndex" /\ Resolve("statIndex")
  BY DEF ResolveIndex
<1>2. quiet => /\ Named.err = "" /\ Below(Named) /\ IsDir(Named)
               /\ target = Append(Named.path, "index.html")
  BY <1>1 DEF StaticInv, Undisturbed, Known
<1>3. quiet => EvalSymlinks(target) = Index
  BY <1>2 DEF Index
<1>4. QED
  BY <1>1, <1>2, <1>3, ResolveKeeps

\* What was resolved is resolved to itself.
LEMMA Again ==
    ASSUME Types, IsStatic(rq.path)
    PROVE  /\ Named.err = "" => EvalSymlinks(Named.path) = Named
           /\ Index.err = "" => EvalSymlinks(Index.path) = Index
<1>1. fs \in FileSystems /\ Named.path \in Paths /\ Index.path \in Paths
  BY NamedIs DEF Types, Results
<1>2. Named.err = "" => EvalSymlinks(Named.path) = Named
  BY <1>1, NamedIs, EvalReal
<1>3. Index.err = "" => EvalSymlinks(Index.path) = Index
  BY <1>1, NamedIs, EvalReal
<1>4. QED
  BY <1>2, <1>3

\* The three calls after the checks.
LEMMA CallKeeps ==
    ASSUME StaticInv, pc \in {"stat", "statIndex", "read"},
           NEW r, r = EvalSymlinks(target) \/ r = IOError,
           quiet' = (quiet /\ r # IOError), Steady
    PROVE  /\ Types /\ IsStatic(rq.path) /\ rq.method = "GET"
           /\ IsSafeStaticPath(Relative) /\ root.err = ""
           /\ pc \in InStatic \ {"check"} /\ pc \notin {"boot", "done"}
           /\ IsPrefix(root.path, target) /\ target \in Paths /\ r.path \in Paths
           /\ ~relinked => Straight(target) /\ (r.err = "" => r.path = target)
           /\ quiet' => r = EvalSymlinks(target) /\ Known(pc, target)
           /\ quiet' \in BOOLEAN /\ relinked \in BOOLEAN
<1>1. /\ Types /\ IsStatic(rq.path) /\ rq.method = "GET"
      /\ IsSafeStaticPath(Relative) /\ root.err = ""
      /\ pc \in InStatic \ {"check"} /\ pc \notin {"boot", "done"}
      /\ target \in Paths /\ relinked \in BOOLEAN
  BY DEF StaticInv, Types, Control, InStatic
<1>2. IsPrefix(root.path, target) /\ (~relinked => Straight(target))
  BY DEF StaticInv, OnTheWay, Way, Clear
<1>3. r.path \in Paths /\ (~relinked /\ r.err = "" => r.path = target)
  BY <1>1, <1>2, CallIs
<1>4. quiet' => r = EvalSymlinks(target)
  OBVIOUS
<1>5. quiet' => Known(pc, target)
  BY DEF StaticInv, Undisturbed
<1>6. QED
  BY <1>1, <1>2, <1>3, <1>4, <1>5

LEMMA StatFileKeeps == ASSUME StaticInv, StatFile PROVE StaticInv'
<1>1. PICK r \in {EvalSymlinks(target), IOError} :
        /\ \/ r.err = "notExist" /\ Answer(404) /\ UNCHANGED target
           \/ r.err \notin {"", "notExist"} /\ Answer(500) /\ UNCHANGED target
           \/ IsFile(r) /\ Goto("read") /\ UNCHANGED target
           \/ IsDir(r) /\ Goto("resolveIndex")
              /\ target' = Append(target, "index.html")
        /\ quiet' = (quiet /\ r # IOError)
  BY Zenon DEF StatFile
<1>2. pc = "stat" /\ Steady /\ relinked' = relinked
  BY DEF StatFile, Steady
<1>3. /\ Types /\ IsStatic(rq.path) /\ rq.method = "GET"
      /\ IsSafeStaticPath(Relative) /\ root.err = ""
      /\ pc \in InStatic \ {"check"} /\ pc \notin {"boot", "done"}
      /\ IsPrefix(root.path, target) /\ target \in Paths /\ r.path \in Paths
      /\ ~relinked => Straight(target) /\ (r.err = "" => r.path = target)
      /\ quiet' => r = EvalSymlinks(target) /\ Known(pc, target)
      /\ quiet' \in BOOLEAN /\ relinked \in BOOLEAN
  BY <1>1, <1>2, CallKeeps
<1>4. Loose
  BY <1>1, <1>2, <1>3, AppendName DEF Loose
<1>5. quiet' => /\ r = Named /\ Named.err = "" /\ Below(Named)
                /\ target = Named.path
  <2>1. quiet' => Named.err = "" /\ Below(Named) /\ target = Named.path
    BY <1>2, <1>3 DEF Known
  <2>2. QED
    BY <1>3, <2>1, Again
<1>6. ASSUME r.err # "", Answer(404) \/ Answer(500)
      PROVE  StaticInv'
  <2>1. Refuse /\ Gone
    BY <1>5, <1>6 DEF Refuse, Gone
  <2>2. QED
    BY <1>2, <1>3, <1>4, <2>1, RefuseKeeps
<1>7. CASE IsFile(r) /\ Goto("read") /\ UNCHANGED target
  <2>1. /\ "read" \in Labels \ {"boot", "done"} /\ "read" \in InStatic \ {"check"}
    BY DEF Labels, InStatic
  <2>2. Way("read", target') /\ (~relinked' => Clear("read", target'))
    BY <1>2, <1>3, <1>7 DEF Way, Clear
  <2>3. quiet' => Known("read", target')
    BY <1>5, <1>7 DEF Known
  <2>4. QED
    BY <1>2, <1>3, <1>4, <1>7, <2>1, <2>2, <2>3, GotoKeeps
<1>8. CASE IsDir(r) /\ Goto("resolveIndex") /\ target' = Append(target, "index.html")
  <2>1. /\ "resolveIndex" \in Labels \ {"boot", "done"}
        /\ "resolveIndex" \in InStatic \ {"check"}
    BY DEF Labels, InStatic
  <2>2. Way("resolveIndex", target') /\ Clear("resolveIndex", target')
    BY DEF Way, Clear
  <2>3. quiet' => Known("resolveIndex", target')
    BY <1>5, <1>8 DEF Known
  <2>4. QED
    BY <1>2, <1>3, <1>4, <1>8, <2>1, <2>2, <2>3, GotoKeeps
<1>9. QED
  BY <1>1, <1>6, <1>7, <1>8

LEMMA StatIndexKeeps == ASSUME StaticInv, StatIndex PROVE StaticInv'
<1>1. PICK r \in {EvalSymlinks(target), IOError} :
        /\ IF IsFile(r) THEN Goto("read") ELSE Answer(404)
        /\ quiet' = (quiet /\ r # IOError)
  BY Zenon DEF StatIndex
<1>2. pc = "statIndex" /\ Steady /\ target' = target /\ relinked' = relinked
  BY DEF StatIndex, Steady
<1>3. /\ Types /\ IsStatic(rq.path) /\ rq.method = "GET"
      /\ IsSafeStaticPath(Relative) /\ root.err = ""
      /\ pc \in InStatic \ {"check"} /\ pc \notin {"boot", "done"}
      /\ IsPrefix(root.path, target) /\ target \in Paths /\ r.path \in Paths
      /\ ~relinked => Straight(target) /\ (r.err = "" => r.path = target)
      /\ quiet' => r = EvalSymlinks(target) /\ Known(pc, target)
      /\ quiet' \in BOOLEAN /\ relinked \in BOOLEAN
  <2>1. /\ pc \in {"stat", "statIndex", "read"}
        /\ r = EvalSymlinks(target) \/ r = IOError
        /\ quiet' = (quiet /\ r # IOError)
    BY <1>1, <1>2
  <2>2. QED
    BY <1>2, <2>1, CallKeeps
<1>4. Loose
  BY <1>2, <1>3 DEF Loose
<1>5. quiet' => /\ r = Index /\ Index.err = "" /\ Below(Index)
                /\ target = Index.path
                /\ Named.err = "" /\ Below(Named) /\ IsDir(Named)
  <2>1. quiet' => /\ Index.err = "" /\ Below(Index) /\ target = Index.path
                  /\ Named.err = "" /\ Below(Named) /\ IsDir(Named)
    BY <1>2, <1>3 DEF Known
  <2>2. QED
    BY <1>3, <2>1, Again
<1>6. CASE ~IsFile(r) /\ Answer(404)
  <2>1. quiet' => There = <<>>
    <3>1. SUFFICES ASSUME quiet' PROVE There = <<>>
      OBVIOUS
    <3>2. ~IsFile(Named) /\ ~IsFile(Index)
      BY <1>3, <1>5, <1>6, <3>1, NamedIs
    <3>3. QED
      BY <3>2 DEF There
  <2>2. Refuse /\ Gone
    BY <1>6, <2>1 DEF Refuse, Gone
  <2>3. QED
    BY <1>2, <1>3, <1>4, <2>2, RefuseKeeps
<1>7. CASE IsFile(r) /\ Goto("read")
  <2>1. /\ "read" \in Labels \ {"boot", "done"} /\ "read" \in InStatic \ {"check"}
    BY DEF Labels, InStatic
  <2>2. Way("read", target') /\ (~relinked' => Clear("read", target'))
    BY <1>2, <1>3, <1>7 DEF Way, Clear
  <2>3. quiet' => Known("read", target')
    BY <1>2, <1>5, <1>7 DEF Known
  <2>4. QED
    BY <1>2, <1>3, <1>4, <1>7, <2>1, <2>2, <2>3, GotoKeeps
<1>8. QED
  BY <1>1, <1>6, <1>7

LEMMA ReadFileKeeps == ASSUME StaticInv, ReadFile PROVE StaticInv'
<1>1. PICK r \in {EvalSymlinks(target), IOError} :
        /\ IF IsFile(r) THEN Send(r.path) ELSE Answer(500)
        /\ quiet' = (quiet /\ r # IOError)
  BY Zenon DEF ReadFile
<1>2. pc = "read" /\ Steady /\ target' = target /\ relinked' = relinked
  BY DEF ReadFile, Steady
<1>3. /\ Types /\ IsStatic(rq.path) /\ rq.method = "GET"
      /\ IsSafeStaticPath(Relative) /\ root.err = ""
      /\ pc \in InStatic \ {"check"} /\ pc \notin {"boot", "done"}
      /\ IsPrefix(root.path, target) /\ target \in Paths /\ r.path \in Paths
      /\ ~relinked => Straight(target) /\ (r.err = "" => r.path = target)
      /\ quiet' => r = EvalSymlinks(target) /\ Known(pc, target)
      /\ quiet' \in BOOLEAN /\ relinked \in BOOLEAN
  <2>1. /\ pc \in {"stat", "statIndex", "read"}
        /\ r = EvalSymlinks(target) \/ r = IOError
        /\ quiet' = (quiet /\ r # IOError)
    BY <1>1, <1>2
  <2>2. QED
    BY <1>2, <2>1, CallKeeps
<1>4. Loose
  BY <1>2, <1>3 DEF Loose
<1>5. quiet' => IsFile(r) /\ There = r.path
  <2>1. SUFFICES ASSUME quiet' PROVE IsFile(r) /\ There = r.path
    OBVIOUS
  <2>2. /\ Named.err = "" /\ Below(Named)
        /\ \/ IsFile(Named) /\ target = Named.path
           \/ IsDir(Named) /\ IsFile(Index) /\ Below(Index) /\ target = Index.path
    BY <1>2, <1>3, <2>1 DEF Known
  <2>3. CASE IsFile(Named) /\ target = Named.path
    <3>1. r = Named
      BY <1>3, <2>1, <2>2, <2>3, Again
    <3>2. QED
      BY <1>3, <2>2, <2>3, <3>1 DEF There
  <2>4. CASE IsDir(Named) /\ IsFile(Index) /\ Below(Index) /\ target = Index.path
    <3>1. Index.err = ""
      BY <2>4 DEF IsFile
    <3>2. r = Index
      BY <1>3, <2>1, <2>4, <3>1, Again
    <3>3. ~IsFile(Named)
      BY <1>3, <2>2, <2>4, NamedIs
    <3>4. QED
      BY <1>3, <2>2, <2>4, <3>2, <3>3 DEF There
  <2>5. QED
    BY <2>2, <2>3, <2>4
<1>6. CASE ~IsFile(r) /\ Answer(500)
  <2>1. Refuse /\ Gone
    BY <1>5, <1>6 DEF Refuse, Gone
  <2>2. QED
    BY <1>2, <1>3, <1>4, <2>1, RefuseKeeps
<1>7. CASE IsFile(r) /\ Send(r.path)
  <2>1. PICK p : p = r.path
    OBVIOUS
  <2>2. p \in Paths /\ Kind(p) = "file" /\ Send(p) /\ ~AsksIndex
    BY <1>3, <1>7, <2>1, AsksIndexIs DEF IsFile
  <2>3. ~relinked' => IsPrefix(root.path, p)
    BY <1>2, <1>3, <1>7, <2>1 DEF IsFile
  <2>4. quiet' => There = p
    BY <1>5, <2>1
  <2>5. QED
    BY <1>2, <1>3, <1>4, <2>2, <2>3, <2>4, SendKeeps
<1>8. QED
  BY <1>1, <1>6, <1>7

\* serveIndexPage.
LEMMA FindIndexKeeps == ASSUME StaticInv, FindIndex PROVE StaticInv'
<1>1. PICK r \in {IndexRoot, IOError} :
        /\ IF r.err = "" THEN Goto("readIndex") ELSE Answer(500)
        /\ target' = Append(r.path, "index.html")
        /\ quiet' = (quiet /\ r # IOError)
  BY Zenon DEF FindIndex
<1>2. pc = "index" /\ Steady /\ relinked' = relinked /\ pc \notin {"boot", "done"}
  BY DEF FindIndex, Steady
<1>3. Types /\ rq.path = <<"">> /\ ~IsStatic(rq.path) /\ relinked \in BOOLEAN
  BY <1>2, PagesAre DEF StaticInv, Control, Types
<1>4. r.path \in Paths /\ IOError.err = "io"
  <2>1. IndexRoot \in Results
    BY <1>3, RootIs DEF Types, IndexRoot
  <2>2. IOError \in Results /\ IOError.err = "io"
    BY ResultIs, ErrorNames DEF IOError
  <2>3. r \in Results
    BY <1>1, <2>1, <2>2
  <2>4. QED
    BY <2>2, <2>3 DEF Results
<1>5. Loose
  <2>1. target' \in Paths
    BY <1>1, <1>4, AppendName
  <2>2. quiet' \in BOOLEAN /\ relinked' \in BOOLEAN
    BY <1>1, <1>2, <1>3
  <2>3. QED
    BY <2>1, <2>2 DEF Loose
<1>6. quiet' => r = IndexRoot
  BY <1>1
<1>7. CASE r.err = "" /\ Goto("readIndex")
  <2>1. "readIndex" \in Labels \ {"boot", "done"} /\ "readIndex" \notin InStatic
    BY DEF Labels, InStatic
  <2>2. Way("readIndex", target') /\ Clear("readIndex", target') /\ Known("readIndex", target')
    BY DEF Way, Clear, Known
  <2>3. quiet' =>
           IndexRoot.err = "" /\ target' = Append(IndexRoot.path, "index.html")
    BY <1>1, <1>6, <1>7
  <2>4. QED
    BY <1>2, <1>3, <1>5, <1>7, <2>1, <2>2, <2>3, GotoKeeps
<1>8. CASE r.err # "" /\ Answer(500)
  <2>1. MayAnswer(500)
    <3>1. quiet' => ~PageFound
      BY <1>6, <1>8 DEF PageFound
    <3>2. ~IsStatic(rq.path) /\ 500 # 200
      BY <1>3, CodesAre
    <3>3. QED
      BY <3>1, <3>2 DEF MayAnswer
  <2>2. 500 \in Codes \ {0}
    BY CodesAre
  <2>3. QED
    BY <1>2, <1>5, <1>8, <2>1, <2>2, AnswerKeeps
<1>9. QED
  BY <1>1, <1>7, <1>8

LEMMA ReadIndexKeeps == ASSUME StaticInv, ReadIndex PROVE StaticInv'
<1>1. PICK r \in {EvalSymlinks(target), IOError} :
        /\ \/ r.err = "notExist" /\ Answer(404)
           \/ r.err # "notExist" /\ ~IsFile(r) /\ Answer(500)
           \/ IsFile(r) /\ Send(r.path)
        /\ quiet' = (quiet /\ r # IOError)
  BY Zenon DEF ReadIndex
<1>2. /\ pc = "readIndex" /\ Steady /\ pc \notin {"boot", "done"} /\ target' = target
      /\ relinked' = relinked
  BY DEF ReadIndex, Steady
<1>3. /\ Types /\ rq.path = <<"">> /\ ~IsStatic(rq.path) /\ target \in Paths
      /\ relinked \in BOOLEAN
  BY <1>2, PagesAre DEF StaticInv, Control, Types
<1>4. Loose /\ r.path \in Paths
  <2>1. quiet' \in BOOLEAN
    BY <1>1
  <2>2. r.path \in Paths
    BY <1>1, <1>3, CallIs
  <2>3. QED
    BY <1>2, <1>3, <2>1, <2>2 DEF Loose
<1>5. quiet' => IndexRoot.err = "" /\ r = IndexPage
  <2>1. quiet =>
           IndexRoot.err = "" /\ target = Append(IndexRoot.path, "index.html")
    BY <1>2 DEF StaticInv, RootNow
  <2>2. quiet' => quiet /\ r = EvalSymlinks(target)
    BY <1>1
  <2>3. QED
    BY <2>1, <2>2 DEF IndexPage
<1>6. ASSUME ~IsFile(r), Answer(404) \/ Answer(500)
      PROVE  StaticInv'
  <2>1. MayAnswer(404) /\ MayAnswer(500)
    <3>1. quiet' => ~PageFound
      BY <1>5, <1>6 DEF PageFound
    <3>2. ~IsStatic(rq.path) /\ 500 # 200 /\ 404 # 200
      BY <1>3, CodesAre
    <3>3. QED
      BY <3>1, <3>2 DEF MayAnswer
  <2>2. 404 \in Codes \ {0} /\ 500 \in Codes \ {0}
    BY CodesAre
  <2>3. QED
    BY <1>2, <1>4, <1>6, <2>1, <2>2, AnswerKeeps
<1>7. CASE IsFile(r) /\ Send(r.path)
  <2>1. PICK p : p = r.path
    OBVIOUS
  <2>2. p \in Paths /\ Kind(p) = "file" /\ Send(p)
    BY <1>4, <1>7, <2>1 DEF IsFile
  <2>3. quiet' => PageFound /\ IndexPage.path = p
    BY <1>5, <1>7, <2>1 DEF PageFound
  <2>4. QED
    BY <1>2, <1>3, <1>4, <2>2, <2>3, SendKeeps
<1>8. r.err = "notExist" => ~IsFile(r)
  BY DEF IsFile
<1>9. QED
  BY <1>1, <1>6, <1>7, <1>8

LEMMA StutterKeeps == ASSUME StaticInv, UNCHANGED vars PROVE StaticInv'
<1>1. UNCHANGED <<pc, dir, root, fs, rq, target, status, body, changes, quiet, relinked>>
  BY DEF vars
<1>2. /\ Relative' = Relative /\ There' = There /\ IndexPage' = IndexPage
      /\ AsksIndex' <=> AsksIndex
      /\ IndexRoot' = IndexRoot /\ (PageFound' <=> PageFound)
  BY <1>1, Frozen
<1>3. Served' <=> Served
  BY <1>1 DEF Served
<1>4. Types'
  BY <1>1 DEF StaticInv, Types
<1>5. Control'
  <2>1. Control
    BY DEF StaticInv
  <2>2. CASE pc # "done"
    BY <1>1, <2>1, <2>2 DEF Control, Served, Relative
  <2>3. CASE pc = "done"
    <3>1. /\ pc' = "done" /\ pc' \notin InStatic
          /\ pc' \notin {"resolve", "index", "readIndex"}
      BY <1>1, <2>3 DEF InStatic
    <3>2. Served' => (status' = 400 <=> ~IsSafeStaticPath(Relative)')
      BY <1>1, <1>2, <1>3, <2>1 DEF Control
    <3>3. QED
      BY <3>1, <3>2 DEF Control
  <2>4. QED
    BY <2>2, <2>3
<1>6. OnTheWay'
  <2>1. (Way(pc, target)' <=> Way(pc, target)) /\ (Clear(pc, target)' <=> Clear(pc, target))
    BY <1>1 DEF Way, Clear, Straight, Kind, Node
  <2>2. Kind(body)' = Kind(body)
    BY <1>1 DEF Kind, Node
  <2>3. QED
    BY <1>1, <1>3, <2>1, <2>2 DEF StaticInv, OnTheWay
<1>7. RootNow'
  BY <1>1, <1>2 DEF StaticInv, RootNow
<1>8. Undisturbed'
  <2>1. Known(pc, target)' <=> Known(pc, target)
    <3>1. \A l, t : Known(l, t)' <=> Known(l, t)
      BY <1>1, Frozen
    <3>2. PICK l, t : l = pc /\ t = target
      OBVIOUS
    <3>3. Known(pc, target)' <=> Known(l, t)'
      BY <1>1, <3>2 DEF Known
    <3>4. QED
      BY <3>1, <3>2, <3>3
  <2>2. QED
    BY <1>1, <1>2, <1>3, <2>1 DEF StaticInv, Undisturbed
<1>9. QED
  BY <1>4, <1>5, <1>6, <1>7, <1>8 DEF StaticInv

LEMMA StaticStep == ASSUME StaticInv, [Next]_vars PROVE StaticInv'
<1>1. CASE UNCHANGED vars
  BY <1>1, StutterKeeps
<1>2. CASE Boot
  BY <1>2, BootKeeps
<1>3. ASSUME NEW f \in FileSystems, Deploy(f) PROVE StaticInv'
  BY <1>3, DeployKeeps
<1>4. CASE ServeHTTP
  BY <1>4, ServeHTTPKeeps
<1>5. CASE Check
  BY <1>5, CheckKeeps
<1>6. CASE ResolveFile
  BY <1>6, ResolveFileKeeps
<1>7. CASE StatFile
  BY <1>7, StatFileKeeps
<1>8. CASE ResolveIndex
  BY <1>8, ResolveIndexKeeps
<1>9. CASE StatIndex
  BY <1>9, StatIndexKeeps
<1>10. CASE ReadFile
  BY <1>10, ReadFileKeeps
<1>11. CASE FindIndex
  BY <1>11, FindIndexKeeps
<1>12. CASE ReadIndex
  BY <1>12, ReadIndexKeeps
<1>13. CASE Done
  BY <1>13, StutterKeeps DEF Done
<1>14. QED
  BY <1>1, <1>2, <1>3, <1>4, <1>5, <1>6, <1>7, <1>8, <1>9, <1>10, <1>11,
     <1>12, <1>13 DEF Next

LEMMA StaticInvariant == Spec => []StaticInv
<1>1. Init => StaticInv
  BY StaticInit
<1>2. StaticInv /\ [Next]_vars => StaticInv'
  BY StaticStep
<1>3. QED
  BY <1>1, <1>2, PTL DEF Spec

-----------------------------------------------------------------------------
(* The theorems.                                                           *)

LEMMA InvTypes == ASSUME StaticInv PROVE TypeOK
<1>1. Types /\ OnTheWay
  BY DEF StaticInv
<1>2. pc \in {"boot", "idle", "check", "resolve", "stat", "resolveIndex",
             "statIndex", "read", "index", "readIndex", "done"}
  BY <1>1 DEF Types, Labels, InStatic
<1>3. root.err \in {"", "notExist", "notDir", "loop", "io"}
  BY <1>1 DEF Types, Results, Errors
<1>4. status \in {0, 200, 400, 403, 404, 405, 500}
  BY <1>1 DEF Types, Codes
<1>5. body # <<>> => status = 200 /\ Kind(body) = "file"
  BY <1>1 DEF OnTheWay
<1>6. dir \in Dirs /\ rq \in Requests /\ changes \in 0 .. MaxChanges
  BY <1>1 DEF Types
<1>7. QED
  BY <1>2, <1>3, <1>4, <1>5, <1>6 DEF TypeOK

\* Whatever links the directory holds, wherever they lead, and whatever is
\* deployed between EvalSymlinks, Stat and ReadFile of secureStaticHandler,
\* /static/ sends a file, and one whose real path is in the root resolved at the
\* start unless a link is made, moved or removed after the last check; and
\* serveIndexPage, which resolves the root anew, shows the page of the
\* directory that is there when the request comes, or none if it has none.
THEOREM ServedIsBelowRoot == Spec => []ServedFromRoot
<1>1. ASSUME StaticInv PROVE ServedFromRoot
  <2>1. TypeOK
    BY <1>1, InvTypes
  <2>2. Served /\ status = 200 =>
           Kind(body) = "file" /\ (~relinked => IsPrefix(root.path, body))
    BY <1>1 DEF StaticInv, OnTheWay
  <2>3. pc = "done" /\ AsksIndex /\ quiet =>
           /\ status = 200 <=> PageFound
           /\ status = 200 => body = IndexPage.path
    BY <1>1 DEF StaticInv, RootNow
  <2>4. QED
    BY <2>1, <2>2, <2>3 DEF ServedFromRoot, AsksIndex, IndexPage, PageFound
<1>2. StaticInv => ServedFromRoot
  BY <1>1
<1>3. QED
  BY <1>2, StaticInvariant, PTL

\* isSafeStaticPath, a test on the cleaned path, refuses a path exactly when
\* some beginning of it leads above the root, it is absolute or it has a
\* refused character, for paths of every length.
THEOREM SafePathTest == Spec => []SafePathIsRight
<1>1. ASSUME StaticInv PROVE SafePathIsRight
  <2>1. SUFFICES ASSUME Served
                 PROVE  status = 400 <=>
                           \/ ClimbsOut(Relative)
                           \/ Len(Relative) > 1 /\ Head(Relative) = ""
                           \/ \E i \in 1 .. Len(Relative) :
                                 Relative[i] \in {"%", ":"}
    BY DEF SafePathIsRight
  <2>2. status = 400 <=> ~IsSafeStaticPath(Relative)
    BY <1>1, <2>1 DEF StaticInv, Control
  <2>3. Relative \in Paths /\ Len(Relative) > 0
    BY <1>1, <2>1, RelativeIs DEF StaticInv, Types, Served
  <2>4. Head(Relative) = Relative[1]
    BY <2>3 DEF Paths
  <2>5. (Clean(Relative) # <<>> => Clean(Relative)[1] # "..")
           <=> ~ClimbsOut(Relative)
    BY <2>3, CleanClimbs
  <2>6. QED
    BY <2>2, <2>4, <2>5 DEF IsSafeStaticPath
<1>2. StaticInv => SafePathIsRight
  BY <1>1
<1>3. QED
  BY <1>2, StaticInvariant, PTL

\* With nothing deployed and no call failing meanwhile, secureStaticHandler
\* serves a file if and only if the name, or the index.html of the directory
\* it names, is one below the root, and then it serves that one.
THEOREM FoundIsThere == Spec => []FoundIffThere
<1>1. ASSUME StaticInv PROVE FoundIffThere
  <2>1. Served /\ quiet /\ status \notin {400, 0} =>
           body = There /\ (status = 200 <=> There # <<>>)
    BY <1>1 DEF StaticInv, Undisturbed
  <2>2. QED
    BY <2>1 DEF FoundIffThere, There, Named, Index, Below
<1>2. StaticInv => FoundIffThere
  BY <1>1
<1>3. QED
  BY <1>2, StaticInvariant, PTL

=============================================================================
