--------------------------- MODULE ScannerProofs ----------------------------
(***************************************************************************)
(* For every policy the automaton NewRules builds is that of the theory,   *)
(* and a Scanner that runs on it misses no rule and invents none, for      *)
(* every input.                                                            *)
(***************************************************************************)
EXTENDS Scanner, SequenceTheorems, WellFoundedInduction, TLAPS

-----------------------------------------------------------------------------
(* Suffixes.                                                               *)

Text == Seq(Bytes)

\* The last k bytes of n.
End(n, k) == SubSeq(n, Len(n) - k + 1, Len(n))
Ends(t, n) == Len(t) <= Len(n) /\ t = End(n, Len(t))

\* The last k bytes are a text of length k, read from the end.
LEMMA EndIs ==
    ASSUME NEW n \in Text, NEW k \in 0 .. Len(n)
    PROVE  /\ End(n, k) \in Text
           /\ Len(End(n, k)) = k
           /\ \A i \in 1 .. k : End(n, k)[i] = n[Len(n) - k + i]
<1>1. Len(n) \in Nat
  BY DEF Text
<1>2. \A i \in Len(n) - k + 1 .. Len(n) : n[i] \in Bytes
  BY <1>1 DEF Text
<1>3. /\ SubSeq(n, Len(n) - k + 1, Len(n)) \in Seq(Bytes)
      /\ Len(SubSeq(n, Len(n) - k + 1, Len(n))) =
            IF Len(n) - k + 1 <= Len(n) THEN Len(n) - (Len(n) - k + 1) + 1 ELSE 0
      /\ \A i \in 1 .. Len(n) - (Len(n) - k + 1) + 1 :
            SubSeq(n, Len(n) - k + 1, Len(n))[i] = n[Len(n) - k + 1 + i - 1]
  BY <1>1, <1>2, SubSeqProperties
<1>4. QED  BY <1>1, <1>3 DEF End, Text

\* Texts that agree in length and in every byte are the same.
LEMMA Same ==
    ASSUME NEW s \in Text, NEW t \in Text, Len(s) = Len(t),
           \A i \in 1 .. Len(s) : s[i] = t[i]
    PROVE  s = t
  BY SeqEqual DEF Text

\* When one text ends another.
LEMMA EndsIff ==
    ASSUME NEW t \in Text, NEW n \in Text
    PROVE  Ends(t, n) <=> /\ Len(t) <= Len(n)
                          /\ \A i \in 1 .. Len(t) : t[i] = n[Len(n) - Len(t) + i]
<1>1. Len(t) \in Nat /\ Len(n) \in Nat
  BY DEF Text
<1>2. CASE Len(t) <= Len(n)
  <2>1. Len(t) \in 0 .. Len(n)
    BY <1>1, <1>2
  <2>2. /\ End(n, Len(t)) \in Text
        /\ Len(End(n, Len(t))) = Len(t)
        /\ \A i \in 1 .. Len(t) : End(n, Len(t))[i] = n[Len(n) - Len(t) + i]
    BY <2>1, EndIs
  <2>3. ASSUME \A i \in 1 .. Len(t) : t[i] = n[Len(n) - Len(t) + i]
        PROVE  t = End(n, Len(t))
    BY <2>2, <2>3, Same
  <2>4. QED  BY <1>2, <2>2, <2>3 DEF Ends
<1>3. CASE ~(Len(t) <= Len(n))
  BY <1>3 DEF Ends
<1>4. QED  BY <1>2, <1>3

LEMMA EndsRefl == ASSUME NEW n \in Text PROVE Ends(n, n) /\ Ends(Root, n)
<1>1. Len(n) \in Nat /\ Root \in Text /\ Len(Root) = 0
  BY DEF Text, Root
<1>2. QED  BY <1>1, EndsIff

\* Ending is transitive.
LEMMA EndsTrans ==
    ASSUME NEW s \in Text, NEW t \in Text, NEW n \in Text, Ends(s, t), Ends(t, n)
    PROVE  Ends(s, n)
<1>1. Len(s) \in Nat /\ Len(t) \in Nat /\ Len(n) \in Nat
  BY DEF Text
<1>2. /\ Len(s) <= Len(t)
      /\ \A i \in 1 .. Len(s) : s[i] = t[Len(t) - Len(s) + i]
  BY EndsIff
<1>3. /\ Len(t) <= Len(n)
      /\ \A i \in 1 .. Len(t) : t[i] = n[Len(n) - Len(t) + i]
  BY EndsIff
<1>4. ASSUME NEW i \in 1 .. Len(s)
      PROVE  s[i] = n[Len(n) - Len(s) + i]
  <2>1. Len(t) - Len(s) + i \in 1 .. Len(t)
    BY <1>1, <1>2
  <2>2. Len(n) - Len(t) + (Len(t) - Len(s) + i) = Len(n) - Len(s) + i
    BY <1>1, <2>1
  <2>3. QED  BY <1>2, <1>3, <2>1, <2>2
<1>5. QED  BY <1>1, <1>2, <1>3, <1>4, EndsIff

\* Of two ends of a text the shorter one ends the other.
LEMMA EndsNested ==
    ASSUME NEW s \in Text, NEW t \in Text, NEW n \in Text, Ends(s, n), Ends(t, n),
           Len(s) <= Len(t)
    PROVE  Ends(s, t)
<1>1. Len(s) \in Nat /\ Len(t) \in Nat /\ Len(n) \in Nat
  BY DEF Text
<1>2. /\ Len(s) <= Len(n)
      /\ \A i \in 1 .. Len(s) : s[i] = n[Len(n) - Len(s) + i]
  BY EndsIff
<1>3. /\ Len(t) <= Len(n)
      /\ \A i \in 1 .. Len(t) : t[i] = n[Len(n) - Len(t) + i]
  BY EndsIff
<1>4. ASSUME NEW i \in 1 .. Len(s)
      PROVE  s[i] = t[Len(t) - Len(s) + i]
  <2>1. Len(t) - Len(s) + i \in 1 .. Len(t)
    BY <1>1
  <2>2. Len(n) - Len(t) + (Len(t) - Len(s) + i) = Len(n) - Len(s) + i
    BY <1>1, <2>1
  <2>3. QED  BY <1>2, <1>3, <2>1, <2>2
<1>5. QED  BY <1>1, <1>4, EndsIff

\* Two ends of a text of the same length are the same.
LEMMA EndsSame ==
    ASSUME NEW s \in Text, NEW t \in Text, NEW n \in Text, Ends(s, n), Ends(t, n),
           Len(s) = Len(t)
    PROVE  s = t
  BY DEF Ends

\* A text with a byte more.
Longer(t, s, b) ==
    /\ t \in Text /\ Len(t) = Len(s) + 1
    /\ \A i \in 1 .. Len(s) : t[i] = s[i]
    /\ t[Len(s) + 1] = b

LEMMA AppendLonger ==
    ASSUME NEW s \in Text, NEW b \in Bytes
    PROVE  Append(s, b) # Root /\ Longer(Append(s, b), s, b)
  BY AppendProperties DEF Text, Longer, Root

LEMMA EndsLonger ==
    ASSUME NEW s \in Text, NEW n \in Text, NEW b \in Bytes,
           NEW t, Longer(t, s, b), NEW m, Longer(m, n, b)
    PROVE  Ends(t, m) <=> Ends(s, n)
<1>1. Len(s) \in Nat /\ Len(n) \in Nat
  BY DEF Text
<1>2. ASSUME Ends(s, n) PROVE Ends(t, m)
  <2>1. /\ Len(s) <= Len(n)
        /\ \A i \in 1 .. Len(s) : s[i] = n[Len(n) - Len(s) + i]
    BY <1>2, EndsIff
  <2>2. ASSUME NEW i \in 1 .. Len(t)
        PROVE  t[i] = m[Len(m) - Len(t) + i]
    <3>1. Len(m) - Len(t) + i = Len(n) - Len(s) + i
      BY <1>1 DEF Longer
    <3>2. CASE i = Len(s) + 1
      BY <1>1, <3>1, <3>2 DEF Longer
    <3>3. CASE i # Len(s) + 1
      <4>1. i \in 1 .. Len(s) /\ Len(n) - Len(s) + i \in 1 .. Len(n)
        BY <1>1, <2>1, <3>3 DEF Longer
      <4>2. QED  BY <2>1, <3>1, <4>1 DEF Longer
    <3>4. QED  BY <3>2, <3>3
  <2>3. Len(t) <= Len(m)
    BY <1>1, <2>1 DEF Longer
  <2>4. QED  BY <2>2, <2>3, EndsIff DEF Longer
<1>3. ASSUME Ends(t, m) PROVE Ends(s, n)
  <2>1. /\ Len(t) <= Len(m)
        /\ \A i \in 1 .. Len(t) : t[i] = m[Len(m) - Len(t) + i]
    BY <1>3, EndsIff DEF Longer
  <2>2. ASSUME NEW i \in 1 .. Len(s)
        PROVE  s[i] = n[Len(n) - Len(s) + i]
    <3>1. Len(m) - Len(t) + i = Len(n) - Len(s) + i
      BY <1>1 DEF Longer
    <3>2. i \in 1 .. Len(t) /\ Len(n) - Len(s) + i \in 1 .. Len(n)
      BY <1>1, <2>1 DEF Longer
    <3>3. QED  BY <2>1, <3>1, <3>2 DEF Longer
  <2>3. Len(s) <= Len(n)
    BY <1>1, <2>1 DEF Longer
  <2>4. QED  BY <2>2, <2>3, EndsIff
<1>4. QED  BY <1>2, <1>3

\* One byte more on both sides.
LEMMA EndsAppend ==
    ASSUME NEW s \in Text, NEW n \in Text, NEW b \in Bytes
    PROVE  Ends(Append(s, b), Append(n, b)) <=> Ends(s, n)
<1>1. Longer(Append(s, b), s, b) /\ Longer(Append(n, b), n, b)
  BY AppendLonger
<1>2. QED  BY <1>1, EndsLonger

\* Every text but the empty one is a shorter one and a byte.
LEMMA Split ==
    ASSUME NEW t \in Text, t # Root
    PROVE  \E s \in Text, b \in Bytes : t = Append(s, b)
  BY SequenceEmptyOrAppend DEF Text, Root

\* What ends a text with a byte more ends in that byte.
LEMMA EndsSplit ==
    ASSUME NEW t \in Text, NEW n \in Text, NEW b \in Bytes, t # Root,
           Ends(t, Append(n, b))
    PROVE  \E s \in Text : t = Append(s, b) /\ Ends(s, n)
<1>1. PICK s \in Text, c \in Bytes : t = Append(s, c)
  BY Split
<1>2. Longer(t, s, c)
  BY <1>1, AppendLonger
<1>3. PICK m : m = Append(n, b)
  OBVIOUS
<1>4. Longer(m, n, b) /\ Ends(t, m)
  BY <1>3, AppendLonger
<1>5. b = c
  <2>1. Len(s) \in Nat /\ Len(n) \in Nat
    BY DEF Text
  <2>2. \A i \in 1 .. Len(t) : t[i] = m[Len(m) - Len(t) + i]
    BY <1>4, EndsIff DEF Longer
  <2>3. Len(t) \in 1 .. Len(t) /\ Len(m) - Len(t) + Len(t) = Len(m)
    BY <1>2, <1>4, <2>1 DEF Longer
  <2>4. QED  BY <1>2, <1>4, <2>2, <2>3 DEF Longer
<1>6. QED  BY <1>1, <1>5, EndsAppend

\* The suffixes are the ends.
LEMMA SuffixesAre ==
    ASSUME NEW n \in Text
    PROVE  Suffixes(n) = {t \in Text : Ends(t, n)}
<1>1. Len(n) \in Nat
  BY DEF Text
<1>2. ASSUME NEW t \in Suffixes(n) PROVE t \in Text /\ Ends(t, n)
  <2>1. CASE t = <<>>
    BY <2>1, EndsRefl DEF Root, Text
  <2>2. CASE \E l \in 1 .. Len(n) : t = SubSeq(n, l, Len(n))
    <3>1. PICK l \in 1 .. Len(n) : t = SubSeq(n, l, Len(n))
      BY <2>2
    <3>2. Len(n) - l + 1 \in 0 .. Len(n) /\ Len(n) - (Len(n) - l + 1) + 1 = l
      BY <1>1
    <3>3. t = End(n, Len(n) - l + 1)
      BY <3>1, <3>2 DEF End
    <3>4. QED  BY <1>1, <3>2, <3>3, EndIs DEF Ends
  <2>3. QED  BY <2>1, <2>2 DEF Suffixes
<1>3. ASSUME NEW t \in Text, Ends(t, n) PROVE t \in Suffixes(n)
  <2>1. Len(t) \in Nat /\ Len(t) <= Len(n) /\ t = SubSeq(n, Len(n) - Len(t) + 1, Len(n))
    BY <1>3 DEF Ends, End, Text
  <2>2. CASE Len(t) = 0
    BY <2>2, EmptySeq DEF Text, Suffixes
  <2>3. CASE Len(t) # 0
    <3>1. Len(n) - Len(t) + 1 \in 1 .. Len(n)
      BY <1>1, <2>1, <2>3
    <3>2. QED  BY <2>1, <3>1 DEF Suffixes
  <2>4. QED  BY <2>2, <2>3
<1>4. QED  BY <1>2, <1>3

LEMMA ProperSuffixesAre ==
    ASSUME NEW n \in Text, n # Root
    PROVE  ProperSuffixes(n) = {t \in Text : Ends(t, n) /\ Len(t) < Len(n)}
<1>1. Len(n) \in Nat \ {0}
  BY EmptySeq DEF Text, Root
<1>2. ASSUME NEW t \in ProperSuffixes(n)
      PROVE t \in Text /\ Ends(t, n) /\ Len(t) < Len(n)
  <2>1. CASE t = Root
    BY <1>1, <2>1, EndsRefl DEF Root, Text
  <2>2. CASE \E l \in 2 .. Len(n) : t = SubSeq(n, l, Len(n))
    <3>1. PICK l \in 2 .. Len(n) : t = SubSeq(n, l, Len(n))
      BY <2>2
    <3>2. Len(n) - l + 1 \in 0 .. Len(n) /\ Len(n) - (Len(n) - l + 1) + 1 = l
      BY <1>1
    <3>3. t = End(n, Len(n) - l + 1)
      BY <3>1, <3>2 DEF End
    <3>4. QED  BY <1>1, <3>2, <3>3, EndIs DEF Ends
  <2>3. QED  BY <2>1, <2>2 DEF ProperSuffixes
<1>3. ASSUME NEW t \in Text, Ends(t, n), Len(t) < Len(n)
      PROVE t \in ProperSuffixes(n)
  <2>1. Len(t) \in Nat /\ t = SubSeq(n, Len(n) - Len(t) + 1, Len(n))
    BY <1>3 DEF Ends, End, Text
  <2>2. CASE Len(t) = 0
    BY <2>2, EmptySeq DEF Text, ProperSuffixes, Root
  <2>3. CASE Len(t) # 0
    <3>1. Len(n) - Len(t) + 1 \in 2 .. Len(n)
      BY <1>1, <1>3, <2>1, <2>3
    <3>2. QED  BY <2>1, <3>1 DEF ProperSuffixes
  <2>4. QED  BY <2>2, <2>3
<1>4. QED  BY <1>2, <1>3
-----------------------------------------------------------------------------
(* The loop of Normalize.                                                  *)

\* Every set of naturals with an element has a least one.
LEMMA Least ==
    ASSUME NEW T, T \subseteq Nat, T # {}
    PROVE  \E x \in T : \A y \in T : x <= y
<1>1. PICK x \in T : \A y \in T : <<y, x>> \notin OpToRel(<, Nat)
  BY WFMin, NatLessThanWellFounded
<1>2. \A y \in T : ~(y < x)
  BY <1>1 DEF OpToRel
<1>3. QED  BY <1>2

\* What the loop goes on with is shorter.
LEMMA TailIs ==
    ASSUME NEW t \in Text, t # <<>>
    PROVE  /\ Head(t) \in Bytes /\ Tail(t) \in Text
           /\ Len(Tail(t)) < Len(t)
           /\ Len(t) >= 2 => Tail(Tail(t)) \in Text /\ Len(Tail(Tail(t))) < Len(t)
<1>1. Len(t) \in Nat /\ Head(t) \in Bytes /\ Tail(t) \in Text /\ Len(Tail(t)) = Len(t) - 1
  BY HeadTailProperties DEF Text
<1>2. ASSUME Len(t) >= 2
      PROVE  Tail(Tail(t)) \in Text /\ Len(Tail(Tail(t))) = Len(Tail(t)) - 1
  <2>1. Len(Tail(t)) # 0
    BY <1>1, <1>2
  <2>1a. Tail(t) # <<>>
    BY <2>1, EmptySeq
  <2>2. QED  BY <1>1, <2>1a, HeadTailProperties DEF Text
<1>3. QED  BY <1>1, <1>2

LEMMA Short ==
    ASSUME NEW a \in Bytes, NEW b \in Bytes
    PROVE  <<a>> \in Text /\ <<a, b>> \in Text
  BY DEF Text

LEMMA ModesClosed ==
    ASSUME NEW m \in Modes
    PROVE  Spaced(m) \in Modes /\ Opened(m) \in Modes /\ "byte" \in Modes
  BY DEF Modes, Spaced, Opened

\* A turn looks only at shorter texts.
LEMMA TurnSame ==
    ASSUME NEW f, NEW g, NEW t \in Text, NEW m \in Modes,
           \A u \in Text : Len(u) < Len(t) => f[u] = g[u]
    PROVE  Turn(f, t, m) = Turn(g, t, m)
<1>1. CASE t = <<>>
  BY <1>1 DEF Turn
<1>2. CASE t # <<>>
  <2>1. f[Tail(t)] = g[Tail(t)]
    BY <1>2, TailIs
  <2>2. Len(t) >= 2 => f[Tail(Tail(t))] = g[Tail(Tail(t))]
    BY <1>2, TailIs
  <2>3. QED  BY <2>1, <2>2 DEF Turn, Begins
<1>3. QED  BY <1>1, <1>2

LEMMA TurnText ==
    ASSUME NEW f, NEW t \in Text, NEW m \in Modes,
           \A u \in Text : Len(u) < Len(t) => f[u] \in [Modes -> Text]
    PROVE  Turn(f, t, m) \in Text
<1>0. <<>> \in Text
  BY DEF Text
<1>1. CASE t = <<>>
  BY <1>0, <1>1 DEF Turn
<1>2. CASE t # <<>>
  <2>1. Head(t) \in Bytes /\ f[Tail(t)] \in [Modes -> Text]
    BY <1>2, TailIs
  <2>2. Len(t) >= 2 => f[Tail(Tail(t))] \in [Modes -> Text]
    BY <1>2, TailIs
  <2>3. /\ f[Tail(t)][Spaced(m)] \in Text /\ f[Tail(t)][m] \in Text
        /\ f[Tail(t)]["byte"] \in Text
    BY <2>1, ModesClosed
  <2>4. Len(t) >= 2 => /\ f[Tail(Tail(t))][Spaced(m)] \in Text
                       /\ f[Tail(Tail(t))][Opened(m)] \in Text
    BY <2>2, ModesClosed
  <2>5. Lower[Head(t)] \in Bytes /\ " " \in Bytes
    BY <2>1, TextAssumption
  <2>6. <<" ", Lower[Head(t)]>> \in Text /\ <<Lower[Head(t)]>> \in Text
    BY <2>5, Short
  <2>7. /\ <<" ", Lower[Head(t)]>> \o f[Tail(t)]["byte"] \in Text
        /\ <<Lower[Head(t)]>> \o f[Tail(t)]["byte"] \in Text
    BY <2>3, <2>6, ConcatProperties DEF Text
  <2>8. QED  BY <2>3, <2>4, <2>7, <1>0 DEF Turn, Begins
<1>3. QED  BY <1>1, <1>2

\* A function that satisfies the loop's equation up to length k.
Solves(f, k) == \A t \in Text : Len(t) <= k => f[t] = [m \in Modes |-> Turn(f, t, m)]

\* Its values are texts, and any other one has the same.
LEMMA SolutionText ==
    ASSUME NEW k \in Nat, NEW f, Solves(f, k), NEW t \in Text, Len(t) <= k
    PROVE  f[t] \in [Modes -> Text]
<1> DEFINE Bad == {l \in Nat : \E u \in Text : Len(u) <= k /\ Len(u) = l
                                               /\ f[u] \notin [Modes -> Text]}
<1>1. SUFFICES ASSUME Bad # {} PROVE FALSE
  BY DEF Text
<1>2. PICK l \in Bad : \A j \in Bad : l <= j
  <2> HIDE DEF Bad
  <2>1. Bad \subseteq Nat  BY DEF Bad
  <2>2. QED  BY <1>1, <2>1, Least
<1>3. PICK u \in Text : Len(u) <= k /\ Len(u) = l /\ f[u] \notin [Modes -> Text]
  BY DEF Bad
<1>4. \A v \in Text : Len(v) < Len(u) => f[v] \in [Modes -> Text]
  <2>1. SUFFICES ASSUME NEW v \in Text, Len(v) < Len(u), f[v] \notin [Modes -> Text]
                 PROVE  FALSE
    OBVIOUS
  <2>2. Len(v) \in Nat /\ Len(v) <= k
    BY <1>3, <2>1 DEF Text
  <2>3. Len(v) \in Bad
    BY <2>1, <2>2
  <2>4. QED  BY <1>2, <1>3, <2>1, <2>2, <2>3
<1>5. \A m \in Modes : Turn(f, u, m) \in Text
  BY <1>4, TurnText
<1>6. f[u] = [m \in Modes |-> Turn(f, u, m)]
  BY <1>3 DEF Solves
<1>7. QED  BY <1>3, <1>5, <1>6

\* Two solutions agree, or they would differ in a shortest text.
LEMMA SolutionUnique ==
    ASSUME NEW k \in Nat, NEW f, Solves(f, k), NEW g, Solves(g, k),
           NEW t \in Text, Len(t) <= k
    PROVE  f[t] = g[t]
<1> DEFINE Bad == {l \in Nat : \E u \in Text : Len(u) <= k /\ Len(u) = l
                                               /\ f[u] # g[u]}
<1>1. SUFFICES ASSUME Bad # {} PROVE FALSE
  BY DEF Text
<1>2. PICK l \in Bad : \A j \in Bad : l <= j
  <2> HIDE DEF Bad
  <2>1. Bad \subseteq Nat  BY DEF Bad
  <2>2. QED  BY <1>1, <2>1, Least
<1>3. PICK u \in Text : Len(u) <= k /\ Len(u) = l /\ f[u] # g[u]
  BY DEF Bad
<1>4. \A v \in Text : Len(v) < Len(u) => f[v] = g[v]
  <2>1. SUFFICES ASSUME NEW v \in Text, Len(v) < Len(u), f[v] # g[v]
                 PROVE  FALSE
    OBVIOUS
  <2>2. Len(v) \in Nat /\ Len(v) <= k
    BY <1>3, <2>1 DEF Text
  <2>3. Len(v) \in Bad
    BY <2>1, <2>2
  <2>4. QED  BY <1>2, <1>3, <2>1, <2>2, <2>3
<1>5. \A m \in Modes : Turn(f, u, m) = Turn(g, u, m)
  BY <1>4, TurnSame
<1>6. f[u] = [m \in Modes |-> Turn(f, u, m)] /\ g[u] = [m \in Modes |-> Turn(g, u, m)]
  BY <1>3 DEF Solves
<1>7. QED  BY <1>3, <1>5, <1>6

\* A solution up to k extends to k + 1.
LEMMA SolutionMore ==
    ASSUME NEW k \in Nat, NEW f, Solves(f, k)
    PROVE  \E g : Solves(g, k + 1)
<1> DEFINE g == [t \in Text |-> IF Len(t) <= k THEN f[t]
                                ELSE [m \in Modes |-> Turn(f, t, m)]]
<1>1. ASSUME NEW t \in Text, Len(t) <= k + 1
      PROVE  g[t] = [m \in Modes |-> Turn(g, t, m)]
  <2>1. Len(t) \in Nat
    BY DEF Text
  <2>2. \A u \in Text : Len(u) < Len(t) => f[u] = g[u]
    BY <1>1, <2>1 DEF Text
  <2> HIDE DEF g
  <2>3. \A m \in Modes : Turn(f, t, m) = Turn(g, t, m)
    BY <2>2, TurnSame
  <2>4. g[t] = [m \in Modes |-> Turn(f, t, m)]
    <3>1. CASE Len(t) <= k
      BY <3>1 DEF g, Solves
    <3>2. CASE ~(Len(t) <= k)
      BY <3>2 DEF g
    <3>3. QED  BY <3>1, <3>2
  <2>5. QED  BY <2>3, <2>4
<1>2. Solves(g, k + 1)
  <2> HIDE DEF g
  <2>1. QED  BY <1>1 DEF Solves
<1>3. QED  BY <1>2

\* So there is one for every k: there is no least k without.
LEMMA SolutionExists == ASSUME NEW k \in Nat PROVE \E f : Solves(f, k)
<1> DEFINE Bad == {l \in Nat : ~\E f : Solves(f, l)}
<1>1. SUFFICES ASSUME Bad # {} PROVE FALSE
  OBVIOUS
<1>2. PICK l \in Bad : \A j \in Bad : l <= j
  <2> HIDE DEF Bad
  <2>1. Bad \subseteq Nat  BY DEF Bad
  <2>2. QED  BY <1>1, <2>1, Least
<1>3. CASE l = 0
  <2> DEFINE f == [t \in Text |-> [m \in Modes |-> <<>>]]
  <2>1. ASSUME NEW t \in Text, Len(t) <= 0
        PROVE  f[t] = [m \in Modes |-> Turn(f, t, m)]
    <3>1. t = <<>>
      BY <2>1, EmptySeq DEF Text
    <3>2. \A m \in Modes : Turn(f, t, m) = <<>>
      BY <3>1 DEF Turn
    <3>3. f[t] = [m \in Modes |-> <<>>]
      OBVIOUS
    <3> HIDE DEF f
    <3>4. QED  BY <3>2, <3>3
  <2> HIDE DEF f
  <2>2. Solves(f, 0)
    BY <2>1 DEF Solves
  <2>3. QED  BY <1>3, <2>2
<1>4. CASE l # 0
  <2>1. l - 1 \in Nat /\ l - 1 \notin Bad
    BY <1>2, <1>4
  <2>2. PICK f : Solves(f, l - 1)
    BY <2>1
  <2>3. \E g : Solves(g, (l - 1) + 1)
    BY <2>1, <2>2, SolutionMore
  <2>4. (l - 1) + 1 = l
    OBVIOUS
  <2>5. QED  BY <2>3, <2>4
<1>5. QED  BY <1>3, <1>4

LEMMA SolvesLess ==
    ASSUME NEW k \in Nat, NEW l \in Nat, l <= k, NEW f, Solves(f, k)
    PROVE  Solves(f, l)
  BY DEF Solves, Text

\* So there is one loop, and it computes texts.
LEMMA LoopIs ==
    /\ \A t \in Text : Loop[t] \in [Modes -> Text]
    /\ \A t \in Text, m \in Modes : Loop[t][m] = Turn(Loop, t, m)
<1> DEFINE Sol(k) == CHOOSE f : Solves(f, k)
           F == [t \in Text |-> Sol(Len(t))[t]]
<1>1. \A k \in Nat : Solves(Sol(k), k)
  BY SolutionExists
<1> HIDE DEF Sol
<1>2. ASSUME NEW t \in Text
      PROVE  F[t] = [m \in Modes |-> Turn(F, t, m)]
  <2>1. Len(t) \in Nat
    BY DEF Text
  <2>2. ASSUME NEW u \in Text, Len(u) < Len(t)
        PROVE  Sol(Len(t))[u] = F[u]
    <3>1. Len(u) \in Nat /\ Len(u) <= Len(t)
      BY <2>1, <2>2 DEF Text
    <3>2. Solves(Sol(Len(t)), Len(u)) /\ Solves(Sol(Len(u)), Len(u))
      BY <1>1, <2>1, <3>1, SolvesLess
    <3>3. Sol(Len(t))[u] = Sol(Len(u))[u]
      BY <3>1, <3>2, SolutionUnique
    <3>4. QED  BY <3>3
  <2>3. F[t] = Sol(Len(t))[t]
    OBVIOUS
  <2> HIDE DEF F
  <2>4. \A m \in Modes : Turn(Sol(Len(t)), t, m) = Turn(F, t, m)
    BY <2>2, TurnSame
  <2>5. Sol(Len(t))[t] = [m \in Modes |-> Turn(Sol(Len(t)), t, m)]
    BY <1>1, <2>1 DEF Solves
  <2>6. QED  BY <2>3, <2>4, <2>5
<1>3. F = [t \in Text |-> [m \in Modes |-> Turn(F, t, m)]]
  <2>1. F = [t \in Text |-> F[t]]
    OBVIOUS
  <2> HIDE DEF F
  <2>2. QED  BY <1>2, <2>1
<1>4. Loop = [t \in Text |-> [m \in Modes |-> Turn(Loop, t, m)]]
  <2> HIDE DEF F
  <2>1. QED  BY <1>3 DEF Loop, Text
<1>5. ASSUME NEW t \in Text
      PROVE  Loop[t] = [m \in Modes |-> Turn(Loop, t, m)]
  <2> HIDE DEF Loop
  <2>1. QED  BY <1>4
<1>6. ASSUME NEW t \in Text PROVE Loop[t] \in [Modes -> Text]
  <2>1. Solves(Loop, Len(t))
    BY <1>5 DEF Solves
  <2>2. Len(t) \in Nat /\ Len(t) <= Len(t)
    BY DEF Text
  <2>3. QED  BY <2>1, <2>2, SolutionText
<1>7. QED  BY <1>5, <1>6

\* The empty text comes to nothing.
LEMMA LoopEmpty == ASSUME NEW m \in Modes PROVE Loop[<<>>][m] = <<>>
<1>1. <<>> \in Text
  BY DEF Text
<1>2. Loop[<<>>][m] = Turn(Loop, <<>>, m)
  BY <1>1, LoopIs
<1>3. QED  BY <1>2 DEF Turn

\* Normalize makes a text of a text, and nothing of nothing.
LEMMA NormalizeText ==
    ASSUME NEW t \in Text
    PROVE  Normalize(t) \in Text /\ Normalize(<<>>) = <<>>
<1>1. "start" \in Modes
  BY DEF Modes
<1>2. Loop[t]["start"] \in Text
  BY <1>1, LoopIs
<1>3. ASSUME NEW u \in Text PROVE TrimTrailingSpace(u) \in Text
  <2>1. Len(u) \in Nat
    BY DEF Text
  <2>2. CASE u = <<>>
    BY <2>2 DEF TrimTrailingSpace
  <2>3. CASE u # <<>>
    <3>1. \A i \in 1 .. Len(u) - 1 : u[i] \in Bytes
      BY <2>1 DEF Text
    <3>2. SubSeq(u, 1, Len(u) - 1) \in Seq(Bytes)
      BY <2>1, <3>1, SubSeqProperties
    <3>3. QED  BY <3>2 DEF TrimTrailingSpace, Front, Text
  <2>4. QED  BY <2>2, <2>3
<1>4. TrimTrailingSpace(<<>>) = <<>>
  BY DEF TrimTrailingSpace
<1>5. QED  BY <1>1, <1>2, <1>3, <1>4, LoopEmpty DEF Normalize

-----------------------------------------------------------------------------
(* Prefixes and links.                                                     *)

\* The first k bytes of n.
Begin(n, k) == SubSeq(n, 1, k)

LEMMA BeginIs ==
    ASSUME NEW n \in Text, NEW k \in 0 .. Len(n)
    PROVE  /\ Begin(n, k) \in Text
           /\ Len(Begin(n, k)) = k
           /\ \A i \in 1 .. k : Begin(n, k)[i] = n[i]
<1>1. Len(n) \in Nat
  BY DEF Text
<1>2. \A i \in 1 .. k : n[i] \in Bytes
  BY <1>1 DEF Text
<1>3. /\ SubSeq(n, 1, k) \in Seq(Bytes)
      /\ Len(SubSeq(n, 1, k)) = IF 1 <= k THEN k - 1 + 1 ELSE 0
      /\ \A i \in 1 .. k - 1 + 1 : SubSeq(n, 1, k)[i] = n[1 + i - 1]
  BY <1>1, <1>2, SubSeqProperties
<1>4. QED  BY <1>1, <1>3 DEF Begin, Text

LEMMA BeginAll == ASSUME NEW n \in Text PROVE Begin(n, Len(n)) = n
  BY SubSeqFull DEF Text, Begin

LEMMA BeginBegin ==
    ASSUME NEW n \in Text, NEW k \in 0 .. Len(n), NEW l \in 0 .. k
    PROVE  Begin(Begin(n, k), l) = Begin(n, l)
<1>1. Len(n) \in Nat /\ l \in 0 .. Len(n)
  BY DEF Text
<1>2. /\ Begin(n, k) \in Text /\ Len(Begin(n, k)) = k
      /\ \A i \in 1 .. k : Begin(n, k)[i] = n[i]
  BY BeginIs
<1>3. /\ Begin(n, l) \in Text /\ Len(Begin(n, l)) = l
      /\ \A i \in 1 .. l : Begin(n, l)[i] = n[i]
  BY <1>1, BeginIs
<1>4. PICK u : u = Begin(n, k)
  OBVIOUS
<1>5. u \in Text /\ l \in 0 .. Len(u) /\ \A i \in 1 .. k : u[i] = n[i]
  BY <1>2, <1>4
<1>6. /\ Begin(u, l) \in Text /\ Len(Begin(u, l)) = l
      /\ \A i \in 1 .. l : Begin(u, l)[i] = u[i]
  BY <1>5, BeginIs
<1>7. \A i \in 1 .. l : Begin(u, l)[i] = Begin(n, l)[i]
  BY <1>3, <1>5, <1>6
<1>8. QED  BY <1>3, <1>4, <1>6, <1>7, Same

LEMMA BeginAppend ==
    ASSUME NEW n \in Text, NEW b \in Bytes
    PROVE  Begin(Append(n, b), Len(n)) = n
<1>1. PICK t : t = Append(n, b)
  OBVIOUS
<1>2. Longer(t, n, b)
  BY <1>1, AppendLonger
<1>3. Len(n) \in Nat /\ Len(n) \in 0 .. Len(t) /\ t \in Text
  BY <1>2 DEF Longer, Text
<1>4. /\ Begin(t, Len(n)) \in Text /\ Len(Begin(t, Len(n))) = Len(n)
      /\ \A i \in 1 .. Len(n) : Begin(t, Len(n))[i] = t[i]
  BY <1>3, BeginIs
<1>5. \A i \in 1 .. Len(n) : Begin(t, Len(n))[i] = n[i]
  BY <1>2, <1>4 DEF Longer
<1>6. QED  BY <1>1, <1>4, <1>5, Same

\* A beginning with the next byte.
LEMMA BeginNext ==
    ASSUME NEW n \in Text, NEW k \in 0 .. Len(n), k < Len(n)
    PROVE  n[k + 1] \in Bytes /\ Begin(n, k + 1) = Append(Begin(n, k), n[k + 1])
<1>1. Len(n) \in Nat /\ k \in Nat /\ k + 1 \in 1 .. Len(n) /\ k + 1 \in 0 .. Len(n)
  BY DEF Text
<1>2. n[k + 1] \in Bytes
  BY <1>1 DEF Text
<1>3. /\ Begin(n, k) \in Text /\ Len(Begin(n, k)) = k
      /\ \A i \in 1 .. k : Begin(n, k)[i] = n[i]
  BY BeginIs
<1>4. PICK t : t = Append(Begin(n, k), n[k + 1])
  OBVIOUS
<1>5. Longer(t, Begin(n, k), n[k + 1])
  BY <1>2, <1>3, <1>4, AppendLonger
<1>6. /\ Begin(n, k + 1) \in Text /\ Len(Begin(n, k + 1)) = k + 1
      /\ \A i \in 1 .. k + 1 : Begin(n, k + 1)[i] = n[i]
  BY <1>1, BeginIs
<1>7. t \in Text /\ Len(t) = k + 1
  BY <1>3, <1>5 DEF Longer
<1>8. ASSUME NEW i \in 1 .. k + 1 PROVE t[i] = Begin(n, k + 1)[i]
  <2>1. CASE i = k + 1
    BY <1>3, <1>5, <1>6, <2>1 DEF Longer
  <2>2. CASE i # k + 1
    <3>1. i \in 1 .. k
      BY <1>1, <2>2
    <3>2. QED  BY <1>3, <1>5, <1>6, <3>1 DEF Longer
  <2>3. QED  BY <2>1, <2>2
<1>9. QED  BY <1>2, <1>4, <1>6, <1>7, <1>8, Same

\* A set of texts with their prefixes.
Closed(N) == N \subseteq Text /\ \A n \in N : \A k \in 0 .. Len(n) : Begin(n, k) \in N

\* The parent of a node is a node.
LEMMA ClosedParent ==
    ASSUME NEW N, Closed(N), NEW n \in Text, NEW b \in Bytes, Append(n, b) \in N
    PROVE  n \in N
<1>1. Len(n) \in 0 .. Len(Append(n, b))
  BY AppendLonger DEF Longer, Text
<1>2. Begin(Append(n, b), Len(n)) \in N
  BY <1>1 DEF Closed
<1>3. QED  BY <1>2, BeginAppend

LEMMA PrefixesClosed == ASSUME NEW t \in Text PROVE Closed(Prefixes(t)) /\ t \in Prefixes(t)
<1>0. Len(t) \in Nat
  BY DEF Text
<1>1. \A n : n \in Prefixes(t) <=> \E k \in 0 .. Len(t) : n = Begin(t, k)
  BY DEF Prefixes, Begin
<1>2. Prefixes(t) \subseteq Text
  BY <1>1, BeginIs
<1>3. ASSUME NEW n \in Prefixes(t), NEW l \in 0 .. Len(n)
      PROVE  Begin(n, l) \in Prefixes(t)
  <2>1. PICK k \in 0 .. Len(t) : n = Begin(t, k)
    BY <1>1
  <2>2. l \in 0 .. k /\ l \in 0 .. Len(t)
    BY <1>0, <1>3, <2>1, BeginIs
  <2>3. Begin(n, l) = Begin(t, l)
    BY <2>1, <2>2, BeginBegin
  <2>4. QED  BY <1>1, <2>2, <2>3
<1>4. t \in Prefixes(t)
  <2>1. Len(t) \in 0 .. Len(t)
    BY <1>0
  <2>2. QED  BY <1>1, <2>1, BeginAll
<1>5. QED  BY <1>2, <1>3, <1>4 DEF Closed

\* f is the longest of the proper ends of n that are in N.
IsLink(N, f, n) ==
    /\ f \in N /\ Ends(f, n) /\ Len(f) < Len(n)
    /\ \A t \in N : Ends(t, n) /\ Len(t) < Len(n) => Len(t) <= Len(f)

\* There is only one longest end: it is the link of the theory.
LEMMA LinkIs ==
    ASSUME NEW N, N \subseteq Text, NEW n \in Text, n # Root, NEW f, IsLink(N, f, n)
    PROVE  f = FailLink(N, n)
<1> DEFINE C == ProperSuffixes(n) \cap N
<1>1. \A t : t \in C <=> t \in N /\ Ends(t, n) /\ Len(t) < Len(n)
  BY ProperSuffixesAre
<1>2. f \in C /\ \A t \in C : Len(t) <= Len(f)
  BY <1>1 DEF IsLink
<1> HIDE DEF C
<1>3. PICK g : g = Longest(C)
  OBVIOUS
<1>4. g \in C /\ \A t \in C : Len(t) <= Len(g)
  BY <1>2, <1>3 DEF Longest
<1>5. f \in Text /\ g \in Text /\ Ends(f, n) /\ Ends(g, n)
  BY <1>1, <1>2, <1>4
<1>6. Len(f) = Len(g)
  BY <1>2, <1>4, <1>5 DEF Text
<1>7. f = g
  BY <1>5, <1>6, EndsSame
<1>8. QED  BY <1>3, <1>7 DEF FailLink, C

-----------------------------------------------------------------------------
(* Rules.                                                                  *)

\* Every set of numbers up to k with an element has a greatest one.
LEMMA Greatest ==
    ASSUME NEW k \in Nat, NEW T, T \subseteq 0 .. k, T # {}
    PROVE  \E x \in T : \A y \in T : y <= x
<1> DEFINE D == {k - x : x \in T}
<1>0. PICK t \in T : TRUE
  OBVIOUS
<1>1. D \subseteq Nat /\ D # {}
  <2>1. k - t \in D
    BY <1>0
  <2>2. QED  BY <2>1
<1>2. PICK d \in D : \A e \in D : d <= e
  <2> HIDE DEF D
  <2>1. QED  BY <1>1, Least
<1>3. PICK x \in T : d = k - x
  OBVIOUS
<1>4. ASSUME NEW y \in T PROVE y <= x
  <2>1. k - y \in D
    OBVIOUS
  <2>2. k - x <= k - y
    BY <1>2, <1>3, <2>1
  <2>3. QED  BY <2>2
<1>5. QED  BY <1>4

\* The texts of the rules.
LEMMA TextsAre ==
    ASSUME rules \in Policies
    PROVE  /\ Len(rules) \in Nat /\ DOMAIN rules = 1 .. Len(rules)
           /\ \A i \in 1 .. Len(rules) : /\ rules[i] \in Text /\ Texts[i] \in Text
                                         /\ rules[i] = <<>> => Texts[i] = <<>>
                                         /\ Texts[i] = Normalize(rules[i])
           /\ DOMAIN Texts = 1 .. Len(rules)
<1>1. rules \in Seq(Text)
  BY PolicyAssumption DEF Text
<1>2. Len(rules) \in Nat /\ DOMAIN rules = 1 .. Len(rules)
  BY <1>1
<1>3. \A i \in 1 .. Len(rules) : rules[i] \in Text
  BY <1>1
<1>4. DOMAIN Texts = 1 .. Len(rules) /\ \A i \in 1 .. Len(rules) : Texts[i] = Normalize(rules[i])
  BY <1>2 DEF Texts
<1>5. QED  BY <1>2, <1>3, <1>4, NormalizeText

LEMMA EndsInIs ==
    ASSUME rules \in Policies, NEW n \in Text
    PROVE  \A i : i \in EndsIn(Texts, n) <=>
                      i \in 1 .. Len(rules) /\ Texts[i] # <<>> /\ Ends(Texts[i], n)
  BY TextsAre, SuffixesAre DEF EndsIn

\* The rule reported is one of those whose text ends there, if there is one.
LEMMA RuleAtIs ==
    ASSUME rules \in Policies, NEW n \in Text
    PROVE  IF EndsIn(Texts, n) = {} THEN RuleAt(Texts, n) = None
           ELSE RuleAt(Texts, n) \in EndsIn(Texts, n)
<1> DEFINE found == EndsIn(Texts, n)
           best == {i \in found : \A j \in found : Len(Texts[j]) <= Len(Texts[i])}
<1>1. CASE found = {}
  BY <1>1 DEF RuleAt
<1>2. CASE found # {}
  <2>1. found \subseteq 1 .. Len(rules) /\ \A i \in found : Texts[i] \in Text
    BY EndsInIs, TextsAre
  <2>2. Len(n) \in Nat /\ Len(rules) \in Nat
    BY TextsAre DEF Text
  <2>3. {Len(Texts[i]) : i \in found} \subseteq 0 .. Len(n)
    BY <2>1, <2>2, EndsInIs DEF Ends, Text
  <2>4. best # {}
    <3> HIDE DEF found
    <3>1. {Len(Texts[i]) : i \in found} # {}
      BY <1>2
    <3>2. PICK x \in {Len(Texts[i]) : i \in found} :
              \A y \in {Len(Texts[i]) : i \in found} : y <= x
      BY <2>2, <2>3, <3>1, Greatest
    <3>3. QED  BY <3>2
  <2>5. best \subseteq 0 .. Len(rules)
    BY <2>1, <2>2
  <2>6. PICK i \in best : \A j \in best : j <= i
    <3> HIDE DEF best
    <3>1. QED  BY <2>2, <2>4, <2>5, Greatest
  <2>7. RuleAt(Texts, n) = CHOOSE x \in best : \A j \in best : j <= x
    BY <1>2 DEF RuleAt
  <2>8. RuleAt(Texts, n) \in best
    <3> HIDE DEF best
    <3>1. QED  BY <2>6, <2>7
  <2>9. QED  BY <1>2, <2>8
<1>3. QED  BY <1>1, <1>2

\* The rules among the first k whose text is n; o is the last of them.
Own(n, k) == {i \in 1 .. k : rules[i] # <<>> /\ Texts[i] = n}
Mine(o, n, k) ==
    IF Own(n, k) = {} THEN o = None
    ELSE o \in Own(n, k) /\ \A j \in Own(n, k) : j <= o

\* A rule whose text is that of the node has the longest of the texts that
\* end there.
LEMMA RuleOwn ==
    ASSUME rules \in Policies, NEW n \in Text, n # Root,
           NEW o, Mine(o, n, Len(rules)), o # None
    PROVE  RuleAt(Texts, n) = o
<1> DEFINE found == EndsIn(Texts, n)
           best == {i \in found : \A j \in found : Len(Texts[j]) <= Len(Texts[i])}
<1>0. Len(n) \in Nat
  BY DEF Text
<1>1. o \in Own(n, Len(rules)) /\ \A j \in Own(n, Len(rules)) : j <= o
  BY DEF Mine
<1>2. \A i \in Own(n, Len(rules)) : i \in found /\ Texts[i] = n
  BY EndsInIs, EndsRefl DEF Own, Root
<1>3. \A i \in found : i \in 1 .. Len(rules) /\ Texts[i] \in Text /\ Ends(Texts[i], n)
                       /\ rules[i] # <<>>
  BY EndsInIs, TextsAre
<1>4. \A i \in found : Len(Texts[i]) \in Nat /\ Len(Texts[i]) <= Len(n)
  BY <1>3 DEF Ends, Text
<1>5. \A i \in best : i \in Own(n, Len(rules))
  <2>1. SUFFICES ASSUME NEW i \in best PROVE i \in Own(n, Len(rules))
    OBVIOUS
  <2>2. Len(Texts[i]) = Len(n)
    BY <1>0, <1>1, <1>2, <1>4
  <2>3. Texts[i] = n
    BY <1>3, <2>2, EndsRefl, EndsSame
  <2>4. QED  BY <1>3, <2>3 DEF Own
<1>6. \A i \in Own(n, Len(rules)) : i \in best
  BY <1>2, <1>4
<1>7. RuleAt(Texts, n) = CHOOSE x \in best : \A j \in best : j <= x
  BY <1>1, <1>2 DEF RuleAt
<1>8. o \in best /\ \A j \in best : j <= o
  BY <1>1, <1>5, <1>6
<1>9. best \subseteq Nat
  BY <1>3
<1> HIDE DEF best
<1>10. \A x \in best : (\A j \in best : j <= x) => x = o
  BY <1>8, <1>9
<1>11. QED  BY <1>7, <1>8, <1>10

\* The texts that end in a node and are not its own are those that end in
\* its link.
LEMMA RuleLink ==
    ASSUME rules \in Policies, nodes = NodesOf(Texts), NEW n \in Text, n # Root,
           Own(n, Len(rules)) = {}, NEW f \in Text, IsLink(nodes, f, n)
    PROVE  EndsIn(Texts, n) = EndsIn(Texts, f)
<1>1. ASSUME NEW i \in EndsIn(Texts, n) PROVE i \in EndsIn(Texts, f)
  <2>1. /\ i \in 1 .. Len(rules) /\ Texts[i] # <<>> /\ Ends(Texts[i], n)
        /\ Texts[i] \in Text /\ rules[i] # <<>>
    BY <1>1, EndsInIs, TextsAre
  <2>2. Texts[i] # n
    BY <2>1 DEF Own
  <2>3. Len(Texts[i]) < Len(n)
    <3>1. Len(Texts[i]) # Len(n)
      BY <2>1, <2>2, EndsRefl, EndsSame
    <3>2. QED  BY <2>1, <3>1 DEF Ends, Text
  <2>4. Texts[i] \in nodes
    BY <2>1, PrefixesClosed, TextsAre DEF NodesOf
  <2>5. Len(Texts[i]) <= Len(f)
    BY <2>1, <2>3, <2>4 DEF IsLink
  <2>6. Ends(Texts[i], f)
    BY <2>1, <2>5, EndsNested DEF IsLink
  <2>7. QED  BY <2>1, <2>6, EndsInIs
<1>2. ASSUME NEW i \in EndsIn(Texts, f) PROVE i \in EndsIn(Texts, n)
  <2>1. i \in 1 .. Len(rules) /\ Texts[i] # <<>> /\ Ends(Texts[i], f) /\ Texts[i] \in Text
    BY <1>2, EndsInIs, TextsAre
  <2>2. Ends(Texts[i], n)
    BY <2>1, EndsTrans DEF IsLink
  <2>3. QED  BY <2>1, <2>2, EndsInIs
<1>3. QED  BY <1>1, <1>2

\* No text but the empty one ends in the root.
LEMMA RuleRoot == ASSUME rules \in Policies PROVE EndsIn(Texts, Root) = {}
<1>1. Root \in Text /\ Len(Root) = 0
  BY DEF Text, Root
<1>2. ASSUME NEW i \in EndsIn(Texts, Root) PROVE FALSE
  <2>1. Texts[i] # <<>> /\ Ends(Texts[i], Root) /\ Texts[i] \in Text
    BY <1>1, <1>2, EndsInIs, TextsAre
  <2>2. Len(Texts[i]) = 0
    BY <1>1, <2>1 DEF Ends, Text
  <2>3. QED  BY <2>1, <2>2, EmptySeq DEF Text
<1>3. QED  BY <1>2

\* What a node reports once it is linked: its own rule or that of its link.
LEMMA RuleSettled ==
    ASSUME rules \in Policies, nodes = NodesOf(Texts), NEW n \in Text, n # Root,
           NEW o, Mine(o, n, Len(rules)), NEW f \in Text, IsLink(nodes, f, n)
    PROVE  RuleAt(Texts, n) = IF o = None THEN RuleAt(Texts, f) ELSE o
<1>1. CASE o # None
  BY <1>1, RuleOwn
<1>2. CASE o = None
  <2>1. Own(n, Len(rules)) = {}
    <3>1. None \notin 1 .. Len(rules)
      BY TextsAre DEF None
    <3>2. QED  BY <1>2, <3>1 DEF Mine, Own
  <2>2. EndsIn(Texts, n) = EndsIn(Texts, f)
    BY <2>1, RuleLink
  <2>3. QED  BY <1>2, <2>2 DEF RuleAt
<1>3. QED  BY <1>1, <1>2

-----------------------------------------------------------------------------
(* The walk of NewRules.                                                   *)

BuildTypes ==
    /\ pc \in {"insert", "seed", "walk", "climb", "built"}
    /\ rules \in Policies /\ added \in 0 .. Len(rules)
    /\ Closed(nodes) /\ Root \in nodes
    /\ output \in [nodes -> 0 .. Len(rules)]
    /\ DOMAIN fail \subseteq nodes \ {Root}
    /\ queue \in Seq(nodes \ {Root})
    /\ current \in nodes /\ child \in nodes /\ climb \in nodes
    /\ todo \subseteq Children(current)

\* The trie holds the texts added so far, and a node that is not linked yet
\* reports the last rule that has its text.
Filled ==
    /\ pc # "insert" => added = Len(rules)
    /\ nodes = (UNION {Prefixes(Texts[i]) : i \in 1 .. added}) \cup {Root}
    /\ \A n \in nodes \ DOMAIN fail : Mine(output[n], n, added)

\* A node that is linked has the right link and reports the right rule.
Linked ==
    \A n \in DOMAIN fail : /\ IsLink(nodes, fail[n], n)
                           /\ output[n] = RuleAt(Texts, n)

\* The queue is in the order of the depths, that of the current node and the
\* next; its nodes are linked, their children are not.
Queued ==
    /\ \A i \in DOMAIN queue :
          /\ Len(queue[i]) \in {Len(current), Len(current) + 1}
          /\ queue[i] # current
          /\ queue[i] \in DOMAIN fail \/ (pc = "climb" /\ queue[i] = child)
          /\ \A b \in Bytes : Append(queue[i], b) \notin DOMAIN fail
    /\ \A i, j \in DOMAIN queue :
          i < j => queue[i] # queue[j] /\ Len(queue[i]) <= Len(queue[j])
    /\ \A n \in DOMAIN fail : Len(n) <= Len(current) + 1
    /\ \A b \in todo : Append(current, b) \notin DOMAIN fail

\* Some beginning of n is about to be visited.
Ahead(n) ==
    \E k \in 1 .. Len(n) : \/ \E i \in DOMAIN queue : queue[i] = Begin(n, k)
                           \/ \E b \in todo : Begin(n, k) = Append(current, b)

\* Nodes no deeper than the current one are linked, and none is forgotten.
Reached ==
    /\ \A n \in nodes \ {Root} : Len(n) <= Len(current) => n \in DOMAIN fail
    /\ pc # "insert" => \A n \in nodes \ {Root} : n \in DOMAIN fail \/ Ahead(n)

\* The search for a link has passed no candidate.
Climbing ==
    /\ current # Root
    /\ Last(child) \in Bytes \ todo
    /\ child = Append(current, Last(child))
    /\ child \notin DOMAIN fail
    /\ Ends(climb, current) /\ Len(climb) < Len(current)
    /\ \A s \in nodes :
          Ends(s, current) /\ Len(s) < Len(current)
            /\ Append(s, Last(child)) \in nodes => Len(s) <= Len(climb)

Placed ==
    /\ pc = "insert" => DOMAIN fail = {} /\ queue = <<>> /\ todo = {}
    /\ pc \in {"insert", "seed"} => current = Root
    /\ pc = "walk" /\ current = Root => todo = {}
    /\ pc = "climb" => Climbing
    /\ pc = "built" => queue = <<>> /\ todo = {}

BuildInv ==
    BuildTypes /\ Filled /\ Linked /\ Queued /\ Reached /\ Placed

LEMMA TextLen ==
    ASSUME NEW n \in Text
    PROVE  Len(n) \in Nat /\ (n = Root <=> Len(n) = 0) /\ (n = <<>> <=> Len(n) = 0)
  BY EmptySeq DEF Text, Root

LEMMA RootText == Root \in Text /\ Len(Root) = 0
  BY DEF Text, Root

LEMMA BuildInitInv == ASSUME BuildInit PROVE BuildInv
<1>1. Closed({Root})
  <2>1. \A k \in 0 .. Len(Root) : Begin(Root, k) = Root
    BY RootText, BeginAll
  <2>2. QED  BY <2>1, RootText DEF Closed
<1>2. Len(rules) \in Nat /\ rules \in Policies
  BY TextsAre DEF BuildInit
<1>3. DOMAIN fail = {} /\ queue = <<>> /\ DOMAIN queue = {}
  BY DEF BuildInit
<1>4. BuildTypes
  BY <1>1, <1>2, <1>3 DEF BuildInit, BuildTypes, None
<1>5. Filled
  <2>1. 1 .. added = {} /\ added = 0 /\ pc = "insert"
    BY DEF BuildInit
  <2>2. nodes = {Root} /\ \A n \in nodes : output[n] = None
    BY DEF BuildInit
  <2>3. \A n : Own(n, added) = {}
    BY <2>1 DEF Own
  <2>4. UNION {Prefixes(Texts[i]) : i \in 1 .. added} = {}
    BY <2>1
  <2>5. \A n \in nodes : Mine(output[n], n, added)
    BY <2>2, <2>3 DEF Mine
  <2>6. nodes = (UNION {Prefixes(Texts[i]) : i \in 1 .. added}) \cup {Root}
    BY <2>2, <2>4
  <2>7. QED  BY <2>1, <2>5, <2>6 DEF Filled
<1>6. Linked /\ Queued
  BY <1>3 DEF Linked, Queued, BuildInit
<1>7. Reached /\ Placed
  BY <1>3 DEF Reached, Placed, BuildInit
<1>8. QED  BY <1>4, <1>5, <1>6, <1>7 DEF BuildInv

LEMMA TextsSame == ASSUME rules' = rules PROVE Texts' = Texts
  BY DEF Texts

LEMMA InsertInv == ASSUME BuildInv, Insert PROVE BuildInv'
<1> DEFINE i == added + 1
           path == Texts[i]
<1>1. /\ rules \in Policies /\ Len(rules) \in Nat /\ added \in 0 .. Len(rules)
      /\ i \in 1 .. Len(rules) /\ added \in Nat
  BY TextsAre DEF BuildInv, BuildTypes, Insert
<1>2. /\ path \in Text /\ path = Normalize(rules[i]) /\ (rules[i] = <<>> => path = <<>>)
      /\ \A j \in 1 .. Len(rules) : Texts[j] \in Text
  BY <1>1, TextsAre
<1>3. /\ pc = "insert" /\ pc' = pc /\ rules' = rules /\ added' = i /\ fail' = fail
      /\ queue' = queue /\ current' = current /\ todo' = todo
      /\ child' = child /\ climb' = climb
  BY DEF Insert
<1>4. DOMAIN fail = {} /\ queue = <<>> /\ todo = {} /\ current = Root
  BY <1>3 DEF BuildInv, Placed
<1>5. Texts' = Texts
  BY <1>3, TextsSame
<1> HIDE DEF path
<1>6. Closed(Prefixes(path)) /\ path \in Prefixes(path)
  BY <1>2, PrefixesClosed
<1>7. /\ nodes' = nodes \cup Prefixes(path)
      /\ \A n \in nodes' : output'[n] = IF n = path /\ rules[i] # <<>> THEN i
                                        ELSE IF n \in nodes THEN output[n] ELSE None
      /\ output' = [n \in nodes' |-> output'[n]]
  <2>1. CASE rules[i] = <<>>
    <3>1. path = <<>> /\ Prefixes(path) = {<<>>}
      <4>1. path = Root /\ Len(path) = 0
        BY <1>2, <2>1, RootText DEF Root
      <4>2. Begin(path, 0) = path
        BY <4>1, BeginAll, RootText
      <4>3. 0 .. Len(path) = {0}
        BY <4>1
      <4>4. QED  BY <4>1, <4>2, <4>3 DEF Prefixes, Begin, Root
    <3>2. nodes' = nodes /\ output' = output
      BY <2>1 DEF Insert
    <3>3. Root \in nodes /\ output \in [nodes -> 0 .. Len(rules)]
      BY DEF BuildInv, BuildTypes
    <3>4. QED  BY <2>1, <3>1, <3>2, <3>3 DEF Root
  <2>2. CASE rules[i] # <<>>
    <3>1. /\ nodes' = nodes \cup (Prefixes(path) \ nodes)
          /\ output' = [n \in nodes \cup (Prefixes(path) \ nodes) |->
                           IF n = path THEN i
                           ELSE IF n \in Prefixes(path) \ nodes THEN None
                           ELSE output[n]]
      <4>1. path = Normalize(rules[added + 1])
        BY <1>2
      <4>2. QED  BY <2>2, <4>1 DEF Insert
    <3>2. QED  BY <2>2, <3>1
  <2>3. QED  BY <2>1, <2>2
<1>8. Closed(nodes) /\ Root \in nodes /\ output \in [nodes -> 0 .. Len(rules)]
  BY DEF BuildInv, BuildTypes
<1>9. Closed(nodes')
  BY <1>6, <1>7, <1>8 DEF Closed
<1>10. BuildTypes'
  <2>1. output' \in [nodes' -> 0 .. Len(rules)]
    BY <1>1, <1>7, <1>8 DEF None
  <2>2. queue' \in Seq(nodes' \ {Root})
    BY <1>3, <1>4
  <2>3. child' \in nodes' /\ climb' \in nodes' /\ current' \in nodes' /\ Root \in nodes'
    BY <1>3, <1>7 DEF BuildInv, BuildTypes
  <2>4. i \in 0 .. Len(rules)
    BY <1>1
  <2>5. todo' \subseteq Children(current)'
    BY <1>3, <1>4
  <2>6. DOMAIN fail' \subseteq nodes' \ {Root}
    BY <1>3, <1>4
  <2>7. QED  BY <1>1, <1>3, <1>9, <2>1, <2>2, <2>3, <2>4, <2>5, <2>6 DEF BuildTypes
<1>11. Filled'
  <2>1. nodes' = (UNION {Prefixes(Texts[j]) : j \in 1 .. i}) \cup {Root}
    <3>1. 1 .. i = (1 .. added) \cup {i}
      BY <1>1
    <3>2. nodes = (UNION {Prefixes(Texts[j]) : j \in 1 .. added}) \cup {Root}
      BY DEF BuildInv, Filled
    <3> HIDE DEF i
    <3>3. QED  BY <1>7, <3>1, <3>2 DEF path
  <2>2. ASSUME NEW n \in nodes' PROVE Mine(output'[n], n, i)
    <3>1. Own(n, i) = IF n = path /\ rules[i] # <<>> THEN Own(n, added) \cup {i}
                      ELSE Own(n, added)
      <4>1. 1 .. i = (1 .. added) \cup {i}
        BY <1>1
      <4> HIDE DEF i
      <4>2. QED  BY <4>1 DEF Own, path
    <3>2. Own(n, added) \subseteq 1 .. added
      BY DEF Own
    <3>3. CASE n = path /\ rules[i] # <<>>
      BY <1>1, <1>7, <3>1, <3>2, <3>3 DEF Mine
    <3>4. CASE ~(n = path /\ rules[i] # <<>>) /\ n \in nodes
      <4>1. Mine(output[n], n, added)
        BY <1>4, <3>4 DEF BuildInv, Filled
      <4>2. QED  BY <1>7, <3>1, <3>4, <4>1 DEF Mine
    <3>5. CASE ~(n = path /\ rules[i] # <<>>) /\ n \notin nodes
      <4>1. Own(n, added) = {}
        <5>1. SUFFICES ASSUME NEW j \in Own(n, added) PROVE FALSE
          OBVIOUS
        <5>2. j \in 1 .. added /\ Texts[j] = n /\ j \in 1 .. Len(rules)
          BY <1>1, <5>1 DEF Own
        <5>3. n \in Prefixes(Texts[j])
          BY <1>2, <5>2, PrefixesClosed
        <5>4. n \in nodes
          BY <5>2, <5>3 DEF BuildInv, Filled
        <5>5. QED  BY <3>5, <5>4
      <4>2. QED  BY <1>7, <3>1, <3>5, <4>1 DEF Mine
    <3>6. QED  BY <3>3, <3>4, <3>5
  <2>3. \A n \in nodes' : Mine(output[n], n, added)'
    BY <1>3, <1>5, <2>2 DEF Mine, Own
  <2>4. QED  BY <1>3, <1>5, <2>1, <2>3 DEF Filled
<1>12. Linked' /\ Queued'
  BY <1>3, <1>4 DEF Linked, Queued
<1>13. Reached' /\ Placed'
  <2>1. \A n \in nodes' \ {Root} : ~(Len(n) <= Len(Root))
    BY <1>9, RootText, TextLen DEF Closed
  <2>2. Reached'
    BY <1>3, <1>4, <2>1 DEF Reached
  <2>3. Placed'
    BY <1>3, <1>4 DEF Placed
  <2>4. QED  BY <2>2, <2>3
<1>14. QED  BY <1>10, <1>11, <1>12, <1>13 DEF BuildInv

\* What a step that links no node keeps.
LEMMA LinkedSame ==
    ASSUME BuildInv, UNCHANGED <<rules, added, nodes, output, fail>>,
           added = Len(rules)
    PROVE  Filled' /\ Linked'
<1>1. Texts' = Texts
  BY TextsSame
<1>2. \A n \in nodes \ DOMAIN fail : Mine(output[n], n, added)'
  BY <1>1 DEF BuildInv, Filled, Mine, Own
<1>3. QED  BY <1>1, <1>2 DEF BuildInv, Filled, Linked

\* The facts every step of the walk starts from.
LEMMA WalkFacts ==
    ASSUME BuildInv, pc # "insert"
    PROVE  /\ rules \in Policies /\ Len(rules) \in Nat /\ added = Len(rules)
           /\ nodes = NodesOf(Texts)
           /\ nodes \subseteq Text /\ Closed(nodes) /\ Root \in nodes
           /\ Len(queue) \in Nat /\ DOMAIN queue = 1 .. Len(queue)
           /\ \A i \in 1 .. Len(queue) : queue[i] \in nodes \ {Root}
           /\ \A n \in nodes : Len(n) \in Nat
           /\ current \in nodes
<1>1. rules \in Policies /\ added = Len(rules)
  BY DEF BuildInv, BuildTypes, Filled
<1>2. nodes = NodesOf(Texts)
  BY <1>1, TextsAre DEF BuildInv, Filled, NodesOf
<1>3. nodes \subseteq Text /\ Closed(nodes) /\ Root \in nodes
  BY DEF BuildInv, BuildTypes, Closed
<1>4. \A n \in nodes : Len(n) \in Nat
  BY <1>3, TextLen
<1>5. queue \in Seq(nodes \ {Root})
  BY DEF BuildInv, BuildTypes
<1>6. /\ Len(queue) \in Nat /\ DOMAIN queue = 1 .. Len(queue)
      /\ \A i \in 1 .. Len(queue) : queue[i] \in nodes \ {Root}
  BY <1>5
<1>7. current \in nodes
  BY DEF BuildInv, BuildTypes
<1>8. QED  BY <1>1, <1>2, <1>3, <1>4, <1>6, <1>7, TextsAre

LEMMA InsertDoneInv == ASSUME BuildInv, InsertDone PROVE BuildInv'
<1>1. /\ pc = "insert" /\ pc' = "seed" /\ added = Len(rules)
      /\ todo' = Children(Root)
      /\ UNCHANGED <<rules, added, nodes, output, fail, queue, current, child, climb>>
  BY DEF InsertDone
<1>2. DOMAIN fail = {} /\ queue = <<>> /\ current = Root
  BY <1>1 DEF BuildInv, Placed
<1>3. Filled' /\ Linked'
  BY <1>1, LinkedSame
<1>4. BuildTypes'
  BY <1>1, <1>2 DEF BuildInv, BuildTypes, Children
<1>5. Queued'
  BY <1>1, <1>2 DEF Queued
<1>6. Reached'
  <2>1. ASSUME NEW n \in nodes \ {Root} PROVE Ahead(n)'
    <3>1. Closed(nodes) /\ n \in Text
      BY DEF BuildInv, BuildTypes, Closed
    <3>2. Len(n) \in Nat /\ Len(n) >= 1 /\ 0 \in 0 .. Len(n) /\ 1 \in 0 .. Len(n)
      BY <3>1, TextLen
    <3>3. n[1] \in Bytes /\ Begin(n, 1) = Append(Begin(n, 0), n[1])
      BY <3>1, <3>2, BeginNext
    <3>4. Begin(n, 0) = Root
      BY <3>1, <3>2, BeginIs, TextLen
    <3>5. Begin(n, 1) \in nodes
      BY <3>1, <3>2 DEF Closed
    <3>6. n[1] \in todo'
      BY <1>1, <3>3, <3>4, <3>5 DEF Children
    <3>7. 1 \in 1 .. Len(n) /\ Begin(n, 1) = Append(current', n[1])
      BY <1>1, <1>2, <3>2, <3>3, <3>4
    <3>8. QED  BY <3>6, <3>7 DEF Ahead
  <2>2. QED  BY <1>1, <2>1 DEF BuildInv, Reached
<1>7. Placed'
  BY <1>1, <1>2 DEF Placed
<1>8. QED  BY <1>3, <1>4, <1>5, <1>6, <1>7 DEF BuildInv

LEMMA SeedDoneInv == ASSUME BuildInv, SeedDone PROVE BuildInv'
<1>1. /\ pc = "seed" /\ pc' = "walk" /\ todo = {} /\ todo' = todo
      /\ UNCHANGED <<rules, added, nodes, output, fail, queue, current, child, climb>>
  BY DEF SeedDone
<1>2. Filled' /\ Linked'
  BY <1>1, LinkedSame, WalkFacts
<1>3. BuildTypes'
  BY <1>1 DEF BuildInv, BuildTypes, Children
<1>4. Queued'
  BY <1>1 DEF BuildInv, Queued
<1>5. Reached' /\ Placed'
  BY <1>1 DEF BuildInv, Reached, Ahead, Placed
<1>6. QED  BY <1>2, <1>3, <1>4, <1>5 DEF BuildInv

LEMMA ReturnInv == ASSUME BuildInv, Return PROVE BuildInv'
<1>1. /\ pc = "walk" /\ pc' = "built" /\ todo = {} /\ todo' = todo /\ queue = <<>>
      /\ UNCHANGED <<rules, added, nodes, output, fail, queue, current, child, climb>>
  BY DEF Return
<1>2. Filled' /\ Linked'
  BY <1>1, LinkedSame, WalkFacts
<1>3. BuildTypes'
  BY <1>1 DEF BuildInv, BuildTypes, Children
<1>4. Queued'
  BY <1>1 DEF BuildInv, Queued
<1>5. Reached' /\ Placed'
  BY <1>1 DEF BuildInv, Reached, Ahead, Placed
<1>6. QED  BY <1>2, <1>3, <1>4, <1>5 DEF BuildInv

\* A step that links the node n to its link.
LEMMA LinkedMore ==
    ASSUME BuildInv, pc # "insert", pc' # "insert",
           UNCHANGED <<rules, added, nodes>>,
           NEW n \in nodes \ {Root}, n \notin DOMAIN fail,
           NEW target, IsLink(nodes, target, n), Link(n, target),
           output' \in [nodes -> 0 .. Len(rules)],
           \A m \in nodes : output'[m] = IF m = n THEN RuleAt(Texts, n) ELSE output[m]
    PROVE  Filled' /\ Linked' /\ DOMAIN fail' = DOMAIN fail \cup {n}
<1>1. Texts' = Texts
  BY TextsSame
<1>2. /\ DOMAIN fail' = DOMAIN fail \cup {n}
      /\ \A m \in DOMAIN fail' : fail'[m] = IF m = n THEN target ELSE fail[m]
  BY DEF Link
<1>3. added = Len(rules) /\ DOMAIN fail \subseteq nodes
  BY WalkFacts DEF BuildInv, BuildTypes
<1>4. \A m \in nodes \ DOMAIN fail' : Mine(output[m], m, added)'
  <2>1. SUFFICES ASSUME NEW m \in nodes \ DOMAIN fail' PROVE Mine(output[m], m, added)'
    OBVIOUS
  <2>2. Mine(output[m], m, added) /\ output'[m] = output[m]
    BY <1>2, <2>1 DEF BuildInv, Filled
  <2>3. QED  BY <1>1, <2>2 DEF Mine, Own
<1>5. Filled'
  BY <1>1, <1>3, <1>4 DEF BuildInv, Filled
<1>6. Linked'
  BY <1>1, <1>2, <1>3 DEF BuildInv, Linked
<1>7. QED  BY <1>2, <1>5, <1>6

\* The queue with one more node at its end.
LEMMA QueueMore ==
    ASSUME BuildInv, pc # "insert", NEW x \in nodes \ {Root}, queue' = Append(queue, x)
    PROVE  /\ queue' \in Seq(nodes \ {Root})
           /\ DOMAIN queue' = 1 .. Len(queue) + 1
           /\ queue'[Len(queue) + 1] = x
           /\ \A i \in 1 .. Len(queue) : queue'[i] = queue[i]
  BY AppendProperties DEF BuildInv, BuildTypes

\* Adding n to the linked nodes or to the queue and taking b from the bytes
\* to do leaves no node behind.
LEMMA AheadMore ==
    ASSUME BuildInv, pc # "insert", NEW b \in Bytes, Append(current, b) \in nodes,
           queue' = Append(queue, Append(current, b)),
           todo' = todo \ {b}, current' = current,
           NEW n \in nodes \ {Root}, Ahead(n)
    PROVE  Ahead(n)'
<1>1. /\ Len(queue) \in Nat /\ DOMAIN queue = 1 .. Len(queue)
      /\ current \in Text
  BY WalkFacts
<1>2. Append(current, b) \in nodes \ {Root}
  BY <1>1, AppendLonger
<1>3. /\ DOMAIN queue' = 1 .. Len(queue) + 1
      /\ queue'[Len(queue) + 1] = Append(current, b)
      /\ \A i \in 1 .. Len(queue) : queue'[i] = queue[i]
  BY <1>2, QueueMore
<1>4. PICK k \in 1 .. Len(n) : \/ \E i \in DOMAIN queue : queue[i] = Begin(n, k)
                               \/ \E c \in todo : Begin(n, k) = Append(current, c)
  BY DEF Ahead
<1>5. CASE \E i \in DOMAIN queue : queue[i] = Begin(n, k)
  <2>1. PICK i \in 1 .. Len(queue) : queue[i] = Begin(n, k)
    BY <1>1, <1>5
  <2>2. i \in DOMAIN queue' /\ queue'[i] = Begin(n, k)
    BY <1>1, <1>3, <2>1
  <2>3. QED  BY <2>2 DEF Ahead
<1>6. CASE \E c \in todo : Begin(n, k) = Append(current, c)
  <2>1. PICK c \in todo : Begin(n, k) = Append(current, c)
    BY <1>6
  <2>2. CASE c = b
    <3>1. Len(queue) + 1 \in DOMAIN queue' /\ queue'[Len(queue) + 1] = Begin(n, k)
      BY <1>1, <1>3, <2>1, <2>2
    <3>2. QED  BY <3>1 DEF Ahead
  <2>3. CASE c # b
    <3>1. c \in todo' /\ Begin(n, k) = Append(current', c)
      BY <2>1, <2>3
    <3>2. QED  BY <3>1 DEF Ahead
  <2>4. QED  BY <2>2, <2>3
<1>7. QED  BY <1>4, <1>5, <1>6

\* Nodes with different parents or last bytes are different.
LEMMA ChildApart ==
    ASSUME NEW m \in Text, NEW n \in Text, NEW b \in Bytes, NEW c \in Bytes,
           Append(m, b) = Append(n, c)
    PROVE  m = n /\ b = c
  BY AppendInjective DEF Text

\* What enqueuing the child for b does to the order of the queue.
LEMMA QueuedMore ==
    ASSUME BuildInv, pc \in {"seed", "walk"}, NEW b \in todo,
           queue' = Append(queue, Append(current, b)),
           todo' = todo \ {b}, current' = current,
           \/ fail' = fail /\ pc' = "climb" /\ child' = Append(current, b)
           \/ /\ DOMAIN fail' = DOMAIN fail \cup {Append(current, b)}
              /\ pc' = pc
    PROVE  Queued'
<1> DEFINE x == Append(current, b)
<1>1. /\ Len(queue) \in Nat /\ DOMAIN queue = 1 .. Len(queue)
      /\ \A i \in 1 .. Len(queue) : queue[i] \in nodes \ {Root}
      /\ current \in nodes /\ nodes \subseteq Text /\ \A n \in nodes : Len(n) \in Nat
  BY WalkFacts
<1>2. b \in Bytes /\ x \in nodes /\ todo \subseteq Bytes
  BY DEF BuildInv, BuildTypes, Children
<1>3. x # Root /\ x \in Text /\ Len(x) = Len(current) + 1
  BY <1>1, <1>2, AppendLonger DEF Longer
<1>4. x \notin DOMAIN fail /\ DOMAIN fail \subseteq nodes
  BY DEF BuildInv, Queued, BuildTypes
<1>5. /\ DOMAIN queue' = 1 .. Len(queue) + 1
      /\ queue'[Len(queue) + 1] = x
      /\ \A i \in 1 .. Len(queue) : queue'[i] = queue[i]
  BY <1>2, <1>3, QueueMore
<1>6. \A i \in 1 .. Len(queue) :
          /\ Len(queue[i]) \in {Len(current), Len(current) + 1}
          /\ queue[i] # current /\ queue[i] \in DOMAIN fail
          /\ \A c \in Bytes : Append(queue[i], c) \notin DOMAIN fail
  BY <1>1 DEF BuildInv, Queued
<1>7. \A i, j \in 1 .. Len(queue) :
          i < j => queue[i] # queue[j] /\ Len(queue[i]) <= Len(queue[j])
  BY <1>1 DEF BuildInv, Queued
<1>8. /\ \A n \in DOMAIN fail : Len(n) <= Len(current) + 1
      /\ \A c \in todo : Append(current, c) \notin DOMAIN fail
  BY DEF BuildInv, Queued
<1>9. /\ DOMAIN fail \subseteq DOMAIN fail' /\ DOMAIN fail' \subseteq DOMAIN fail \cup {x}
      /\ x \in DOMAIN fail' \/ (pc' = "climb" /\ x = child')
  OBVIOUS
<1> HIDE DEF x
<1>10. ASSUME NEW i \in DOMAIN queue'
       PROVE  /\ Len(queue'[i]) \in {Len(current), Len(current) + 1}
              /\ queue'[i] # current
              /\ queue'[i] \in DOMAIN fail' \/ (pc' = "climb" /\ queue'[i] = child')
  <2>1. CASE i = Len(queue) + 1
    <3>1. queue'[i] = x
      BY <1>5, <2>1
    <3>2. Len(x) \in {Len(current), Len(current) + 1} /\ x # current
      BY <1>1, <1>3
    <3>3. QED  BY <1>9, <3>1, <3>2
  <2>2. CASE i \in 1 .. Len(queue)
    BY <1>5, <1>6, <1>9, <2>2
  <2>3. QED  BY <1>1, <1>5, <2>1, <2>2
<1>11. ASSUME NEW i \in DOMAIN queue', NEW c \in Bytes
       PROVE  Append(queue'[i], c) \notin DOMAIN fail'
  <2>1. CASE i = Len(queue) + 1
    <3>0. PICK y : y = Append(x, c)
      OBVIOUS
    <3>1. Len(y) = Len(current) + 2
      BY <1>1, <1>3, <3>0, AppendLonger DEF Longer
    <3>2. \A n \in DOMAIN fail' : Len(n) <= Len(current) + 1
      BY <1>1, <1>3, <1>8, <1>9
    <3>3. queue'[i] = x
      BY <1>5, <2>1
    <3>4. y \notin DOMAIN fail'
      BY <1>1, <3>1, <3>2
    <3>5. QED  BY <3>0, <3>3, <3>4
  <2>2. CASE i \in 1 .. Len(queue)
    <3>1. queue[i] \in Text /\ queue[i] # current /\ current \in Text
      BY <1>1, <1>6, <2>2
    <3>2. Append(queue[i], c) # x
      BY <1>2, <3>1, ChildApart DEF x
    <3>3. QED  BY <1>5, <1>6, <1>9, <2>2, <3>2
  <2>3. QED  BY <1>1, <1>5, <2>1, <2>2
<1>12. ASSUME NEW i \in DOMAIN queue', NEW j \in DOMAIN queue', i < j
       PROVE  queue'[i] # queue'[j] /\ Len(queue'[i]) <= Len(queue'[j])
  <2>1. i \in 1 .. Len(queue)
    BY <1>1, <1>5, <1>12
  <2>2. CASE j = Len(queue) + 1
    <3>1. queue'[i] = queue[i] /\ queue'[j] = x
      BY <1>5, <2>1, <2>2
    <3>2. queue[i] # x /\ Len(queue[i]) <= Len(x)
      BY <1>1, <1>3, <1>4, <1>6, <2>1
    <3>3. QED  BY <3>1, <3>2
  <2>3. CASE j \in 1 .. Len(queue)
    BY <1>5, <1>7, <1>12, <2>1, <2>3
  <2>4. QED  BY <1>1, <1>5, <2>2, <2>3
<1>13. \A n \in DOMAIN fail' : Len(n) <= Len(current) + 1
  BY <1>1, <1>3, <1>8, <1>9
<1>14. ASSUME NEW c \in todo' PROVE Append(current, c) \notin DOMAIN fail'
  <2>1. c \in todo /\ c # b /\ c \in Bytes
    BY <1>2
  <2>2. Append(current, c) # x
    BY <1>1, <1>2, <2>1, ChildApart DEF x
  <2>3. QED  BY <1>8, <1>9, <2>1, <2>2
<1>15. QED  BY <1>10, <1>11, <1>12, <1>13, <1>14 DEF Queued

LEMMA SeedInv == ASSUME BuildInv, NEW b \in Bytes, Seed(b) PROVE BuildInv'
<1>1. /\ pc = "seed" /\ pc' = pc /\ b \in todo /\ Link(<<b>>, Root)
      /\ queue' = Append(queue, <<b>>) /\ todo' = todo \ {b}
      /\ UNCHANGED <<rules, added, nodes, output, current, child, climb>>
  BY DEF Seed
<1>2. current = Root /\ <<b>> = Append(current, b)
  BY <1>1 DEF BuildInv, Placed, Root
<1>3. PICK x : x = <<b>>
  OBVIOUS
<1>4. /\ rules \in Policies /\ added = Len(rules) /\ nodes = NodesOf(Texts)
      /\ nodes \subseteq Text /\ Root \in nodes
  BY <1>1, WalkFacts
<1>5. x = Append(current, b) /\ x \in nodes \ {Root} /\ x \notin DOMAIN fail /\ Len(x) = 1
  <2>1. x \in nodes /\ x \notin DOMAIN fail
    BY <1>1, <1>2, <1>3 DEF BuildInv, BuildTypes, Children, Queued
  <2>2. x # Root /\ Len(x) = 1
    BY <1>2, <1>3, RootText, AppendLonger DEF Longer
  <2>3. QED  BY <1>2, <1>3, <2>1, <2>2
<1>6. IsLink(nodes, Root, x)
  <2>1. x \in Text /\ Ends(Root, x) /\ Len(Root) = 0
    BY <1>4, <1>5, EndsRefl, RootText
  <2>2. \A t \in nodes : Len(t) < 1 => Len(t) <= 0
    BY <1>4, TextLen
  <2>3. QED  BY <1>4, <1>5, <2>1, <2>2 DEF IsLink
<1>7. output[x] = RuleAt(Texts, x)
  <2>1. Mine(output[x], x, Len(rules))
    BY <1>4, <1>5 DEF BuildInv, Filled
  <2>2. RuleAt(Texts, x) = IF output[x] = None THEN RuleAt(Texts, Root) ELSE output[x]
    BY <1>4, <1>5, <1>6, <2>1, RuleSettled, RootText
  <2>3. RuleAt(Texts, Root) = None
    BY <1>4, RuleRoot, RuleAtIs, RootText
  <2>4. QED  BY <2>2, <2>3
<1>8. Filled' /\ Linked' /\ DOMAIN fail' = DOMAIN fail \cup {x}
  <2>1. output' \in [nodes -> 0 .. Len(rules)]
    BY <1>1 DEF BuildInv, BuildTypes
  <2>2. \A m \in nodes : output'[m] = IF m = x THEN RuleAt(Texts, x) ELSE output[m]
    BY <1>1, <1>7
  <2>3. Link(x, Root) /\ pc # "insert" /\ pc' # "insert"
    BY <1>1, <1>3
  <2>4. QED  BY <1>1, <1>5, <1>6, <2>1, <2>2, <2>3, LinkedMore
<1>9. Queued'
  BY <1>1, <1>2, <1>3, <1>5, <1>8, QueuedMore
<1>10. BuildTypes'
  <2>1. queue' \in Seq(nodes \ {Root})
    BY <1>1, <1>3, <1>5, QueueMore
  <2>2. QED  BY <1>1, <1>5, <1>8, <2>1 DEF BuildInv, BuildTypes, Children
<1>11. Reached'
  <2>1. \A n \in nodes \ {Root} : Len(n) <= Len(current) => n \in DOMAIN fail'
    BY <1>8 DEF BuildInv, Reached
  <2>2. ASSUME NEW n \in nodes \ {Root}, n \notin DOMAIN fail' PROVE Ahead(n)'
    <3>1. Ahead(n)
      BY <1>1, <1>8, <2>2 DEF BuildInv, Reached
    <3>2. QED  BY <1>1, <1>2, <1>3, <1>5, <3>1, AheadMore
  <2>3. QED  BY <1>1, <2>1, <2>2 DEF Reached
<1>12. Placed'
  BY <1>1 DEF BuildInv, Placed
<1>13. QED  BY <1>8, <1>9, <1>10, <1>11, <1>12 DEF BuildInv

LEMMA DequeueInv == ASSUME BuildInv, Dequeue PROVE BuildInv'
<1>1. /\ pc = "walk" /\ pc' = pc /\ todo = {} /\ queue # <<>>
      /\ current' = Head(queue) /\ queue' = Tail(queue)
      /\ todo' = Children(Head(queue))
      /\ UNCHANGED <<rules, added, nodes, output, fail, child, climb>>
  BY DEF Dequeue
<1>2. /\ Len(queue) \in Nat /\ DOMAIN queue = 1 .. Len(queue)
      /\ \A i \in 1 .. Len(queue) : queue[i] \in nodes \ {Root}
      /\ current \in nodes /\ nodes \subseteq Text /\ \A n \in nodes : Len(n) \in Nat
      /\ Closed(nodes)
  BY <1>1, WalkFacts
<1>3. queue \in Seq(nodes \ {Root})
  BY DEF BuildInv, BuildTypes
<1>4. Len(queue) >= 1
  BY <1>1, <1>2, <1>3, EmptySeq
<1>5. /\ queue' \in Seq(nodes \ {Root}) /\ Len(queue') = Len(queue) - 1
      /\ \A i \in 1 .. Len(queue) - 1 : queue'[i] = queue[i + 1]
      /\ DOMAIN queue' = 1 .. Len(queue) - 1
  <2>1. /\ Tail(queue) \in Seq(nodes \ {Root}) /\ Len(Tail(queue)) = Len(queue) - 1
        /\ \A i \in 1 .. Len(Tail(queue)) : Tail(queue)[i] = queue[i + 1]
    BY <1>1, <1>3, HeadTailProperties
  <2>2. DOMAIN Tail(queue) = 1 .. Len(Tail(queue))
    BY <2>1
  <2>3. QED  BY <1>1, <2>1, <2>2
<1>6. current' = queue[1] /\ 1 \in 1 .. Len(queue) /\ todo' = Children(queue[1])
  BY <1>1, <1>2, <1>4
<1>7. \A i \in 1 .. Len(queue) :
          /\ Len(queue[i]) \in {Len(current), Len(current) + 1}
          /\ queue[i] # current /\ queue[i] \in DOMAIN fail
          /\ \A c \in Bytes : Append(queue[i], c) \notin DOMAIN fail
  BY <1>1, <1>2 DEF BuildInv, Queued
<1>8. \A i, j \in 1 .. Len(queue) :
          i < j => queue[i] # queue[j] /\ Len(queue[i]) <= Len(queue[j])
  BY <1>2 DEF BuildInv, Queued
<1>9. \A n \in DOMAIN fail : Len(n) <= Len(current) + 1 /\ n \in nodes
  BY DEF BuildInv, Queued, BuildTypes
<1>10. /\ queue[1] \in nodes \ {Root} /\ queue[1] \in DOMAIN fail
       /\ Len(queue[1]) \in {Len(current), Len(current) + 1}
       /\ Len(queue[1]) \in Nat /\ Len(current) \in Nat
  BY <1>2, <1>6, <1>7
<1>11. \A i \in 1 .. Len(queue) : Len(queue[1]) <= Len(queue[i])
  BY <1>2, <1>6, <1>8, <1>10
<1>12. Filled' /\ Linked'
  BY <1>1, LinkedSame, WalkFacts
<1>13. BuildTypes'
  <2>1. current' \in nodes /\ todo' = Children(current')
    BY <1>1, <1>6, <1>10
  <2>2. Children(current)' = Children(current')
    BY <1>1 DEF Children
  <2>3. QED  BY <1>1, <1>5, <2>1, <2>2 DEF BuildInv, BuildTypes
<1>14. Queued'
  <2>1. ASSUME NEW i \in DOMAIN queue'
        PROVE  /\ Len(queue'[i]) \in {Len(current'), Len(current') + 1}
               /\ queue'[i] # current'
               /\ queue'[i] \in DOMAIN fail
               /\ \A b \in Bytes : Append(queue'[i], b) \notin DOMAIN fail
    <3>1. i + 1 \in 1 .. Len(queue) /\ queue'[i] = queue[i + 1] /\ 1 < i + 1
      BY <1>2, <1>5
    <3>2. queue[i + 1] # queue[1] /\ Len(queue[1]) <= Len(queue[i + 1])
      BY <1>6, <1>8, <3>1
    <3>3. Len(queue[i + 1]) \in {Len(queue[1]), Len(queue[1]) + 1}
      BY <1>7, <1>10, <3>1, <3>2
    <3>4. QED  BY <1>6, <1>7, <3>1, <3>2, <3>3
  <2>2. ASSUME NEW i \in DOMAIN queue', NEW j \in DOMAIN queue', i < j
        PROVE  queue'[i] # queue'[j] /\ Len(queue'[i]) <= Len(queue'[j])
    <3>1. /\ i + 1 \in 1 .. Len(queue) /\ j + 1 \in 1 .. Len(queue) /\ i + 1 < j + 1
          /\ queue'[i] = queue[i + 1] /\ queue'[j] = queue[j + 1]
      BY <1>2, <1>5, <2>2
    <3>2. QED  BY <1>8, <3>1
  <2>3. \A n \in DOMAIN fail : Len(n) <= Len(queue[1]) + 1
    BY <1>2, <1>9, <1>10
  <2>4. \A b \in todo' : Append(queue[1], b) \notin DOMAIN fail
    BY <1>6, <1>7 DEF Children
  <2>5. QED  BY <1>1, <1>6, <2>1, <2>2, <2>3, <2>4 DEF Queued
<1>15. Reached'
  <2>1. ASSUME NEW n \in nodes \ {Root}, Len(n) <= Len(queue[1]), n \notin DOMAIN fail
        PROVE  FALSE
    <3>1. ~(Len(n) <= Len(current)) /\ Ahead(n)
      BY <1>1, <2>1 DEF BuildInv, Reached
    <3>2. n \in Text /\ Len(n) \in Nat
      BY <1>2
    <3>3. PICK k \in 1 .. Len(n), i \in 1 .. Len(queue) : queue[i] = Begin(n, k)
      BY <1>1, <1>2, <3>1 DEF Ahead
    <3>4. k \in 0 .. Len(n) /\ Len(queue[i]) = k
      BY <3>2, <3>3, BeginIs
    <3>5. k = Len(n)
      BY <1>11, <2>1, <3>2, <3>3, <3>4
    <3>6. queue[i] = n
      BY <3>2, <3>3, <3>5, BeginAll
    <3>7. QED  BY <1>7, <2>1, <3>6
  <2>2. ASSUME NEW n \in nodes \ {Root}, n \notin DOMAIN fail PROVE Ahead(n)'
    <3>1. Ahead(n) /\ n \in Text /\ Len(n) \in Nat
      BY <1>1, <1>2, <2>2 DEF BuildInv, Reached
    <3>2. PICK k \in 1 .. Len(n), i \in 1 .. Len(queue) : queue[i] = Begin(n, k)
      BY <1>1, <1>2, <3>1 DEF Ahead
    <3>3. CASE i # 1
      <4>1. i - 1 \in 1 .. Len(queue) - 1 /\ (i - 1) + 1 = i
        BY <1>2, <3>3
      <4>2. i - 1 \in DOMAIN queue' /\ queue'[i - 1] = Begin(n, k)
        BY <1>5, <3>2, <4>1
      <4>3. QED  BY <4>2 DEF Ahead
    <3>4. CASE i = 1
      <4>1. k \in 0 .. Len(n) /\ Begin(n, k) = queue[1]
        BY <3>1, <3>2, <3>4
      <4>2. k # Len(n)
        BY <1>10, <2>2, <3>1, <4>1, BeginAll
      <4>3. k < Len(n) /\ k + 1 \in 1 .. Len(n) /\ k + 1 \in 0 .. Len(n)
        BY <3>1, <4>1, <4>2
      <4>4. n[k + 1] \in Bytes /\ Begin(n, k + 1) = Append(queue[1], n[k + 1])
        BY <3>1, <4>1, <4>3, BeginNext
      <4>5. Begin(n, k + 1) \in nodes
        BY <1>2, <4>3 DEF Closed
      <4>6. n[k + 1] \in todo' /\ Begin(n, k + 1) = Append(current', n[k + 1])
        BY <1>6, <4>4, <4>5 DEF Children
      <4>7. QED  BY <4>3, <4>6 DEF Ahead
    <3>5. QED  BY <3>3, <3>4
  <2>3. QED  BY <1>1, <1>6, <2>1, <2>2 DEF Reached
<1>16. Placed'
  BY <1>1, <1>6, <1>10 DEF Placed
<1>17. QED  BY <1>12, <1>13, <1>14, <1>15, <1>16 DEF BuildInv

LEMMA NextChildInv == ASSUME BuildInv, NEW b \in Bytes, NextChild(b) PROVE BuildInv'
<1>1. /\ pc = "walk" /\ pc' = "climb" /\ b \in todo /\ todo' = todo \ {b}
      /\ child' = Append(current, b) /\ queue' = Append(queue, child')
      /\ climb' = fail[current]
      /\ UNCHANGED <<rules, added, nodes, output, fail, current>>
  BY DEF NextChild
<1>2. /\ current \in nodes /\ nodes \subseteq Text /\ Closed(nodes)
      /\ \A n \in nodes : Len(n) \in Nat
  BY <1>1, WalkFacts
<1>3. current # Root /\ current \in DOMAIN fail
  <2>1. current # Root
    BY <1>1 DEF BuildInv, Placed
  <2>2. QED  BY <1>2, <2>1 DEF BuildInv, Reached
<1>4. IsLink(nodes, fail[current], current)
  BY <1>3 DEF BuildInv, Linked
<1>5. child' \in nodes /\ child' \notin DOMAIN fail
  BY <1>1 DEF BuildInv, BuildTypes, Children, Queued
<1>6. child' # Root /\ Last(child') = b
  BY <1>1, <1>2, AppendLonger DEF Longer, Last
<1>7. Filled' /\ Linked'
  BY <1>1, LinkedSame, WalkFacts
<1>8. Queued'
  BY <1>1, QueuedMore
<1>9. BuildTypes'
  <2>1. queue' \in Seq(nodes \ {Root})
    BY <1>1, <1>5, <1>6, QueueMore
  <2>2. climb' \in nodes
    BY <1>1, <1>4 DEF IsLink
  <2>3. QED  BY <1>1, <1>5, <2>1, <2>2 DEF BuildInv, BuildTypes, Children
<1>10. Reached'
  <2>1. \A n \in nodes \ {Root} : Len(n) <= Len(current) => n \in DOMAIN fail
    BY DEF BuildInv, Reached
  <2>2. ASSUME NEW n \in nodes \ {Root}, n \notin DOMAIN fail PROVE Ahead(n)'
    <3>1. Ahead(n)
      BY <1>1, <2>2 DEF BuildInv, Reached
    <3>2. QED  BY <1>1, <1>5, <3>1, AheadMore
  <2>3. QED  BY <1>1, <2>1, <2>2 DEF Reached
<1>11. Climbing'
  <2>1. b \in Bytes \ todo' /\ child' = Append(current, b)
    BY <1>1
  <2>2. Ends(climb', current) /\ Len(climb') < Len(current)
    BY <1>1, <1>4 DEF IsLink
  <2>3. \A s \in nodes : Ends(s, current) /\ Len(s) < Len(current) => Len(s) <= Len(climb')
    BY <1>1, <1>4 DEF IsLink
  <2>4. QED  BY <1>1, <1>3, <1>5, <1>6, <2>1, <2>2, <2>3 DEF Climbing
<1>12. Placed'
  BY <1>1, <1>11 DEF Placed
<1>13. QED  BY <1>7, <1>8, <1>9, <1>10, <1>12 DEF BuildInv

LEMMA ClimbInv == ASSUME BuildInv, Climb PROVE BuildInv'
<1>1. /\ pc = "climb" /\ ~Stops /\ climb' = fail[climb]
      /\ UNCHANGED <<pc, rules, added, nodes, output, fail, queue, current, todo, child>>
  BY DEF Climb
<1>2. /\ current \in nodes /\ nodes \subseteq Text /\ \A n \in nodes : Len(n) \in Nat
      /\ climb \in nodes
  BY <1>1, WalkFacts DEF BuildInv, BuildTypes
<1>3. Climbing
  BY <1>1 DEF BuildInv, Placed
<1>4. climb # Root /\ Append(climb, Last(child)) \notin nodes
  BY <1>1, <1>3 DEF Stops, Children, Climbing
<1>5. climb \in DOMAIN fail
  BY <1>2, <1>3, <1>4 DEF BuildInv, Reached, Climbing
<1>6. IsLink(nodes, fail[climb], climb)
  BY <1>5 DEF BuildInv, Linked
<1>7. climb' \in nodes /\ Ends(climb', climb) /\ Len(climb') < Len(climb)
  BY <1>1, <1>6 DEF IsLink
<1>8. Filled' /\ Linked'
  BY <1>1, LinkedSame, WalkFacts
<1>9. BuildTypes'
  BY <1>1, <1>7 DEF BuildInv, BuildTypes, Children
<1>10. Queued'
  BY <1>1 DEF BuildInv, Queued
<1>11. Reached'
  BY <1>1 DEF BuildInv, Reached, Ahead
<1>12. Climbing'
  <2>1. Ends(climb', current)
    BY <1>2, <1>3, <1>7, EndsTrans DEF Climbing
  <2>2. Len(climb') < Len(current)
    BY <1>2, <1>3, <1>7 DEF Climbing
  <2>3. ASSUME NEW s \in nodes, Ends(s, current), Len(s) < Len(current),
               Append(s, Last(child)) \in nodes
        PROVE  Len(s) <= Len(climb')
    <3>1. Len(s) <= Len(climb) /\ s # climb
      BY <1>3, <1>4, <2>3 DEF Climbing
    <3>2. Ends(s, climb)
      BY <1>2, <1>3, <2>3, <3>1, EndsNested DEF Climbing
    <3>3. Len(s) # Len(climb)
      BY <1>2, <1>3, <2>3, <3>1, EndsSame DEF Climbing
    <3>4. Len(s) < Len(climb)
      BY <1>2, <3>1, <3>3
    <3>5. QED  BY <1>1, <1>6, <3>2, <3>4 DEF IsLink
  <2>4. QED  BY <1>1, <1>3, <2>1, <2>2, <2>3 DEF Climbing
<1>13. Placed'
  BY <1>1, <1>12 DEF Placed
<1>14. QED  BY <1>8, <1>9, <1>10, <1>11, <1>13 DEF BuildInv

\* The link that the search ends with.
LEMMA ClimbFinds ==
    ASSUME BuildInv, pc = "climb", Stops
    PROVE  LET target == Append(climb, Last(child))
           IN  IF target \in nodes
               THEN IsLink(nodes, target, child) /\ target \in DOMAIN fail
               ELSE IsLink(nodes, Root, child)
<1> DEFINE b == Last(child)
           target == Append(climb, b)
<1>1. /\ current \in nodes /\ nodes \subseteq Text /\ Closed(nodes) /\ Root \in nodes
      /\ \A n \in nodes : Len(n) \in Nat
      /\ climb \in nodes /\ child \in nodes
  BY WalkFacts DEF BuildInv, BuildTypes
<1>2. Climbing
  BY DEF BuildInv, Placed
<1>3. b \in Bytes /\ child = Append(current, b) /\ Len(child) = Len(current) + 1
  BY <1>1, <1>2, AppendLonger DEF Climbing, Longer
<1>4. Ends(climb, current) /\ Len(climb) < Len(current)
  BY <1>2 DEF Climbing
<1>5. target \in Text /\ target # Root /\ Len(target) = Len(climb) + 1
  BY <1>1, <1>3, AppendLonger DEF Longer
<1> HIDE DEF b, target
<1>6. ASSUME NEW t \in nodes, Ends(t, child), Len(t) < Len(child), t # Root
      PROVE  \E s \in nodes : t = Append(s, b) /\ Len(t) = Len(s) + 1
                              /\ Len(s) <= Len(climb)
  <2>1. PICK s \in Text : t = Append(s, b) /\ Ends(s, current)
    BY <1>1, <1>3, <1>6, EndsSplit
  <2>2. Len(t) = Len(s) + 1 /\ Len(s) \in Nat
    BY <1>3, <2>1, AppendLonger, TextLen DEF Longer
  <2>3. s \in nodes
    BY <1>1, <1>3, <1>6, <2>1, ClosedParent
  <2>4. Len(s) < Len(current)
    BY <1>1, <1>3, <1>6, <2>2
  <2>5. Len(s) <= Len(climb)
    BY <1>2, <1>6, <2>1, <2>3, <2>4 DEF Climbing, b
  <2>6. QED  BY <2>1, <2>2, <2>3, <2>5
<1>7. CASE target \in nodes
  <2>1. Ends(target, child)
    BY <1>1, <1>3, <1>4, EndsAppend DEF target
  <2>2. Len(target) < Len(child)
    BY <1>1, <1>3, <1>4, <1>5
  <2>3. ASSUME NEW t \in nodes, Ends(t, child), Len(t) < Len(child)
        PROVE  Len(t) <= Len(target)
    <3>1. CASE t = Root
      BY <1>1, <1>5, <3>1, RootText
    <3>2. CASE t # Root
      BY <1>1, <1>5, <1>6, <2>3, <3>2
    <3>3. QED  BY <3>1, <3>2
  <2>4. IsLink(nodes, target, child)
    BY <1>7, <2>1, <2>2, <2>3 DEF IsLink
  <2>5. Len(target) <= Len(current)
    BY <1>1, <1>4, <1>5
  <2>6. target \in DOMAIN fail
    BY <1>5, <1>7, <2>5 DEF BuildInv, Reached
  <2>7. QED  BY <1>7, <2>4, <2>6 DEF target, b
<1>8. CASE target \notin nodes
  <2>1. climb = Root
    BY <1>3, <1>8 DEF Stops, Children, target, b
  <2>2. ASSUME NEW t \in nodes, Ends(t, child), Len(t) < Len(child)
        PROVE  Len(t) <= Len(Root)
    <3>1. SUFFICES ASSUME t # Root PROVE FALSE
      BY RootText
    <3>2. PICK s \in nodes : t = Append(s, b) /\ Len(s) <= Len(climb)
      BY <1>6, <2>2, <3>1
    <3>3. s = Root
      BY <1>1, <2>1, <3>2, RootText, TextLen
    <3>4. QED  BY <1>8, <2>1, <3>2, <3>3 DEF target
  <2>3. Ends(Root, child) /\ Len(Root) < Len(child)
    BY <1>1, <1>3, EndsRefl, RootText
  <2>4. IsLink(nodes, Root, child)
    BY <1>1, <2>2, <2>3 DEF IsLink
  <2>5. QED  BY <1>8, <2>4 DEF target, b
<1>9. QED  BY <1>7, <1>8

LEMMA LinkChildInv == ASSUME BuildInv, LinkChild PROVE BuildInv'
<1> DEFINE t == Append(climb, Last(child))
           link == IF t \in nodes THEN t ELSE Root
<1>1. /\ pc = "climb" /\ Stops /\ pc' = "walk"
      /\ UNCHANGED <<rules, added, nodes, queue, current, todo, child, climb>>
  BY DEF LinkChild
<1>2. /\ rules \in Policies /\ added = Len(rules) /\ nodes = NodesOf(Texts)
      /\ nodes \subseteq Text /\ Root \in nodes /\ current \in nodes
      /\ DOMAIN queue = 1 .. Len(queue)
      /\ \A i \in 1 .. Len(queue) : queue[i] \in nodes \ {Root}
      /\ child \in nodes /\ \A n \in nodes : Len(n) \in Nat
  BY <1>1, WalkFacts DEF BuildInv, BuildTypes
<1>3. Climbing
  BY <1>1 DEF BuildInv, Placed
<1>4. child # Root /\ child \notin DOMAIN fail /\ child \in Text
  BY <1>2, <1>3, AppendLonger DEF Climbing
<1>5. IsLink(nodes, link, child) /\ (t \in nodes => t \in DOMAIN fail)
  BY <1>1, ClimbFinds
<1>6. link \in Text
  BY <1>2, <1>5 DEF IsLink
<1>7. Mine(output[child], child, Len(rules))
  BY <1>2, <1>4 DEF BuildInv, Filled
<1>8. RuleAt(Texts, child) = IF output[child] = None THEN RuleAt(Texts, link)
                             ELSE output[child]
  <2> HIDE DEF link
  <2>1. QED  BY <1>2, <1>4, <1>5, <1>6, <1>7, RuleSettled
<1>9. output \in [nodes -> 0 .. Len(rules)]
  BY DEF BuildInv, BuildTypes
<1>10. /\ Link(child, link)
       /\ output' \in [nodes -> 0 .. Len(rules)]
       /\ \A m \in nodes : output'[m] = IF m = child THEN RuleAt(Texts, child)
                                        ELSE output[m]
  <2>1. CASE t \in nodes
    <3>1. Link(child, t) /\ output' = [output EXCEPT ![child] = Inherited(t)]
      BY <2>1 DEF LinkChild
    <3>2. output[t] = RuleAt(Texts, t)
      BY <1>5, <2>1 DEF BuildInv, Linked
    <3>3. Inherited(t) = RuleAt(Texts, child) /\ Inherited(t) \in 0 .. Len(rules)
      BY <1>2, <1>8, <1>9, <2>1, <3>2 DEF Inherited
    <3>4. QED  BY <1>2, <1>9, <2>1, <3>1, <3>3
  <2>2. CASE t \notin nodes
    <3>1. Link(child, Root) /\ output' = output
      BY <2>2 DEF LinkChild
    <3>2. RuleAt(Texts, Root) = None
      BY <1>2, RuleRoot, RuleAtIs, RootText
    <3>3. output[child] = RuleAt(Texts, child)
      BY <1>8, <2>2, <3>2
    <3>4. QED  BY <1>9, <2>2, <3>1, <3>3
  <2>3. QED  BY <2>1, <2>2
<1> HIDE DEF t, link
<1>11. Filled' /\ Linked' /\ DOMAIN fail' = DOMAIN fail \cup {child}
  BY <1>1, <1>2, <1>4, <1>5, <1>10, LinkedMore
<1>12. BuildTypes'
  BY <1>1, <1>2, <1>4, <1>10, <1>11 DEF BuildInv, BuildTypes, Children
<1>13. Queued'
  <2>1. \A i \in DOMAIN queue :
            /\ Len(queue[i]) \in {Len(current), Len(current) + 1}
            /\ queue[i] # current
            /\ queue[i] \in DOMAIN fail'
    BY <1>11 DEF BuildInv, Queued
  <2>2. ASSUME NEW i \in DOMAIN queue, NEW c \in Bytes
        PROVE  Append(queue[i], c) \notin DOMAIN fail'
    <3>1. Append(queue[i], c) \notin DOMAIN fail /\ queue[i] # current
      BY DEF BuildInv, Queued
    <3>2. Append(queue[i], c) # child
      BY <1>2, <1>3, <3>1, ChildApart DEF Climbing
    <3>3. QED  BY <1>11, <3>1, <3>2
  <2>3. \A n \in DOMAIN fail' : Len(n) <= Len(current) + 1
    <3>1. Len(child) = Len(current) + 1
      BY <1>2, <1>3, AppendLonger DEF Climbing, Longer
    <3>2. QED  BY <1>2, <1>11, <3>1 DEF BuildInv, Queued
  <2>4. ASSUME NEW c \in todo PROVE Append(current, c) \notin DOMAIN fail'
    <3>1. Append(current, c) \notin DOMAIN fail /\ c \in Bytes /\ c # Last(child)
      BY <1>3 DEF BuildInv, Queued, BuildTypes, Children, Climbing
    <3>2. Append(current, c) # child
      BY <1>2, <1>3, <3>1, ChildApart DEF Climbing
    <3>3. QED  BY <1>11, <3>1, <3>2
  <2>5. QED  BY <1>1, <2>1, <2>2, <2>3, <2>4 DEF BuildInv, Queued
<1>14. Reached'
  <2>1. \A n \in nodes \ {Root} : n \in DOMAIN fail \/ Ahead(n)
    BY <1>1 DEF BuildInv, Reached
  <2>2. \A n : Ahead(n)' <=> Ahead(n)
    BY <1>1 DEF Ahead
  <2>3. QED  BY <1>1, <1>11, <2>1, <2>2 DEF BuildInv, Reached
<1>15. Placed'
  BY <1>1, <1>3 DEF Placed, Climbing
<1>16. QED  BY <1>11, <1>12, <1>13, <1>14, <1>15 DEF BuildInv

LEMMA BuildInvSame == ASSUME BuildInv, UNCHANGED buildVars PROVE BuildInv'
<1>1. /\ pc' = pc /\ rules' = rules /\ added' = added /\ nodes' = nodes
      /\ output' = output /\ fail' = fail /\ queue' = queue /\ current' = current
      /\ todo' = todo /\ child' = child /\ climb' = climb
  BY DEF buildVars
<1>2. Texts' = Texts
  BY <1>1, TextsSame
<1>3. BuildTypes'
  BY <1>1 DEF BuildInv, BuildTypes, Children
<1>4. Filled'
  <2>1. \A n \in nodes \ DOMAIN fail : Mine(output[n], n, added)'
    BY <1>1, <1>2 DEF BuildInv, Filled, Mine, Own
  <2>2. QED  BY <1>1, <1>2, <2>1 DEF BuildInv, Filled
<1>5. Linked' /\ Queued'
  BY <1>1, <1>2 DEF BuildInv, Linked, Queued
<1>6. Reached' /\ Placed'
  BY <1>1 DEF BuildInv, Reached, Ahead, Placed, Climbing
<1>7. QED  BY <1>3, <1>4, <1>5, <1>6 DEF BuildInv

LEMMA BuildStep == ASSUME BuildInv, [Next]_vars PROVE BuildInv'
<1>1. CASE BuildNext
  BY <1>1, InsertInv, InsertDoneInv, SeedInv, SeedDoneInv, DequeueInv,
     NextChildInv, ClimbInv, LinkChildInv, ReturnInv DEF BuildNext
<1>2. CASE UNCHANGED buildVars
  BY <1>2, BuildInvSame
<1>3. QED  BY <1>1, <1>2 DEF Next, Over, vars

\* The automaton of a finished walk.
LEMMA BuiltIs ==
    ASSUME BuildInv, pc = "built"
    PROVE  /\ DOMAIN fail = nodes \ {Root} /\ nodes = NodesOf(Texts)
           /\ \A n \in nodes \ {Root} : /\ IsLink(nodes, fail[n], n)
                                        /\ output[n] = RuleAt(Texts, n)
           /\ Mine(output[Root], Root, Len(rules))
<1>1. queue = <<>> /\ todo = {}
  BY DEF BuildInv, Placed
<1>2. \A n : ~Ahead(n)
  BY <1>1 DEF Ahead
<1>3. DOMAIN fail = nodes \ {Root}
  BY <1>2 DEF BuildInv, Reached, BuildTypes
<1>4. Root \in nodes /\ added = Len(rules) /\ nodes = NodesOf(Texts)
  BY WalkFacts
<1>5. Mine(output[Root], Root, Len(rules))
  BY <1>3, <1>4 DEF BuildInv, Filled
<1>6. QED  BY <1>3, <1>4, <1>5 DEF BuildInv, Linked

LEMMA BuildRight == ASSUME BuildInv PROVE AutomatonIsRight
<1>1. rules \in Policies /\ nodes \subseteq Text /\ DOMAIN fail \subseteq nodes \ {Root}
  BY DEF BuildInv, BuildTypes, Closed
<1>2. \A n \in DOMAIN fail : fail[n] = FailLink(nodes, n)
  BY <1>1, LinkIs DEF BuildInv, Linked
<1>3. LinksAreLongest
  BY <1>2, BuiltIs DEF LinksAreLongest
<1>4. ASSUME pc = "built"
      PROVE  LET silent == {i \in DOMAIN rules : rules[i] # <<>> /\ Texts[i] = <<>>}
             IN  IF silent = {} THEN output[Root] = None
                 ELSE /\ output[Root] \in silent
                      /\ \A i \in silent : i <= output[Root]
  <2>1. Mine(output[Root], Root, Len(rules))
    BY <1>4, BuiltIs
  <2>2. Own(Root, Len(rules)) = {i \in DOMAIN rules : rules[i] # <<>> /\ Texts[i] = <<>>}
    BY <1>1, TextsAre DEF Own, Root
  <2>3. QED  BY <2>1, <2>2 DEF Mine
<1>5. QED  BY <1>3, <1>4, BuiltIs DEF AutomatonIsRight

\* NewRules, for every policy and in whatever order Go ranges over the
\* children of a node: links are the longest ones from the moment they are
\* set, and the finished automaton reports at every node the rule with the
\* longest text that ends there.
THEOREM AutomatonHolds == Spec => []AutomatonIsRight
<1>1. Init => BuildInv
  BY BuildInitInv DEF Init
<1>2. BuildInv /\ [Next]_vars => BuildInv'
  BY BuildStep
<1>3. BuildInv => AutomatonIsRight
  BY BuildRight
<1>4. QED  BY <1>1, <1>2, <1>3, PTL DEF Spec

-----------------------------------------------------------------------------
(* The loop of Normalize, byte by byte.                                    *)

\* z with the byte b before it.
First(b, z) == <<b>> \o z

\* Its length, its bytes, its head and its tail.
LEMMA FirstIs ==
    ASSUME NEW b \in Bytes, NEW z \in Text
    PROVE  /\ First(b, z) \in Text /\ First(b, z) # <<>>
           /\ Len(First(b, z)) = Len(z) + 1
           /\ First(b, z)[1] = b /\ (z # <<>> => First(b, z)[2] = z[1])
           /\ Head(First(b, z)) = b /\ Tail(First(b, z)) = z
<1>1. <<b>> \in Text /\ Len(<<b>>) = 1 /\ <<b>>[1] = b
  BY DEF Text
<1>2. Len(z) \in Nat /\ (z # <<>> => Len(z) >= 1)
  BY TextLen
<1>3. PICK s : s = First(b, z)
  OBVIOUS
<1>4. /\ s \in Text /\ Len(s) = Len(z) + 1
      /\ \A i \in 1 .. Len(z) + 1 : s[i] = IF i <= 1 THEN <<b>>[i] ELSE z[i - 1]
  <2>1. /\ <<b>> \o z \in Text /\ Len(<<b>> \o z) = Len(<<b>>) + Len(z)
        /\ \A i \in 1 .. Len(<<b>>) + Len(z) :
              (<<b>> \o z)[i] = IF i <= Len(<<b>>) THEN <<b>>[i] ELSE z[i - Len(<<b>>)]
    BY <1>1, ConcatProperties DEF Text
  <2>2. s = <<b>> \o z
    BY <1>3 DEF First
  <2>3. Len(<<b>>) + Len(z) = Len(z) + 1
    BY <1>1, <1>2
  <2> HIDE DEF First
  <2>4. QED  BY <1>1, <2>1, <2>2, <2>3
<1>5. s[1] = b /\ s # <<>>
  <2>1. 1 \in 1 .. Len(z) + 1
    BY <1>2
  <2>2. s[1] = b
    BY <1>1, <1>4, <2>1
  <2>3. s # <<>>
    BY <1>2, <1>4, TextLen
  <2>4. QED  BY <2>2, <2>3
<1>6. \A i \in 1 .. Len(z) : s[i + 1] = z[i]
  <2>1. SUFFICES ASSUME NEW i \in 1 .. Len(z) PROVE s[i + 1] = z[i]
    OBVIOUS
  <2>2. i + 1 \in 1 .. Len(z) + 1 /\ ~(i + 1 <= 1) /\ (i + 1) - 1 = i
    BY <1>2
  <2>3. QED  BY <1>4, <2>2
<1>7. z # <<>> => s[2] = z[1]
  <2>1. z # <<>> => 1 \in 1 .. Len(z) /\ 1 + 1 = 2
    BY <1>2
  <2>2. QED  BY <1>6, <2>1
<1>8. Head(s) = b
  BY <1>4, <1>5 DEF Text
<1>9. Tail(s) = z
  <2>1. /\ Tail(s) \in Text /\ Len(Tail(s)) = Len(s) - 1
        /\ \A i \in 1 .. Len(Tail(s)) : Tail(s)[i] = s[i + 1]
    BY <1>4, <1>5, HeadTailProperties DEF Text
  <2>2. PICK u : u = Tail(s)
    OBVIOUS
  <2>3. u \in Text /\ Len(u) = Len(z) /\ \A i \in 1 .. Len(u) : u[i] = s[i + 1]
    BY <1>2, <1>4, <2>1, <2>2
  <2>4. \A i \in 1 .. Len(u) : u[i] = z[i]
    BY <1>6, <2>3
  <2>5. u = z
    BY <2>3, <2>4, Same
  <2>6. QED  BY <2>2, <2>5
<1>10. QED  BY <1>3, <1>4, <1>5, <1>7, <1>8, <1>9

LEMMA FirstBegins ==
    ASSUME NEW b \in Bytes, NEW z \in Text, NEW x, NEW y
    PROVE  Begins(First(b, z), x, y) <=> b = x /\ z # <<>> /\ z[1] = y
<1>1. Len(z) \in Nat /\ (z # <<>> <=> Len(z) >= 1)
  BY TextLen
<1>2. Len(First(b, z)) >= 2 <=> z # <<>>
  BY <1>1, FirstIs
<1>3. QED  BY <1>2, FirstIs DEF Begins

InComment == {"lead", "open"}
Space == " "
Emit(m, b) == IF m = "space" THEN <<Space, b>> ELSE <<b>>

\* One turn of the loop, by the first byte and the one behind it.
LEMMA LoopFirst ==
    ASSUME NEW b \in Bytes, NEW z \in Text, NEW m \in Modes
    PROVE  Loop[First(b, z)][m] =
             IF m \in InComment
             THEN IF b = "*" /\ z # <<>> /\ z[1] = "/" THEN Loop[Tail(z)][Spaced(m)]
                                                      ELSE Loop[z][m]
             ELSE IF b = "/" /\ z # <<>> /\ z[1] = "*" THEN Loop[Tail(z)][Opened(m)]
             ELSE IF b \in Blanks THEN Loop[z][Spaced(m)]
             ELSE Emit(m, Lower[b]) \o Loop[z]["byte"]
<1>1. PICK s : s = First(b, z)
  OBVIOUS
<1>2. s \in Text /\ s # <<>> /\ Head(s) = b /\ Tail(s) = z
  BY <1>1, FirstIs
<1>3. \A x, y : Begins(s, x, y) <=> b = x /\ z # <<>> /\ z[1] = y
  BY <1>1, FirstBegins
<1>4. Loop[s][m] = Turn(Loop, s, m)
  BY <1>2, LoopIs
<1>5. Turn(Loop, s, m) =
             IF m \in InComment
             THEN IF b = "*" /\ z # <<>> /\ z[1] = "/" THEN Loop[Tail(z)][Spaced(m)]
                                                      ELSE Loop[z][m]
             ELSE IF b = "/" /\ z # <<>> /\ z[1] = "*" THEN Loop[Tail(z)][Opened(m)]
             ELSE IF b \in Blanks THEN Loop[z][Spaced(m)]
             ELSE Emit(m, Lower[b]) \o Loop[z]["byte"]
  BY <1>2, <1>3 DEF Turn, InComment, Emit, Space
<1>6. QED  BY <1>1, <1>4, <1>5

\* The mode the scanner is in and the byte it holds back.
Mode ==
    IF inBlockComment THEN IF emitted THEN "open" ELSE "lead"
    ELSE IF ~emitted THEN "start" ELSE IF pendingSpace THEN "space" ELSE "byte"
After(z) ==
    IF pendingSlash THEN First("/", z)
    ELSE IF pendingCommentStar THEN First("*", z) ELSE z

Whole == text \o due

\* What the scanner has put out is what Normalize makes of the input so far,
\* whatever is still to come.
Agrees ==
    /\ finished => Loop[input]["start"] = Whole
    /\ ~finished => \A z \in Text : Loop[input \o z]["start"] =
                                       Whole \o Loop[After(z)][Mode]
    /\ Whole # <<>> => Last(Whole) # Space

Flags ==
    /\ finished \in BOOLEAN /\ pendingSpace \in BOOLEAN /\ pendingSlash \in BOOLEAN
    /\ inBlockComment \in BOOLEAN /\ pendingCommentStar \in BOOLEAN
    /\ emitted \in BOOLEAN
    /\ inBlockComment => ~pendingSlash
    /\ ~inBlockComment => ~pendingCommentStar
    /\ finished => ~pendingSlash

ScanTypes ==
    /\ input \in Text /\ Len(input) <= MaxInput
    /\ text \in Text /\ due \in Text /\ Len(due) <= 3
    /\ state \in nodes /\ match \in {None} \cup DOMAIN rules
    /\ pc # "built" => /\ text = <<>> /\ due = <<>> /\ input = <<>>
                       /\ state = Root /\ match = None

\* No node that the next byte, if there is one, leads on from is longer than
\* the state.
Follows ==
    /\ Ends(state, text)
    /\ \A s \in nodes :
          Ends(s, text) /\ (due = <<>> \/ Append(s, Head(due)) \in nodes)
            => Len(s) <= Len(state)

Reported ==
    /\ match # None => /\ Ends(Texts[match], text)
                       /\ Texts[match] = <<>> => state = Root
    /\ match = None =>
          \A i \in DOMAIN Texts : Texts[i] # <<>> =>
              \A k \in 0 .. Len(text) : ~Ends(Texts[i], Begin(text, k))

ScanInv == Flags /\ ScanTypes /\ Agrees /\ Follows /\ Reported

LEMMA ConcatText ==
    ASSUME NEW s \in Text, NEW t \in Text
    PROVE  /\ s \o t \in Text /\ s \o <<>> = s /\ <<>> \o s = s
           /\ Len(s \o t) = Len(s) + Len(t)
           /\ t # <<>> => s \o t # <<>> /\ Last(s \o t) = Last(t)
<1>1. /\ s \o t \in Text /\ Len(s \o t) = Len(s) + Len(t)
      /\ \A i \in 1 .. Len(s) + Len(t) :
            (s \o t)[i] = IF i <= Len(s) THEN s[i] ELSE t[i - Len(s)]
  BY ConcatProperties DEF Text
<1>2. s \o <<>> = s /\ <<>> \o s = s
  BY ConcatEmptySeq DEF Text
<1>3. Len(s) \in Nat /\ Len(t) \in Nat /\ (t # <<>> => Len(t) >= 1)
  BY TextLen
<1>4. PICK u : u = s \o t
  OBVIOUS
<1>5. ASSUME t # <<>> PROVE u # <<>> /\ Last(u) = Last(t)
  <2>1. Len(u) = Len(s) + Len(t) /\ u \in Text
    BY <1>1, <1>4
  <2>2. u # <<>>
    BY <1>3, <1>5, <2>1, TextLen
  <2>3. /\ Len(s) + Len(t) \in 1 .. Len(s) + Len(t) /\ ~(Len(s) + Len(t) <= Len(s))
        /\ (Len(s) + Len(t)) - Len(s) = Len(t)
    BY <1>3, <1>5
  <2>4. u[Len(s) + Len(t)] = t[Len(t)]
    BY <1>1, <1>4, <2>3
  <2>5. QED  BY <2>1, <2>2, <2>4 DEF Last
<1>6. QED  BY <1>1, <1>2, <1>4, <1>5

LEMMA ConcatAssoc ==
    ASSUME NEW s \in Text, NEW t \in Text, NEW u \in Text
    PROVE  (s \o t) \o u = s \o (t \o u)
  BY ConcatAssociative DEF Text

\* A byte that is fed moves from what is to come to the input.
LEMMA FedInput ==
    ASSUME NEW s \in Text, NEW b \in Bytes, NEW z \in Text
    PROVE  Append(s, b) \o z = s \o First(b, z)
<1>1. Append(s, b) = s \o <<b>>
  BY AppendIsConcat DEF Text
<1>2. <<b>> \in Text
  BY Short
<1>3. QED  BY <1>1, <1>2, ConcatAssoc DEF First

\* The flags of the scanner and the modes of the loop.
LEMMA ModeIn ==
    ASSUME Flags
    PROVE  /\ Mode \in Modes /\ (Mode \in InComment <=> inBlockComment)
           /\ ~inBlockComment => (Mode = "space" <=> pendingSpace /\ emitted)
           /\ ~inBlockComment => Spaced(Mode) = IF emitted THEN "space" ELSE "start"
           /\ inBlockComment => Spaced(Mode) = IF emitted THEN "space" ELSE "start"
           /\ ~inBlockComment => Opened(Mode) = IF emitted THEN "open" ELSE "lead"
  BY DEF Flags, Mode, Modes, InComment, Spaced, Opened

LEMMA AfterText == ASSUME NEW z \in Text PROVE After(z) \in Text
<1>1. "/" \in Bytes /\ "*" \in Bytes
  BY TextAssumption
<1>2. QED  BY <1>1, FirstIs DEF After

\* What a byte that is fed must do to the output.
LEMMA FeedAgrees ==
    ASSUME ScanInv, Idle, Flags', NEW raw \in Bytes, input' = Append(input, raw),
           text' = text, finished' = finished, due' \in Text,
           due' # <<>> => Last(due') # Space,
           \A z \in Text : Loop[After(First(raw, z))][Mode] =
                              due' \o Loop[After(z)'][Mode']
    PROVE  Agrees'
<1>1. text \in Text /\ input \in Text /\ due = <<>> /\ ~finished
  BY DEF ScanInv, ScanTypes, Idle
<1>2. Whole = text /\ Whole' = text \o due'
  BY <1>1, ConcatText DEF Whole
<1>3. ASSUME NEW z \in Text
      PROVE  Loop[input' \o z]["start"] = Whole' \o Loop[After(z)'][Mode']
  <2>1. First(raw, z) \in Text
    BY FirstIs
  <2>2. Loop[input \o First(raw, z)]["start"] = text \o Loop[After(First(raw, z))][Mode]
    BY <1>1, <1>2, <2>1 DEF ScanInv, Agrees
  <2>3. input' \o z = input \o First(raw, z)
    BY <1>1, FedInput
  <2>4. Loop[After(z)'][Mode'] \in Text
    <3>1. After(z)' \in Text
      <4>1. "/" \in Bytes /\ "*" \in Bytes
        BY TextAssumption
      <4>2. QED  BY <4>1, FirstIs DEF After
    <3>2. Mode' \in Modes
      BY DEF Flags, Mode, Modes
    <3>3. QED  BY <3>1, <3>2, LoopIs
  <2>5. text \o (due' \o Loop[After(z)'][Mode']) = (text \o due') \o Loop[After(z)'][Mode']
    BY <1>1, <2>4, ConcatAssoc
  <2>6. QED  BY <1>2, <2>2, <2>3, <2>5
<1>4. ASSUME Whole' # <<>> PROVE Last(Whole') # Space
  <2>1. CASE due' = <<>>
    <3>1. Whole' = Whole
      BY <1>1, <1>2, <2>1, ConcatText
    <3>2. Whole # <<>> => Last(Whole) # Space
      BY DEF ScanInv, Agrees
    <3>3. QED  BY <1>4, <3>1, <3>2
  <2>2. CASE due' # <<>>
    <3>1. Last(text \o due') = Last(due')
      BY <1>1, <2>2, ConcatText
    <3>2. QED  BY <1>2, <2>2, <3>1
  <2>3. QED  BY <2>1, <2>2
<1>5. QED  BY <1>1, <1>3, <1>4 DEF Agrees

\* What feeding a byte and Finish leave alone.
LEMMA FeedKeeps ==
    ASSUME BuildInv, ScanInv, Idle, UNCHANGED buildVars, UNCHANGED nodeVars,
           due' \in Text, Len(due') <= 3, input' \in Text, Len(input') <= MaxInput
    PROVE  ScanTypes' /\ Follows' /\ Reported'
<1>1. /\ pc' = pc /\ nodes' = nodes /\ rules' = rules /\ text' = text
      /\ state' = state /\ match' = match /\ pc = "built" /\ due = <<>>
  BY DEF buildVars, nodeVars, Idle
<1>2. Texts' = Texts
  BY <1>1, TextsSame
<1>3. ScanTypes'
  BY <1>1 DEF ScanInv, ScanTypes
<1>4. Follows'
  BY <1>1 DEF ScanInv, Follows
<1>5. Reported'
  BY <1>1, <1>2 DEF ScanInv, Reported
<1>6. QED  BY <1>3, <1>4, <1>5

\* What every byte fed does.
LEMMA TakeFacts ==
    ASSUME BuildInv, ScanInv, NEW raw \in Bytes, Take(raw)
    PROVE  /\ Idle /\ input' = Append(input, raw) /\ input' \in Text
           /\ Len(input') <= MaxInput /\ UNCHANGED nodeVars
           /\ text' = text /\ finished' = finished /\ ~finished /\ due = <<>>
<1>1. /\ Idle /\ input' = Append(input, raw) /\ Len(input) < MaxInput
      /\ UNCHANGED finished /\ UNCHANGED nodeVars
  BY DEF Take
<1>2. input \in Text
  BY DEF ScanInv, ScanTypes
<1>3. input' \in Text /\ Len(input') = Len(input) + 1 /\ Len(input) \in Nat
  BY <1>1, <1>2, AppendLonger, TextLen DEF Longer
<1>4. Len(input') <= MaxInput
  BY <1>1, <1>3, ScannerAssumption
<1>5. QED  BY <1>1, <1>3, <1>4 DEF nodeVars, Idle

\* A byte in a comment: nothing is put out, only its end is looked for.
LEMMA FeedCommentInv ==
    ASSUME BuildInv, ScanInv, NEW raw \in Bytes, FeedComment(raw), UNCHANGED buildVars
    PROVE  ScanInv'
<1> DEFINE ends == pendingCommentStar /\ raw = "/"
<1>1. Take(raw)
  BY DEF FeedComment
<1>2. /\ inBlockComment /\ inBlockComment' = ~ends
      /\ pendingCommentStar' = (~ends /\ raw = "*")
      /\ pendingSpace' = (pendingSpace \/ ends)
      /\ due' = due /\ pendingSlash' = pendingSlash /\ emitted' = emitted
  BY DEF FeedComment
<1>3. /\ Idle /\ input' = Append(input, raw) /\ input' \in Text
      /\ Len(input') <= MaxInput /\ UNCHANGED nodeVars
      /\ text' = text /\ finished' = finished /\ ~finished /\ due = <<>>
  BY <1>1, TakeFacts
<1>4. due' = <<>> /\ due' \in Text /\ Len(due') <= 3
  BY <1>2, <1>3, RootText DEF Root
<1>5. Flags
  BY DEF ScanInv
<1>6. ~pendingSlash
  BY <1>2, <1>5 DEF Flags
<1>7. Flags'
  BY <1>2, <1>3, <1>5, <1>6 DEF Flags
<1>8. ASSUME NEW z \in Text
      PROVE  Loop[After(First(raw, z))][Mode] = due' \o Loop[After(z)'][Mode']
  <2>0. /\ "/" \in Bytes /\ "*" \in Bytes
        /\ Mode \in Modes /\ Mode \in InComment
        /\ Spaced(Mode) = IF emitted THEN "space" ELSE "start"
    BY <1>2, <1>5, TextAssumption, ModeIn
  <2>1. /\ First(raw, z) \in Text /\ First(raw, z) # <<>> /\ First(raw, z)[1] = raw
        /\ Tail(First(raw, z)) = z
    BY FirstIs
  <2>2. After(First(raw, z)) = IF pendingCommentStar THEN First("*", First(raw, z))
                               ELSE First(raw, z)
    BY <1>6 DEF After
  <2>3. Loop[First("*", First(raw, z))][Mode] =
            IF raw = "/" THEN Loop[z][Spaced(Mode)] ELSE Loop[First(raw, z)][Mode]
    BY <2>0, <2>1, LoopFirst
  <2>4. raw # "*" => Loop[First(raw, z)][Mode] = Loop[z][Mode]
    BY <2>0, LoopFirst
  <2>5. Loop[After(First(raw, z))][Mode] = Loop[After(z)'][Mode']
    <3>1. CASE ends
      <4>1. After(z)' = z
        BY <1>2, <1>6, <3>1 DEF After
      <4>2. Mode' = IF emitted THEN "space" ELSE "start"
        BY <1>2, <3>1 DEF Mode
      <4>3. QED  BY <2>0, <2>2, <2>3, <3>1, <4>1, <4>2
    <3>2. CASE ~ends
      <4>1. After(z)' = IF raw = "*" THEN First("*", z) ELSE z
        BY <1>2, <1>6, <3>2 DEF After
      <4>2. Mode' = Mode
        BY <1>2, <3>2 DEF Mode
      <4>3. QED  BY <2>2, <2>3, <2>4, <3>2, <4>1, <4>2
    <3>3. QED  BY <3>1, <3>2
  <2>6. Loop[After(z)'][Mode'] \in Text
    <3>1. After(First(raw, z)) \in Text
      BY <2>1, AfterText
    <3>2. Loop[After(First(raw, z))][Mode] \in Text
      BY <2>0, <3>1, LoopIs
    <3>3. QED  BY <2>5, <3>2
  <2>7. QED  BY <1>4, <2>5, <2>6, ConcatText
<1>9. Agrees'
  BY <1>3, <1>4, <1>7, <1>8, FeedAgrees
<1>10. ScanTypes' /\ Follows' /\ Reported'
  BY <1>3, <1>4, FeedKeeps
<1>11. QED  BY <1>7, <1>9, <1>10 DEF ScanInv

\* Slash and star: both go, and the mode is that of a comment.
LEMMA OpenCommentInv ==
    ASSUME BuildInv, ScanInv, NEW raw \in Bytes, OpenComment(raw), UNCHANGED buildVars
    PROVE  ScanInv'
<1>1. Take(raw)
  BY DEF OpenComment
<1>2. /\ ~inBlockComment /\ pendingSlash /\ raw = "*" /\ pendingSlash' = FALSE
      /\ inBlockComment' = TRUE /\ pendingSpace' = TRUE
      /\ due' = due /\ pendingCommentStar' = pendingCommentStar /\ emitted' = emitted
  BY DEF OpenComment
<1>3. /\ Idle /\ input' = Append(input, raw) /\ input' \in Text
      /\ Len(input') <= MaxInput /\ UNCHANGED nodeVars
      /\ text' = text /\ finished' = finished /\ ~finished /\ due = <<>>
  BY <1>1, TakeFacts
<1>4. due' = <<>> /\ due' \in Text /\ Len(due') <= 3
  BY <1>2, <1>3, RootText DEF Root
<1>5. Flags
  BY DEF ScanInv
<1>6. ~pendingCommentStar
  BY <1>2, <1>5 DEF Flags
<1>7. Flags'
  BY <1>2, <1>3, <1>5, <1>6 DEF Flags
<1>8. ASSUME NEW z \in Text
      PROVE  Loop[After(First(raw, z))][Mode] = due' \o Loop[After(z)'][Mode']
  <2>0. /\ "/" \in Bytes /\ "*" \in Bytes /\ "/" # "*"
        /\ Mode \in Modes /\ Mode \notin InComment
        /\ Opened(Mode) = IF emitted THEN "open" ELSE "lead"
    BY <1>2, <1>5, TextAssumption, ModeIn
  <2>1. /\ First(raw, z) \in Text /\ First(raw, z) # <<>> /\ First(raw, z)[1] = raw
        /\ Tail(First(raw, z)) = z
    BY FirstIs
  <2>2. After(First(raw, z)) = First("/", First(raw, z))
    BY <1>2 DEF After
  <2>3. Loop[First("/", First(raw, z))][Mode] = Loop[z][Opened(Mode)]
    <3>1. PICK u \in Text : u = First(raw, z)
      BY <2>1
    <3>2. u # <<>> /\ u[1] = "*" /\ Tail(u) = z
      BY <1>2, <2>1, <3>1
    <3>3. Loop[First("/", u)][Mode] = Loop[Tail(u)][Opened(Mode)]
      BY <2>0, <3>2, LoopFirst
    <3>4. QED  BY <3>1, <3>2, <3>3
  <2>4. After(z)' = z /\ Mode' = Opened(Mode)
    BY <1>2, <1>6, <2>0 DEF After, Mode
  <2>5. Loop[z][Opened(Mode)] \in Text
    BY <2>0, LoopIs, ModesClosed
  <2>6. QED  BY <1>4, <2>2, <2>3, <2>4, <2>5, ConcatText
<1>9. Agrees'
  BY <1>3, <1>4, <1>7, <1>8, FeedAgrees
<1>10. ScanTypes' /\ Follows' /\ Reported'
  BY <1>3, <1>4, FeedKeeps
<1>11. QED  BY <1>7, <1>9, <1>10 DEF ScanInv

\* The assumptions on bytes, with a name for the blank.
LEMMA BytesAre ==
    /\ "/" \in Bytes /\ "*" \in Bytes /\ Space \in Bytes /\ Space \in Blanks
    /\ "/" # Space /\ "/" # "*" /\ "/" \notin Blanks /\ Lower["/"] = "/"
    /\ \A b \in Bytes \ Blanks : Lower[b] \in Bytes /\ Lower[b] # Space
  BY TextAssumption, Zenon DEF Space

\* What is put out before a byte.
LEMMA WithSpaceIs ==
    ASSUME Flags, ~inBlockComment, NEW b \in Bytes, b # Space
    PROVE  /\ WithSpace(b) = Emit(Mode, b) /\ WithSpace(b) \in Text
           /\ WithSpace(b) # <<>> /\ Len(WithSpace(b)) <= 2 /\ Last(WithSpace(b)) # Space
<1>1. Mode = "space" <=> pendingSpace /\ emitted
  BY ModeIn
<1>2. Space \in Bytes
  BY BytesAre
<1>3. WithSpace(b) = IF pendingSpace /\ emitted THEN <<Space, b>> ELSE <<b>>
  BY Zenon DEF WithSpace, Space
<1>4. <<b>> \in Text /\ Len(<<b>>) = 1 /\ <<b>>[1] = b /\ <<b>> # <<>>
  BY DEF Text
<1>5. <<Space, b>> \in Text /\ Len(<<Space, b>>) = 2 /\ <<Space, b>>[2] = b /\ <<Space, b>> # <<>>
  BY <1>2 DEF Text
<1>6. QED  BY <1>1, <1>3, <1>4, <1>5 DEF Last, Emit

LEMMA HeldIs ==
    ASSUME Flags, ~inBlockComment
    PROVE  /\ Held \in Text /\ Len(Held) <= 2 /\ (Held # <<>> <=> pendingSlash)
           /\ Held # <<>> => Last(Held) # Space
           /\ pendingSlash => Held = Emit(Mode, "/")
<1>1. "/" \in Bytes /\ "/" # Space
  BY BytesAre
<1>2. CASE pendingSlash
  BY <1>1, <1>2, WithSpaceIs DEF Held
<1>3. CASE ~pendingSlash
  BY <1>3, RootText DEF Held, Root
<1>4. QED  BY <1>2, <1>3

\* A slash held back that opens no comment.
LEMMA HeldLoop ==
    ASSUME Flags, ~inBlockComment, NEW s \in Text,
           ~(pendingSlash /\ s # <<>> /\ s[1] = "*")
    PROVE  Loop[After(s)][Mode] =
              Held \o Loop[s][IF pendingSlash THEN "byte" ELSE Mode]
<1>1. /\ "/" \in Bytes /\ "/" \notin Blanks /\ Lower["/"] = "/" /\ "/" # "*"
      /\ Mode \in Modes /\ Mode \notin InComment
  BY BytesAre, ModeIn
<1>2. CASE pendingSlash
  <2>1. After(s) = First("/", s)
    BY <1>2 DEF After
  <2>2. Loop[First("/", s)][Mode] = Emit(Mode, "/") \o Loop[s]["byte"]
    BY <1>1, <1>2, LoopFirst
  <2>3. QED  BY <1>2, <2>1, <2>2, HeldIs
<1>3. CASE ~pendingSlash
  <2>1. After(s) = s /\ Held = <<>>
    BY <1>3 DEF After, Held, Flags
  <2>2. Loop[s][Mode] \in Text
    BY <1>1, LoopIs
  <2>3. QED  BY <1>3, <2>1, <2>2, ConcatText
<1>4. QED  BY <1>2, <1>3

\* Any other byte: first the slash, then what the loop makes of the byte.
LEMMA FeedRawInv ==
    ASSUME BuildInv, ScanInv, NEW raw \in Bytes, FeedRaw(raw), UNCHANGED buildVars
    PROVE  ScanInv'
<1> DEFINE low == Lower[raw]
<1>1. Take(raw)
  BY DEF FeedRaw
<1>2. /\ ~inBlockComment /\ ~(pendingSlash /\ raw = "*") /\ pendingSlash' = (raw = "/")
      /\ emitted' = (emitted \/ due' # <<>>)
      /\ inBlockComment' = inBlockComment /\ pendingCommentStar' = pendingCommentStar
  BY DEF FeedRaw
<1>3. /\ Idle /\ input' = Append(input, raw) /\ input' \in Text
      /\ Len(input') <= MaxInput /\ UNCHANGED nodeVars
      /\ text' = text /\ finished' = finished /\ ~finished /\ due = <<>>
  BY <1>1, TakeFacts
<1>4. \/ raw = "/" /\ due' = Held /\ pendingSpace' = (pendingSpace /\ ~pendingSlash)
      \/ raw \in Blanks /\ due' = Held /\ pendingSpace' = TRUE
      \/ /\ raw \notin Blanks /\ raw # "/" /\ pendingSpace' = FALSE
         /\ due' = IF pendingSlash THEN Append(Held, low) ELSE WithSpace(low)
  BY DEF FeedRaw
<1>5. Flags
  BY DEF ScanInv
<1>6. ~pendingCommentStar
  BY <1>2, <1>5 DEF Flags
<1>7. Flags'
  BY <1>2, <1>3, <1>4, <1>5, <1>6 DEF Flags
<1>8. /\ Held \in Text /\ Len(Held) <= 2 /\ (Held # <<>> <=> pendingSlash)
      /\ Held # <<>> => Last(Held) # Space
  BY <1>2, <1>5, HeldIs
<1>9. /\ Mode \in Modes /\ Mode \notin InComment /\ "byte" \in Modes
      /\ "byte" \notin InComment /\ Spaced("byte") = "space"
      /\ Spaced(Mode) = IF emitted THEN "space" ELSE "start"
  BY <1>2, <1>5, ModeIn DEF Modes, InComment, Spaced
<1>10. PICK m : m = IF pendingSlash THEN "byte" ELSE Mode
  OBVIOUS
<1>11. m \in Modes /\ m \notin InComment
  BY <1>9, <1>10
<1>12. ASSUME NEW z \in Text
       PROVE  /\ Loop[After(First(raw, z))][Mode] = Held \o Loop[First(raw, z)][m]
              /\ Loop[First(raw, z)][m] \in Text /\ Loop[z]["byte"] \in Text
              /\ raw \in Blanks => Loop[First(raw, z)][m] = Loop[z][Spaced(m)]
              /\ raw \notin Blanks /\ raw # "/" =>
                    Loop[First(raw, z)][m] = Emit(m, low) \o Loop[z]["byte"]
  <2>1. First(raw, z) \in Text /\ First(raw, z)[1] = raw
    BY FirstIs
  <2>2. Loop[After(First(raw, z))][Mode] = Held \o Loop[First(raw, z)][m]
    BY <1>2, <1>5, <1>10, <2>1, HeldLoop
  <2>3. Loop[First(raw, z)][m] \in Text /\ Loop[z]["byte"] \in Text
    BY <1>9, <1>11, <2>1, LoopIs
  <2>4. raw \in Blanks => raw # "/"
    BY BytesAre
  <2>5. QED  BY <1>11, <2>2, <2>3, <2>4, LoopFirst
<1>13. ASSUME NEW z \in Text
       PROVE  After(z)' = IF raw = "/" THEN First("/", z) ELSE z
  BY <1>2, <1>6 DEF After
<1> HIDE DEF low
<1>14. CASE raw = "/" \/ raw \in Blanks
  <2>1. due' = Held
    BY <1>4, <1>14
  <2>2. due' \in Text /\ Len(due') <= 3 /\ (due' # <<>> => Last(due') # Space)
    BY <1>8, <2>1, TextLen
  <2>3. ASSUME NEW z \in Text
        PROVE  Loop[After(First(raw, z))][Mode] = due' \o Loop[After(z)'][Mode']
    <3>1. CASE raw = "/"
      <4>1. Mode' = m
        <5>0. raw \notin Blanks
          BY <3>1, BytesAre
        <5>1. pendingSpace' = (pendingSpace /\ ~pendingSlash)
          BY <1>4, <3>1, <5>0
        <5>2. emitted' = (emitted \/ pendingSlash)
          BY <1>2, <1>8, <2>1
        <5>3. QED  BY <1>2, <1>5, <1>10, <5>1, <5>2 DEF Mode, Flags
      <4>2. QED  BY <1>12, <1>13, <2>1, <3>1, <4>1
    <3>2. CASE raw \in Blanks
      <4>0. raw # "/"
        BY <3>2, BytesAre
      <4>1. Mode' = Spaced(m)
        <5>1. pendingSpace' = TRUE
          BY <1>4, <3>2, <4>0
        <5>2. emitted' = (emitted \/ pendingSlash)
          BY <1>2, <1>8, <2>1
        <5>3. QED  BY <1>2, <1>5, <1>9, <1>10, <5>1, <5>2 DEF Mode, Flags
      <4>2. QED  BY <1>12, <1>13, <2>1, <3>2, <4>0, <4>1
    <3>3. QED  BY <1>14, <3>1, <3>2
  <2>4. Agrees'
    BY <1>3, <1>7, <2>2, <2>3, FeedAgrees
  <2>5. ScanTypes' /\ Follows' /\ Reported'
    BY <1>3, <2>2, FeedKeeps
  <2>6. QED  BY <1>7, <2>4, <2>5 DEF ScanInv
<1>15. CASE raw # "/" /\ raw \notin Blanks
  <2>0. low \in Bytes /\ low # Space /\ <<low>> \in Text
    BY <1>15, BytesAre, Short DEF low
  <2>1. due' = Held \o Emit(m, low)
    <3>1. CASE pendingSlash
      <4>1. Emit(m, low) = <<low>>
        BY <1>10, <3>1 DEF Emit
      <4>2. Append(Held, low) = Held \o <<low>>
        BY <1>8, <2>0, AppendIsConcat DEF Text
      <4>3. QED  BY <1>4, <1>15, <3>1, <4>1, <4>2
    <3>2. CASE ~pendingSlash
      <4>1. due' = Emit(Mode, low)
        BY <1>2, <1>4, <1>5, <1>15, <2>0, <3>2, WithSpaceIs
      <4>2. Emit(Mode, low) \in Text /\ Held = <<>>
        BY <1>2, <1>5, <1>8, <2>0, <3>2, WithSpaceIs
      <4>3. QED  BY <1>10, <3>2, <4>1, <4>2, ConcatText
    <3>3. QED  BY <3>1, <3>2
  <2>2. Emit(m, low) \in Text /\ due' # <<>> /\ Last(due') # Space /\ due' \in Text
    <3>1. Emit(m, low) \in Text /\ Emit(m, low) # <<>> /\ Last(Emit(m, low)) # Space
      <4>1. Space \in Bytes
        BY BytesAre
      <4>2. /\ <<low>> \in Text /\ <<low>> # <<>> /\ Len(<<low>>) = 1 /\ <<low>>[1] = low
            /\ <<Space, low>> \in Text /\ <<Space, low>> # <<>>
            /\ Len(<<Space, low>>) = 2 /\ <<Space, low>>[2] = low
        BY <2>0, <4>1 DEF Text
      <4>3. Emit(m, low) = <<low>> \/ Emit(m, low) = <<Space, low>>
        BY DEF Emit
      <4>4. QED  BY <2>0, <4>2, <4>3 DEF Last
    <3>2. QED  BY <1>8, <2>1, <3>1, ConcatText
  <2>3. Len(due') <= 3
    <3>1. CASE pendingSlash
      <4>1. due' = Append(Held, low)
        BY <1>4, <1>15, <3>1
      <4>2. Len(due') = Len(Held) + 1 /\ Len(Held) \in Nat
        BY <1>8, <2>0, <4>1, AppendLonger, TextLen DEF Longer
      <4>3. QED  BY <1>8, <4>2
    <3>2. CASE ~pendingSlash
      <4>1. due' = WithSpace(low)
        BY <1>4, <1>15, <3>2
      <4>2. Len(due') <= 2 /\ Len(due') \in Nat
        BY <1>2, <1>5, <2>0, <2>2, <4>1, WithSpaceIs, TextLen
      <4>3. QED  BY <4>2
    <3>3. QED  BY <3>1, <3>2
  <2>4. ASSUME NEW z \in Text
        PROVE  Loop[After(First(raw, z))][Mode] = due' \o Loop[After(z)'][Mode']
    <3>1. Mode' = "byte"
      BY <1>2, <1>4, <1>5, <1>15, <2>2 DEF Mode, Flags
    <3>2. After(z)' = z
      BY <1>13, <1>15
    <3>3. Loop[After(First(raw, z))][Mode] = Held \o (Emit(m, low) \o Loop[z]["byte"])
      BY <1>12, <1>15 DEF low
    <3>4. Held \o (Emit(m, low) \o Loop[z]["byte"]) = (Held \o Emit(m, low)) \o Loop[z]["byte"]
      <4>1. PICK e \in Text, l \in Text : e = Emit(m, low) /\ l = Loop[z]["byte"]
        BY <1>12, <2>2
      <4>2. Held \o (e \o l) = (Held \o e) \o l
        BY <1>8, ConcatAssoc
      <4>3. QED  BY <4>1, <4>2
    <3>5. QED  BY <2>1, <3>1, <3>2, <3>3, <3>4
  <2>5. Agrees'
    BY <1>3, <1>7, <2>2, <2>4, FeedAgrees
  <2>6. ScanTypes' /\ Follows' /\ Reported'
    BY <1>3, <2>2, <2>3, FeedKeeps
  <2>7. QED  BY <1>7, <2>5, <2>6 DEF ScanInv
<1>16. QED  BY <1>14, <1>15

\* At the end of the input only the slash that was held back is left.
LEMMA LoopAtEnd ==
    ASSUME Flags
    PROVE  /\ Held \in Text /\ Len(Held) <= 2 /\ (Held # <<>> <=> pendingSlash)
           /\ Held # <<>> => Last(Held) # Space
           /\ Loop[After(<<>>)][Mode] = Held
<1>1. <<>> \in Text /\ Mode \in Modes /\ "byte" \in Modes
  BY RootText, ModeIn DEF Root, Modes
<1>2. CASE ~inBlockComment
  <2>1. /\ Held \in Text /\ Len(Held) <= 2 /\ (Held # <<>> <=> pendingSlash)
        /\ Held # <<>> => Last(Held) # Space
    BY <1>2, HeldIs
  <2>2. Loop[After(<<>>)][Mode] =
           Held \o Loop[<<>>][IF pendingSlash THEN "byte" ELSE Mode]
    BY <1>1, <1>2, HeldLoop
  <2>3. Loop[<<>>][IF pendingSlash THEN "byte" ELSE Mode] = <<>>
    BY <1>1, LoopEmpty
  <2>4. QED  BY <2>1, <2>2, <2>3, ConcatText
<1>3. CASE inBlockComment
  <2>1. ~pendingSlash /\ Held = <<>> /\ Mode \in InComment
    BY <1>3, ModeIn DEF Flags, Held
  <2>2. Held \in Text /\ Len(Held) <= 2
    BY <2>1, RootText DEF Root
  <2>3. CASE pendingCommentStar
    <3>1. After(<<>>) = First("*", <<>>) /\ "*" \in Bytes
      BY <2>1, <2>3, BytesAre DEF After
    <3>2. Loop[First("*", <<>>)][Mode] = Loop[<<>>][Mode]
      BY <1>1, <2>1, <3>1, LoopFirst
    <3>3. QED  BY <1>1, <2>1, <2>2, <3>1, <3>2, LoopEmpty
  <2>4. CASE ~pendingCommentStar
    <3>1. After(<<>>) = <<>>
      BY <2>1, <2>4 DEF After
    <3>2. QED  BY <1>1, <2>1, <2>2, <3>1, LoopEmpty
  <2>5. QED  BY <2>3, <2>4
<1>4. QED  BY <1>2, <1>3

\* Finish: nothing is still to come.
LEMMA FinishInv ==
    ASSUME BuildInv, ScanInv, Finish, UNCHANGED buildVars
    PROVE  ScanInv'
<1>1. /\ Idle /\ finished' = TRUE /\ due' = Held /\ emitted' = (emitted \/ pendingSlash)
      /\ pendingSlash' = FALSE /\ pendingSpace' = FALSE
      /\ inBlockComment' = FALSE /\ pendingCommentStar' = FALSE
      /\ input' = input /\ UNCHANGED nodeVars
  BY DEF Finish
<1>2. Flags /\ input \in Text /\ Len(input) <= MaxInput /\ text \in Text
  BY DEF ScanInv, ScanTypes
<1>3. due = <<>> /\ ~finished /\ text' = text
  BY <1>1 DEF Idle, nodeVars
<1>4. Flags'
  BY <1>1, <1>2 DEF Flags
<1>5. /\ Held \in Text /\ Len(Held) <= 2 /\ (Held # <<>> <=> pendingSlash)
      /\ Held # <<>> => Last(Held) # Space
  BY <1>2, LoopAtEnd
<1>6. Loop[input]["start"] = text \o Held
  <2>1. <<>> \in Text /\ input \o <<>> = input /\ Whole = text
    BY <1>2, <1>3, RootText, ConcatText DEF Root, Whole
  <2>2. Loop[input]["start"] = text \o Loop[After(<<>>)][Mode]
    BY <1>3, <2>1 DEF ScanInv, Agrees
  <2>3. QED  BY <1>2, <2>2, LoopAtEnd
<1>7. Agrees'
  <2>1. Whole' = text \o Held /\ Whole = text
    BY <1>1, <1>2, <1>3, ConcatText DEF Whole
  <2>2. Loop[input']["start"] = Whole'
    BY <1>1, <1>6, <2>1
  <2>3. ASSUME Whole' # <<>> PROVE Last(Whole') # Space
    <3>1. CASE Held = <<>>
      <4>1. Whole' = Whole
        BY <1>2, <2>1, <3>1, ConcatText
      <4>2. Whole # <<>> => Last(Whole) # Space
        BY DEF ScanInv, Agrees
      <4>3. QED  BY <2>3, <4>1, <4>2
    <3>2. CASE Held # <<>>
      <4>1. Last(text \o Held) = Last(Held)
        BY <1>2, <1>5, <3>2, ConcatText
      <4>2. QED  BY <1>5, <2>1, <3>2, <4>1
    <3>3. QED  BY <3>1, <3>2
  <2>4. QED  BY <1>1, <2>2, <2>3 DEF Agrees
<1>8. due' \in Text /\ Len(due') <= 3 /\ input' \in Text /\ Len(input') <= MaxInput
  BY <1>1, <1>2, <1>5, TextLen
<1>9. ScanTypes' /\ Follows' /\ Reported'
  BY <1>1, <1>8, FeedKeeps
<1>10. QED  BY <1>4, <1>7, <1>9 DEF ScanInv

\* The scanner moves on an automaton that is complete.
LEMMA PendingFacts ==
    ASSUME BuildInv, ScanInv, Pending
    PROVE  /\ pc = "built" /\ match = None /\ due # <<>> /\ rules \in Policies
           /\ nodes \subseteq Text /\ Closed(nodes) /\ Root \in nodes
           /\ state \in nodes /\ text \in Text /\ due \in Text /\ Len(due) <= 3
           /\ Head(due) \in Bytes /\ Tail(due) \in Text /\ Len(Tail(due)) < Len(due)
           /\ \A n \in nodes : Len(n) \in Nat
<1>1. match = None /\ due # <<>>
  BY DEF Pending
<1>2. /\ pc = "built" /\ state \in nodes /\ text \in Text /\ due \in Text
      /\ Len(due) <= 3
  BY <1>1 DEF ScanInv, ScanTypes
<1>3. rules \in Policies /\ Closed(nodes) /\ Root \in nodes /\ nodes \subseteq Text
  BY DEF BuildInv, BuildTypes, Closed
<1>4. Head(due) \in Bytes /\ Tail(due) \in Text /\ Len(Tail(due)) < Len(due)
  BY <1>1, <1>2, TailIs
<1>5. QED  BY <1>1, <1>2, <1>3, <1>4, TextLen

\* A failure link passes no node that the byte leads on from.
LEMMA FollowFailInv ==
    ASSUME BuildInv, ScanInv, FollowFail, UNCHANGED buildVars
    PROVE  ScanInv'
<1>1. /\ Pending /\ state # Root /\ Append(state, Head(due)) \notin nodes
      /\ state' = fail[state]
      /\ input' = input /\ text' = text /\ due' = due /\ finished' = finished
      /\ pendingSpace' = pendingSpace /\ pendingSlash' = pendingSlash
      /\ inBlockComment' = inBlockComment /\ emitted' = emitted
      /\ pendingCommentStar' = pendingCommentStar /\ match' = match
  BY DEF FollowFail, HasNext
<1>2. /\ pc = "built" /\ match = None /\ due # <<>> /\ nodes \subseteq Text
      /\ state \in nodes /\ text \in Text /\ \A n \in nodes : Len(n) \in Nat
  BY <1>1, PendingFacts
<1>3. pc' = pc /\ rules' = rules /\ nodes' = nodes /\ Texts' = Texts
  BY TextsSame DEF buildVars
<1>4. IsLink(nodes, fail[state], state)
  BY <1>1, <1>2, BuiltIs
<1>5. state' \in nodes /\ Ends(state', state) /\ Len(state') < Len(state)
  BY <1>1, <1>4 DEF IsLink
<1>6. Flags'
  BY <1>1 DEF ScanInv, Flags
<1>7. ScanTypes'
  BY <1>1, <1>2, <1>3, <1>5 DEF ScanInv, ScanTypes
<1>8. Agrees'
  <2>1. Whole' = Whole /\ Mode' = Mode
    BY <1>1 DEF Whole, Mode
  <2>2. \A z \in Text : After(z)' = After(z)
    BY <1>1 DEF After
  <2>3. QED  BY <1>1, <2>1, <2>2 DEF ScanInv, Agrees
<1>9. Ends(state, text)
  BY DEF ScanInv, Follows
<1>10. ASSUME NEW s \in nodes, Ends(s, text), Append(s, Head(due)) \in nodes
       PROVE  Len(s) <= Len(state')
  <2>1. Len(s) <= Len(state) /\ s # state
    BY <1>1, <1>10 DEF ScanInv, Follows
  <2>2. Ends(s, state)
    BY <1>2, <1>9, <1>10, <2>1, EndsNested
  <2>3. Len(s) # Len(state)
    BY <1>2, <1>9, <1>10, <2>1, EndsSame
  <2>4. Len(s) < Len(state)
    BY <1>2, <2>1, <2>3
  <2>5. QED  BY <1>1, <1>4, <2>2, <2>4 DEF IsLink
<1>11. Follows'
  <2>1. Ends(state', text)
    BY <1>2, <1>5, <1>9, EndsTrans
  <2>2. QED  BY <1>1, <1>2, <1>3, <1>10, <2>1 DEF Follows
<1>12. Reported'
  BY <1>1, <1>2, <1>3 DEF ScanInv, Reported
<1>13. QED  BY <1>6, <1>7, <1>8, <1>11, <1>12 DEF ScanInv

LEMMA HeadFirst == ASSUME NEW t \in Text, t # <<>> PROVE t = First(Head(t), Tail(t))
<1>1. Len(t) \in Nat /\ 1 \in 1 .. Len(t) /\ Len(t) \in 1 .. Len(t) /\ 1 + 1 = 2
  BY TextLen
<1>2. SubSeq(t, 1, Len(t)) = <<t[1]>> \o SubSeq(t, 1 + 1, Len(t))
  BY <1>1, SubSeqRecursiveFirst DEF Text
<1>3. SubSeq(t, 1, Len(t)) = t
  BY SubSeqFull DEF Text
<1>4. Tail(t) = SubSeq(t, 2, Len(t)) /\ Head(t) = t[1]
  BY TailIsSubSeq DEF Text
<1>5. QED  BY <1>1, <1>2, <1>3, <1>4 DEF First

\* The longest node that ends the text after a byte.
LEMMA ConsumeFollows ==
    ASSUME BuildInv, ScanInv, Consume
    PROVE  /\ state' \in nodes /\ Ends(state', text')
           /\ \A s \in nodes : Ends(s, text') => Len(s) <= Len(state')
<1> DEFINE c == Head(due)
<1>1. /\ Pending /\ (state = Root \/ HasNext) /\ text' = Append(text, c)
      /\ state' = IF HasNext THEN Append(state, c) ELSE state
  BY DEF Consume
<1>2. /\ nodes \subseteq Text /\ Closed(nodes) /\ Root \in nodes /\ due # <<>>
      /\ state \in nodes /\ text \in Text /\ c \in Bytes
      /\ \A n \in nodes : Len(n) \in Nat
  BY <1>1, PendingFacts
<1> HIDE DEF c
<1>3. HasNext <=> Append(state, c) \in nodes
  BY DEF HasNext, c
<1>4. text' \in Text
  BY <1>1, <1>2, AppendLonger DEF Longer
<1>5. Ends(state, text)
  BY DEF ScanInv, Follows
<1>6. state' \in nodes /\ Ends(state', text')
  <2>1. CASE HasNext
    BY <1>1, <1>2, <1>3, <1>5, <2>1, EndsAppend
  <2>2. CASE ~HasNext
    BY <1>1, <1>2, <1>4, <2>2, EndsRefl
  <2>3. QED  BY <2>1, <2>2
<1>7. ASSUME NEW s \in nodes, Ends(s, text') PROVE Len(s) <= Len(state')
  <2>1. CASE s = Root
    BY <1>2, <1>6, <2>1, RootText
  <2>2. CASE s # Root
    <3>1. PICK r \in Text : s = Append(r, c) /\ Ends(r, text)
      BY <1>1, <1>2, <1>7, <2>2, EndsSplit
    <3>2. r \in nodes
      BY <1>2, <3>1, ClosedParent
    <3>3. Len(r) <= Len(state)
      BY <1>7, <3>1, <3>2 DEF ScanInv, Follows, c
    <3>4. CASE HasNext
      <4>1. Len(s) = Len(r) + 1
        BY <1>2, <3>1, AppendLonger DEF Longer
      <4>2. Len(state') = Len(state) + 1
        BY <1>1, <1>2, <3>4, AppendLonger DEF Longer
      <4>3. QED  BY <1>2, <3>2, <3>3, <4>1, <4>2
    <3>5. CASE ~HasNext
      <4>1. state = Root /\ r = Root
        BY <1>1, <1>2, <3>2, <3>3, <3>5, RootText, TextLen
      <4>2. QED  BY <1>3, <1>7, <3>1, <3>5, <4>1
    <3>6. QED  BY <3>4, <3>5
  <2>3. QED  BY <2>1, <2>2
<1>8. QED  BY <1>6, <1>7

\* The rules whose text ends the input ends the state as well.
LEMMA ConsumeReports ==
    ASSUME BuildInv, ScanInv, Consume, UNCHANGED buildVars
    PROVE  Reported'
<1>1. /\ Pending /\ text' = Append(text, Head(due)) /\ match' = output[state']
  BY DEF Consume
<1>2. /\ nodes \subseteq Text /\ text \in Text /\ pc = "built" /\ rules \in Policies
      /\ match = None /\ Head(due) \in Bytes
  BY <1>1, PendingFacts
<1>3. rules' = rules /\ Texts' = Texts
  BY TextsSame DEF buildVars
<1>4. /\ state' \in nodes /\ Ends(state', text')
      /\ \A s \in nodes : Ends(s, text') => Len(s) <= Len(state')
  BY ConsumeFollows
<1>5. /\ nodes = NodesOf(Texts) /\ Mine(output[Root], Root, Len(rules))
      /\ \A n \in nodes \ {Root} : output[n] = RuleAt(Texts, n)
  BY <1>2, BuiltIs
<1>6. Longer(text', text, Head(due)) /\ text' \in Text /\ state' \in Text
  BY <1>1, <1>2, <1>4, AppendLonger DEF Longer
<1>7. /\ DOMAIN Texts = 1 .. Len(rules) /\ Len(rules) \in Nat
      /\ \A i \in 1 .. Len(rules) : Texts[i] \in Text /\ Texts[i] \in nodes
  BY <1>2, <1>5, TextsAre, PrefixesClosed DEF NodesOf
<1>8. None \notin 1 .. Len(rules)
  BY <1>7 DEF None
<1>9. ASSUME match' # None
      PROVE  Ends(Texts[match'], text') /\ (Texts[match'] = <<>> => state' = Root)
  <2>1. CASE state' = Root
    <3>1. Texts[match'] = Root
      BY <1>1, <1>5, <1>9, <2>1 DEF Mine, Own
    <3>2. QED  BY <1>6, <2>1, <3>1, EndsRefl
  <2>2. CASE state' # Root
    <3>1. match' = RuleAt(Texts, state')
      BY <1>1, <1>4, <1>5, <2>2
    <3>2. match' \in EndsIn(Texts, state')
      BY <1>2, <1>6, <1>9, <3>1, RuleAtIs
    <3>3. match' \in 1 .. Len(rules) /\ Texts[match'] # <<>> /\ Ends(Texts[match'], state')
      BY <1>2, <1>6, <3>2, EndsInIs
    <3>4. QED  BY <1>4, <1>6, <1>7, <3>3, EndsTrans
  <2>3. QED  BY <2>1, <2>2
<1>10. ASSUME match' = None, NEW i \in 1 .. Len(rules), Texts[i] # <<>>,
              NEW k \in 0 .. Len(text'), Ends(Texts[i], Begin(text', k))
       PROVE  FALSE
  <2>0. Len(text) \in Nat /\ Len(text') = Len(text) + 1
    BY <1>2, <1>6, TextLen DEF Longer
  <2>1. CASE k <= Len(text)
    <3>1. Len(text) \in 0 .. Len(text') /\ k \in 0 .. Len(text)
      BY <1>10, <2>0, <2>1
    <3>2. Begin(text', Len(text)) = text
      BY <1>1, <1>2, BeginAppend
    <3>3. Begin(Begin(text', Len(text)), k) = Begin(text', k)
      BY <1>6, <3>1, BeginBegin
    <3>4. Ends(Texts[i], Begin(text, k))
      BY <1>10, <3>2, <3>3
    <3>5. QED  BY <1>2, <1>7, <1>10, <3>1, <3>4 DEF ScanInv, Reported
  <2>2. CASE ~(k <= Len(text))
    <3>1. k = Len(text')
      BY <1>10, <2>0, <2>2
    <3>2. Ends(Texts[i], text')
      BY <1>6, <1>10, <3>1, BeginAll
    <3>3. Ends(Texts[i], state')
      BY <1>4, <1>6, <1>7, <3>2, EndsNested
    <3>4. i \in EndsIn(Texts, state')
      BY <1>2, <1>6, <1>10, <3>3, EndsInIs
    <3>5. state' # Root
      BY <1>2, <3>4, RuleRoot
    <3>6. None \in EndsIn(Texts, state')
      BY <1>1, <1>2, <1>4, <1>5, <1>6, <1>10, <3>4, <3>5, RuleAtIs
    <3>7. QED  BY <1>2, <1>6, <1>8, <3>6, EndsInIs
  <2>3. QED  BY <2>1, <2>2
<1>11. QED  BY <1>3, <1>7, <1>9, <1>10 DEF Reported

\* A byte consumed moves from due to text; together they stay the same.
LEMMA ConsumeInv ==
    ASSUME BuildInv, ScanInv, Consume, UNCHANGED buildVars
    PROVE  ScanInv'
<1>1. /\ Pending /\ text' = Append(text, Head(due)) /\ match' = output[state']
      /\ due' = Tail(due)
      /\ input' = input /\ finished' = finished
      /\ pendingSpace' = pendingSpace /\ pendingSlash' = pendingSlash
      /\ inBlockComment' = inBlockComment /\ emitted' = emitted
      /\ pendingCommentStar' = pendingCommentStar
  BY DEF Consume
<1>2. /\ pc = "built" /\ due # <<>> /\ rules \in Policies
      /\ text \in Text /\ due \in Text /\ Len(due) <= 3
      /\ Head(due) \in Bytes /\ Tail(due) \in Text /\ Len(Tail(due)) < Len(due)
  BY <1>1, PendingFacts
<1>3. pc' = pc /\ rules' = rules /\ nodes' = nodes
  BY DEF buildVars
<1>4. /\ state' \in nodes /\ Ends(state', text')
      /\ \A s \in nodes : Ends(s, text') => Len(s) <= Len(state')
  BY ConsumeFollows
<1>5. text' \in Text
  BY <1>1, <1>2, AppendLonger DEF Longer
<1>6. Flags'
  BY <1>1 DEF ScanInv, Flags
<1>7. ScanTypes'
  <2>1. match' \in {None} \cup DOMAIN rules
    <3>1. output \in [nodes -> 0 .. Len(rules)]
      BY DEF BuildInv, BuildTypes
    <3>2. Len(rules) \in Nat /\ DOMAIN rules = 1 .. Len(rules)
      BY <1>2, TextsAre
    <3>3. match' \in 0 .. Len(rules)
      BY <1>1, <1>4, <3>1
    <3>4. QED  BY <3>2, <3>3 DEF None
  <2>2. Len(due') <= 3 /\ due' \in Text
    BY <1>1, <1>2, TextLen
  <2>3. input' \in Text /\ Len(input') <= MaxInput
    BY <1>1 DEF ScanInv, ScanTypes
  <2>4. QED  BY <1>2, <1>3, <1>4, <1>5, <2>1, <2>2, <2>3 DEF ScanTypes
<1>8. Agrees'
  <2>1. Whole' = Whole
    <3>1. Append(text, Head(due)) \o Tail(due) = text \o First(Head(due), Tail(due))
      BY <1>2, FedInput
    <3>2. QED  BY <1>1, <1>2, <3>1, HeadFirst DEF Whole
  <2>2. Mode' = Mode
    BY <1>1 DEF Mode
  <2>3. \A z \in Text : After(z)' = After(z)
    BY <1>1 DEF After
  <2>4. QED  BY <1>1, <2>1, <2>2, <2>3 DEF ScanInv, Agrees
<1>9. Follows'
  BY <1>3, <1>4 DEF Follows
<1>10. Reported'
  BY ConsumeReports
<1>11. QED  BY <1>6, <1>7, <1>8, <1>9, <1>10 DEF ScanInv

\* Before the automaton is complete no scanner runs.
LEMMA ScanInitInv == ASSUME Init PROVE ScanInv
<1>1. /\ BuildInit /\ input = <<>> /\ text = <<>> /\ due = <<>> /\ finished = FALSE
      /\ state = Root /\ pendingSpace = FALSE /\ pendingSlash = FALSE
      /\ inBlockComment = FALSE /\ pendingCommentStar = FALSE /\ emitted = FALSE
      /\ match = None
  BY DEF Init
<1>2. nodes = {Root} /\ rules \in Policies
  BY <1>1 DEF BuildInit
<1>3. Flags
  BY <1>1 DEF Flags
<1>4. ScanTypes
  BY <1>1, <1>2, RootText, ScannerAssumption DEF ScanTypes, Root
<1>5. Agrees
  <2>1. Whole = <<>> /\ Mode = "start" /\ "start" \in Modes
    BY <1>1, RootText, ConcatText DEF Whole, Mode, Modes, Root
  <2>2. ASSUME NEW z \in Text
        PROVE  Loop[input \o z]["start"] = Whole \o Loop[After(z)][Mode]
    <3>1. input \o z = z /\ After(z) = z
      BY <1>1, ConcatText DEF After
    <3>2. Loop[z]["start"] \in Text
      BY <2>1, LoopIs
    <3>3. <<>> \o Loop[z]["start"] = Loop[z]["start"]
      BY <3>2, ConcatText
    <3>4. QED  BY <2>1, <3>1, <3>3
  <2>3. QED  BY <1>1, <2>1, <2>2 DEF Agrees
<1>6. Follows
  BY <1>1, <1>2, RootText, EndsRefl DEF Follows, Root
<1>7. Reported
  <2>1. ASSUME NEW i \in DOMAIN Texts, Texts[i] # <<>>, NEW k \in 0 .. Len(text)
        PROVE  ~Ends(Texts[i], Begin(text, k))
    <3>1. text = Root /\ k = 0
      BY <1>1, RootText DEF Root
    <3>2. Begin(text, k) = Root
      BY <3>1, RootText, BeginAll
    <3>3. Texts[i] \in Text
      BY <1>2, TextsAre
    <3>4. QED  BY <2>1, <3>2, <3>3, RootText, TextLen DEF Ends
  <2>2. QED  BY <1>1, <2>1 DEF Reported
<1>8. QED  BY <1>3, <1>4, <1>5, <1>6, <1>7 DEF ScanInv

\* While the automaton is built the scanner has read nothing.
LEMMA BuildKeepsScan ==
    ASSUME BuildInv, ScanInv, BuildInv', BuildNext, UNCHANGED scanVars
    PROVE  ScanInv'
<1>1. /\ input' = input /\ text' = text /\ due' = due /\ finished' = finished
      /\ state' = state /\ pendingSpace' = pendingSpace /\ pendingSlash' = pendingSlash
      /\ inBlockComment' = inBlockComment /\ emitted' = emitted
      /\ pendingCommentStar' = pendingCommentStar /\ match' = match
  BY DEF scanVars
<1>2. pc # "built" /\ rules' = rules
  BY DEF BuildNext, Insert, InsertDone, SeedDone, Seed, NextChild, Dequeue, Climb,
         LinkChild, Return
<1>3. Texts' = Texts
  BY <1>2, TextsSame
<1>4. text = <<>> /\ due = <<>> /\ input = <<>> /\ state = Root /\ match = None
  BY <1>2 DEF ScanInv, ScanTypes
<1>5. Root \in nodes' /\ nodes' \subseteq Text
  BY DEF BuildInv, BuildTypes, Closed
<1>6. Flags'
  BY <1>1 DEF ScanInv, Flags
<1>7. ScanTypes'
  BY <1>1, <1>2, <1>4, <1>5 DEF ScanInv, ScanTypes
<1>8. Agrees'
  <2>1. Whole' = Whole /\ Mode' = Mode
    BY <1>1 DEF Whole, Mode
  <2>2. \A z \in Text : After(z)' = After(z)
    BY <1>1 DEF After
  <2>3. QED  BY <1>1, <2>1, <2>2 DEF ScanInv, Agrees
<1>9. Follows'
  <2>1. Ends(Root, Root)
    BY RootText, EndsRefl
  <2>2. \A s \in nodes' : Ends(s, Root) => Len(s) <= Len(Root)
    BY DEF Ends
  <2>3. state' = Root /\ text' = Root
    BY <1>1, <1>4 DEF Root
  <2>4. QED  BY <2>1, <2>2, <2>3 DEF Follows
<1>10. Reported'
  BY <1>1, <1>3 DEF ScanInv, Reported
<1>11. QED  BY <1>6, <1>7, <1>8, <1>9, <1>10 DEF ScanInv

LEMMA ScanInvSame == ASSUME ScanInv, UNCHANGED vars PROVE ScanInv'
<1>1. /\ input' = input /\ text' = text /\ due' = due /\ finished' = finished
      /\ state' = state /\ pendingSpace' = pendingSpace /\ pendingSlash' = pendingSlash
      /\ inBlockComment' = inBlockComment /\ emitted' = emitted
      /\ pendingCommentStar' = pendingCommentStar /\ match' = match
      /\ pc' = pc /\ rules' = rules /\ nodes' = nodes
  BY DEF vars, scanVars, buildVars
<1>2. Texts' = Texts
  BY <1>1, TextsSame
<1>3. Flags' /\ ScanTypes'
  BY <1>1 DEF ScanInv, Flags, ScanTypes
<1>4. Agrees'
  <2>1. Whole' = Whole /\ Mode' = Mode
    BY <1>1 DEF Whole, Mode
  <2>2. \A z \in Text : After(z)' = After(z)
    BY <1>1 DEF After
  <2>3. QED  BY <1>1, <2>1, <2>2 DEF ScanInv, Agrees
<1>5. Follows'
  BY <1>1 DEF ScanInv, Follows
<1>6. Reported'
  BY <1>1, <1>2 DEF ScanInv, Reported
<1>7. QED  BY <1>3, <1>4, <1>5, <1>6 DEF ScanInv

Inv == BuildInv /\ ScanInv

LEMMA InvStep == ASSUME Inv, [Next]_vars PROVE Inv'
<1>1. BuildInv /\ ScanInv
  BY DEF Inv
<1>2. BuildInv'
  BY <1>1, BuildStep
<1> SUFFICES ScanInv'
  BY <1>2 DEF Inv
<1>3. CASE BuildNext /\ UNCHANGED scanVars
  BY <1>1, <1>2, <1>3, BuildKeepsScan
<1>4. CASE Scan /\ UNCHANGED buildVars
  <2>1. CASE \E raw \in Bytes : FeedComment(raw) \/ OpenComment(raw) \/ FeedRaw(raw)
    BY <1>1, <1>4, <2>1, FeedCommentInv, OpenCommentInv, FeedRawInv
  <2>2. CASE Finish
    BY <1>1, <1>4, <2>2, FinishInv
  <2>3. CASE FollowFail
    BY <1>1, <1>4, <2>3, FollowFailInv
  <2>4. CASE Consume
    BY <1>1, <1>4, <2>4, ConsumeInv
  <2>5. QED  BY <1>4, <2>1, <2>2, <2>3, <2>4 DEF Scan
<1>5. CASE UNCHANGED vars
  BY <1>1, <1>5, ScanInvSame
<1>6. QED  BY <1>3, <1>4, <1>5 DEF Next, Over

LEMMA InvAlways == Spec => []Inv
<1>1. Init => Inv
  BY BuildInitInv, ScanInitInv DEF Init, Inv
<1>2. Inv /\ [Next]_vars => Inv'
  BY InvStep
<1>3. QED  BY <1>1, <1>2, PTL DEF Spec

-----------------------------------------------------------------------------
(* What the invariant says of the properties.                              *)

LEMMA TypesHold == ASSUME Inv PROVE TypeOK
<1>1. /\ BuildTypes /\ Linked /\ Queued /\ Reached /\ Placed
      /\ Flags /\ ScanTypes
  BY DEF Inv, BuildInv, ScanInv
<1>2. nodes \subseteq Seq(Bytes) /\ todo \subseteq Bytes
  BY <1>1 DEF BuildTypes, Closed, Text, Children
<1>3. \A n \in DOMAIN fail : fail[n] \in nodes
  BY <1>1 DEF Linked, IsLink
<1>4. \A i, j \in DOMAIN queue : queue[i] = queue[j] => i = j
  <2>1. DOMAIN queue \subseteq Nat
    BY <1>1 DEF BuildTypes
  <2>2. QED  BY <1>1, <2>1 DEF Queued
<1>5. ASSUME pc = "climb" PROVE climb = Root \/ climb \in DOMAIN fail
  <2>1. climb \in nodes /\ current \in nodes /\ Len(climb) < Len(current)
    BY <1>1, <1>5 DEF BuildTypes, Placed, Climbing
  <2>2. Len(climb) \in Nat /\ Len(current) \in Nat
    BY <1>2, <2>1
  <2>3. Len(climb) <= Len(current)
    BY <2>1, <2>2
  <2>4. QED  BY <1>1, <2>1, <2>3 DEF Reached
<1>6. BuildTypeOK
  BY <1>1, <1>2, <1>3, <1>4, <1>5 DEF BuildTypes, BuildTypeOK
<1>7. {pendingSpace, pendingSlash, inBlockComment, pendingCommentStar, emitted}
          \subseteq BOOLEAN
  BY <1>1, Zenon DEF Flags
<1>8. finished \in BOOLEAN
  BY <1>1 DEF Flags
<1>9. QED  BY <1>1, <1>6, <1>7, <1>8 DEF ScanTypes, TypeOK, Text

LEMMA LongestHolds == ASSUME Inv PROVE StateIsLongest
<1>1. SUFFICES ASSUME due = <<>> PROVE state = Longest(Suffixes(text) \cap nodes)
  BY DEF StateIsLongest
<1>2. text \in Text /\ state \in nodes /\ nodes \subseteq Text
  BY DEF Inv, BuildInv, ScanInv, BuildTypes, ScanTypes, Closed
<1>3. Ends(state, text) /\ \A s \in nodes : Ends(s, text) => Len(s) <= Len(state)
  BY <1>1 DEF Inv, ScanInv, Follows
<1> DEFINE C == Suffixes(text) \cap nodes
<1>4. \A t : t \in C <=> t \in nodes /\ Ends(t, text)
  BY <1>2, SuffixesAre
<1> HIDE DEF C
<1>5. PICK g : g = Longest(C)
  OBVIOUS
<1>6. state \in C /\ \A t \in C : Len(t) <= Len(state)
  BY <1>2, <1>3, <1>4
<1>7. g \in C /\ \A t \in C : Len(t) <= Len(g)
  BY <1>5, <1>6 DEF Longest
<1>8. g \in Text /\ state \in Text /\ Ends(g, text)
  BY <1>2, <1>4, <1>7
<1>9. Len(g) = Len(state)
  BY <1>6, <1>7, <1>8, TextLen
<1>10. g = state
  BY <1>2, <1>3, <1>8, <1>9, EndsSame
<1>11. QED  BY <1>5, <1>10 DEF C

\* Normalize of the input so far, in terms of the scanner.
LEMMA NormalizedIs ==
    ASSUME Inv
    PROVE  /\ text \in Text /\ due \in Text /\ Held \in Text /\ Whole \in Text
           /\ Normalize(input) = Whole \o Held
           /\ ~pendingSlash => Held = <<>>
<1>1. Flags /\ Agrees /\ input \in Text /\ text \in Text /\ due \in Text
  BY DEF Inv, ScanInv, ScanTypes
<1>2. /\ Held \in Text /\ (Held # <<>> <=> pendingSlash)
      /\ Held # <<>> => Last(Held) # Space
      /\ Loop[After(<<>>)][Mode] = Held
  BY <1>1, LoopAtEnd
<1>3. Whole \in Text /\ Whole \o <<>> = Whole
  BY <1>1, ConcatText DEF Whole
<1>4. Loop[input]["start"] = Whole \o Held
  <2>1. CASE finished
    <3>1. Held = <<>>
      BY <1>1, <1>2, <2>1 DEF Flags
    <3>2. QED  BY <1>1, <1>3, <2>1, <3>1 DEF Agrees
  <2>2. CASE ~finished
    <3>1. <<>> \in Text /\ input \o <<>> = input
      BY <1>1, RootText, ConcatText DEF Root
    <3>2. Loop[input \o <<>>]["start"] = Whole \o Loop[After(<<>>)][Mode]
      BY <1>1, <2>2, <3>1 DEF Agrees
    <3>3. QED  BY <1>2, <3>1, <3>2
  <2>3. QED  BY <2>1, <2>2
<1>5. PICK u : u = Whole \o Held
  OBVIOUS
<1>6. u = <<>> \/ Last(u) # Space
  <2>1. CASE Held = <<>>
    BY <1>1, <1>3, <1>5, <2>1 DEF Agrees
  <2>2. CASE Held # <<>>
    <3>1. Last(Whole \o Held) = Last(Held)
      BY <1>2, <1>3, <2>2, ConcatText
    <3>2. QED  BY <1>2, <1>5, <2>2, <3>1
  <2>3. QED  BY <2>1, <2>2
<1>7. TrimTrailingSpace(u) = u
  BY <1>6, Zenon DEF TrimTrailingSpace, Space
<1>8. Normalize(input) = u
  BY <1>4, <1>5, <1>7 DEF Normalize
<1>9. QED  BY <1>1, <1>2, <1>3, <1>5, <1>8

LEMMA NormalizedHolds == ASSUME Inv PROVE TextIsNormalized
<1>1. SUFFICES ASSUME due = <<>>, match = None
               PROVE  IF pendingSlash THEN text \o Held = Normalize(input)
                                      ELSE text = Normalize(input)
  BY DEF TextIsNormalized
<1>2. Whole = text
  BY <1>1, NormalizedIs, ConcatText DEF Whole
<1>3. Normalize(input) = text \o Held /\ (~pendingSlash => Held = <<>>) /\ text \in Text
  BY <1>2, NormalizedIs
<1>4. CASE pendingSlash
  BY <1>3, <1>4
<1>5. CASE ~pendingSlash
  BY <1>3, <1>5, ConcatText
<1>6. QED  BY <1>4, <1>5

\* A text occurs in another if and only if it ends a beginning of it.
LEMMA OccursIff ==
    ASSUME NEW t \in Text, NEW s \in Text
    PROVE  Occurs(t, s) <=> \E k \in 0 .. Len(s) : Ends(t, Begin(s, k))
<1>1. Len(t) \in Nat /\ Len(s) \in Nat
  BY TextLen
<1>2. ASSUME NEW i \in 0 .. Len(s) - Len(t)
      PROVE  SubSeq(s, i + 1, i + Len(t)) = t <=> Ends(t, Begin(s, i + Len(t)))
  <2>0. i \in Nat /\ i + Len(t) \in 0 .. Len(s) /\ Len(t) <= i + Len(t)
    BY <1>1
  <2>1. PICK u : u = Begin(s, i + Len(t))
    OBVIOUS
  <2>2. u \in Text /\ Len(u) = i + Len(t) /\ \A j \in 1 .. i + Len(t) : u[j] = s[j]
    BY <2>0, <2>1, BeginIs
  <2>3. PICK v : v = SubSeq(s, i + 1, i + Len(t))
    OBVIOUS
  <2>4. v \in Text /\ Len(v) = Len(t) /\ \A j \in 1 .. Len(t) : v[j] = s[i + j]
    <3>1. \A j \in i + 1 .. i + Len(t) : s[j] \in Bytes
      BY <1>1, <2>0 DEF Text
    <3>2. /\ SubSeq(s, i + 1, i + Len(t)) \in Seq(Bytes)
          /\ Len(SubSeq(s, i + 1, i + Len(t))) =
                IF i + 1 <= i + Len(t) THEN i + Len(t) - (i + 1) + 1 ELSE 0
          /\ \A j \in 1 .. i + Len(t) - (i + 1) + 1 :
                SubSeq(s, i + 1, i + Len(t))[j] = s[i + 1 + j - 1]
      BY <1>1, <2>0, <3>1, SubSeqProperties
    <3>3. QED  BY <1>1, <2>0, <2>3, <3>2 DEF Text
  <2>5. \A j \in 1 .. Len(t) : u[Len(u) - Len(t) + j] = v[j]
    <3>1. SUFFICES ASSUME NEW j \in 1 .. Len(t) PROVE u[Len(u) - Len(t) + j] = v[j]
      OBVIOUS
    <3>2. Len(u) - Len(t) + j = i + j /\ i + j \in 1 .. i + Len(t)
      BY <1>1, <2>0, <2>2
    <3>3. QED  BY <2>2, <2>4, <3>2
  <2>6. Ends(t, u) <=> \A j \in 1 .. Len(t) : t[j] = u[Len(u) - Len(t) + j]
    BY <2>0, <2>2, EndsIff
  <2>7. v = t <=> \A j \in 1 .. Len(t) : t[j] = v[j]
    BY <2>4, Same
  <2>8. QED  BY <2>1, <2>3, <2>5, <2>6, <2>7
<1>3. ASSUME Occurs(t, s) PROVE \E k \in 0 .. Len(s) : Ends(t, Begin(s, k))
  <2>1. PICK i \in 0 .. Len(s) - Len(t) : SubSeq(s, i + 1, i + Len(t)) = t
    BY <1>3 DEF Occurs
  <2>2. i + Len(t) \in 0 .. Len(s)
    BY <1>1
  <2>3. QED  BY <1>2, <2>1, <2>2
<1>4. ASSUME NEW k \in 0 .. Len(s), Ends(t, Begin(s, k)) PROVE Occurs(t, s)
  <2>1. Len(Begin(s, k)) = k
    BY BeginIs
  <2>2. Len(t) <= k
    BY <1>4, <2>1 DEF Ends
  <2>3. k - Len(t) \in 0 .. Len(s) - Len(t) /\ (k - Len(t)) + Len(t) = k
    BY <1>1, <2>2
  <2>4. SubSeq(s, (k - Len(t)) + 1, (k - Len(t)) + Len(t)) = t
    BY <1>2, <1>4, <2>3
  <2>5. QED  BY <2>3, <2>4 DEF Occurs
<1>5. QED  BY <1>3, <1>4

\* A text begins what is made by adding to it.
LEMMA BeginConcat ==
    ASSUME NEW s \in Text, NEW t \in Text
    PROVE  Len(s) \in 0 .. Len(s \o t) /\ Begin(s \o t, Len(s)) = s
<1>1. PICK u : u = s \o t
  OBVIOUS
<1>2. Len(s) \in Nat /\ Len(t) \in Nat
  BY TextLen
<1>3. /\ u \in Text /\ Len(u) = Len(s) + Len(t)
      /\ \A i \in 1 .. Len(s) + Len(t) : u[i] = IF i <= Len(s) THEN s[i] ELSE t[i - Len(s)]
  BY <1>1, ConcatProperties DEF Text
<1>4. Len(s) \in 0 .. Len(u)
  BY <1>2, <1>3
<1>5. /\ Begin(u, Len(s)) \in Text /\ Len(Begin(u, Len(s))) = Len(s)
      /\ \A i \in 1 .. Len(s) : Begin(u, Len(s))[i] = u[i]
  BY <1>3, <1>4, BeginIs
<1>6. \A i \in 1 .. Len(s) : u[i] = s[i]
  BY <1>2, <1>3
<1>7. Begin(u, Len(s)) = s
  BY <1>5, <1>6, Same
<1>8. QED  BY <1>1, <1>4, <1>7

LEMMA MatchHolds == ASSUME Inv PROVE MatchIffContained
<1>1. TypeOK /\ StateIsLongest
  BY TypesHold, LongestHolds
<1>2. /\ text \in Text /\ due \in Text /\ Held \in Text /\ Whole \in Text
      /\ Normalize(input) = Whole \o Held /\ (~pendingSlash => Held = <<>>)
  BY NormalizedIs
<1>3. Reported /\ Flags /\ rules \in Policies /\ match \in {None} \cup DOMAIN rules
  BY DEF Inv, BuildInv, ScanInv, BuildTypes, ScanTypes
<1>4. DOMAIN Texts = DOMAIN rules /\ \A i \in DOMAIN Texts : Texts[i] \in Text
  BY <1>3, TextsAre
<1>5. ASSUME match # None
      PROVE  /\ Occurs(Texts[match], Normalize(input))
             /\ Texts[match] = <<>> => state = Root
  <2>1. /\ Ends(Texts[match], text) /\ (Texts[match] = <<>> => state = Root)
        /\ Texts[match] \in Text
    BY <1>3, <1>4, <1>5 DEF Reported
  <2>2. due \o Held \in Text /\ Normalize(input) = text \o (due \o Held)
    BY <1>2, ConcatText, ConcatAssoc DEF Whole
  <2>3. PICK u : u = Normalize(input)
    OBVIOUS
  <2>4. u \in Text /\ Len(text) \in 0 .. Len(u) /\ Begin(u, Len(text)) = text
    BY <1>2, <2>2, <2>3, ConcatText, BeginConcat
  <2>5. Occurs(Texts[match], u)
    BY <2>1, <2>4, OccursIff
  <2>6. QED  BY <2>1, <2>3, <2>5
<1>6. ASSUME finished, due = <<>>, match = None,
             NEW i \in DOMAIN Texts, Texts[i] # <<>>
      PROVE  ~Occurs(Texts[i], Normalize(input))
  <2>1. Held = <<>>
    BY <1>2, <1>3, <1>6 DEF Flags
  <2>2. Normalize(input) = text
    BY <1>2, <1>6, <2>1, ConcatText DEF Whole
  <2>3. \A k \in 0 .. Len(text) : ~Ends(Texts[i], Begin(text, k))
    BY <1>3, <1>6 DEF Reported
  <2>4. QED  BY <1>2, <1>4, <2>2, <2>3, OccursIff
<1>7. QED  BY <1>1, <1>5, <1>6 DEF MatchIffContained

\* The scanner, fed byte by byte, puts out exactly what Normalize makes of
\* the whole input, for every input, wherever it is cut: feedRaw and Finish
\* of security/waf/automaton.go agree with Normalize of normalize.go.
THEOREM NormalizationHolds == Spec => []TextIsNormalized
<1>1. Inv => TextIsNormalized
  BY NormalizedHolds
<1>2. QED  BY <1>1, InvAlways, PTL

\* For every policy and every input the scanner reports a rule if and only if
\* the normalised input contains the text of one, and then one that it
\* contains; on the way it is always in the longest node that ends what it
\* has read, and every variable has its type.
THEOREM MatchesHold == Spec => []MatchIffContained
<1>1. Inv => MatchIffContained
  BY MatchHolds
<1>2. QED  BY <1>1, InvAlways, PTL

=============================================================================
