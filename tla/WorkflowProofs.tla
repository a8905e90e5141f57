----------------------------- MODULE WorkflowProofs -----------------------------
(***************************************************************************)
(* What holds of the workflow graph, of saves and of the editor for every   *)
(* number of browsers, saves, workflows and cards.                          *)
(*                                                                          *)
(* Inductions over numbers and over finite sets are done by their least     *)
(* counterexample: every set of numbers has a least member, every set of    *)
(* subsets of a finite set a smallest one.                                  *)
(***************************************************************************)
EXTENDS Builder, FiniteSetTheorems, WellFoundedInduction, TLAPS

-----------------------------------------------------------------------------
(* Numbers and finite sets.                                                 *)

LEMMA Least ==
  ASSUME NEW T, T \subseteq Nat, T # {}
  PROVE  \E m \in T : \A n \in T : m <= n
  <1>1. PICK m \in T : \A n \in T : <<n, m>> \notin OpToRel(<, Nat)
    BY NatLessThanWellFounded, WFMin
  <1>2. ASSUME NEW n \in T, n < m PROVE FALSE
    BY <1>1, <1>2 DEF OpToRel
  <1> QED
    BY <1>2

\* Induction over a set of numbers.
LEMMA Upward ==
  ASSUME NEW N \in Nat, NEW B, 0 \in B, \A n \in 1 .. N : n - 1 \in B => n \in B
  PROVE  \A n \in 0 .. N : n \in B
  <1> DEFINE Left == (0 .. N) \ B
  <1>1. ASSUME Left # {} PROVE FALSE
    <2>1. Left \subseteq Nat
      OBVIOUS
    <2>2. PICK m \in Left : \A n \in Left : m <= n
      <3> HIDE DEF Left
      <3> QED
        BY <1>1, <2>1, Least
    <2>3. m \in 1 .. N /\ m - 1 \in 0 .. N /\ ~(m <= m - 1)
      OBVIOUS
    <2> QED
      BY <2>2, <2>3
  <1> QED
    BY <1>1

Family(T, S) == T \subseteq SUBSET S /\ T # {}
Minimal(U, T) == U \in T /\ \A V \in T : V \subseteq U => V = U

LEMMA Smallest ==
  ASSUME NEW S, IsFiniteSet(S), NEW T, Family(T, S)
  PROVE  \E U : Minimal(U, T)
  <1>1. T \subseteq FiniteSubsetsOf(S)
    BY FS_Subset DEF FiniteSubsetsOf, Family
  <1>2. \E U \in T : \A V \in T : <<V, U>> \notin StrictSubsetOrdering(S)
    BY <1>1, FS_StrictSubsetOrderingWellFounded, WFMin DEF Family
  <1> QED
    BY <1>2 DEF StrictSubsetOrdering, Family, Minimal

LEMMA Greatest ==
  ASSUME NEW S, IsFiniteSet(S), S \subseteq Nat, S # {}
  PROVE  Max(S) \in S /\ \A x \in S : x <= Max(S)
  <1> DEFINE Upper(y) == {x \in S : x >= y}
  <1>1. PICK T : T = {U \in SUBSET S : \E y \in S : U = Upper(y)}
    OBVIOUS
  <1>2. Family(T, S)
    BY <1>1 DEF Family
  <1>6. PICK U : Minimal(U, T)
    BY <1>2, Smallest
  <1>3. PICK y \in S : U = Upper(y)
    BY <1>1, <1>6 DEF Minimal
  <1>4. ASSUME NEW z \in S, z > y PROVE FALSE
    <2>1. Upper(z) \in T
      BY <1>1
    <2>2. y \in Nat /\ z \in Nat /\ \A x \in S : x \in Nat
      OBVIOUS
    <2>3. Upper(z) \subseteq Upper(y)
      <3>1. \A x \in S : x >= z => x >= y
        BY <1>4, <2>2
      <3> QED
        BY <3>1
    <2>4. y \in Upper(y) /\ y \notin Upper(z)
      BY <1>4, <2>2
    <2> QED
      BY <1>6, <1>3, <2>1, <2>3, <2>4 DEF Minimal
  <1>5. \E x \in S : \A z \in S : x >= z
    BY <1>4
  <1> QED
    BY <1>5 DEF Max

LEMMA ImageFinite ==
  ASSUME NEW f, IsFiniteSet(DOMAIN f)
  PROVE  IsFiniteSet({f[x] : x \in DOMAIN f})
  <1> DEFINE T == {f[x] : x \in DOMAIN f}
             h == [x \in DOMAIN f |-> f[x]]
  <1>1. h \in Surjection(DOMAIN f, T)
    BY DEF Surjection
  <1> QED
    BY <1>1, FS_Surjection

\* A function may be iterated.
Iterates(f, N, S, a, h) ==
  f \in [0 .. N -> S] /\ f[0] = a /\ \A n \in 1 .. N : f[n] = h[f[n - 1]]

LEMMA Iterated ==
  ASSUME NEW S, NEW a \in S, NEW h \in [S -> S], NEW N \in Nat
  PROVE  \E f : Iterates(f, N, S, a, h)
  <1> DEFINE B == {n \in Nat : \E f : Iterates(f, n, S, a, h)}
  <1>1. 0 \in B
    <2>1. Iterates([i \in 0 .. 0 |-> a], 0, S, a, h)
      BY DEF Iterates
    <2> QED
      BY <2>1
  <1>2. ASSUME NEW n \in 1 .. N, n - 1 \in B PROVE n \in B
    <2>1. PICK f : Iterates(f, n - 1, S, a, h)
      BY <1>2
    <2> DEFINE next == [i \in 0 .. n |-> IF i = n THEN h[f[n - 1]] ELSE f[i]]
    <2>2. Iterates(next, n, S, a, h)
      BY <2>1 DEF Iterates
    <2> QED
      BY <2>2
  <1>3. N \in B
    <2> HIDE DEF B
    <2> QED
      BY <1>1, <1>2, Upward
  <1> QED
    BY <1>3

LEMMA StaysEqual ==
  ASSUME NEW N \in Nat, NEW f, NEW x, x[0] = f[0],
         \A n \in 1 .. N : x[n - 1] = f[n - 1] => x[n] = f[n]
  PROVE  \A n \in 0 .. N : x[n] = f[n]
  <1> DEFINE B == {n \in 0 .. N : x[n] = f[n]}
  <1>1. 0 \in B /\ \A n \in 1 .. N : n - 1 \in B => n \in B
    OBVIOUS
  <1>2. \A n \in 0 .. N : n \in B
    <2> HIDE DEF B
    <2> QED
      BY <1>1, Upward
  <1> QED
    BY <1>2

-----------------------------------------------------------------------------
(* The graph's checks.                                                      *)

LEMMA Edges ==
  ASSUME NEW g, IsGraph(g)
  PROVE  /\ \A e \in g.edges : e = <<e[1], e[2]>> /\ e[1] \in KeysOf(g) /\ e[2] \in KeysOf(g)
         /\ \A x, k : x \in Before(g, k) <=> <<x, k>> \in g.edges
         /\ \A x, k : x \in After(g, k) <=> <<k, x>> \in g.edges
         /\ \A k : Before(g, k) \subseteq KeysOf(g) /\ After(g, k) \subseteq KeysOf(g)
  <1>1. \A e \in g.edges : e = <<e[1], e[2]>> /\ e[1] \in KeysOf(g) /\ e[2] \in KeysOf(g)
    BY DEF IsGraph
  <1> DEFINE E == g.edges
  <1>2. \A e \in E : e = <<e[1], e[2]>>
    BY <1>1
  <1>3. \A x, k : x \in {e[1] : e \in {y \in E : y[2] = k}} <=> <<x, k>> \in E
    <2> HIDE DEF E
    <2> QED
      BY <1>2
  <1>4. \A x, k : x \in {e[2] : e \in {y \in E : y[1] = k}} <=> <<k, x>> \in E
    <2> HIDE DEF E
    <2> QED
      BY <1>2
  <1>5. \A x, k : x \in Before(g, k) <=> <<x, k>> \in g.edges
    BY <1>3 DEF Before
  <1>6. \A x, k : x \in After(g, k) <=> <<k, x>> \in g.edges
    BY <1>4 DEF After
  <1>7. \A k : Before(g, k) \subseteq KeysOf(g) /\ After(g, k) \subseteq KeysOf(g)
    <2> SUFFICES ASSUME NEW k
                 PROVE  Before(g, k) \subseteq KeysOf(g) /\ After(g, k) \subseteq KeysOf(g)
      OBVIOUS
    <2>1. \A x \in Before(g, k) : <<x, k>>[1] \in KeysOf(g)
      BY <1>1, <1>5
    <2>2. \A x \in After(g, k) : <<k, x>>[2] \in KeysOf(g)
      BY <1>1, <1>6
    <2> QED
      BY <2>1, <2>2
  <1> QED
    BY <1>1, <1>5, <1>6, <1>7

LEMMA RoundsType ==
  ASSUME NEW g, IsGraph(g)
  PROVE  Rounds(g) \in Nat
  BY FS_CardinalityType DEF IsGraph, Rounds

\* The rounds of Knotted and of Reached are those of a function.
LEMMA KnottedRounds ==
  ASSUME NEW g, IsGraph(g)
  PROVE  \E f \in [0 .. Rounds(g) -> SUBSET KeysOf(g)] :
           /\ f[0] = KeysOf(g)
           /\ \A n \in 1 .. Rounds(g) : f[n] = StillBehind(g, f[n - 1])
           /\ Knotted(g) = f[Rounds(g)]
  <1> DEFINE S == SUBSET KeysOf(g)
             h == [K \in S |-> StillBehind(g, K)]
             N == Rounds(g)
  <1>1. N \in Nat
    BY RoundsType
  <1>2. h \in [S -> S] /\ KeysOf(g) \in S
    BY DEF StillBehind
  <1>3. PICK f : Iterates(f, N, S, KeysOf(g), h)
    <2> HIDE DEF S, h, N
    <2> QED
      BY <1>1, <1>2, Iterated
  <1>4. f \in [0 .. N -> S] /\ f[0] = KeysOf(g)
    BY <1>3 DEF Iterates
  <1>5. \A n \in 1 .. N : f[n - 1] \in S /\ f[n] = StillBehind(g, f[n - 1])
    <2> HIDE DEF N
    <2>1. \A n \in 1 .. N : n - 1 \in 0 .. N
      BY <1>1
    <2>2. \A n \in 1 .. N : f[n - 1] \in S
      BY <1>4, <2>1
    <2> QED
      BY <1>3, <2>2 DEF Iterates
  <1> DEFINE Fits(x) == x = [n \in 0 .. N |-> IF n = 0 THEN KeysOf(g) ELSE StillBehind(g, x[n - 1])]
             l == CHOOSE x : Fits(x)
  <1>6. Fits(f)
    <2> HIDE DEF N, S
    <2>1. \A n \in 0 .. N : n # 0 => n \in 1 .. N
      BY <1>1
    <2>2. \A n \in 0 .. N : f[n] = IF n = 0 THEN KeysOf(g) ELSE StillBehind(g, f[n - 1])
      BY <1>4, <1>5, <2>1
    <2> QED
      BY <1>4, <2>2
  <1>7. Fits(l)
    BY <1>6, Zenon
  <1>8. l[0] = f[0]
    <2> HIDE DEF l
    <2>1. 0 \in 0 .. N
      BY <1>1
    <2> QED
      BY <1>4, <1>7, <2>1
  <1>9. \A n \in 1 .. N : l[n - 1] = f[n - 1] => l[n] = f[n]
    <2> HIDE DEF l
    <2>1. \A n \in 1 .. N : l[n] = StillBehind(g, l[n - 1])
      BY <1>1, <1>7
    <2> QED
      BY <1>5, <2>1
  <1>10. l[N] = f[N]
    <2> HIDE DEF l, N
    <2>1. N \in 0 .. N
      BY <1>1
    <2> QED
      BY <1>1, <1>8, <1>9, <2>1, StaysEqual
  <1>11. Knotted(g) = l[N]
    BY Zenon DEF Knotted
  <1>12. Knotted(g) = f[N]
    BY <1>10, <1>11
  <1> QED
    BY <1>4, <1>5, <1>12
LEMMA ReachedRounds ==
  ASSUME NEW g, IsGraph(g), NEW start \in SUBSET KeysOf(g)
  PROVE  \E f \in [0 .. Rounds(g) -> SUBSET KeysOf(g)] :
           /\ f[0] = start
           /\ \A n \in 1 .. Rounds(g) : f[n] = Onward(g, f[n - 1])
           /\ Reached(g, start) = f[Rounds(g)]
  <1> DEFINE S == SUBSET KeysOf(g)
             h == [K \in S |-> Onward(g, K)]
             N == Rounds(g)
  <1>1. N \in Nat
    BY RoundsType
  <1>2. h \in [S -> S] /\ start \in S
    BY Edges DEF Onward
  <1>3. PICK f : Iterates(f, N, S, start, h)
    <2> HIDE DEF S, h, N
    <2> QED
      BY <1>1, <1>2, Iterated
  <1>4. f \in [0 .. N -> S] /\ f[0] = start
    BY <1>3 DEF Iterates
  <1>5. \A n \in 1 .. N : f[n - 1] \in S /\ f[n] = Onward(g, f[n - 1])
    <2> HIDE DEF N
    <2>1. \A n \in 1 .. N : n - 1 \in 0 .. N
      BY <1>1
    <2>2. \A n \in 1 .. N : f[n - 1] \in S
      BY <1>4, <2>1
    <2> QED
      BY <1>3, <2>2 DEF Iterates
  <1> DEFINE Fits(x) == x = [n \in 0 .. N |-> IF n = 0 THEN start ELSE Onward(g, x[n - 1])]
             l == CHOOSE x : Fits(x)
  <1>6. Fits(f)
    <2> HIDE DEF N, S
    <2>1. \A n \in 0 .. N : n # 0 => n \in 1 .. N
      BY <1>1
    <2>2. \A n \in 0 .. N : f[n] = IF n = 0 THEN start ELSE Onward(g, f[n - 1])
      BY <1>4, <1>5, <2>1
    <2> QED
      BY <1>4, <2>2
  <1>7. Fits(l)
    BY <1>6, Zenon
  <1>8. l[0] = f[0]
    <2> HIDE DEF l
    <2>1. 0 \in 0 .. N
      BY <1>1
    <2> QED
      BY <1>4, <1>7, <2>1
  <1>9. \A n \in 1 .. N : l[n - 1] = f[n - 1] => l[n] = f[n]
    <2> HIDE DEF l
    <2>1. \A n \in 1 .. N : l[n] = Onward(g, l[n - 1])
      BY <1>1, <1>7
    <2> QED
      BY <1>5, <2>1
  <1>10. l[N] = f[N]
    <2> HIDE DEF l, N
    <2>1. N \in 0 .. N
      BY <1>1
    <2> QED
      BY <1>1, <1>8, <1>9, <2>1, StaysEqual
  <1>11. Reached(g, start) = l[N]
    BY Zenon DEF Reached
  <1>12. Reached(g, start) = f[N]
    BY <1>10, <1>11
  <1> QED
    BY <1>4, <1>5, <1>12

\* A card that stays behind in every round is on a circle, and every circle
\* stays behind: the rounds find the circles of a graph.
LEMMA KnottedCircle ==
  ASSUME NEW g, IsGraph(g), Knotted(g) = {}
  PROVE  Acyclic(g)
  <1> SUFFICES ASSUME NEW K \in SUBSET KeysOf(g), K # {},
                      \A k \in K : Before(g, k) \cap K # {}
               PROVE  FALSE
    BY DEF Acyclic
  <1>1. PICK f \in [0 .. Rounds(g) -> SUBSET KeysOf(g)] :
          /\ f[0] = KeysOf(g)
          /\ \A n \in 1 .. Rounds(g) : f[n] = StillBehind(g, f[n - 1])
          /\ Knotted(g) = f[Rounds(g)]
    BY KnottedRounds
  <1>2. Rounds(g) \in Nat
    BY RoundsType
  <1> DEFINE B == {n \in 0 .. Rounds(g) : K \subseteq f[n]}
  <1>3. 0 \in B
    BY <1>1, <1>2
  <1>4. ASSUME NEW n \in 1 .. Rounds(g), n - 1 \in B PROVE n \in B
    <2>1. K \subseteq StillBehind(g, f[n - 1])
      BY <1>4 DEF StillBehind
    <2> QED
      BY <1>1, <1>2, <2>1
  <1>5. \A n \in 0 .. Rounds(g) : n \in B
    <2> HIDE DEF B
    <2> QED
      BY <1>2, <1>3, <1>4, Upward
  <1> QED
    BY <1>1, <1>2, <1>5

LEMMA CircleKnotted ==
  ASSUME NEW g, IsGraph(g), Acyclic(g)
  PROVE  Knotted(g) = {}
  <1>1. PICK f \in [0 .. Rounds(g) -> SUBSET KeysOf(g)] :
          /\ f[0] = KeysOf(g)
          /\ \A n \in 1 .. Rounds(g) : f[n] = StillBehind(g, f[n - 1])
          /\ Knotted(g) = f[Rounds(g)]
    BY KnottedRounds
  <1>2. Rounds(g) \in Nat /\ IsFiniteSet(KeysOf(g))
    BY RoundsType DEF IsGraph
  <1>3. \A K \in SUBSET KeysOf(g) : IsFiniteSet(K) /\ Cardinality(K) \in Nat
    BY <1>2, FS_Subset, FS_CardinalityType
  <1> DEFINE B == {n \in 0 .. Rounds(g) : Cardinality(f[n]) <= Rounds(g) - n}
  <1>4. 0 \in B
    BY <1>1, <1>2 DEF Rounds
  <1>5. ASSUME NEW n \in 1 .. Rounds(g), n - 1 \in B PROVE n \in B
    <2>1. n \in 0 .. Rounds(g) /\ n - 1 \in 0 .. Rounds(g)
      BY <1>2
    <2> DEFINE K == f[n - 1]
               L == f[n]
    <2>2. K \in SUBSET KeysOf(g) /\ L = StillBehind(g, K)
      BY <1>1, <2>1
    <2>3. Cardinality(K) \in Nat /\ Cardinality(K) <= Rounds(g) - (n - 1)
      BY <1>3, <1>5, <2>2
    <2>4. CASE K = {}
      <3>1. L = {}
        BY <2>2, <2>4 DEF StillBehind
      <3>2. Cardinality(L) = 0 /\ 0 <= Rounds(g) - n
        BY <1>2, <2>1, <3>1, FS_EmptySet
      <3> QED
        BY <2>1, <3>2
    <2>5. CASE K # {}
      <3>1. PICK k \in K : Before(g, k) \cap K = {}
        BY <2>2, <2>5 DEF Acyclic
      <3>2. L \subseteq K \ {k} /\ L \in SUBSET KeysOf(g)
        BY <2>2, <3>1 DEF StillBehind
      <3>3. Cardinality(K \ {k}) = Cardinality(K) - 1 /\ IsFiniteSet(K \ {k})
        BY <1>3, <2>2, FS_RemoveElement
      <3>4. Cardinality(L) <= Cardinality(K \ {k}) /\ Cardinality(L) \in Nat
        BY <1>3, <3>2, <3>3, FS_Subset
      <3>5. Cardinality(L) <= Rounds(g) - n
        <4> HIDE DEF K, L
        <4> QED
          BY <1>2, <2>1, <2>3, <3>3, <3>4
      <3> QED
        BY <2>1, <3>5
    <2> QED
      BY <2>4, <2>5
  <1>6. \A n \in 0 .. Rounds(g) : n \in B
    <2> HIDE DEF B
    <2> QED
      BY <1>2, <1>4, <1>5, Upward
  <1>7. Rounds(g) \in B
    <2> HIDE DEF B
    <2> QED
      BY <1>2, <1>6
  <1>8. Knotted(g) \in SUBSET KeysOf(g) /\ Cardinality(Knotted(g)) <= 0
    BY <1>1, <1>2, <1>7
  <1> QED
    BY <1>3, <1>8, FS_EmptySet

\* What is reached holds the start, leads nowhere else, and is no more than
\* what must be in it.
Closed(g, K) == \A k \in K : After(g, k) \subseteq K

LEMMA ReachedClosed ==
  ASSUME NEW g, IsGraph(g), NEW start \in SUBSET KeysOf(g)
  PROVE  /\ start \subseteq Reached(g, start)
         /\ Reached(g, start) \in SUBSET KeysOf(g)
         /\ Closed(g, Reached(g, start))
         /\ \A K \in SUBSET KeysOf(g) : start \subseteq K /\ Closed(g, K) => Reached(g, start) \subseteq K
  <1>1. PICK f \in [0 .. Rounds(g) -> SUBSET KeysOf(g)] :
          /\ f[0] = start
          /\ \A n \in 1 .. Rounds(g) : f[n] = Onward(g, f[n - 1])
          /\ Reached(g, start) = f[Rounds(g)]
    BY ReachedRounds
  <1>2. Rounds(g) \in Nat /\ IsFiniteSet(KeysOf(g)) /\ 0 \in 0 .. Rounds(g) /\ Rounds(g) \in 0 .. Rounds(g)
    BY RoundsType DEF IsGraph
  <1>3. \A K \in SUBSET KeysOf(g) : IsFiniteSet(K) /\ Cardinality(K) \in Nat
    BY <1>2, FS_Subset, FS_CardinalityType
  <1>4. \A n \in 1 .. Rounds(g) : n \in 0 .. Rounds(g) /\ n - 1 \in 0 .. Rounds(g)
    BY <1>2
  <1>5. start \subseteq Reached(g, start)
    <2> DEFINE B == {n \in 0 .. Rounds(g) : start \subseteq f[n]}
    <2>1. 0 \in B
      BY <1>1, <1>2
    <2>2. ASSUME NEW n \in 1 .. Rounds(g), n - 1 \in B PROVE n \in B
      <3>1. f[n - 1] \subseteq f[n]
        BY <1>1 DEF Onward
      <3> QED
        BY <1>4, <2>2, <3>1
    <2>3. \A n \in 0 .. Rounds(g) : n \in B
      <3> HIDE DEF B
      <3> QED
        BY <1>2, <2>1, <2>2, Upward
    <2> QED
      BY <1>1, <1>2, <2>3
  <1>6. Closed(g, Reached(g, start))
    <2> DEFINE B == {n \in 0 .. Rounds(g) : Closed(g, f[n]) \/ Cardinality(f[n]) >= n}
    <2>1. 0 \in B
      BY <1>1, <1>2, <1>3
    <2>2. ASSUME NEW n \in 1 .. Rounds(g), n - 1 \in B PROVE n \in B
      <3> DEFINE K == f[n - 1]
                 L == f[n]
      <3>1. K \in SUBSET KeysOf(g) /\ L \in SUBSET KeysOf(g) /\ L = Onward(g, K)
        BY <1>1, <1>4
      <3>2. CASE Closed(g, K)
        <4>1. L = K
          BY <3>1, <3>2 DEF Onward, Closed
        <4> QED
          BY <1>4, <3>2, <4>1
      <3>3. CASE ~Closed(g, K)
        <4> HIDE DEF K, L
        <4>1. PICK k \in K : \E x \in After(g, k) : x \notin K
          BY <3>3 DEF Closed
        <4>8. PICK x \in After(g, k) : x \notin K
          BY <4>1
        <4>2. K \cup {x} \subseteq L
          BY <3>1, <4>8 DEF Onward
        <4>3. Cardinality(K \cup {x}) = Cardinality(K) + 1
          BY <1>3, <3>1, <4>8, FS_AddElement
        <4>4. Cardinality(K \cup {x}) <= Cardinality(L)
          BY <1>3, <3>1, <4>2, FS_Subset
        <4>5. Cardinality(K) \in Nat /\ Cardinality(L) \in Nat
          BY <1>3, <3>1
        <4>6. Cardinality(K) >= n - 1
          BY <2>2, <3>3 DEF K
        <4>7. Cardinality(L) >= n
          BY <1>2, <1>4, <4>3, <4>4, <4>5, <4>6
        <4> QED
          BY <1>4, <4>7 DEF L
      <3> QED
        BY <3>2, <3>3
    <2>3. \A n \in 0 .. Rounds(g) : n \in B
      <3> HIDE DEF B
      <3> QED
        BY <1>2, <2>1, <2>2, Upward
    <2> DEFINE R == Reached(g, start)
    <2>4. R \in SUBSET KeysOf(g) /\ (Closed(g, R) \/ Cardinality(R) >= Rounds(g))
      BY <1>1, <1>2, <2>3
    <2>5. CASE Cardinality(R) >= Rounds(g)
      <3>1. Cardinality(R) = Cardinality(KeysOf(g))
        BY <1>2, <1>3, <2>4, <2>5, FS_Subset, FS_CardinalityType DEF Rounds
      <3>2. R = KeysOf(g)
        BY <1>2, <2>4, <3>1, FS_Subset
      <3> QED
        BY <3>2, Edges DEF Closed
    <2> QED
      BY <2>4, <2>5
  <1>7. ASSUME NEW K \in SUBSET KeysOf(g), start \subseteq K, Closed(g, K)
        PROVE  Reached(g, start) \subseteq K
    <2> DEFINE B == {n \in 0 .. Rounds(g) : f[n] \subseteq K}
    <2>1. 0 \in B
      BY <1>1, <1>2, <1>7
    <2>2. ASSUME NEW n \in 1 .. Rounds(g), n - 1 \in B PROVE n \in B
      <3>1. Onward(g, f[n - 1]) \subseteq K
        BY <1>7, <2>2 DEF Onward, Closed
      <3> QED
        BY <1>1, <1>4, <3>1
    <2>3. \A n \in 0 .. Rounds(g) : n \in B
      <3> HIDE DEF B
      <3> QED
        BY <1>2, <2>1, <2>2, Upward
    <2> QED
      BY <1>1, <1>2, <2>3
  <1>8. Reached(g, start) \in SUBSET KeysOf(g)
    BY <1>1, <1>2
  <1> QED
    BY <1>5, <1>6, <1>7, <1>8

\* Where there is no circle, every way ends.
LEMMA WaysEnd ==
  ASSUME NEW g, IsGraph(g), Acyclic(g), NEW K \in SUBSET KeysOf(g), K # {}
  PROVE  \E k \in K : After(g, k) \cap K = {}
  <1> DEFINE Kept(U) == U # {} /\ \A u \in U : After(g, u) \cap K \subseteq U
  <1>1. PICK T : T = {U \in SUBSET K : Kept(U)}
    OBVIOUS
  <1>2. Family(T, K)
    <2>1. Kept(K)
      OBVIOUS
    <2> QED
      BY <1>1, <2>1 DEF Family
  <1>3. IsFiniteSet(K)
    BY FS_Subset DEF IsGraph
  <1>4. PICK U : Minimal(U, T)
    BY <1>2, <1>3, Smallest
  <1>5. U \in SUBSET K /\ U # {} /\ \A u \in U : After(g, u) \cap K \subseteq U
    BY <1>1, <1>4 DEF Minimal
  <1>6. PICK u \in U : Before(g, u) \cap U = {}
    BY <1>5 DEF Acyclic
  <1>7. \A x \in U : u \notin After(g, x)
    BY <1>5, <1>6, Edges
  <1> DEFINE V == U \ {u}
  <1>8. \A x \in V : After(g, x) \cap K \subseteq V
    BY <1>5, <1>7
  <1>9. U = {u}
    <2>1. V \notin T
      BY <1>4, <1>6 DEF Minimal
    <2>2. V = {}
      BY <1>1, <1>5, <1>8, <2>1
    <2> QED
      BY <1>6, <2>2
  <1>10. After(g, u) \cap K = {}
    BY <1>5, <1>7, <1>9
  <1> QED
    BY <1>5, <1>10

-----------------------------------------------------------------------------
(* What graphProblem accepts (packages/workflow/src/graph.ts:10).          *)

\* graphProblem's rounds, its two lists of cards without an edge and its walk
\* from the sources accept exactly the graphs it is for: every edge is one
\* that may be drawn, and every card is on a way from a source to an output.
THEOREM GraphProblemExact ==
  ASSUME NEW g, IsGraph(g)
  PROVE  ~GraphProblem(g, TRUE) <=> (\A e \in g.edges : Placed(g, e)) /\ Conducts(g)
  <1> DEFINE S == Sources(g)
  <1>1. S \in SUBSET KeysOf(g) /\ Outputs(g) \in SUBSET KeysOf(g)
    BY DEF Sources, Outputs
  <1>2. /\ S \subseteq Fed(g) /\ Fed(g) \in SUBSET KeysOf(g) /\ Closed(g, Fed(g))
        /\ \A K \in SUBSET KeysOf(g) : S \subseteq K /\ Closed(g, K) => Fed(g) \subseteq K
    BY <1>1, ReachedClosed DEF Fed
  <1>3. ASSUME ~GraphProblem(g, TRUE) PROVE (\A e \in g.edges : Placed(g, e)) /\ Conducts(g)
    <2>1. /\ \A e \in g.edges : Placed(g, e)
          /\ Knotted(g) = {} /\ ~MissesInput(g) /\ ~EndsOpen(g)
      BY <1>3 DEF GraphProblem
    <2>2. Acyclic(g)
      BY <2>1, KnottedCircle
    <2>3. KeysOf(g) # {}
      BY <1>1, <2>1 DEF MissesInput
    <2>4. ASSUME NEW K \in SUBSET KeysOf(g), K # {}, \A k \in K : Before(g, k) \subseteq K
          PROVE  K \cap S # {}
      <3>1. PICK k \in K : Before(g, k) \cap K = {}
        BY <2>2, <2>4 DEF Acyclic
      <3>2. Before(g, k) = {}
        BY <2>4, <3>1
      <3> QED
        BY <2>1, <3>2 DEF MissesInput
    <2>5. ASSUME NEW K \in SUBSET KeysOf(g), K # {}, \A k \in K : After(g, k) \subseteq K
          PROVE  K \cap Outputs(g) # {}
      <3>1. PICK k \in K : After(g, k) \cap K = {}
        BY <2>2, <2>5, WaysEnd
      <3>2. After(g, k) = {}
        BY <2>5, <3>1
      <3> QED
        BY <2>1, <3>2 DEF EndsOpen
    <2> QED
      BY <2>1, <2>2, <2>3, <2>4, <2>5 DEF Conducts
  <1>4. ASSUME \A e \in g.edges : Placed(g, e), Conducts(g) PROVE ~GraphProblem(g, TRUE)
    <2>1. Knotted(g) = {}
      BY <1>4, CircleKnotted DEF Conducts
    <2>2. S # {}
      BY <1>4, Edges DEF Conducts
    <2>3. ASSUME NEW k \in KeysOf(g), Before(g, k) = {} PROVE k \in S
      <3>1. {k} \cap S # {}
        BY <1>4, <2>3 DEF Conducts
      <3> QED
        BY <3>1
    <2>4. ASSUME NEW k \in S PROVE Before(g, k) = {}
      <3>1. ASSUME NEW x \in Before(g, k) PROVE FALSE
        <4>1. <<x, k>> \in g.edges
          BY Edges
        <4>2. Directed(g, x, k)
          BY <1>4, <4>1 DEF Placed
        <4> QED
          BY <4>2 DEF Directed
      <3> QED
        BY <3>1
    <2>5. ~MissesInput(g)
      BY <1>1, <2>2, <2>3, <2>4 DEF MissesInput
    <2>6. ASSUME NEW k \in KeysOf(g), After(g, k) = {} PROVE k \in Outputs(g)
      <3>1. {k} \cap Outputs(g) # {}
        BY <1>4, <2>6 DEF Conducts
      <3> QED
        BY <3>1
    <2>7. Fed(g) = KeysOf(g)
      <3> DEFINE K == KeysOf(g) \ Fed(g)
      <3>1. ASSUME NEW k \in K PROVE Before(g, k) \subseteq K
        <4>1. ASSUME NEW x \in Before(g, k), x \in Fed(g) PROVE FALSE
          <5>1. k \in After(g, x)
            BY Edges
          <5> QED
            BY <1>2, <4>1, <5>1 DEF Closed
        <4> QED
          BY <4>1, Edges
      <3>2. K \cap S = {}
        BY <1>2
      <3>3. K = {}
        BY <1>4, <3>1, <3>2 DEF Conducts
      <3> QED
        BY <1>2, <3>3
    <2>8. ~EndsOpen(g)
      BY <2>6, <2>7 DEF EndsOpen
    <2> QED
      BY <1>4, <2>1, <2>5, <2>8 DEF GraphProblem
  <1> QED
    BY <1>3, <1>4

-----------------------------------------------------------------------------
(* What an edit makes of a graph.                                           *)

Parts(K, C, E) ==
  IsFiniteSet(K) /\ K \subseteq Nat /\ C \in [K -> Card] /\ E \in SUBSET (K \X K)

LEMMA Making ==
  ASSUME NEW K, NEW C, NEW E, Parts(K, C, E), NEW h, h = [cards |-> C, edges |-> E]
  PROVE  IsGraph(h) /\ KeysOf(h) = K /\ h.cards = C /\ h.edges = E
  BY DEF IsGraph, KeysOf, Parts

LEMMA Made ==
  ASSUME NEW g, IsGraph(g)
  PROVE  /\ g = [cards |-> g.cards, edges |-> g.edges]
         /\ IsFiniteSet(KeysOf(g)) /\ KeysOf(g) \subseteq Nat
         /\ g.cards \in [KeysOf(g) -> Card] /\ DOMAIN g.cards = KeysOf(g)
         /\ g.edges \in SUBSET (KeysOf(g) \X KeysOf(g))
  BY DEF IsGraph, KeysOf

LEMMA Emptiness ==
  /\ IsGraph(EmptyGraph) /\ KeysOf(EmptyGraph) = {} /\ EmptyGraph.edges = {}
  /\ Acyclic(EmptyGraph) /\ Bundles(EmptyGraph) = {}
  <1> DEFINE C == [k \in {} |-> [kind |-> "ai", set |-> TRUE]]
  <1>1. EmptyGraph = [cards |-> C, edges |-> {}]
    BY DEF EmptyGraph
  <1>2. Parts({}, C, {})
    BY FS_EmptySet DEF Parts
  <1>3. IsGraph(EmptyGraph) /\ KeysOf(EmptyGraph) = {} /\ EmptyGraph.edges = {}
    <2> HIDE DEF C
    <2> QED
      BY <1>1, <1>2, Making
  <1> QED
    BY <1>3 DEF Acyclic, Bundles

LEMMA PutMakes ==
  ASSUME NEW g, IsGraph(g), NEW k \in Nat, NEW card \in Card
  PROVE  LET h == Put(g, k, card) IN
         /\ IsGraph(h) /\ KeysOf(h) = KeysOf(g) \cup {k} /\ h.edges = g.edges
         /\ \A x \in KeysOf(h) : h.cards[x] = IF x = k THEN card ELSE g.cards[x]
  <1> DEFINE K == KeysOf(g) \cup {k}
             C == [x \in K |-> IF x = k THEN card ELSE g.cards[x]]
             h == Put(g, k, card)
  <1>1. IsFiniteSet(K) /\ K \subseteq Nat /\ g.edges \in SUBSET (K \X K)
    BY Made, FS_AddElement
  <1>2. C \in [K -> Card] /\ \A x \in K : C[x] = IF x = k THEN card ELSE g.cards[x]
    BY Made
  <1>3. h = [cards |-> C, edges |-> g.edges]
    BY Made DEF Put
  <1>4. Parts(K, C, g.edges)
    BY <1>1, <1>2 DEF Parts
  <1>5. IsGraph(h) /\ KeysOf(h) = K /\ h.cards = C /\ h.edges = g.edges
    <2> HIDE DEF K, C, h
    <2> QED
      BY <1>3, <1>4, Making
  <1> QED
    BY <1>2, <1>5

LEMMA CardsMake ==
  ASSUME NEW g, IsGraph(g), NEW C, Parts(KeysOf(g), C, g.edges)
  PROVE  LET h == [g EXCEPT !.cards = C]
         IN IsGraph(h) /\ KeysOf(h) = KeysOf(g) /\ h.cards = C /\ h.edges = g.edges
  <1>1. [g EXCEPT !.cards = C] = [cards |-> C, edges |-> g.edges]
    BY Made
  <1> QED
    BY <1>1, Making

LEMMA EdgesMake ==
  ASSUME NEW g, IsGraph(g), NEW E, Parts(KeysOf(g), g.cards, E)
  PROVE  LET h == [g EXCEPT !.edges = E]
         IN IsGraph(h) /\ KeysOf(h) = KeysOf(g) /\ h.cards = g.cards /\ h.edges = E
  <1>1. [g EXCEPT !.edges = E] = [cards |-> g.cards, edges |-> E]
    BY Made
  <1> QED
    BY <1>1, Making

\* Fewer edges make no circle.
LEMMA Thinner ==
  ASSUME NEW g, IsGraph(g), Acyclic(g), NEW h, h.edges \subseteq g.edges
  PROVE  Acyclic(h)
  <1> SUFFICES ASSUME NEW K \in SUBSET KeysOf(h), K # {}
               PROVE  \E k \in K : Before(h, k) \cap K = {}
    BY DEF Acyclic
  <1>1. \A k : Before(h, k) \subseteq Before(g, k)
    BY DEF Before
  <1>2. CASE K \cap KeysOf(g) = {}
    BY <1>1, <1>2, Edges
  <1>3. CASE K \cap KeysOf(g) # {}
    <2>1. PICK k \in K \cap KeysOf(g) : Before(g, k) \cap (K \cap KeysOf(g)) = {}
      BY <1>3 DEF Acyclic
    <2>2. Before(h, k) \cap K = {}
      BY <1>1, <2>1, Edges
    <2> QED
      BY <2>2
  <1> QED
    BY <1>2, <1>3

\* An edge whose target does not lead back to its source makes no circle.
LEMMA NoCircleDrawn ==
  ASSUME NEW g, IsGraph(g), Acyclic(g), NEW from \in KeysOf(g), NEW to \in KeysOf(g),
         ~Closes(g, from, to),
         NEW h, IsGraph(h), KeysOf(h) = KeysOf(g), h.edges = g.edges \cup {<<from, to>>}
  PROVE  Acyclic(h)
  <1> DEFINE R == Reached(g, {to})
  <1>1. to \in R /\ from \notin R /\ Closed(g, R)
    BY ReachedClosed DEF Closes
  <1>7. \A x, k : x \in Before(h, k) <=> x \in Before(g, k) \/ (x = from /\ k = to)
    BY Edges
  <1>2. \A k : k # to => Before(h, k) = Before(g, k)
    BY <1>7
  <1>3. \A k : Before(h, k) \subseteq Before(g, k) \cup {from}
    BY <1>7
  <1> SUFFICES ASSUME NEW K \in SUBSET KeysOf(g), K # {}
               PROVE  \E k \in K : Before(h, k) \cap K = {}
    BY DEF Acyclic
  <1>4. PICK k \in K : Before(g, k) \cap K = {}
    BY DEF Acyclic
  <1>5. CASE k # to \/ from \notin K
    BY <1>2, <1>3, <1>4, <1>5
  <1>6. CASE from \in K
    <2>1. PICK l \in K \ R : Before(g, l) \cap (K \ R) = {}
      BY <1>1, <1>6 DEF Acyclic
    <2>2. Before(g, l) \cap R = {}
      BY <1>1, <2>1, Edges DEF Closed
    <2>3. Before(h, l) \cap K = {}
      BY <1>1, <1>2, <2>1, <2>2
    <2> QED
      BY <2>1, <2>3
  <1> QED
    BY <1>5, <1>6

-----------------------------------------------------------------------------
(* Keys.                                                                    *)

LEMMA GraphsInPlay ==
  ASSUME TypeOK
  PROVE  (\A g \in InPlay : IsGraph(g)) /\ (\A r \in Lifted : IsRemoved(r))
  <1>1. \A g \in Goals : IsGraph(g)
    BY BuilderConstants
  <1>2. \A b \in Browsers : IsGraph(tab[b].canvas) /\ (tab[b].removed = NoCard \/ IsRemoved(tab[b].removed))
    BY DEF TypeOK, IsTab
  <1>3. \A c \in Calls : IsGraph(call[c].graph)
    BY DEF TypeOK, IsCall
  <1>4. \A w \in Flows : \A n \in 1 .. Current(w) : IsGraph(flow[w].versions[n])
    BY DEF TypeOK, IsFlow, Current
  <1> QED
    BY <1>1, <1>2, <1>3, <1>4 DEF InPlay, Lifted

LEMMA LengthsAreNumbers ==
  ASSUME TypeOK, NEW w \in Flows
  PROVE  Current(w) \in Nat
  BY DEF TypeOK, IsFlow, Current

LEMMA InPlayFinite ==
  ASSUME TypeOK
  PROVE  IsFiniteSet(InPlay) /\ IsFiniteSet(Lifted)
  <1> DEFINE fc == [b \in Browsers |-> tab[b].canvas]
             fg == [c \in Calls |-> call[c].graph]
             fr == [b \in Browsers |-> tab[b].removed]
             fv == [w \in Flows |-> {flow[w].versions[n] : n \in 1 .. Current(w)}]
  <1>1. IsFiniteSet({tab[b].canvas : b \in Browsers})
    <2>1. IsFiniteSet({fc[x] : x \in DOMAIN fc})
      BY BuilderConstants, ImageFinite
    <2>2. {fc[x] : x \in DOMAIN fc} = {tab[b].canvas : b \in Browsers}
      OBVIOUS
    <2> QED
      BY <2>1, <2>2
  <1>2. IsFiniteSet({call[c].graph : c \in Calls})
    <2>1. IsFiniteSet({fg[x] : x \in DOMAIN fg})
      BY WorkflowConstants, ImageFinite
    <2>2. {fg[x] : x \in DOMAIN fg} = {call[c].graph : c \in Calls}
      OBVIOUS
    <2> QED
      BY <2>1, <2>2
  <1>3. IsFiniteSet({tab[b].removed : b \in Browsers})
    <2>1. IsFiniteSet({fr[x] : x \in DOMAIN fr})
      BY BuilderConstants, ImageFinite
    <2>2. {fr[x] : x \in DOMAIN fr} = {tab[b].removed : b \in Browsers}
      OBVIOUS
    <2> QED
      BY <2>1, <2>2
  <1>4. ASSUME NEW w \in Flows PROVE IsFiniteSet({flow[w].versions[n] : n \in 1 .. Current(w)})
    <2> DEFINE f == [n \in 1 .. Current(w) |-> flow[w].versions[n]]
    <2>1. IsFiniteSet(1 .. Current(w))
      BY LengthsAreNumbers, FS_Interval
    <2>2. IsFiniteSet({f[x] : x \in DOMAIN f})
      BY <2>1, ImageFinite
    <2>3. {f[x] : x \in DOMAIN f} = {flow[w].versions[n] : n \in 1 .. Current(w)}
      OBVIOUS
    <2> QED
      BY <2>2, <2>3
  <1> DEFINE V == {{flow[w].versions[n] : n \in 1 .. Current(w)} : w \in Flows}
  <1>5. IsFiniteSet(V)
    <2>1. IsFiniteSet({fv[x] : x \in DOMAIN fv})
      BY WorkflowConstants, ImageFinite
    <2>2. {fv[x] : x \in DOMAIN fv} = V
      OBVIOUS
    <2> QED
      BY <2>1, <2>2
  <1>6. \A T \in V : IsFiniteSet(T)
    BY <1>4
  <1>7. IsFiniteSet(UNION V)
    <2> HIDE DEF V
    <2> QED
      BY <1>5, <1>6, FS_UNION
  <1>8. IsFiniteSet(InPlay)
    BY <1>1, <1>2, <1>7, BuilderConstants, FS_Union DEF InPlay
  <1>9. Lifted \in SUBSET {tab[b].removed : b \in Browsers}
    BY DEF Lifted
  <1> QED
    BY <1>3, <1>8, <1>9, FS_Subset

LEMMA Fresh ==
  ASSUME TypeOK
  PROVE  /\ freshKey \in Nat
         /\ \A k \in InUse : k \in Nat /\ k < freshKey
  <1> DEFINE fk == [g \in InPlay |-> KeysOf(g)]
             Held(r) == {r.key} \cup UNION {{e[1], e[2]} : e \in r.edges}
             fh == [r \in Lifted |-> Held(r)]
             K == {KeysOf(g) : g \in InPlay}
             H == {Held(r) : r \in Lifted}
  <1>1. IsFiniteSet(K) /\ \A T \in K : IsFiniteSet(T) /\ T \subseteq Nat
    <2>1. IsFiniteSet({fk[x] : x \in DOMAIN fk})
      BY InPlayFinite, ImageFinite
    <2>2. {fk[x] : x \in DOMAIN fk} = K
      OBVIOUS
    <2>3. \A g \in InPlay : IsFiniteSet(KeysOf(g)) /\ KeysOf(g) \subseteq Nat
      BY GraphsInPlay DEF IsGraph
    <2> QED
      BY <2>1, <2>2, <2>3
  <1>2. ASSUME NEW r \in Lifted PROVE IsFiniteSet(Held(r)) /\ Held(r) \subseteq Nat
    <2> DEFINE E == r.edges
               fe == [e \in E |-> {e[1], e[2]}]
               P == {{e[1], e[2]} : e \in E}
    <2>1. IsFiniteSet(E) /\ E \in SUBSET (Nat \X Nat) /\ r.key \in Nat
      BY GraphsInPlay DEF IsRemoved
    <2>2. IsFiniteSet(P)
      <3>1. IsFiniteSet({fe[x] : x \in DOMAIN fe})
        BY <2>1, ImageFinite
      <3>2. {fe[x] : x \in DOMAIN fe} = P
        OBVIOUS
      <3> QED
        BY <3>1, <3>2
    <2>3. \A T \in P : IsFiniteSet(T) /\ T \subseteq Nat
      <3>1. \A x, y : IsFiniteSet({x, y})
        <4>1. \A x, y : IsFiniteSet({x} \cup {y})
          BY FS_Singleton, FS_AddElement
        <4>2. \A x, y : {x, y} = {x} \cup {y}
          OBVIOUS
        <4> QED
          BY <4>1, <4>2
      <3>2. \A e \in E : e[1] \in Nat /\ e[2] \in Nat
        BY <2>1
      <3> QED
        BY <3>1, <3>2
    <2>4. IsFiniteSet(UNION P) /\ (UNION P) \subseteq Nat
      <3> HIDE DEF P
      <3> QED
        BY <2>2, <2>3, FS_UNION
    <2>5. IsFiniteSet((UNION P) \cup {r.key})
      BY <2>4, FS_AddElement
    <2>6. Held(r) = (UNION P) \cup {r.key}
      OBVIOUS
    <2> QED
      BY <2>1, <2>4, <2>5, <2>6
  <1>3. IsFiniteSet(H) /\ \A T \in H : IsFiniteSet(T) /\ T \subseteq Nat
    <2>1. IsFiniteSet({fh[x] : x \in DOMAIN fh})
      BY InPlayFinite, ImageFinite
    <2>2. {fh[x] : x \in DOMAIN fh} = H
      OBVIOUS
    <2> QED
      BY <1>2, <2>1, <2>2
  <1>4. IsFiniteSet(UNION K) /\ (UNION K) \subseteq Nat
    <2> HIDE DEF K
    <2> QED
      BY <1>1, FS_UNION
  <1>5. IsFiniteSet(UNION H) /\ (UNION H) \subseteq Nat
    <2> HIDE DEF H
    <2> QED
      BY <1>3, FS_UNION
  <1>6. InUse = (UNION K) \cup UNION H
    BY DEF InUse
  <1> DEFINE S == InUse \cup {0}
  <1>7. IsFiniteSet(S) /\ S \subseteq Nat /\ S # {}
    <2> HIDE DEF K, H
    <2>1. IsFiniteSet(InUse)
      BY <1>4, <1>5, <1>6, FS_Union
    <2>2. IsFiniteSet(S)
      BY <2>1, FS_AddElement
    <2>3. InUse \subseteq Nat
      BY <1>4, <1>5, <1>6
    <2> QED
      BY <2>2, <2>3
  <1>8. Max(S) \in S /\ \A x \in S : x <= Max(S)
    <2> HIDE DEF S
    <2> QED
      BY <1>7, Greatest
  <1> QED
    BY <1>7, <1>8 DEF freshKey

-----------------------------------------------------------------------------
(* What the editor makes of a stored graph, a suggestion and a lifted card. *)

LEMMA ClassIs ==
  ASSUME NEW g, IsGraph(g), NEW k \in KeysOf(g)
  PROVE  /\ k \in Sources(g) <=> Class(g.cards[k]) = "source"
         /\ k \in Outputs(g) <=> Class(g.cards[k]) = "output"
         /\ Class(g.cards[k]) \in Classes
         /\ g.cards[k] \in Card /\ KindOf(g, k) \in Kinds
  <1>1. g.cards[k] \in Card
    BY Made
  <1>2. g.cards[k].kind \in Kinds
    BY <1>1 DEF Card
  <1> QED
    BY <1>1, <1>2 DEF Sources, Outputs, Class, KindOf, Classes, SourceKinds, OutputKinds

Feed == [kind |-> "feed", set |-> TRUE]

LEMMA SplitMakes ==
  ASSUME NEW g, IsGraph(g), NEW k \in KeysOf(g), NEW key \in Nat
  PROVE  LET h == Split(g, k, key) IN
         /\ IsGraph(h) /\ KeysOf(h) = KeysOf(g) \cup {key}
         /\ \A x \in KeysOf(h) : h.cards[x] = IF x \in {k, key} THEN Feed ELSE g.cards[x]
         /\ h.edges = g.edges \cup {<<key, to>> : to \in After(g, k)}
  <1> DEFINE one == Put(g, k, Feed)
             two == Put(one, key, Feed)
             new == {<<key, to>> : to \in After(g, k)}
             all == two.edges \cup new
             h == Split(g, k, key)
  <1>1. Feed \in Card
    BY DEF Feed, Card, Kinds, SourceKinds
  <1>2. k \in Nat
    BY Made
  <1>3. /\ IsGraph(one) /\ KeysOf(one) = KeysOf(g) \cup {k} /\ one.edges = g.edges
        /\ \A x \in KeysOf(one) : one.cards[x] = IF x = k THEN Feed ELSE g.cards[x]
    BY <1>1, <1>2, PutMakes
  <1> HIDE DEF one
  <1>4. /\ IsGraph(two) /\ KeysOf(two) = KeysOf(one) \cup {key} /\ two.edges = one.edges
        /\ \A x \in KeysOf(two) : two.cards[x] = IF x = key THEN Feed ELSE one.cards[x]
    BY <1>1, <1>3, PutMakes
  <1> HIDE DEF two
  <1>5. h = [two EXCEPT !.edges = all]
    BY DEF Split, one, two, Feed
  <1>6. Parts(KeysOf(two), two.cards, all)
    <2>1. two.edges \in SUBSET (KeysOf(two) \X KeysOf(two))
      BY <1>4, Made
    <2>2. \A to \in After(g, k) : to \in KeysOf(two)
      BY <1>3, <1>4, Edges
    <2>3. key \in KeysOf(two)
      BY <1>4
    <2>4. all \in SUBSET (KeysOf(two) \X KeysOf(two))
      BY <2>1, <2>2, <2>3
    <2> QED
      BY <1>4, <2>4, Made DEF Parts
  <1>7. IsGraph(h) /\ KeysOf(h) = KeysOf(two) /\ h.cards = two.cards /\ h.edges = all
    <2> HIDE DEF all, h
    <2> QED
      BY <1>4, <1>5, <1>6, EdgesMake
  <1>8. KeysOf(h) = KeysOf(g) \cup {key} /\ h.edges = g.edges \cup new
    BY <1>3, <1>4, <1>7
  <1>9. \A x \in KeysOf(h) : h.cards[x] = IF x \in {k, key} THEN Feed ELSE g.cards[x]
    BY <1>3, <1>4, <1>7
  <1> QED
    BY <1>7, <1>8, <1>9

LEMMA MigrateGraph ==
  ASSUME NEW g, IsGraph(g), NEW key \in Nat
  PROVE  IsGraph(migrate(g, key))
  <1>1. CASE Bundles(g) = {}
    BY <1>1 DEF migrate
  <1>2. CASE Bundles(g) # {}
    <2> DEFINE k == CHOOSE x \in Bundles(g) : TRUE
    <2>1. k \in KeysOf(g)
      BY <1>2 DEF Bundles
    <2> QED
      BY <1>2, <2>1, SplitMakes DEF migrate
  <1> QED
    BY <1>1, <1>2

LEMMA MigrateMakes ==
  ASSUME NEW g, IsGraph(g), Acyclic(g), \A k, l \in Bundles(g) : k = l,
         NEW key \in Nat, key \notin KeysOf(g)
  PROVE  LET h == migrate(g, key) IN
         /\ IsGraph(h) /\ Acyclic(h) /\ Bundles(h) = {}
         /\ KeysOf(h) \subseteq KeysOf(g) \cup {key}
         /\ \A x \in KeysOf(h) : Class(h.cards[x]) = IF x = key THEN "source" ELSE Class(g.cards[x])
         /\ \A e \in h.edges : e \in g.edges \/ (e[1] = key /\ \E k \in KeysOf(g) : <<k, e[2]>> \in g.edges)
  <1> DEFINE h == migrate(g, key)
  <1>1. CASE Bundles(g) = {}
    BY <1>1 DEF migrate
  <1>2. CASE Bundles(g) # {}
    <2>1. PICK k \in Bundles(g) : h = Split(g, k, key)
      BY <1>2 DEF migrate
    <2>2. k \in KeysOf(g) /\ g.cards[k].kind = "bundle"
      BY DEF Bundles, KindOf
    <2>3. /\ IsGraph(h) /\ KeysOf(h) = KeysOf(g) \cup {key}
          /\ \A x \in KeysOf(h) : h.cards[x] = IF x \in {k, key} THEN Feed ELSE g.cards[x]
          /\ h.edges = g.edges \cup {<<key, to>> : to \in After(g, k)}
      BY <2>1, <2>2, SplitMakes
    <2> HIDE DEF h
    <2>4. Bundles(h) = {}
      <3> SUFFICES ASSUME NEW x \in KeysOf(h), h.cards[x].kind = "bundle" PROVE FALSE
        BY DEF Bundles, KindOf
      <3>1. x \notin {k, key}
        BY <2>3 DEF Feed
      <3>2. x \in Bundles(g)
        BY <2>3, <3>1 DEF Bundles, KindOf
      <3> QED
        BY <3>1, <3>2
    <2>5. \A x \in KeysOf(h) : Class(h.cards[x]) = IF x = key THEN "source" ELSE Class(g.cards[x])
      BY <2>2, <2>3 DEF Class, Feed, SourceKinds
    <2>6. \A e \in h.edges : e \in g.edges \/ (e[1] = key /\ \E x \in KeysOf(g) : <<x, e[2]>> \in g.edges)
      BY <2>2, <2>3, Edges
    <2>7. Acyclic(h)
      <3>5. \A x, y : <<x, y>> \in h.edges => <<x, y>> \in g.edges \/ (x = key /\ y \in After(g, k))
        BY <2>3
      <3>1. \A x, y : x \in Before(h, y) => x \in Before(g, y) \/ x = key
        BY <2>3, <3>5, Edges
      <3>6. \A x, y : x \in Before(h, y) => y \in KeysOf(g)
        <4>1. \A x, y : <<x, y>> \in g.edges => <<x, y>>[2] \in KeysOf(g)
          BY Edges
        <4>2. \A y : y \in After(g, k) => y \in KeysOf(g)
          BY Edges
        <4>3. \A x, y : x \in Before(h, y) => <<x, y>> \in h.edges
          BY <2>3, Edges
        <4> QED
          BY <3>5, <4>1, <4>2, <4>3
      <3>2. \A x : x \notin Before(h, key)
        BY <3>6
      <3> SUFFICES ASSUME NEW K \in SUBSET KeysOf(h), K # {}
                   PROVE  \E x \in K : Before(h, x) \cap K = {}
        BY DEF Acyclic
      <3>3. CASE key \in K
        BY <3>2, <3>3
      <3>4. CASE key \notin K
        <4>1. PICK x \in K : Before(g, x) \cap K = {}
          BY <2>3, <3>4 DEF Acyclic
        <4> QED
          BY <3>1, <3>4, <4>1
      <3> QED
        BY <3>3, <3>4
    <2> QED
      BY <2>3, <2>4, <2>5, <2>6, <2>7 DEF h
  <1> QED
    BY <1>1, <1>2

LEMMA PutBackMakes ==
  ASSUME NEW g, IsGraph(g), NEW out, IsRemoved(out)
  PROVE  LET h == PutBack(g, out) IN
         /\ IsGraph(h) /\ KeysOf(h) = KeysOf(g) \cup {out.key}
         /\ \A x \in KeysOf(h) : h.cards[x] = IF x \in KeysOf(g) THEN g.cards[x] ELSE out.card
         /\ h.edges = g.edges \cup {e \in out.edges : {e[1], e[2]} \subseteq KeysOf(h)}
  <1> DEFINE whole == IF out.key \in KeysOf(g) THEN g ELSE Put(g, out.key, out.card)
             back == {e \in out.edges : {e[1], e[2]} \subseteq KeysOf(whole)}
             all == whole.edges \cup back
             h == PutBack(g, out)
  <1>1. out.key \in Nat /\ out.card \in Card /\ out.edges \in SUBSET (Nat \X Nat)
    BY DEF IsRemoved
  <1>2. /\ IsGraph(whole) /\ KeysOf(whole) = KeysOf(g) \cup {out.key} /\ whole.edges = g.edges
        /\ \A x \in KeysOf(whole) : whole.cards[x] = IF x \in KeysOf(g) THEN g.cards[x] ELSE out.card
    <2>1. CASE out.key \in KeysOf(g)
      BY <2>1
    <2>2. CASE out.key \notin KeysOf(g)
      BY <1>1, <2>2, PutMakes
    <2> QED
      BY <2>1, <2>2
  <1>3. h = [whole EXCEPT !.edges = all]
    BY DEF PutBack
  <1> HIDE DEF whole, h
  <1>4. Parts(KeysOf(whole), whole.cards, all)
    <2>1. whole.edges \in SUBSET (KeysOf(whole) \X KeysOf(whole))
      BY <1>2, Made
    <2>2. back \in SUBSET (KeysOf(whole) \X KeysOf(whole))
      BY <1>1
    <2>3. all \in SUBSET (KeysOf(whole) \X KeysOf(whole))
      BY <2>1, <2>2
    <2> QED
      BY <1>2, <2>3, Made DEF Parts
  <1>5. IsGraph(h) /\ KeysOf(h) = KeysOf(whole) /\ h.cards = whole.cards /\ h.edges = all
    <2> HIDE DEF all
    <2> QED
      BY <1>2, <1>3, <1>4, EdgesMake
  <1>6. h.edges = g.edges \cup {e \in out.edges : {e[1], e[2]} \subseteq KeysOf(h)}
    BY <1>2, <1>5
  <1>7. KeysOf(h) = KeysOf(g) \cup {out.key}
    BY <1>2, <1>5
  <1>8. \A x \in KeysOf(h) : h.cards[x] = IF x \in KeysOf(g) THEN g.cards[x] ELSE out.card
    BY <1>2, <1>5
  <1> QED
    BY <1>5, <1>6, <1>7, <1>8 DEF h

Removal(g, k) ==
  [cards |-> [x \in KeysOf(g) \ {k} |-> g.cards[x]],
   edges |-> g.edges \ {e \in g.edges : k \in {e[1], e[2]}}]

LEMMA RemovalMakes ==
  ASSUME NEW g, IsGraph(g), NEW k \in KeysOf(g)
  PROVE  LET h == Removal(g, k)
             out == [key |-> k, card |-> g.cards[k], edges |-> {e \in g.edges : k \in {e[1], e[2]}}] IN
         /\ IsGraph(h) /\ KeysOf(h) = KeysOf(g) \ {k} /\ h.edges \subseteq g.edges
         /\ \A x \in KeysOf(h) : h.cards[x] = g.cards[x]
         /\ IsRemoved(out)
  <1> DEFINE K == KeysOf(g) \ {k}
             C == [x \in K |-> g.cards[x]]
             T == {e \in g.edges : k \in {e[1], e[2]}}
             E == g.edges \ T
             h == Removal(g, k)
             out == [key |-> k, card |-> g.cards[k], edges |-> T]
  <1>1. h = [cards |-> C, edges |-> E]
    BY DEF Removal
  <1>2. IsFiniteSet(K) /\ K \subseteq Nat /\ C \in [K -> Card]
    BY Made, FS_RemoveElement
  <1>3. E \in SUBSET (K \X K)
    <2>1. \A e \in E : e = <<e[1], e[2]>> /\ e[1] \in K /\ e[2] \in K
      BY Edges
    <2> HIDE DEF E, K
    <2> QED
      BY <2>1
  <1>4. Parts(K, C, E)
    <2> HIDE DEF K, C, E
    <2> QED
      BY <1>2, <1>3 DEF Parts
  <1>5. IsGraph(h) /\ KeysOf(h) = K /\ h.cards = C /\ h.edges = E
    <2> HIDE DEF K, C, E, h
    <2> QED
      BY <1>1, <1>4, Making
  <1>6. IsRemoved(out)
    <2>1. k \in Nat /\ g.cards[k] \in Card
      BY Made
    <2>2. IsFiniteSet(T)
      <3>1. IsFiniteSet(KeysOf(g) \X KeysOf(g)) /\ T \in SUBSET (KeysOf(g) \X KeysOf(g))
        BY Made, FS_Product
      <3> HIDE DEF T
      <3> QED
        BY <3>1, FS_Subset
    <2>3. T \in SUBSET (Nat \X Nat)
      BY Made
    <2> HIDE DEF T
    <2> QED
      BY <2>1, <2>2, <2>3 DEF IsRemoved
  <1> QED
    BY <1>5, <1>6

LEMMA SuggestedMakes ==
  ASSUME TypeOK, NEW g, IsGraph(g), Acyclic(g), Bundles(g) = {},
         \A e \in g.edges : Directed(g, e[1], e[2])
  PROVE  LET h == Suggested(g) IN
         /\ IsGraph(h) /\ Acyclic(h) /\ Bundles(h) = {}
         /\ KeysOf(h) \cap InUse = {}
         /\ \A e \in h.edges : Directed(h, e[1], e[2])
  <1> DEFINE n == freshKey
             K == {x + n : x \in KeysOf(g)}
             C == [k \in K |-> [kind |-> KindOf(g, k - n), set |-> KindOf(g, k - n) \notin {"feed", "publish"}]]
             E == {<<e[1] + n, e[2] + n>> : e \in g.edges}
             h == Suggested(g)
  <1>1. n \in Nat /\ \A k \in InUse : k < n
    BY Fresh
  <1>2. h = [cards |-> C, edges |-> E]
    BY DEF Suggested
  <1>3. KeysOf(g) \subseteq Nat /\ IsFiniteSet(KeysOf(g))
    BY Made
  <1> HIDE DEF n, h
  <1>4. \A x \in KeysOf(g) : x \in Nat /\ x + n \in Nat /\ (x + n) - n = x /\ x + n \in K
    BY <1>1, <1>3
  <1>5. IsFiniteSet(K)
    <2> DEFINE f == [x \in KeysOf(g) |-> x + n]
    <2>1. IsFiniteSet({f[x] : x \in DOMAIN f})
      BY <1>3, ImageFinite
    <2>2. {f[x] : x \in DOMAIN f} = K
      OBVIOUS
    <2> QED
      BY <2>1, <2>2
  <1>6. \A k \in K : k - n \in KeysOf(g) /\ k = (k - n) + n /\ k \in Nat
    BY <1>4
  <1>7. \A x \in KeysOf(g) : KindOf(g, x) \in Kinds
    BY ClassIs
  <1>8. C \in [K -> Card]
    <2> SUFFICES ASSUME NEW k \in K
                 PROVE  [kind |-> KindOf(g, k - n), set |-> KindOf(g, k - n) \notin {"feed", "publish"}] \in Card
      OBVIOUS
    <2>1. KindOf(g, k - n) \in Kinds
      BY <1>6, <1>7
    <2> QED
      BY <2>1 DEF Card
  <1>9. \A e \in g.edges : e = <<e[1], e[2]>> /\ e[1] \in KeysOf(g) /\ e[2] \in KeysOf(g)
    BY Edges
  <1>10. E \in SUBSET (K \X K)
    BY <1>4, <1>9
  <1>11. Parts(K, C, E)
    <2> HIDE DEF K, C, E
    <2>1. K \subseteq Nat
      BY <1>6
    <2> QED
      BY <1>5, <1>8, <1>10, <2>1 DEF Parts
  <1>12. IsGraph(h) /\ KeysOf(h) = K /\ h.cards = C /\ h.edges = E
    <2> HIDE DEF K, C, E
    <2> QED
      BY <1>2, <1>11, Making
  <1>13. \A k \in K : h.cards[k].kind = KindOf(g, k - n)
    BY <1>12
  <1>14. \A e \in h.edges : /\ e[1] \in K /\ e[2] \in K /\ e = <<e[1], e[2]>>
                            /\ <<e[1] - n, e[2] - n>> \in g.edges
    <2> SUFFICES ASSUME NEW e \in E
                 PROVE  /\ e[1] \in K /\ e[2] \in K /\ e = <<e[1], e[2]>>
                        /\ <<e[1] - n, e[2] - n>> \in g.edges
      BY <1>12
    <2>1. PICK d \in g.edges : e = <<d[1] + n, d[2] + n>>
      OBVIOUS
    <2>2. e[1] = d[1] + n /\ e[2] = d[2] + n
      BY <2>1
    <2>3. d = <<d[1], d[2]>> /\ d[1] \in KeysOf(g) /\ d[2] \in KeysOf(g)
      BY <1>9
    <2>4. e[1] - n = d[1] /\ e[2] - n = d[2] /\ e[1] \in K /\ e[2] \in K
      BY <1>4, <2>2, <2>3
    <2> HIDE DEF K
    <2> QED
      BY <2>1, <2>2, <2>3, <2>4
  <1> HIDE DEF E, C
  <1>15. Bundles(h) = {}
    <2>1. \A x \in KeysOf(g) : KindOf(g, x) # "bundle"
      BY DEF Bundles
    <2> QED
      BY <1>6, <1>12, <1>13, <2>1 DEF Bundles, KindOf
  <1>16. KeysOf(h) \cap InUse = {}
    <2>1. \A x \in Nat : ~(x + n < n)
      BY <1>1
    <2> QED
      BY <1>1, <1>4, <1>12, <2>1
  <1>17. Acyclic(h)
    <2> SUFFICES ASSUME NEW L \in SUBSET K, L # {}
                 PROVE  \E k \in L : Before(h, k) \cap L = {}
      BY <1>12 DEF Acyclic
    <2> DEFINE M == {x \in KeysOf(g) : x + n \in L}
    <2>1. M # {}
      BY <1>6
    <2>2. PICK x \in M : Before(g, x) \cap M = {}
      BY <2>1 DEF Acyclic
    <2>3. ASSUME NEW y \in Before(h, x + n), y \in L PROVE FALSE
      <3>1. <<y, x + n>> \in h.edges
        BY <1>12, Edges
      <3>2. <<y - n, (x + n) - n>> \in g.edges
        BY <1>14, <3>1
      <3>3. <<y - n, x>> \in g.edges
        BY <1>4, <3>2
      <3>4. y - n \in M
        BY <1>6, <2>3
      <3> QED
        BY <2>2, <3>3, <3>4, Edges
    <2> QED
      BY <2>3
  <1>18. ASSUME NEW e \in h.edges PROVE Directed(h, e[1], e[2])
    <2> DEFINE x == e[1] - n
               y == e[2] - n
    <2>1. <<x, y>> \in g.edges /\ e[1] \in K /\ e[2] \in K
      BY <1>14
    <2>2. Directed(g, x, y)
      <3>1. <<x, y>>[1] = x /\ <<x, y>>[2] = y
        OBVIOUS
      <3> HIDE DEF x, y
      <3> QED
        BY <2>1, <3>1
    <2>3. x \in KeysOf(g) /\ y \in KeysOf(g) /\ KindOf(h, e[1]) = KindOf(g, x) /\ KindOf(h, e[2]) = KindOf(g, y)
      BY <1>6, <1>13, <2>1 DEF KindOf
    <2> QED
      BY <2>2, <2>3 DEF Directed, Sources, Outputs
  <1> QED
    BY <1>12, <1>15, <1>16, <1>17, <1>18 DEF h

-----------------------------------------------------------------------------
(* Types.                                                                   *)

FlowsOK == flow = [w \in Flows |-> flow[w]] /\ \A w \in Flows : IsFlow(flow[w])
CallsOK == call = [c \in Calls |-> call[c]] /\ \A c \in Calls : IsCall(call[c])
TabsOK == tab = [b \in Browsers |-> tab[b]] /\ \A b \in Browsers : IsTab(tab[b])

LEMMA TypeParts == TypeOK <=> FlowsOK /\ CallsOK /\ TabsOK /\ saves \in Nat /\ moves \in Nat /\ lost \in Nat
  BY DEF TypeOK, FlowsOK, CallsOK, TabsOK

LEMMA TypePartsNext ==
  TypeOK' <=> FlowsOK' /\ CallsOK' /\ TabsOK' /\ saves' \in Nat /\ moves' \in Nat /\ lost' \in Nat
  BY DEF TypeOK, FlowsOK, CallsOK, TabsOK

LEMMA NothingTyped ==
  /\ IsTab(Blank) /\ IsCall(NoCall) /\ IsFlow(NoFlow) /\ IsFlow(Without("deleted"))
  <1>1. IsTab(Blank)
    BY Emptiness DEF IsTab, Blank, Pages
  <1>2. IsCall(NoCall)
    BY Emptiness DEF IsCall, NoCall, CallStates, NoSettings
  <1>3. IsFlow(NoFlow)
    BY DEF IsFlow, NoFlow, Without, FlowStates
  <1>4. IsFlow(Without("deleted"))
    BY DEF IsFlow, Without, FlowStates
  <1> QED
    BY <1>1, <1>2, <1>3, <1>4

LEMMA TabTyped ==
  ASSUME TabsOK, NEW b \in Browsers, NEW t, IsTab(t), tab' = [tab EXCEPT ![b] = t]
  PROVE  TabsOK'
  BY DEF TabsOK

LEMMA CanvasTyped ==
  ASSUME TabsOK, NEW b \in Browsers, NEW g, IsGraph(g), tab' = [tab EXCEPT ![b].canvas = g]
  PROVE  TabsOK'
  <1> DEFINE t == [tab[b] EXCEPT !.canvas = g]
  <1>1. IsTab(tab[b])
    BY DEF TabsOK
  <1>2. IsTab(t)
    BY <1>1 DEF IsTab
  <1>3. tab' = [tab EXCEPT ![b] = t]
    OBVIOUS
  <1> QED
    BY <1>2, <1>3, TabTyped

LEMMA CallTyped ==
  ASSUME CallsOK, NEW c \in Calls, NEW x, IsCall(x), call' = [call EXCEPT ![c] = x]
  PROVE  CallsOK'
  BY DEF CallsOK

LEMMA FlowTyped ==
  ASSUME FlowsOK, NEW w \in Flows, NEW f, IsFlow(f), flow' = [flow EXCEPT ![w] = f]
  PROVE  FlowsOK'
  BY DEF FlowsOK

\* What opening, saving and answering leave in an editor.
LEMMA BrowsingTypes ==
  ASSUME TypeOK, NEW b \in Browsers,
         \/ OpenNew(b) \/ (\E w \in Flows : Open(b, w)) \/ LoadRow(b) \/ LoadVersion(b)
         \/ LoadFails(b) \/ Close(b)
         \/ (\E active \in BOOLEAN : save(b, active)) \/ Answered(b) \/ AnswerLost(b)
  PROVE  TabsOK'
  <1> USE TypeParts
  <1>1. IsTab(tab[b])
    BY DEF TabsOK
  <1>2. ASSUME OpenNew(b) PROVE TabsOK'
    <2>1. PICK g \in Templates \cup {EmptyGraph} :
            tab' = [tab EXCEPT ![b] = [Blank EXCEPT !.page = "ready", !.canvas = g]]
      BY <1>2 DEF OpenNew
    <2>2. IsGraph(g)
      BY Emptiness, BuilderConstants DEF Templates
    <2>3. IsTab([Blank EXCEPT !.page = "ready", !.canvas = g])
      BY <2>2, NothingTyped DEF IsTab, Pages, Blank
    <2> QED
      BY <2>1, <2>3, TabTyped
  <1>3. ASSUME NEW w \in Flows, Open(b, w) PROVE TabsOK'
    <2>1. IsTab([Blank EXCEPT !.page = "opening", !.target = w])
      BY NothingTyped DEF IsTab, Pages, Blank
    <2> QED
      BY <1>3, <2>1, TabTyped DEF Open
  <1>4. ASSUME LoadRow(b) PROVE TabsOK'
    <2> DEFINE t == [tab[b] EXCEPT !.page = IF Stored(tab[b].target) THEN "loading" ELSE "ready",
                                   !.row = flow[tab[b].target].status = "active",
                                   !.target = IF Stored(@) THEN @ ELSE Nothing]
    <2>1. tab' = [tab EXCEPT ![b] = t]
      BY <1>1, <1>4 DEF LoadRow, TabsOK, IsTab
    <2>2. IsTab(t)
      BY <1>1, <1>4 DEF IsTab, Pages, LoadRow
    <2> QED
      BY <2>1, <2>2, TabTyped
  <1>5. ASSUME LoadVersion(b) PROVE TabsOK'
    <2> DEFINE w == tab[b].target
               key == freshKey
               g == IF Stored(w) THEN migrate(flow[w].versions[Current(w)], key) ELSE EmptyGraph
               t == [tab[b] EXCEPT !.page = "ready", !.flow = w,
                       !.target = Nothing, !.row = FALSE, !.canvas = g, !.auto = tab[b].row, !.again = FALSE,
                       !.saved = [graph |-> g, auto |-> tab[b].row],
                       !.agreed = [flow |-> w, version |-> Current(w), active |-> tab[b].row, key |-> key]]
    <2>1. tab' = [tab EXCEPT ![b] = t]
      <3> HIDE DEF g, key
      <3> QED
        BY <1>1, <1>5, ZenonT(60) DEF LoadVersion, TabsOK, IsTab, g, key
    <2>2. IsGraph(g)
      <3>1. w \in Flows
        BY <1>1, <1>5 DEF IsTab, LoadVersion
      <3>2. CASE Stored(w)
        <4>3. Current(w) > 0
          <5>1. IsFlow(flow[w])
            BY <3>1 DEF FlowsOK
          <5> QED
            BY <3>2, <5>1 DEF IsFlow, Stored, Current
        <4>1. Current(w) \in 1 .. Current(w)
          BY <3>1, <4>3, LengthsAreNumbers
        <4>2. IsGraph(flow[w].versions[Current(w)])
          BY <3>1, <4>1 DEF FlowsOK, IsFlow, Current
        <4> QED
          BY <3>2, <4>2, Fresh, MigrateGraph
      <3>3. CASE ~Stored(w)
        BY <3>3, Emptiness
      <3> QED
        BY <3>2, <3>3
    <2>3. IsTab(t)
      <3> HIDE DEF g, key
      <3> QED
        BY <1>1, <1>5, <2>2 DEF IsTab, Pages, LoadVersion
    <2> QED
      <3> HIDE DEF t
      <3> QED
        BY <2>1, <2>3, TabTyped
  <1>6. ASSUME LoadFails(b) PROVE TabsOK'
    <2> DEFINE t == [tab[b] EXCEPT !.page = "ready", !.target = Nothing, !.row = FALSE]
    <2>1. tab' = [tab EXCEPT ![b] = t]
      BY <1>1, <1>6 DEF LoadFails, TabsOK, IsTab
    <2>2. IsTab(t)
      BY <1>1 DEF IsTab, Pages
    <2> QED
      BY <2>1, <2>2, TabTyped
  <1>7. ASSUME Close(b) PROVE TabsOK'
    BY <1>7, NothingTyped, TabTyped DEF Close
  <1>8. ASSUME NEW active \in BOOLEAN, save(b, active) PROVE TabsOK'
    <2>1. PICK c \in Calls : tab' = [tab EXCEPT ![b].busy = c]
      BY <1>8 DEF save
    <2> DEFINE t == [tab[b] EXCEPT !.busy = c]
    <2>2. tab' = [tab EXCEPT ![b] = t]
      BY <2>1
    <2>3. IsTab(t)
      BY <1>1 DEF IsTab
    <2> QED
      BY <2>2, <2>3, TabTyped
  <1>9. ASSUME Answered(b) PROVE TabsOK'
    <2> DEFINE c == tab[b].busy
               t == [tab[b] EXCEPT !.busy = Nothing, !.flow = call[c].flow,
                       !.auto = call[c].active, !.removed = NoCard,
                       !.saved = [graph |-> Snapshot(b, c), auto |-> call[c].active],
                       !.agreed = [flow |-> call[c].flow, version |-> call[c].version,
                                   active |-> call[c].active, key |-> Nothing]]
    <2>1. c \in Calls
      BY <1>1, <1>9 DEF Answered, IsTab
    <2>2. IsCall(call[c])
      BY <2>1 DEF CallsOK
    <2>3. CASE tab' = [tab EXCEPT ![b].busy = Nothing]
      <3> DEFINE u == [tab[b] EXCEPT !.busy = Nothing]
      <3>1. tab' = [tab EXCEPT ![b] = u]
        BY <2>3
      <3>2. IsTab(u)
        BY <1>1 DEF IsTab
      <3> QED
        BY <3>1, <3>2, TabTyped
    <2>4. CASE tab' # [tab EXCEPT ![b].busy = Nothing]
      <3>1. tab' = [tab EXCEPT ![b] = t]
        <4> HIDE DEF c
        <4> QED
          BY <1>1, <1>9, <2>4 DEF Answered, TabsOK, IsTab, c
      <3>2. IsTab(t)
        <4> HIDE DEF c
        <4> QED
          BY <1>1, <2>2 DEF IsTab, IsCall
      <3> QED
        <4> HIDE DEF t
        <4> QED
          BY <3>1, <3>2, TabTyped
    <2> QED
      BY <2>3, <2>4
  <1>10. ASSUME AnswerLost(b) PROVE TabsOK'
    <2> DEFINE u == [tab[b] EXCEPT !.busy = Nothing]
    <2>1. tab' = [tab EXCEPT ![b] = u]
      BY <1>10 DEF AnswerLost
    <2>2. IsTab(u)
      BY <1>1 DEF IsTab
    <2> QED
      BY <2>1, <2>2, TabTyped
  <1> QED
    BY <1>2, <1>3, <1>4, <1>5, <1>6, <1>7, <1>8, <1>9, <1>10

LEMMA EditingTypes ==
  ASSUME TypeOK, NEW b \in Browsers, Editing(b)
  PROVE  TabsOK'
  <1> USE TypeParts
  <1> DEFINE g == tab[b].canvas
  <1>1. IsTab(tab[b]) /\ IsGraph(g)
    BY DEF TabsOK, IsTab
  <1>2. ASSUME add(b) PROVE TabsOK'
    <2>1. PICK kind \in Addable :
            Edit(b, Put(g, freshKey, [kind |-> kind, set |-> kind \notin {"feed", "publish"}]))
      BY <1>2 DEF add
    <2>2. [kind |-> kind, set |-> kind \notin {"feed", "publish"}] \in Card
      BY BuilderConstants DEF Card
    <2> DEFINE h == Put(g, freshKey, [kind |-> kind, set |-> kind \notin {"feed", "publish"}])
    <2>3. IsGraph(h)
      BY <1>1, <2>2, Fresh, PutMakes
    <2>4. tab' = [tab EXCEPT ![b].canvas = h]
      BY <2>1 DEF Edit
    <2> QED
      <3> HIDE DEF h, g
      <3> QED
        BY <2>3, <2>4, CanvasTyped
  <1>3. ASSUME update(b) PROVE TabsOK'
    <2>1. PICK k \in KeysOf(g) : Edit(b, [g EXCEPT !.cards[k].set = ~@])
      BY <1>3 DEF update
    <2> DEFINE C == [g.cards EXCEPT ![k].set = ~@]
    <2>2. [g EXCEPT !.cards[k].set = ~@] = [g EXCEPT !.cards = C]
      OBVIOUS
    <2>3. Parts(KeysOf(g), C, g.edges)
      <3>1. g.cards[k] \in Card
        BY <1>1, Made
      <3>2. [g.cards[k] EXCEPT !.set = ~@] \in Card
        BY <3>1 DEF Card
      <3>3. C \in [KeysOf(g) -> Card]
        BY <1>1, <3>2, Made
      <3> QED
        BY <1>1, <3>3, Made DEF Parts
    <2>4. IsGraph([g EXCEPT !.cards = C])
      <3> HIDE DEF C, g
      <3> QED
        BY <1>1, <2>3, CardsMake
    <2>5. tab' = [tab EXCEPT ![b].canvas = [g EXCEPT !.cards = C]]
      <3> HIDE DEF C
      <3> QED
        BY <2>1, <2>2 DEF Edit
    <2> QED
      <3> HIDE DEF C, g
      <3> QED
        BY <2>4, <2>5, CanvasTyped
  <1>4. ASSUME switchSource(b) PROVE TabsOK'
    <2>1. PICK k \in KeysOf(g), kind \in {"feed", "manual"} :
            Edit(b, [g EXCEPT !.cards[k] = [kind |-> kind, set |-> kind = "manual"]])
      BY <1>4 DEF switchSource
    <2> DEFINE card == [kind |-> kind, set |-> kind = "manual"]
               C == [g.cards EXCEPT ![k] = card]
    <2>2. [g EXCEPT !.cards[k] = card] = [g EXCEPT !.cards = C]
      OBVIOUS
    <2>3. Parts(KeysOf(g), C, g.edges)
      <3>1. card \in Card
        BY DEF Card, Kinds, SourceKinds
      <3>2. C \in [KeysOf(g) -> Card]
        BY <1>1, <3>1, Made
      <3> QED
        BY <1>1, <3>2, Made DEF Parts
    <2>4. IsGraph([g EXCEPT !.cards = C])
      <3> HIDE DEF C, g
      <3> QED
        BY <1>1, <2>3, CardsMake
    <2>5. tab' = [tab EXCEPT ![b].canvas = [g EXCEPT !.cards = C]]
      <3> HIDE DEF C
      <3> QED
        BY <2>1, <2>2 DEF Edit
    <2> QED
      <3> HIDE DEF C, g
      <3> QED
        BY <2>4, <2>5, CanvasTyped
  <1>5. ASSUME remove(b) PROVE TabsOK'
    <2> DEFINE Out(k) == [key |-> k, card |-> g.cards[k], edges |-> {e \in g.edges : k \in {e[1], e[2]}}]
    <2>1. PICK k \in KeysOf(g) :
            tab' = [tab EXCEPT ![b].canvas = Removal(g, k), ![b].removed = Out(k)]
      BY <1>5 DEF remove, Removal
    <2>2. IsGraph(Removal(g, k)) /\ IsRemoved(Out(k))
      BY <1>1, RemovalMakes
    <2> DEFINE h == Removal(g, k)
               out == Out(k)
               t == [tab[b] EXCEPT !.canvas = h, !.removed = out]
    <2> HIDE DEF h, out
    <2>3. IsTab(t)
      BY <1>1, <2>2 DEF IsTab, h, out
    <2>4. tab' = [tab EXCEPT ![b] = t]
      BY <1>1, <2>1 DEF h, out, TabsOK, IsTab
    <2> QED
      BY <2>3, <2>4, TabTyped
  <1>6. ASSUME undo(b) PROVE TabsOK'
    <2> DEFINE h == PutBack(g, tab[b].removed)
               t == [tab[b] EXCEPT !.canvas = h, !.removed = NoCard, !.again = TRUE]
    <2>1. IsRemoved(tab[b].removed)
      BY <1>1, <1>6 DEF undo, IsTab
    <2>2. IsGraph(h)
      BY <1>1, <2>1, PutBackMakes
    <2>3. tab' = [tab EXCEPT ![b] = t]
      BY <1>1, <1>6 DEF undo, TabsOK, IsTab
    <2> HIDE DEF h
    <2>4. IsTab(t)
      BY <1>1, <2>2 DEF IsTab
    <2> QED
      BY <2>3, <2>4, TabTyped
  <1>7. ASSUME connect(b) PROVE TabsOK'
    <2>1. PICK from \in KeysOf(g), to \in KeysOf(g) : Edit(b, [g EXCEPT !.edges = g.edges \cup {<<from, to>>}])
      BY <1>7 DEF connect
    <2>2. Parts(KeysOf(g), g.cards, g.edges \cup {<<from, to>>})
      BY <1>1, Made DEF Parts
    <2> DEFINE E == g.edges \cup {<<from, to>>}
    <2>3. IsGraph([g EXCEPT !.edges = E])
      <3> HIDE DEF E, g
      <3> QED
        BY <1>1, <2>2, EdgesMake DEF E
    <2>4. tab' = [tab EXCEPT ![b].canvas = [g EXCEPT !.edges = E]]
      <3> HIDE DEF E
      <3> QED
        BY <2>1 DEF Edit, E
    <2> QED
      <3> HIDE DEF E, g
      <3> QED
        BY <2>3, <2>4, CanvasTyped
  <1>8. ASSUME removeEdge(b) PROVE TabsOK'
    <2>1. PICK e \in g.edges : Edit(b, [g EXCEPT !.edges = g.edges \ {e}])
      BY <1>8 DEF removeEdge
    <2>2. Parts(KeysOf(g), g.cards, g.edges \ {e})
      BY <1>1, Made DEF Parts
    <2> DEFINE E == g.edges \ {e}
    <2>3. IsGraph([g EXCEPT !.edges = E])
      <3> HIDE DEF E, g
      <3> QED
        BY <1>1, <2>2, EdgesMake DEF E
    <2>4. tab' = [tab EXCEPT ![b].canvas = [g EXCEPT !.edges = E]]
      <3> HIDE DEF E
      <3> QED
        BY <2>1 DEF Edit, E
    <2> QED
      <3> HIDE DEF E, g
      <3> QED
        BY <2>3, <2>4, CanvasTyped
  <1>9. ASSUME applyGeneratedWorkflow(b) PROVE TabsOK'
    <2>1. PICK h \in Templates : tab' = [tab EXCEPT ![b].auto = FALSE, ![b].canvas = Suggested(h)]
      BY <1>9 DEF applyGeneratedWorkflow
    <2>2. IsGraph(h) /\ Acyclic(h) /\ Bundles(h) = {} /\ \A e \in h.edges : Directed(h, e[1], e[2])
      BY BuilderConstants DEF Templates, Bundles
    <2> DEFINE s == Suggested(h)
               t == [tab[b] EXCEPT !.auto = FALSE, !.canvas = s]
    <2>3. IsGraph(s)
      BY <2>2, SuggestedMakes
    <2> HIDE DEF s
    <2>4. IsTab(t)
      BY <1>1, <2>3 DEF IsTab
    <2>5. tab' = [tab EXCEPT ![b] = t]
      BY <1>1, <2>1 DEF s, TabsOK, IsTab
    <2> QED
      BY <2>4, <2>5, TabTyped
  <1> QED
    BY <1>2, <1>3, <1>4, <1>5, <1>6, <1>7, <1>8, <1>9 DEF Editing

LEMMA Appended ==
  ASSUME NEW S, NEW s \in Seq(S), NEW x
  PROVE  LET t == Append(s, x) IN
         /\ Len(t) = Len(s) + 1 /\ Len(s) \in Nat
         /\ t \in Seq({t[n] : n \in 1 .. Len(t)})
         /\ \A n \in 1 .. Len(s) : t[n] = s[n]
         /\ t[Len(s) + 1] = x
  <1> DEFINE t == Append(s, x)
  <1>1. s \in Seq(S \cup {x}) /\ x \in S \cup {x}
    OBVIOUS
  <1>2. t \in Seq(S \cup {x}) /\ Len(t) = Len(s) + 1 /\ Len(s) \in Nat
    BY <1>1
  <1>3. \A n \in 1 .. Len(s) : t[n] = s[n]
    BY <1>1
  <1>4. t[Len(s) + 1] = x
    BY <1>1
  <1>5. t \in Seq({t[n] : n \in 1 .. Len(t)})
    <2> HIDE DEF t
    <2> QED
      BY <1>2
  <1> QED
    BY <1>2, <1>3, <1>4, <1>5

LEMMA WrittenTyped ==
  ASSUME TypeOK, NEW c \in Calls, NEW w \in Flows
  PROVE  LET f == Written(c, flow[w])
             s == Over(call[c], SettingsOf(flow[w]))
         IN
         /\ IsFlow(f) /\ f.status = (IF s.active THEN "active" ELSE "draft") /\ f.auto = s.auto
         /\ s.active \in BOOLEAN /\ s.auto \in BOOLEAN
         /\ Len(f.versions) = Current(w) + 1
         /\ \A n \in 1 .. Current(w) : f.versions[n] = flow[w].versions[n]
         /\ f.versions[Current(w) + 1] = call[c].graph
  <1> DEFINE s == flow[w].versions
             f == Written(c, flow[w])
             t == Append(s, call[c].graph)
             o == Over(call[c], SettingsOf(flow[w]))
  <1>1. IsFlow(flow[w]) /\ IsCall(call[c])
    BY DEF TypeOK
  <1>7. o.active \in BOOLEAN /\ o.auto \in BOOLEAN
    BY <1>1 DEF IsFlow, IsCall, Over, SettingsOf
  <1>2. s \in Seq({s[n] : n \in 1 .. Len(s)})
    BY <1>1 DEF IsFlow
  <1>3. /\ Len(t) = Len(s) + 1 /\ Len(s) \in Nat
        /\ t \in Seq({t[n] : n \in 1 .. Len(t)})
        /\ \A n \in 1 .. Len(s) : t[n] = s[n]
        /\ t[Len(s) + 1] = call[c].graph
    <2> HIDE DEF s
    <2> QED
      BY <1>2, Appended
  <1>4. f = [status |-> IF o.active THEN "active" ELSE "draft", auto |-> o.auto, versions |-> t]
    BY DEF Written
  <1>5. IsFlow(f)
    <2>1. \A n \in 1 .. Len(t) : IsGraph(t[n])
      <3>1. \A n \in 1 .. Len(s) : IsGraph(s[n])
        BY <1>1 DEF IsFlow
      <3>2. IsGraph(call[c].graph)
        BY <1>1 DEF IsCall
      <3>0. Len(t) = Len(s) + 1 /\ Len(s) \in Nat
        BY <1>3
      <3> HIDE DEF s, t
      <3>3. \A n \in 1 .. Len(t) : n \in 1 .. Len(s) \/ n = Len(s) + 1
        BY <3>0
      <3> QED
        BY <1>3, <3>1, <3>2, <3>3
    <2> HIDE DEF s, t, f, o
    <2> QED
      BY <1>3, <1>4, <1>7, <2>1 DEF IsFlow, FlowStates
  <1> HIDE DEF t, f, o
  <1>6. Current(w) = Len(s)
    BY DEF Current
  <1> QED
    BY <1>3, <1>4, <1>5, <1>6, <1>7 DEF f, o

LEMMA RowTyped ==
  ASSUME TypeOK, NEW c \in Calls
  PROVE  Row(c) \in [active : BOOLEAN, auto : BOOLEAN]
  <1>1. call[c].flow \in Flows \cup {Nothing}
    BY DEF TypeOK, IsCall
  <1>2. CASE call[c].flow = Nothing
    BY <1>2 DEF Row, NoSettings
  <1>3. CASE call[c].flow # Nothing
    <2>1. IsFlow(flow[call[c].flow])
      BY <1>1, <1>3 DEF TypeOK
    <2> QED
      BY <1>3, <2>1 DEF Row, SettingsOf, IsFlow
  <1> QED
    BY <1>2, <1>3

LEMMA RequestTyped ==
  ASSUME TypeOK, NEW c \in Calls, NEW w \in Flows \cup {Nothing}, NEW g, IsGraph(g),
         NEW asked \in [active : BOOLEAN, auto : BOOLEAN], NEW omits \in SUBSET Optional,
         w = Nothing => omits = {}, Request(c, w, g, asked, omits)
  PROVE  CallsOK'
  <1> DEFINE x == [state |-> "sent", flow |-> w, graph |-> g, active |-> asked.active, auto |-> asked.auto,
                   omits |-> omits, read |-> NoSettings, version |-> 0]
  <1>1. IsCall(x)
    BY DEF IsCall, CallStates, NoSettings
  <1>2. call' = [call EXCEPT ![c] = x]
    BY DEF Request
  <1> QED
    BY <1>1, <1>2, CallTyped, TypeParts

LEMMA ServingTypes ==
  ASSUME TypeOK,
         \/ (\E c \in Calls : Save(c)) \/ (\E w \in Flows : DeleteFlow(w))
         \/ (\E c \in Calls : Ask(c) \/ Forgotten(c))
         \/ (\E b \in Browsers : Answered(b))
         \/ (\E b \in Browsers, active \in BOOLEAN : save(b, active))
  PROVE  FlowsOK' /\ CallsOK' /\ saves' \in Nat
  <1> USE TypeParts
  <1>0. ASSUME NEW c \in Calls, NEW state \in CallStates, To(c, state) PROVE CallsOK'
    <2> DEFINE x == [call[c] EXCEPT !.state = state]
    <2>1. call' = [call EXCEPT ![c] = x]
      BY <1>0 DEF To
    <2>2. IsCall(call[c])
      BY DEF CallsOK
    <2>3. IsCall(x)
      BY <2>2 DEF IsCall
    <2> QED
      BY <2>1, <2>3, CallTyped
  <1>1. ASSUME NEW c \in Calls, Judge(c) PROVE FlowsOK' /\ CallsOK' /\ saves' \in Nat
    <2>1. CASE To(c, "refused")
      <3>1. CallsOK'
        BY <1>0, <2>1 DEF CallStates
      <3> QED
        BY <1>1, <3>1 DEF Judge, FlowsOK
    <2>2. CASE call' = [call EXCEPT ![c].state = "judged", ![c].read = Row(c)]
      <3> DEFINE r == Row(c)
                 x == [call[c] EXCEPT !.state = "judged", !.read = r]
      <3>1. IsCall(call[c]) /\ r \in [active : BOOLEAN, auto : BOOLEAN]
        BY RowTyped DEF CallsOK
      <3>2. call' = [call EXCEPT ![c] = x]
        BY <2>2, <3>1 DEF CallsOK, IsCall
      <3> HIDE DEF r
      <3>3. IsCall(x)
        BY <3>1 DEF IsCall, CallStates
      <3>4. CallsOK'
        <4> HIDE DEF x
        <4> QED
          BY <3>2, <3>3, CallTyped
      <3> QED
        BY <1>1, <3>4 DEF Judge, FlowsOK
    <2> QED
      BY <1>1, <2>1, <2>2 DEF Judge
  <1>2. ASSUME NEW c \in Calls, Decline(c) PROVE FlowsOK' /\ CallsOK' /\ saves' \in Nat
    <2>1. PICK state \in CallStates : To(c, state)
      BY <1>2 DEF Decline, CallStates
    <2>2. CallsOK'
      BY <1>0, <2>1
    <2> QED
      BY <1>2, <2>2 DEF Decline, FlowsOK
  <1>3. ASSUME NEW c \in Calls, Commit(c) PROVE FlowsOK' /\ CallsOK' /\ saves' \in Nat
    <2>1. PICK w \in Flows :
            /\ flow' = [flow EXCEPT ![w] = Written(c, @)]
            /\ call' = [call EXCEPT ![c].state = "done", ![c].flow = w, ![c].version = Current(w) + 1]
      BY <1>3 DEF Commit
    <2> DEFINE f == Written(c, flow[w])
               x == [call[c] EXCEPT !.state = "done", !.flow = w, !.version = Current(w) + 1]
    <2>2. IsFlow(f)
      BY WrittenTyped
    <2>3. flow' = [flow EXCEPT ![w] = f]
      BY <2>1
    <2>4. FlowsOK'
      <3> HIDE DEF f
      <3> QED
        BY <2>2, <2>3, FlowTyped
    <2>5. IsCall(call[c])
      BY DEF CallsOK
    <2>9. Current(w) + 1 \in Nat
      BY LengthsAreNumbers
    <2>6. IsCall(x)
      BY <2>5, <2>9, WorkflowConstants DEF IsCall, CallStates
    <2>7. call' = [call EXCEPT ![c] = x]
      BY <2>1, <2>5 DEF CallsOK, IsCall
    <2>8. CallsOK'
      <3> HIDE DEF x
      <3> QED
        BY <2>6, <2>7, CallTyped
    <2> QED
      BY <1>3, <2>4, <2>8 DEF Commit
  <1>4. ASSUME NEW w \in Flows, DeleteFlow(w) PROVE FlowsOK' /\ CallsOK' /\ saves' \in Nat
    <2>1. FlowsOK'
      BY <1>4, NothingTyped, FlowTyped DEF DeleteFlow
    <2> QED
      BY <1>4, <2>1 DEF DeleteFlow, CallsOK
  <1>5. ASSUME NEW c \in Calls, call' = [call EXCEPT ![c] = NoCall] PROVE CallsOK'
    BY <1>5, NothingTyped, CallTyped
  <1>6. ASSUME NEW c \in Calls, Forgotten(c) PROVE FlowsOK' /\ CallsOK' /\ saves' \in Nat
    <2>1. CallsOK'
      BY <1>5, <1>6 DEF Forgotten
    <2> QED
      BY <1>6, <2>1 DEF Forgotten, FlowsOK
  <1>7. ASSUME NEW b \in Browsers, Answered(b) PROVE FlowsOK' /\ CallsOK' /\ saves' \in Nat
    <2>1. tab[b].busy \in Calls
      BY <1>7 DEF TabsOK, IsTab, Answered
    <2>2. CallsOK'
      BY <1>5, <1>7, <2>1 DEF Answered
    <2> QED
      BY <1>7, <2>2 DEF Answered, FlowsOK
  <1>8. ASSUME NEW b \in Browsers, NEW active \in BOOLEAN, save(b, active)
        PROVE  FlowsOK' /\ CallsOK' /\ saves' \in Nat
    <2> DEFINE asked == [active |-> active, auto |-> ~Manual(tab[b].canvas)]
    <2>1. PICK c \in Calls : Request(c, tab[b].flow, tab[b].canvas, asked, {})
      BY <1>8 DEF save
    <2>2. IsGraph(tab[b].canvas) /\ tab[b].flow \in Flows \cup {Nothing}
      BY DEF TabsOK, IsTab
    <2>3. asked \in [active : BOOLEAN, auto : BOOLEAN]
      OBVIOUS
    <2>4. CallsOK'
      <3> HIDE DEF asked
      <3> QED
        BY <2>1, <2>2, <2>3, RequestTyped
    <2> QED
      BY <1>8, <2>4 DEF save, FlowsOK
  <1>9. ASSUME NEW c \in Calls, Ask(c) PROVE FlowsOK' /\ CallsOK' /\ saves' \in Nat
    <2>1. PICK g \in Sendable, w \in {x \in Flows : Stored(x)} \cup {Nothing}, omits \in SUBSET Optional,
               active \in BOOLEAN, auto \in BOOLEAN :
            /\ w = Nothing => omits = {}
            /\ Request(c, w, g, [active |-> active, auto |-> auto], omits)
      BY <1>9 DEF Ask
    <2>2. IsGraph(g)
      BY BuilderConstants, Emptiness DEF Templates
    <2>3. w \in Flows \cup {Nothing} /\ [active |-> active, auto |-> auto] \in [active : BOOLEAN, auto : BOOLEAN]
      OBVIOUS
    <2>4. CallsOK'
      BY <2>1, <2>2, <2>3, RequestTyped
    <2> QED
      BY <1>9, <2>4 DEF Ask, FlowsOK
  <1> QED
    BY <1>1, <1>2, <1>3, <1>4, <1>6, <1>7, <1>8, <1>9 DEF Save

LEMMA EditingFrame ==
  ASSUME NEW b \in Browsers, Editing(b)
  PROVE  UNCHANGED <<api, lost>> /\ moves' \in {moves, moves + 1}
  <1>1. ASSUME NEW g, Edit(b, g) PROVE UNCHANGED <<api, lost>> /\ moves' \in {moves, moves + 1}
    BY <1>1 DEF Edit, Move
  <1>2. CASE add(b)
    BY <1>1, <1>2 DEF add
  <1>3. CASE update(b)
    BY <1>1, <1>3 DEF update
  <1>4. CASE switchSource(b)
    BY <1>1, <1>4 DEF switchSource
  <1>5. CASE connect(b)
    BY <1>1, <1>5 DEF connect
  <1>6. CASE removeEdge(b)
    BY <1>1, <1>6 DEF removeEdge
  <1>7. CASE remove(b)
    BY <1>7 DEF remove, Move
  <1>8. CASE undo(b)
    BY <1>8 DEF undo
  <1>9. CASE applyGeneratedWorkflow(b)
    BY <1>9 DEF applyGeneratedWorkflow, Move
  <1> QED
    BY <1>2, <1>3, <1>4, <1>5, <1>6, <1>7, <1>8, <1>9 DEF Editing

LEMMA BrowsingFrame ==
  ASSUME NEW b \in Browsers, Browsing(b)
  PROVE  /\ moves' \in {moves, moves + 1} /\ lost' \in {lost, lost + 1}
         /\ Answered(b) \/ (\E active \in BOOLEAN : save(b, active)) \/ UNCHANGED api
  <1>1. CASE OpenNew(b)
    BY <1>1 DEF OpenNew, Move
  <1>2. ASSUME NEW w, Open(b, w) PROVE UNCHANGED <<api, moves, lost>>
    BY <1>2 DEF Open
  <1>3. CASE LoadRow(b)
    BY <1>3 DEF LoadRow
  <1>4. CASE LoadVersion(b)
    BY <1>4 DEF LoadVersion
  <1>5. CASE LoadFails(b)
    BY <1>5 DEF LoadFails
  <1>6. CASE Close(b)
    BY <1>6 DEF Close
  <1>7. ASSUME NEW active, save(b, active) PROVE UNCHANGED <<moves, lost>>
    BY <1>7 DEF save
  <1>8. CASE Answered(b)
    BY <1>8 DEF Answered
  <1>9. CASE AnswerLost(b)
    BY <1>9 DEF AnswerLost
  <1>10. CASE Editing(b)
    BY <1>10, EditingFrame
  <1> QED
    BY <1>1, <1>2, <1>3, <1>4, <1>5, <1>6, <1>7, <1>8, <1>9, <1>10 DEF Browsing

LEMMA TypeStep ==
  ASSUME TypeOK, [Next]_vars
  PROVE  TypeOK'
  <1> USE TypeParts, TypePartsNext
  <1> DEFINE Counts == moves' \in Nat /\ lost' \in Nat
  <1>1. ASSUME NEW b \in Browsers, Browsing(b) PROVE TypeOK'
    <2>1. TabsOK' /\ Counts
      <3>1. TabsOK'
        BY <1>1, EditingTypes, BrowsingTypes DEF Browsing
      <3>2. Counts
        BY <1>1, BrowsingFrame
      <3> QED
        BY <3>1, <3>2
    <2>2. FlowsOK' /\ CallsOK' /\ saves' \in Nat
      <3>1. CASE Answered(b) \/ \E active \in BOOLEAN : save(b, active)
        BY <3>1, ServingTypes
      <3>2. CASE UNCHANGED api
        BY <3>2 DEF api, FlowsOK, CallsOK
      <3>3. Answered(b) \/ (\E active \in BOOLEAN : save(b, active)) \/ UNCHANGED api
        BY <1>1, BrowsingFrame
      <3> QED
        BY <3>1, <3>2, <3>3
    <2> QED
      BY <2>1, <2>2
  <1>2. ASSUME Serving PROVE TypeOK'
    <2>1. FlowsOK' /\ CallsOK' /\ saves' \in Nat
      BY <1>2, ServingTypes DEF Serving
    <2>2. TabsOK' /\ Counts
      BY <1>2 DEF Serving, TabsOK
    <2> QED
      BY <2>1, <2>2
  <1>3. ASSUME NEW c \in Calls, Ask(c) \/ Forgotten(c) PROVE TypeOK'
    <2>1. FlowsOK' /\ CallsOK' /\ saves' \in Nat
      BY <1>3, ServingTypes
    <2>2. TabsOK' /\ Counts
      BY <1>3 DEF Ask, Forgotten, TabsOK
    <2> QED
      BY <2>1, <2>2
  <1>4. CASE UNCHANGED vars
    BY <1>4 DEF vars, api, FlowsOK, CallsOK, TabsOK
  <1> QED
    BY <1>1, <1>2, <1>3, <1>4 DEF Next

LEMMA TypeInit ==
  ASSUME Init
  PROVE  TypeOK
  <1>1. PICK g \in Goals, w \in Flows :
          flow = [x \in Flows |-> IF x = w
            THEN [status |-> "draft", auto |-> TRUE, versions |-> <<g>>] ELSE NoFlow]
    BY DEF Init, ApiInit
  <1> DEFINE f == [status |-> "draft", auto |-> TRUE, versions |-> <<g>>]
  <1>2. IsFlow(f)
    <2>1. IsGraph(g)
      BY BuilderConstants
    <2> QED
      BY <2>1 DEF IsFlow, FlowStates
  <1>3. FlowsOK
    <2> HIDE DEF f
    <2> QED
      BY <1>1, <1>2, NothingTyped DEF FlowsOK, f
  <1>4. CallsOK
    BY NothingTyped DEF Init, ApiInit, CallsOK
  <1>5. TabsOK
    BY NothingTyped DEF Init, TabsOK
  <1> QED
    BY <1>3, <1>4, <1>5, TypeParts DEF Init, ApiInit

\* Workflows, saves and editors keep their types.
THEOREM TypeCorrect == Spec => []TypeOK
  <1>1. TypeOK /\ [Next]_vars => TypeOK'
    BY TypeStep
  <1> QED
    BY <1>1, TypeInit, PTL DEF Spec

-----------------------------------------------------------------------------
(* A key is one class of card, and every edge one that may be drawn.        *)

LEMMA MarksAreUsed ==
  ASSUME NEW k, NEW class, Mark(k, class)
  PROVE  k \in InUse
  <1>1. CASE \E g \in InPlay : k \in KeysOf(g)
    <2>1. PICK g \in InPlay : k \in KeysOf(g)
      BY <1>1
    <2>2. KeysOf(g) \in {KeysOf(x) : x \in InPlay}
      OBVIOUS
    <2> QED
      BY <2>1, <2>2 DEF InUse
  <1>2. CASE \E r \in Lifted : k = r.key
    BY <1>2 DEF InUse
  <1> QED
    BY <1>1, <1>2 DEF Mark

\* A graph whose cards and edges agree with what is there.
Agrees(g) ==
  /\ IsGraph(g)
  /\ \A k \in KeysOf(g) : k \in InUse => Mark(k, Class(g.cards[k]))
  /\ \A e \in g.edges : Directed(g, e[1], e[2])

Taken(r) ==
  /\ Mark(r.key, Class(r.card))
  /\ \A e \in r.edges : Joined(e) /\ e[1] \in InUse /\ e[2] \in InUse

LEMMA InPlayAgrees ==
  ASSUME TypeOK, AllJoined, NEW g \in InPlay
  PROVE  Agrees(g) /\ \A k \in KeysOf(g) : Mark(k, Class(g.cards[k])) /\ k \in InUse
  <1>1. \A k \in KeysOf(g) : Mark(k, Class(g.cards[k]))
    BY DEF Mark
  <1> QED
    BY <1>1, GraphsInPlay, MarksAreUsed DEF Agrees, AllJoined

LEMMA EmptyAgrees == Agrees(EmptyGraph)
  BY Emptiness DEF Agrees

LEMMA LiftedTaken ==
  ASSUME AllJoined, NEW r \in Lifted
  PROVE  Taken(r)
  <1>1. Mark(r.key, Class(r.card))
    BY DEF Mark
  <1>2. ASSUME NEW e \in r.edges PROVE Joined(e) /\ e[1] \in InUse /\ e[2] \in InUse
    <2> DEFINE P == {{x[1], x[2]} : x \in r.edges}
    <2>1. {e[1], e[2]} \in P
      OBVIOUS
    <2>2. e[1] \in UNION P /\ e[2] \in UNION P
      <3> HIDE DEF P
      <3> QED
        BY <2>1
    <2>3. {r.key} \cup UNION P \in {{s.key} \cup UNION {{x[1], x[2]} : x \in s.edges} : s \in Lifted}
      OBVIOUS
    <2> QED
      BY <2>2, <2>3 DEF AllJoined, InUse
  <1> QED
    BY <1>1, <1>2 DEF Taken

\* What a step adds to the graphs there are.
Adds(g) ==
  /\ \A b \in Browsers : tab'[b].canvas \in InPlay \cup {g}
  /\ \A b \in Browsers : tab'[b].removed = NoCard \/ Taken(tab'[b].removed)
  /\ \A c \in Calls : call'[c].graph \in InPlay \cup {g}
  /\ \A w \in Flows : \A n \in 1 .. Current(w)' : flow'[w].versions[n] \in InPlay \cup {g}

LEMMA Grown ==
  ASSUME TypeOK, OneClass, AllJoined, NEW g, Agrees(g), Adds(g)
  PROVE  OneClass' /\ AllJoined'
  <1>1. InPlay' \subseteq InPlay \cup {g}
    <2> SUFFICES ASSUME NEW h \in InPlay' PROVE h \in InPlay \cup {g}
      OBVIOUS
    <2>1. \/ h \in Goals \/ (\E b \in Browsers : h = tab'[b].canvas) \/ (\E c \in Calls : h = call'[c].graph)
          \/ \E w \in Flows : \E n \in 1 .. Current(w)' : h = flow'[w].versions[n]
      BY DEF InPlay
    <2>2. Goals \subseteq InPlay
      BY DEF InPlay
    <2> QED
      BY <2>1, <2>2 DEF Adds
  <1>2. \A r \in Lifted' : Taken(r)
    BY DEF Lifted, Adds
  <1>3. \A h \in InPlay' : Agrees(h)
    BY <1>1, InPlayAgrees
  <1>4. \A k, x : Mark(k, x)' => Mark(k, x) \/ (k \in KeysOf(g) /\ Class(g.cards[k]) = x)
    <2> SUFFICES ASSUME NEW k, NEW x, Mark(k, x)'
                 PROVE  Mark(k, x) \/ (k \in KeysOf(g) /\ Class(g.cards[k]) = x)
      OBVIOUS
    <2>1. (\E h \in InPlay' : k \in KeysOf(h) /\ Class(h.cards[k]) = x) \/ \E r \in Lifted' : k = r.key /\ Class(r.card) = x
      BY DEF Mark
    <2>2. CASE \E h \in InPlay' : k \in KeysOf(h) /\ Class(h.cards[k]) = x
      BY <1>1, <2>2 DEF Mark
    <2>3. CASE \E r \in Lifted' : k = r.key /\ Class(r.card) = x
      BY <1>2, <2>3 DEF Taken
    <2> QED
      BY <2>1, <2>2, <2>3
  <1>5. \A k \in InUse : \A x : Mark(k, x)' => Mark(k, x)
    BY <1>4 DEF Agrees
  <1>6. \A k : \A x, y \in Classes : Mark(k, x)' /\ Mark(k, y)' => x = y
    BY <1>4, <1>5, MarksAreUsed DEF OneClass
  <1>7. OneClass'
    BY <1>6 DEF OneClass
  <1>8. ASSUME NEW r \in Lifted', NEW e \in r.edges PROVE Joined(e)'
    BY <1>2, <1>5 DEF Taken, Joined
  <1> QED
    BY <1>3, <1>7, <1>8 DEF AllJoined, Agrees

LEMMA DirectedIs ==
  ASSUME NEW g, IsGraph(g), NEW x \in KeysOf(g), NEW y \in KeysOf(g)
  PROVE  Directed(g, x, y) <=> x # y /\ Class(g.cards[x]) # "output" /\ Class(g.cards[y]) # "source"
  BY ClassIs DEF Directed

\* A graph whose new cards have new keys, with no edge drawn.
LEMMA EditedAgrees ==
  ASSUME TypeOK, AllJoined, NEW g \in InPlay, NEW h, IsGraph(h), h.edges \subseteq g.edges,
         \A k \in KeysOf(h) \ KeysOf(g) : k \notin InUse,
         \A k \in KeysOf(h) \cap KeysOf(g) : Class(h.cards[k]) = Class(g.cards[k])
  PROVE  Agrees(h)
  <1>1. Agrees(g) /\ \A k \in KeysOf(g) : Mark(k, Class(g.cards[k]))
    BY InPlayAgrees
  <1>2. IsGraph(g)
    BY <1>1 DEF Agrees
  <1>3. ASSUME NEW e \in h.edges PROVE Directed(h, e[1], e[2])
    <2>1. e[1] \in KeysOf(h) /\ e[2] \in KeysOf(h)
      BY Edges
    <2>2. e[1] \in KeysOf(g) /\ e[2] \in KeysOf(g)
      BY <1>2, Edges
    <2>3. Directed(g, e[1], e[2])
      BY <1>1 DEF Agrees
    <2> QED
      BY <1>2, <2>1, <2>2, <2>3, DirectedIs
  <1>4. \A k \in KeysOf(h) : k \in InUse => Mark(k, Class(h.cards[k]))
    BY <1>1
  <1> QED
    BY <1>3, <1>4 DEF Agrees

\* A graph with an edge between two of its cards that may be joined.
LEMMA JoinedAgrees ==
  ASSUME TypeOK, AllJoined, NEW g \in InPlay, NEW h, IsGraph(h),
         KeysOf(h) = KeysOf(g), h.cards = g.cards,
         \A e \in h.edges : e \in g.edges \/ Directed(g, e[1], e[2])
  PROVE  Agrees(h)
  <1>1. Agrees(g) /\ \A k \in KeysOf(g) : Mark(k, Class(g.cards[k]))
    BY InPlayAgrees
  <1>2. \A e \in h.edges : Directed(g, e[1], e[2])
    BY <1>1 DEF Agrees
  <1>3. \A e \in h.edges : Directed(h, e[1], e[2])
    BY <1>2 DEF Directed, Sources, Outputs, KindOf
  <1> QED
    BY <1>1, <1>3 DEF Agrees

LEMMA PutBackAgrees ==
  ASSUME TypeOK, OneClass, AllJoined, NEW g \in InPlay, NEW out \in Lifted
  PROVE  Agrees(PutBack(g, out))
  <1> DEFINE h == PutBack(g, out)
  <1>1. Agrees(g) /\ \A k \in KeysOf(g) : Mark(k, Class(g.cards[k])) /\ k \in InUse
    BY InPlayAgrees
  <1>2. IsGraph(g) /\ IsRemoved(out)
    BY <1>1, GraphsInPlay DEF Agrees
  <1>3. Taken(out)
    BY LiftedTaken
  <1>4. /\ IsGraph(h) /\ KeysOf(h) = KeysOf(g) \cup {out.key}
        /\ \A x \in KeysOf(h) : h.cards[x] = IF x \in KeysOf(g) THEN g.cards[x] ELSE out.card
        /\ h.edges = g.edges \cup {e \in out.edges : {e[1], e[2]} \subseteq KeysOf(h)}
    BY <1>2, PutBackMakes
  <1> HIDE DEF h
  <1>5. \A k \in KeysOf(h) : Mark(k, Class(h.cards[k]))
    BY <1>1, <1>3, <1>4 DEF Taken
  <1>6. ASSUME NEW e \in h.edges PROVE Directed(h, e[1], e[2])
    <2>1. e[1] \in KeysOf(h) /\ e[2] \in KeysOf(h)
      BY <1>4, Edges
    <2>2. CASE e \in g.edges
      <3>1. e[1] \in KeysOf(g) /\ e[2] \in KeysOf(g) /\ Directed(g, e[1], e[2])
        BY <1>1, <1>2, <2>2, Edges DEF Agrees
      <3> QED
        BY <1>2, <1>4, <2>1, <3>1, DirectedIs
    <2>3. CASE e \in out.edges
      <3>1. Joined(e)
        BY <1>3, <2>3 DEF Taken
      <3>2. Class(h.cards[e[1]]) # "output" /\ Class(h.cards[e[2]]) # "source"
        BY <1>5, <2>1, <3>1 DEF Joined
      <3> QED
        BY <1>4, <2>1, <3>1, <3>2, DirectedIs DEF Joined
    <2> QED
      BY <1>4, <2>2, <2>3
  <1> QED
    BY <1>4, <1>5, <1>6 DEF Agrees, h

LEMMA MigrateAgrees ==
  ASSUME TypeOK, AllJoined, NEW g \in InPlay, Acyclic(g), \A k, l \in Bundles(g) : k = l
  PROVE  LET h == migrate(g, freshKey) IN Agrees(h) /\ Acyclic(h) /\ Bundles(h) = {}
  <1> DEFINE key == freshKey
             h == migrate(g, key)
  <1>1. Agrees(g) /\ \A k \in KeysOf(g) : Mark(k, Class(g.cards[k])) /\ k \in InUse
    BY InPlayAgrees
  <1>2. IsGraph(g)
    BY <1>1 DEF Agrees
  <1>3. key \in Nat /\ key \notin InUse
    BY Fresh
  <1> HIDE DEF key
  <1>4. /\ IsGraph(h) /\ Acyclic(h) /\ Bundles(h) = {}
        /\ KeysOf(h) \subseteq KeysOf(g) \cup {key}
        /\ \A x \in KeysOf(h) : Class(h.cards[x]) = IF x = key THEN "source" ELSE Class(g.cards[x])
        /\ \A e \in h.edges : e \in g.edges \/ (e[1] = key /\ \E k \in KeysOf(g) : <<k, e[2]>> \in g.edges)
    BY <1>1, <1>2, <1>3, MigrateMakes
  <1> HIDE DEF h
  <1>5. \A k \in KeysOf(h) : k \in InUse => Mark(k, Class(h.cards[k]))
    BY <1>1, <1>3, <1>4
  <1>6. ASSUME NEW e \in h.edges PROVE Directed(h, e[1], e[2])
    <2>1. e[1] \in KeysOf(h) /\ e[2] \in KeysOf(h)
      BY <1>4, Edges
    <2>2. CASE e \in g.edges
      <3>1. e[1] \in KeysOf(g) /\ e[2] \in KeysOf(g) /\ Directed(g, e[1], e[2])
        BY <1>1, <1>2, <2>2, Edges DEF Agrees
      <3>2. e[1] # key /\ e[2] # key
        BY <1>1, <1>3, <3>1
      <3> QED
        BY <1>2, <1>4, <2>1, <3>1, <3>2, DirectedIs
    <2>3. CASE e[1] = key /\ \E k \in KeysOf(g) : <<k, e[2]>> \in g.edges
      <3>1. PICK k \in KeysOf(g) : <<k, e[2]>> \in g.edges
        BY <2>3
      <3>2. <<k, e[2]>>[1] = k /\ <<k, e[2]>>[2] = e[2]
        OBVIOUS
      <3>3. Directed(g, k, e[2]) /\ e[2] \in KeysOf(g)
        BY <1>1, <1>2, <3>1, <3>2, Edges DEF Agrees
      <3>4. e[2] # key
        BY <1>1, <1>3, <3>3
      <3>5. Class(h.cards[e[1]]) = "source" /\ Class(h.cards[e[2]]) # "source"
        BY <1>2, <1>4, <2>1, <2>3, <3>3, <3>4, DirectedIs
      <3> QED
        BY <1>4, <2>1, <2>3, <3>4, <3>5, DirectedIs
    <2> QED
      BY <1>4, <2>2, <2>3
  <1> QED
    BY <1>4, <1>5, <1>6 DEF Agrees, h, key

\* What an editor shows and has taken out, and what it was told.
Drawn(b) ==
  /\ Bundles(tab[b].canvas) = {}
  /\ tab[b].removed # NoCard => tab[b].removed.card.kind # "bundle"
  /\ tab[b].again \/ Acyclic(tab[b].canvas)

Told(b) ==
  LET t == tab[b] IN
  /\ t.page \in {"opening", "loading"} => Once(t.target)
  /\ t.flow # Nothing =>
       LET a == t.agreed IN
       /\ t.flow = a.flow /\ Once(a.flow)
       /\ t.saved.auto = a.active
       /\ Stored(a.flow) =>
            /\ a.version \in 1 .. Current(a.flow)
            /\ t.saved.graph = migrate(flow[a.flow].versions[a.version], a.key)

LEMMA TabKeptParts == ASSUME NEW b PROVE TabKept(b) <=> Drawn(b) /\ Told(b)
  BY DEF TabKept, Drawn, Told

LEMMA TabKeptPartsNext == ASSUME NEW b PROVE TabKept(b)' <=> Drawn(b)' /\ Told(b)'
  BY DEF TabKept, Drawn, Told

\* The editor's canvas becomes h; what it was told stays.
Draws(b, h) ==
  /\ Agrees(h) /\ Bundles(h) = {}
  /\ tab'[b].canvas = h
  /\ tab'[b].again \/ Acyclic(h)
  /\ \/ tab'[b].removed = NoCard
     \/ Taken(tab'[b].removed) /\ tab'[b].removed.card.kind # "bundle"
  /\ \A x \in Browsers \ {b} : tab'[x] = tab[x]

SameTold(b) ==
  /\ tab'[b].page = tab[b].page /\ tab'[b].target = tab[b].target
  /\ tab'[b].flow = tab[b].flow
  /\ tab'[b].saved = tab[b].saved /\ tab'[b].agreed = tab[b].agreed

LEMMA OldDrawing ==
  ASSUME TypeOK, OneClass, AllJoined, NEW b \in Browsers, Drawn(b)
  PROVE  LET g == tab[b].canvas IN
         /\ g \in InPlay /\ Agrees(g) /\ IsGraph(g) /\ Bundles(g) = {}
         /\ \/ tab[b].removed = NoCard
            \/ tab[b].removed \in Lifted /\ Taken(tab[b].removed) /\ tab[b].removed.card.kind # "bundle"
  <1> DEFINE g == tab[b].canvas
  <1>1. g \in InPlay
    BY DEF InPlay
  <1>2. Agrees(g)
    BY <1>1, InPlayAgrees
  <1>3. tab[b].removed = NoCard \/ tab[b].removed \in Lifted
    BY DEF Lifted
  <1> QED
    BY <1>1, <1>2, <1>3, LiftedTaken DEF Drawn, Agrees

LEMMA CanvasDraws ==
  ASSUME TypeOK, OneClass, AllJoined, NEW b \in Browsers, Drawn(b),
         NEW h, Agrees(h), Bundles(h) = {}, tab[b].again \/ Acyclic(h),
         tab' = [tab EXCEPT ![b].canvas = h]
  PROVE  Draws(b, h) /\ SameTold(b)
  <1>1. tab'[b] = [tab[b] EXCEPT !.canvas = h] /\ \A x \in Browsers \ {b} : tab'[x] = tab[x]
    BY DEF TypeOK
  <1>2. IsTab(tab[b])
    BY DEF TypeOK
  <1>3. /\ tab'[b].canvas = h /\ tab'[b].again = tab[b].again /\ tab'[b].removed = tab[b].removed
        /\ SameTold(b)
    BY <1>1, <1>2 DEF IsTab, SameTold
  <1> QED
    BY <1>1, <1>3, OldDrawing DEF Draws

\* An edit that draws no edge.
Simple(g, h) ==
  /\ IsGraph(h) /\ h.edges \subseteq g.edges
  /\ \A k \in KeysOf(h) \ KeysOf(g) : k \notin InUse
  /\ \A k \in KeysOf(h) \cap KeysOf(g) : Class(h.cards[k]) = Class(g.cards[k])
  /\ \A k \in KeysOf(h) : h.cards[k].kind # "bundle"

LEMMA SimpleAgrees ==
  ASSUME TypeOK, OneClass, AllJoined, NEW b \in Browsers, Drawn(b), NEW h, Simple(tab[b].canvas, h)
  PROVE  Agrees(h) /\ Bundles(h) = {} /\ (tab[b].again \/ Acyclic(h))
  <1> DEFINE g == tab[b].canvas
  <1>1. g \in InPlay /\ Agrees(g) /\ IsGraph(g) /\ Bundles(g) = {}
    BY OldDrawing
  <1>2. tab[b].again \/ Acyclic(g)
    BY DEF Drawn
  <1>3. Agrees(h)
    BY <1>1, EditedAgrees DEF Simple
  <1>4. Bundles(h) = {}
    BY DEF Simple, Bundles, KindOf
  <1>5. Acyclic(g) => Acyclic(h)
    BY <1>1, Thinner DEF Simple
  <1> QED
    BY <1>2, <1>3, <1>4, <1>5

LEMMA SimpleDraws ==
  ASSUME TypeOK, OneClass, AllJoined, NEW b \in Browsers, Drawn(b), NEW h, Simple(tab[b].canvas, h),
         tab' = [tab EXCEPT ![b].canvas = h]
  PROVE  (\E x : Draws(b, x)) /\ SameTold(b)
  BY SimpleAgrees, CanvasDraws

LEMMA CardsDraw ==
  ASSUME TypeOK, OneClass, AllJoined, NEW b \in Browsers, Drawn(b), NEW C,
         Parts(KeysOf(tab[b].canvas), C, tab[b].canvas.edges),
         \A x \in KeysOf(tab[b].canvas) : Class(C[x]) = Class(tab[b].canvas.cards[x]) /\ C[x].kind # "bundle",
         Edit(b, [tab[b].canvas EXCEPT !.cards = C])
  PROVE  (\E x : Draws(b, x)) /\ SameTold(b)
  <1> DEFINE g == tab[b].canvas
             h == [g EXCEPT !.cards = C]
  <1>1. IsGraph(g)
    BY OldDrawing
  <1>2. IsGraph(h) /\ KeysOf(h) = KeysOf(g) /\ h.cards = C /\ h.edges = g.edges
    <2> HIDE DEF g
    <2> QED
      BY <1>1, CardsMake DEF g
  <1>3. tab' = [tab EXCEPT ![b].canvas = h]
    BY DEF Edit
  <1> HIDE DEF h
  <1>4. Simple(g, h)
    BY <1>2 DEF Simple
  <1> QED
    BY <1>3, <1>4, SimpleDraws

LEMMA EditingDraws ==
  ASSUME TypeOK, OneClass, AllJoined, NEW b \in Browsers, Drawn(b), Editing(b)
  PROVE  (\E h : Draws(b, h)) /\ SameTold(b)
  <1> DEFINE g == tab[b].canvas
  <1>1. IsTab(tab[b])
    BY DEF TypeOK
  <1>2. g \in InPlay /\ Agrees(g) /\ IsGraph(g) /\ Bundles(g) = {}
    BY OldDrawing
  <1>3. tab[b].again \/ Acyclic(g)
    BY DEF Drawn
  <1> DEFINE Goal == (\E h : Draws(b, h)) /\ SameTold(b)
  <1>4. \A k \in KeysOf(g) : g.cards[k].kind # "bundle" /\ k \in InUse
    BY <1>2, InPlayAgrees DEF Bundles, KindOf
  <1> HIDE DEF Goal
  <1>7. CASE add(b)
    <2>1. PICK kind \in Addable :
            Edit(b, Put(g, freshKey, [kind |-> kind, set |-> kind \notin {"feed", "publish"}]))
      BY <1>7 DEF add
    <2> DEFINE card == [kind |-> kind, set |-> kind \notin {"feed", "publish"}]
               h == Put(g, freshKey, card)
    <2>2. card \in Card /\ card.kind # "bundle"
      BY BuilderConstants DEF Card
    <2>3. freshKey \in Nat /\ freshKey \notin InUse
      BY Fresh
    <2>4. /\ IsGraph(h) /\ KeysOf(h) = KeysOf(g) \cup {freshKey} /\ h.edges = g.edges
          /\ \A x \in KeysOf(h) : h.cards[x] = IF x = freshKey THEN card ELSE g.cards[x]
      <3> HIDE DEF g, card
      <3> QED
        BY <1>2, <2>2, <2>3, PutMakes
    <2>5. tab' = [tab EXCEPT ![b].canvas = h]
      BY <2>1 DEF Edit
    <2>6. Simple(g, h)
      <3> HIDE DEF g, card, h
      <3> QED
        BY <1>4, <2>2, <2>3, <2>4 DEF Simple
    <2> HIDE DEF h
    <2> QED
      BY <2>5, <2>6, SimpleDraws DEF Goal
  <1>9. CASE update(b)
    <2>1. PICK k \in KeysOf(g) : Edit(b, [g EXCEPT !.cards[k].set = ~@])
      BY <1>9 DEF update
    <2> DEFINE C == [g.cards EXCEPT ![k].set = ~@]
    <2>2. [g EXCEPT !.cards[k].set = ~@] = [g EXCEPT !.cards = C]
      OBVIOUS
    <2>3. g.cards[k] \in Card /\ [g.cards[k] EXCEPT !.set = ~@] \in Card
      <3>1. g.cards[k] \in Card
        BY <1>2, Made
      <3>2. [g.cards[k] EXCEPT !.set = ~@] \in Card
        BY <3>1 DEF Card
      <3> QED
        BY <3>1, <3>2
    <2>4. C \in [KeysOf(g) -> Card]
      BY <1>2, <2>3, Made
    <2>5. Parts(KeysOf(g), C, g.edges)
      BY <1>2, <2>4, Made DEF Parts
    <2>6. \A x \in KeysOf(g) : C[x].kind = g.cards[x].kind
      BY <1>2, <2>3, Made DEF Card
    <2>7. \A x \in KeysOf(g) : Class(C[x]) = Class(g.cards[x]) /\ C[x].kind # "bundle"
      BY <1>4, <2>6 DEF Class
    <2>8. Edit(b, [g EXCEPT !.cards = C])
      BY <2>1, <2>2
    <2> HIDE DEF C
    <2> QED
      BY <2>5, <2>7, <2>8, CardsDraw DEF Goal
  <1>10. CASE switchSource(b)
    <2>1. PICK k \in KeysOf(g), kind \in {"feed", "manual"} :
            /\ KindOf(g, k) \in {"feed", "manual"}
            /\ Edit(b, [g EXCEPT !.cards[k] = [kind |-> kind, set |-> kind = "manual"]])
      BY <1>10 DEF switchSource
    <2> DEFINE card == [kind |-> kind, set |-> kind = "manual"]
               C == [g.cards EXCEPT ![k] = card]
    <2>2. [g EXCEPT !.cards[k] = card] = [g EXCEPT !.cards = C]
      OBVIOUS
    <2>3. card \in Card
      BY DEF Card, Kinds, SourceKinds
    <2>4. C \in [KeysOf(g) -> Card]
      BY <1>2, <2>3, Made
    <2>5. Parts(KeysOf(g), C, g.edges)
      BY <1>2, <2>4, Made DEF Parts
    <2>6. \A x \in KeysOf(g) : C[x] = IF x = k THEN card ELSE g.cards[x]
      BY <1>2, Made
    <2>7. \A x \in KeysOf(g) : Class(C[x]) = Class(g.cards[x]) /\ C[x].kind # "bundle"
      BY <1>4, <2>1, <2>6 DEF Class, KindOf, SourceKinds
    <2>8. Edit(b, [g EXCEPT !.cards = C])
      BY <2>1, <2>2
    <2> HIDE DEF C
    <2> QED
      BY <2>5, <2>7, <2>8, CardsDraw DEF Goal
  <1>11. CASE removeEdge(b)
    <2>1. PICK e \in g.edges : Edit(b, [g EXCEPT !.edges = g.edges \ {e}])
      BY <1>11 DEF removeEdge
    <2> DEFINE E == g.edges \ {e}
               h == [g EXCEPT !.edges = E]
    <2>2. Parts(KeysOf(g), g.cards, E)
      BY <1>2, Made DEF Parts
    <2>3. IsGraph(h) /\ KeysOf(h) = KeysOf(g) /\ h.cards = g.cards /\ h.edges = E
      <3> HIDE DEF E, g
      <3> QED
        BY <1>2, <2>2, EdgesMake
    <2>4. tab' = [tab EXCEPT ![b].canvas = h]
      BY <2>1 DEF Edit
    <2>5. Simple(g, h)
      <3> HIDE DEF g, h
      <3> QED
        BY <1>4, <2>3 DEF Simple
    <2> HIDE DEF h
    <2> QED
      BY <2>4, <2>5, SimpleDraws DEF Goal
  <1>12. CASE connect(b)
    <2>1. PICK from \in KeysOf(g), to \in KeysOf(g) :
            /\ Directed(g, from, to) /\ ~Closes(g, from, to)
            /\ Edit(b, [g EXCEPT !.edges = g.edges \cup {<<from, to>>}])
      BY <1>12 DEF connect
    <2> DEFINE E == g.edges \cup {<<from, to>>}
               h == [g EXCEPT !.edges = E]
    <2>2. Parts(KeysOf(g), g.cards, E)
      BY <1>2, Made DEF Parts
    <2>3. IsGraph(h) /\ KeysOf(h) = KeysOf(g) /\ h.cards = g.cards /\ h.edges = E
      <3> HIDE DEF E, g
      <3> QED
        BY <1>2, <2>2, EdgesMake
    <2>4. tab' = [tab EXCEPT ![b].canvas = h]
      BY <2>1 DEF Edit
    <2> HIDE DEF h
    <2>5. Agrees(h)
      <3>1. \A e \in h.edges : e \in g.edges \/ Directed(g, e[1], e[2])
        BY <2>1, <2>3
      <3> QED
        BY <1>2, <2>3, <3>1, JoinedAgrees
    <2>6. Bundles(h) = {}
      BY <1>2, <2>3 DEF Bundles, KindOf
    <2>7. Acyclic(g) => Acyclic(h)
      <3> HIDE DEF g
      <3> QED
        BY <1>2, <2>1, <2>3, NoCircleDrawn
    <2> QED
      <3> HIDE DEF g
      <3> QED
        BY <1>3, <2>4, <2>5, <2>6, <2>7, CanvasDraws DEF Goal
  <1>13. CASE remove(b)
    <2> DEFINE Out(k) == [key |-> k, card |-> g.cards[k], edges |-> {e \in g.edges : k \in {e[1], e[2]}}]
    <2>1. PICK k \in KeysOf(g) :
            tab' = [tab EXCEPT ![b].canvas = Removal(g, k), ![b].removed = Out(k)]
      BY <1>13 DEF remove, Removal
    <2> DEFINE h == Removal(g, k)
               out == Out(k)
    <2>2. /\ IsGraph(h) /\ KeysOf(h) = KeysOf(g) \ {k} /\ h.edges \subseteq g.edges
          /\ \A x \in KeysOf(h) : h.cards[x] = g.cards[x]
      BY <1>2, RemovalMakes
    <2>3. Simple(g, h)
      <3> HIDE DEF g, h
      <3> QED
        BY <1>4, <2>2 DEF Simple
    <2>4. Agrees(h) /\ Bundles(h) = {} /\ (tab[b].again \/ Acyclic(h))
      <3> HIDE DEF h
      <3> QED
        BY <2>3, SimpleAgrees
    <2>5. Taken(out) /\ out.card.kind # "bundle"
      <3>1. Mark(k, Class(g.cards[k]))
        BY <1>2, InPlayAgrees
      <3>2. ASSUME NEW e \in g.edges PROVE Joined(e) /\ e[1] \in InUse /\ e[2] \in InUse
        <4>1. e[1] \in KeysOf(g) /\ e[2] \in KeysOf(g)
          BY <1>2, Edges
        <4>2. Directed(g, e[1], e[2])
          BY <1>2 DEF Agrees
        <4>3. e[1] # e[2] /\ Class(g.cards[e[1]]) # "output" /\ Class(g.cards[e[2]]) # "source"
          BY <1>2, <4>1, <4>2, DirectedIs
        <4>4. Mark(e[1], Class(g.cards[e[1]])) /\ Mark(e[2], Class(g.cards[e[2]]))
          BY <1>2, <4>1, InPlayAgrees
        <4>5. Class(g.cards[e[1]]) \in Classes /\ Class(g.cards[e[2]]) \in Classes
          BY <1>2, <4>1, ClassIs
        <4>6. e[1] \in InUse /\ e[2] \in InUse
          BY <1>4, <4>1
        <4> QED
          BY <4>3, <4>4, <4>5, <4>6 DEF Joined, OneClass, Classes
      <3>3. out.key = k /\ out.card = g.cards[k] /\ out.edges \subseteq g.edges
        OBVIOUS
      <3> HIDE DEF out
      <3> QED
        BY <1>4, <3>1, <3>2, <3>3 DEF Taken
    <2> HIDE DEF h, out
    <2>6. tab'[b] = [tab[b] EXCEPT !.canvas = h, !.removed = out] /\ \A x \in Browsers \ {b} : tab'[x] = tab[x]
      BY <1>1, <2>1 DEF h, out, TypeOK, IsTab
    <2>7. tab'[b].canvas = h /\ tab'[b].removed = out /\ tab'[b].again = tab[b].again /\ SameTold(b)
      BY <1>1, <2>6 DEF IsTab, SameTold
    <2> QED
      BY <2>4, <2>5, <2>6, <2>7 DEF Draws, Goal
  <1>14. CASE undo(b)
    <2> DEFINE h == PutBack(g, tab[b].removed)
               out == tab[b].removed
    <2>1. out \in Lifted /\ out.card.kind # "bundle"
      BY <1>14, OldDrawing DEF undo
    <2>2. Agrees(h)
      BY <1>2, <2>1, PutBackAgrees
    <2>3. Bundles(h) = {}
      <3>1. IsRemoved(out)
        BY <2>1, GraphsInPlay
      <3>2. /\ KeysOf(h) = KeysOf(g) \cup {out.key}
            /\ \A x \in KeysOf(h) : h.cards[x] = IF x \in KeysOf(g) THEN g.cards[x] ELSE out.card
        BY <1>2, <3>1, PutBackMakes
      <3> HIDE DEF h, g, out
      <3> QED
        BY <1>4, <2>1, <3>2 DEF Bundles, KindOf
    <2>4. tab' = [tab EXCEPT ![b].canvas = h, ![b].removed = NoCard, ![b].again = TRUE]
      BY <1>14 DEF undo
    <2> HIDE DEF h
    <2>5. tab'[b] = [tab[b] EXCEPT !.canvas = h, !.removed = NoCard, !.again = TRUE]
          /\ \A x \in Browsers \ {b} : tab'[x] = tab[x]
      BY <1>1, <2>4 DEF TypeOK, IsTab
    <2>6. tab'[b].canvas = h /\ tab'[b].removed = NoCard /\ tab'[b].again /\ SameTold(b)
      BY <1>1, <2>5 DEF IsTab, SameTold
    <2> QED
      BY <2>2, <2>3, <2>5, <2>6 DEF Draws, Goal
  <1>15. CASE applyGeneratedWorkflow(b)
    <2>1. PICK x \in Templates : tab' = [tab EXCEPT ![b].auto = FALSE, ![b].canvas = Suggested(x)]
      BY <1>15 DEF applyGeneratedWorkflow
    <2>2. IsGraph(x) /\ Acyclic(x) /\ Bundles(x) = {} /\ \A e \in x.edges : Directed(x, e[1], e[2])
      BY BuilderConstants DEF Templates, Bundles
    <2> DEFINE h == Suggested(x)
    <2>3. /\ IsGraph(h) /\ Acyclic(h) /\ Bundles(h) = {} /\ KeysOf(h) \cap InUse = {}
          /\ \A e \in h.edges : Directed(h, e[1], e[2])
      BY <2>2, SuggestedMakes
    <2>4. Agrees(h)
      <3> HIDE DEF h
      <3> QED
        BY <2>3 DEF Agrees
    <2> HIDE DEF h
    <2>5. tab'[b] = [tab[b] EXCEPT !.auto = FALSE, !.canvas = h] /\ \A y \in Browsers \ {b} : tab'[y] = tab[y]
      BY <1>1, <2>1 DEF h, TypeOK, IsTab
    <2>6. /\ tab'[b].canvas = h /\ tab'[b].removed = tab[b].removed /\ tab'[b].again = tab[b].again
          /\ SameTold(b)
      BY <1>1, <2>5 DEF IsTab, SameTold
    <2> QED
      BY <2>3, <2>4, <2>5, <2>6, OldDrawing DEF Draws, Goal
  <1> QED
    BY <1>7, <1>9, <1>10, <1>11, <1>12, <1>13, <1>14, <1>15 DEF Editing, Goal

-----------------------------------------------------------------------------
(* Stored versions stay, whoever saves or deletes what.                     *)

\* A workflow that was saved once is saved or deleted for good, and its
\* versions stay under their numbers while it is stored.
FlowGrows ==
  \A w \in Flows :
    Once(w) =>
      /\ Once(w)'
      /\ Stored(w)' =>
           /\ Stored(w)
           /\ \A n \in 1 .. Current(w) :
                n \in 1 .. Current(w)' /\ flow'[w].versions[n] = flow[w].versions[n]

LEMMA SameFlows ==
  ASSUME flow' = flow
  PROVE  /\ FlowGrows
         /\ \A w \in Flows : FlowKept(w) => FlowKept(w)'
         /\ WithinPlan => WithinPlan'
  <1>1. FlowGrows
    BY DEF FlowGrows, Once, Stored, Current
  <1>2. \A w \in Flows : FlowKept(w) => FlowKept(w)'
    BY DEF FlowKept, Current
  <1>3. WithinPlan => WithinPlan'
    BY DEF WithinPlan, Active
  <1> QED
    BY <1>1, <1>2, <1>3

LEMMA FlowStays ==
  ASSUME FlowGrows, NEW w \in Flows, flow[w].status # "none"
  PROVE  /\ flow'[w].status # "none"
         /\ flow'[w].status \in {"draft", "active"} =>
              /\ flow[w].status \in {"draft", "active"}
              /\ \A n \in 1 .. Len(flow[w].versions) :
                   n \in 1 .. Len(flow'[w].versions) /\ flow'[w].versions[n] = flow[w].versions[n]
  BY DEF FlowGrows, Once, Stored, Current

LEMMA CallStays ==
  ASSUME TypeOK, FlowGrows, NEW c \in Calls, CallKept(c), call'[c] = call[c]
  PROVE  CallKept(c)'
  <1> DEFINE x == call[c]
  <1>1. /\ Bundles(x.graph) = {}
        /\ x.state = "judged" => Accepted(x, x.read)
    BY DEF CallKept
  <1>2. ASSUME x.state = "done"
        PROVE  /\ x.flow \in Flows /\ flow'[x.flow].status # "none"
               /\ flow'[x.flow].status \in {"draft", "active"} =>
                    /\ x.version \in 1 .. Len(flow'[x.flow].versions)
                    /\ flow'[x.flow].versions[x.version] = x.graph
    <2>1. /\ x.flow \in Flows /\ flow[x.flow].status # "none"
          /\ flow[x.flow].status \in {"draft", "active"} =>
               x.version \in 1 .. Len(flow[x.flow].versions) /\ flow[x.flow].versions[x.version] = x.graph
      BY <1>2 DEF CallKept, Once, Stored, Current
    <2> HIDE DEF x
    <2> QED
      BY <2>1, FlowStays
  <1> QED
    BY <1>1, <1>2 DEF CallKept, Stored, Once, Current

LEMMA ToldStays ==
  ASSUME TypeOK, FlowGrows, NEW b \in Browsers, Told(b), SameTold(b)
  PROVE  Told(b)'
  <1> DEFINE t == tab[b]
             a == t.agreed
  <1>1. IsTab(t)
    BY DEF TypeOK
  <1>2. t.page \in {"opening", "loading"} => flow'[t.target].status # "none"
    <2> SUFFICES ASSUME t.page \in {"opening", "loading"} PROVE flow'[t.target].status # "none"
      OBVIOUS
    <2>1. t.target \in Flows /\ flow[t.target].status # "none"
      BY <1>1 DEF IsTab, Told, Once
    <2> HIDE DEF t
    <2> QED
      BY <2>1, FlowStays
  <1>3. ASSUME t.flow # Nothing
        PROVE  /\ t.flow = a.flow /\ flow'[a.flow].status # "none" /\ t.saved.auto = a.active
               /\ flow'[a.flow].status \in {"draft", "active"} =>
                    /\ a.version \in 1 .. Len(flow'[a.flow].versions)
                    /\ t.saved.graph = migrate(flow'[a.flow].versions[a.version], a.key)
    <2>1. /\ t.flow = a.flow /\ flow[a.flow].status # "none" /\ t.saved.auto = a.active
          /\ flow[a.flow].status \in {"draft", "active"} =>
               /\ a.version \in 1 .. Len(flow[a.flow].versions)
               /\ t.saved.graph = migrate(flow[a.flow].versions[a.version], a.key)
      BY <1>3 DEF Told, Once, Stored, Current
    <2>2. a.flow \in Flows
      BY <1>1, <1>3, <2>1 DEF IsTab
    <2> HIDE DEF t, a
    <2> QED
      BY <2>1, <2>2, FlowStays
  <1> QED
    BY <1>2, <1>3 DEF Told, SameTold, Once, Stored, Current

LEMMA OthersStay ==
  ASSUME TypeOK, FlowGrows, NEW b \in Browsers, TabKept(b), tab'[b] = tab[b]
  PROVE  TabKept(b)'
  <1>1. Drawn(b) /\ Told(b)
    BY TabKeptParts
  <1>2. Drawn(b)'
    BY <1>1 DEF Drawn
  <1>3. Told(b)'
    BY <1>1, ToldStays DEF SameTold
  <1> QED
    BY <1>2, <1>3, TabKeptPartsNext

\* A step of one editor, of which what it draws is all that is new.
LEMMA DrawsKeep ==
  ASSUME TypeOK, FlowGrows, \A b \in Browsers : TabKept(b),
         NEW b \in Browsers, NEW h, Draws(b, h), Told(b)'
  PROVE  \A x \in Browsers : TabKept(x)'
  <1>1. Drawn(b)'
    BY DEF Drawn, Draws
  <1>2. TabKept(b)'
    BY <1>1, TabKeptPartsNext
  <1>3. \A x \in Browsers \ {b} : TabKept(x)'
    BY OthersStay DEF Draws
  <1> QED
    BY <1>2, <1>3

-----------------------------------------------------------------------------
(* What the steps of an editor leave on its canvas and in its snapshot.     *)

Elsewhere(b) == \A x \in Browsers \ {b} : tab'[x] = tab[x]

LEMMA QuietDraws ==
  ASSUME TypeOK, OneClass, AllJoined, NEW b \in Browsers, Drawn(b), Elsewhere(b),
         tab'[b].canvas = tab[b].canvas, tab'[b].again = tab[b].again,
         tab'[b].removed \in {tab[b].removed, NoCard}
  PROVE  Draws(b, tab[b].canvas)
  BY OldDrawing DEF Draws, Drawn, Elsewhere

LEMMA OneTab ==
  ASSUME TypeOK, NEW b \in Browsers, NEW t, tab' = [tab EXCEPT ![b] = t]
  PROVE  tab'[b] = t /\ Elsewhere(b)
  BY DEF TypeOK, Elsewhere

LEMMA OpenNewDraws ==
  ASSUME TypeOK, AllJoined, NEW b \in Browsers, OpenNew(b)
  PROVE  (\E h : Draws(b, h)) /\ Told(b)'
  <1>1. PICK h \in Templates \cup {EmptyGraph} :
          tab' = [tab EXCEPT ![b] = [Blank EXCEPT !.page = "ready", !.canvas = h]]
    BY DEF OpenNew
  <1>2. tab'[b] = [Blank EXCEPT !.page = "ready", !.canvas = h] /\ Elsewhere(b)
    BY <1>1, OneTab
  <1>3. Agrees(h) /\ Bundles(h) = {} /\ Acyclic(h)
    <2>1. CASE h \in Templates
      <3>1. h \in InPlay /\ Acyclic(h) /\ Bundles(h) = {}
        BY <2>1, BuilderConstants DEF Templates, InPlay, Bundles
      <3> QED
        BY <3>1, InPlayAgrees
    <2>2. CASE h = EmptyGraph
      BY <2>2, EmptyAgrees, Emptiness
    <2> QED
      BY <2>1, <2>2
  <1>4. /\ tab'[b].page = "ready" /\ tab'[b].canvas = h /\ tab'[b].removed = NoCard
        /\ tab'[b].flow = Nothing
    BY <1>2 DEF Blank
  <1>5. Draws(b, h)
    BY <1>2, <1>3, <1>4 DEF Draws, Elsewhere
  <1> QED
    BY <1>4, <1>5 DEF Told

LEMMA LoadVersionDraws ==
  ASSUME TypeOK, OneClass, AllJoined, \A w \in Flows : FlowKept(w),
         NEW b \in Browsers, Drawn(b), Told(b), LoadVersion(b)
  PROVE  (\E h : Draws(b, h)) /\ Told(b)'
  <1> DEFINE w == tab[b].target
             key == freshKey
             v == flow[w].versions[Current(w)]
             h == IF Stored(w) THEN migrate(v, key) ELSE EmptyGraph
             t == [tab[b] EXCEPT !.page = "ready", !.flow = w,
                     !.target = Nothing, !.row = FALSE, !.canvas = h, !.auto = tab[b].row, !.again = FALSE,
                     !.saved = [graph |-> h, auto |-> tab[b].row],
                     !.agreed = [flow |-> w, version |-> Current(w), active |-> tab[b].row, key |-> key]]
  <1>1. IsTab(tab[b]) /\ w \in Flows /\ Once(w) /\ flow' = flow
    BY DEF TypeOK, IsTab, LoadVersion, Told, api
  <1>2. ASSUME Stored(w) PROVE Current(w) \in 1 .. Current(w) /\ v \in InPlay
    <2>1. IsFlow(flow[w])
      BY <1>1 DEF TypeOK
    <2>2. Current(w) > 0
      BY <1>2, <2>1 DEF IsFlow, Stored, Current
    <2>3. Current(w) \in 1 .. Current(w)
      BY <1>1, <2>2, LengthsAreNumbers
    <2> QED
      BY <1>1, <2>3 DEF InPlay
  <1>3. Agrees(h) /\ Bundles(h) = {} /\ Acyclic(h)
    <2>1. CASE Stored(w)
      <3>1. Acyclic(v) /\ \A k, l \in Bundles(v) : k = l
        BY <1>1, <1>2, <2>1 DEF FlowKept
      <3> HIDE DEF v, w
      <3> QED
        BY <1>2, <2>1, <3>1, MigrateAgrees
    <2>2. CASE ~Stored(w)
      BY <2>2, EmptyAgrees, Emptiness
    <2> QED
      BY <2>1, <2>2
  <1>4. tab' = [tab EXCEPT ![b] = t]
    <2>1. LoadVersion(b) /\ TabsOK
      BY TypeParts
    <2> HIDE DEF h, key
    <2> QED
      BY <1>1, <2>1, ZenonT(60) DEF LoadVersion, TabsOK, IsTab, h, key
  <1>5. tab'[b] = t /\ Elsewhere(b)
    <2> HIDE DEF t
    <2> QED
      BY <1>4, OneTab
  <1> HIDE DEF h, key
  <1>6. /\ tab'[b].page = "ready" /\ tab'[b].canvas = h /\ tab'[b].removed = tab[b].removed
        /\ tab'[b].flow = w /\ tab'[b].saved = [graph |-> h, auto |-> tab[b].row]
        /\ tab'[b].agreed = [flow |-> w, version |-> Current(w), active |-> tab[b].row, key |-> key]
    BY <1>1, <1>5 DEF IsTab
  <1>7. Draws(b, h)
    BY <1>3, <1>5, <1>6, OldDrawing DEF Draws, Elsewhere
  <1>8. Told(b)'
    <2>1. Stored(w) => h = migrate(v, key)
      BY DEF h
    <2> HIDE DEF w
    <2> QED
      BY <1>1, <1>2, <1>6, <2>1 DEF Told, Once, Stored, Current
  <1> QED
    BY <1>7, <1>8

\* Steps of an editor that neither ask nor answer.
LEMMA AloneDraws ==
  ASSUME TypeOK, OneClass, AllJoined, \A w \in Flows : FlowKept(w),
         NEW b \in Browsers, TabKept(b), Browsing(b), UNCHANGED api,
         ~Answered(b), \A active \in BOOLEAN : ~save(b, active)
  PROVE  (\E h : Draws(b, h)) /\ Told(b)'
  <1> DEFINE Goal == (\E h : Draws(b, h)) /\ Told(b)'
  <1>1. Drawn(b) /\ Told(b) /\ IsTab(tab[b])
    BY TabKeptParts DEF TypeOK
  <1>2. flow' = flow /\ FlowGrows
    BY SameFlows DEF api
  <1>3. ASSUME NEW w \in Flows, Open(b, w) PROVE Goal
    <2>1. tab'[b] = [Blank EXCEPT !.page = "opening", !.target = w] /\ Elsewhere(b)
      BY <1>3, OneTab DEF Open
    <2>2. /\ tab'[b].page = "opening" /\ tab'[b].target = w /\ tab'[b].canvas = EmptyGraph
          /\ tab'[b].removed = NoCard /\ tab'[b].flow = Nothing
      BY <2>1 DEF Blank
    <2>3. Draws(b, EmptyGraph)
      BY <2>1, <2>2, EmptyAgrees, Emptiness DEF Draws, Elsewhere
    <2>4. Told(b)'
      BY <1>2, <1>3, <2>2 DEF Told, Open, Stored, Once
    <2> QED
      BY <2>3, <2>4
  <1>4. CASE LoadRow(b)
    <2> DEFINE t == [tab[b] EXCEPT !.page = IF Stored(tab[b].target) THEN "loading" ELSE "ready",
                                   !.row = flow[tab[b].target].status = "active",
                                   !.target = IF Stored(@) THEN @ ELSE Nothing]
    <2>1. tab' = [tab EXCEPT ![b] = t]
      BY <1>1, <1>4 DEF LoadRow, TypeOK, IsTab
    <2>2. tab'[b] = t /\ Elsewhere(b)
      <3> HIDE DEF t
      <3> QED
        BY <2>1, OneTab
    <2>3. /\ tab'[b].canvas = tab[b].canvas /\ tab'[b].again = tab[b].again /\ tab'[b].removed = tab[b].removed
          /\ tab'[b].flow = tab[b].flow
          /\ tab'[b].saved = tab[b].saved /\ tab'[b].agreed = tab[b].agreed
          /\ tab'[b].page # "opening"
          /\ tab'[b].page = "loading" => tab'[b].target = tab[b].target /\ Stored(tab[b].target)
      BY <1>1, <2>2 DEF IsTab
    <2>4. Draws(b, tab[b].canvas)
      BY <1>1, <2>2, <2>3, QuietDraws
    <2>5. Told(b)'
      BY <1>1, <1>2, <2>3 DEF Told, Stored, Once, Current
    <2> QED
      BY <2>4, <2>5
  <1>5. CASE LoadFails(b)
    <2> DEFINE t == [tab[b] EXCEPT !.page = "ready", !.target = Nothing, !.row = FALSE]
    <2>1. tab' = [tab EXCEPT ![b] = t]
      BY <1>1, <1>5 DEF LoadFails, TypeOK, IsTab
    <2>2. tab'[b] = t /\ Elsewhere(b)
      <3> HIDE DEF t
      <3> QED
        BY <2>1, OneTab
    <2>3. /\ tab'[b].canvas = tab[b].canvas /\ tab'[b].again = tab[b].again /\ tab'[b].removed = tab[b].removed
          /\ tab'[b].flow = tab[b].flow
          /\ tab'[b].saved = tab[b].saved /\ tab'[b].agreed = tab[b].agreed
          /\ tab'[b].page = "ready"
      BY <1>1, <2>2 DEF IsTab
    <2>4. Draws(b, tab[b].canvas)
      BY <1>1, <2>2, <2>3, QuietDraws
    <2>5. Told(b)'
      BY <1>1, <1>2, <2>3 DEF Told, Stored, Once, Current
    <2> QED
      BY <2>4, <2>5
  <1>6. CASE Close(b)
    <2>1. tab'[b] = Blank /\ Elsewhere(b)
      BY <1>6, OneTab DEF Close
    <2>2. /\ tab'[b].page = "closed" /\ tab'[b].canvas = EmptyGraph
          /\ tab'[b].removed = NoCard /\ tab'[b].flow = Nothing
      BY <2>1 DEF Blank
    <2>3. Draws(b, EmptyGraph)
      BY <2>1, <2>2, EmptyAgrees, Emptiness DEF Draws, Elsewhere
    <2>4. Told(b)'
      BY <2>2 DEF Told
    <2> QED
      BY <2>3, <2>4
  <1>7. CASE AnswerLost(b)
    <2> DEFINE t == [tab[b] EXCEPT !.busy = Nothing]
    <2>1. tab' = [tab EXCEPT ![b] = t]
      BY <1>7 DEF AnswerLost
    <2>2. tab'[b] = t /\ Elsewhere(b)
      <3> HIDE DEF t
      <3> QED
        BY <2>1, OneTab
    <2>3. /\ tab'[b].canvas = tab[b].canvas /\ tab'[b].again = tab[b].again /\ tab'[b].removed = tab[b].removed
          /\ SameTold(b)
      BY <1>1, <2>2 DEF IsTab, SameTold
    <2>4. Draws(b, tab[b].canvas)
      BY <1>1, <2>2, <2>3, QuietDraws
    <2> QED
      BY <1>1, <1>2, <2>3, <2>4, ToldStays
  <1>8. CASE Editing(b)
    BY <1>1, <1>2, <1>8, EditingDraws, ToldStays
  <1>9. CASE OpenNew(b)
    BY <1>9, OpenNewDraws
  <1>10. CASE LoadVersion(b)
    BY <1>1, <1>10, LoadVersionDraws
  <1> QED
    BY <1>3, <1>4, <1>5, <1>6, <1>7, <1>8, <1>9, <1>10 DEF Browsing

-----------------------------------------------------------------------------
(* What the steps of a save leave in the workflows and in its answer.       *)

LEMMA CountActive ==
  ASSUME TypeOK, WithinPlan, NEW w \in Flows,
         \A x \in Flows \ {w} : flow'[x] = flow[x],
         flow'[w].status = "active" => flow[w].status = "active" \/ Cardinality(Active) < MaxActive
  PROVE  WithinPlan'
  <1>1. IsFiniteSet(Flows) /\ MaxActive \in Nat
    BY WorkflowConstants
  <1>2. IsFiniteSet(Active) /\ Cardinality(Active) \in Nat
    BY <1>1, FS_Subset, FS_CardinalityType DEF Active
  <1>3. CASE Active' \subseteq Active
    BY <1>1, <1>2, <1>3, FS_Subset, FS_CardinalityType DEF WithinPlan
  <1>4. CASE ~(Active' \subseteq Active)
    <2>1. Active' \subseteq Active \cup {w} /\ w \in Active' /\ w \notin Active
      BY <1>4 DEF Active
    <2>2. flow'[w].status = "active" /\ flow[w].status # "active"
      BY <2>1 DEF Active
    <2>3. Cardinality(Active) < MaxActive
      BY <2>2
    <2>4. IsFiniteSet(Active \cup {w}) /\ Cardinality(Active \cup {w}) = Cardinality(Active) + 1
      BY <1>2, <2>1, FS_AddElement
    <2>5. Cardinality(Active') <= Cardinality(Active \cup {w})
      BY <2>1, <2>4, FS_Subset
    <2>6. Cardinality(Active') \in Nat
      BY <2>1, <2>4, FS_Subset, FS_CardinalityType
    <2> QED
      BY <1>1, <1>2, <2>3, <2>4, <2>5, <2>6 DEF WithinPlan
  <1> QED
    BY <1>3, <1>4

\* What the server holds after a step: workflows, saves and places.
ServerKept ==
  /\ \A w \in Flows : FlowKept(w)
  /\ \A c \in Calls : CallKept(c)
  /\ WithinPlan

\* The graphs a step leaves with the server are those there were, and g.
ServerAdds(g) ==
  /\ \A c \in Calls : call'[c].graph \in InPlay \cup {g}
  /\ \A w \in Flows : \A n \in 1 .. Current(w)' : flow'[w].versions[n] \in InPlay \cup {g}

LEMMA OneCall ==
  ASSUME TypeOK, NEW c \in Calls, NEW x, call' = [call EXCEPT ![c] = x]
  PROVE  call'[c] = x /\ \A d \in Calls \ {c} : call'[d] = call[d]
  BY DEF TypeOK

LEMMA FlowsAdd ==
  ASSUME flow' = flow
  PROVE  \A w \in Flows : \A n \in 1 .. Current(w)' : flow'[w].versions[n] \in InPlay
  BY DEF Current, InPlay

LEMMA CallsAreInPlay ==
  ASSUME NEW c \in Calls
  PROVE  call[c].graph \in InPlay
  BY DEF InPlay

\* A save takes a step that leaves the workflows alone.
LEMMA CallStep ==
  ASSUME TypeOK, ServerKept, NEW c \in Calls, NEW x, call' = [call EXCEPT ![c] = x], flow' = flow,
         Bundles(x.graph) = {}, x.state # "done",
         x.state = "judged" => Accepted(x, x.read),
         NEW g, x.graph \in InPlay \cup {g}
  PROVE  ServerKept' /\ FlowGrows /\ ServerAdds(g)
  <1>1. FlowGrows /\ (\A w \in Flows : FlowKept(w)') /\ WithinPlan'
    BY SameFlows DEF ServerKept
  <1>2. call'[c] = x /\ \A d \in Calls \ {c} : call'[d] = call[d]
    BY OneCall
  <1>3. \A d \in Calls \ {c} : CallKept(d)'
    BY <1>1, <1>2, CallStays DEF ServerKept
  <1>4. CallKept(c)'
    BY <1>2 DEF CallKept
  <1>5. ServerAdds(g)
    BY <1>2, FlowsAdd, CallsAreInPlay DEF ServerAdds
  <1> QED
    BY <1>1, <1>3, <1>4, <1>5 DEF ServerKept

LEMMA NoCallStep ==
  ASSUME TypeOK, ServerKept, NEW c \in Calls, call' = [call EXCEPT ![c] = NoCall], flow' = flow
  PROVE  ServerKept' /\ FlowGrows /\ ServerAdds(EmptyGraph)
  <1>1. NoCall.graph = EmptyGraph /\ NoCall.state = "free"
    BY DEF NoCall
  <1>2. Bundles(NoCall.graph) = {} /\ NoCall.graph \in InPlay \cup {EmptyGraph}
    BY <1>1, Emptiness
  <1> HIDE DEF NoCall
  <1> QED
    BY <1>1, <1>2, CallStep

\* A save is refused.
LEMMA RefusedStep ==
  ASSUME TypeOK, ServerKept, NEW c \in Calls, To(c, "refused"), flow' = flow
  PROVE  ServerKept' /\ FlowGrows /\ ServerAdds(EmptyGraph)
  <1> DEFINE x == [call[c] EXCEPT !.state = "refused"]
  <1>1. IsCall(call[c])
    BY DEF TypeOK
  <1>2. x.graph = call[c].graph /\ x.state = "refused"
    BY <1>1 DEF IsCall
  <1>3. Bundles(call[c].graph) = {} /\ call[c].graph \in InPlay
    BY CallsAreInPlay DEF ServerKept, CallKept
  <1>4. call' = [call EXCEPT ![c] = x]
    BY DEF To
  <1> HIDE DEF x
  <1> QED
    BY <1>2, <1>3, <1>4, CallStep

\* A save passes its checks, against the row it keeps.
LEMMA PassedStep ==
  ASSUME TypeOK, ServerKept, NEW c \in Calls, flow' = flow, Passes(c),
         call' = [call EXCEPT ![c].state = "judged", ![c].read = Row(c)]
  PROVE  ServerKept' /\ FlowGrows /\ ServerAdds(EmptyGraph)
  <1> DEFINE r == Row(c)
             x == [call[c] EXCEPT !.state = "judged", !.read = r]
  <1>1. IsCall(call[c])
    BY DEF TypeOK
  <1>2. call' = [call EXCEPT ![c] = x]
    BY <1>1 DEF TypeOK, IsCall
  <1>3. Accepted(call[c], r)
    BY DEF Passes
  <1> HIDE DEF r
  <1>4. /\ x.graph = call[c].graph /\ x.state = "judged" /\ x.active = call[c].active /\ x.auto = call[c].auto
        /\ x.omits = call[c].omits /\ x.read = r
    BY <1>1 DEF IsCall
  <1>5. Bundles(call[c].graph) = {} /\ call[c].graph \in InPlay
    BY CallsAreInPlay DEF ServerKept, CallKept
  <1> HIDE DEF x
  <1>6. Accepted(x, x.read)
    BY <1>3, <1>4 DEF Accepted, Over
  <1> QED
    BY <1>2, <1>4, <1>5, <1>6, CallStep

\* A client asks for a save.
LEMMA RequestStep ==
  ASSUME TypeOK, ServerKept, NEW c \in Calls, NEW w, NEW g \in InPlay \cup {EmptyGraph}, Bundles(g) = {},
         NEW asked, NEW omits, Request(c, w, g, asked, omits), flow' = flow
  PROVE  ServerKept' /\ FlowGrows /\ ServerAdds(EmptyGraph)
  <1> DEFINE x == [state |-> "sent", flow |-> w, graph |-> g, active |-> asked.active, auto |-> asked.auto,
                   omits |-> omits, read |-> NoSettings, version |-> 0]
  <1>1. call' = [call EXCEPT ![c] = x]
    BY DEF Request
  <1>2. x.graph = g /\ x.state = "sent"
    OBVIOUS
  <1> HIDE DEF x
  <1> QED
    BY <1>1, <1>2, CallStep

LEMMA CommitKeeps ==
  ASSUME TypeOK, ServerKept, NEW c \in Calls, Commit(c)
  PROVE  ServerKept' /\ FlowGrows /\ ServerAdds(EmptyGraph)
  <1>1. PICK w \in Flows :
          /\ IF call[c].flow = Nothing THEN flow[w].status = "none" ELSE w = call[c].flow /\ Stored(w)
          /\ flow' = [flow EXCEPT ![w] = Written(c, @)]
          /\ call' = [call EXCEPT ![c].state = "done", ![c].flow = w, ![c].version = Current(w) + 1]
    BY DEF Commit
  <1> DEFINE f == Written(c, flow[w])
             n == Current(w)
             g == call[c].graph
             x == [call[c] EXCEPT !.state = "done", !.flow = w, !.version = n + 1]
             o == Over(call[c], SettingsOf(flow[w]))
  <1>2. /\ f.status = (IF o.active THEN "active" ELSE "draft") /\ o.active \in BOOLEAN
        /\ Len(f.versions) = n + 1
        /\ \A m \in 1 .. n : f.versions[m] = flow[w].versions[m]
        /\ f.versions[n + 1] = g
    BY WrittenTyped
  <1>3. n \in Nat
    BY LengthsAreNumbers
  <1> HIDE DEF f, o
  <1>4. flow'[w] = f /\ \A v \in Flows \ {w} : flow'[v] = flow[v]
    BY <1>1 DEF f, TypeOK
  <1>5. IsCall(call[c]) /\ IsGraph(g)
    BY DEF TypeOK, IsCall
  <1>6. call'[c] = x /\ \A d \in Calls \ {c} : call'[d] = call[d]
    <2>1. call' = [call EXCEPT ![c] = x]
      BY <1>1, <1>5 DEF TypeOK, IsCall
    <2> HIDE DEF x
    <2> QED
      BY <2>1, OneCall
  <1>7. Bundles(g) = {} /\ ~GraphProblem(g, FALSE)
    <2>1. Bundles(g) = {} /\ Accepted(call[c], call[c].read)
      BY DEF ServerKept, CallKept, Commit
    <2> QED
      BY <2>1 DEF Accepted, Judged, GraphProblem
  <1>8. FlowGrows
    <2>1. ASSUME NEW v \in Flows, Once(v), v # w
          PROVE  /\ Once(v)' /\ (Stored(v)' => Stored(v))
                 /\ \A m \in 1 .. Current(v) : m \in 1 .. Current(v)' /\ flow'[v].versions[m] = flow[v].versions[m]
      BY <1>4, <2>1 DEF Once, Stored, Current
    <2>2. ASSUME Once(w)
          PROVE  /\ Once(w)' /\ Stored(w)
                 /\ \A m \in 1 .. n : m \in 1 .. Current(w)' /\ flow'[w].versions[m] = flow[w].versions[m]
      <3>1. Stored(w)
        BY <1>1, <2>2 DEF Once
      <3>2. Once(w)'
        BY <1>2, <1>4 DEF Once
      <3>3. Current(w)' = n + 1
        BY <1>2, <1>4 DEF Current
      <3> HIDE DEF n
      <3> QED
        BY <1>2, <1>3, <1>4, <3>1, <3>2, <3>3
    <2> QED
      BY <2>1, <2>2 DEF FlowGrows
  <1>9. \A v \in Flows : FlowKept(v)'
    <2>1. ASSUME NEW v \in Flows, v # w PROVE FlowKept(v)'
      BY <1>4, <2>1 DEF ServerKept, FlowKept, Current
    <2>2. Acyclic(g)
      BY <1>5, <1>7, KnottedCircle DEF GraphProblem
    <2>3. ASSUME NEW m \in 1 .. n + 1
          PROVE  Acyclic(f.versions[m]) /\ \A k, l \in Bundles(f.versions[m]) : k = l
      <3>1. CASE m = n + 1
        BY <1>2, <1>7, <2>2, <3>1
      <3>2. CASE m \in 1 .. n
        <4>1. f.versions[m] = flow[w].versions[m]
          BY <1>2, <3>2
        <4>2. Acyclic(flow[w].versions[m]) /\ \A k, l \in Bundles(flow[w].versions[m]) : k = l
          BY <3>2 DEF ServerKept, FlowKept
        <4> QED
          BY <4>1, <4>2
      <3> QED
        BY <1>3, <3>1, <3>2
    <2>4. FlowKept(w)'
      <3> HIDE DEF n, g
      <3> QED
        BY <1>2, <1>4, <2>3 DEF FlowKept, Current
    <2> QED
      BY <2>1, <2>4
  <1>10. \A d \in Calls : CallKept(d)'
    <2>1. \A d \in Calls \ {c} : CallKept(d)'
      BY <1>6, <1>8, CallStays DEF ServerKept
    <2>2. x.graph = g /\ x.state = "done" /\ x.flow = w /\ x.version = n + 1
      BY <1>5 DEF IsCall
    <2>3. n + 1 \in 1 .. Len(f.versions)
      BY <1>2, <1>3
    <2> HIDE DEF x, n, g
    <2>4. flow'[w].status # "none"
      BY <1>2, <1>4
    <2>5. CallKept(c)'
      BY <1>2, <1>4, <1>6, <1>7, <2>2, <2>3, <2>4 DEF CallKept, Once, Stored, Current
    <2> QED
      BY <2>1, <2>5
  <1>11. WithinPlan'
    <2>1. f.status = "active" => flow[w].status = "active" \/ Cardinality(Active) < MaxActive
      <3>1. call[c].flow = Nothing => call[c].omits = {}
        BY <1>5 DEF IsCall
      <3>2. CASE call[c].flow = Nothing
        BY <1>1, <1>2, <3>1, <3>2 DEF Commit, Reserved, TakesPlace, Over, o
      <3>3. CASE call[c].flow # Nothing
        BY <1>1, <1>2, <3>3 DEF Commit, Reserved, TakesPlace, Over, SettingsOf, o
      <3> QED
        BY <3>2, <3>3
    <2> QED
      BY <1>4, <2>1, CountActive DEF ServerKept
  <1>12. ServerAdds(EmptyGraph)
    <2>1. ASSUME NEW d \in Calls PROVE call'[d].graph \in InPlay
      <3>1. x.graph = g
        BY <1>5 DEF IsCall
      <3> HIDE DEF x
      <3> QED
        BY <1>6, <3>1, CallsAreInPlay
    <2>2. ASSUME NEW v \in Flows, NEW m \in 1 .. Current(v)' PROVE flow'[v].versions[m] \in InPlay
      <3>1. CASE v # w
        BY <1>4, <3>1 DEF Current, InPlay
      <3>2. CASE v = w /\ m = n + 1
        BY <1>2, <1>4, <3>2, CallsAreInPlay
      <3>3. CASE v = w /\ m \in 1 .. n
        BY <1>2, <1>4, <3>3 DEF InPlay
      <3>4. v = w => m \in 1 .. n + 1
        BY <1>2, <1>4 DEF Current
      <3>5. m \in 1 .. n + 1 => m = n + 1 \/ m \in 1 .. n
        BY <1>3
      <3> QED
        BY <3>1, <3>2, <3>3, <3>4, <3>5
    <2> QED
      BY <2>1, <2>2 DEF ServerAdds
  <1> QED
    BY <1>8, <1>9, <1>10, <1>11, <1>12 DEF ServerKept

LEMMA DeleteKeeps ==
  ASSUME TypeOK, ServerKept, NEW w \in Flows, DeleteFlow(w)
  PROVE  ServerKept' /\ FlowGrows /\ ServerAdds(EmptyGraph)
  <1>1. flow'[w] = Without("deleted") /\ \A v \in Flows \ {w} : flow'[v] = flow[v]
    BY DEF DeleteFlow, TypeOK
  <1>2. Len(flow'[w].versions) = 0 /\ flow'[w].status = "deleted"
    BY <1>1 DEF Without
  <1>3. FlowGrows
    <2>1. ASSUME NEW v \in Flows, v # w, Once(v)
          PROVE  /\ Once(v)' /\ (Stored(v)' => Stored(v))
                 /\ \A m \in 1 .. Current(v) : m \in 1 .. Current(v)' /\ flow'[v].versions[m] = flow[v].versions[m]
      BY <1>1, <2>1 DEF Once, Stored, Current
    <2>2. Once(w)' /\ ~Stored(w)'
      BY <1>2 DEF Once, Stored
    <2> QED
      BY <2>1, <2>2 DEF FlowGrows
  <1>4. \A v \in Flows : FlowKept(v)'
    <2>1. ASSUME NEW v \in Flows, v # w PROVE FlowKept(v)'
      BY <1>1, <2>1 DEF ServerKept, FlowKept, Current
    <2>2. FlowKept(w)'
      BY <1>2 DEF FlowKept, Current
    <2> QED
      BY <2>1, <2>2
  <1>5. call' = call
    BY DEF DeleteFlow
  <1>6. \A c \in Calls : CallKept(c)'
    BY <1>3, <1>5, CallStays DEF ServerKept
  <1>7. WithinPlan'
    BY <1>1, <1>2, CountActive DEF ServerKept
  <1>8. \A v \in Flows : \A m \in 1 .. Current(v)' : flow'[v].versions[m] \in InPlay
    <2> SUFFICES ASSUME NEW v \in Flows, NEW m \in 1 .. Current(v)' PROVE flow'[v].versions[m] \in InPlay
      OBVIOUS
    <2>1. v # w
      BY <1>2 DEF Current
    <2> QED
      BY <1>1, <2>1 DEF Current, InPlay
  <1> QED
    BY <1>3, <1>4, <1>5, <1>6, <1>7, <1>8, CallsAreInPlay DEF ServerKept, ServerAdds

LEMMA SaveKeeps ==
  ASSUME TypeOK, ServerKept, NEW c \in Calls, Save(c)
  PROVE  ServerKept' /\ FlowGrows /\ ServerAdds(EmptyGraph)
  <1>1. CASE Judge(c)
    BY <1>1, PassedStep, RefusedStep DEF Judge
  <1>2. CASE Decline(c)
    BY <1>2, RefusedStep DEF Decline
  <1>3. CASE Commit(c)
    BY <1>3, CommitKeeps
  <1> QED
    BY <1>1, <1>2, <1>3 DEF Save

\* A graph without an old source is shown as it is stored.
LEMMA MigrateNothing ==
  ASSUME NEW g, Bundles(g) = {}, NEW key
  PROVE  migrate(g, key) = g
  BY DEF migrate

LEMMA SaveAsks ==
  ASSUME TypeOK, OneClass, AllJoined, ServerKept, NEW b \in Browsers, TabKept(b),
         NEW active \in BOOLEAN, save(b, active)
  PROVE  /\ ServerKept' /\ FlowGrows /\ ServerAdds(EmptyGraph)
         /\ Draws(b, tab[b].canvas) /\ Told(b)'
  <1>1. PICK c \in Calls :
          /\ Request(c, tab[b].flow, tab[b].canvas,
                     [active |-> active, auto |-> ~Manual(tab[b].canvas)], {})
          /\ tab' = [tab EXCEPT ![b].busy = c]
    BY DEF save
  <1> DEFINE t == [tab[b] EXCEPT !.busy = c]
  <1>2. Drawn(b) /\ Told(b) /\ IsTab(tab[b])
    BY TabKeptParts DEF TypeOK
  <1>5. tab[b].canvas \in InPlay /\ Bundles(tab[b].canvas) = {}
    BY <1>2 DEF InPlay, Drawn
  <1>6. ServerKept' /\ FlowGrows /\ ServerAdds(EmptyGraph)
    BY <1>1, <1>5, RequestStep DEF save
  <1>7. tab'[b] = t /\ Elsewhere(b)
    <2>1. tab' = [tab EXCEPT ![b] = t]
      BY <1>1
    <2> HIDE DEF t
    <2> QED
      BY <2>1, OneTab
  <1>8. /\ tab'[b].canvas = tab[b].canvas /\ tab'[b].again = tab[b].again /\ tab'[b].removed = tab[b].removed
        /\ SameTold(b)
    BY <1>2, <1>7 DEF IsTab, SameTold
  <1>9. Draws(b, tab[b].canvas)
    BY <1>2, <1>7, <1>8, QuietDraws
  <1>10. Told(b)'
    BY <1>2, <1>6, <1>8, ToldStays
  <1> QED
    BY <1>6, <1>9, <1>10

LEMMA AskKeeps ==
  ASSUME TypeOK, ServerKept, NEW c \in Calls, Ask(c)
  PROVE  ServerKept' /\ FlowGrows /\ ServerAdds(EmptyGraph)
  <1>1. PICK g \in Sendable, w \in {x \in Flows : Stored(x)} \cup {Nothing}, omits \in SUBSET Optional,
             active \in BOOLEAN, auto \in BOOLEAN :
          Request(c, w, g, [active |-> active, auto |-> auto], omits)
    BY DEF Ask
  <1>2. g \in InPlay \cup {EmptyGraph} /\ Bundles(g) = {}
    BY BuilderConstants, Emptiness DEF Templates, InPlay, Bundles
  <1> QED
    BY <1>1, <1>2, RequestStep DEF Ask

LEMMA AnsweredKeeps ==
  ASSUME TypeOK, OneClass, AllJoined, ServerKept, NEW b \in Browsers, TabKept(b), Answered(b)
  PROVE  /\ ServerKept' /\ FlowGrows /\ ServerAdds(EmptyGraph)
         /\ Draws(b, tab[b].canvas) /\ Told(b)'
  <1> DEFINE c == tab[b].busy
             x == call[c]
             u == [tab[b] EXCEPT !.busy = Nothing]
             t == [tab[b] EXCEPT !.busy = Nothing, !.flow = x.flow,
                     !.auto = x.active, !.removed = NoCard,
                     !.saved = [graph |-> x.graph, auto |-> x.active],
                     !.agreed = [flow |-> x.flow, version |-> x.version, active |-> x.active, key |-> Nothing]]
  <1>1. Drawn(b) /\ Told(b) /\ IsTab(tab[b])
    BY TabKeptParts DEF TypeOK
  <1>2. c \in Calls
    BY <1>1 DEF Answered, IsTab
  <1>3. call' = [call EXCEPT ![c] = NoCall] /\ flow' = flow
    BY DEF Answered
  <1>4. ServerKept' /\ FlowGrows /\ ServerAdds(EmptyGraph)
    <2> HIDE DEF c
    <2> QED
      BY <1>2, <1>3, NoCallStep
  <1>5. (x.state = "done" /\ tab' = [tab EXCEPT ![b] = t]) \/ tab' = [tab EXCEPT ![b] = u]
    <2>1. tab = [y \in Browsers |-> tab[y]]
      BY DEF TypeOK
    <2> HIDE DEF c
    <2> QED
      BY <1>1, <2>1 DEF Answered, Snapshot, IsTab, c
  <1>6. CASE tab' = [tab EXCEPT ![b] = u]
    <2>1. tab'[b] = u /\ Elsewhere(b)
      <3> HIDE DEF u
      <3> QED
        BY <1>6, OneTab
    <2>2. /\ tab'[b].canvas = tab[b].canvas /\ tab'[b].again = tab[b].again /\ tab'[b].removed = tab[b].removed
          /\ SameTold(b)
      BY <1>1, <2>1 DEF IsTab, SameTold
    <2>3. Draws(b, tab[b].canvas)
      BY <1>1, <2>1, <2>2, QuietDraws
    <2>4. Told(b)'
      BY <1>1, <1>4, <2>2, ToldStays
    <2> QED
      BY <1>4, <2>3, <2>4
  <1>7. CASE x.state = "done" /\ tab' = [tab EXCEPT ![b] = t]
    <2>1. tab'[b] = t /\ Elsewhere(b)
      <3> HIDE DEF t
      <3> QED
        BY <1>7, OneTab
    <2> HIDE DEF x
    <2>2. /\ tab'[b].canvas = tab[b].canvas /\ tab'[b].again = tab[b].again /\ tab'[b].removed = NoCard
          /\ tab'[b].page = tab[b].page /\ tab'[b].target = tab[b].target
          /\ tab'[b].flow = x.flow
          /\ tab'[b].saved = [graph |-> x.graph, auto |-> x.active]
          /\ tab'[b].agreed = [flow |-> x.flow, version |-> x.version, active |-> x.active, key |-> Nothing]
      BY <1>1, <2>1 DEF IsTab
    <2>3. Draws(b, tab[b].canvas)
      BY <1>1, <2>1, <2>2, QuietDraws
    <2>4. /\ x.flow \in Flows /\ flow[x.flow].status # "none"
          /\ flow[x.flow].status \in {"draft", "active"} =>
               x.version \in 1 .. Len(flow[x.flow].versions) /\ flow[x.flow].versions[x.version] = x.graph
          /\ Bundles(x.graph) = {}
      BY <1>2, <1>7 DEF x, ServerKept, CallKept, Once, Stored, Current
    <2>5. migrate(x.graph, Nothing) = x.graph
      BY <2>4, MigrateNothing
    <2>6. tab[b].page \in {"opening", "loading"} => flow[tab[b].target].status # "none"
      BY <1>1 DEF Told, Once
    <2>7. Told(b)'
      BY <1>3, <2>2, <2>4, <2>5, <2>6 DEF Told, Once, Stored, Current
    <2> QED
      BY <1>4, <2>3, <2>7
  <1> QED
    BY <1>5, <1>6, <1>7

-----------------------------------------------------------------------------
(* The inductive invariant.                                                 *)

LEMMA IInvParts ==
  IInv <=> ServerKept /\ (\A b \in Browsers : TabKept(b)) /\ OneClass /\ AllJoined
  BY DEF IInv, ServerKept

LEMMA IInvPartsNext ==
  IInv' <=> ServerKept' /\ (\A b \in Browsers : TabKept(b)') /\ OneClass' /\ AllJoined'
  BY DEF IInv, ServerKept

\* A step of an editor, by what it draws and what it leaves with the server.
LEMMA EditorStep ==
  ASSUME TypeOK, IInv, NEW b \in Browsers, NEW h, Draws(b, h), Told(b)',
         FlowGrows, ServerKept', ServerAdds(h) \/ (h \in InPlay /\ ServerAdds(EmptyGraph))
  PROVE  IInv'
  <1>1. \A x \in Browsers : TabKept(x)'
    BY DrawsKeep, IInvParts
  <1>2. \A x \in Browsers : /\ tab'[x].canvas \in InPlay \cup {h}
                            /\ tab'[x].removed = NoCard \/ Taken(tab'[x].removed)
    <2>1. \A x \in Browsers \ {b} : tab'[x] = tab[x]
      BY DEF Draws
    <2>2. \A x \in Browsers : tab[x].canvas \in InPlay /\ (tab[x].removed = NoCard \/ tab[x].removed \in Lifted)
      BY DEF InPlay, Lifted
    <2> QED
      BY <2>1, <2>2, LiftedTaken, IInvParts DEF Draws
  <1>3. CASE ServerAdds(h)
    <2>1. Agrees(h) /\ Adds(h)
      BY <1>2, <1>3 DEF Draws, Adds, ServerAdds
    <2> QED
      BY <1>1, <2>1, Grown, IInvParts, IInvPartsNext
  <1>4. CASE h \in InPlay /\ ServerAdds(EmptyGraph)
    <2>1. Adds(EmptyGraph)
      BY <1>2, <1>4 DEF Adds, ServerAdds
    <2> QED
      BY <1>1, <2>1, EmptyAgrees, Grown, IInvParts, IInvPartsNext
  <1> QED
    BY <1>3, <1>4

\* A step of the server, which no editor sees.
LEMMA ServerStep ==
  ASSUME TypeOK, IInv, tab' = tab, FlowGrows, ServerKept', ServerAdds(EmptyGraph)
  PROVE  IInv'
  <1>1. \A b \in Browsers : TabKept(b)'
    BY OthersStay, IInvParts
  <1>2. \A b \in Browsers : tab[b].canvas \in InPlay /\ (tab[b].removed = NoCard \/ tab[b].removed \in Lifted)
    BY DEF InPlay, Lifted
  <1>3. Adds(EmptyGraph)
    BY <1>2, LiftedTaken, IInvParts DEF Adds, ServerAdds
  <1> QED
    BY <1>1, <1>3, EmptyAgrees, Grown, IInvParts, IInvPartsNext

LEMMA BrowsingKeeps ==
  ASSUME TypeOK, IInv, NEW b \in Browsers, Browsing(b)
  PROVE  IInv'
  <1>1. ServerKept /\ TabKept(b) /\ OneClass /\ AllJoined
    BY IInvParts
  <1>2. tab[b].canvas \in InPlay
    BY DEF InPlay
  <1>3. CASE Answered(b)
    BY <1>1, <1>2, <1>3, AnsweredKeeps, EditorStep
  <1>4. CASE \E active \in BOOLEAN : save(b, active)
    BY <1>1, <1>2, <1>4, SaveAsks, EditorStep
  <1>5. CASE ~Answered(b) /\ \A active \in BOOLEAN : ~save(b, active)
    <2>1. UNCHANGED api
      BY <1>5, BrowsingFrame
    <2>2. PICK h : Draws(b, h)
      BY <1>1, <1>5, <2>1, AloneDraws DEF ServerKept
    <2>3. Told(b)'
      BY <1>1, <1>5, <2>1, AloneDraws DEF ServerKept
    <2>4. flow' = flow /\ call' = call
      BY <2>1 DEF api
    <2>5. FlowGrows /\ (\A w \in Flows : FlowKept(w)') /\ WithinPlan'
      BY <1>1, <2>4, SameFlows DEF ServerKept
    <2>6. \A c \in Calls : CallKept(c)'
      BY <1>1, <2>4, <2>5, CallStays DEF ServerKept
    <2>7. ServerKept'
      BY <2>5, <2>6 DEF ServerKept
    <2>8. ServerAdds(h)
      BY <2>4, FlowsAdd, CallsAreInPlay DEF ServerAdds
    <2> QED
      BY <2>2, <2>3, <2>5, <2>7, <2>8, EditorStep
  <1> QED
    BY <1>3, <1>4, <1>5

LEMMA IInvStep ==
  ASSUME TypeOK, IInv, [Next]_vars
  PROVE  IInv'
  <1>1. ServerKept
    BY IInvParts
  <1>2. ASSUME NEW b \in Browsers, Browsing(b) PROVE IInv'
    BY <1>2, BrowsingKeeps
  <1>3. ASSUME NEW c \in Calls, Save(c), UNCHANGED <<tab, moves, lost>> PROVE IInv'
    BY <1>1, <1>3, SaveKeeps, ServerStep
  <1>4. ASSUME NEW w \in Flows, DeleteFlow(w), UNCHANGED <<tab, lost>> PROVE IInv'
    BY <1>1, <1>4, DeleteKeeps, ServerStep
  <1>5. ASSUME NEW c \in Calls, Forgotten(c) PROVE IInv'
    BY <1>1, <1>5, NoCallStep, ServerStep DEF Forgotten
  <1>7. ASSUME NEW c \in Calls, Ask(c) PROVE IInv'
    BY <1>1, <1>7, AskKeeps, ServerStep DEF Ask
  <1>6. CASE UNCHANGED vars
    <2>1. tab' = tab /\ flow' = flow /\ call' = call
      BY <1>6 DEF vars, api
    <2>2. FlowGrows /\ (\A w \in Flows : FlowKept(w)') /\ WithinPlan'
      BY <1>1, <2>1, SameFlows DEF ServerKept
    <2>3. \A c \in Calls : CallKept(c)'
      BY <1>1, <2>1, <2>2, CallStays DEF ServerKept
    <2>4. ServerAdds(EmptyGraph)
      BY <2>1, FlowsAdd, CallsAreInPlay DEF ServerAdds
    <2> QED
      BY <2>1, <2>2, <2>3, <2>4, ServerStep DEF ServerKept
  <1> QED
    BY <1>2, <1>3, <1>4, <1>5, <1>6, <1>7 DEF Next, Serving

LEMMA IInvInit ==
  ASSUME Init
  PROVE  IInv
  <1>1. PICK g \in Goals, w \in Flows :
          flow = [x \in Flows |-> IF x = w
            THEN [status |-> "draft", auto |-> TRUE, versions |-> <<g>>] ELSE NoFlow]
    BY DEF Init, ApiInit
  <1>2. \A x \in Flows : flow[x].status \in {"draft", "none"} /\ \A n \in 1 .. Current(x) : flow[x].versions[n] = g
    BY <1>1 DEF NoFlow, Without, Current
  <1>3. Acyclic(g) /\ \A k, l \in Bundles(g) : k = l
    BY BuilderConstants
  <1>4. \A x \in Flows : FlowKept(x)
    BY <1>2, <1>3 DEF FlowKept
  <1>5. \A c \in Calls : call[c] = NoCall
    BY DEF Init, ApiInit
  <1>6. \A c \in Calls : CallKept(c)
    BY <1>5, Emptiness DEF CallKept, NoCall
  <1>7. \A b \in Browsers : tab[b] = Blank
    BY DEF Init
  <1>8. \A b \in Browsers : TabKept(b)
    BY <1>7, Emptiness DEF TabKept, Blank
  <1>9. WithinPlan
    <2>1. Active = {}
      BY <1>2 DEF Active
    <2> QED
      BY <2>1, FS_EmptySet, WorkflowConstants DEF WithinPlan
  <1>10. Lifted = {}
    BY <1>7 DEF Lifted, Blank
  <1>11. InPlay \subseteq Goals \cup {EmptyGraph}
    <2>1. \A b \in Browsers : tab[b].canvas = EmptyGraph
      BY <1>7 DEF Blank
    <2>2. \A c \in Calls : call[c].graph = EmptyGraph
      BY <1>5 DEF NoCall
    <2> QED
      BY <1>2, <2>1, <2>2 DEF InPlay
  <1>12. \A h \in InPlay : \A e \in h.edges : Directed(h, e[1], e[2])
    BY <1>11, BuilderConstants, Emptiness
  <1>13. AllJoined
    BY <1>10, <1>12 DEF AllJoined
  <1>14. \A k, x : Mark(k, x) => \E h \in Goals : k \in KeysOf(h) /\ Class(h.cards[k]) = x
    BY <1>10, <1>11, Emptiness DEF Mark
  <1>15. OneClass
    BY <1>14, BuilderConstants DEF OneClass
  <1> QED
    BY <1>4, <1>6, <1>8, <1>9, <1>13, <1>15 DEF IInv

\* The invariant behind the four properties below: what every save in flight,
\* every stored version and every editor hold of each other.
THEOREM Inductive == Spec => []IInv
  <1>1. TypeOK /\ IInv /\ [Next]_vars => IInv'
    BY IInvStep
  <1> QED
    BY <1>1, IInvInit, TypeCorrect, PTL DEF Spec

-----------------------------------------------------------------------------
(* The properties.                                                          *)

\* There are never more active workflows than the plan has places, however
\* many saves run side by side: the place is counted under the workspace's
\* lock, on the row that is locked (workflows.ts:603).
THEOREM PlacesKept == Spec => []WithinPlan
  <1>1. IInv => WithinPlan
    BY DEF IInv
  <1> QED
    BY <1>1, Inductive, PTL

\* Only a save that ends changes a workflow to an active one.
LEMMA OnlyCommits ==
  ASSUME TypeOK, [Next]_vars, NEW w \in Flows, flow'[w].status = "active", flow'[w] # flow[w]
  PROVE  \E c \in Calls :
           /\ Commit(c)
           /\ IF call[c].flow = Nothing THEN flow[w].status = "none" ELSE w = call[c].flow
           /\ flow'[w] = Written(c, flow[w])
           /\ call'[c].state = "done"
  <1>1. ASSUME NEW b \in Browsers, Browsing(b) PROVE FALSE
    <2>1. Answered(b) \/ (\E active \in BOOLEAN : save(b, active)) \/ UNCHANGED api
      BY <1>1, BrowsingFrame
    <2>2. flow' = flow
      BY <2>1 DEF Answered, save, api
    <2> QED
      BY <2>2
  <1>2. ASSUME NEW v \in Flows, DeleteFlow(v) PROVE FALSE
    <2>1. flow'[v] = Without("deleted") /\ \A x \in Flows \ {v} : flow'[x] = flow[x]
      BY <1>2 DEF DeleteFlow, TypeOK
    <2> QED
      BY <2>1 DEF Without
  <1>3. ASSUME NEW c \in Calls, Judge(c) \/ Decline(c) \/ Ask(c) \/ Forgotten(c) PROVE FALSE
    BY <1>3 DEF Judge, Decline, Ask, Forgotten
  <1>4. ~UNCHANGED vars
    BY DEF vars, api
  <1>5. PICK c \in Calls : Commit(c)
    BY <1>1, <1>2, <1>3, <1>4 DEF Next, Serving, Save
  <1>6. PICK v \in Flows :
          /\ IF call[c].flow = Nothing THEN flow[v].status = "none" ELSE v = call[c].flow /\ Stored(v)
          /\ flow' = [flow EXCEPT ![v] = Written(c, @)]
          /\ call' = [call EXCEPT ![c].state = "done", ![c].flow = v, ![c].version = Current(v) + 1]
    BY <1>5 DEF Commit
  <1>7. flow'[v] = Written(c, flow[v]) /\ \A x \in Flows \ {v} : flow'[x] = flow[x]
    BY <1>6 DEF TypeOK
  <1>8. v = w
    BY <1>7
  <1>9. call'[c].state = "done"
    BY <1>6 DEF TypeOK, IsCall
  <1> QED
    BY <1>5, <1>6, <1>7, <1>8, <1>9

\* What a save stores as active conducts, unless a setting it left out was
\* switched on after its check.
LEMMA StoringStep ==
  ASSUME TypeOK, IInv, [Next]_vars, NEW w \in Flows, flow'[w].status = "active", flow'[w] # flow[w]
  PROVE  LET g == flow'[w].versions[Len(flow'[w].versions)]
             Late(setting) == \E c \in Calls : SwitchedOn(c, w, setting)
         IN /\ Conducts(g) \/ Late("status")
            /\ flow'[w].auto => FilledIn(g) \/ Late("status") \/ Late("mode")
  <1> DEFINE Late(setting) == \E d \in Calls : SwitchedOn(d, w, setting)
  <1>1. PICK c \in Calls :
          /\ Commit(c)
          /\ IF call[c].flow = Nothing THEN flow[w].status = "none" ELSE w = call[c].flow
          /\ flow'[w] = Written(c, flow[w])
          /\ call'[c].state = "done"
    BY OnlyCommits
  <1> DEFINE f == Written(c, flow[w])
             g == call[c].graph
             s == Over(call[c], SettingsOf(flow[w]))
             r == Over(call[c], call[c].read)
  <1>2. /\ f.status = (IF s.active THEN "active" ELSE "draft") /\ f.auto = s.auto
        /\ s.active \in BOOLEAN /\ s.auto \in BOOLEAN
        /\ Len(f.versions) = Current(w) + 1 /\ f.versions[Current(w) + 1] = g
    BY WrittenTyped
  <1>3. IsCall(call[c]) /\ IsGraph(g)
    BY DEF TypeOK, IsCall
  <1>4. Judged(g, r.active, r.auto) /\ call[c].state = "judged"
    <2>1. CallKept(c) /\ call[c].state = "judged"
      BY <1>1 DEF IInv, Commit
    <2> QED
      BY <2>1 DEF CallKept, Accepted
  <1>5. r.active \in BOOLEAN /\ r.auto \in BOOLEAN
    BY <1>3 DEF IsCall, Over
  <1>6. s.active
    BY <1>1, <1>2
  <1>7. flow'[w].versions[Len(flow'[w].versions)] = g /\ flow'[w].auto = s.auto
    BY <1>1, <1>2
  <1>8. r.active \/ Late("status")
    <2> SUFFICES ASSUME ~r.active PROVE SwitchedOn(c, w, "status")
      OBVIOUS
    <2>1. "status" \in call[c].omits /\ ~call[c].read.active /\ flow[w].status = "active"
      BY <1>6 DEF Over, SettingsOf
    <2>2. call[c].flow = w
      BY <1>1, <1>3, <2>1 DEF IsCall
    <2> QED
      BY <1>1, <1>4, <2>1, <2>2 DEF SwitchedOn
  <1>9. s.auto => r.auto \/ Late("mode")
    <2> SUFFICES ASSUME s.auto, ~r.auto PROVE SwitchedOn(c, w, "mode")
      OBVIOUS
    <2>1. "mode" \in call[c].omits /\ ~call[c].read.auto /\ flow[w].auto
      BY DEF Over, SettingsOf
    <2>2. call[c].flow = w
      BY <1>1, <1>3, <2>1 DEF IsCall
    <2> QED
      BY <1>1, <1>4, <2>1, <2>2 DEF SwitchedOn
  <1>10. r.active => Conducts(g)
    <2> SUFFICES ASSUME r.active PROVE ~GraphProblem(g, TRUE)
      BY <1>3, GraphProblemExact
    <2>1. r.active = TRUE
      BY <1>5
    <2> QED
      BY <1>4, <2>1 DEF Judged
  <1>11. r.active /\ r.auto => FilledIn(g)
    BY <1>4 DEF Judged, RunsByItself, FilledIn
  <1> HIDE DEF r, s, g, Late
  <1>12. /\ Conducts(g) \/ Late("status")
         /\ s.auto => FilledIn(g) \/ Late("status") \/ Late("mode")
    BY <1>8, <1>9, <1>10, <1>11
  <1> QED
    BY <1>7, <1>12 DEF Late

\* Whatever a save stores as active conducts every item from a source to an
\* output, and has nothing left to fill in if it runs by itself, though it was
\* checked before the transaction and on what was read before it. What another
\* save switched on in between, and this one left out, is all that gets past
\* (workflows.ts:791, 813).
THEOREM Conducting == Spec => StoresConducting
  <1>1. TypeOK /\ IInv /\ [Next]_vars =>
          [\A w \in Flows :
             flow'[w].status = "active" /\ flow'[w] # flow[w] =>
               LET g == flow'[w].versions[Len(flow'[w].versions)]
                   Late(setting) == \E c \in Calls : SwitchedOn(c, w, setting)
               IN /\ Conducts(g) \/ Late("status")
                  /\ flow'[w].auto => FilledIn(g) \/ Late("status") \/ Late("mode")]_vars
    BY StoringStep
  <1> QED
    BY <1>1, Inductive, TypeCorrect, PTL DEF Spec, StoresConducting

\* No request leaves out a setting.
AllSaid == \A c \in Calls : call[c].omits = {}

LEMMA AllSaidStep ==
  ASSUME Sendable = {}, TypeOK, AllSaid, [Next]_vars
  PROVE  AllSaid'
  <1>1. ASSUME NEW b \in Browsers, NEW active \in BOOLEAN, save(b, active) PROVE AllSaid'
    <2>1. PICK c \in Calls : Request(c, tab[b].flow, tab[b].canvas,
                               [active |-> active, auto |-> ~Manual(tab[b].canvas)], {})
      BY <1>1 DEF save
    <2> DEFINE x == [state |-> "sent", flow |-> tab[b].flow, graph |-> tab[b].canvas,
                     active |-> active, auto |-> ~Manual(tab[b].canvas),
                     omits |-> {}, read |-> NoSettings, version |-> 0]
    <2>2. call' = [call EXCEPT ![c] = x]
      BY <2>1 DEF Request
    <2>3. x.omits = {}
      OBVIOUS
    <2> HIDE DEF x
    <2> QED
      BY <2>2, <2>3, OneCall DEF AllSaid
  <1>2. ASSUME NEW c \in Calls, call' = [call EXCEPT ![c] = NoCall] PROVE AllSaid'
    BY <1>2, OneCall DEF AllSaid, NoCall
  <1>3. ASSUME NEW b \in Browsers, Browsing(b) PROVE AllSaid'
    <2>1. CASE Answered(b)
      <3>1. tab[b].busy \in Calls
        BY <2>1 DEF TypeOK, IsTab, Answered
      <3> QED
        BY <1>2, <2>1, <3>1 DEF Answered
    <2>2. CASE UNCHANGED api
      BY <2>2 DEF api, AllSaid
    <2> QED
      BY <1>1, <1>3, <2>1, <2>2, BrowsingFrame
  <1>4. ASSUME NEW c \in Calls, Ask(c) PROVE AllSaid'
    BY <1>4 DEF Ask
  <1>5. ASSUME NEW c \in Calls, Forgotten(c) PROVE AllSaid'
    BY <1>2, <1>5 DEF Forgotten
  <1>6. ASSUME NEW c \in Calls, Save(c) PROVE AllSaid'
    <2> SUFFICES ASSUME NEW d \in Calls PROVE call'[d].omits = call[d].omits
      BY DEF AllSaid
    <2>1. IsCall(call[d]) /\ call = [y \in Calls |-> call[y]]
      BY DEF TypeOK
    <2>2. CASE Judge(c)
      BY <2>1, <2>2 DEF Judge, To, IsCall
    <2>3. CASE Decline(c)
      BY <2>1, <2>3 DEF Decline, To, IsCall
    <2>4. CASE Commit(c)
      BY <2>1, <2>4 DEF Commit, IsCall
    <2> QED
      BY <1>6, <2>2, <2>3, <2>4 DEF Save
  <1>7. ASSUME NEW w \in Flows, DeleteFlow(w) PROVE AllSaid'
    BY <1>7 DEF DeleteFlow, AllSaid
  <1>8. CASE UNCHANGED vars
    BY <1>8 DEF vars, api, AllSaid
  <1> QED
    BY <1>3, <1>4, <1>5, <1>6, <1>7, <1>8 DEF Next, Serving

\* As long as only editors save, which always name the status and the autonomy,
\* the current version of an active workflow conducts every item from a source
\* to an output, in however many editors it was saved at once
\* (workflow-builder.tsx:738). Other clients can break this.
THEOREM EditorsConduct ==
  ASSUME Sendable = {}
  PROVE  Spec => []ActiveConducts
  <1> DEFINE Both == AllSaid /\ ActiveConducts
  <1>1. Init => Both
    <2> SUFFICES ASSUME Init PROVE Both
      OBVIOUS
    <2>1. AllSaid
      BY DEF Init, ApiInit, AllSaid, NoCall
    <2>2. \A w \in Flows : flow[w].status # "active"
      BY DEF Init, ApiInit, NoFlow, Without
    <2> QED
      BY <2>1, <2>2 DEF ActiveConducts, Active
  <1>2. TypeOK /\ IInv /\ Both /\ [Next]_vars => Both'
    <2> SUFFICES ASSUME TypeOK, IInv, Both, [Next]_vars PROVE Both'
      OBVIOUS
    <2>1. AllSaid'
      BY AllSaidStep
    <2>2. ASSUME NEW w \in Flows, flow'[w].status = "active"
          PROVE  Conducts(flow'[w].versions[Len(flow'[w].versions)])
      <3>1. CASE flow'[w] = flow[w]
        BY <2>2, <3>1 DEF ActiveConducts, Active, Current
      <3>2. CASE flow'[w] # flow[w]
        <4>1. \A c \in Calls : ~SwitchedOn(c, w, "status")
          BY DEF SwitchedOn, AllSaid
        <4> QED
          BY <2>2, <3>2, <4>1, StoringStep
      <3> QED
        BY <3>1, <3>2
    <2> QED
      BY <2>1, <2>2 DEF ActiveConducts, Active, Current
  <1> QED
    BY <1>1, <1>2, Inductive, TypeCorrect, PTL DEF Spec

\* An editor of a workflow whose canvas is that of its snapshot shows what the
\* server stored as the version it last loaded or saved, whatever was drawn
\* while the load or the save was out, whichever answers were lost, and also
\* where the load never arrived (workflow-builder.tsx:543, 744).
THEOREM CleanIsSaved == Spec => []CleanMeansSaved
  <1>1. TypeOK /\ IInv => CleanMeansSaved
    <2> SUFFICES ASSUME TypeOK, IInv, NEW b \in Browsers, tab[b].flow # Nothing, Unchanged(b)
                 PROVE  LET a == tab[b].agreed IN
                        /\ tab[b].flow = a.flow
                        /\ tab[b].auto = a.active
                        /\ Stored(a.flow) => tab[b].canvas = migrate(flow[a.flow].versions[a.version], a.key)
      BY DEF CleanMeansSaved
    <2>1. Told(b)
      BY TabKeptParts DEF IInv
    <2>2. tab[b].saved.graph = tab[b].canvas /\ tab[b].saved.auto = tab[b].auto
      BY DEF Unchanged
    <2> QED
      BY <2>1, <2>2 DEF Told
  <1> QED
    BY <1>1, Inductive, TypeCorrect, PTL

\* An edge of a canvas joins two of its cards, leaves no output and enters no
\* source, and until a card was put back no circle is on it, in whatever order
\* cards and edges were drawn, removed, loaded and suggested (workflow-builder.tsx:660).
THEOREM DrawnSoundly == Spec => []CanvasSound
  <1>1. TypeOK /\ IInv => CanvasSound
    <2> SUFFICES ASSUME TypeOK, IInv, NEW b \in Browsers
                 PROVE  LET g == tab[b].canvas IN
                        /\ \A e \in g.edges : {e[1], e[2]} \subseteq KeysOf(g) /\ Directed(g, e[1], e[2])
                        /\ tab[b].again \/ Acyclic(g)
      BY DEF CanvasSound
    <2>1. tab[b].canvas \in InPlay /\ IsGraph(tab[b].canvas)
      BY DEF InPlay, TypeOK, IsTab
    <2>2. tab[b].again \/ Acyclic(tab[b].canvas)
      BY DEF IInv, TabKept
    <2>3. \A e \in tab[b].canvas.edges : e[1] \in KeysOf(tab[b].canvas) /\ e[2] \in KeysOf(tab[b].canvas)
      BY <2>1, Edges
    <2> QED
      BY <2>1, <2>2, <2>3 DEF IInv, AllJoined
  <1> QED
    BY <1>1, Inductive, TypeCorrect, PTL
==============================================================================
