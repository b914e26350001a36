------------------------- MODULE NetworkCompiler_proofs -------------------------
(***************************************************************************)
(* What is proved of the compiler, for every network: the links of the     *)
(* contracted graph are those between clusters and stay acyclic; with one  *)
(* data input per operator every subgraph is a program; no statement gets  *)
(* one memory for two of its names; and the program that runs reads what   *)
(* the network means.                                                      *)
(*                                                                         *)
(* First the detector: the union-find trees are a forest with depths, the  *)
(* links the quotient of the network's by it, and the quotient is acyclic. *)
(* Then clusters grown along single inputs.  Then the program: what its    *)
(* statements, their order, the lifetimes and the plan have in common with *)
(* the network, and what memory holds before every statement.              *)
(*                                                                         *)
(* The recursive functions of the model (what reaches a node, topological  *)
(* orders, folds) are CHOOSE expressions: each is used through a lemma     *)
(* that such a function exists, shown by recursion over a rank.            *)
(***************************************************************************)
EXTENDS NetworkCompiler, FiniteSetTheorems, SequenceTheorems, TLAPS

-----------------------------------------------------------------------------
(* Induction, iterated functions and finite sets.                          *)

\* Every set of naturals that is not empty has a least element.
LEMMA LeastNatural == \A S \in SUBSET Nat : S # {} => \E x \in S : \A y \in S : x <= y
<1> DEFINE R == {p \in Nat \X Nat : p[1] < p[2]}
<1>1. IsWellFoundedOn(R, Nat)
  BY NatLessThanWellFounded DEF OpToRel
<1>2. \A x, y \in Nat : <<x, y>> \in R <=> x < y
  OBVIOUS
<1> HIDE DEF R
<1> SUFFICES ASSUME NEW S \in SUBSET Nat, S # {} PROVE \E x \in S : \A y \in S : x <= y
  OBVIOUS
<1>3. PICK x \in S : \A y \in S : ~(<<y, x>> \in R)
  BY <1>1, WFMin
<1>4. \A y \in S : ~(y < x)
  BY <1>2, <1>3
<1> QED
  BY <1>4

\* Induction, with a set in the place of the predicate.
LEMMA InductiveSet ==
    ASSUME NEW T, 0 \in T, \A k \in Nat : k \in T => k + 1 \in T
    PROVE  \A k \in Nat : k \in T
<1> DEFINE Bad == {k \in Nat : k \notin T}
<1> SUFFICES ASSUME Bad # {} PROVE FALSE
  OBVIOUS
<1>1. Bad \in SUBSET Nat /\ \A k \in Nat : k \in Bad <=> k \notin T
  OBVIOUS
<1> HIDE DEF Bad
<1>2. PICK k \in Bad : \A y \in Bad : k <= y
  BY <1>1, LeastNatural
<1>3. k \in Nat /\ k # 0 /\ k \notin T
  BY <1>1, <1>2
<1>4. k - 1 \in Nat /\ (k - 1) + 1 = k /\ ~(k <= k - 1)
  BY <1>3
<1>5. k - 1 \in T
  BY <1>1, <1>2, <1>4
<1> QED
  BY <1>3, <1>4, <1>5

\* A function of S into itself can be iterated.
Iterates(S, f, s) ==
    \A n \in Nat : \E g \in [0 .. n -> S] :
        g[0] = s /\ \A k \in 1 .. n : g[k] = f[g[k - 1]]

\* f applied n times to s, for every n.
LEMMA IterateExists == ASSUME NEW S, NEW f \in [S -> S], NEW s \in S PROVE Iterates(S, f, s)
<1> DEFINE It(n) == \E g \in [0 .. n -> S] : g[0] = s /\ \A k \in 1 .. n : g[k] = f[g[k - 1]]
           T == {n \in Nat : It(n)}
<1>1. It(0)
  <2> DEFINE g == [k \in 0 .. 0 |-> s]
  <2>1. g \in [0 .. 0 -> S] /\ g[0] = s /\ \A k \in 1 .. 0 : g[k] = f[g[k - 1]]
    OBVIOUS
  <2> QED
    BY <2>1
<1>2. ASSUME NEW n \in Nat, It(n) PROVE It(n + 1)
  <2>1. PICK g \in [0 .. n -> S] : g[0] = s /\ \A k \in 1 .. n : g[k] = f[g[k - 1]]
    BY <1>2
  <2> DEFINE h == [k \in 0 .. n + 1 |-> IF k = n + 1 THEN f[g[n]] ELSE g[k]]
  <2>2. \A k \in 0 .. n + 1 : k # n + 1 => k \in 0 .. n
    OBVIOUS
  <2>3. n \in 0 .. n /\ f[g[n]] \in S
    BY <2>1
  <2>4. h \in [0 .. n + 1 -> S]
    BY <2>1, <2>2, <2>3
  <2>5. h[0] = s
    BY <2>1
  <2>6. ASSUME NEW k \in 1 .. n + 1 PROVE h[k] = f[h[k - 1]]
    <3>1. k - 1 \in 0 .. n + 1 /\ k - 1 # n + 1 /\ k \in 0 .. n + 1
      OBVIOUS
    <3>2. h[k - 1] = g[k - 1]
      BY <3>1
    <3>3. CASE k = n + 1
      BY <3>1, <3>2, <3>3
    <3>4. CASE k # n + 1
      BY <2>1, <3>1, <3>2, <3>4
    <3> QED
      BY <3>3, <3>4
  <2> HIDE DEF h
  <2> QED
    BY <2>4, <2>5, <2>6
<1> HIDE DEF It
<1>3. 0 \in T /\ \A n \in Nat : n \in T => n + 1 \in T
  BY <1>1, <1>2
<1>4. \A n \in Nat : n \in T
  BY <1>3, InductiveSet
<1> QED
  BY <1>4 DEF It, Iterates

-----------------------------------------------------------------------------
(* Reachability and union-find chains over any finite set of nodes.        *)

Reach(inl, nd, S) ==
    LET R[k \in 0 .. Cardinality(nd)] ==
          IF k = 0 THEN S
          ELSE LET reached == R[k - 1] IN reached \cup UNION {inl[x] : x \in reached}
    IN  R[Cardinality(nd)]

Ancestor(p, nd, n) ==
    LET A[k \in 0 .. Cardinality(nd)] ==
          IF k = 0 THEN n ELSE p[A[k - 1]]
    IN  A[Cardinality(nd)]

LEMMA ReachIs == \A S : ReverseDFS(S) = Reach(inlinks, Nodes, S)
  BY DEF ReverseDFS, Reach
LEMMA AncestorIs == \A n : UnionFindAncestor(n) = Ancestor(union_find_parent, Nodes, n)
  BY DEF UnionFindAncestor, Ancestor

Closed(inl, T) == \A x \in T : inl[x] \subseteq T

\* ReverseDFS as a chain of sets, each with what leads to the one before.
LEMMA ReachChain ==
    ASSUME NEW nd, IsFiniteSet(nd), NEW inl \in [nd -> SUBSET nd], NEW S \in SUBSET nd
    PROVE  \E g \in [0 .. Cardinality(nd) -> SUBSET nd] :
               /\ g[0] = S /\ Reach(inl, nd, S) = g[Cardinality(nd)]
               /\ \A k \in 1 .. Cardinality(nd) :
                      g[k] = g[k - 1] \cup UNION {inl[x] : x \in g[k - 1]}
<1> DEFINE N == Cardinality(nd)
           f == [T \in SUBSET nd |-> T \cup UNION {inl[x] : x \in T}]
<1>1. N \in Nat
  BY FS_CardinalityType
<1> HIDE DEF N
<1>2. \A T \in SUBSET nd : T \cup UNION {inl[x] : x \in T} \in SUBSET nd
  OBVIOUS
<1>2a. f \in [SUBSET nd -> SUBSET nd]
  BY <1>2
<1>3. \A T \in SUBSET nd : f[T] = T \cup UNION {inl[x] : x \in T}
  OBVIOUS
<1> HIDE DEF f
<1>4. PICK g \in [0 .. N -> SUBSET nd] : g[0] = S /\ \A k \in 1 .. N : g[k] = f[g[k - 1]]
  <2>1. \A n \in Nat : \E g \in [0 .. n -> SUBSET nd] :
            g[0] = S /\ \A k \in 1 .. n : g[k] = f[g[k - 1]]
    <3>1. Iterates(SUBSET nd, f, S)
      BY <1>2a, IterateExists
    <3> QED
      BY <3>1 DEF Iterates
  <2> QED
    BY <1>1, <2>1
<1>5. \A k \in 1 .. N : g[k] = g[k - 1] \cup UNION {inl[x] : x \in g[k - 1]}
  <2>1. \A k \in 1 .. N : k - 1 \in 0 .. N
    BY <1>1
  <2> QED
    BY <1>3, <1>4, <2>1
<1> DEFINE Eq(R) == R = [k \in 0 .. N |-> IF k = 0 THEN S
                            ELSE LET reached == R[k - 1]
                                 IN  reached \cup UNION {inl[x] : x \in reached}]
<1>6. Eq(g)
  <2>1. \A k \in 0 .. N : k # 0 => k \in 1 .. N
    BY <1>1
  <2> QED
    BY <1>4, <1>5, <2>1
<1> DEFINE R == CHOOSE R : Eq(R)
<1>7. Eq(R)
  BY <1>6, Zenon
<1>8. Reach(inl, nd, S) = R[N]
  BY DEF Reach, N
<1> HIDE DEF R
<1>9. R \in [0 .. N -> SUBSET nd] /\ R[0] = S
      /\ \A k \in 1 .. N : R[k] = R[k - 1] \cup UNION {inl[x] : x \in R[k - 1]}
  <2>1. R = g
    <3> DEFINE T == {k \in Nat : k \in 0 .. N => R[k] = g[k]}
    <3>1. 0 \in T
      BY <1>1, <1>4, <1>7
    <3>2. ASSUME NEW k \in Nat, k \in T PROVE k + 1 \in T
      <4>1. SUFFICES ASSUME k + 1 \in 0 .. N PROVE R[k + 1] = g[k + 1]
        OBVIOUS
      <4>2. k \in 0 .. N /\ k + 1 \in 1 .. N /\ (k + 1) - 1 = k /\ k + 1 # 0
        BY <1>1, <4>1
      <4>3. R[k] = g[k]
        BY <3>2, <4>2
      <4> HIDE DEF T
      <4>4. g[k + 1] = g[k] \cup UNION {inl[x] : x \in g[k]}
        BY <1>5, <4>2
      <4>5. R[k + 1] = R[k] \cup UNION {inl[x] : x \in R[k]}
        BY <1>7, <4>1, <4>2
      <4> QED
        BY <4>3, <4>4, <4>5
    <3>3. \A k \in Nat : k \in T
      <4> HIDE DEF T
      <4> QED
        BY <3>1, <3>2, InductiveSet
    <3>4. \A k \in 0 .. N : R[k] = g[k]
      BY <3>3, <1>1
    <3>5. R = [k \in 0 .. N |-> R[k]]
      BY <1>7
    <3> QED
      BY <3>4, <3>5
  <2> QED
    BY <2>1, <1>4, <1>5
<1> QED
  BY <1>8, <1>9 DEF N

\* What Reach finds: the least closed set over S.
LEMMA ReachFacts ==
    ASSUME NEW nd, IsFiniteSet(nd), NEW inl \in [nd -> SUBSET nd], NEW S \in SUBSET nd
    PROVE  /\ S \subseteq Reach(inl, nd, S) /\ Reach(inl, nd, S) \subseteq nd
           /\ Closed(inl, Reach(inl, nd, S))
           /\ \A T : S \subseteq T /\ Closed(inl, T) => Reach(inl, nd, S) \subseteq T
<1> DEFINE N == Cardinality(nd)
<1>1. N \in Nat
  BY FS_CardinalityType
<1>2. PICK g \in [0 .. N -> SUBSET nd] :
          /\ g[0] = S /\ Reach(inl, nd, S) = g[N]
          /\ \A k \in 1 .. N : g[k] = g[k - 1] \cup UNION {inl[x] : x \in g[k - 1]}
  BY ReachChain
<1>3. N = Cardinality(nd)
  OBVIOUS
<1> HIDE DEF N
<1>4. ASSUME NEW k \in Nat, k + 1 \in 0 .. N
      PROVE  k \in 0 .. N /\ g[k] \in SUBSET nd
             /\ g[k + 1] = g[k] \cup UNION {inl[x] : x \in g[k]}
  <2>1. k \in 0 .. N /\ k + 1 \in 1 .. N /\ (k + 1) - 1 = k
    BY <1>1, <1>4
  <2> QED
    BY <1>2, <2>1
<1>5. \A k \in 0 .. N : S \subseteq g[k]
  <2> DEFINE T == {k \in Nat : k \in 0 .. N => S \subseteq g[k]}
  <2>1. 0 \in T
    BY <1>2
  <2>2. ASSUME NEW k \in Nat, k \in T PROVE k + 1 \in T
    BY <1>4, <2>2
  <2> HIDE DEF T
  <2>3. \A k \in Nat : k \in T
    BY <2>1, <2>2, InductiveSet
  <2> QED
    BY <1>1, <2>3 DEF T
<1>6. ASSUME NEW U, S \subseteq U, Closed(inl, U) PROVE \A k \in 0 .. N : g[k] \subseteq U
  <2> DEFINE T == {k \in Nat : k \in 0 .. N => g[k] \subseteq U}
  <2>1. 0 \in T
    BY <1>2, <1>6
  <2>2. ASSUME NEW k \in Nat, k \in T PROVE k + 1 \in T
    BY <1>4, <1>6, <2>2 DEF Closed
  <2> HIDE DEF T
  <2>3. \A k \in Nat : k \in T
    BY <2>1, <2>2, InductiveSet
  <2> QED
    BY <1>1, <2>3 DEF T
<1>7. \A k \in 0 .. N : Closed(inl, g[k]) \/ Cardinality(g[k]) >= k
  <2> DEFINE T == {k \in Nat : k \in 0 .. N => Closed(inl, g[k]) \/ Cardinality(g[k]) >= k}
  <2>0. \A V \in SUBSET nd : IsFiniteSet(V) /\ Cardinality(V) \in Nat
    BY FS_Subset, FS_CardinalityType
  <2>1. 0 \in T
    <3>1. 0 \in 0 .. N /\ g[0] \in SUBSET nd
      BY <1>1, <1>2
    <3> QED
      BY <2>0, <3>1
  <2>2. ASSUME NEW k \in Nat, k \in T PROVE k + 1 \in T
    <3> SUFFICES ASSUME k + 1 \in 0 .. N
                 PROVE  Closed(inl, g[k + 1]) \/ Cardinality(g[k + 1]) >= k + 1
      OBVIOUS
    <3>1. k \in 0 .. N /\ g[k] \in SUBSET nd /\ g[k + 1] \in SUBSET nd
          /\ g[k + 1] = g[k] \cup UNION {inl[x] : x \in g[k]}
      BY <1>2, <1>4
    <3>2. CASE Closed(inl, g[k])
      <4>1. g[k + 1] = g[k]
        BY <3>1, <3>2 DEF Closed
      <4> QED
        BY <3>2, <4>1
    <3>3. CASE ~Closed(inl, g[k])
      <4>1. g[k] \subseteq g[k + 1] /\ g[k] # g[k + 1]
        BY <3>1, <3>3 DEF Closed
      <4>2. Cardinality(g[k]) >= k
        BY <2>2, <3>1, <3>3
      <4>3. Cardinality(g[k]) <= Cardinality(g[k + 1]) /\ Cardinality(g[k]) # Cardinality(g[k + 1])
        BY <2>0, <3>1, <4>1, FS_Subset
      <4> QED
        BY <2>0, <3>1, <4>2, <4>3
    <3> QED
      BY <3>2, <3>3
  <2> HIDE DEF T
  <2>3. \A k \in Nat : k \in T
    BY <2>1, <2>2, InductiveSet
  <2> QED
    BY <1>1, <2>3 DEF T
<1>8. Closed(inl, g[N])
  <2>1. N \in 0 .. N /\ g[N] \in SUBSET nd
    BY <1>1, <1>2
  <2>2. SUFFICES ASSUME Cardinality(g[N]) >= N PROVE Closed(inl, g[N])
    BY <1>7, <2>1
  <2>3. Cardinality(g[N]) \in Nat /\ Cardinality(g[N]) <= N
    BY <1>3, <2>1, FS_Subset, FS_CardinalityType
  <2>4. g[N] = nd
    BY <1>1, <1>3, <2>1, <2>2, <2>3, FS_Subset
  <2> QED
    BY <2>4 DEF Closed
<1> QED
  <2>1. N \in 0 .. N
    BY <1>1
  <2> QED
    BY <1>2, <1>5, <1>6, <1>8, <2>1

\* A chain of parents, step by step.
LEMMA AncestorChain ==
    ASSUME NEW nd, IsFiniteSet(nd), NEW p \in [nd -> nd], NEW n \in nd
    PROVE  \E g \in [0 .. Cardinality(nd) -> nd] :
               /\ g[0] = n /\ Ancestor(p, nd, n) = g[Cardinality(nd)]
               /\ \A k \in 1 .. Cardinality(nd) : g[k] = p[g[k - 1]]
<1> DEFINE N == Cardinality(nd)
<1>1. N \in Nat
  BY FS_CardinalityType
<1> HIDE DEF N
<1>2. \A m \in Nat : \E g \in [0 .. m -> nd] : g[0] = n /\ \A k \in 1 .. m : g[k] = p[g[k - 1]]
  <2>1. Iterates(nd, p, n)
    BY IterateExists
  <2> QED
    BY <2>1 DEF Iterates
<1>3. PICK g \in [0 .. N -> nd] : g[0] = n /\ \A k \in 1 .. N : g[k] = p[g[k - 1]]
  BY <1>1, <1>2
<1> DEFINE Eq(A) == A = [k \in 0 .. N |-> IF k = 0 THEN n ELSE p[A[k - 1]]]
           A == CHOOSE A : Eq(A)
<1>4. Eq(g)
  <2>1. \A k \in 0 .. N : k # 0 => k \in 1 .. N
    BY <1>1
  <2> QED
    BY <1>3, <2>1
<1>5. Eq(A)
  BY <1>4, Zenon
<1>6. Ancestor(p, nd, n) = A[N]
  BY DEF Ancestor, N
<1> HIDE DEF A
<1>7. A = g
  <2> DEFINE T == {k \in Nat : k \in 0 .. N => A[k] = g[k]}
  <2>1. 0 \in T
    BY <1>1, <1>3, <1>5
  <2>2. ASSUME NEW k \in Nat, k \in T PROVE k + 1 \in T
    <3> SUFFICES ASSUME k + 1 \in 0 .. N PROVE A[k + 1] = g[k + 1]
      OBVIOUS
    <3>1. k \in 0 .. N /\ k + 1 \in 1 .. N /\ (k + 1) - 1 = k /\ k + 1 # 0
      BY <1>1
    <3>2. A[k] = g[k]
      BY <2>2, <3>1
    <3> HIDE DEF T
    <3> QED
      BY <1>3, <1>5, <3>1, <3>2
  <2> HIDE DEF T
  <2>3. \A k \in Nat : k \in T
    BY <2>1, <2>2, InductiveSet
  <2>4. \A k \in 0 .. N : A[k] = g[k]
    BY <1>1, <2>3 DEF T
  <2>5. A = [k \in 0 .. N |-> A[k]]
    BY <1>5
  <2> QED
    BY <1>3, <2>4, <2>5
<1> QED
  BY <1>3, <1>6, <1>7 DEF N

\* R is the root of each node and d a bound on its depth; nothing is as deep as the
\* number of nodes less the other roots.
Forest(p, nd, R, d) ==
    /\ R \in [nd -> nd] /\ d \in [nd -> Nat]
    /\ \A x \in nd :
          /\ p[x] = x => R[x] = x /\ d[x] = 0
          /\ p[x] # x => R[x] = R[p[x]] /\ d[p[x]] < d[x]
          /\ p[R[x]] = R[x]
          /\ d[x] + Cardinality({r \in nd : p[r] = r}) <= Cardinality(nd)

LEMMA AncestorIsRoot ==
    ASSUME NEW nd, IsFiniteSet(nd), NEW p \in [nd -> nd], NEW R, NEW d, Forest(p, nd, R, d),
           NEW n \in nd
    PROVE  Ancestor(p, nd, n) = R[n]
<1> DEFINE N == Cardinality(nd)
           C == Cardinality({r \in nd : p[r] = r})
<1>1. N \in Nat /\ C \in Nat
  <2>1. IsFiniteSet({r \in nd : p[r] = r})
    <3>1. {r \in nd : p[r] = r} \in SUBSET nd
      OBVIOUS
    <3> QED
      BY <3>1, FS_Subset
  <2> QED
    BY <2>1, FS_CardinalityType
<1>2. PICK g \in [0 .. N -> nd] : /\ g[0] = n /\ Ancestor(p, nd, n) = g[N]
                                  /\ \A k \in 1 .. N : g[k] = p[g[k - 1]]
  BY AncestorChain
<1>3. /\ R \in [nd -> nd] /\ d \in [nd -> Nat] /\ d[n] + C <= N
      /\ \A x \in nd : (p[x] = x => R[x] = x /\ d[x] = 0)
                       /\ (p[x] # x => R[x] = R[p[x]] /\ d[p[x]] < d[x])
  BY DEF Forest
<1> HIDE DEF N, C
<1> DEFINE T == {k \in Nat : k \in 0 .. N => R[g[k]] = R[n] /\ (d[g[k]] = 0 \/ d[g[k]] + k <= d[n])}
<1>4. 0 \in T
  BY <1>1, <1>2, <1>3
<1>5. ASSUME NEW k \in Nat, k \in T PROVE k + 1 \in T
  <2> SUFFICES ASSUME k + 1 \in 0 .. N
               PROVE  /\ R[g[k + 1]] = R[n]
                      /\ d[g[k + 1]] = 0 \/ d[g[k + 1]] + (k + 1) <= d[n]
    OBVIOUS
  <2>1. k \in 0 .. N /\ k + 1 \in 1 .. N /\ (k + 1) - 1 = k
    BY <1>1
  <2>2. g[k] \in nd /\ g[k + 1] = p[g[k]] /\ p[g[k]] \in nd
    BY <1>2, <2>1
  <2>3. R[g[k]] = R[n] /\ (d[g[k]] = 0 \/ d[g[k]] + k <= d[n])
    BY <1>5, <2>1
  <2> HIDE DEF T
  <2>4. d[g[k]] \in Nat /\ d[p[g[k]]] \in Nat /\ d[n] \in Nat
    BY <1>3, <2>2
  <2>5. CASE p[g[k]] = g[k]
    BY <1>3, <2>2, <2>3, <2>5
  <2>6. CASE p[g[k]] # g[k]
    <3>1. R[g[k]] = R[p[g[k]]] /\ d[p[g[k]]] < d[g[k]]
      BY <1>3, <2>2, <2>6
    <3> QED
      BY <2>2, <2>3, <2>4, <3>1
  <2> QED
    BY <2>5, <2>6
<1> HIDE DEF T
<1>6. \A k \in Nat : k \in T
  BY <1>4, <1>5, InductiveSet
<1>7. N \in 0 .. N /\ g[N] \in nd
  BY <1>1, <1>2
<1>8. R[g[N]] = R[n] /\ (d[g[N]] = 0 \/ d[g[N]] + N <= d[n])
  BY <1>1, <1>6, <1>7 DEF T
<1>9. d[g[N]] = 0
  <2>1. d[g[N]] \in Nat /\ d[n] \in Nat
    BY <1>3, <1>7
  <2> QED
    BY <1>1, <1>3, <1>8, <2>1
<1>10. p[g[N]] = g[N]
  <2>1. p[g[N]] \in nd /\ d[p[g[N]]] \in Nat
    BY <1>3, <1>7
  <2> QED
    BY <1>3, <1>7, <1>9, <2>1
<1> QED
  BY <1>2, <1>3, <1>7, <1>8, <1>10

-----------------------------------------------------------------------------
(* UnionFindCombine of the roots a and c, on any links.                    *)

\* The root of each node afterwards.
Merged(nd, R, a, c) == [x \in nd |-> IF R[x] = c THEN a ELSE R[x]]

\* Hanging one root under another leaves a forest.
LEMMA CombineForest ==
    ASSUME NEW nd, IsFiniteSet(nd), NEW p \in [nd -> nd], NEW R, NEW d, Forest(p, nd, R, d),
           NEW a \in nd, NEW c \in nd, a # c, p[a] = a, p[c] = c
    PROVE  \E e : Forest([p EXCEPT ![c] = a], nd, Merged(nd, R, a, c), e)
<1> DEFINE q == [p EXCEPT ![c] = a]
           S == Merged(nd, R, a, c)
           e == [x \in nd |-> IF R[x] = c THEN d[x] + 1 ELSE d[x]]
           P == {r \in nd : p[r] = r}
           Q == {r \in nd : q[r] = r}
<1>1. q \in [nd -> nd] /\ q[c] = a /\ \A x \in nd : x # c => q[x] = p[x]
  OBVIOUS
<1>2. Q = P \ {c} /\ c \in P
  BY <1>1
<1>3. Cardinality(P) \in Nat /\ Cardinality(nd) \in Nat /\ Cardinality(Q) = Cardinality(P) - 1
  <2>1. IsFiniteSet(P)
    <3>1. P \in SUBSET nd
      OBVIOUS
    <3> QED
      BY <3>1, FS_Subset
  <2> HIDE DEF P, Q
  <2> QED
    BY <1>2, <2>1, FS_RemoveElement, FS_CardinalityType
<1>4. /\ R \in [nd -> nd] /\ d \in [nd -> Nat]
      /\ \A x \in nd :
            /\ p[x] = x => R[x] = x /\ d[x] = 0
            /\ p[x] # x => R[x] = R[p[x]] /\ d[p[x]] < d[x]
            /\ p[R[x]] = R[x]
            /\ d[x] + Cardinality(P) <= Cardinality(nd)
  BY DEF Forest
<1>5. S \in [nd -> nd] /\ \A x \in nd : S[x] = IF R[x] = c THEN a ELSE R[x]
  BY <1>4 DEF Merged
<1>6. e \in [nd -> Nat] /\ \A x \in nd : e[x] = IF R[x] = c THEN d[x] + 1 ELSE d[x]
  <2>1. \A x \in nd : d[x] \in Nat
    BY <1>4
  <2> QED
    BY <2>1
<1> HIDE DEF q, S, e, P
<1>7. ASSUME NEW x \in nd
      PROVE  /\ q[x] = x => S[x] = x /\ e[x] = 0
             /\ q[x] # x => S[x] = S[q[x]] /\ e[q[x]] < e[x]
             /\ q[S[x]] = S[x]
             /\ e[x] + Cardinality(Q) <= Cardinality(nd)
  <2>1. R[x] \in nd /\ d[x] \in Nat /\ p[x] \in nd /\ d[p[x]] \in Nat
    BY <1>4
  <2>2. R[a] = a /\ d[a] = 0 /\ R[c] = c /\ d[c] = 0
    BY <1>4
  <2>3. e[a] = 0 /\ e[c] = 1 /\ S[a] = a /\ S[c] = a
    BY <1>5, <1>6, <2>2
  <2>4. e[x] + Cardinality(Q) <= Cardinality(nd)
    BY <1>3, <1>4, <1>6, <2>1
  <2>5. q[S[x]] = S[x]
    BY <1>1, <1>4, <1>5, <2>1
  <2>6. CASE x = c
    BY <1>1, <2>3, <2>4, <2>5, <2>6
  <2>7. CASE x # c
    <3>1. q[x] = p[x]
      BY <1>1, <2>7
    <3>2. p[x] = x => S[x] = x /\ e[x] = 0
      BY <1>4, <1>5, <1>6, <2>7
    <3>3. p[x] # x => S[x] = S[p[x]]
      BY <1>4, <1>5, <2>1
    <3>4. p[x] # x => e[p[x]] < e[x]
      BY <1>4, <1>6, <2>1
    <3> QED
      BY <3>1, <3>2, <3>3, <3>4, <2>4, <2>5
  <2> QED
    BY <2>6, <2>7
<1>8. Forest(q, nd, S, e)
  BY <1>5, <1>6, <1>7, Zenon DEF Forest, Q
<1> QED
  BY <1>8 DEF q, S

\* An edge of the network between the clusters of two nodes.
Edge(lin, R, r, n) == \E x \in DOMAIN lin : \E m \in lin[x] : R[m] = r /\ R[x] = n

\* The links are the edges between different clusters.
Quotient(nd, lin, R, inl, outl) ==
    \A n, r \in nd : /\ r \in inl[n] <=> r # n /\ Edge(lin, R, r, n)
                     /\ r \in outl[n] <=> r # n /\ Edge(lin, R, n, r)

\* What CombineWith makes of the links.
Inputs(inl, a, c) == inl[a] \cup (inl[c] \ {a})
Outputs(outl, a, c) == outl[c] \cup (outl[a] \ {c})
NewIn(nd, inl, outl, a, c) ==
    [n \in nd |-> IF n = a THEN Inputs(inl, a, c) ELSE IF n = c THEN {}
                  ELSE IF n \in Outputs(outl, a, c) THEN Renamed(inl[n], c, a) ELSE inl[n]]
NewOut(nd, inl, outl, a, c) ==
    [n \in nd |-> IF n = a THEN Outputs(outl, a, c) ELSE IF n = c THEN {}
                  ELSE IF n \in Inputs(inl, a, c) THEN Renamed(outl[n], c, a) ELSE outl[n]]

\* Whether there is an edge from r to n once a is in the place of c.
MergedEdge(lin, R, a, c, r, n) ==
    /\ r # c /\ n # c
    /\ \/ Edge(lin, R, r, n)
       \/ r = a /\ Edge(lin, R, c, n)
       \/ n = a /\ Edge(lin, R, r, c)
       \/ r = a /\ n = a /\ Edge(lin, R, c, c)

\* The edges between clusters after two were made one.
LEMMA MergedEdges ==
    ASSUME NEW nd, NEW lin \in [nd -> SUBSET nd], NEW R \in [nd -> nd],
           NEW a \in nd, NEW c \in nd, a # c, R[a] = a, R[c] = c, NEW r \in nd, NEW n \in nd
    PROVE  Edge(lin, Merged(nd, R, a, c), r, n) <=> MergedEdge(lin, R, a, c, r, n)
<1> DEFINE S == Merged(nd, R, a, c)
<1>1. \A x \in nd : S[x] = IF R[x] = c THEN a ELSE R[x]
  BY DEF Merged
<1>2. \A x \in nd : lin[x] \subseteq nd
  OBVIOUS
<1>3. DOMAIN lin = nd
  OBVIOUS
<1> HIDE DEF S
<1>4. ASSUME Edge(lin, S, r, n)
      PROVE  /\ r # c /\ n # c
             /\ \/ Edge(lin, R, r, n)
                \/ r = a /\ Edge(lin, R, c, n)
                \/ n = a /\ Edge(lin, R, r, c)
                \/ r = a /\ n = a /\ Edge(lin, R, c, c)
  <2>0. PICK x \in nd : \E m \in lin[x] : S[m] = r /\ S[x] = n
    BY <1>3, <1>4 DEF Edge
  <2>1. PICK m \in lin[x] : S[m] = r /\ S[x] = n
    BY <2>0
  <2>2. Edge(lin, R, R[m], R[x])
    BY <1>3 DEF Edge
  <2>3. r = (IF R[m] = c THEN a ELSE R[m]) /\ n = (IF R[x] = c THEN a ELSE R[x])
    BY <1>1, <1>2, <2>1
  <2> QED
    BY <2>2, <2>3
<1>5. ASSUME NEW r0 \in nd, NEW n0 \in nd, Edge(lin, R, r0, n0)
      PROVE  Edge(lin, S, IF r0 = c THEN a ELSE r0, IF n0 = c THEN a ELSE n0)
  <2>0. PICK x \in nd : \E m \in lin[x] : R[m] = r0 /\ R[x] = n0
    BY <1>3, <1>5 DEF Edge
  <2>1. PICK m \in lin[x] : R[m] = r0 /\ R[x] = n0
    BY <2>0
  <2> QED
    BY <1>1, <1>2, <1>3, <2>1 DEF Edge
<1>6. ASSUME r # c, n # c,
             \/ Edge(lin, R, r, n)
             \/ r = a /\ Edge(lin, R, c, n)
             \/ n = a /\ Edge(lin, R, r, c)
             \/ r = a /\ n = a /\ Edge(lin, R, c, c)
      PROVE  Edge(lin, S, r, n)
  BY <1>5, <1>6
<1> QED
  BY <1>4, <1>6 DEF S, MergedEdge

\* CombineWith keeps the links those between clusters.
LEMMA CombineQuotient ==
    ASSUME NEW nd, NEW lin \in [nd -> SUBSET nd], NEW R \in [nd -> nd],
           NEW inl \in [nd -> SUBSET nd], NEW outl \in [nd -> SUBSET nd],
           NEW a \in nd, NEW c \in nd, a # c, R[a] = a, R[c] = c,
           Quotient(nd, lin, R, inl, outl), c \notin inl[a]
    PROVE  Quotient(nd, lin, Merged(nd, R, a, c), NewIn(nd, inl, outl, a, c),
                    NewOut(nd, inl, outl, a, c))
<1> DEFINE S == Merged(nd, R, a, c)
           in == NewIn(nd, inl, outl, a, c)
           out == NewOut(nd, inl, outl, a, c)
<1>1. ASSUME NEW r \in nd, NEW n \in nd
      PROVE  Edge(lin, S, r, n) <=>
               /\ r # c /\ n # c
               /\ \/ Edge(lin, R, r, n)
                  \/ r = a /\ Edge(lin, R, c, n)
                  \/ n = a /\ Edge(lin, R, r, c)
                  \/ r = a /\ n = a /\ Edge(lin, R, c, c)
  <2> HIDE DEF in, out
  <2> QED
    <3>1. Edge(lin, S, r, n) <=> MergedEdge(lin, R, a, c, r, n)
      BY MergedEdges DEF S
    <3> QED
      BY <3>1 DEF MergedEdge
<1>2. ASSUME NEW r \in nd, NEW n \in nd
      PROVE  /\ r \in inl[n] <=> r # n /\ Edge(lin, R, r, n)
             /\ r \in outl[n] <=> r # n /\ Edge(lin, R, n, r)
  BY DEF Quotient
<1>3. ASSUME NEW r \in nd, NEW n \in nd PROVE r \in inl[n] <=> n \in outl[r]
  BY <1>2
<1>4. \A n \in nd : in[n] = IF n = a THEN Inputs(inl, a, c) ELSE IF n = c THEN {}
                  ELSE IF n \in Outputs(outl, a, c) THEN Renamed(inl[n], c, a) ELSE inl[n]
  BY DEF NewIn
<1>5. \A n \in nd : out[n] = IF n = a THEN Outputs(outl, a, c) ELSE IF n = c THEN {}
                  ELSE IF n \in Inputs(inl, a, c) THEN Renamed(outl[n], c, a) ELSE outl[n]
  BY DEF NewOut
<1> HIDE DEF S, in, out
<1>6. c \notin inl[a] /\ a \notin outl[c] /\ a \notin inl[a] /\ c \notin inl[c]
      /\ a \notin outl[a] /\ c \notin outl[c]
  BY <1>2, <1>3
<1>7. ASSUME NEW r \in nd, NEW n \in nd PROVE r \in in[n] <=> r # n /\ Edge(lin, S, r, n)
  <2>1. CASE n = a
    <3>1. r \in in[n] <=> r \in inl[a] \/ (r \in inl[c] /\ r # a)
      BY <1>4, <2>1 DEF Inputs
    <3> QED
      BY <1>1, <1>2, <1>6, <2>1, <3>1
  <2>2. CASE n = c
    BY <1>1, <1>4, <2>2
  <2>3. CASE n # a /\ n # c
    <3>1. r \in in[n] <=> \/ r \in inl[n] /\ r # c
                          \/ r = a /\ c \in inl[n]
      <4>1. c \in inl[n] => n \in Outputs(outl, a, c)
        BY <1>3 DEF Outputs
      <4> QED
        BY <1>4, <2>3, <4>1 DEF Renamed
    <3> QED
      BY <1>1, <1>2, <2>3, <3>1
  <2> QED
    BY <2>1, <2>2, <2>3
<1>8. ASSUME NEW r \in nd, NEW n \in nd PROVE r \in out[n] <=> r # n /\ Edge(lin, S, n, r)
  <2>1. CASE n = a
    <3>1. r \in out[n] <=> r \in outl[c] \/ (r \in outl[a] /\ r # c)
      BY <1>5, <2>1 DEF Outputs
    <3> QED
      BY <1>1, <1>2, <1>6, <2>1, <3>1
  <2>2. CASE n = c
    BY <1>1, <1>5, <2>2
  <2>3. CASE n # a /\ n # c
    <3>1. r \in out[n] <=> \/ r \in outl[n] /\ r # c
                           \/ r = a /\ c \in outl[n]
      <4>1. c \in outl[n] => n \in Inputs(inl, a, c)
        BY <1>3, <2>3 DEF Inputs
      <4> QED
        BY <1>5, <2>3, <4>1 DEF Renamed
    <3> QED
      BY <1>1, <1>2, <2>3, <3>1
  <2> QED
    BY <2>1, <2>2, <2>3
<1> QED
  BY <1>7, <1>8 DEF Quotient, S, in, out

\* No node reaches itself.
Acyclic(nd, inl) == \A n \in nd : n \notin Reach(inl, nd, inl[n])

\* No path leads from a to c but the link itself.
Apart(nd, inl, a, c) == a \notin Reach(inl, nd, inl[c] \ {a})

\* To be unreachable is to be outside a closed set.
LEMMA ReachAvoids ==
    ASSUME NEW nd, IsFiniteSet(nd), NEW inl \in [nd -> SUBSET nd], NEW S \in SUBSET nd,
           NEW T, S \subseteq T, Closed(inl, T), NEW n, n \notin T
    PROVE  n \notin Reach(inl, nd, S)
BY ReachFacts

LEMMA NewLinksType ==
    ASSUME NEW nd, NEW inl \in [nd -> SUBSET nd], NEW outl \in [nd -> SUBSET nd],
           NEW a \in nd, NEW c \in nd
    PROVE  /\ NewIn(nd, inl, outl, a, c) \in [nd -> SUBSET nd]
           /\ NewOut(nd, inl, outl, a, c) \in [nd -> SUBSET nd]
BY DEF NewIn, NewOut, Inputs, Outputs, Renamed

\* It makes no cycle when no other path joins the two, and leaves the other candidates
\* of this round so.
LEMMA CombineAcyclic ==
    ASSUME NEW nd, IsFiniteSet(nd), NEW inl \in [nd -> SUBSET nd], NEW outl \in [nd -> SUBSET nd],
           NEW a \in nd, NEW c \in nd, a # c,
           \A n, r \in nd : r \in inl[n] <=> n \in outl[r],
           c \in outl[a], Acyclic(nd, inl), Apart(nd, inl, a, c)
    PROVE  /\ Acyclic(nd, NewIn(nd, inl, outl, a, c))
           /\ \A b \in outl[a] \ {c} : Apart(nd, inl, a, b) =>
                  Apart(nd, NewIn(nd, inl, outl, a, c), a, b)
<1> DEFINE in == NewIn(nd, inl, outl, a, c)
           To(n) == Reach(inl, nd, inl[n])
           C == Reach(inl, nd, inl[c] \ {a})
<1>1. \A n \in nd : in[n] = IF n = a THEN Inputs(inl, a, c) ELSE IF n = c THEN {}
                  ELSE IF n \in Outputs(outl, a, c) THEN Renamed(inl[n], c, a) ELSE inl[n]
  BY DEF NewIn
<1>2. in \in [nd -> SUBSET nd]
  BY NewLinksType
<1>3. ASSUME NEW n \in nd
      PROVE  /\ inl[n] \subseteq To(n) /\ To(n) \subseteq nd /\ Closed(inl, To(n))
             /\ n \notin To(n)
             /\ \A T : inl[n] \subseteq T /\ Closed(inl, T) => To(n) \subseteq T
  <2>1. inl[n] \in SUBSET nd
    OBVIOUS
  <2>2. n \notin To(n)
    BY DEF Acyclic
  <2> HIDE DEF in
  <2> QED
    BY <2>1, <2>2, ReachFacts
<1>4. inl[c] \ {a} \subseteq C /\ C \subseteq nd /\ Closed(inl, C) /\ a \notin C
  <2>1. inl[c] \ {a} \in SUBSET nd
    OBVIOUS
  <2>2. a \notin C
    BY DEF Apart
  <2> HIDE DEF in
  <2> QED
    BY <2>1, <2>2, ReachFacts
<1> HIDE DEF in, To, C
<1>5. ASSUME NEW n \in nd PROVE c \in inl[n] => n \in Outputs(outl, a, c) \/ n = a
  BY <1>5 DEF Outputs
<1>6. a \in inl[c] /\ c \notin inl[a] /\ c \notin inl[c]
  <2>1. a \in inl[c]
    OBVIOUS
  <2>2. a \in To(c) /\ inl[a] \subseteq To(c) /\ c \notin To(c)
    BY <1>3, <2>1 DEF Closed
  <2>3. c \notin inl[c]
    BY <1>3
  <2> QED
    BY <2>1, <2>2, <2>3
\* A closed set without a has no c, and is closed afterwards.
<1>7. ASSUME NEW T, T \subseteq nd, Closed(inl, T), a \notin T
      PROVE  c \notin T /\ Closed(in, T) /\ \A x \in T : in[x] = inl[x]
  <2>1. c \notin T
    BY <1>6, <1>7 DEF Closed
  <2>2. ASSUME NEW x \in T PROVE in[x] = inl[x]
    <3>1. x \in nd /\ x # a /\ x # c /\ c \notin inl[x]
      BY <1>7, <2>1 DEF Closed
    <3> QED
      BY <1>1, <3>1 DEF Renamed
  <2> QED
    BY <1>7, <2>1, <2>2 DEF Closed
<1>8. ASSUME NEW n \in nd PROVE n \notin Reach(in, nd, in[n])
  <2>1. SUFFICES \E T : in[n] \subseteq T /\ Closed(in, T) /\ n \notin T
    <3>1. in[n] \in SUBSET nd
      BY <1>2
    <3> QED
      BY <1>2, <3>1, ReachAvoids
  <2>2. CASE n = a
    <3> DEFINE T == To(a) \cup C
    <3>1. T \subseteq nd /\ Closed(inl, T) /\ a \notin T
      BY <1>3, <1>4 DEF Closed
    <3>2. in[n] \subseteq T
      BY <1>1, <1>3, <1>4, <2>2 DEF Inputs
    <3> HIDE DEF T
    <3> QED
      BY <1>7, <2>2, <3>1, <3>2
  <2>3. CASE n = c
    <3>1. in[n] \subseteq {} /\ Closed(in, {}) /\ n \notin {}
      BY <1>1, <2>3 DEF Closed
    <3> QED
      BY <3>1
  <2>4. CASE n # a /\ n # c /\ a \notin To(n)
    <3>1. c \notin To(n) /\ Closed(in, To(n))
      BY <1>3, <1>7, <2>4
    <3>2. c \notin inl[n]
      BY <1>3, <3>1
    <3>3. in[n] = inl[n]
      BY <1>1, <2>4, <3>2 DEF Renamed
    <3> QED
      BY <1>3, <3>1, <3>3
  <2>5. CASE n # a /\ n # c /\ a \in To(n)
    <3> DEFINE T == (To(n) \cup C) \ {c}
    <3>1. n \notin C
      <4>1. ASSUME n \in C PROVE FALSE
        <5>1. inl[n] \subseteq C
          BY <1>4, <4>1 DEF Closed
        <5>2. To(n) \subseteq C
          BY <1>3, <1>4, <5>1
        <5> QED
          BY <1>4, <2>5, <5>2
      <4> QED
        BY <4>1
    <3>2. n \notin T
      BY <1>3, <3>1
    <3>3. ASSUME NEW x \in nd, inl[x] \subseteq To(n) \cup C, x # a, x # c PROVE in[x] \subseteq T
      <4>1. in[x] \subseteq (inl[x] \ {c}) \cup {a}
        BY <1>1, <1>5, <3>3 DEF Renamed
      <4> QED
        BY <2>5, <3>3, <4>1
    <3>4. in[a] \subseteq T
      BY <1>1, <1>3, <1>4, <1>6, <2>5 DEF Inputs, Closed
    <3>5. in[n] \subseteq T
      BY <1>3, <2>5, <3>3
    <3>6. Closed(in, T)
      <4>1. ASSUME NEW x \in T PROVE in[x] \subseteq T
        <5>1. x \in nd /\ x # c /\ inl[x] \subseteq To(n) \cup C
          BY <1>3, <1>4 DEF Closed
        <5> HIDE DEF T
        <5> QED
          BY <3>3, <3>4, <5>1
      <4> QED
        BY <4>1 DEF Closed
    <3> HIDE DEF T
    <3> QED
      BY <3>2, <3>5, <3>6
  <2> QED
    BY <2>2, <2>3, <2>4, <2>5
<1>9. ASSUME NEW b \in outl[a] \ {c}, Apart(nd, inl, a, b)
      PROVE  Apart(nd, in, a, b)
  <2> DEFINE T == Reach(inl, nd, inl[b] \ {a})
  <2>1. b \in nd /\ inl[b] \ {a} \in SUBSET nd /\ a \in inl[b]
    OBVIOUS
  <2>2. inl[b] \ {a} \subseteq T /\ T \subseteq nd /\ Closed(inl, T) /\ a \notin T
    <3>1. a \notin T
      BY <1>9 DEF Apart
    <3> QED
      BY <2>1, <3>1, ReachFacts
  <2> HIDE DEF T
  <2>3. c \notin T /\ Closed(in, T)
    BY <1>7, <2>2
  <2>4. b # a
    BY <1>3, <2>1
  <2>5. in[b] \ {a} \subseteq T
    BY <1>1, <2>1, <2>2, <2>4 DEF Renamed
  <2>6. in[b] \ {a} \in SUBSET nd
    BY <1>2, <2>1
  <2> QED
    BY <1>2, <2>2, <2>3, <2>5, <2>6, ReachAvoids DEF Apart
<1> QED
  BY <1>8, <1>9 DEF Acyclic, in

-----------------------------------------------------------------------------
(* The graph of a network.                                                 *)

\* A set of naturals with an upper bound has a greatest element.
LEMMA LargestNatural ==
    ASSUME NEW S \in SUBSET Nat, NEW n \in Nat, \A x \in S : x <= n, S # {}
    PROVE  \E x \in S : \A y \in S : y <= x
<1> DEFINE B == {b \in Nat : \A x \in S : x <= b}
<1>1. B \in SUBSET Nat /\ B # {} /\ \A b : b \in B <=> b \in Nat /\ \A x \in S : x <= b
  OBVIOUS
<1> HIDE DEF B
<1>2. PICK b \in B : \A y \in B : b <= y
  BY <1>1, LeastNatural
<1>3. b \in Nat /\ \A x \in S : x <= b
  BY <1>1, <1>2
<1>4. b \in S
  <2>1. SUFFICES ASSUME b \notin S PROVE FALSE
    OBVIOUS
  <2>2. \A x \in S : x < b /\ x \in Nat
    BY <1>3, <2>1
  <2>3. b - 1 \in Nat /\ \A x \in S : x <= b - 1
    <3>1. PICK x \in S : TRUE
      OBVIOUS
    <3>2. b # 0
      BY <2>2, <3>1
    <3> QED
      BY <1>3, <2>2, <3>2
  <2>4. b <= b - 1
    BY <1>1, <1>2, <2>3
  <2> QED
    BY <1>3, <2>4
<1> QED
  BY <1>3, <1>4

LEMMA NetworkLength ==
    ASSUME NEW nt, IsNetwork(nt)
    PROVE  /\ Len(nt) \in Nat
           /\ \A i \in Ops(nt) : nt[i] \in Operators
                 /\ nt[i].ins \subseteq {0} \cup {nt[j].out : j \in 1 .. i - 1}
BY DEF IsNetwork, Ops

\* A name means the variable of an earlier operator, or what was fed.
LEMMA ProducerBefore ==
    ASSUME NEW nt, IsNetwork(nt), NEW i \in Ops(nt), NEW x
    PROVE  Producer(nt, i, x) \in 0 .. i - 1
<1> DEFINE W == {j \in 1 .. i - 1 : nt[j].out = x}
<1>1. i \in Nat /\ i - 1 \in Nat
  BY NetworkLength DEF Ops
<1>2. CASE W = {}
  BY <1>1, <1>2 DEF Producer
<1>3. CASE W # {}
  <2>1. W \in SUBSET Nat /\ \A y \in W : y <= i - 1 /\ y \in 0 .. i - 1
    BY <1>1
  <2> HIDE DEF W
  <2>2. \E j \in W : \A k \in W : k <= j
    BY <1>1, <1>3, <2>1, LargestNatural
  <2>3. (CHOOSE j \in W : \A k \in W : k <= j) \in W
    BY <2>2
  <2> QED
    BY <1>3, <2>1, <2>3 DEF Producer, W
<1> QED
  BY <1>2, <1>3

LEMMA VarsReadBefore ==
    ASSUME NEW nt, IsNetwork(nt), NEW i \in Ops(nt)
    PROVE  VarsRead(nt, i) \subseteq 0 .. i - 1
BY ProducerBefore DEF VarsRead

LEMMA NodesAreFinite ==
    ASSUME NEW nt, IsNetwork(nt)
    PROVE  IsFiniteSet(GraphNodes(nt))
<1> DEFINE f == [i \in 1 .. Len(nt) |-> OpNode(i)]
           g == [v \in 0 .. Len(nt) |-> VarNode(v)]
           F == {OpNode(i) : i \in 1 .. Len(nt)}
           G == {VarNode(v) : v \in 0 .. Len(nt)}
<1>1. Len(nt) \in Nat
  BY NetworkLength
<1>2. IsFiniteSet(1 .. Len(nt)) /\ IsFiniteSet(0 .. Len(nt))
  BY <1>1, FS_Interval
<1>3. f \in Surjection(1 .. Len(nt), F)
  BY DEF Surjection
<1>4. g \in Surjection(0 .. Len(nt), G)
  BY DEF Surjection
<1> HIDE DEF f, g
<1>5. IsFiniteSet(F) /\ IsFiniteSet(G)
  <2> HIDE DEF F, G
  <2> QED
    BY <1>2, <1>3, <1>4, FS_Surjection
<1>6. GraphNodes(nt) = F \cup G
  BY DEF GraphNodes, Ops
<1> HIDE DEF F, G
<1> QED
  BY <1>5, <1>6, FS_Union

\* Node n of the graph is an operator or a variable.
LEMMA NodeKinds ==
    ASSUME NEW nt, IsNetwork(nt), NEW n
    PROVE  n \in GraphNodes(nt) <=>
             \/ \E i \in 1 .. Len(nt) : n = OpNode(i)
             \/ \E v \in 0 .. Len(nt) : n = VarNode(v)
BY DEF GraphNodes, Ops

LEMMA LinksOfOp ==
    ASSUME NEW nt, NEW i
    PROVE  LinksIn(nt, OpNode(i)) = {VarNode(v) : v \in VarsRead(nt, i)}
BY DEF LinksIn, OpNode

LEMMA LinksOfVar ==
    ASSUME NEW nt, NEW v
    PROVE  LinksIn(nt, VarNode(v)) = {OpNode(v)} \cap GraphNodes(nt)
BY DEF LinksIn, VarNode

LEMMA LinksInType ==
    ASSUME NEW nt, IsNetwork(nt), NEW n \in GraphNodes(nt)
    PROVE  LinksIn(nt, n) \subseteq GraphNodes(nt)
<1>1. Len(nt) \in Nat
  BY NetworkLength
<1>2. CASE \E i \in 1 .. Len(nt) : n = OpNode(i)
  <2>1. PICK i \in 1 .. Len(nt) : n = OpNode(i)
    BY <1>2
  <2>2. VarsRead(nt, i) \subseteq 0 .. i - 1 /\ 0 .. i - 1 \subseteq 0 .. Len(nt)
    BY <1>1, VarsReadBefore DEF Ops
  <2>3. \A v \in VarsRead(nt, i) : VarNode(v) \in GraphNodes(nt)
    BY <2>2, NodeKinds
  <2> QED
    BY <2>1, <2>3, LinksOfOp
<1>3. CASE \E v \in 0 .. Len(nt) : n = VarNode(v)
  BY <1>3, LinksOfVar
<1> QED
  BY <1>2, <1>3, NodeKinds

\* Operators in program order, each before its variable.
Rank(n) == IF n[1] = "op" THEN 2 * n[2] ELSE 2 * n[2] + 1

\* Every link of the network leads from a lower rank to a higher.
LEMMA LinksGoForward ==
    ASSUME NEW nt, IsNetwork(nt), NEW n \in GraphNodes(nt), NEW m \in LinksIn(nt, n)
    PROVE  Rank(m) < Rank(n)
<1>1. Len(nt) \in Nat
  BY NetworkLength
<1>2. CASE \E i \in 1 .. Len(nt) : n = OpNode(i)
  <2>1. PICK i \in 1 .. Len(nt) : n = OpNode(i)
    BY <1>2
  <2>2. PICK v \in VarsRead(nt, i) : m = VarNode(v)
    BY <2>1, LinksOfOp
  <2>3. v \in 0 .. i - 1 /\ i \in Nat
    BY <1>1, VarsReadBefore DEF Ops
  <2>4. Rank(m) = 2 * v + 1 /\ Rank(n) = 2 * i
    BY <2>1, <2>2 DEF Rank, OpNode, VarNode
  <2> QED
    BY <2>3, <2>4
<1>3. CASE \E v \in 0 .. Len(nt) : n = VarNode(v)
  <2>1. PICK v \in 0 .. Len(nt) : n = VarNode(v)
    BY <1>3
  <2>2. m = OpNode(v)
    BY <2>1, LinksOfVar
  <2>3. Rank(m) = 2 * v /\ Rank(n) = 2 * v + 1 /\ v \in Nat
    BY <1>1, <2>1, <2>2 DEF Rank, OpNode, VarNode
  <2> QED
    BY <2>3
<1> QED
  BY <1>2, <1>3, NodeKinds

LEMMA RankType ==
    ASSUME NEW nt, IsNetwork(nt), NEW n \in GraphNodes(nt)
    PROVE  Rank(n) \in Nat
<1>1. Len(nt) \in Nat
  BY NetworkLength
<1>2. ASSUME NEW i \in 1 .. Len(nt), n = OpNode(i) PROVE Rank(n) \in Nat
  <2>1. Rank(n) = 2 * i /\ i \in Nat
    BY <1>1, <1>2 DEF Rank, OpNode
  <2> QED
    BY <2>1
<1>3. ASSUME NEW v \in 0 .. Len(nt), n = VarNode(v) PROVE Rank(n) \in Nat
  <2>1. Rank(n) = 2 * v + 1 /\ v \in Nat
    BY <1>1, <1>3 DEF Rank, VarNode
  <2> QED
    BY <2>1
<1> QED
  BY <1>2, <1>3, NodeKinds

\* Node's links, as a function.
NetLinks(nt) == [n \in GraphNodes(nt) |-> LinksIn(nt, n)]

\* The graph that the walk begins with has no cycle.
LEMMA NetworkIsAcyclic ==
    ASSUME NEW nt, IsNetwork(nt)
    PROVE  Acyclic(GraphNodes(nt), NetLinks(nt))
<1> DEFINE nd == GraphNodes(nt)
           inl == NetLinks(nt)
<1>1. inl \in [nd -> SUBSET nd] /\ \A x \in nd : inl[x] = LinksIn(nt, x)
  BY LinksInType DEF NetLinks
<1>2. IsFiniteSet(nd)
  BY NodesAreFinite
<1> SUFFICES ASSUME NEW n \in nd PROVE n \notin Reach(inl, nd, inl[n])
  BY DEF Acyclic
<1> DEFINE T == {x \in nd : Rank(x) < Rank(n)}
<1>3. \A x \in nd : \A y \in inl[x] : y \in nd /\ Rank(y) < Rank(x)
  BY <1>1, LinksGoForward
<1> HIDE DEF inl
<1>4. inl[n] \subseteq T /\ n \notin T
  BY <1>3, RankType
<1>5. Closed(inl, T)
  <2>1. ASSUME NEW x \in T, NEW y \in inl[x] PROVE y \in T
    <3>1. x \in nd /\ y \in nd /\ Rank(y) < Rank(x) /\ Rank(x) < Rank(n)
      BY <1>3
    <3> HIDE DEF nd, T
    <3>2. Rank(x) \in Nat /\ Rank(y) \in Nat /\ Rank(n) \in Nat
      BY <3>1, RankType DEF nd
    <3> QED
      BY <3>1, <3>2 DEF T
  <2> QED
    BY <2>1 DEF Closed
<1>6. inl[n] \in SUBSET nd
  BY <1>1
<1> HIDE DEF nd, T
<1> QED
  BY <1>1, <1>2, <1>4, <1>5, <1>6, ReachAvoids

\* Before anything is combined the links are those of the network.
LEMMA QuotientOfTheNetwork ==
    ASSUME NEW nt, IsNetwork(nt), NEW outl,
           outl = [n \in GraphNodes(nt) |-> LinksOut(nt, n)]
    PROVE  Quotient(GraphNodes(nt), NetLinks(nt), [n \in GraphNodes(nt) |-> n],
                    NetLinks(nt), outl)
<1> DEFINE nd == GraphNodes(nt)
           lin == NetLinks(nt)
           R == [n \in nd |-> n]
<1>1. lin \in [nd -> SUBSET nd] /\ \A x \in nd : lin[x] = LinksIn(nt, x)
  BY LinksInType DEF NetLinks
<1>2. \A n, r \in nd : r \in outl[n] <=> n \in lin[r]
  BY <1>1 DEF LinksOut
<1>3. \A n, r \in nd : r \in lin[n] => r # n
  <2>1. SUFFICES ASSUME NEW n \in nd, n \in lin[n] PROVE FALSE
    OBVIOUS
  <2>2. Rank(n) < Rank(n) /\ Rank(n) \in Nat
    BY <1>1, <2>1, LinksGoForward, RankType
  <2> QED
    BY <2>2
<1>4. ASSUME NEW r \in nd, NEW n \in nd PROVE Edge(lin, R, r, n) <=> r \in lin[n]
  <2>1. DOMAIN lin = nd /\ \A x \in nd : R[x] = x /\ lin[x] \subseteq nd
    BY <1>1
  <2> HIDE DEF lin, R, nd
  <2> QED
    BY <1>4, <2>1 DEF Edge
<1> HIDE DEF lin, R, nd
<1>5. Quotient(nd, lin, R, lin, outl)
  BY <1>2, <1>3, <1>4 DEF Quotient
<1> QED
  BY <1>5 DEF lin, R, nd

-----------------------------------------------------------------------------
(* The walk.                                                               *)

\* What holds between the steps of the detector: the parents are a forest whose roots
\* have the links of their clusters, no cluster reaches itself, and from the node the
\* walk is at every node to be combined with it has a link from it and no other path.
ForestInv == \E d : Forest(union_find_parent, Nodes, Ancestors, d)
LinksInv ==
    IF pc = "init" THEN union_find_parent = [n \in Nodes |-> n] /\ contract = {}
    ELSE Quotient(Nodes, NetLinks(net), Ancestors, inlinks, outlinks)
WalkInv ==
    /\ pc \in {"expand", "combine"} => node \in Nodes
    /\ pc = "combine" =>
         \A c \in contract : c \in outlinks[node] /\ Apart(Nodes, inlinks, node, c)
DetectorInv ==
    /\ DetectorTypeOK /\ ForestInv /\ LinksInv /\ WalkInv
    /\ Acyclic(Nodes, inlinks)

LEMMA NodesFacts ==
    ASSUME net \in Networks
    PROVE  IsNetwork(net) /\ IsFiniteSet(Nodes)
BY NetworksAssumption, NodesAreFinite DEF Nodes

\* The detector's invariant at first, and through each of its steps.
LEMMA DetectorBegins == Init => DetectorInv
<1> SUFFICES ASSUME Init PROVE DetectorInv
  OBVIOUS
<1> USE DEF Init, DetectorInit
<1>1. DetectorTypeOK
  BY DEF DetectorTypeOK, NoNode
<1>2. IsFiniteSet(Nodes)
  BY NodesFacts
<1> DEFINE R == [n \in Nodes |-> n]
           d == [n \in Nodes |-> 0]
<1>3. Forest(union_find_parent, Nodes, R, d)
  <2>1. \A x \in Nodes : union_find_parent[x] = x /\ R[x] = x /\ d[x] = 0
    OBVIOUS
  <2>2. {r \in Nodes : union_find_parent[r] = r} = Nodes
    BY <2>1
  <2>3. Cardinality(Nodes) \in Nat
    BY <1>2, FS_CardinalityType
  <2>4. R \in [Nodes -> Nodes] /\ d \in [Nodes -> Nat]
    OBVIOUS
  <2>5. Cardinality({r \in Nodes : union_find_parent[r] = r}) = Cardinality(Nodes)
    BY <2>2
  <2> HIDE DEF R, d, Init, DetectorInit
  <2> QED
    BY <2>1, <2>3, <2>4, <2>5 DEF Forest
<1>4. Ancestors = R
  <2>1. union_find_parent \in [Nodes -> Nodes]
    OBVIOUS
  <2>2. \A n \in Nodes : Ancestor(union_find_parent, Nodes, n) = R[n]
    <3> HIDE DEF R, d, Init, DetectorInit
    <3> QED
      BY <1>2, <1>3, <2>1, AncestorIsRoot
  <2> QED
    BY <2>2, AncestorIs DEF Ancestors
<1>5. Acyclic(Nodes, inlinks)
  <2>1. \A n \in Nodes : inlinks[n] = {} /\ inlinks \in [Nodes -> SUBSET Nodes]
    OBVIOUS
  <2>2. Closed(inlinks, {})
    BY DEF Closed
  <2> HIDE DEF Init, DetectorInit
  <2>3. \A n \in Nodes : n \notin Reach(inlinks, Nodes, {})
    BY <1>2, <2>1, <2>2, ReachAvoids
  <2> QED
    BY <2>1, <2>3 DEF Acyclic
<1> QED
  BY <1>1, <1>3, <1>4, <1>5 DEF DetectorInv, ForestInv, LinksInv, WalkInv

\* Steps that leave the links alone.
LEMMA LinksKept ==
    ASSUME DetectorInv, UNCHANGED <<net, links>>, pc' = "init" <=> pc = "init",
           contract' = contract \/ pc # "init", DetectorTypeOK', WalkInv'
    PROVE  DetectorInv'
<1>1. Nodes' = Nodes /\ union_find_parent' = union_find_parent /\ inlinks' = inlinks
      /\ outlinks' = outlinks /\ net' = net
  BY DEF Nodes, links
<1>2. Ancestors' = Ancestors
  BY <1>1 DEF Ancestors, UnionFindAncestor
<1>3. ForestInv'
  BY <1>1, <1>2 DEF DetectorInv, ForestInv
<1>4. LinksInv'
  BY <1>1, <1>2 DEF DetectorInv, LinksInv
<1>5. Acyclic(Nodes, inlinks)'
  BY <1>1 DEF DetectorInv
<1> QED
  BY <1>3, <1>4, <1>5 DEF DetectorInv

LEMMA AncestorsAtFirst ==
    DetectorInv /\ pc = "init" => Ancestors = [n \in Nodes |-> n]
<1> SUFFICES ASSUME DetectorInv, pc = "init" PROVE Ancestors = [n \in Nodes |-> n]
  OBVIOUS
<1>1. PICK d : Forest(union_find_parent, Nodes, Ancestors, d)
  BY DEF DetectorInv, ForestInv
<1>2. union_find_parent = [n \in Nodes |-> n]
  BY DEF DetectorInv, LinksInv
<1>3. Ancestors \in [Nodes -> Nodes] /\ \A n \in Nodes : Ancestors[n] = n
  BY <1>1, <1>2 DEF Forest
<1> QED
  BY <1>3

LEMMA InitNodesKeeps == DetectorInv /\ InitNodes => DetectorInv'
<1> SUFFICES ASSUME DetectorInv, InitNodes PROVE DetectorInv'
  OBVIOUS
<1>1. net \in Networks /\ net' = net /\ Nodes' = Nodes /\ union_find_parent' = union_find_parent
  BY DEF DetectorInv, DetectorTypeOK, InitNodes, Nodes
<1>2. IsNetwork(net) /\ IsFiniteSet(Nodes)
  BY <1>1, NodesFacts
<1>3. Ancestors' = Ancestors /\ Ancestors = [n \in Nodes |-> n]
  <2>1. Ancestors = [n \in Nodes |-> n]
    BY AncestorsAtFirst DEF InitNodes
  <2> QED
    BY <1>1, <2>1 DEF Ancestors, UnionFindAncestor
<1>4. inlinks' = NetLinks(net) /\ outlinks' = [n \in GraphNodes(net) |-> LinksOut(net, n)]
  BY DEF InitNodes, Nodes, NetLinks
<1>5. DetectorTypeOK'
  <2>1. Marked \subseteq Nodes
    <3>1. Supported \subseteq 1 .. Len(net) /\ Len(net) \in Nat
      BY <1>2, NetworkLength DEF Supported, Ops
    <3>2. \A i \in Supported : i \in 1 .. Len(net) /\ i \in 0 .. Len(net)
      BY <3>1
    <3> QED
      BY <1>2, <3>2, NodeKinds DEF Marked, Nodes
  <2>2. inlinks' \in [Nodes -> SUBSET Nodes]
    BY <1>2, <1>4, LinksInType DEF NetLinks, Nodes
  <2>3. outlinks' \in [Nodes -> SUBSET Nodes]
    BY <1>4 DEF Nodes, LinksOut
  <2>4. pc' \in {"visit", "cluster"} /\ marked' = Marked /\ todo' = marked'
        /\ node' = node /\ contract' = contract /\ pc = "init"
    BY DEF InitNodes
  <2>5. contract \subseteq marked' /\ node \in Nodes \cup {NoNode}
        /\ union_find_parent \in [Nodes -> Nodes]
    BY <2>4 DEF DetectorInv, DetectorTypeOK, LinksInv
  <2> QED
    BY <1>1, <2>1, <2>2, <2>3, <2>4, <2>5 DEF DetectorTypeOK
<1>6. ForestInv'
  BY <1>1, <1>3 DEF DetectorInv, ForestInv
<1>7. LinksInv' /\ pc' # "init" /\ WalkInv'
  <2>1. Quotient(Nodes, NetLinks(net), Ancestors, NetLinks(net), outlinks')
    BY <1>2, <1>3, <1>4, QuotientOfTheNetwork DEF Nodes
  <2>2. pc' \in {"visit", "cluster"}
    BY DEF InitNodes
  <2> QED
    BY <1>1, <1>3, <1>4, <2>1, <2>2 DEF LinksInv, WalkInv
<1>8. Acyclic(Nodes, inlinks)'
  <2>1. Acyclic(GraphNodes(net), NetLinks(net))
    BY <1>2, NetworkIsAcyclic
  <2> QED
    BY <1>1, <1>4, <2>1 DEF Nodes
<1> QED
  BY <1>5, <1>6, <1>7, <1>8 DEF DetectorInv

LEMMA VisitKeeps == DetectorInv /\ Visit => DetectorInv'
<1> SUFFICES ASSUME DetectorInv, Visit PROVE DetectorInv'
  OBVIOUS
<1>1. DetectorTypeOK'
  BY DEF DetectorInv, DetectorTypeOK, Visit, Nodes, links
<1>2. WalkInv'
  BY DEF DetectorInv, DetectorTypeOK, Visit, WalkInv, Nodes
<1>3. pc # "init" /\ pc' # "init" /\ UNCHANGED <<net, links>>
  BY DEF Visit
<1> QED
  BY <1>1, <1>2, <1>3, LinksKept

LEMMA ExpandKeeps == DetectorInv /\ Expand => DetectorInv'
<1> SUFFICES ASSUME DetectorInv, Expand PROVE DetectorInv'
  OBVIOUS
<1>1. DetectorTypeOK'
  BY DEF DetectorInv, DetectorTypeOK, Expand, Nodes, links, Contractible
<1>2. WalkInv'
  <2>1. \A c \in Contractible(node) : c \in outlinks[node] /\ Apart(Nodes, inlinks, node, c)
    BY ReachIs DEF Contractible, Apart
  <2>2. node' = node /\ Nodes' = Nodes /\ inlinks' = inlinks /\ outlinks' = outlinks
        /\ contract' = Contractible(node) /\ pc = "expand"
    BY DEF Expand, links, Nodes
  <2> QED
    BY <2>1, <2>2 DEF DetectorInv, WalkInv
<1>3. pc # "init" /\ pc' # "init" /\ UNCHANGED <<net, links>>
  BY DEF Expand
<1> QED
  BY <1>1, <1>2, <1>3, LinksKept

\* What Combine does: the candidate's cluster, whose root it is, joins the node's.
CombineEffect(c) ==
    /\ c \in contract /\ c \in Nodes /\ c \in marked /\ node \in Nodes /\ c # node
    /\ c \in outlinks[node] /\ Apart(Nodes, inlinks, node, c)
    /\ Ancestors \in [Nodes -> Nodes] /\ Ancestors[c] = c /\ Ancestors[node] = node
    /\ Quotient(Nodes, NetLinks(net), Ancestors, inlinks, outlinks)
    /\ NetLinks(net) \in [Nodes -> SUBSET Nodes]
    /\ Ancestors' = Merged(Nodes, Ancestors, node, c)
    /\ union_find_parent' = [union_find_parent EXCEPT ![c] = node]
    /\ inlinks' = NewIn(Nodes, inlinks, outlinks, node, c)
    /\ outlinks' = NewOut(Nodes, inlinks, outlinks, node, c)
    /\ contract' = contract \ {c}
    /\ ForestInv'

\* A combination hangs a candidate's root under the node's, which is a root too.
LEMMA CombineDoes == DetectorInv /\ Combine => \E c : CombineEffect(c)
<1> SUFFICES ASSUME DetectorInv, Combine PROVE \E c : CombineEffect(c)
  OBVIOUS
<1>1. /\ net \in Networks /\ IsFiniteSet(Nodes) /\ node \in Nodes
      /\ inlinks \in [Nodes -> SUBSET Nodes] /\ outlinks \in [Nodes -> SUBSET Nodes]
      /\ union_find_parent \in [Nodes -> Nodes] /\ Nodes' = Nodes /\ pc = "combine"
  BY NodesFacts DEF DetectorInv, DetectorTypeOK, WalkInv, Combine, Nodes
<1>2. PICK c \in contract : UnionFindCombine(c) /\ contract' = contract \ {c}
  BY DEF Combine
<1>3. PICK d : Forest(union_find_parent, Nodes, Ancestors, d)
  BY DEF DetectorInv, ForestInv
<1> DEFINE R == Ancestors
           lin == NetLinks(net)
<1>4. R \in [Nodes -> Nodes] /\ \A x \in Nodes : union_find_parent[R[x]] = R[x]
      /\ (union_find_parent[x] = x => R[x] = x)
  BY <1>3 DEF Forest
<1>5. c \in outlinks[node] /\ Apart(Nodes, inlinks, node, c)
  BY <1>1, <1>2 DEF DetectorInv, WalkInv
<1>6. c \in Nodes /\ Quotient(Nodes, lin, R, inlinks, outlinks)
  BY <1>1, <1>5 DEF DetectorInv, LinksInv
<1>7. lin \in [Nodes -> SUBSET Nodes]
  BY <1>1, NodesFacts, LinksInType DEF NetLinks, Nodes
<1>8. c # node /\ union_find_parent[c] = c /\ union_find_parent[node] = node
      /\ R[c] = c /\ R[node] = node
  <2>1. c # node /\ Edge(lin, R, node, c)
    BY <1>1, <1>5, <1>6 DEF Quotient
  <2>2. PICK x \in Nodes : \E m \in lin[x] : R[m] = node /\ R[x] = c
    BY <1>7, <2>1 DEF Edge
  <2>3. PICK m \in Nodes : R[m] = node /\ R[x] = c
    BY <1>7, <2>2
  <2> QED
    BY <1>1, <1>4, <1>6, <2>1, <2>3
<1>9. \A x \in Nodes : UnionFindAncestor(x) = R[x]
  BY DEF Ancestors
<1> HIDE DEF R, lin
<1>10. union_find_parent' = [union_find_parent EXCEPT ![c] = node]
  <2>1. UnionFindAncestor(node) = node /\ UnionFindAncestor(c) = c
    BY <1>1, <1>6, <1>8, <1>9
  <2>2. union_find_parent' = [union_find_parent EXCEPT ![c] = node, ![node] = node, ![c] = node]
    BY <1>2, <2>1 DEF UnionFindCombine, CombineWith
  <2> QED
    BY <1>1, <1>6, <1>8, <2>2
<1>11. inlinks' = NewIn(Nodes, inlinks, outlinks, node, c)
       /\ outlinks' = NewOut(Nodes, inlinks, outlinks, node, c)
  BY <1>2 DEF UnionFindCombine, CombineWith, NewIn, NewOut, Inputs, Outputs
<1>12. Ancestors' = Merged(Nodes, R, node, c) /\ ForestInv'
  <2>1. PICK e : Forest(union_find_parent', Nodes, Merged(Nodes, R, node, c), e)
    BY <1>1, <1>3, <1>6, <1>8, <1>10, CombineForest DEF R
  <2>2. union_find_parent' \in [Nodes -> Nodes]
    BY <1>1, <1>6, <1>10
  <2>3. \A n \in Nodes : Ancestor(union_find_parent', Nodes, n) = Merged(Nodes, R, node, c)[n]
    BY <1>1, <2>1, <2>2, AncestorIsRoot
  <2>4. Ancestors' = [n \in Nodes |-> Ancestor(union_find_parent', Nodes, n)]
    BY <1>1 DEF Ancestors, UnionFindAncestor, Ancestor
  <2>5. Merged(Nodes, R, node, c) = [n \in Nodes |-> Merged(Nodes, R, node, c)[n]]
    BY DEF Merged
  <2>6. Ancestors' = Merged(Nodes, R, node, c)
    BY <2>3, <2>4, <2>5
  <2> QED
    BY <1>1, <2>1, <2>6 DEF ForestInv
<1>13. c \in marked
  BY <1>2 DEF DetectorInv, DetectorTypeOK
<1>14. CombineEffect(c)
  BY <1>1, <1>2, <1>4, <1>5, <1>6, <1>7, <1>8, <1>10, <1>11, <1>12, <1>13
     DEF CombineEffect, R, lin
<1> QED
  BY <1>14

LEMMA CombineKeeps == DetectorInv /\ Combine => DetectorInv'
<1> SUFFICES ASSUME DetectorInv, Combine PROVE DetectorInv'
  OBVIOUS
<1>1. /\ net \in Networks /\ IsFiniteSet(Nodes) /\ node \in Nodes
      /\ inlinks \in [Nodes -> SUBSET Nodes] /\ outlinks \in [Nodes -> SUBSET Nodes]
      /\ union_find_parent \in [Nodes -> Nodes] /\ Nodes' = Nodes /\ pc = "combine"
  BY NodesFacts DEF DetectorInv, DetectorTypeOK, WalkInv, Combine, Nodes
<1> DEFINE R == Ancestors
           lin == NetLinks(net)
<1>2. PICK c : CombineEffect(c)
  BY CombineDoes
<1>4. /\ R \in [Nodes -> Nodes] /\ lin \in [Nodes -> SUBSET Nodes]
      /\ contract' = contract \ {c}
  BY <1>2 DEF CombineEffect
<1>5. c \in outlinks[node] /\ Apart(Nodes, inlinks, node, c)
  BY <1>2 DEF CombineEffect
<1>6. c \in Nodes /\ Quotient(Nodes, lin, R, inlinks, outlinks)
  BY <1>2 DEF CombineEffect
<1>8. c # node /\ R[c] = c /\ R[node] = node
  BY <1>2 DEF CombineEffect
<1>10. union_find_parent' = [union_find_parent EXCEPT ![c] = node]
  BY <1>2 DEF CombineEffect
<1>11. inlinks' = NewIn(Nodes, inlinks, outlinks, node, c)
       /\ outlinks' = NewOut(Nodes, inlinks, outlinks, node, c)
  BY <1>2 DEF CombineEffect
<1>12. Ancestors' = Merged(Nodes, R, node, c) /\ ForestInv'
  BY <1>2 DEF CombineEffect
<1> HIDE DEF R, lin
<1>13. LinksInv'
  <2>1. c \notin inlinks[node]
    <3>1. node \in inlinks[c]
      BY <1>1, <1>5, <1>6 DEF Quotient
    <3>2. Acyclic(Nodes, inlinks)
      BY DEF DetectorInv
    <3>3. inlinks[c] \subseteq Reach(inlinks, Nodes, inlinks[c])
          /\ Closed(inlinks, Reach(inlinks, Nodes, inlinks[c]))
      <4>1. inlinks[c] \in SUBSET Nodes
        BY <1>1, <1>6
      <4> QED
        BY <1>1, <4>1, ReachFacts
    <3>4. inlinks[node] \subseteq Reach(inlinks, Nodes, inlinks[c])
      BY <3>1, <3>3 DEF Closed
    <3> QED
      BY <1>6, <3>2, <3>4 DEF Acyclic
  <2>2. Quotient(Nodes, lin, Merged(Nodes, R, node, c), inlinks', outlinks')
    BY <1>1, <1>4, <1>6, <1>8, <1>11, <2>1, CombineQuotient
  <2>3. net' = net /\ pc' # "init"
    BY DEF Combine
  <2> QED
    BY <1>1, <1>12, <2>2, <2>3 DEF LinksInv, lin
<1>14. /\ Acyclic(Nodes, inlinks')
       /\ \A b \in outlinks[node] \ {c} :
             Apart(Nodes, inlinks, node, b) => Apart(Nodes, inlinks', node, b)
  <2>1. \A n, r \in Nodes : r \in inlinks[n] <=> n \in outlinks[r]
    BY <1>6 DEF Quotient
  <2>2. Acyclic(Nodes, inlinks)
    BY DEF DetectorInv
  <2> QED
    BY <1>1, <1>5, <1>6, <1>8, <1>11, <2>1, <2>2, CombineAcyclic
<1>15. WalkInv'
  <2>1. node' = node /\ contract' = contract \ {c}
    BY <1>4 DEF Combine
  <2>2. outlinks'[node] = outlinks[c] \cup (outlinks[node] \ {c})
    BY <1>1, <1>11 DEF NewOut, Outputs
  <2>3. \A b \in contract' : b \in outlinks[node] \ {c} /\ Apart(Nodes, inlinks, node, b)
    BY <1>1, <2>1 DEF DetectorInv, WalkInv
  <2>4. \A b \in contract' : b \in outlinks'[node] /\ Apart(Nodes, inlinks', node, b)
    BY <1>14, <2>2, <2>3
  <2> QED
    BY <1>1, <2>1, <2>4 DEF WalkInv
<1>16. DetectorTypeOK'
  <2>1. inlinks' \in [Nodes -> SUBSET Nodes] /\ outlinks' \in [Nodes -> SUBSET Nodes]
    BY <1>1, <1>6, <1>11, NewLinksType
  <2>2. union_find_parent' \in [Nodes -> Nodes]
    BY <1>1, <1>6, <1>10
  <2>3. pc' \in {"expand", "combine"} /\ net' = net /\ marked' = marked /\ todo' = todo
        /\ node' = node /\ contract' \subseteq contract
    BY <1>4 DEF Combine
  <2> QED
    BY <1>1, <2>1, <2>2, <2>3 DEF DetectorInv, DetectorTypeOK
<1> QED
  BY <1>1, <1>12, <1>13, <1>14, <1>15, <1>16 DEF DetectorInv

\* The passes after the detector leave its links alone.
LEMMA LaterKeeps ==
    DetectorInv /\ (Fuse \/ Schedule \/ Collect \/ Plan \/ Run \/ SkipFetch \/ Finished) => DetectorInv'
<1> SUFFICES ASSUME DetectorInv, Fuse \/ Schedule \/ Collect \/ Plan \/ Run \/ SkipFetch \/ Finished
             PROVE  DetectorInv'
  OBVIOUS
<1>1. /\ UNCHANGED <<net, detector>> /\ pc # "init"
      /\ pc' \in {"schedule", "collect", "plan", "run", "done"}
  BY DEF Fuse, Schedule, Collect, Plan, Run, SkipFetch, Finished
<1>2. DetectorTypeOK'
  BY <1>1 DEF DetectorInv, DetectorTypeOK, detector, links, Nodes
<1>3. WalkInv'
  BY <1>1 DEF WalkInv
<1> QED
  BY <1>1, <1>2, <1>3, LinksKept DEF detector

LEMMA StutterKeeps == DetectorInv /\ UNCHANGED vars => DetectorInv'
<1> SUFFICES ASSUME DetectorInv, UNCHANGED vars PROVE DetectorInv'
  OBVIOUS
<1>1. UNCHANGED <<net, pc, marked, inlinks, outlinks, union_find_parent, todo, node, contract>>
  BY DEF vars, detector, links
<1>2. Nodes' = Nodes
  BY <1>1 DEF Nodes
<1>3. DetectorTypeOK'
  BY <1>1, <1>2 DEF DetectorInv, DetectorTypeOK
<1>4. WalkInv'
  BY <1>1, <1>2 DEF DetectorInv, WalkInv
<1> QED
  BY <1>1, <1>3, <1>4, LinksKept DEF links

\* The invariant of the detector in every state.
LEMMA DetectorInvariant == Spec => []DetectorInv
<1>1. Init => DetectorInv
  BY DetectorBegins
<1>2. DetectorInv /\ [Next]_vars => DetectorInv'
  BY InitNodesKeeps, VisitKeeps, ExpandKeeps, CombineKeeps, LaterKeeps, StutterKeeps
     DEF Next, Detect
<1> QED
  BY <1>1, <1>2, PTL DEF Spec

\* Whatever was combined in what order, every cluster's links are those of its nodes to
\* other clusters, and a node that was combined with another has none.
THEOREM LinksAreThoseOfTheClusters == Spec => []LinksAreTheQuotient
<1>1. DetectorInv => LinksAreTheQuotient
  <2> SUFFICES ASSUME DetectorInv, pc # "init", NEW n \in Nodes
               PROVE  /\ Ancestors[n] # n => inlinks[n] = {} /\ outlinks[n] = {}
                      /\ Ancestors[n] = n =>
                         /\ inlinks[n] = {Ancestors[m] : m \in UNION {LinksIn(net, x) :
                                             x \in {y \in Nodes : Ancestors[y] = n}}} \ {n}
                         /\ outlinks[n] = {Ancestors[m] : m \in UNION {LinksOut(net, x) :
                                             x \in {y \in Nodes : Ancestors[y] = n}}} \ {n}
    BY DEF LinksAreTheQuotient
  <2> DEFINE R == Ancestors
             lin == NetLinks(net)
  <2>1. /\ IsNetwork(net) /\ inlinks \in [Nodes -> SUBSET Nodes]
        /\ outlinks \in [Nodes -> SUBSET Nodes]
    BY NodesFacts DEF DetectorInv, DetectorTypeOK
  <2>2. R \in [Nodes -> Nodes] /\ \A x \in Nodes : R[R[x]] = R[x]
    <3>1. PICK d : Forest(union_find_parent, Nodes, Ancestors, d)
      BY DEF DetectorInv, ForestInv
    <3> QED
      BY <3>1 DEF Forest
  <2>3. \A r \in Nodes : /\ r \in inlinks[n] <=> r # n /\ Edge(lin, R, r, n)
                         /\ r \in outlinks[n] <=> r # n /\ Edge(lin, R, n, r)
    BY DEF DetectorInv, LinksInv, Quotient
  <2>4. /\ DOMAIN lin = Nodes /\ \A x \in Nodes : lin[x] = LinksIn(net, x)
        /\ \A x \in Nodes : lin[x] \subseteq Nodes
    BY <2>1, LinksInType DEF NetLinks, Nodes
  <2>5. \A x, m \in Nodes : m \in LinksOut(net, x) <=> x \in lin[m]
    BY <2>4 DEF LinksOut, Nodes
  <2>6. \A x \in Nodes : LinksOut(net, x) \subseteq Nodes
    BY DEF LinksOut, Nodes
  <2> HIDE DEF R, lin
  <2>7. \A r \in Nodes : Edge(lin, R, r, n) <=>
            \E x \in {y \in Nodes : R[y] = n} : \E m \in LinksIn(net, x) : R[m] = r
    BY <2>4 DEF Edge
  <2>8. \A r \in Nodes : Edge(lin, R, n, r) <=>
            \E x \in {y \in Nodes : R[y] = n} : \E m \in LinksOut(net, x) : R[m] = r
    <3>1. \A r \in Nodes : Edge(lin, R, n, r) <=>
            \E m \in Nodes : \E x \in lin[m] : R[x] = n /\ R[m] = r
      BY <2>4 DEF Edge
    <3> QED
      BY <2>4, <2>5, <2>6, <3>1
  <2>9. ASSUME R[n] # n PROVE inlinks[n] = {} /\ outlinks[n] = {}
    <3>1. \A y \in Nodes : R[y] # n
      BY <2>2, <2>9
    <3>2. \A r \in Nodes : ~Edge(lin, R, r, n) /\ ~Edge(lin, R, n, r)
      BY <2>7, <2>8, <3>1
    <3> QED
      BY <2>1, <2>3, <3>2
  <2>10. inlinks[n] = {R[m] : m \in UNION {LinksIn(net, x) :
                                x \in {y \in Nodes : R[y] = n}}} \ {n}
    <3> DEFINE M == UNION {LinksIn(net, x) : x \in {y \in Nodes : R[y] = n}}
    <3>1. \A m \in M : m \in Nodes /\ R[m] \in Nodes
      BY <2>2, <2>4
    <3>2. \A r \in Nodes : Edge(lin, R, r, n) <=> \E m \in M : R[m] = r
      BY <2>7
    <3> HIDE DEF M
    <3>3. inlinks[n] = {R[m] : m \in M} \ {n}
      BY <2>1, <2>3, <3>1, <3>2
    <3> QED
      BY <3>3 DEF M
  <2>11. outlinks[n] = {R[m] : m \in UNION {LinksOut(net, x) :
                                x \in {y \in Nodes : R[y] = n}}} \ {n}
    <3> DEFINE M == UNION {LinksOut(net, x) : x \in {y \in Nodes : R[y] = n}}
    <3>1. \A m \in M : m \in Nodes /\ R[m] \in Nodes
      BY <2>2, <2>6
    <3>2. \A r \in Nodes : Edge(lin, R, n, r) <=> \E m \in M : R[m] = r
      BY <2>8
    <3> HIDE DEF M
    <3>3. outlinks[n] = {R[m] : m \in M} \ {n}
      BY <2>1, <2>3, <3>1, <3>2
    <3> QED
      BY <3>3 DEF M
  <2> QED
    BY <2>9, <2>10, <2>11 DEF R
<1> QED
  BY <1>1, DetectorInvariant, PTL

\* "The graph is always directed acyclic graph": no cluster feeds itself through others,
\* also while the candidates of one round are combined one after the other.
THEOREM NoClusterFeedsItself == Spec => []ContractedGraphIsAcyclic
<1>1. DetectorInv => ContractedGraphIsAcyclic
  BY ReachIs DEF DetectorInv, Acyclic, ContractedGraphIsAcyclic
<1> QED
  BY <1>1, DetectorInvariant, PTL

-----------------------------------------------------------------------------
(* Recursion over ranks and over subsets; topological orders and folds.    *)

\* A function on D whose value at a point comes from those at points of lower rank.
RecursiveOn(F, D, A, rank) ==
    /\ F \in [[D -> A] -> [D -> A]]
    /\ \A g, h \in [D -> A] : \A s \in D :
          (\A t \in D : rank[t] < rank[s] => g[t] = h[t]) => F[g][s] = F[h][s]
HasFixpoint(F, D, A) == \E h \in [D -> A] : F[h] = h

\* A definition by recursion over a rank has a solution.
LEMMA RankRecursion ==
    ASSUME NEW D, NEW A, NEW N \in Nat, NEW rank \in [D -> 0 .. N], NEW a \in A, NEW F,
           RecursiveOn(F, D, A, rank)
    PROVE  HasFixpoint(F, D, A)
<1> DEFINE H == [D -> A]
           b == [s \in D |-> a]
<1>1. b \in H /\ F \in [H -> H]
  BY DEF RecursiveOn
<1> HIDE DEF b, H
<1>2. PICK g \in [0 .. N + 2 -> H] : g[0] = b /\ \A k \in 1 .. N + 2 : g[k] = F[g[k - 1]]
  <2>1. Iterates(H, F, b)
    BY <1>1, IterateExists
  <2>2. N + 2 \in Nat
    OBVIOUS
  <2> QED
    BY <2>1, <2>2 DEF Iterates
<1> DEFINE T == {k \in Nat : k \in 0 .. N + 1 => \A s \in D : rank[s] < k => g[k + 1][s] = g[k][s]}
<1>3. 0 \in T
  OBVIOUS
<1>4. ASSUME NEW k \in Nat, k \in T PROVE k + 1 \in T
  <2> SUFFICES ASSUME k + 1 \in 0 .. N + 1, NEW s \in D, rank[s] < k + 1
               PROVE  g[k + 2][s] = g[k + 1][s]
    OBVIOUS
  <2>1. k \in 0 .. N + 1 /\ k \in 0 .. N + 2 /\ k + 1 \in 1 .. N + 2 /\ k + 2 \in 1 .. N + 2
        /\ (k + 1) - 1 = k /\ (k + 2) - 1 = k + 1 /\ k + 1 \in 0 .. N + 2
    OBVIOUS
  <2>2. g[k] \in H /\ g[k + 1] \in H /\ g[k + 1] = F[g[k]] /\ g[k + 2] = F[g[k + 1]]
    BY <1>2, <2>1
  <2>3. \A t \in D : rank[t] < rank[s] => g[k + 1][t] = g[k][t]
    BY <1>4, <2>1
  <2> HIDE DEF T
  <2>4. F[g[k + 1]][s] = F[g[k]][s]
    BY <2>2, <2>3 DEF RecursiveOn, H
  <2> QED
    BY <2>2, <2>4
<1> HIDE DEF T
<1>5. \A k \in Nat : k \in T
  BY <1>3, <1>4, InductiveSet
<1>6. N + 1 \in Nat /\ N + 1 \in 0 .. N + 1 /\ N + 1 \in 0 .. N + 2 /\ N + 2 \in 1 .. N + 2
      /\ (N + 2) - 1 = N + 1 /\ (N + 1) + 1 = N + 2 /\ N + 2 \in 0 .. N + 2
  OBVIOUS
<1>7. \A s \in D : g[N + 2][s] = g[N + 1][s]
  BY <1>5, <1>6 DEF T
<1>8. g[N + 1] \in H /\ g[N + 2] \in H /\ g[N + 2] = F[g[N + 1]]
  BY <1>2, <1>6
<1>9. g[N + 2] = g[N + 1]
  <2> DEFINE x == g[N + 1]
             y == g[N + 2]
  <2>1. x \in [D -> A] /\ y \in [D -> A] /\ \A s \in D : y[s] = x[s]
    BY <1>7, <1>8 DEF H
  <2> HIDE DEF x, y
  <2>2. x = y
    BY <2>1
  <2> QED
    BY <2>2 DEF x, y
<1> QED
  BY <1>8, <1>9 DEF H, HasFixpoint

\* The same for the subsets of a finite set.
Recursive(F, S, A) ==
    /\ F \in [[SUBSET S -> A] -> [SUBSET S -> A]]
    /\ \A g, h \in [SUBSET S -> A] : \A s \in SUBSET S :
          (\A t \in SUBSET s : t # s => g[t] = h[t]) => F[g][s] = F[h][s]

\* The rank of a finite set is how many elements it has.
LEMMA SetRecursion ==
    ASSUME NEW S, IsFiniteSet(S), NEW A, NEW a \in A, NEW F, Recursive(F, S, A)
    PROVE  HasFixpoint(F, SUBSET S, A)
<1> DEFINE N == Cardinality(S)
           rank == [s \in SUBSET S |-> Cardinality(s)]
<1>1. N \in Nat /\ \A s \in SUBSET S : Cardinality(s) \in 0 .. N
  BY FS_Subset, FS_CardinalityType
<1>2. \A s \in SUBSET S : \A t \in SUBSET s : t # s => rank[t] < rank[s]
  <2> SUFFICES ASSUME NEW s \in SUBSET S, NEW t \in SUBSET s, t # s
               PROVE  Cardinality(t) < Cardinality(s)
    OBVIOUS
  <2>1. IsFiniteSet(s)
    BY FS_Subset
  <2>2. Cardinality(t) <= Cardinality(s) /\ Cardinality(t) # Cardinality(s)
    BY <2>1, FS_Subset
  <2>3. t \in SUBSET S
    OBVIOUS
  <2> HIDE DEF N
  <2>4. Cardinality(t) \in Nat /\ Cardinality(s) \in Nat
    BY <1>1, <2>3
  <2> QED
    BY <2>2, <2>4
<1>3. rank \in [SUBSET S -> 0 .. N]
  BY <1>1
<1> HIDE DEF N, rank
<1>4. RecursiveOn(F, SUBSET S, A, rank)
  <2>1. ASSUME NEW g \in [SUBSET S -> A], NEW h \in [SUBSET S -> A], NEW s \in SUBSET S,
               \A t \in SUBSET S : rank[t] < rank[s] => g[t] = h[t]
        PROVE  F[g][s] = F[h][s]
    <3>1. \A t \in SUBSET s : t # s => g[t] = h[t]
      BY <1>2, <2>1
    <3> QED
      BY <3>1, Zenon DEF Recursive
  <2> QED
    BY <2>1, Zenon DEF Recursive, RecursiveOn
<1> QED
  BY <1>1, <1>3, <1>4, RankRecursion

\* q lists each element of R once, every one before those that follow it.
IsOrder(q, R, dep) ==
    /\ q \in Seq(R) /\ Len(q) = Cardinality(R)
    /\ \A x \in R : \E k \in 1 .. Len(q) : q[k] = x
    /\ \A j, k \in 1 .. Len(q) : j <= k => q[k] \notin dep[q[j]]
    /\ \A j, k \in 1 .. Len(q) : j # k => q[j] # q[k]

Lasts(R, dep) == {y \in R : \A z \in R : y \notin dep[z]}

\* T[R] has the orders of R.
OrdersOf(T, S, dep) ==
    /\ TopologicalOrders(S, dep) = T[S] /\ T[{}] = {<<>>}
    /\ \A R \in SUBSET S : R # {} =>
          T[R] = UNION {{Append(q, x) : q \in T[R \ {x}]} : x \in Lasts(R, dep)}

\* TopologicalOrders is what its recursion says.
LEMMA OrdersDefined ==
    ASSUME NEW S, IsFiniteSet(S), NEW dep
    PROVE  \E T : OrdersOf(T, S, dep)
<1> DEFINE A == SUBSET Seq(S)
           E(h, R) == IF R = {} THEN {<<>>}
                      ELSE UNION {{Append(q, x) : q \in h[R \ {x}]} : x \in Lasts(R, dep)}
           F == [h \in [SUBSET S -> A] |-> [R \in SUBSET S |-> E(h, R)]]
<1>1. ASSUME NEW h \in [SUBSET S -> A], NEW R \in SUBSET S PROVE E(h, R) \in A
  <2>1. \A x \in Lasts(R, dep) : x \in S /\ R \ {x} \in SUBSET S
    BY DEF Lasts
  <2>2. \A x \in Lasts(R, dep) : \A q \in h[R \ {x}] : q \in Seq(S) /\ Append(q, x) \in Seq(S)
    BY <2>1
  <2>3. <<>> \in Seq(S)
    OBVIOUS
  <2>4. CASE R = {}
    BY <2>3, <2>4
  <2>5. CASE R # {}
    <3>1. \A x \in Lasts(R, dep) : {Append(q, x) : q \in h[R \ {x}]} \subseteq Seq(S)
      BY <2>2
    <3> QED
      BY <2>5, <3>1
  <2> QED
    BY <2>4, <2>5
<1> DEFINE H == [SUBSET S -> A]
<1>2. F \in [H -> H] /\ \A h \in H : F[h] = [R \in SUBSET S |-> E(h, R)]
  <2> HIDE DEF A, E
  <2> QED
    BY <1>1
<1>3. Recursive(F, S, A)
  <2>1. ASSUME NEW g \in H, NEW h \in H, NEW s \in SUBSET S,
               \A t \in SUBSET s : t # s => g[t] = h[t]
        PROVE  E(g, s) = E(h, s)
    <3>1. \A x \in Lasts(s, dep) : g[s \ {x}] = h[s \ {x}]
      <4> HIDE DEF F, A, H
      <4> QED
        BY <2>1 DEF Lasts
    <3>2. {{Append(q, x) : q \in g[s \ {x}]} : x \in Lasts(s, dep)}
          = {{Append(q, x) : q \in h[s \ {x}]} : x \in Lasts(s, dep)}
      <4> HIDE DEF F, A, E, H
      <4> QED
        BY <3>1
    <3> QED
      BY <3>2, Zenon
  <2> HIDE DEF E, F, A, H
  <2>2. ASSUME NEW g \in H, NEW h \in H, NEW s \in SUBSET S,
               \A t \in SUBSET s : t # s => g[t] = h[t]
        PROVE  F[g][s] = F[h][s]
    <3>1. E(g, s) = E(h, s)
      BY <2>1, <2>2, Zenon
    <3>2. F[g][s] = E(g, s) /\ F[h][s] = E(h, s)
      BY <1>2
    <3> QED
      BY <3>1, <3>2
  <2> QED
    BY <1>2, <2>2, Zenon DEF Recursive, H
<1>4. {} \in A
  OBVIOUS
<1> HIDE DEF F, A, E, H
<1>5. PICK T \in H : F[T] = T
  <2>1. HasFixpoint(F, SUBSET S, A)
    BY <1>3, <1>4, SetRecursion
  <2> QED
    BY <2>1 DEF HasFixpoint, H
<1> DEFINE Eq(h) == h = [R \in SUBSET S |->
               IF R = {} THEN {<<>>}
               ELSE UNION {{Append(q, x) : q \in h[R \ {x}]} :
                              x \in {y \in R : \A z \in R : y \notin dep[z]}}]
<1>6. Eq(T)
  <2>1. T = [R \in SUBSET S |-> E(T, R)]
    BY <1>2, <1>5
  <2> QED
    BY <2>1, Zenon DEF Lasts, E
<1> DEFINE U == CHOOSE h : Eq(h)
<1>7. Eq(U)
  BY <1>6, Zenon
<1>8. TopologicalOrders(S, dep) = U[S]
  BY DEF TopologicalOrders
<1> HIDE DEF U
<1>9. U[{}] = {<<>>}
  BY <1>7
<1>10. \A R \in SUBSET S : R # {} =>
          U[R] = UNION {{Append(q, x) : q \in U[R \ {x}]} : x \in Lasts(R, dep)}
  BY <1>7 DEF Lasts
<1> QED
  BY <1>8, <1>9, <1>10 DEF OrdersOf

\* Every sequence in it lists each element once, after what it depends on.
LEMMA OrdersAreOrders ==
    ASSUME NEW S, IsFiniteSet(S), NEW dep, NEW q \in TopologicalOrders(S, dep)
    PROVE  IsOrder(q, S, dep)
<1>0. PICK T : OrdersOf(T, S, dep)
  BY OrdersDefined
<1>1. /\ TopologicalOrders(S, dep) = T[S] /\ T[{}] = {<<>>}
      /\ \A R \in SUBSET S : R # {} =>
            T[R] = UNION {{Append(p, x) : p \in T[R \ {x}]} : x \in Lasts(R, dep)}
  BY <1>0 DEF OrdersOf
<1> DEFINE Z == {k \in Nat : \A R \in SUBSET S : Cardinality(R) = k =>
                                \A p \in T[R] : IsOrder(p, R, dep)}
<1>2. \A R \in SUBSET S : IsFiniteSet(R) /\ Cardinality(R) \in Nat
  BY FS_Subset, FS_CardinalityType
<1>3. 0 \in Z
  <2> SUFFICES ASSUME NEW R \in SUBSET S, Cardinality(R) = 0, NEW p \in T[R]
               PROVE  IsOrder(p, R, dep)
    OBVIOUS
  <2>1. R = {}
    BY <1>2, FS_EmptySet
  <2>2. p = <<>>
    BY <1>1, <2>1
  <2> QED
    BY <2>1, <2>2 DEF IsOrder
<1>4. ASSUME NEW k \in Nat, k \in Z PROVE k + 1 \in Z
  <2> SUFFICES ASSUME NEW R \in SUBSET S, Cardinality(R) = k + 1, NEW p \in T[R]
               PROVE  IsOrder(p, R, dep)
    OBVIOUS
  <2>1. R # {}
    BY FS_EmptySet
  <2>2. p \in UNION {{Append(r, x) : r \in T[R \ {x}]} : x \in Lasts(R, dep)}
    BY <1>1, <2>1
  <2>3. PICK x \in Lasts(R, dep) : p \in {Append(r, x) : r \in T[R \ {x}]}
    BY <2>2
  <2>4. PICK r \in T[R \ {x}] : p = Append(r, x)
    BY <2>3
  <2>5. x \in R /\ R \ {x} \in SUBSET S /\ \A z \in R : x \notin dep[z]
    BY DEF Lasts
  <2>6. Cardinality(R \ {x}) = k
    BY <1>2, <2>5, FS_RemoveElement
  <2>7. IsOrder(r, R \ {x}, dep)
    BY <1>4, <2>5, <2>6
  <2> HIDE DEF Z
  <2>8. r \in Seq(R) /\ r \in Seq(R \ {x}) /\ Len(r) = k
    BY <2>6, <2>7 DEF IsOrder
  <2>9. /\ p \in Seq(R) /\ Len(p) = k + 1 /\ p[k + 1] = x
        /\ \A i \in 1 .. k : p[i] = r[i] /\ r[i] \in R \ {x}
    BY <2>4, <2>5, <2>8
  <2>10. \A y \in R : \E i \in 1 .. k + 1 : p[i] = y
    <3> SUFFICES ASSUME NEW y \in R PROVE \E i \in 1 .. k + 1 : p[i] = y
      OBVIOUS
    <3>1. CASE y = x
      BY <2>9, <3>1
    <3>2. CASE y # x
      <4>1. PICK i \in 1 .. k : r[i] = y
        BY <2>7, <2>8, <3>2 DEF IsOrder
      <4> QED
        BY <2>9, <4>1
    <3> QED
      BY <3>1, <3>2
  <2>11. \A i, j \in 1 .. k + 1 : i <= j => p[j] \notin dep[p[i]]
    <3> SUFFICES ASSUME NEW i \in 1 .. k + 1, NEW j \in 1 .. k + 1, i <= j
                 PROVE  p[j] \notin dep[p[i]]
      OBVIOUS
    <3>1. CASE j = k + 1
      <4>1. p[i] \in R
        BY <2>9
      <4> QED
        BY <2>5, <2>9, <3>1, <4>1
    <3>2. CASE j # k + 1
      <4>1. i \in 1 .. k /\ j \in 1 .. k
        BY <3>2
      <4> QED
        BY <2>7, <2>8, <2>9, <4>1 DEF IsOrder
    <3> QED
      BY <3>1, <3>2
  <2>12. \A i, j \in 1 .. k + 1 : i # j => p[i] # p[j]
    <3> SUFFICES ASSUME NEW i \in 1 .. k + 1, NEW j \in 1 .. k + 1, i # j
                 PROVE  p[i] # p[j]
      OBVIOUS
    <3>1. i \in 1 .. k \/ i = k + 1
      OBVIOUS
    <3>2. j \in 1 .. k \/ j = k + 1
      OBVIOUS
    <3> QED
      BY <2>7, <2>8, <2>9, <3>1, <3>2 DEF IsOrder
  <2> QED
    BY <2>9, <2>10, <2>11, <2>12 DEF IsOrder
<1> HIDE DEF Z
<1>5. \A k \in Nat : k \in Z
  BY <1>3, <1>4, InductiveSet
<1>6. S \in SUBSET S /\ Cardinality(S) \in Nat
  BY <1>2
<1> QED
  BY <1>1, <1>5, <1>6 DEF Z

\* Folding a function over a sequence of length n.
FoldedBy(it, A, f, base, n, seq) ==
    /\ it \in [SUBSET (1 .. n) -> A]
    /\ \A s \in SUBSET (1 .. n) :
          it[s] = IF s = {} THEN base ELSE f[<<it[s \ {Max(s)}], seq[Max(s)]>>]

LEMMA MaxIsIn ==
    ASSUME NEW n \in Nat, NEW s \in SUBSET (1 .. n), s # {}
    PROVE  Max(s) \in s /\ \A y \in s : y <= Max(s)
<1>1. s \in SUBSET Nat /\ \A x \in s : x <= n
  OBVIOUS
<1>2. \E x \in s : \A y \in s : y <= x
  BY <1>1, LargestNatural
<1>3. \E x \in s : \A y \in s : x >= y
  BY <1>1, <1>2
<1>4. Max(s) \in s /\ \A y \in s : Max(s) >= y
  BY <1>3 DEF Max
<1> QED
  BY <1>1, <1>4

LEMMA MaxOfInterval ==
    ASSUME NEW k \in Nat \ {0}
    PROVE  Max(1 .. k) = k /\ (1 .. k) \ {k} = 1 .. k - 1
<1>1. (1 .. k) \in SUBSET (1 .. k) /\ 1 .. k # {} /\ k \in 1 .. k
  OBVIOUS
<1>2. Max(1 .. k) \in 1 .. k /\ \A y \in 1 .. k : y <= Max(1 .. k)
  BY <1>1, MaxIsIn
<1> QED
  BY <1>1, <1>2

\* FoldLeft's recursion over the sets of positions has a solution.
LEMMA FoldExists ==
    ASSUME NEW A, NEW X, NEW f \in [A \X X -> A], NEW base \in A, NEW n \in Nat,
           NEW seq \in [1 .. n -> X]
    PROVE  \E it : FoldedBy(it, A, f, base, n, seq)
<1> DEFINE S == 1 .. n
           H == [SUBSET S -> A]
           E(h, s) == IF s = {} THEN base ELSE f[<<h[s \ {Max(s)}], seq[Max(s)]>>]
           F == [h \in H |-> [s \in SUBSET S |-> E(h, s)]]
<1>1. \A s \in SUBSET S : s # {} => Max(s) \in s
  BY MaxIsIn
<1>2. ASSUME NEW h \in H, NEW s \in SUBSET S PROVE E(h, s) \in A
  <2>1. CASE s = {}
    BY <2>1
  <2>2. CASE s # {}
    <3>1. Max(s) \in S /\ s \ {Max(s)} \in SUBSET S
      BY <1>1, <2>2
    <3>2. h[s \ {Max(s)}] \in A /\ seq[Max(s)] \in X
      BY <3>1
    <3> HIDE DEF H, S, F
    <3> QED
      BY <2>2, <3>2
  <2> QED
    BY <2>1, <2>2
<1>3. F \in [H -> H] /\ \A h \in H : F[h] = [s \in SUBSET S |-> E(h, s)]
  <2> HIDE DEF E, S
  <2> QED
    BY <1>2
<1>4. Recursive(F, S, A)
  <2>1. ASSUME NEW g \in H, NEW h \in H, NEW s \in SUBSET S,
               \A t \in SUBSET s : t # s => g[t] = h[t]
        PROVE  E(g, s) = E(h, s)
    <3>1. CASE s = {}
      BY <3>1
    <3>2. CASE s # {}
      <4>1. g[s \ {Max(s)}] = h[s \ {Max(s)}]
        <5>1. s \ {Max(s)} \in SUBSET s /\ s \ {Max(s)} # s
          BY <1>1, <3>2
        <5> QED
          BY <2>1, <5>1, Zenon
      <4> QED
        BY <3>2, <4>1, Zenon
    <3> QED
      BY <3>1, <3>2
  <2> HIDE DEF E, F, S, H
  <2>2. ASSUME NEW g \in H, NEW h \in H, NEW s \in SUBSET S,
               \A t \in SUBSET s : t # s => g[t] = h[t]
        PROVE  F[g][s] = F[h][s]
    <3>1. E(g, s) = E(h, s)
      BY <2>1, <2>2, Zenon
    <3>2. F[g][s] = E(g, s) /\ F[h][s] = E(h, s)
      BY <1>3
    <3> QED
      BY <3>1, <3>2
  <2> QED
    BY <1>3, <2>2, Zenon DEF Recursive, H
<1>5. IsFiniteSet(S)
  BY FS_Interval
<1> HIDE DEF F, E, H, S
<1>6. PICK T \in H : F[T] = T
  <2>1. HasFixpoint(F, SUBSET S, A)
    BY <1>4, <1>5, SetRecursion
  <2> QED
    BY <2>1 DEF HasFixpoint, H
<1>7. \A s \in SUBSET S : T[s] = E(T, s)
  BY <1>3, <1>6
<1> QED
  BY <1>7, Zenon DEF E, H, S, FoldedBy

\* An operator depends on those whose variables it reads, and on what they depend on.
LEMMA DependsOnIs ==
    ASSUME NEW nt, IsNetwork(nt), NEW i \in Ops(nt)
    PROVE  DependsOn(nt)[i] = UNION {{w} \cup DependsOn(nt)[w] : w \in VarsRead(nt, i) \ {0}}
<1> DEFINE D == Ops(nt)
           A == SUBSET Nat
           H == [D -> A]
           E(h, k) == UNION {{w} \cup h[w] : w \in VarsRead(nt, k) \ {0}}
           F == [h \in H |-> [k \in D |-> E(h, k)]]
           rank == [k \in D |-> k]
<1>1. Len(nt) \in Nat /\ rank \in [D -> 0 .. Len(nt)]
  BY NetworkLength DEF Ops
<1>2. \A k \in D : \A w \in VarsRead(nt, k) \ {0} : w \in D /\ w < k /\ w \in Nat
  BY <1>1, VarsReadBefore DEF Ops
<1>3. ASSUME NEW h \in H, NEW k \in D PROVE E(h, k) \in A
  BY <1>2
<1>4. F \in [H -> H] /\ \A h \in H : F[h] = [k \in D |-> E(h, k)]
  <2> HIDE DEF E, D, A
  <2> QED
    BY <1>3
<1>5. RecursiveOn(F, D, A, rank)
  <2>1. ASSUME NEW g \in H, NEW h \in H, NEW k \in D,
               \A t \in D : rank[t] < rank[k] => g[t] = h[t]
        PROVE  F[g][k] = F[h][k]
    <3>1. \A w \in VarsRead(nt, k) \ {0} : g[w] = h[w]
      BY <1>2, <2>1
    <3>2. {{w} \cup g[w] : w \in VarsRead(nt, k) \ {0}} = {{w} \cup h[w] : w \in VarsRead(nt, k) \ {0}}
      <4> HIDE DEF D, A, H, F
      <4> QED
        BY <3>1
    <3>3. E(g, k) = E(h, k)
      BY <3>2, Zenon
    <3>4. F[g][k] = E(g, k) /\ F[h][k] = E(h, k)
      <4> HIDE DEF F, E, H, D
      <4> QED
        BY <1>4
    <3> QED
      BY <3>3, <3>4
  <2> HIDE DEF F, D, A, H
  <2> QED
    BY <1>4, <2>1, Zenon DEF RecursiveOn, H
<1>6. {} \in A
  OBVIOUS
<1> HIDE DEF F, D, A, H, rank, E
<1>7. PICK T \in H : F[T] = T
  <2>1. HasFixpoint(F, D, A)
    BY <1>1, <1>5, <1>6, RankRecursion
  <2> QED
    BY <2>1 DEF HasFixpoint, H
<1> DEFINE Eq(h) == h = [k \in Ops(nt) |-> UNION {{w} \cup h[w] : w \in VarsRead(nt, k) \ {0}}]
           U == CHOOSE h : Eq(h)
<1>8. Eq(T)
  BY <1>4, <1>7, Zenon DEF E, D
<1>9. Eq(U)
  BY <1>8, Zenon
<1>10. DependsOn(nt) = U
  BY DEF DependsOn
<1> HIDE DEF U
<1>11. U[i] = UNION {{w} \cup U[w] : w \in VarsRead(nt, i) \ {0}}
  BY <1>9
<1> HIDE DEF Eq
<1> QED
  BY <1>10, <1>11, Zenon

LEMMA DependsOnReads ==
    ASSUME NEW nt, IsNetwork(nt), NEW i \in Ops(nt), NEW v \in VarsRead(nt, i) \ {0}
    PROVE  v \in DependsOn(nt)[i]
<1> DEFINE D == DependsOn(nt)
<1>1. D[i] = UNION {{w} \cup D[w] : w \in VarsRead(nt, i) \ {0}}
  BY DependsOnIs
<1> HIDE DEF D
<1>2. {v} \cup D[v] \in {{w} \cup D[w] : w \in VarsRead(nt, i) \ {0}}
  OBVIOUS
<1>3. v \in D[i]
  BY <1>1, <1>2
<1> QED
  BY <1>3 DEF D

-----------------------------------------------------------------------------
(* The lists of the clusters.                                              *)

\* The clusters are gathered one operator after the other.
GatherStep(c, i) == [c EXCEPT ![UnionFindAncestor(OpNode(i))] = Append(@, i)]
Gathered(r, order) ==
    /\ r[0] = [n \in Nodes |-> <<>>]
    /\ \A k \in 1 .. Len(order) : r[k] = GatherStep(r[k - 1], order[k])
    /\ Clusters(order) = {r[Len(order)][n] : n \in Nodes} \ {<<>>}

\* The clusters' lists after each of the operators.
LEMMA GatherSteps ==
    ASSUME NEW S, NEW order \in Seq(S), \A i \in S : UnionFindAncestor(OpNode(i)) \in Nodes
    PROVE  \E r : Gathered(r, order)
<1> DEFINE n == Len(order)
           A == [Nodes -> Seq(S)]
           base == [m \in Nodes |-> <<>>]
           f == [p \in A \X S |-> GatherStep(p[1], p[2])]
<1>1. n \in Nat /\ DOMAIN order = 1 .. n /\ order \in [1 .. n -> S]
  OBVIOUS
<1>2. base \in A
  OBVIOUS
<1>3. \A c \in A : \A i \in S : GatherStep(c, i) \in A
  BY DEF GatherStep
<1>4. f \in [A \X S -> A] /\ \A c \in A : \A i \in S : f[<<c, i>>] = GatherStep(c, i)
  <2> HIDE DEF A
  <2> QED
    BY <1>3
<1> HIDE DEF n, A, base, f
<1>5. PICK it : FoldedBy(it, A, f, base, n, order)
  BY <1>1, <1>2, <1>4, FoldExists
<1> DEFINE Eq(h) == h = [s \in SUBSET DOMAIN order |->
                          IF s = {} THEN base ELSE GatherStep(h[s \ {Max(s)}], order[Max(s)])]
           U == CHOOSE h : Eq(h)
<1>6. Eq(it)
  <2>1. it \in [SUBSET (1 .. n) -> A]
    BY <1>5 DEF FoldedBy
  <2>2. ASSUME NEW s \in SUBSET (1 .. n)
        PROVE  it[s] = IF s = {} THEN base ELSE GatherStep(it[s \ {Max(s)}], order[Max(s)])
    <3>1. it[s] = IF s = {} THEN base ELSE f[<<it[s \ {Max(s)}], order[Max(s)]>>]
      BY <1>5 DEF FoldedBy
    <3>2. CASE s # {}
      <4>1. Max(s) \in 1 .. n /\ s \ {Max(s)} \in SUBSET (1 .. n)
        BY <1>1, <3>2, MaxIsIn
      <4>2. it[s \ {Max(s)}] \in A /\ order[Max(s)] \in S
        BY <1>1, <2>1, <4>1
      <4> QED
        BY <1>4, <3>1, <3>2, <4>2
    <3> QED
      BY <3>1, <3>2
  <2> QED
    BY <1>1, <2>1, <2>2
<1>7. Eq(U)
  BY <1>6, Zenon
<1>8. Clusters(order) = {U[1 .. n][m] : m \in Nodes} \ {<<>>}
  BY <1>1 DEF Clusters, FoldLeft, MapThenFoldSet, GatherStep, base
<1> HIDE DEF U
<1> DEFINE r == [k \in 0 .. n |-> U[1 .. k]]
<1>9. r[0] = base
  BY <1>1, <1>7
<1>10. ASSUME NEW k \in 1 .. n PROVE r[k] = GatherStep(r[k - 1], order[k])
  <2>0. k \in Nat \ {0} /\ k - 1 \in 0 .. n /\ k \in 0 .. n /\ k \in 1 .. k
    BY <1>1
  <2>1. (1 .. k) \in SUBSET DOMAIN order /\ 1 .. k # {}
    <3>1. \A j \in 1 .. k : j \in 1 .. n
      BY <1>1
    <3> HIDE DEF r
    <3>2. (1 .. k) \subseteq DOMAIN order
      BY <1>1, <3>1, Zenon
    <3> QED
      BY <2>0, <3>2
  <2>2. Max(1 .. k) = k /\ (1 .. k) \ {k} = 1 .. k - 1
    BY <2>0, MaxOfInterval
  <2>3. U[1 .. k] = GatherStep(U[1 .. k - 1], order[k])
    BY <1>7, <2>1, <2>2
  <2> QED
    BY <2>0, <2>3
<1>11. r[n] = U[1 .. n]
  BY <1>1
<1> HIDE DEF r
<1> QED
  BY <1>8, <1>9, <1>10, <1>11 DEF Gathered, n, base

\* The list of n after the first k operators.
PartOfCluster(q, n, order, k) ==
    /\ q \in Seq(Ops(net))
    /\ \A i \in 1 .. Len(q) : UnionFindAncestor(OpNode(q[i])) = n
    /\ \A m \in 1 .. k : UnionFindAncestor(OpNode(order[m])) = n =>
          \E i \in 1 .. Len(q) : q[i] = order[m]
    /\ \A i, j \in 1 .. Len(q) : i < j =>
          \E m, l \in 1 .. k : m < l /\ q[i] = order[m] /\ q[j] = order[l]
    /\ \A i \in 1 .. Len(q) : \E m \in 1 .. k : q[i] = order[m]

\* The list of n has the operators with that ancestor, in the order of the whole.
IsCluster(q, n, order) == PartOfCluster(q, n, order, Len(order))

\* An operator is appended to its own cluster's list and no other.
LEMMA PartGrows ==
    ASSUME NEW order \in Seq(Ops(net)), NEW k \in Nat, k + 1 \in 1 .. Len(order),
           NEW q, NEW n, PartOfCluster(q, n, order, k)
    PROVE  IF UnionFindAncestor(OpNode(order[k + 1])) = n
           THEN PartOfCluster(Append(q, order[k + 1]), n, order, k + 1)
           ELSE PartOfCluster(q, n, order, k + 1)
<1> DEFINE x == order[k + 1]
           anc(i) == UnionFindAncestor(OpNode(i))
           p == Append(q, x)
<1>0. x \in Ops(net)
  OBVIOUS
<1>1. /\ q \in Seq(Ops(net))
      /\ \A i \in 1 .. Len(q) : anc(q[i]) = n
      /\ \A m \in 1 .. k : anc(order[m]) = n => \E i \in 1 .. Len(q) : q[i] = order[m]
      /\ \A i, j \in 1 .. Len(q) : i < j =>
            \E m, l \in 1 .. k : m < l /\ q[i] = order[m] /\ q[j] = order[l]
      /\ \A i \in 1 .. Len(q) : \E m \in 1 .. k : q[i] = order[m]
  BY Zenon DEF PartOfCluster
<1>2. \A m \in 1 .. k + 1 : m # k + 1 => m \in 1 .. k
  OBVIOUS
<1>3. \A m \in 1 .. k : m \in 1 .. k + 1 /\ m < k + 1
  OBVIOUS
<1>4. k + 1 \in 1 .. k + 1
  OBVIOUS
<1> HIDE DEF x, anc, p
<1>5. CASE anc(x) = n
  <2>1. /\ p \in Seq(Ops(net)) /\ Len(p) = Len(q) + 1 /\ p[Len(q) + 1] = x /\ Len(q) \in Nat
        /\ \A i \in 1 .. Len(q) : p[i] = q[i]
    BY <1>0, <1>1, AppendProperties DEF p
  <2>2. \A i \in 1 .. Len(p) : i \in 1 .. Len(q) \/ i = Len(q) + 1
    BY <2>1
  <2>3. \A i \in 1 .. Len(q) : i \in 1 .. Len(p)
    BY <2>1
  <2>4. \A i \in 1 .. Len(p) : anc(p[i]) = n
    BY <1>1, <1>5, <2>1, <2>2
  <2>5. \A m \in 1 .. k + 1 : anc(order[m]) = n => \E i \in 1 .. Len(p) : p[i] = order[m]
    <3> SUFFICES ASSUME NEW m \in 1 .. k + 1, anc(order[m]) = n
                 PROVE  \E i \in 1 .. Len(p) : p[i] = order[m]
      OBVIOUS
    <3>1. CASE m = k + 1
      <4>1. Len(q) + 1 \in 1 .. Len(p) /\ p[Len(q) + 1] = order[m]
        BY <2>1, <3>1 DEF x
      <4> QED
        BY <4>1
    <3>2. CASE m # k + 1
      <4>1. PICK i \in 1 .. Len(q) : q[i] = order[m]
        BY <1>1, <1>2, <3>2
      <4> QED
        BY <2>1, <2>3, <4>1
    <3> QED
      BY <3>1, <3>2
  <2>6. \A i \in 1 .. Len(p) : \E m \in 1 .. k + 1 : p[i] = order[m]
    <3> SUFFICES ASSUME NEW i \in 1 .. Len(p) PROVE \E m \in 1 .. k + 1 : p[i] = order[m]
      OBVIOUS
    <3>1. CASE i \in 1 .. Len(q)
      <4>1. PICK m \in 1 .. k : q[i] = order[m]
        BY <1>1, <3>1
      <4> QED
        BY <1>3, <2>1, <3>1, <4>1
    <3>2. CASE i = Len(q) + 1
      BY <1>4, <2>1, <3>2 DEF x
    <3> QED
      BY <2>2, <3>1, <3>2
  <2>7. ASSUME NEW i \in 1 .. Len(p), NEW j \in 1 .. Len(p), i < j
        PROVE  \E m, l \in 1 .. k + 1 : m < l /\ p[i] = order[m] /\ p[j] = order[l]
    <3>1. i \in 1 .. Len(q)
      BY <2>1, <2>7
    <3>2. CASE j = Len(q) + 1
      <4>1. PICK m \in 1 .. k : q[i] = order[m]
        BY <1>1, <3>1
      <4>2. m \in 1 .. k + 1 /\ m < k + 1 /\ p[i] = order[m] /\ p[j] = order[k + 1]
        BY <1>3, <2>1, <3>1, <3>2, <4>1 DEF x
      <4> QED
        BY <1>4, <4>2
    <3>3. CASE j # Len(q) + 1
      <4>1. j \in 1 .. Len(q)
        BY <2>2, <3>3
      <4>2. PICK m \in 1 .. k, l \in 1 .. k : m < l /\ q[i] = order[m] /\ q[j] = order[l]
        BY <1>1, <2>7, <3>1, <4>1
      <4> QED
        BY <1>3, <2>1, <3>1, <4>1, <4>2
    <3> QED
      BY <3>2, <3>3
  <2>8. PartOfCluster(p, n, order, k + 1)
    BY <2>1, <2>4, <2>5, <2>6, <2>7 DEF PartOfCluster, anc
  <2> QED
    BY <1>5, <2>8 DEF p, x, anc
<1>6. CASE anc(x) # n
  <2>1. \A m \in 1 .. k + 1 : anc(order[m]) = n => \E i \in 1 .. Len(q) : q[i] = order[m]
    BY <1>1, <1>2, <1>6 DEF x
  <2>2. \A i \in 1 .. Len(q) : \E m \in 1 .. k + 1 : q[i] = order[m]
    BY <1>1, <1>3
  <2>3. \A i, j \in 1 .. Len(q) : i < j =>
            \E m, l \in 1 .. k + 1 : m < l /\ q[i] = order[m] /\ q[j] = order[l]
    BY <1>1, <1>3
  <2>4. PartOfCluster(q, n, order, k + 1)
    BY <1>1, <2>1, <2>2, <2>3 DEF PartOfCluster, anc
  <2> QED
    BY <1>6, <2>4 DEF x, anc
<1> QED
  BY <1>5, <1>6

ClusterLists(order, c) ==
    /\ Clusters(order) = {c[n] : n \in Nodes} \ {<<>>}
    /\ \A n \in Nodes : IsCluster(c[n], n, order)

\* Clusters are the operators of one ancestor in the order of the whole list.
LEMMA ClustersAreLists ==
    ASSUME NEW order \in Seq(Ops(net)), \A i \in Ops(net) : UnionFindAncestor(OpNode(i)) \in Nodes
    PROVE  \E c : ClusterLists(order, c)
<1>1. PICK r : Gathered(r, order)
  BY GatherSteps
<1> DEFINE N == Len(order)
           T == {k \in Nat : k \in 0 .. N =>
                     /\ DOMAIN r[k] = Nodes
                     /\ \A n \in Nodes : PartOfCluster(r[k][n], n, order, k)}
<1>2. N \in Nat
  OBVIOUS
<1>3. 0 \in T
  <2>1. r[0] = [n \in Nodes |-> <<>>]
    BY <1>1 DEF Gathered
  <2>2. \A n \in Nodes : PartOfCluster(<<>>, n, order, 0)
    BY DEF PartOfCluster
  <2> QED
    BY <2>1, <2>2
<1>4. ASSUME NEW k \in Nat, k \in T PROVE k + 1 \in T
  <2> SUFFICES ASSUME k + 1 \in 0 .. N
               PROVE  /\ DOMAIN r[k + 1] = Nodes
                      /\ \A n \in Nodes : PartOfCluster(r[k + 1][n], n, order, k + 1)
    OBVIOUS
  <2>1. k \in 0 .. N /\ k + 1 \in 1 .. N /\ (k + 1) - 1 = k
    BY <1>2
  <2>2. DOMAIN r[k] = Nodes /\ \A n \in Nodes : PartOfCluster(r[k][n], n, order, k)
    BY <1>4, <2>1
  <2> HIDE DEF T
  <2> DEFINE a == UnionFindAncestor(OpNode(order[k + 1]))
  <2>3. r[k + 1] = [r[k] EXCEPT ![a] = Append(@, order[k + 1])]
    BY <1>1, <2>1 DEF Gathered, GatherStep
  <2>4. order[k + 1] \in Ops(net)
    BY <2>1
  <2>5. a \in Nodes
    BY <2>4
  <2>6. DOMAIN r[k + 1] = Nodes
        /\ \A n \in Nodes : r[k + 1][n] = IF a = n THEN Append(r[k][n], order[k + 1]) ELSE r[k][n]
    <3> HIDE DEF a
    <3> QED
      BY <2>2, <2>3, <2>5
  <2>7. ASSUME NEW n \in Nodes PROVE PartOfCluster(r[k + 1][n], n, order, k + 1)
    <3>1. IF a = n THEN PartOfCluster(Append(r[k][n], order[k + 1]), n, order, k + 1)
          ELSE PartOfCluster(r[k][n], n, order, k + 1)
      BY <2>1, <2>2, PartGrows
    <3> HIDE DEF a
    <3> QED
      BY <2>6, <3>1
  <2> QED
    BY <2>6, <2>7
<1> HIDE DEF T, N
<1>5. \A k \in Nat : k \in T
  BY <1>3, <1>4, InductiveSet
<1>6. \A n \in Nodes : PartOfCluster(r[N][n], n, order, N)
  BY <1>2, <1>5 DEF T
<1>7. ClusterLists(order, r[N])
  BY <1>1, <1>6 DEF Gathered, ClusterLists, IsCluster, N
<1> QED
  BY <1>7

-----------------------------------------------------------------------------
(* Operators of one data input: clusters are trees.                        *)

\* M are the marked nodes: a cluster is all of them or has none, and of the members of
\* one that has, all but the root have an input in it.
Tree(nd, lin, R, M) ==
    /\ \A x \in nd : x \in M <=> R[x] \in M
    /\ \A x \in M : R[x] = x \/ \E m \in lin[x] : R[m] = R[x]

SingleInputs(lin, M) == \A x \in M : \A m1, m2 \in lin[x] : m1 = m2

\* The one input of a cluster is that of its root.
LEMMA InputOfTheRoot ==
    ASSUME NEW nd, NEW lin \in [nd -> SUBSET nd], NEW R \in [nd -> nd], NEW inl, NEW outl,
           NEW M \in SUBSET nd, Quotient(nd, lin, R, inl, outl), Tree(nd, lin, R, M),
           SingleInputs(lin, M), NEW m \in M, NEW r \in nd, r \in inl[m]
    PROVE  \E y \in lin[m] : R[y] = r
<1>1. r # m /\ Edge(lin, R, r, m)
  BY DEF Quotient
<1>2. PICK x \in nd : \E y \in lin[x] : R[y] = r /\ R[x] = m
  BY <1>1 DEF Edge
<1>3. PICK y \in lin[x] : R[y] = r /\ R[x] = m
  BY <1>2
<1>4. x \in M
  BY <1>2, <1>3 DEF Tree
<1>5. R[x] = x
  <2>1. SUFFICES ASSUME NEW z \in lin[x], R[z] = R[x] PROVE FALSE
    BY <1>4 DEF Tree
  <2>2. z = y
    BY <1>4 DEF SingleInputs
  <2> QED
    BY <1>1, <1>3, <2>1, <2>2
<1> QED
  BY <1>3, <1>5

LEMMA OneInputOfEach ==
    ASSUME NEW nd, NEW lin \in [nd -> SUBSET nd], NEW R \in [nd -> nd], NEW inl, NEW outl,
           NEW M \in SUBSET nd, Quotient(nd, lin, R, inl, outl), Tree(nd, lin, R, M),
           SingleInputs(lin, M), NEW m \in M, NEW r \in nd, r \in inl[m], NEW q \in nd, q \in inl[m]
    PROVE  r = q
<1>1. PICK y \in lin[m] : R[y] = r
  BY InputOfTheRoot
<1>2. PICK z \in lin[m] : R[z] = q
  BY InputOfTheRoot
<1>3. y = z
  BY DEF SingleInputs
<1> QED
  BY <1>1, <1>2, <1>3

\* Combination along a link between marked nodes keeps clusters trees.
LEMMA CombineTree ==
    ASSUME NEW nd, NEW lin \in [nd -> SUBSET nd], NEW R \in [nd -> nd], NEW inl, NEW outl,
           NEW M \in SUBSET nd, Quotient(nd, lin, R, inl, outl), Tree(nd, lin, R, M),
           SingleInputs(lin, M), NEW a \in M, NEW c \in M, a # c, R[a] = a, R[c] = c,
           c \in outl[a]
    PROVE  Tree(nd, lin, Merged(nd, R, a, c), M)
<1> DEFINE S == Merged(nd, R, a, c)
<1>1. \A x \in nd : S[x] = IF R[x] = c THEN a ELSE R[x]
  BY DEF Merged
<1>2. /\ \A x \in nd : x \in M <=> R[x] \in M
      /\ \A x \in M : R[x] = x \/ \E m \in lin[x] : R[m] = R[x]
  BY DEF Tree
<1>3. a \in nd /\ c \in nd /\ a \in inl[c]
  BY DEF Quotient
<1>4. PICK y \in lin[c] : R[y] = a
  BY <1>3, InputOfTheRoot
<1> HIDE DEF S
<1>5. \A x \in nd : x \in M <=> S[x] \in M
  BY <1>1, <1>2
<1>6. ASSUME NEW x \in M PROVE S[x] = x \/ \E m \in lin[x] : S[m] = S[x]
  <2>1. x \in nd /\ lin[x] \subseteq nd
    OBVIOUS
  <2>2. CASE x = c
    <3>1. y \in nd
      BY <1>3
    <3>2. S[y] = a /\ S[c] = a
      BY <1>1, <1>3, <1>4, <3>1
    <3> QED
      BY <2>2, <3>2
  <2>3. CASE x # c /\ R[x] = x
    BY <1>1, <2>1, <2>3
  <2>4. CASE R[x] # x
    <3>1. PICK m \in lin[x] : R[m] = R[x]
      BY <1>2, <2>4
    <3> QED
      BY <1>1, <2>1, <3>1
  <2> QED
    BY <2>2, <2>3, <2>4
<1> QED
  BY <1>5, <1>6 DEF Tree, S

\* A node the walk has left gets no marked successor again.
LEMMA CombineDone ==
    ASSUME NEW nd, NEW inl \in [nd -> SUBSET nd], NEW outl \in [nd -> SUBSET nd], NEW M,
           NEW a \in nd, NEW c \in nd, c \in M, NEW n \in nd, n # a, outl[n] \cap M = {}
    PROVE  NewOut(nd, inl, outl, a, c)[n] \cap M = {}
<1>1. c \notin outl[n]
  OBVIOUS
<1>2. NewOut(nd, inl, outl, a, c)[n] \in {{}, outl[n]}
  BY <1>1 DEF NewOut, Renamed
<1> QED
  BY <1>2

\* The nodes the walk has left, and a network of operators with one data input each.
Walked == marked \ (todo \cup (IF pc \in {"expand", "combine"} THEN {node} ELSE {}))
OneInput == \A i \in Supported : Cardinality(net[i].ins) = 1

TreeInv ==
    pc # "init" =>
      /\ marked = Marked
      /\ pc \in {"expand", "combine"} => node \in marked
      /\ pc \notin {"visit", "expand", "combine"} => todo = {}
      /\ OneInput =>
           /\ Tree(Nodes, NetLinks(net), Ancestors, marked)
           /\ \A n \in Walked : outlinks[n] \cap marked = {}

LEMMA MarkedHaveOneInput ==
    ASSUME net \in Networks, OneInput
    PROVE  SingleInputs(NetLinks(net), Marked) /\ Marked \in SUBSET Nodes
<1>1. IsNetwork(net) /\ Len(net) \in Nat
  BY NodesFacts, NetworkLength
<1>2. \A i \in Supported : i \in Ops(net) /\ OpNode(i) \in Nodes /\ VarNode(i) \in Nodes
  <2>1. \A i \in Supported : i \in Ops(net) /\ i \in 1 .. Len(net) /\ i \in 0 .. Len(net)
    BY <1>1 DEF Supported, Ops
  <2> QED
    BY <1>1, <2>1, NodeKinds DEF Nodes
<1>3. Marked \in SUBSET Nodes
  BY <1>2 DEF Marked
<1>4. ASSUME NEW i \in Supported, NEW m1 \in LinksIn(net, OpNode(i)), NEW m2 \in LinksIn(net, OpNode(i))
      PROVE  m1 = m2
  <2>1. IsFiniteSet(net[i].ins)
    <3> DEFINE W == {net[j].out : j \in 1 .. i - 1}
               f == [j \in 1 .. i - 1 |-> net[j].out]
    <3>1. i \in Int
      BY <1>1, <1>2 DEF Ops
    <3>2. IsFiniteSet(1 .. i - 1)
      BY <3>1, FS_Interval
    <3>3. f \in Surjection(1 .. i - 1, W)
      BY DEF Surjection
    <3> HIDE DEF f
    <3>4. IsFiniteSet(W)
      BY <3>2, <3>3, FS_Surjection
    <3>5. net[i].ins \subseteq W \cup {0}
      BY <1>1, <1>2, NetworkLength
    <3> HIDE DEF W
    <3>6. IsFiniteSet(W \cup {0})
      BY <3>4, FS_AddElement
    <3> QED
      BY <3>5, <3>6, FS_Subset
  <2>2. PICK x : net[i].ins = {x}
    BY <2>1, FS_Singleton DEF OneInput
  <2>3. VarsRead(net, i) = {Producer(net, i, x)}
    BY <2>2 DEF VarsRead
  <2> QED
    BY <2>3, LinksOfOp
<1>5. ASSUME NEW i \in Supported, NEW m1 \in LinksIn(net, VarNode(i)), NEW m2 \in LinksIn(net, VarNode(i))
      PROVE  m1 = m2
  BY LinksOfVar
<1>6. ASSUME NEW x \in Marked, NEW m1 \in NetLinks(net)[x], NEW m2 \in NetLinks(net)[x]
      PROVE  m1 = m2
  <2>1. NetLinks(net)[x] = LinksIn(net, x)
    BY <1>3 DEF NetLinks, Nodes
  <2>2. PICK i \in Supported : x = OpNode(i) \/ x = VarNode(i)
    BY DEF Marked
  <2> QED
    BY <1>4, <1>5, <2>1, <2>2
<1> QED
  BY <1>3, <1>6 DEF SingleInputs

LEMMA InitNodesTree == DetectorInv /\ InitNodes => TreeInv'
<1> SUFFICES ASSUME DetectorInv, InitNodes PROVE TreeInv'
  OBVIOUS
<1>1. /\ pc = "init" /\ net' = net /\ marked' = Marked /\ todo' = marked'
      /\ pc' = (IF todo' # {} THEN "visit" ELSE "cluster")
      /\ union_find_parent' = union_find_parent
  BY DEF InitNodes
<1>2. Nodes' = Nodes /\ Ancestors' = Ancestors /\ Marked' = Marked
  BY <1>1 DEF Nodes, Ancestors, UnionFindAncestor, Marked, Supported
<1>3. Ancestors = [n \in Nodes |-> n]
  BY <1>1, AncestorsAtFirst
<1>4. Walked' = {}
  BY <1>1 DEF Walked
<1>5. marked' \subseteq Nodes'
  BY InitNodesKeeps DEF DetectorInv, DetectorTypeOK
<1>6. Tree(Nodes, NetLinks(net), Ancestors, Marked)
  BY <1>1, <1>2, <1>3, <1>5 DEF Tree
<1>7. pc' \notin {"expand", "combine"} /\ (pc' # "visit" => todo' = {})
  BY <1>1
<1> QED
  BY <1>1, <1>2, <1>4, <1>6, <1>7 DEF TreeInv

\* What the invariant says once the walk has begun.
TreeFacts ==
    /\ net \in Networks /\ IsFiniteSet(Nodes) /\ marked \in SUBSET Nodes /\ todo \subseteq marked
    /\ marked = Marked
    /\ NetLinks(net) \in [Nodes -> SUBSET Nodes] /\ Ancestors \in [Nodes -> Nodes]
    /\ inlinks \in [Nodes -> SUBSET Nodes] /\ outlinks \in [Nodes -> SUBSET Nodes]
    /\ Quotient(Nodes, NetLinks(net), Ancestors, inlinks, outlinks)
    /\ OneInput => /\ Tree(Nodes, NetLinks(net), Ancestors, marked)
                   /\ SingleInputs(NetLinks(net), marked)
                   /\ \A n \in Walked : outlinks[n] \cap marked = {}

LEMMA TreeFactsHold == DetectorInv /\ TreeInv /\ pc # "init" => TreeFacts
<1> SUFFICES ASSUME DetectorInv, TreeInv, pc # "init" PROVE TreeFacts
  OBVIOUS
<1>1. /\ net \in Networks /\ IsFiniteSet(Nodes) /\ marked \in SUBSET Nodes /\ todo \subseteq marked
      /\ inlinks \in [Nodes -> SUBSET Nodes] /\ outlinks \in [Nodes -> SUBSET Nodes]
  BY NodesFacts DEF DetectorInv, DetectorTypeOK
<1>2. NetLinks(net) \in [Nodes -> SUBSET Nodes]
  BY <1>1, NodesFacts, LinksInType DEF NetLinks, Nodes
<1>3. Ancestors \in [Nodes -> Nodes]
  BY DEF DetectorInv, ForestInv, Forest
<1>4. Quotient(Nodes, NetLinks(net), Ancestors, inlinks, outlinks)
  BY DEF DetectorInv, LinksInv
<1>5. marked = Marked
  BY DEF TreeInv
<1>6. OneInput => SingleInputs(NetLinks(net), marked)
  BY <1>1, <1>5, MarkedHaveOneInput
<1> QED
  BY <1>1, <1>2, <1>3, <1>4, <1>5, <1>6 DEF TreeInv, TreeFacts

\* Steps that leave the links alone, and every node they leave behind without a
\* marked successor.
LEMMA TreeKept ==
    ASSUME TreeInv, pc # "init", UNCHANGED <<net, marked, links>>,
           pc' \in {"expand", "combine"} => node' \in marked',
           pc' \notin {"visit", "expand", "combine"} => todo' = {},
           OneInput => \A n \in Walked' : n \in Walked \/ outlinks[n] \cap marked = {}
    PROVE  TreeInv'
<1>1. /\ net' = net /\ marked' = marked /\ outlinks' = outlinks
      /\ union_find_parent' = union_find_parent
  BY DEF links
<1>2. Nodes' = Nodes /\ Ancestors' = Ancestors /\ Marked' = Marked /\ OneInput' = OneInput
  BY <1>1 DEF Nodes, Ancestors, UnionFindAncestor, Marked, Supported, OneInput
<1>3. marked = Marked
      /\ (OneInput => /\ Tree(Nodes, NetLinks(net), Ancestors, marked)
                      /\ \A n \in Walked : outlinks[n] \cap marked = {})
  BY DEF TreeInv
<1>4. OneInput' => /\ Tree(Nodes, NetLinks(net), Ancestors, marked)
                   /\ \A n \in Walked' : outlinks[n] \cap marked = {}
  BY <1>2, <1>3
<1>5. OneInput' => /\ Tree(Nodes, NetLinks(net), Ancestors, marked)'
                   /\ \A n \in Walked' : outlinks'[n] \cap marked' = {}
  BY <1>1, <1>2, <1>4
<1> QED
  BY <1>1, <1>2, <1>3, <1>5 DEF TreeInv

LEMMA VisitTree == DetectorInv /\ TreeInv /\ Visit => TreeInv'
<1> SUFFICES ASSUME DetectorInv, TreeInv, Visit PROVE TreeInv'
  OBVIOUS
<1>1. PICK n \in todo : node' = n /\ todo' = todo \ {n}
  BY DEF Visit
<1>2. pc = "visit" /\ pc' = "expand" /\ UNCHANGED <<net, marked, links>>
  BY DEF Visit
<1>3. n \in marked
  BY DEF DetectorInv, DetectorTypeOK
<1>4. Walked' = Walked
  BY <1>1, <1>2 DEF Walked
<1> QED
  BY <1>1, <1>2, <1>3, <1>4, TreeKept

\* With one input each, a marked successor is always contractible.
LEMMA ExpandTree == DetectorInv /\ TreeInv /\ Expand => TreeInv'
<1> SUFFICES ASSUME DetectorInv, TreeInv, Expand PROVE TreeInv'
  OBVIOUS
<1>1. /\ pc = "expand" /\ contract' = Contractible(node) /\ UNCHANGED <<net, marked, links>>
      /\ todo' = todo /\ node' = node
      /\ pc' = IF contract' # {} THEN "combine" ELSE IF todo # {} THEN "visit" ELSE "cluster"
  BY DEF Expand
<1>2. TreeFacts /\ node \in marked
  BY <1>1, TreeFactsHold DEF TreeInv
<1>3. ASSUME OneInput, Contractible(node) = {} PROVE outlinks[node] \cap marked = {}
  <2> SUFFICES ASSUME NEW m \in outlinks[node] \cap marked PROVE FALSE
    OBVIOUS
  <2>1. m \in Nodes /\ node \in Nodes /\ node \in inlinks[m]
    BY <1>2 DEF TreeFacts, Quotient
  <2>2. \A r \in inlinks[m] : r \in Nodes /\ r = node
    BY <1>2, <1>3, <2>1, OneInputOfEach DEF TreeFacts
  <2>3. inlinks[m] \ {node} = {}
    BY <2>2
  <2>4. node \notin Reach(inlinks, Nodes, {})
    <3>1. {} \in SUBSET Nodes /\ Closed(inlinks, {})
      BY DEF Closed
    <3> QED
      BY <1>2, <3>1, ReachAvoids DEF TreeFacts
  <2>5. m \in Contractible(node)
    BY <2>3, <2>4, ReachIs DEF Contractible
  <2> QED
    BY <1>3, <2>5
<1>4. OneInput => \A n \in Walked' : n \in Walked \/ outlinks[n] \cap marked = {}
  <2>1. Walked' \subseteq Walked \cup {node}
    BY <1>1 DEF Walked
  <2>2. pc' = "combine" => Walked' = Walked
    BY <1>1 DEF Walked
  <2> QED
    BY <1>1, <1>3, <2>1, <2>2
<1>5. pc' \notin {"visit", "expand", "combine"} => todo' = {}
  BY <1>1
<1> QED
  BY <1>1, <1>2, <1>4, <1>5, TreeKept

LEMMA CombineTreeInv == DetectorInv /\ TreeInv /\ Combine => TreeInv'
<1> SUFFICES ASSUME DetectorInv, TreeInv, Combine PROVE TreeInv'
  OBVIOUS
<1>1. /\ pc = "combine" /\ net' = net /\ marked' = marked /\ todo' = todo /\ node' = node
      /\ pc' \in {"expand", "combine"}
  BY DEF Combine
<1>2. TreeFacts /\ node \in marked
  BY <1>1, TreeFactsHold DEF TreeInv
<1>3. PICK c : CombineEffect(c)
  BY CombineDoes
<1>4. /\ Nodes' = Nodes /\ Marked' = Marked /\ OneInput' = OneInput /\ Walked' = Walked
  BY <1>1 DEF Nodes, Marked, Supported, OneInput, Walked
<1>5. /\ c \in marked /\ c # node /\ c \in outlinks[node]
      /\ Ancestors[c] = c /\ Ancestors[node] = node
      /\ Ancestors' = Merged(Nodes, Ancestors, node, c)
      /\ outlinks' = NewOut(Nodes, inlinks, outlinks, node, c)
  BY <1>3 DEF CombineEffect
<1>6. ASSUME OneInput PROVE Tree(Nodes, NetLinks(net), Merged(Nodes, Ancestors, node, c), marked)
  BY <1>2, <1>5, <1>6, CombineTree DEF TreeFacts
<1>7. ASSUME OneInput, NEW n \in Walked PROVE outlinks'[n] \cap marked = {}
  <2>1. n \in Nodes /\ n # node
    BY <1>1, <1>2 DEF TreeFacts, Walked
  <2>2. outlinks[n] \cap marked = {} /\ c \in Nodes /\ node \in Nodes
    BY <1>2, <1>5, <1>7 DEF TreeFacts
  <2> QED
    BY <1>2, <1>5, <2>1, <2>2, CombineDone DEF TreeFacts
<1>8. OneInput' => /\ Tree(Nodes, NetLinks(net), Ancestors, marked)'
                   /\ \A n \in Walked' : outlinks'[n] \cap marked' = {}
  BY <1>1, <1>4, <1>5, <1>6, <1>7
<1> QED
  BY <1>1, <1>2, <1>4, <1>8 DEF TreeInv, TreeFacts

LEMMA LaterTree ==
    DetectorInv /\ TreeInv /\ (Fuse \/ Schedule \/ Collect \/ Plan \/ Run \/ SkipFetch \/ Finished) => TreeInv'
<1> SUFFICES ASSUME DetectorInv, TreeInv,
                    Fuse \/ Schedule \/ Collect \/ Plan \/ Run \/ SkipFetch \/ Finished
             PROVE  TreeInv'
  OBVIOUS
<1>1. /\ UNCHANGED <<net, detector>>
      /\ pc \notin {"init", "visit", "expand", "combine"}
      /\ pc' \notin {"init", "visit", "expand", "combine"}
  BY DEF Fuse, Schedule, Collect, Plan, Run, SkipFetch, Finished
<1>2. UNCHANGED <<net, marked, links>> /\ todo' = todo
  BY <1>1 DEF detector
<1>3. todo' = {}
  BY <1>1, <1>2 DEF TreeInv
<1>4. Walked' = Walked
  BY <1>1, <1>2 DEF Walked
<1> QED
  BY <1>1, <1>2, <1>3, <1>4, TreeKept

LEMMA StutterTree == TreeInv /\ UNCHANGED vars => TreeInv'
<1> SUFFICES ASSUME TreeInv, UNCHANGED vars PROVE TreeInv'
  OBVIOUS
<1>1. UNCHANGED <<net, pc, marked, inlinks, outlinks, union_find_parent, todo, node>>
  BY DEF vars, detector, links
<1>2. CASE pc = "init"
  BY <1>1, <1>2 DEF TreeInv
<1>3. CASE pc # "init"
  <2>1. Walked' = Walked
    BY <1>1 DEF Walked
  <2>2. (pc' \in {"expand", "combine"} => node' \in marked')
        /\ (pc' \notin {"visit", "expand", "combine"} => todo' = {})
    BY <1>1, <1>3 DEF TreeInv
  <2>3. UNCHANGED <<net, marked, links>>
    BY <1>1 DEF links
  <2> QED
    BY <1>3, <2>1, <2>2, <2>3, TreeKept
<1> QED
  BY <1>2, <1>3

\* And the trees.
LEMMA TreeInvariant == Spec => [](DetectorInv /\ TreeInv)
<1>1. Init => TreeInv
  BY DEF Init, DetectorInit, TreeInv
<1>2. DetectorInv /\ TreeInv /\ [Next]_vars => TreeInv'
  BY InitNodesTree, VisitTree, ExpandTree, CombineTreeInv, LaterTree, StutterTree
     DEF Next, Detect
<1> QED
  BY <1>1, <1>2, DetectorInvariant, PTL DEF Spec

-----------------------------------------------------------------------------
(* Every cluster is a program.                                             *)

\* When the walk is over no link leads from one cluster of marked nodes to another.
LEMMA NoLinkBetweenClusters ==
    ASSUME TreeFacts, OneInput, todo = {}, pc = "cluster",
           NEW x \in marked, NEW m \in marked, m \in NetLinks(net)[x]
    PROVE  Ancestors[m] = Ancestors[x]
<1> DEFINE R == Ancestors
           lin == NetLinks(net)
<1>1. x \in Nodes /\ m \in Nodes /\ m \in lin[x] /\ DOMAIN lin = Nodes
  BY DEF TreeFacts
<1>2. /\ R[m] \in marked /\ R[x] \in marked /\ R[m] \in Nodes /\ R[x] \in Nodes
      /\ Quotient(Nodes, lin, R, inlinks, outlinks)
  BY <1>1 DEF TreeFacts, Tree
<1>3. R[m] \in Walked
  BY <1>2 DEF Walked
<1>4. outlinks[R[m]] \cap marked = {}
  BY <1>3 DEF TreeFacts
<1> HIDE DEF R, lin
<1>5. Edge(lin, R, R[m], R[x])
  BY <1>1 DEF Edge
<1>6. R[m] # R[x] => R[x] \in outlinks[R[m]]
  BY <1>2, <1>5 DEF Quotient
<1> QED
  BY <1>2, <1>4, <1>6 DEF R

\* An operator is marked if and only if the variable it writes is.
LEMMA MarkedOperators ==
    ASSUME marked = Marked, net \in Networks
    PROVE  /\ MarkedOps = Supported /\ IsFiniteSet(MarkedOps)
           /\ \A i \in MarkedOps : i \in Ops(net) /\ OpNode(i) \in marked /\ VarNode(i) \in marked
           /\ \A v : VarNode(v) \in marked => v \in MarkedOps
<1>1. \A i, j : OpNode(i) # VarNode(j) /\ (OpNode(i) = OpNode(j) => i = j)
                /\ (VarNode(i) = VarNode(j) => i = j)
  BY DEF OpNode, VarNode
<1>2. \A i \in Supported : OpNode(i) \in marked /\ VarNode(i) \in marked /\ i \in Ops(net)
  BY DEF Marked, Supported
<1>3. \A v : VarNode(v) \in marked => v \in Supported
  BY <1>1 DEF Marked
<1>4. \A v : OpNode(v) \in marked => v \in Supported
  BY <1>1 DEF Marked
<1>5. MarkedOps = Supported
  BY <1>2, <1>4 DEF MarkedOps
<1>6. IsFiniteSet(MarkedOps)
  <2>1. Len(net) \in Nat
    BY NodesFacts, NetworkLength
  <2>2. IsFiniteSet(Ops(net)) /\ MarkedOps \subseteq Ops(net)
    BY <2>1, FS_Interval DEF Ops, MarkedOps
  <2> QED
    BY <2>2, FS_Subset
<1> QED
  BY <1>2, <1>3, <1>5, <1>6

\* The operators of a cluster n whose list is ops.
IsProgram(ops) ==
    /\ \A k \in DOMAIN ops \ {1} :
          \E j \in 1 .. k - 1 : VarsRead(net, ops[k]) = {ops[j]}
    /\ \A i \in MarkedOps : VarsRead(net, i) \cap Inside(ops) # {} => i \in Inside(ops)

\* A cluster's list is a program in execution order.
LEMMA ClusterIsProgram ==
    ASSUME TreeFacts, OneInput, todo = {}, pc = "cluster",
           NEW order \in TopologicalOrders(MarkedOps, DependsOn(net)), NEW ops \in Clusters(order)
    PROVE  IsProgram(ops)
<1>1. /\ net \in Networks /\ IsNetwork(net) /\ marked \in SUBSET Nodes
      /\ Tree(Nodes, NetLinks(net), Ancestors, marked) /\ SingleInputs(NetLinks(net), marked)
      /\ Ancestors \in [Nodes -> Nodes] /\ NetLinks(net) \in [Nodes -> SUBSET Nodes]
  BY NodesFacts DEF TreeFacts
<1>2. /\ IsFiniteSet(MarkedOps)
      /\ \A i \in MarkedOps : i \in Ops(net) /\ OpNode(i) \in marked /\ VarNode(i) \in marked
      /\ \A v : VarNode(v) \in marked => v \in MarkedOps
  BY MarkedOperators DEF TreeFacts
<1> DEFINE A(i) == Ancestors[OpNode(i)]
           dep == DependsOn(net)
<1>3. IsOrder(order, MarkedOps, dep)
  BY <1>2, OrdersAreOrders
<1>4. \A i \in Ops(net) : OpNode(i) \in Nodes /\ A(i) = UnionFindAncestor(OpNode(i))
  BY DEF Nodes, GraphNodes, Ancestors
<1>5. order \in Seq(Ops(net))
  <2>1. order \in Seq(MarkedOps) /\ MarkedOps \subseteq Ops(net)
    BY <1>2, <1>3 DEF IsOrder
  <2> QED
    BY <2>1
<1>6. PICK n \in Nodes : IsCluster(ops, n, order) /\ ops # <<>>
  <2>1. \A i \in Ops(net) : UnionFindAncestor(OpNode(i)) \in Nodes
    BY <1>1, <1>4
  <2>2. PICK c : ClusterLists(order, c)
    BY <1>5, <2>1, ClustersAreLists
  <2> QED
    BY <2>2 DEF ClusterLists
<1>7. /\ ops \in Seq(Ops(net)) /\ DOMAIN ops = 1 .. Len(ops) /\ Len(ops) \in Nat /\ ops # <<>>
      /\ \A k \in 1 .. Len(ops) : ops[k] \in MarkedOps /\ ops[k] \in Ops(net) /\ A(ops[k]) = n
  <2>1. ops \in Seq(Ops(net)) /\ ops # <<>>
    BY <1>6 DEF IsCluster, PartOfCluster
  <2>2. \A k \in 1 .. Len(ops) : ops[k] \in Ops(net)
    BY <2>1
  <2>3. \A k \in 1 .. Len(order) : order[k] \in MarkedOps
    BY <1>3 DEF IsOrder
  <2>4. \A k \in 1 .. Len(ops) : ops[k] \in MarkedOps
    BY <1>6, <2>3 DEF IsCluster, PartOfCluster
  <2>5. \A k \in 1 .. Len(ops) : A(ops[k]) = n
    BY <1>4, <1>6, <2>2 DEF IsCluster, PartOfCluster
  <2> QED
    BY <2>1, <2>2, <2>4, <2>5
\* Whoever is in the cluster is in the list.
<1>8. ASSUME NEW i \in MarkedOps, A(i) = n PROVE \E k \in 1 .. Len(ops) : ops[k] = i
  <2>1. PICK m \in 1 .. Len(order) : order[m] = i
    BY <1>3 DEF IsOrder
  <2>2. UnionFindAncestor(OpNode(order[m])) = n
    BY <1>2, <1>4, <1>8, <2>1
  <2> QED
    BY <1>6, <2>1, <2>2 DEF IsCluster, PartOfCluster
\* A marked operator that reads a marked operator is in its cluster.
<1>9. ASSUME NEW i \in MarkedOps, NEW v \in MarkedOps, v \in VarsRead(net, i)
      PROVE  A(v) = A(i)
  <2>1. VarNode(v) \in NetLinks(net)[OpNode(i)]
    <3>1. OpNode(i) \in GraphNodes(net)
      BY <1>2, <1>4 DEF Nodes
    <3>2. NetLinks(net)[OpNode(i)] = LinksIn(net, OpNode(i))
      BY <3>1 DEF NetLinks
    <3>3. LinksIn(net, OpNode(i)) = {VarNode(w) : w \in VarsRead(net, i)}
      BY LinksOfOp
    <3> QED
      BY <1>9, <3>2, <3>3
  <2>2. OpNode(v) \in NetLinks(net)[VarNode(v)]
    <3>1. OpNode(v) \in GraphNodes(net) /\ VarNode(v) \in GraphNodes(net)
      BY <1>1, <1>2 DEF Nodes
    <3> QED
      BY <3>1, LinksOfVar DEF NetLinks
  <2>3. Ancestors[VarNode(v)] = Ancestors[OpNode(i)]
    BY <1>2, <2>1, NoLinkBetweenClusters
  <2>4. Ancestors[OpNode(v)] = Ancestors[VarNode(v)]
    BY <1>2, <2>2, NoLinkBetweenClusters
  <2> QED
    BY <2>3, <2>4
\* An operator other than the root reads one that stands before it.
<1>10. ASSUME NEW k \in 1 .. Len(ops), OpNode(ops[k]) # n
       PROVE  \E j \in 1 .. k - 1 : VarsRead(net, ops[k]) = {ops[j]}
  <2> DEFINE i == ops[k]
  <2>1. i \in MarkedOps /\ i \in Ops(net) /\ A(i) = n /\ OpNode(i) \in marked /\ OpNode(i) \in Nodes
    BY <1>2, <1>4, <1>7
  <2>2. PICK m \in NetLinks(net)[OpNode(i)] : Ancestors[m] = n
    BY <1>1, <1>10, <2>1 DEF Tree
  <2>3. NetLinks(net)[OpNode(i)] = {VarNode(w) : w \in VarsRead(net, i)}
    BY <2>1, LinksOfOp DEF NetLinks, Nodes
  <2>4. PICK v \in VarsRead(net, i) : m = VarNode(v)
    BY <2>2, <2>3
  <2>5. v \in MarkedOps
    <3>1. m \in Nodes
      BY <1>1, <2>1, <2>2
    <3>2. m \in marked
      BY <1>1, <2>1, <2>2, <3>1 DEF Tree
    <3> QED
      BY <1>2, <2>4, <3>2
  <2>6. VarsRead(net, i) = {v}
    <3>1. ASSUME NEW w \in VarsRead(net, i) PROVE w = v
      <4>1. \A m1, m2 \in NetLinks(net)[OpNode(i)] : m1 = m2
        BY <1>1, <2>1 DEF SingleInputs
      <4>2. VarNode(w) \in NetLinks(net)[OpNode(i)] /\ VarNode(v) \in NetLinks(net)[OpNode(i)]
        BY <2>3
      <4>3. VarNode(w) = VarNode(v)
        BY <4>1, <4>2
      <4> QED
        BY <4>3 DEF VarNode
    <3> QED
      BY <3>1
  <2>7. A(v) = n
    BY <1>9, <2>1, <2>5, <2>6
  <2>8. PICK j \in 1 .. Len(ops) : ops[j] = v
    BY <1>8, <2>5, <2>7
  <2>9. v \in Nat /\ i \in Nat /\ v < i /\ v # 0
    <3>1. Len(net) \in Nat /\ v \in 0 .. i - 1 /\ i \in 1 .. Len(net) /\ v \in 1 .. Len(net)
      BY <1>1, <1>2, <2>1, <2>4, <2>5, VarsReadBefore, NetworkLength DEF Ops
    <3> HIDE DEF i
    <3> QED
      BY <3>1
  <2>10. v \in dep[i]
    BY <1>1, <2>1, <2>4, <2>9, DependsOnReads
  <2>11. j # k
    BY <2>8, <2>9
  <2>12. ~(k < j)
    <3> SUFFICES ASSUME k < j PROVE FALSE
      OBVIOUS
    <3>1. PICK m2 \in 1 .. Len(order), l \in 1 .. Len(order) :
              m2 < l /\ ops[k] = order[m2] /\ ops[j] = order[l]
      BY <1>6 DEF IsCluster, PartOfCluster
    <3>2. order[l] \notin dep[order[m2]]
      BY <1>3, <3>1 DEF IsOrder
    <3> QED
      BY <2>8, <2>10, <3>1, <3>2
  <2>13. j \in 1 .. k - 1
    BY <1>7, <2>11, <2>12
  <2> QED
    BY <2>6, <2>8, <2>13
<1>11. ASSUME NEW k \in DOMAIN ops \ {1}
       PROVE  \E j \in 1 .. k - 1 : VarsRead(net, ops[k]) = {ops[j]}
  <2>1. k \in 1 .. Len(ops) /\ 1 \in 1 .. Len(ops) /\ 1 < k
    BY <1>7
  <2>2. OpNode(ops[1]) = n
    <3> SUFFICES ASSUME OpNode(ops[1]) # n PROVE FALSE
      OBVIOUS
    <3>1. \E j \in 1 .. 1 - 1 : VarsRead(net, ops[1]) = {ops[j]}
      BY <1>10, <2>1
    <3> QED
      BY <3>1
  <2>3. ops[k] # ops[1]
    <3>1. PICK m \in 1 .. Len(order), l \in 1 .. Len(order) :
              m < l /\ ops[1] = order[m] /\ ops[k] = order[l]
      BY <1>6, <2>1 DEF IsCluster, PartOfCluster
    <3>2. m # l
      BY <3>1
    <3>3. order[m] # order[l]
      BY <1>3, <3>2 DEF IsOrder
    <3> QED
      BY <3>1, <3>3
  <2>4. OpNode(ops[k]) # n
    BY <2>2, <2>3 DEF OpNode
  <2> QED
    BY <1>10, <2>1, <2>4
<1>12. ASSUME NEW i \in MarkedOps, NEW v \in VarsRead(net, i) \cap Inside(ops)
       PROVE  i \in Inside(ops)
  <2>1. PICK k \in 1 .. Len(ops) : v = ops[k]
    BY <1>7 DEF Inside
  <2>2. v \in MarkedOps /\ A(v) = n
    BY <1>7, <2>1
  <2>3. A(i) = n
    BY <1>9, <2>2
  <2>4. PICK j \in 1 .. Len(ops) : ops[j] = i
    BY <1>8, <2>3
  <2> QED
    BY <1>7, <2>4 DEF Inside
<1> QED
  BY <1>11, <1>12 DEF IsProgram

\* With one data input per supported operator every subgraph is a program in execution
\* order, fed by one operator that is not in it at most: what the builder relies on.
THEOREM SubgraphsAreProgramsAlways == Spec => []SubgraphsArePrograms
<1>1. Init => SubgraphsArePrograms
  BY DEF Init, DetectorInit, SubgraphsArePrograms
<1>2. DetectorInv /\ TreeInv /\ SubgraphsArePrograms /\ [Next]_vars => SubgraphsArePrograms'
  <2> SUFFICES ASSUME DetectorInv, TreeInv, SubgraphsArePrograms, [Next]_vars, pc' = "schedule",
                      \A i \in MarkedOps' : Cardinality(net'[i].ins) = 1,
                      NEW s \in stmts', s.sub
               PROVE  IsProgram(s.ops)'
    BY DEF SubgraphsArePrograms, IsProgram
  <2>1. CASE Fuse
    <3>1. pc = "cluster" /\ UNCHANGED <<net, marked>>
      BY <2>1 DEF Fuse, detector
    <3>2. PICK order \in TopologicalOrders(MarkedOps, DependsOn(net)) :
              stmts' = {Subgraph(ops) : ops \in Clusters(order)}
                         \cup {Statement(i) : i \in Ops(net) \ MarkedOps}
      BY <2>1 DEF Fuse
    <3>3. TreeFacts /\ todo = {}
      BY <3>1, TreeFactsHold DEF TreeInv
    <3>4. OneInput
      <4>1. MarkedOps' = MarkedOps
        BY <3>1 DEF MarkedOps
      <4>2. MarkedOps = Supported
        BY <3>3, MarkedOperators DEF TreeFacts
      <4> QED
        BY <3>1, <4>1, <4>2 DEF OneInput
    <3>5. PICK ops \in Clusters(order) : s.ops = ops
      BY <3>2 DEF Subgraph, Statement
    <3>6. IsProgram(ops)
      BY <3>1, <3>3, <3>4, ClusterIsProgram
    <3> QED
      BY <3>1, <3>5, <3>6 DEF IsProgram, MarkedOps
  <2>2. CASE UNCHANGED vars
    <3>1. UNCHANGED <<net, pc, marked, stmts>>
      BY <2>2 DEF vars, detector
    <3>2. MarkedOps' = MarkedOps
      BY <3>1 DEF MarkedOps
    <3>3. IsProgram(s.ops)
      BY <3>1, <3>2 DEF SubgraphsArePrograms, IsProgram
    <3> QED
      BY <3>1, <3>2, <3>3 DEF IsProgram
  <2>3. CASE Next /\ ~Fuse
    <3>1. pc' # "schedule"
      BY <2>3 DEF Next, Detect, InitNodes, Visit, Expand, Combine, Schedule, Collect, Plan, Run,
                  SkipFetch, Finished
    <3> QED
      BY <3>1
  <2> QED
    BY <2>1, <2>2, <2>3
<1> QED
  BY <1>1, <1>2, TreeInvariant, PTL DEF Spec

-----------------------------------------------------------------------------
(* The statements after fusion.                                            *)

\* A statement's operators, none before one that it depends on, what they read from
\* outside and what they write; a statement of the host has one, a subgraph no fetch.
StatementOK(s) ==
    /\ s.ops \in Seq(Ops(net)) /\ s.ops # <<>>
    /\ \A a, b \in 1 .. Len(s.ops) : a < b =>
          s.ops[a] # s.ops[b] /\ s.ops[b] \notin DependsOn(net)[s.ops[a]]
    /\ \A i \in Inside(s.ops) : VarsRead(net, i) \subseteq s.ins \cup Inside(s.ops)
    /\ \A v \in s.ins : v \notin Inside(s.ops) /\ \E i \in Inside(s.ops) : v \in VarsRead(net, i)
    /\ s.outs \cup s.kept = Inside(s.ops)
    /\ \A i \in Inside(s.ops) : Readers(i) \subseteq Inside(s.ops) \/ i \in s.outs
    /\ s.sub \in BOOLEAN /\ (s.sub \/ Len(s.ops) = 1)
    /\ s.sub => Inside(s.ops) \cap FetchOps(net) = {}

\* Every operator is in one statement.
StatementsOK(S) ==
    /\ IsFiniteSet(S) /\ \A s \in S : StatementOK(s)
    /\ \A i \in Ops(net) : \E s \in S : i \in Inside(s.ops)
    /\ \A s, t \in S : s = t \/ Inside(s.ops) \cap Inside(t.ops) = {}

\* The statement of a cluster.
LEMMA SubgraphOK ==
    ASSUME NEW ops \in Seq(Ops(net)), ops # <<>>,
           \A a, b \in 1 .. Len(ops) : a < b =>
               ops[a] # ops[b] /\ ops[b] \notin DependsOn(net)[ops[a]],
           Inside(ops) \cap FetchOps(net) = {}
    PROVE  StatementOK(Subgraph(ops))
<1> DEFINE s == Subgraph(ops)
           out == OutputVars(ops)
           in == Inside(ops)
<1>1. /\ s.ops = ops /\ s.sub = TRUE /\ s.ins = InputVars(ops) /\ s.outs = out
      /\ s.kept = in \ out
  BY DEF Subgraph
<1>0. out \subseteq in /\ \A i \in in : Readers(i) \subseteq in \/ i \in out
  BY DEF OutputVars
<1> DEFINE read == UNION {VarsRead(net, i) : i \in in}
<1>2. InputVars(ops) = read \ in
  BY DEF InputVars
<1> HIDE DEF s, out, in
<1>3. s.ins = read \ in /\ \A v : v \in read <=> \E i \in in : v \in VarsRead(net, i)
  <2>1. s.ins = read \ in
    BY <1>1, <1>2
  <2> QED
    BY <2>1
<1> HIDE DEF read
<1>4. \A i \in in : VarsRead(net, i) \subseteq s.ins \cup in
  BY <1>3
<1>5. \A v \in s.ins : v \notin in /\ \E i \in in : v \in VarsRead(net, i)
  BY <1>3
<1>6. s.outs \cup s.kept = in
  BY <1>0, <1>1
<1>7. \A i \in in : Readers(i) \subseteq in \/ i \in s.outs
  BY <1>0, <1>1
<1>8. s.sub \in BOOLEAN /\ s.sub /\ in \cap FetchOps(net) = {}
  BY <1>1 DEF in
<1>9. StatementOK(s)
  BY <1>1, <1>4, <1>5, <1>6, <1>7, <1>8 DEF StatementOK, in
<1> QED
  BY <1>9 DEF s

\* The statement of an operator that is not supported.
LEMMA HostStatementOK ==
    ASSUME net \in Networks, NEW i \in Ops(net)
    PROVE  StatementOK(Statement(i)) /\ Inside(Statement(i).ops) = {i}
<1> DEFINE s == Statement(i)
<1>1. s.ops = <<i>> /\ s.sub = FALSE /\ s.ins = VarsRead(net, i) /\ s.outs = {i} /\ s.kept = {}
  BY DEF Statement
<1> HIDE DEF s
<1>2. Inside(s.ops) = {i} /\ s.ops \in Seq(Ops(net)) /\ s.ops # <<>> /\ Len(s.ops) = 1
  BY <1>1 DEF Inside
<1>3. i \notin VarsRead(net, i)
  <2>1. VarsRead(net, i) \subseteq 0 .. i - 1 /\ i \in Int
    BY NodesFacts, VarsReadBefore DEF Ops
  <2> QED
    BY <2>1
<1>4. \A a, b \in 1 .. Len(s.ops) : ~(a < b)
  BY <1>2
<1>5. StatementOK(s)
  BY <1>1, <1>2, <1>3, <1>4 DEF StatementOK
<1> QED
  BY <1>2, <1>5 DEF s

\* Fusion leaves each operator in one statement.
LEMMA FusedStatements ==
    ASSUME net \in Networks, Ancestors \in [Nodes -> Nodes], MarkedOps \cap FetchOps(net) = {},
           NEW order \in TopologicalOrders(MarkedOps, DependsOn(net)), NEW S,
           S = {Subgraph(ops) : ops \in Clusters(order)}
                 \cup {Statement(i) : i \in Ops(net) \ MarkedOps}
    PROVE  StatementsOK(S)
<1>1. IsNetwork(net) /\ IsFiniteSet(Nodes) /\ IsFiniteSet(Ops(net)) /\ IsFiniteSet(MarkedOps)
  <2>1. IsNetwork(net) /\ Len(net) \in Nat
    BY NodesFacts, NetworkLength
  <2>2. IsFiniteSet(Ops(net)) /\ MarkedOps \subseteq Ops(net)
    BY <2>1, FS_Interval DEF Ops, MarkedOps
  <2> QED
    BY <2>1, <2>2, NodesFacts, FS_Subset
<1> DEFINE A(i) == UnionFindAncestor(OpNode(i))
           dep == DependsOn(net)
<1>2. IsOrder(order, MarkedOps, dep)
  BY <1>1, OrdersAreOrders
<1>3. /\ order \in Seq(Ops(net)) /\ \A k \in 1 .. Len(order) : order[k] \in MarkedOps
      /\ \A i \in MarkedOps : \E k \in 1 .. Len(order) : order[k] = i
      /\ \A m, l \in 1 .. Len(order) : m < l => order[l] \notin dep[order[m]] /\ order[m] # order[l]
  <2>1. order \in Seq(MarkedOps) /\ MarkedOps \subseteq Ops(net)
    BY <1>2 DEF IsOrder, MarkedOps
  <2>2. order \in Seq(Ops(net)) /\ \A k \in 1 .. Len(order) : order[k] \in MarkedOps
    BY <2>1
  <2>3. \A m, l \in 1 .. Len(order) : m < l => m <= l /\ m # l
    OBVIOUS
  <2> QED
    BY <1>2, <2>2, <2>3 DEF IsOrder
<1>4. \A i \in Ops(net) : A(i) \in Nodes
  BY DEF Nodes, GraphNodes, Ancestors
<1>5. PICK c : ClusterLists(order, c)
  BY <1>3, <1>4, ClustersAreLists
<1> HIDE DEF A, dep
<1>6. ASSUME NEW n \in Nodes
      PROVE  /\ c[n] \in Seq(Ops(net)) /\ \A i \in Inside(c[n]) : i \in MarkedOps /\ A(i) = n
             /\ \A i \in MarkedOps : A(i) = n => i \in Inside(c[n])
             /\ \A a, b \in 1 .. Len(c[n]) : a < b =>
                    c[n][a] # c[n][b] /\ c[n][b] \notin dep[c[n][a]]
  <2> DEFINE q == c[n]
  <2>1. IsCluster(q, n, order)
    BY <1>5 DEF ClusterLists
  <2> HIDE DEF q
  <2>2. /\ q \in Seq(Ops(net))
        /\ \A i \in 1 .. Len(q) : A(q[i]) = n
        /\ \A m \in 1 .. Len(order) : A(order[m]) = n => \E i \in 1 .. Len(q) : q[i] = order[m]
        /\ \A i, j \in 1 .. Len(q) : i < j =>
              \E m, l \in 1 .. Len(order) : m < l /\ q[i] = order[m] /\ q[j] = order[l]
        /\ \A i \in 1 .. Len(q) : \E m \in 1 .. Len(order) : q[i] = order[m]
    BY <2>1, Zenon DEF IsCluster, PartOfCluster, A
  <2>3. Inside(q) = {q[k] : k \in 1 .. Len(q)}
    BY <2>2 DEF Inside
  <2>4. \A i \in Inside(q) : i \in MarkedOps /\ A(i) = n
    BY <1>3, <2>2, <2>3
  <2>5. ASSUME NEW i \in MarkedOps, A(i) = n PROVE i \in Inside(q)
    <3>1. PICK m \in 1 .. Len(order) : order[m] = i
      BY <1>3
    <3>2. PICK k \in 1 .. Len(q) : q[k] = order[m]
      BY <2>2, <2>5, <3>1
    <3> QED
      BY <2>3, <3>1, <3>2
  <2>6. \A a, b \in 1 .. Len(q) : a < b => q[a] # q[b] /\ q[b] \notin dep[q[a]]
    <3> SUFFICES ASSUME NEW a \in 1 .. Len(q), NEW b \in 1 .. Len(q), a < b
                 PROVE  q[a] # q[b] /\ q[b] \notin dep[q[a]]
      OBVIOUS
    <3>1. PICK m \in 1 .. Len(order), l \in 1 .. Len(order) :
              m < l /\ q[a] = order[m] /\ q[b] = order[l]
      BY <2>2
    <3> QED
      BY <1>3, <3>1
  <2> QED
    BY <2>2, <2>4, <2>5, <2>6 DEF q
<1> DEFINE L == {c[n] : n \in Nodes} \ {<<>>}
           H == {Statement(i) : i \in Ops(net) \ MarkedOps}
<1>7. S = {Subgraph(ops) : ops \in L} \cup H
  BY <1>5 DEF ClusterLists
<1>8. ASSUME NEW s \in S
      PROVE  \/ \E n \in Nodes : c[n] # <<>> /\ s = Subgraph(c[n])
             \/ \E i \in Ops(net) \ MarkedOps : s = Statement(i)
  BY <1>7
<1>9. \A ops : Subgraph(ops).ops = ops
  BY DEF Subgraph
<1>10. \A s \in S : StatementOK(s)
  <2> SUFFICES ASSUME NEW s \in S PROVE StatementOK(s)
    OBVIOUS
  <2>1. ASSUME NEW n \in Nodes, c[n] # <<>>, s = Subgraph(c[n]) PROVE StatementOK(s)
    <3> DEFINE q == c[n]
    <3>1. q \in Seq(Ops(net)) /\ q # <<>>
          /\ (\A a, b \in 1 .. Len(q) : a < b => q[a] # q[b] /\ q[b] \notin DependsOn(net)[q[a]])
          /\ Inside(q) \cap FetchOps(net) = {}
      BY <1>6, <2>1 DEF dep
    <3> HIDE DEF q
    <3>2. StatementOK(Subgraph(q))
      BY <3>1, SubgraphOK
    <3> QED
      BY <2>1, <3>2 DEF q
  <2> QED
    BY <1>8, <2>1, HostStatementOK
<1>11. IsFiniteSet(S)
  <2> DEFINE f == [n \in Nodes |-> Subgraph(c[n])]
             g == [i \in Ops(net) |-> Statement(i)]
             F == {Subgraph(c[n]) : n \in Nodes}
             G == {Statement(i) : i \in Ops(net)}
  <2>1. f \in Surjection(Nodes, F) /\ g \in Surjection(Ops(net), G)
    BY DEF Surjection
  <2> HIDE DEF f, g
  <2>2. IsFiniteSet(F) /\ IsFiniteSet(G)
    BY <1>1, <2>1, FS_Surjection
  <2>3. S \subseteq F \cup G
    BY <1>7
  <2> HIDE DEF F, G
  <2>4. IsFiniteSet(F \cup G)
    BY <2>2, FS_Union
  <2> QED
    BY <2>3, <2>4, FS_Subset
<1>12. ASSUME NEW i \in Ops(net) PROVE \E s \in S : i \in Inside(s.ops)
  <2>1. CASE i \in MarkedOps
    <3>1. A(i) \in Nodes /\ i \in Inside(c[A(i)])
      BY <1>4, <1>6, <2>1 DEF A
    <3>2. c[A(i)] # <<>>
      BY <3>1 DEF Inside
    <3>3. Subgraph(c[A(i)]) \in S
      BY <1>7, <3>1, <3>2
    <3> QED
      BY <1>9, <3>1, <3>3
  <2>2. CASE i \notin MarkedOps
    <3>1. Statement(i) \in S
      BY <1>7, <2>2
    <3>2. i \in Inside(Statement(i).ops)
      BY HostStatementOK
    <3> QED
      BY <3>1, <3>2
  <2> QED
    BY <2>1, <2>2
<1>13. ASSUME NEW s \in S, NEW t \in S, NEW i, i \in Inside(s.ops), i \in Inside(t.ops)
       PROVE  s = t
  <2>1. CASE i \in MarkedOps
    <3>1. \A u \in S : i \in Inside(u.ops) => u = Subgraph(c[A(i)])
      <4> SUFFICES ASSUME NEW u \in S, i \in Inside(u.ops) PROVE u = Subgraph(c[A(i)])
        OBVIOUS
      <4>1. ASSUME NEW j \in Ops(net) \ MarkedOps, u = Statement(j) PROVE FALSE
        <5>1. i = j
          BY <4>1, HostStatementOK
        <5> QED
          BY <2>1, <5>1
      <4>2. PICK n \in Nodes : u = Subgraph(c[n])
        BY <1>8, <4>1
      <4>3. A(i) = n
        BY <1>6, <1>9, <4>2
      <4> QED
        BY <4>2, <4>3
    <3> QED
      BY <1>13, <3>1
  <2>2. CASE i \notin MarkedOps
    <3>1. \A u \in S : i \in Inside(u.ops) => u = Statement(i)
      <4> SUFFICES ASSUME NEW u \in S, i \in Inside(u.ops) PROVE u = Statement(i)
        OBVIOUS
      <4>1. ASSUME NEW n \in Nodes, u = Subgraph(c[n]) PROVE FALSE
        BY <1>6, <1>9, <2>2, <4>1
      <4>2. PICK j \in Ops(net) \ MarkedOps : u = Statement(j)
        BY <1>8, <4>1
      <4>3. i = j
        BY <4>2, HostStatementOK
      <4> QED
        BY <4>2, <4>3
    <3> QED
      BY <1>13, <3>1
  <2> QED
    BY <2>1, <2>2
<1> HIDE DEF L, H
<1>14. \A s, t \in S : s = t \/ Inside(s.ops) \cap Inside(t.ops) = {}
  BY <1>13
<1> QED
  BY <1>10, <1>11, <1>12, <1>14 DEF StatementsOK

-----------------------------------------------------------------------------
(* The statements in the order they run.                                   *)

\* Each statement once, and none before one that writes what it reads.
IsSchedule(q, S) ==
    /\ q \in Seq(S) /\ \A s \in S : \E k \in 1 .. Len(q) : q[k] = s
    /\ \A j, k \in 1 .. Len(q) : j # k => q[j] # q[k]
    /\ \A j, k \in 1 .. Len(q) : j <= k =>
          \A v \in q[j].ins : v \notin q[k].outs \cup q[k].kept
ScheduledOK == IsSchedule(sched, stmts)

\* A topological order of the statements is a schedule.
LEMMA ScheduledIs ==
    ASSUME NEW q, IsOrder(q, stmts, Follows)
    PROVE  IsSchedule(q, stmts)
<1>1. /\ q \in Seq(stmts) /\ \A s \in stmts : \E k \in 1 .. Len(q) : q[k] = s
      /\ \A j, k \in 1 .. Len(q) : j # k => q[j] # q[k]
      /\ \A j, k \in 1 .. Len(q) : j <= k => q[k] \notin Follows[q[j]]
  BY Zenon DEF IsOrder
<1>2. ASSUME NEW j \in 1 .. Len(q), NEW k \in 1 .. Len(q), j <= k, NEW v \in q[j].ins
      PROVE  v \notin q[k].outs \cup q[k].kept
  <2>1. q[j] \in stmts /\ q[k] \in stmts
    BY <1>1
  <2>2. Follows[q[j]] = UNION {Writer(w) : w \in q[j].ins}
    BY <2>1 DEF Follows
  <2>3. q[k] \notin Writer(v)
    BY <1>1, <1>2, <2>2
  <2> QED
    BY <2>1, <2>3 DEF Writer
<1> QED
  BY <1>1, <1>2 DEF IsSchedule

\* P is the position of each operator's statement: not before those of the operators it
\* depends on.
Positions(P) ==
    /\ P \in [Ops(net) -> 1 .. Len(sched)]
    /\ \A i \in Ops(net) : \A k \in 1 .. Len(sched) : i \in Inside(sched[k].ops) <=> k = P[i]
    /\ \A i \in Ops(net) : \A v \in DependsOn(net)[i] : v \in Ops(net) /\ P[v] <= P[i]

\* An operator's statement does not come before those its data comes from.
LEMMA StatementsHavePositions ==
    ASSUME net \in Networks, StatementsOK(stmts), ScheduledOK
    PROVE  \E P : Positions(P)
<1> DEFINE N == Len(sched)
           D == Ops(net)
           At(i, k) == k \in 1 .. N /\ i \in Inside(sched[k].ops)
           P == [i \in D |-> CHOOSE k : At(i, k)]
<1>1. \A k \in 1 .. N : sched[k] \in stmts /\ StatementOK(sched[k])
  BY DEF ScheduledOK, IsSchedule, StatementsOK
<1>2. ASSUME NEW i \in D PROVE \E k : At(i, k)
  <2>1. PICK s \in stmts : i \in Inside(s.ops)
    BY DEF StatementsOK
  <2>2. PICK k \in 1 .. N : sched[k] = s
    BY DEF ScheduledOK, IsSchedule
  <2> QED
    BY <2>1, <2>2
<1>3. ASSUME NEW i, NEW k, NEW l, At(i, k), At(i, l) PROVE k = l
  <2>1. sched[k] \in stmts /\ sched[l] \in stmts
    BY <1>1, <1>3
  <2>2. sched[k] = sched[l]
    BY <1>3, <2>1 DEF StatementsOK
  <2> QED
    BY <1>3, <2>2 DEF ScheduledOK, IsSchedule
<1>4. \A i \in D : At(i, P[i])
  BY <1>2
<1> HIDE DEF P
<1>5. \A i \in D : P[i] \in 1 .. N /\ \A k \in 1 .. N : i \in Inside(sched[k].ops) <=> k = P[i]
  BY <1>3, <1>4
<1>6. IsNetwork(net) /\ Len(net) \in Nat /\ N \in Nat
  BY NodesFacts, NetworkLength DEF ScheduledOK, IsSchedule
<1>7. \A i \in D : \A v \in VarsRead(net, i) \ {0} : v \in D /\ v < i
  <2> SUFFICES ASSUME NEW i \in D, NEW v \in VarsRead(net, i), v # 0 PROVE v \in D /\ v < i
    OBVIOUS
  <2>1. v \in 0 .. i - 1 /\ i \in 1 .. Len(net)
    BY <1>6, VarsReadBefore DEF Ops
  <2> QED
    BY <1>6, <2>1 DEF Ops
<1>8. ASSUME NEW i \in D, NEW v \in VarsRead(net, i) \ {0} PROVE P[v] <= P[i]
  <2> DEFINE s == sched[P[i]]
             t == sched[P[v]]
  <2>1. v \in D /\ P[i] \in 1 .. N /\ P[v] \in 1 .. N /\ i \in Inside(s.ops) /\ v \in Inside(t.ops)
    BY <1>5, <1>7
  <2>2. StatementOK(s) /\ StatementOK(t)
    BY <1>1, <2>1
  <2> HIDE DEF s, t
  <2>3. v \in s.ins \/ v \in Inside(s.ops)
    BY <2>1, <2>2 DEF StatementOK
  <2>4. CASE v \in Inside(s.ops)
    <3>1. P[i] = P[v]
      BY <1>5, <2>1, <2>4 DEF s
    <3> QED
      BY <2>1, <3>1
  <2>5. CASE v \in s.ins
    <3>1. v \in t.outs \cup t.kept
      BY <2>1, <2>2 DEF StatementOK
    <3>2. ~(P[i] <= P[v])
      BY <2>1, <2>5, <3>1 DEF ScheduledOK, IsSchedule, s, t
    <3> QED
      BY <2>1, <3>2
  <2> QED
    BY <2>3, <2>4, <2>5
<1> DEFINE T == {n \in Nat : \A i \in D : i <= n =>
                     \A v \in DependsOn(net)[i] : v \in D /\ P[v] <= P[i]}
<1>9. 0 \in T
  BY <1>6 DEF Ops
<1>10. ASSUME NEW n \in Nat, n \in T PROVE n + 1 \in T
  <2> SUFFICES ASSUME NEW i \in D, i <= n + 1, NEW v \in DependsOn(net)[i]
               PROVE  v \in D /\ P[v] <= P[i]
    OBVIOUS
  <2>1. DependsOn(net)[i] = UNION {{w} \cup DependsOn(net)[w] : w \in VarsRead(net, i) \ {0}}
    BY <1>6, DependsOnIs
  <2>2. PICK w \in VarsRead(net, i) \ {0} : v \in {w} \cup DependsOn(net)[w]
    BY <2>1
  <2>3. w \in D /\ w < i /\ P[w] <= P[i] /\ P[i] \in 1 .. N /\ P[w] \in 1 .. N
    BY <1>5, <1>7, <1>8
  <2>4. CASE v = w
    BY <2>3, <2>4
  <2>5. CASE v \in DependsOn(net)[w]
    <3>1. w <= n
      BY <1>6, <2>3 DEF Ops
    <3>2. v \in D /\ P[v] <= P[w]
      BY <1>10, <2>3, <2>5, <3>1
    <3>3. P[v] \in 1 .. N
      BY <1>5, <3>2
    <3> QED
      BY <1>6, <2>3, <3>2, <3>3
  <2> QED
    BY <2>2, <2>4, <2>5
<1> HIDE DEF T
<1>11. \A n \in Nat : n \in T
  BY <1>9, <1>10, InductiveSet
<1>12. \A i \in D : \A v \in DependsOn(net)[i] : v \in D /\ P[v] <= P[i]
  BY <1>6, <1>11 DEF T, Ops
<1>13. P \in [D -> 1 .. N]
  BY <1>5 DEF P
<1>14. Positions(P)
  BY <1>5, <1>12, <1>13 DEF Positions
<1> QED
  BY <1>14

-----------------------------------------------------------------------------
(* The memory plan.                                                        *)

\* Whatever function obeys the equations of a fold stays in the fold's type.
FoldRuns(U, A, f, base, n, seq) ==
    /\ \A k \in 0 .. n : U[1 .. k] \in A
    /\ U[1 .. 0] = base /\ \A k \in 1 .. n : U[1 .. k] = f[<<U[1 .. k - 1], seq[k]>>]

\* What a fold leaves after each element.
LEMMA FoldResult ==
    ASSUME NEW A, NEW X, NEW f \in [A \X X -> A], NEW base \in A, NEW n \in Nat,
           NEW seq \in [1 .. n -> X], NEW U, U[{}] = base,
           \A s \in SUBSET (1 .. n) : s # {} /\ U[s \ {Max(s)}] \in A =>
               U[s] = f[<<U[s \ {Max(s)}], seq[Max(s)]>>]
    PROVE  FoldRuns(U, A, f, base, n, seq)
<1>1. 1 .. 0 = {}
  OBVIOUS
<1>2. ASSUME NEW k \in 1 .. n, U[1 .. k - 1] \in A
      PROVE  U[1 .. k] = f[<<U[1 .. k - 1], seq[k]>>] /\ U[1 .. k] \in A
  <2>1. k \in Nat \ {0} /\ k \in 1 .. k /\ \A j \in 1 .. k : j \in 1 .. n
    OBVIOUS
  <2>2. Max(1 .. k) = k /\ (1 .. k) \ {k} = 1 .. k - 1
    BY <2>1, MaxOfInterval
  <2>3. (1 .. k) \in SUBSET (1 .. n) /\ 1 .. k # {}
    BY <2>1
  <2>4. U[1 .. k] = f[<<U[1 .. k - 1], seq[k]>>]
    BY <1>2, <2>2, <2>3
  <2>5. seq[k] \in X
    OBVIOUS
  <2> QED
    BY <1>2, <2>4, <2>5
<1> DEFINE T == {k \in Nat : k \in 0 .. n => U[1 .. k] \in A}
<1>3. 0 \in T
  BY <1>1
<1>4. ASSUME NEW k \in Nat, k \in T PROVE k + 1 \in T
  <2> SUFFICES ASSUME k + 1 \in 0 .. n PROVE U[1 .. k + 1] \in A
    OBVIOUS
  <2>1. k \in 0 .. n /\ k + 1 \in 1 .. n /\ (k + 1) - 1 = k
    OBVIOUS
  <2>2. U[1 .. k] \in A
    BY <1>4, <2>1
  <2> HIDE DEF T
  <2> QED
    BY <1>2, <2>1, <2>2
<1> HIDE DEF T
<1>5. \A k \in Nat : k \in T
  BY <1>3, <1>4, InductiveSet
<1>6. \A k \in 0 .. n : U[1 .. k] \in A
  BY <1>5 DEF T
<1>7. \A k \in 1 .. n : U[1 .. k] = f[<<U[1 .. k - 1], seq[k]>>]
  <2>1. \A k \in 1 .. n : k - 1 \in 0 .. n
    OBVIOUS
  <2> QED
    BY <1>2, <1>6, <2>1
<1> QED
  BY <1>1, <1>6, <1>7 DEF FoldRuns

\* Variables of one memory are never in use at the same time.
Disjoint(life, p) ==
    /\ DOMAIN p \subseteq DOMAIN life
    /\ \A x \in DOMAIN p : p[x] \in DOMAIN p
    /\ \A x, y \in DOMAIN p : x # y /\ p[x] = p[y] => ~Overlap(life[x], life[y])

\* While h's cluster is filled, adj is what overlaps one of its members.
PlansOf(life) == UNION {[X -> DOMAIN life] : X \in SUBSET DOMAIN life}
FillOK(life, h, acc) ==
    /\ Disjoint(life, acc.plan) /\ h \in DOMAIN acc.plan /\ acc.plan[h] = h
    /\ \A x \in DOMAIN acc.plan : acc.plan[x] = h => Adjacent(life, x) \subseteq acc.adj
Fillings(life, h) ==
    {acc \in [plan : PlansOf(life), adj : SUBSET DOMAIN life] : FillOK(life, h, acc)}
JoinStep(life, h, acc, x) ==
    IF x \in DOMAIN acc.plan \/ x \in acc.adj THEN acc
    ELSE [plan |-> Placed(acc.plan, x, h), adj |-> acc.adj \cup Adjacent(life, x)]

LEMMA PlanType ==
    ASSUME NEW life, NEW p
    PROVE  p \in PlansOf(life) <=> \E X \in SUBSET DOMAIN life : p \in [X -> DOMAIN life]
BY DEF PlansOf

Extends(q, p, x, h) ==
    DOMAIN q = DOMAIN p \cup {x} /\ q[x] = h /\ \A y \in DOMAIN p : q[y] = p[y]

\* One more name in a plan.
LEMMA PlanExtended ==
    ASSUME NEW p, NEW x, NEW h, x \notin DOMAIN p
    PROVE  Extends(Placed(p, x, h), p, x, h)
BY DEF Placed, Extends

LEMMA PlanGrows ==
    ASSUME NEW life, NEW p \in PlansOf(life), NEW x \in DOMAIN life, NEW h \in DOMAIN life,
           x \notin DOMAIN p
    PROVE  Placed(p, x, h) \in PlansOf(life)
<1>1. PICK X \in SUBSET DOMAIN life : p \in [X -> DOMAIN life]
  BY PlanType
<1>2. Placed(p, x, h) = [y \in X \cup {x} |-> IF y \in X THEN p[y] ELSE h]
  BY <1>1 DEF Placed
<1>3. Placed(p, x, h) \in [X \cup {x} -> DOMAIN life]
  BY <1>1, <1>2
<1> QED
  BY <1>3, PlanType

\* A new head begins a cluster.
LEMMA HeadBegins ==
    ASSUME NEW life, NEW p \in PlansOf(life), Disjoint(life, p), NEW h \in DOMAIN life,
           h \notin DOMAIN p
    PROVE  [plan |-> Placed(p, h, h), adj |-> Adjacent(life, h)] \in Fillings(life, h)
<1> DEFINE q == Placed(p, h, h)
<1>1. /\ DOMAIN q = DOMAIN p \cup {h} /\ q[h] = h /\ \A y \in DOMAIN p : q[y] = p[y]
      /\ q \in PlansOf(life)
  <2>1. q \in PlansOf(life)
    BY PlanGrows
  <2>2. Extends(q, p, h, h)
    BY PlanExtended
  <2> HIDE DEF q
  <2> QED
    BY <2>1, <2>2 DEF Extends
<1> HIDE DEF q
<1>2. Disjoint(life, q) /\ \A x \in DOMAIN q : q[x] = h => x = h
  BY <1>1 DEF Disjoint
<1>3. Adjacent(life, h) \subseteq DOMAIN life
  BY DEF Adjacent
<1> DEFINE acc == [plan |-> q, adj |-> Adjacent(life, h)]
<1>4. acc.plan = q /\ acc.adj = Adjacent(life, h)
      /\ acc \in [plan : PlansOf(life), adj : SUBSET DOMAIN life]
  BY <1>1, <1>3
<1> HIDE DEF acc
<1>5. FillOK(life, h, acc)
  BY <1>1, <1>2, <1>4 DEF FillOK
<1>6. acc \in Fillings(life, h)
  BY <1>4, <1>5 DEF Fillings
<1> QED
  BY <1>6 DEF acc, q

\* A name that overlaps nobody in the cluster may join it.
LEMMA JoinKeeps ==
    ASSUME NEW life, NEW h \in DOMAIN life, NEW acc \in Fillings(life, h), NEW x \in DOMAIN life
    PROVE  JoinStep(life, h, acc, x) \in Fillings(life, h)
<1>1. CASE x \in DOMAIN acc.plan \/ x \in acc.adj
  BY <1>1 DEF JoinStep
<1>2. CASE ~(x \in DOMAIN acc.plan \/ x \in acc.adj)
  <2> DEFINE p == acc.plan
             q == Placed(p, x, h)
             new == [plan |-> q, adj |-> acc.adj \cup Adjacent(life, x)]
  <2>1. p \in PlansOf(life) /\ acc.adj \in SUBSET DOMAIN life /\ FillOK(life, h, acc)
    BY DEF Fillings
  <2>2. /\ DOMAIN q = DOMAIN p \cup {x} /\ q[x] = h /\ \A y \in DOMAIN p : q[y] = p[y]
        /\ q \in PlansOf(life)
    <3>1. q \in PlansOf(life)
      BY <1>2, <2>1, PlanGrows
    <3>2. Extends(q, p, x, h)
      BY <1>2, PlanExtended
    <3> HIDE DEF q, p
    <3> QED
      BY <3>1, <3>2 DEF Extends
  <2>3. /\ new.plan = q /\ new.adj = acc.adj \cup Adjacent(life, x)
        /\ JoinStep(life, h, acc, x) = new
    BY <1>2 DEF JoinStep
  <2> HIDE DEF q, new
  <2>4. /\ Disjoint(life, p) /\ h \in DOMAIN p /\ p[h] = h
        /\ \A y \in DOMAIN p : p[y] = h => Adjacent(life, y) \subseteq acc.adj
    BY <2>1 DEF FillOK
  <2> HIDE DEF p
  <2>5. \A y \in DOMAIN p : p[y] = h => ~Overlap(life[x], life[y]) /\ ~Overlap(life[y], life[x])
    <3> SUFFICES ASSUME NEW y \in DOMAIN p, p[y] = h
                 PROVE  ~Overlap(life[x], life[y]) /\ ~Overlap(life[y], life[x])
      OBVIOUS
    <3>1. x \notin Adjacent(life, y) /\ x # y
      BY <1>2, <2>4 DEF p
    <3>2. ~Overlap(life[y], life[x])
      BY <3>1 DEF Adjacent
    <3> QED
      BY <3>2 DEF Overlap
  <2>6. Disjoint(life, q)
    BY <2>2, <2>4, <2>5 DEF Disjoint
  <2>7. h \in DOMAIN q /\ q[h] = h
    BY <2>2, <2>4
  <2>8. \A y \in DOMAIN q : q[y] = h => Adjacent(life, y) \subseteq new.adj
    BY <2>2, <2>3, <2>4
  <2>9. FillOK(life, h, new)
    BY <2>3, <2>6, <2>7, <2>8 DEF FillOK
  <2>10. new \in [plan : PlansOf(life), adj : SUBSET DOMAIN life]
    <3>1. acc.adj \cup Adjacent(life, x) \in SUBSET DOMAIN life
      BY <2>1 DEF Adjacent
    <3> QED
      BY <2>2, <3>1 DEF new
  <2> QED
    BY <2>3, <2>9, <2>10 DEF Fillings
<1> QED
  BY <1>1, <1>2

\* Filling a cluster leaves every cluster's lifetimes disjoint.
LEMMA FillIsDisjoint ==
    ASSUME NEW life, NEW q \in Seq(DOMAIN life), NEW i \in 1 .. Len(q), NEW p \in PlansOf(life),
           Disjoint(life, p), q[i] \notin DOMAIN p
    PROVE  Fill(life, q, p, i) \in PlansOf(life) /\ Disjoint(life, Fill(life, q, p, i))
<1> DEFINE D == DOMAIN life
           h == q[i]
           A == Fillings(life, h)
           seq == SubSeq(q, i + 1, Len(q))
           n == Len(seq)
           base == [plan |-> Placed(p, h, h), adj |-> Adjacent(life, h)]
           f == [t \in A \X D |-> JoinStep(life, h, t[1], t[2])]
<1>1. h \in D
  OBVIOUS
<1>2. seq \in Seq(D)
  <2>1. \A j \in i + 1 .. Len(q) : q[j] \in D
    OBVIOUS
  <2> QED
    BY <2>1, SubSeqProperties
<1> HIDE DEF seq
<1>3. n \in Nat /\ DOMAIN seq = 1 .. n /\ seq \in [1 .. n -> D]
  BY <1>2
<1>4. base \in A
  BY <1>1, HeadBegins
<1>5. f \in [A \X D -> A] /\ \A acc \in A : \A x \in D : f[<<acc, x>>] = JoinStep(life, h, acc, x)
  <2>1. \A acc \in A : \A x \in D : JoinStep(life, h, acc, x) \in A
    BY <1>1, JoinKeeps
  <2> HIDE DEF A, D, h
  <2> QED
    BY <2>1
<1> HIDE DEF D, n, base, f
<1> DEFINE Eq(g) == g = [s \in SUBSET DOMAIN seq |->
                          IF s = {} THEN base ELSE JoinStep(life, h, g[s \ {Max(s)}], seq[Max(s)])]
           U == CHOOSE g : Eq(g)
<1>6. Fill(life, q, p, i) = U[1 .. n].plan
  BY <1>3 DEF Fill, FoldLeft, MapThenFoldSet, JoinStep, base, seq
<1> HIDE DEF A, h
<1>7. PICK it : FoldedBy(it, A, f, base, n, seq)
  BY <1>3, <1>4, <1>5, FoldExists
<1>8. Eq(it)
  <2>1. it \in [SUBSET (1 .. n) -> A]
    BY <1>7 DEF FoldedBy
  <2>2. ASSUME NEW s \in SUBSET (1 .. n)
        PROVE  it[s] = IF s = {} THEN base ELSE JoinStep(life, h, it[s \ {Max(s)}], seq[Max(s)])
    <3>1. it[s] = IF s = {} THEN base ELSE f[<<it[s \ {Max(s)}], seq[Max(s)]>>]
      BY <1>7 DEF FoldedBy
    <3>2. CASE s # {}
      <4>1. Max(s) \in 1 .. n /\ s \ {Max(s)} \in SUBSET (1 .. n)
        BY <1>3, <3>2, MaxIsIn
      <4>2. it[s \ {Max(s)}] \in A /\ seq[Max(s)] \in D
        BY <1>3, <2>1, <4>1
      <4> QED
        BY <1>5, <3>1, <3>2, <4>2
    <3> QED
      BY <3>1, <3>2
  <2> QED
    BY <1>3, <2>1, <2>2
<1>9. Eq(U)
  BY <1>8, Zenon
<1> HIDE DEF U
<1>10. U[{}] = base
  BY <1>9
<1>11. ASSUME NEW s \in SUBSET (1 .. n), s # {}, U[s \ {Max(s)}] \in A
       PROVE  U[s] = f[<<U[s \ {Max(s)}], seq[Max(s)]>>]
  <2>1. Max(s) \in 1 .. n /\ seq[Max(s)] \in D
    BY <1>3, <1>11, MaxIsIn
  <2>2. U[s] = JoinStep(life, h, U[s \ {Max(s)}], seq[Max(s)])
    BY <1>3, <1>9, <1>11
  <2> QED
    BY <1>5, <1>11, <2>1, <2>2
<1> HIDE DEF Eq
<1>12. FoldRuns(U, A, f, base, n, seq)
  BY <1>3, <1>4, <1>5, <1>10, <1>11, FoldResult
<1>13. U[1 .. n] \in A
  BY <1>3, <1>12 DEF FoldRuns
<1>14. U[1 .. n].plan \in PlansOf(life) /\ Disjoint(life, U[1 .. n].plan)
  BY <1>13 DEF A, Fillings, FillOK
<1> QED
  BY <1>6, <1>14

PlanStep(life, q, p, i) == IF q[i] \in DOMAIN p THEN p ELSE Fill(life, q, p, i)

\* No two names whose lifetimes meet share memory, in whatever order names come.
LEMMA ReusePlanIsDisjoint ==
    ASSUME NEW life, NEW q \in Seq(DOMAIN life)
    PROVE  Disjoint(life, ReusePlan(life, q))
<1> DEFINE n == Len(q)
           A == {p \in PlansOf(life) : Disjoint(life, p)}
           X == DOMAIN q
           seq == [i \in DOMAIN q |-> i]
           f == [t \in A \X X |-> PlanStep(life, q, t[1], t[2])]
<1>1. n \in Nat /\ X = 1 .. n /\ DOMAIN seq = 1 .. n /\ seq \in [1 .. n -> X]
  OBVIOUS
<1>2. <<>> \in A
  <2>1. DOMAIN <<>> = {}
    OBVIOUS
  <2>2. <<>> \in [{} -> DOMAIN life]
    OBVIOUS
  <2>3. <<>> \in PlansOf(life)
    BY <2>2, PlanType
  <2>4. Disjoint(life, <<>>)
    BY <2>1 DEF Disjoint
  <2> QED
    BY <2>3, <2>4
<1>3. f \in [A \X X -> A] /\ \A p \in A : \A i \in X : f[<<p, i>>] = PlanStep(life, q, p, i)
  <2>1. \A p \in A : \A i \in X : PlanStep(life, q, p, i) \in A
    BY <1>1, FillIsDisjoint DEF PlanStep
  <2> HIDE DEF A, X
  <2> QED
    BY <2>1
<1> HIDE DEF f
<1> DEFINE Eq(g) == g = [s \in SUBSET DOMAIN seq |->
                          IF s = {} THEN <<>> ELSE PlanStep(life, q, g[s \ {Max(s)}], seq[Max(s)])]
           U == CHOOSE g : Eq(g)
<1>4. ReusePlan(life, q) = U[DOMAIN seq]
  BY DEF ReusePlan, FoldLeft, MapThenFoldSet, PlanStep
<1> HIDE DEF A, X, seq, n
<1>5. PICK it : FoldedBy(it, A, f, <<>>, n, seq)
  BY <1>1, <1>2, <1>3, FoldExists
<1>6. Eq(it)
  <2>1. it \in [SUBSET (1 .. n) -> A]
    BY <1>5 DEF FoldedBy
  <2>2. ASSUME NEW s \in SUBSET (1 .. n)
        PROVE  it[s] = IF s = {} THEN <<>> ELSE PlanStep(life, q, it[s \ {Max(s)}], seq[Max(s)])
    <3>1. it[s] = IF s = {} THEN <<>> ELSE f[<<it[s \ {Max(s)}], seq[Max(s)]>>]
      BY <1>5 DEF FoldedBy
    <3>2. CASE s # {}
      <4>1. Max(s) \in 1 .. n /\ s \ {Max(s)} \in SUBSET (1 .. n)
        BY <1>1, <3>2, MaxIsIn
      <4>2. it[s \ {Max(s)}] \in A /\ seq[Max(s)] \in X
        BY <1>1, <2>1, <4>1
      <4> QED
        BY <1>3, <3>1, <3>2, <4>2
    <3> QED
      BY <3>1, <3>2
  <2> QED
    BY <1>1, <2>1, <2>2
<1>7. Eq(U)
  BY <1>6, Zenon
<1> HIDE DEF U
<1>8. U[{}] = <<>>
  BY <1>7
<1>9. ASSUME NEW s \in SUBSET (1 .. n), s # {}, U[s \ {Max(s)}] \in A
      PROVE  U[s] = f[<<U[s \ {Max(s)}], seq[Max(s)]>>]
  <2>1. Max(s) \in 1 .. n /\ seq[Max(s)] \in X
    BY <1>1, <1>9, MaxIsIn
  <2>2. U[s] = PlanStep(life, q, U[s \ {Max(s)}], seq[Max(s)])
    BY <1>1, <1>7, <1>9
  <2> QED
    BY <1>3, <1>9, <2>1, <2>2
<1> HIDE DEF Eq
<1>10. FoldRuns(U, A, f, <<>>, n, seq)
  BY <1>1, <1>2, <1>3, <1>8, <1>9, FoldResult
<1>11. U[1 .. n] \in A
  BY <1>1, <1>10 DEF FoldRuns
<1> QED
  BY <1>1, <1>4, <1>11 DEF A

-----------------------------------------------------------------------------
(* The lifetimes.                                                          *)

\* A variable that takes part is in use within its lifetime only, and by no statement whose
\* variables are left alone.
LivesOK(life) ==
    /\ DOMAIN life \subseteq Names(net) \ {0}
    /\ \A x \in DOMAIN life :
          /\ life[x].first \in Nat /\ life[x].last \in Nat
          /\ \A k \in 1 .. Len(sched) : x \in Uses(sched[k]).names =>
                ~Uses(sched[k]).invalid /\ life[x].first <= k + 1 /\ k + 1 <= life[x].last

LEMMA StatementNames ==
    ASSUME net \in Networks, NEW s, StatementOK(s)
    PROVE  Uses(s).names \subseteq Names(net) /\ Inside(s.ops) \subseteq Ops(net)
<1>1. IsNetwork(net) /\ Len(net) \in Nat
  BY NodesFacts, NetworkLength
<1>2. s.ops \in Seq(Ops(net)) /\ \A i \in Inside(s.ops) : i \in Ops(net)
  BY DEF StatementOK, Inside
<1>3. ASSUME NEW v \in s.ins \cup s.outs \cup s.kept PROVE NameOf(net, v) \in Names(net)
  <2>1. CASE v \in Inside(s.ops)
    <3>1. v \in Ops(net) /\ v # 0
      BY <1>1, <1>2, <2>1 DEF Ops
    <3> QED
      BY <3>1 DEF NameOf, Names
  <2>2. CASE v \in s.ins
    <3>1. PICK i \in Inside(s.ops) : v \in VarsRead(net, i)
      BY <2>2 DEF StatementOK
    <3>2. v \in 0 .. i - 1 /\ i \in 1 .. Len(net)
      BY <1>1, <1>2, <3>1, VarsReadBefore DEF Ops
    <3>3. v = 0 \/ v \in Ops(net)
      BY <1>1, <3>2 DEF Ops
    <3> QED
      BY <3>3 DEF NameOf, Names
  <2> QED
    BY <1>3, <2>1, <2>2 DEF StatementOK
<1>4. Uses(s).names = {NameOf(net, v) : v \in s.ins \cup s.outs \cup s.kept}
  BY DEF Uses
<1> QED
  BY <1>2, <1>3, <1>4

LEMMA NamesAreFinite ==
    ASSUME net \in Networks
    PROVE  IsFiniteSet(Names(net))
<1> DEFINE W == {net[i].out : i \in Ops(net)}
           f == [i \in Ops(net) |-> net[i].out]
<1>1. Len(net) \in Nat
  BY NodesFacts, NetworkLength
<1>2. IsFiniteSet(Ops(net))
  BY <1>1, FS_Interval DEF Ops
<1>3. f \in Surjection(Ops(net), W)
  BY DEF Surjection
<1> HIDE DEF f
<1>4. IsFiniteSet(W)
  BY <1>2, <1>3, FS_Surjection
<1>5. IsFiniteSet(W \cup {0}) /\ Names(net) = W \cup {0}
  BY <1>4, FS_AddElement DEF Names
<1> QED
  BY <1>5

\* A lifetime covers every statement that uses the name.
LEMMA LifetimeCovers ==
    ASSUME NEW L, NEW n \in Nat, DOMAIN L = 1 .. n, NEW x, NEW k \in 1 .. n, x \in L[k].names
    PROVE  /\ Lifetime(L, x).first \in Nat /\ Lifetime(L, x).last \in Nat
           /\ Lifetime(L, x).first <= k /\ k <= Lifetime(L, x).last
<1> DEFINE uses == {j \in DOMAIN L : x \in L[j].names}
           first == CHOOSE j \in uses : \A i \in uses : j <= i
           last == CHOOSE j \in uses : \A i \in uses : i <= j
<1>1. Lifetime(L, x).first = first /\ Lifetime(L, x).last = last
  BY DEF Lifetime
<1>2. uses \in SUBSET Nat /\ k \in uses /\ \A j \in uses : j <= n
  OBVIOUS
<1> HIDE DEF uses
<1>3. first \in uses /\ \A i \in uses : first <= i
  <2>1. \E j \in uses : \A i \in uses : j <= i
    BY <1>2, LeastNatural
  <2> QED
    BY <2>1
<1>4. last \in uses /\ \A i \in uses : i <= last
  <2>1. \E j \in uses : \A i \in uses : i <= j
    BY <1>2, LargestNatural
  <2> QED
    BY <2>1
<1> QED
  BY <1>1, <1>2, <1>3, <1>4

\* CollectLifeCycleByDevice gives every name the statements that use it, none of which
\* leaves its variables alone.
LEMMA CollectedLives ==
    ASSUME net \in Networks, StatementsOK(stmts), sched \in Seq(stmts)
    PROVE  LivesOK(Lifecycles(<<Feed>> \o [k \in DOMAIN sched |-> Uses(sched[k])]))
<1> DEFINE T == [k \in DOMAIN sched |-> Uses(sched[k])]
           L == <<Feed>> \o T
           n == Len(sched)
           R == {Feed} \cup {Uses(s) : s \in stmts}
<1>1. n \in Nat /\ DOMAIN sched = 1 .. n /\ \A k \in 1 .. n : sched[k] \in stmts
  OBVIOUS
<1>2. <<Feed>> \in Seq(R) /\ Len(<<Feed>>) = 1 /\ <<Feed>>[1] = Feed
  OBVIOUS
<1>3. T \in Seq(R) /\ Len(T) = n /\ \A k \in 1 .. n : T[k] = Uses(sched[k])
  <2>1. T \in [1 .. n -> R]
    BY <1>1
  <2>2. T \in Seq(R)
    BY <1>1, <2>1
  <2>3. Len(T) = n
    BY <1>1, <2>1, <2>2
  <2> QED
    BY <1>1, <2>2, <2>3
<1> HIDE DEF T, R, n
<1>4. /\ L \in Seq(R) /\ Len(L) = n + 1 /\ DOMAIN L = 1 .. n + 1
      /\ L[1] = Feed /\ \A k \in 1 .. n : L[k + 1] = Uses(sched[k])
  <2>1. L \in Seq(R) /\ Len(L) = n + 1
    BY <1>1, <1>2, <1>3, ConcatProperties
  <2>2. L[1] = Feed
    BY <1>2, <1>3, <2>1, ConcatProperties
  <2>3. ASSUME NEW k \in 1 .. n PROVE L[k + 1] = T[k]
    <3>1. k + 1 \in 1 .. 1 + n /\ ~(k + 1 <= 1) /\ (k + 1) - 1 = k
      BY <1>1
    <3> QED
      BY <1>1, <1>2, <1>3, <3>1, ConcatProperties
  <2> QED
    BY <1>1, <1>3, <2>1, <2>2, <2>3
<1> HIDE DEF L
<1>5. Feed.names = {0} /\ Feed.invalid = TRUE
  BY DEF Feed
<1> DEFINE life == Lifecycles(L)
<1>7. DOMAIN life = SharedNames(L) /\ \A x \in SharedNames(L) : life[x] = Lifetime(L, x)
  BY DEF Lifecycles
<1> HIDE DEF life
<1>8. ASSUME NEW x \in SharedNames(L)
      PROVE  /\ x \in Names(net) \ {0} /\ life[x].first \in Nat /\ life[x].last \in Nat
             /\ \A k \in 1 .. n : x \in Uses(sched[k]).names =>
                   ~Uses(sched[k]).invalid /\ life[x].first <= k + 1 /\ k + 1 <= life[x].last
  <2>1. /\ \E k \in 1 .. n + 1 : x \in L[k].names
        /\ \A k \in 1 .. n + 1 : x \in L[k].names => ~L[k].invalid
    BY <1>4 DEF SharedNames, UsedNames, InvalidNames
  <2>2. 1 \in 1 .. n + 1 /\ \A k \in 1 .. n : k + 1 \in 1 .. n + 1
    BY <1>1
  <2>3. x # 0
    BY <1>4, <1>5, <2>1, <2>2
  <2>4. PICK m \in 1 .. n + 1 : x \in L[m].names
    BY <2>1
  <2>5. m # 1
    BY <1>4, <1>5, <2>1, <2>4
  <2>6. x \in Names(net)
    <3>1. m - 1 \in 1 .. n /\ (m - 1) + 1 = m
      BY <1>1, <2>5
    <3>2. x \in Uses(sched[m - 1]).names /\ StatementOK(sched[m - 1])
      BY <1>1, <1>4, <2>4, <3>1 DEF StatementsOK
    <3> QED
      BY <3>2, StatementNames
  <2>7. n + 1 \in Nat
    BY <1>1
  <2>8. life[x].first \in Nat /\ life[x].last \in Nat
    BY <1>4, <1>7, <2>4, <2>7, LifetimeCovers
  <2>9. ASSUME NEW k \in 1 .. n, x \in Uses(sched[k]).names
        PROVE  ~Uses(sched[k]).invalid /\ life[x].first <= k + 1 /\ k + 1 <= life[x].last
    <3>1. k + 1 \in 1 .. n + 1 /\ x \in L[k + 1].names
      BY <1>4, <2>2, <2>9
    <3>2. ~Uses(sched[k]).invalid
      BY <1>4, <2>1, <3>1
    <3>3. life[x].first <= k + 1 /\ k + 1 <= life[x].last
      BY <1>4, <1>7, <2>7, <3>1, LifetimeCovers
    <3> QED
      BY <3>2, <3>3
  <2> QED
    BY <2>3, <2>6, <2>8, <2>9
<1>9. LivesOK(life)
  BY <1>7, <1>8 DEF LivesOK, n
<1> QED
  BY <1>9 DEF life, L, T

-----------------------------------------------------------------------------
(* One run of the program.                                                 *)

Values == {Unwritten, 0} \cup Ops(net)
Runs == [mem : [Names(net) -> Values], wrong : SUBSET (Ops(net) \X Names(net))]
RunStep(acc, i) ==
    [mem |-> [acc.mem EXCEPT ![Renaming(plan, net[i].out)] = i],
     wrong |-> acc.wrong \cup Misreads(acc.mem, i)]

\* The memory and the misread names after the first k operators.
RunsAs(r, ops, m) ==
    /\ r[0] = [mem |-> m, wrong |-> {}] /\ RunOps(ops, m) = r[Len(ops)]
    /\ \A k \in 0 .. Len(ops) : r[k] \in Runs
    /\ \A k \in 1 .. Len(ops) : r[k] = RunStep(r[k - 1], ops[k])

LEMMA OperatorNames ==
    ASSUME net \in Networks, NEW i \in Ops(net)
    PROVE  /\ net[i].out \in Names(net) /\ net[i].out # 0 /\ net[i].ins \subseteq Names(net)
           /\ i \in Nat /\ i # 0
<1>1. IsNetwork(net) /\ Len(net) \in Nat
  BY NodesFacts, NetworkLength
<1>2. /\ net[i].out # 0
      /\ net[i].ins \subseteq {0} \cup {net[j].out : j \in 1 .. i - 1}
  <2>1. net[i] \in Operators /\ net[i].ins \subseteq {0} \cup {net[j].out : j \in 1 .. i - 1}
    BY <1>1, NetworkLength
  <2> QED
    BY <2>1 DEF Operators
<1>3. i \in Nat /\ i # 0 /\ \A j \in 1 .. i - 1 : j \in Ops(net)
  BY <1>1 DEF Ops
<1> QED
  BY <1>2, <1>3 DEF Names

LEMMA RunStepType ==
    ASSUME net \in Networks, NEW acc \in Runs, NEW i \in Ops(net)
    PROVE  RunStep(acc, i) \in Runs
<1> DEFINE m == [acc.mem EXCEPT ![Renaming(plan, net[i].out)] = i]
           w == acc.wrong \cup Misreads(acc.mem, i)
<1>1. acc.mem \in [Names(net) -> Values] /\ acc.wrong \subseteq Ops(net) \X Names(net)
  BY DEF Runs
<1>2. i \in Values /\ net[i].ins \subseteq Names(net)
  BY OperatorNames DEF Values
<1>3. m \in [Names(net) -> Values]
  BY <1>1, <1>2
<1>4. w \subseteq Ops(net) \X Names(net)
  BY <1>1, <1>2 DEF Misreads
<1> HIDE DEF m, w
<1>5. [mem |-> m, wrong |-> w] \in Runs
  BY <1>3, <1>4 DEF Runs
<1> QED
  BY <1>5 DEF RunStep, m, w

\* A statement's operators one after the other.
LEMMA RunSteps ==
    ASSUME net \in Networks, NEW ops \in Seq(Ops(net)), NEW m \in [Names(net) -> Values]
    PROVE  \E r : RunsAs(r, ops, m)
<1> DEFINE n == Len(ops)
           X == Ops(net)
           A == Runs
           base == [mem |-> m, wrong |-> {}]
           f == [t \in A \X X |-> RunStep(t[1], t[2])]
<1>1. n \in Nat /\ DOMAIN ops = 1 .. n /\ ops \in [1 .. n -> X]
  OBVIOUS
<1>2. base \in A
  BY DEF Runs
<1>3. f \in [A \X X -> A] /\ \A acc \in A : \A i \in X : f[<<acc, i>>] = RunStep(acc, i)
  <2>1. \A acc \in A : \A i \in X : RunStep(acc, i) \in A
    BY RunStepType
  <2> HIDE DEF A, X
  <2> QED
    BY <2>1
<1> HIDE DEF f
<1> DEFINE Eq(g) == g = [s \in SUBSET DOMAIN ops |->
                          IF s = {} THEN base ELSE RunStep(g[s \ {Max(s)}], ops[Max(s)])]
           U == CHOOSE g : Eq(g)
<1>4. RunOps(ops, m) = U[DOMAIN ops]
  BY DEF RunOps, FoldLeft, MapThenFoldSet, RunStep
<1> HIDE DEF A, X, base, n
<1>5. PICK it : FoldedBy(it, A, f, base, n, ops)
  BY <1>1, <1>2, <1>3, FoldExists
<1>6. Eq(it)
  <2>1. it \in [SUBSET (1 .. n) -> A]
    BY <1>5 DEF FoldedBy
  <2>2. ASSUME NEW s \in SUBSET (1 .. n)
        PROVE  it[s] = IF s = {} THEN base ELSE RunStep(it[s \ {Max(s)}], ops[Max(s)])
    <3>1. it[s] = IF s = {} THEN base ELSE f[<<it[s \ {Max(s)}], ops[Max(s)]>>]
      BY <1>5 DEF FoldedBy
    <3>2. CASE s # {}
      <4>1. Max(s) \in 1 .. n /\ s \ {Max(s)} \in SUBSET (1 .. n)
        BY <1>1, <3>2, MaxIsIn
      <4>2. it[s \ {Max(s)}] \in A /\ ops[Max(s)] \in X
        BY <1>1, <2>1, <4>1
      <4> QED
        BY <1>3, <3>1, <3>2, <4>2
    <3> QED
      BY <3>1, <3>2
  <2> QED
    BY <1>1, <2>1, <2>2
<1>7. Eq(U)
  BY <1>6, Zenon
<1> HIDE DEF U
<1>8. U[{}] = base
  BY <1>7
<1>9. ASSUME NEW s \in SUBSET (1 .. n), s # {}, U[s \ {Max(s)}] \in A
      PROVE  U[s] = f[<<U[s \ {Max(s)}], ops[Max(s)]>>]
  <2>1. Max(s) \in 1 .. n /\ ops[Max(s)] \in X
    BY <1>1, <1>9, MaxIsIn
  <2>2. U[s] = RunStep(U[s \ {Max(s)}], ops[Max(s)])
    BY <1>1, <1>7, <1>9
  <2> QED
    BY <1>3, <1>9, <2>1, <2>2
<1> HIDE DEF Eq
<1>10. FoldRuns(U, A, f, base, n, ops)
  BY <1>1, <1>2, <1>3, <1>8, <1>9, FoldResult
<1>11. /\ \A k \in 0 .. n : U[1 .. k] \in A
       /\ U[1 .. 0] = base /\ \A k \in 1 .. n : U[1 .. k] = f[<<U[1 .. k - 1], ops[k]>>]
  BY <1>10 DEF FoldRuns
<1>12. \A k \in 1 .. n : U[1 .. k] = RunStep(U[1 .. k - 1], ops[k])
  <2> SUFFICES ASSUME NEW k \in 1 .. n PROVE U[1 .. k] = RunStep(U[1 .. k - 1], ops[k])
    OBVIOUS
  <2>1. k - 1 \in 0 .. n
    BY <1>1
  <2>2. U[1 .. k - 1] \in A /\ ops[k] \in X
    BY <1>1, <1>11, <2>1
  <2> QED
    BY <1>3, <1>11, <2>2
<1> DEFINE r == [k \in 0 .. n |-> U[1 .. k]]
<1>13. \A k \in 1 .. n : k \in 0 .. n /\ k - 1 \in 0 .. n
  BY <1>1
<1>14. r[0] = base /\ RunOps(ops, m) = r[n] /\ \A k \in 0 .. n : r[k] \in A
  BY <1>1, <1>4, <1>11
<1>15. \A k \in 1 .. n : r[k] = RunStep(r[k - 1], ops[k])
  BY <1>12, <1>13
<1> HIDE DEF r
<1>16. RunsAs(r, ops, m)
  BY <1>14, <1>15 DEF RunsAs, A, base, n
<1> QED
  BY <1>16

-----------------------------------------------------------------------------
(* Nobody overwrites what will be read.                                    *)

\* The name under which operator i reads variable v.
LEMMA NameOfProducer ==
    ASSUME net \in Networks, NEW i \in Ops(net), NEW y \in net[i].ins
    PROVE  /\ NameOf(net, Producer(net, i, y)) = y /\ Producer(net, i, y) \in 0 .. i - 1
           /\ y # 0 => Producer(net, i, y) \in Ops(net)
<1>1. IsNetwork(net) /\ Len(net) \in Nat
  BY NodesFacts, NetworkLength
<1>2. i \in 1 .. Len(net) /\ y \in {0} \cup {net[j].out : j \in 1 .. i - 1}
  BY <1>1, NetworkLength DEF Ops
<1> DEFINE W == {j \in 1 .. i - 1 : net[j].out = y}
           p == Producer(net, i, y)
<1>3. p \in 0 .. i - 1
  BY <1>1, ProducerBefore
<1>4. CASE W = {}
  <2>1. y = 0 /\ p = 0
    BY <1>2, <1>4 DEF Producer
  <2> QED
    BY <1>3, <2>1 DEF NameOf
<1>5. CASE W # {}
  <2>1. W \in SUBSET Nat /\ i - 1 \in Nat /\ \A x \in W : x <= i - 1
    BY <1>2
  <2>2. \E x \in W : \A k \in W : k <= x
    BY <1>5, <2>1, LargestNatural
  <2>3. p = CHOOSE j \in W : \A k \in W : k <= j
    BY <1>5 DEF Producer
  <2> HIDE DEF p
  <2>4. p \in W
    <3> HIDE DEF W
    <3> QED
      BY <2>2, <2>3
  <2>5. p \in Ops(net) /\ p # 0 /\ net[p].out = y
    BY <1>1, <1>2, <2>4 DEF Ops
  <2> QED
    BY <1>3, <2>5 DEF NameOf, p
<1> QED
  BY <1>4, <1>5

\* Nothing is computed from a fetch.
LEMMA NobodyReadsAFetch ==
    ASSUME net \in Networks, NEW i \in Ops(net), NEW j \in FetchOps(net)
    PROVE  j \notin VarsRead(net, i) /\ j \notin DependsOn(net)[i]
<1>1. /\ IsNetwork(net) /\ Len(net) \in Nat /\ j \in Ops(net) /\ j # 0
      /\ \A k \in Ops(net) : net[j].out \notin net[k].ins
  <2>1. IsNetwork(net) /\ Len(net) \in Nat
    BY NodesFacts, NetworkLength
  <2> QED
    BY <2>1 DEF IsNetwork, FetchOps, Ops
<1>2. ASSUME NEW k \in Ops(net), j \in VarsRead(net, k) PROVE FALSE
  <2>1. PICK y \in net[k].ins : j = Producer(net, k, y)
    BY <1>2 DEF VarsRead
  <2>2. net[j].out = y
    BY <1>1, <2>1, NameOfProducer DEF NameOf
  <2> QED
    BY <1>1, <2>1, <2>2
<1> DEFINE T == {n \in Nat : \A k \in Ops(net) : k <= n => j \notin DependsOn(net)[k]}
<1>3. 0 \in T
  BY <1>1 DEF Ops
<1>4. ASSUME NEW n \in Nat, n \in T PROVE n + 1 \in T
  <2> SUFFICES ASSUME NEW k \in Ops(net), k <= n + 1, j \in DependsOn(net)[k] PROVE FALSE
    OBVIOUS
  <2>1. PICK w \in VarsRead(net, k) \ {0} : j = w \/ j \in DependsOn(net)[w]
    BY <1>1, DependsOnIs
  <2>2. w \in 0 .. k - 1 /\ k \in 1 .. Len(net)
    BY <1>1, <2>1, VarsReadBefore DEF Ops
  <2>3. w \in Ops(net) /\ w <= n
    BY <1>1, <2>1, <2>2 DEF Ops
  <2>4. j \notin DependsOn(net)[w]
    BY <1>4, <2>3
  <2> QED
    BY <1>2, <2>1, <2>4
<1> HIDE DEF T
<1>5. i \in T /\ i \in Nat
  <2>1. i \in Nat
    BY <1>1 DEF Ops
  <2> QED
    BY <1>3, <1>4, <2>1, InductiveSet
<1> QED
  BY <1>2, <1>5 DEF T

NeverTogether(life, x, y) ==
    x \in DOMAIN life /\ y \in DOMAIN life /\ ~Overlap(life[x], life[y])

\* Two names in one memory take part in the plan and are never in use together.
LEMMA SharingIsDisjoint ==
    ASSUME NEW life, Disjoint(life, plan), NEW x, NEW y, x # y, Renaming(plan, x) = Renaming(plan, y)
    PROVE  NeverTogether(life, x, y)
BY DEF Disjoint, Renaming, NeverTogether

LEMMA RenamingType ==
    ASSUME LivesOK(lifecycles), Disjoint(lifecycles, plan), NEW x \in Names(net)
    PROVE  Renaming(plan, x) \in Names(net) /\ Renaming(plan, 0) = 0
BY DEF LivesOK, Disjoint, Renaming

ProgramOK ==
    /\ net \in Networks /\ StatementsOK(stmts) /\ ScheduledOK
    /\ LivesOK(lifecycles) /\ Disjoint(lifecycles, plan)

LEMMA ScheduledStatements ==
    ASSUME StatementsOK(stmts), ScheduledOK
    PROVE  \A k \in 1 .. Len(sched) : sched[k] \in stmts /\ StatementOK(sched[k])
<1>1. sched \in Seq(stmts) /\ \A s \in stmts : StatementOK(s)
  BY DEF StatementsOK, ScheduledOK, IsSchedule
<1>2. \A k \in 1 .. Len(sched) : sched[k] \in stmts
  BY <1>1
<1> QED
  BY <1>1, <1>2

\* Variable v is what operator i reads; another operator j that writes to the same memory
\* runs before v's operator, is i, or runs after it.  After a fetch there is none.
LEMMA Overwriting ==
    ASSUME ProgramOK, WritesOrdered, NEW P, Positions(P),
           NEW i \in Ops(net), NEW y \in net[i].ins, NEW v, v = Producer(net, i, y),
           NEW j \in Ops(net), j # v, j # i, Renaming(plan, net[j].out) = Renaming(plan, y)
    PROVE  \/ i \in DependsOn(net)[j]
           \/ v \in Ops(net) /\ j \in DependsOn(net)[v]
           \/ v \in Ops(net) /\ (P[j] < P[v] \/ (P[i] < P[j] /\ i \notin FetchOps(net)))
<1>1. /\ net \in Networks /\ StatementsOK(stmts) /\ ScheduledOK
      /\ LivesOK(lifecycles) /\ Disjoint(lifecycles, plan)
  BY DEF ProgramOK
<1>2. /\ NameOf(net, v) = y /\ v \in 0 .. i - 1 /\ (y # 0 => v \in Ops(net))
      /\ net[j].out # 0 /\ j \in Nat /\ i \in Nat /\ v \in Nat
  <2>1. NameOf(net, v) = y /\ v \in 0 .. i - 1 /\ (y # 0 => v \in Ops(net))
    BY <1>1, NameOfProducer
  <2> QED
    BY <1>1, <2>1, OperatorNames
<1>3. CASE net[j].out = y
  <2>1. v \in Ops(net) /\ net[v].out = y
    <3>1. v \in Ops(net) /\ v # 0
      BY <1>1, <1>2, <1>3, OperatorNames
    <3> QED
      BY <1>2, <3>1 DEF NameOf
  <2>2. CASE v < j
    <3>1. net[j].out \in net[i].ins /\ Producer(net, i, net[j].out) < j
      BY <1>3, <2>2
    <3> QED
      BY <3>1 DEF WritesOrdered
  <2>3. CASE j < v
    <3>1. net[v].out = net[j].out /\ j \in Ops(net) \ {v}
      BY <1>3, <2>1
    <3> QED
      BY <2>1, <2>3, <3>1 DEF WritesOrdered
  <2> QED
    BY <1>2, <2>2, <2>3
<1>4. CASE net[j].out # y
  <2> DEFINE x == net[j].out
             s == sched[P[i]]
             t == sched[P[v]]
             u == sched[P[j]]
  <2>1. x \in DOMAIN lifecycles /\ y \in DOMAIN lifecycles
        /\ ~Overlap(lifecycles[x], lifecycles[y])
    <3>1. NeverTogether(lifecycles, x, y)
      BY <1>1, <1>4, SharingIsDisjoint
    <3> QED
      BY <3>1 DEF NeverTogether
  <2>2. v \in Ops(net) /\ v # 0
    <3>1. y # 0
      BY <1>1, <2>1 DEF LivesOK
    <3> QED
      BY <1>1, <1>2, <3>1, OperatorNames
  <2>3. /\ P[i] \in 1 .. Len(sched) /\ P[v] \in 1 .. Len(sched) /\ P[j] \in 1 .. Len(sched)
        /\ i \in Inside(s.ops) /\ v \in Inside(t.ops) /\ j \in Inside(u.ops)
    BY <2>2 DEF Positions
  <2>4. StatementOK(s) /\ StatementOK(t) /\ StatementOK(u)
    BY <1>1, <2>3, ScheduledStatements
  <2>5. \A w : \A q \in w.ins \cup w.outs \cup w.kept : NameOf(net, q) \in Uses(w).names
    BY DEF Uses
  <2>6. NameOf(net, v) = y /\ NameOf(net, j) = x
    <3>1. j # 0
      BY <1>1, OperatorNames
    <3> QED
      BY <1>2, <3>1 DEF NameOf
  <2> HIDE DEF x, s, t, u
  <2>7. x \in Uses(u).names /\ y \in Uses(t).names
    BY <2>3, <2>4, <2>5, <2>6 DEF StatementOK
  <2>8. y \in Uses(s).names
    <3>1. v \in VarsRead(net, i)
      BY DEF VarsRead
    <3>2. v \in s.ins \cup s.outs \cup s.kept
      BY <2>3, <2>4, <3>1 DEF StatementOK
    <3> QED
      BY <2>5, <2>6, <3>2
  <2>9. /\ lifecycles[x].first \in Nat /\ lifecycles[x].last \in Nat
        /\ lifecycles[y].first \in Nat /\ lifecycles[y].last \in Nat
        /\ lifecycles[x].first <= P[j] + 1 /\ P[j] + 1 <= lifecycles[x].last
        /\ lifecycles[y].first <= P[v] + 1 /\ P[i] + 1 <= lifecycles[y].last
    BY <1>1, <2>1, <2>3, <2>7, <2>8 DEF LivesOK, s, t, u
  <2>12. i \notin FetchOps(net)
    <3>1. ~Uses(s).invalid
      BY <1>1, <2>1, <2>3, <2>8 DEF LivesOK, s
    <3>2. s.ops \in Seq(Ops(net)) /\ Len(s.ops) = 1 /\ net[s.ops[1]].type # "fetch"
      BY <2>4, <3>1 DEF Uses, StatementOK
    <3>3. i = s.ops[1]
      BY <2>3, <3>2 DEF Inside
    <3> QED
      BY <3>2, <3>3 DEF FetchOps
  <2>10. ~(lifecycles[y].last >= lifecycles[x].first /\ lifecycles[x].last >= lifecycles[y].first)
    BY <2>1 DEF Overlap
  <2>11. P[j] < P[v] \/ P[i] < P[j]
    <3>1. P[i] \in Int /\ P[v] \in Int /\ P[j] \in Int
      BY <2>3
    <3> QED
      BY <2>9, <2>10, <3>1
  <2> QED
    BY <2>2, <2>11, <2>12
<1> QED
  BY <1>3, <1>4

\* Before the statement at position k runs, the memory m holds every variable that is there
\* already and still to be read: by a later statement, or by the user at the end.
Written(P, v, k) == v = 0 \/ (v \in Ops(net) /\ P[v] < k)
MemoryOK(P, m, k) ==
    \A i \in Ops(net) : P[i] >= k \/ i \in FetchOps(net) =>
        \A y \in net[i].ins :
            Written(P, Producer(net, i, y), k) =>
                m[Renaming(plan, y)] = Producer(net, i, y)

\* The same for the memory m before operator k of the statement at pos.
Pending(P, ops, i, k) ==
    P[i] > pos \/ i \in FetchOps(net) \/ \E l \in 1 .. Len(ops) : l >= k /\ ops[l] = i
Present(P, ops, v, k) ==
    v = 0 \/ (v \in Ops(net) /\ (P[v] < pos \/ \E l \in 1 .. Len(ops) : l < k /\ ops[l] = v))
MidwayOK(P, ops, m, k) ==
    \A i \in Ops(net) : Pending(P, ops, i, k) =>
        \A y \in net[i].ins :
            Present(P, ops, Producer(net, i, y), k) =>
                m[Renaming(plan, y)] = Producer(net, i, y)

\* The statement at pos.
CurrentOK(P, ops) ==
    /\ ~Fetches(sched[pos]) => Inside(ops) \cap FetchOps(net) = {}
    /\ ops \in Seq(Ops(net)) /\ Len(ops) \in Nat /\ StatementOK(sched[pos])
    /\ \A k \in 1 .. Len(ops) : ops[k] \in Ops(net) /\ P[ops[k]] = pos
    /\ \A i \in Ops(net) : P[i] = pos => \E k \in 1 .. Len(ops) : ops[k] = i
    /\ \A a, b \in 1 .. Len(ops) : a < b => ops[a] # ops[b] /\ ops[b] \notin DependsOn(net)[ops[a]]
    /\ P \in [Ops(net) -> Int] /\ pos \in Int

LEMMA CurrentStatement ==
    ASSUME ProgramOK, NEW P, Positions(P), pos \in 1 .. Len(sched), NEW ops, ops = sched[pos].ops
    PROVE  CurrentOK(P, ops)
<1>1. StatementOK(sched[pos])
  BY ScheduledStatements DEF ProgramOK
<1>2. /\ ops \in Seq(Ops(net))
      /\ \A a, b \in 1 .. Len(ops) : a < b => ops[a] # ops[b] /\ ops[b] \notin DependsOn(net)[ops[a]]
  BY <1>1 DEF StatementOK
<1>3. Inside(ops) = {ops[k] : k \in 1 .. Len(ops)}
  BY <1>2 DEF Inside
<1>4. \A i \in Ops(net) : i \in Inside(ops) <=> pos = P[i]
  BY DEF Positions
<1>5. \A k \in 1 .. Len(ops) : ops[k] \in Ops(net)
  BY <1>2
<1>6. P \in [Ops(net) -> Int] /\ pos \in Int
  <2>1. P \in [Ops(net) -> 1 .. Len(sched)]
    BY DEF Positions
  <2> QED
    BY <2>1
<1>7. Len(ops) \in Nat
  BY <1>2
<1>8. ~Fetches(sched[pos]) => Inside(ops) \cap FetchOps(net) = {}
  <2>1. sched[pos].sub \/ Inside(ops) = {ops[1]}
    BY <1>1, <1>3 DEF StatementOK
  <2> QED
    BY <1>1, <2>1 DEF StatementOK, Fetches, FetchOps
<1> QED
  BY <1>1, <1>2, <1>3, <1>4, <1>5, <1>6, <1>7, <1>8 DEF CurrentOK

\* What memory holds before the statement, before its first operator.
LEMMA MidwayBegins ==
    ASSUME ProgramOK, NEW P, Positions(P), pos \in 1 .. Len(sched), NEW ops, ops = sched[pos].ops,
           MemoryOK(P, mem, pos)
    PROVE  MidwayOK(P, ops, mem, 1)
<1>1. /\ Len(ops) \in Nat /\ \A k \in 1 .. Len(ops) : ops[k] \in Ops(net) /\ P[ops[k]] = pos
      /\ P \in [Ops(net) -> Int] /\ pos \in Int
  BY CurrentStatement DEF CurrentOK
<1> SUFFICES ASSUME NEW i \in Ops(net), Pending(P, ops, i, 1), NEW y \in net[i].ins,
                    Present(P, ops, Producer(net, i, y), 1)
             PROVE  mem[Renaming(plan, y)] = Producer(net, i, y)
  BY DEF MidwayOK
<1>2. P[i] >= pos \/ i \in FetchOps(net)
  BY <1>1 DEF Pending
<1>3. Written(P, Producer(net, i, y), pos)
  BY <1>1 DEF Present, Written
<1> QED
  BY <1>2, <1>3 DEF MemoryOK

\* One operator leaves what later ones will read, and reads what it should.
StepOK(P, ops, acc, k) ==
    /\ MidwayOK(P, ops, RunStep(acc, ops[k]).mem, k + 1)
    /\ RunStep(acc, ops[k]).wrong = acc.wrong

LEMMA MidwayStep ==
    ASSUME ProgramOK, WritesOrdered, NEW P, Positions(P), pos \in 1 .. Len(sched),
           NEW ops, ops = sched[pos].ops, ~Fetches(sched[pos]),
           NEW k \in 1 .. Len(ops), NEW acc \in Runs,
           MidwayOK(P, ops, acc.mem, k)
    PROVE  StepOK(P, ops, acc, k)
<1> DEFINE j == ops[k]
           m == RunStep(acc, j).mem
<1>0. /\ net \in Networks /\ LivesOK(lifecycles) /\ Disjoint(lifecycles, plan)
  BY DEF ProgramOK
<1>1. /\ ops \in Seq(Ops(net)) /\ Len(ops) \in Nat
      /\ \A l \in 1 .. Len(ops) : ops[l] \in Ops(net) /\ P[ops[l]] = pos
      /\ \A i \in Ops(net) : P[i] = pos => \E l \in 1 .. Len(ops) : ops[l] = i
      /\ \A a, b \in 1 .. Len(ops) : a < b => ops[a] # ops[b] /\ ops[b] \notin DependsOn(net)[ops[a]]
      /\ P \in [Ops(net) -> Int] /\ pos \in Int
  <2>1. CurrentOK(P, ops)
    BY CurrentStatement
  <2> QED
    BY <2>1, Zenon DEF CurrentOK
<1>2. j \in Ops(net) /\ P[j] = pos /\ net[j].out \in Names(net) /\ j \notin FetchOps(net)
  <2>1. Inside(ops) \cap FetchOps(net) = {}
    BY CurrentStatement DEF CurrentOK
  <2>2. j \in Inside(ops)
    BY <1>1 DEF Inside
  <2> QED
    BY <1>0, <1>1, <2>1, <2>2, OperatorNames
<1>3. acc.mem \in [Names(net) -> Values]
  BY DEF Runs
<1>4. m = [acc.mem EXCEPT ![Renaming(plan, net[j].out)] = j]
  BY DEF RunStep
<1>5. RunStep(acc, j).wrong = acc.wrong \cup
        {<<j, x>> : x \in {y \in net[j].ins : acc.mem[Renaming(plan, y)] # Producer(net, j, y)}}
  BY DEF RunStep, Misreads
<1> HIDE DEF m, j
<1>6. \A i \in Ops(net) : \A v \in DependsOn(net)[i] : v \in Ops(net) /\ P[v] <= P[i]
  BY Zenon DEF Positions
<1>7. MidwayOK(P, ops, m, k + 1)
  <2> SUFFICES ASSUME NEW i \in Ops(net), Pending(P, ops, i, k + 1), NEW y \in net[i].ins,
                      Present(P, ops, Producer(net, i, y), k + 1)
               PROVE  m[Renaming(plan, y)] = Producer(net, i, y)
    BY DEF MidwayOK
  <2> DEFINE v == Producer(net, i, y)
  <2>1. Renaming(plan, y) \in Names(net) /\ Renaming(plan, net[j].out) \in Names(net)
    BY <1>0, <1>2, OperatorNames, RenamingType
  <2>2. NameOf(net, v) = y /\ v \in 0 .. i - 1
    BY <1>0, NameOfProducer
  <2>3. CASE v = j
    <3>1. y = net[j].out
      <4>1. j # 0
        BY <1>0, <1>2, OperatorNames
      <4> QED
        BY <2>2, <2>3, <4>1 DEF NameOf
    <3> QED
      BY <1>3, <1>4, <2>1, <2>3, <3>1
  <2>4. CASE v # j
    <3> HIDE DEF v
    <3>1. Pending(P, ops, i, k) /\ i # j
      <4>1. \A l \in 1 .. Len(ops) : l >= k + 1 => l >= k /\ ops[l] # j
        BY <1>1 DEF j
      <4>2. P[i] > pos \/ i \in FetchOps(net) => i # j
        BY <1>2
      <4> QED
        BY <4>1, <4>2 DEF Pending
    <3>2. Present(P, ops, v, k)
      <4>1. \A l \in 1 .. Len(ops) : l < k + 1 /\ ops[l] = v => l < k
        BY <1>1, <2>4 DEF j
      <4> QED
        BY <4>1 DEF Present, v
    <3>3. acc.mem[Renaming(plan, y)] = v
      BY <3>1, <3>2 DEF MidwayOK, v
    <3>4. Renaming(plan, net[j].out) # Renaming(plan, y)
      <4> SUFFICES ASSUME Renaming(plan, net[j].out) = Renaming(plan, y) PROVE FALSE
        OBVIOUS
      <4>1. \/ i \in DependsOn(net)[j]
            \/ v \in Ops(net) /\ j \in DependsOn(net)[v]
            \/ v \in Ops(net) /\ (P[j] < P[v] \/ (P[i] < P[j] /\ i \notin FetchOps(net)))
        BY <1>2, <2>4, <3>1, Overwriting DEF v
      <4>2. P[i] >= pos \/ i \in FetchOps(net)
        <5>1. P[i] > pos \/ i \in FetchOps(net) \/ P[i] = pos
          BY <1>1, <3>1 DEF Pending
        <5> QED
          BY <1>1, <5>1
      <4>3. v \in Ops(net) => P[v] <= pos
        <5>1. 0 \notin Ops(net)
          BY DEF Ops
        <5> QED
          BY <1>1, <3>2, <5>1 DEF Present
      <4>4. i \notin DependsOn(net)[j]
        <5>1. CASE P[i] > pos
          BY <1>1, <1>2, <1>6, <5>1
        <5>2. CASE \E l \in 1 .. Len(ops) : l >= k + 1 /\ ops[l] = i
          BY <1>1, <5>2 DEF j
        <5>3. CASE i \in FetchOps(net)
          BY <1>0, <1>2, <5>3, NobodyReadsAFetch
        <5> QED
          BY <5>1, <5>2, <5>3 DEF Pending
      <4>5. v \in Ops(net) => j \notin DependsOn(net)[v]
        <5>1. CASE v \in Ops(net) /\ P[v] < pos
          BY <1>1, <1>2, <1>6, <5>1
        <5>2. CASE \E l \in 1 .. Len(ops) : l < k /\ ops[l] = v
          BY <1>1, <5>2 DEF j
        <5>3. 0 \notin Ops(net)
          BY DEF Ops
        <5> QED
          BY <3>2, <5>1, <5>2, <5>3 DEF Present
      <4> QED
        BY <1>1, <1>2, <4>1, <4>2, <4>3, <4>4, <4>5
    <3> QED
      BY <1>3, <1>4, <2>1, <3>3, <3>4 DEF v
  <2> QED
    BY <2>3, <2>4
<1>8. ASSUME NEW y \in net[j].ins PROVE acc.mem[Renaming(plan, y)] = Producer(net, j, y)
  <2> DEFINE v == Producer(net, j, y)
  <2>1. Pending(P, ops, j, k)
    BY DEF Pending, j
  <2>2. v \in 0 .. j - 1
    BY <1>0, <1>2, NameOfProducer
  <2>3. v \in VarsRead(net, j)
    BY DEF VarsRead
  <2> HIDE DEF v
  <2>4. CASE v = 0
    <3>1. Present(P, ops, v, k)
      BY <2>4 DEF Present
    <3> QED
      BY <1>2, <2>1, <3>1 DEF MidwayOK, v
  <2>5. CASE v # 0
    <3>1. IsNetwork(net)
      BY <1>0, NodesFacts
    <3>2. v \in DependsOn(net)[j]
      BY <1>2, <2>3, <2>5, <3>1, DependsOnReads
    <3>3. v \in Ops(net) /\ P[v] <= pos
      BY <1>2, <1>6, <3>2
    <3>4. CASE P[v] < pos
      <4>1. Present(P, ops, v, k)
        BY <3>3, <3>4 DEF Present
      <4> QED
        BY <1>2, <2>1, <4>1 DEF MidwayOK, v
    <3>5. CASE P[v] = pos
      <4>1. PICK l \in 1 .. Len(ops) : ops[l] = v
        BY <1>1, <3>3, <3>5
      <4>2. v # j
        BY <1>0, <1>2, <2>2, OperatorNames
      <4>3. l < k
        BY <1>1, <3>2, <4>1, <4>2 DEF j
      <4>4. Present(P, ops, v, k)
        BY <3>3, <4>1, <4>3 DEF Present
      <4> QED
        BY <1>2, <2>1, <4>4 DEF MidwayOK, v
    <3> QED
      BY <1>1, <3>3, <3>4, <3>5
  <2> QED
    BY <2>4, <2>5
<1>9. RunStep(acc, j).wrong = acc.wrong
  BY <1>5, <1>8
<1> QED
  BY <1>7, <1>9 DEF m, j, StepOK

\* The memory and what was misread, after every operator of a statement.
LEMMA StatementRuns ==
    ASSUME ProgramOK, WritesOrdered, NEW P, Positions(P), pos \in 1 .. Len(sched),
           NEW ops, ops = sched[pos].ops, ~Fetches(sched[pos]),
           NEW r, RunsAs(r, ops, mem), MemoryOK(P, mem, pos)
    PROVE  \A k \in 0 .. Len(ops) : MidwayOK(P, ops, r[k].mem, k + 1) /\ r[k].wrong = {}
<1> DEFINE n == Len(ops)
           T == {k \in Nat : k \in 0 .. n => MidwayOK(P, ops, r[k].mem, k + 1) /\ r[k].wrong = {}}
<1>1. n \in Nat
  BY CurrentStatement DEF CurrentOK
<1>2. 0 \in T
  <2>1. r[0].mem = mem /\ r[0].wrong = {}
    BY DEF RunsAs
  <2>2. MidwayOK(P, ops, mem, 0 + 1)
    BY MidwayBegins
  <2> QED
    BY <2>1, <2>2
<1>3. ASSUME NEW k \in Nat, k \in T PROVE k + 1 \in T
  <2> SUFFICES ASSUME k + 1 \in 0 .. n
               PROVE  MidwayOK(P, ops, r[k + 1].mem, k + 1 + 1) /\ r[k + 1].wrong = {}
    OBVIOUS
  <2>1. k \in 0 .. n /\ k + 1 \in 1 .. n /\ (k + 1) - 1 = k
    BY <1>1
  <2>2. r[k] \in Runs /\ MidwayOK(P, ops, r[k].mem, k + 1) /\ r[k].wrong = {}
    BY <1>3, <2>1 DEF RunsAs
  <2>3. r[k + 1] = RunStep(r[k], ops[k + 1])
    BY <2>1 DEF RunsAs
  <2>4. StepOK(P, ops, r[k], k + 1)
    BY <2>1, <2>2, MidwayStep
  <2> QED
    BY <2>2, <2>3, <2>4 DEF StepOK
<1> HIDE DEF T
<1>4. \A k \in Nat : k \in T
  BY <1>2, <1>3, InductiveSet
<1> QED
  BY <1>1, <1>4 DEF T

\* What a statement leaves: a subgraph only what is read outside it.
Left(m, q, s) ==
    LET written == {Renaming(plan, NameOf(net, v)) : v \in s.outs}
    IN  [x \in DOMAIN m |-> IF x \in written THEN q[x] ELSE m[x]]

\* What a statement leaves is what later ones will read.
LEMMA StatementEnds ==
    ASSUME ProgramOK, WritesOrdered, NEW P, Positions(P), pos \in 1 .. Len(sched),
           NEW ops, ops = sched[pos].ops, ~Fetches(sched[pos]),
           mem \in [Names(net) -> Values], MemoryOK(P, mem, pos),
           NEW q \in [Names(net) -> Values], MidwayOK(P, ops, q, Len(ops) + 1)
    PROVE  MemoryOK(P, Left(mem, q, sched[pos]), pos + 1)
<1> DEFINE s == sched[pos]
           m == Left(mem, q, s)
           written == {Renaming(plan, NameOf(net, v)) : v \in s.outs}
<1>1. /\ net \in Networks /\ LivesOK(lifecycles) /\ Disjoint(lifecycles, plan)
  BY DEF ProgramOK
<1>2. /\ StatementOK(s) /\ Len(ops) \in Nat /\ P \in [Ops(net) -> Int] /\ pos \in Int
      /\ \A i \in Ops(net) : P[i] = pos => \E l \in 1 .. Len(ops) : ops[l] = i
  BY CurrentStatement DEF CurrentOK
<1>3. /\ \A i \in Ops(net) : i \in Inside(ops) <=> pos = P[i]
      /\ Inside(ops) \cap FetchOps(net) = {}
  BY CurrentStatement DEF Positions, CurrentOK
<1> SUFFICES ASSUME NEW i \in Ops(net), P[i] >= pos + 1 \/ i \in FetchOps(net), NEW y \in net[i].ins,
                    Written(P, Producer(net, i, y), pos + 1)
             PROVE  m[Renaming(plan, y)] = Producer(net, i, y)
  BY DEF MemoryOK
<1> DEFINE v == Producer(net, i, y)
           x == Renaming(plan, y)
<1>4. x \in Names(net) /\ y \in Names(net)
  BY <1>1, OperatorNames, RenamingType
<1>5. m[x] = IF x \in written THEN q[x] ELSE mem[x]
  BY <1>4 DEF Left
<1>6. NameOf(net, v) = y
  BY <1>1, NameOfProducer
<1>7. /\ P[i] > pos \/ i \in FetchOps(net)
      /\ P[i] >= pos \/ i \in FetchOps(net)
      /\ P[i] # pos
  BY <1>2, <1>3
<1>8. v = 0 \/ (v \in Ops(net) /\ P[v] < pos) \/ (v \in Ops(net) /\ P[v] = pos)
  BY <1>2 DEF Written
<1>9. CASE x \in written
  <2>1. Pending(P, ops, i, Len(ops) + 1)
    BY <1>7 DEF Pending
  <2>2. \A l \in 1 .. Len(ops) : l < Len(ops) + 1
    BY <1>2
  <2>3. Present(P, ops, v, Len(ops) + 1)
    BY <1>2, <1>8, <2>2 DEF Present
  <2>4. q[x] = v
    BY <2>1, <2>3 DEF MidwayOK
  <2> QED
    BY <1>5, <1>9, <2>4
<1>10. CASE x \notin written
  <2>1. ~(v \in Ops(net) /\ P[v] = pos)
    <3> SUFFICES ASSUME v \in Ops(net), P[v] = pos PROVE FALSE
      OBVIOUS
    <3>1. v \in Inside(ops) /\ i \notin Inside(ops)
      BY <1>3, <1>7
    <3>2. i \in Readers(v)
      BY DEF Readers, VarsRead
    <3>3. v \in s.outs
      BY <1>2, <3>1, <3>2 DEF StatementOK
    <3>4. x \in written
      BY <1>6, <3>3
    <3> QED
      BY <1>10, <3>4
  <2>2. Written(P, v, pos)
    BY <1>8, <2>1 DEF Written
  <2>3. mem[x] = v
    BY <1>7, <2>2 DEF MemoryOK
  <2> QED
    BY <1>5, <1>10, <2>3
<1> QED
  BY <1>9, <1>10

-----------------------------------------------------------------------------
(* The invariant of the compiler and of the run.                           *)

Fused == {"schedule", "collect", "plan", "run", "done"}
CompilerInv ==
    /\ pc \in Fused => StatementsOK(stmts)
    /\ pc \in Fused \ {"schedule"} => ScheduledOK
    /\ pc \in {"plan", "run", "done"} => LivesOK(lifecycles)
    /\ pc \in {"run", "done"} => Disjoint(lifecycles, plan)

RunInv ==
    /\ pos \in 1 .. Len(sched) + 1 /\ Len(sched) \in Nat
    /\ mem \in [Names(net) -> Values]
    /\ wrong \subseteq Ops(net) \X Names(net)
    /\ pc \notin {"run", "done"} => pos = 1 /\ wrong = {} /\ mem[0] = 0
    /\ WritesOrdered =>
         /\ wrong = {}
         /\ pc = "run" => \A P : Positions(P) => MemoryOK(P, mem, pos)

\* The fed name is nobody's output.
LEMMA FedNames ==
    ASSUME net \in Networks
    PROVE  0 \in Names(net) /\ 0 \notin Ops(net) /\ Names(net) \ {0} = {net[i].out : i \in Ops(net)}
BY OperatorNames DEF Names, Ops

\* The compiler's invariant at first, and through each of its steps.
LEMMA CompilerBegins == Init => CompilerInv /\ RunInv
<1> SUFFICES ASSUME Init PROVE CompilerInv /\ RunInv
  OBVIOUS
<1>1. /\ net \in Networks /\ pc = "init" /\ sched = <<>> /\ pos = 1 /\ wrong = {}
      /\ mem = [x \in Names(net) |-> IF x = 0 THEN 0 ELSE Unwritten]
  BY DEF Init, DetectorInit
<1>2. CompilerInv
  BY <1>1 DEF CompilerInv, Fused
<1>3. mem \in [Names(net) -> Values] /\ mem[0] = 0
  BY <1>1, FedNames DEF Values
<1>4. Len(sched) = 0
  BY <1>1
<1> QED
  BY <1>1, <1>2, <1>3, <1>4 DEF RunInv

\* Neither the statements nor their order nor the names' lifetimes are touched.
LEMMA FactsKept ==
    /\ UNCHANGED <<net, stmts>> => (StatementsOK(stmts)' <=> StatementsOK(stmts))
    /\ UNCHANGED <<stmts, sched>> => (ScheduledOK' <=> ScheduledOK)
    /\ UNCHANGED <<net, sched, lifecycles>> => (LivesOK(lifecycles)' <=> LivesOK(lifecycles))
    /\ UNCHANGED net => (WritesOrdered' <=> WritesOrdered)
    /\ UNCHANGED <<net, sched>> => \A P : (Positions(P)' <=> Positions(P))
    /\ UNCHANGED <<net, plan>> => \A P, m, k : (MemoryOK(P, m, k)' <=> MemoryOK(P, m, k))
<1>1. UNCHANGED <<net, stmts>> => (StatementsOK(stmts)' <=> StatementsOK(stmts))
  BY DEF StatementsOK, StatementOK, Inside, Readers, FetchOps
<1>2. UNCHANGED <<stmts, sched>> => (ScheduledOK' <=> ScheduledOK)
  BY Zenon DEF ScheduledOK
<1>3. UNCHANGED <<net, sched, lifecycles>> => (LivesOK(lifecycles)' <=> LivesOK(lifecycles))
  BY Zenon DEF LivesOK, Uses
<1>4. UNCHANGED net => (WritesOrdered' <=> WritesOrdered)
  BY Zenon DEF WritesOrdered
<1>5. UNCHANGED <<net, sched>> => \A P : (Positions(P)' <=> Positions(P))
  BY DEF Positions, Inside
<1>6. UNCHANGED <<net, plan>> => \A P, m, k : (MemoryOK(P, m, k)' <=> MemoryOK(P, m, k))
  BY Zenon DEF MemoryOK, Written, FetchOps
<1> QED
  BY <1>1, <1>2, <1>3, <1>4, <1>5, <1>6

\* Until the program runs, memory is as it was.
LEMMA NotYetRunning ==
    ASSUME RunInv, UNCHANGED <<net, sched, plan, pos, mem, wrong>>, pc \notin {"run", "done"},
           pc' \notin {"run", "done"}
    PROVE  RunInv'
<1>1. WritesOrdered' <=> WritesOrdered
  BY FactsKept
<1> QED
  BY <1>1 DEF RunInv, Values

LEMMA DetectRuns ==
    DetectorInv /\ TreeInv /\ CompilerInv /\ RunInv /\ Detect /\ UNCHANGED later
        => CompilerInv' /\ RunInv'
<1> SUFFICES ASSUME DetectorInv, TreeInv, CompilerInv, RunInv, Detect, UNCHANGED later
             PROVE  CompilerInv' /\ RunInv'
  OBVIOUS
<1>1. /\ net' = net /\ net \in Networks
      /\ UNCHANGED <<sched, lifecycles, plan, pos, mem, wrong>>
      /\ pc \in {"init", "visit", "expand", "combine", "cluster"}
      /\ pc' = "schedule" \/ pc' \in {"visit", "expand", "combine", "cluster"}
      /\ pc' = "schedule" => Fuse
  BY DEF Detect, later, InitNodes, Visit, Expand, Combine, Fuse, DetectorInv, DetectorTypeOK
<1>2. ASSUME Fuse PROVE StatementsOK(stmts)'
  <2>1. PICK order \in TopologicalOrders(MarkedOps, DependsOn(net)) :
            stmts' = {Subgraph(ops) : ops \in Clusters(order)}
                       \cup {Statement(i) : i \in Ops(net) \ MarkedOps}
    BY <1>2 DEF Fuse
  <2>2. Ancestors \in [Nodes -> Nodes]
    <3>1. PICK d : Forest(union_find_parent, Nodes, Ancestors, d)
      BY DEF DetectorInv, ForestInv
    <3> QED
      BY <3>1 DEF Forest
  <2>4. MarkedOps \cap FetchOps(net) = {}
    <3>1. marked = Marked
      BY <1>2 DEF Fuse, TreeInv
    <3> QED
      BY <1>1, <3>1, MarkedOperators DEF Supported, FetchOps
  <2>3. StatementsOK(stmts')
    BY <1>1, <2>1, <2>2, <2>4, FusedStatements
  <2> QED
    BY <1>1, <2>3 DEF StatementsOK, StatementOK, Inside, Readers, FetchOps
<1>3. CompilerInv'
  BY <1>1, <1>2 DEF CompilerInv, Fused
<1>4. RunInv'
  BY <1>1, NotYetRunning
<1> QED
  BY <1>3, <1>4

LEMMA ScheduleRuns == CompilerInv /\ RunInv /\ Schedule => CompilerInv' /\ RunInv'
<1> SUFFICES ASSUME CompilerInv, RunInv, Schedule PROVE CompilerInv' /\ RunInv'
  OBVIOUS
<1>1. /\ pc = "schedule" /\ pc' = "collect" /\ sched' \in TopologicalOrders(stmts, Follows)
      /\ UNCHANGED <<net, stmts, lifecycles, plan, pos, mem, wrong>>
  BY DEF Schedule
<1>2. StatementsOK(stmts) /\ IsFiniteSet(stmts)
  BY <1>1 DEF CompilerInv, Fused, StatementsOK
<1>3. IsSchedule(sched', stmts)
  BY <1>1, <1>2, OrdersAreOrders, ScheduledIs
<1>4. StatementsOK(stmts)' /\ ScheduledOK'
  BY <1>1, <1>2, <1>3, FactsKept DEF ScheduledOK
<1>5. Len(sched') \in Nat
  BY <1>3 DEF IsSchedule
<1>6. CompilerInv'
  BY <1>1, <1>4 DEF CompilerInv
<1>7. pos' \in 1 .. Len(sched') + 1
  BY <1>1, <1>5 DEF RunInv
<1>8. WritesOrdered' <=> WritesOrdered
  BY <1>1, FactsKept
<1> QED
  BY <1>1, <1>5, <1>6, <1>7, <1>8 DEF RunInv, Values

LEMMA CollectRuns ==
    DetectorInv /\ CompilerInv /\ RunInv /\ Collect => CompilerInv' /\ RunInv'
<1> SUFFICES ASSUME DetectorInv, CompilerInv, RunInv, Collect PROVE CompilerInv' /\ RunInv'
  OBVIOUS
<1>1. /\ pc = "collect" /\ pc' = "plan" /\ net \in Networks
      /\ lifecycles' = Lifecycles(<<Feed>> \o [k \in DOMAIN sched |-> Uses(sched[k])])
      /\ UNCHANGED <<net, stmts, sched, plan, pos, mem, wrong>>
  BY DEF Collect, DetectorInv, DetectorTypeOK
<1>2. StatementsOK(stmts) /\ ScheduledOK /\ sched \in Seq(stmts)
  BY <1>1 DEF CompilerInv, Fused, ScheduledOK, IsSchedule
<1>3. LivesOK(lifecycles')
  BY <1>1, <1>2, CollectedLives
<1>4. LivesOK(lifecycles)'
  BY <1>1, <1>3 DEF LivesOK, Uses
<1>5. StatementsOK(stmts)' /\ ScheduledOK'
  BY <1>1, <1>2, FactsKept
<1>6. CompilerInv'
  BY <1>1, <1>4, <1>5 DEF CompilerInv
<1>7. RunInv'
  BY <1>1, NotYetRunning
<1> QED
  BY <1>6, <1>7

\* The names' order lists each of finitely many once.
LEMMA OrderOfNames ==
    ASSUME NEW S, IsFiniteSet(S), NEW q \in SetToSeqs(S)
    PROVE  q \in Seq(S)
<1>1. Cardinality(S) \in Nat
  BY FS_CardinalityType
<1>2. q \in [1 .. Cardinality(S) -> S]
  BY DEF SetToSeqs
<1> QED
  BY <1>1, <1>2

LEMMA PlanRuns ==
    DetectorInv /\ CompilerInv /\ RunInv /\ Plan => CompilerInv' /\ RunInv'
<1> SUFFICES ASSUME DetectorInv, CompilerInv, RunInv, Plan PROVE CompilerInv' /\ RunInv'
  OBVIOUS
<1>1. /\ pc = "plan" /\ pc' = "run" /\ net \in Networks
      /\ UNCHANGED <<net, stmts, sched, lifecycles, pos, mem, wrong>>
  BY DEF Plan, DetectorInv, DetectorTypeOK
<1>2. PICK q \in SetToSeqs(DOMAIN lifecycles) : plan' = ReusePlan(lifecycles, q)
  BY DEF Plan
<1>3. StatementsOK(stmts) /\ ScheduledOK /\ LivesOK(lifecycles)
  BY <1>1 DEF CompilerInv, Fused
<1>4. Disjoint(lifecycles, plan')
  <2>1. IsFiniteSet(DOMAIN lifecycles)
    <3>1. DOMAIN lifecycles \subseteq Names(net)
      BY <1>3 DEF LivesOK
    <3> QED
      BY <1>1, <3>1, NamesAreFinite, FS_Subset
  <2> QED
    BY <1>2, <2>1, OrderOfNames, ReusePlanIsDisjoint
<1>5. StatementsOK(stmts)' /\ ScheduledOK' /\ LivesOK(lifecycles)'
  BY <1>1, <1>3, FactsKept
<1>6. CompilerInv'
  BY <1>1, <1>4, <1>5 DEF CompilerInv
<1>7. ASSUME NEW P, Positions(P)' PROVE MemoryOK(P, mem, pos)'
  <2>1. Positions(P) /\ pos = 1
    BY <1>1, <1>7, FactsKept DEF RunInv
  <2>2. \A i \in Ops(net) : P[i] \in 1 .. Len(sched)
    BY <2>1 DEF Positions
  <2> SUFFICES ASSUME NEW i \in Ops(net), NEW y \in net[i].ins,
                      Written(P, Producer(net, i, y), 1)'
               PROVE  mem[Renaming(plan', y)] = Producer(net, i, y)
    BY <1>1, <2>1 DEF MemoryOK
  <2>3. Producer(net, i, y) = 0
    BY <1>1, <2>2 DEF Written
  <2>4. y = 0
    BY <1>1, <2>3, NameOfProducer DEF NameOf
  <2>5. 0 \notin DOMAIN plan'
    BY <1>3, <1>4 DEF LivesOK, Disjoint
  <2> QED
    BY <1>1, <2>3, <2>4, <2>5 DEF RunInv, Renaming
<1>8. WritesOrdered' <=> WritesOrdered
  BY <1>1, FactsKept
<1>9. RunInv'
  BY <1>1, <1>7, <1>8 DEF RunInv, Values
<1> QED
  BY <1>6, <1>9

LEMMA RunRuns ==
    DetectorInv /\ CompilerInv /\ RunInv /\ Run => CompilerInv' /\ RunInv'
<1> SUFFICES ASSUME DetectorInv, CompilerInv, RunInv, Run PROVE CompilerInv' /\ RunInv'
  OBVIOUS
<1> DEFINE s == sched[pos]
           ops == s.ops
           n == Len(ops)
           res == RunOps(ops, mem)
<1>1. /\ pc = "run" /\ pc' = "run" /\ net \in Networks /\ pos <= Len(sched) /\ pos' = pos + 1
      /\ ~Fetches(sched[pos])
      /\ UNCHANGED <<net, stmts, sched, lifecycles, plan>>
      /\ mem' = Left(mem, res.mem, s) /\ wrong' = wrong \cup res.wrong
  BY DEF Run, DetectorInv, DetectorTypeOK, Left
<1>2. ProgramOK
  BY <1>1 DEF CompilerInv, Fused, ProgramOK
<1>3. pos \in 1 .. Len(sched) /\ pos' \in 1 .. Len(sched) + 1 /\ Len(sched) \in Nat
  BY <1>1 DEF RunInv
<1>4. StatementsOK(stmts)' /\ ScheduledOK' /\ LivesOK(lifecycles)' /\ Disjoint(lifecycles', plan')
  BY <1>1, <1>2, FactsKept DEF ProgramOK
<1>5. CompilerInv'
  BY <1>1, <1>4 DEF CompilerInv
<1>6. ops \in Seq(Ops(net)) /\ n \in Nat
  <2>1. StatementOK(s)
    BY <1>2, <1>3, ScheduledStatements DEF ProgramOK
  <2> QED
    BY <2>1 DEF StatementOK
<1>7. mem \in [Names(net) -> Values]
  BY DEF RunInv
<1> HIDE DEF s, ops, n, res
<1>8. PICK r : RunsAs(r, ops, mem)
  BY <1>1, <1>6, <1>7, RunSteps
<1>9. res = r[n] /\ r[n] \in Runs
  BY <1>6, <1>8 DEF RunsAs, res, n
<1>10. res.mem \in [Names(net) -> Values] /\ res.wrong \subseteq Ops(net) \X Names(net)
  BY <1>9 DEF Runs
<1>11. mem' \in [Names(net) -> Values]
  BY <1>1, <1>7, <1>10 DEF Left
<1>12. wrong' \subseteq Ops(net) \X Names(net)
  BY <1>1, <1>10 DEF RunInv
<1>13. ASSUME WritesOrdered, NEW P, Positions(P)
       PROVE  res.wrong = {} /\ MemoryOK(P, mem', pos + 1)
  <2>1. MemoryOK(P, mem, pos)
    BY <1>1, <1>13 DEF RunInv
  <2>2. ops = sched[pos].ops
    BY DEF ops, s
  <2>3. \A k \in 0 .. Len(ops) : MidwayOK(P, ops, r[k].mem, k + 1) /\ r[k].wrong = {}
    BY <1>1, <1>2, <1>3, <1>8, <1>13, <2>1, <2>2, StatementRuns
  <2>4. res.wrong = {} /\ MidwayOK(P, ops, res.mem, Len(ops) + 1)
    BY <1>6, <1>9, <2>3 DEF n
  <2>5. MemoryOK(P, Left(mem, res.mem, sched[pos]), pos + 1)
    BY <1>1, <1>2, <1>3, <1>7, <1>10, <1>13, <2>1, <2>2, <2>4, StatementEnds
  <2> QED
    BY <1>1, <2>4, <2>5 DEF s
<1>14. ASSUME WritesOrdered PROVE wrong' = {}
  <2>1. PICK P : Positions(P)
    BY <1>1, <1>2, StatementsHavePositions DEF ProgramOK
  <2>2. res.wrong = {}
    BY <1>13, <1>14, <2>1
  <2> QED
    BY <1>1, <1>14, <2>2 DEF RunInv
<1>15. ASSUME WritesOrdered, NEW P, Positions(P)' PROVE MemoryOK(P, mem, pos)'
  <2>1. Positions(P)
    BY <1>1, <1>15, FactsKept
  <2>2. MemoryOK(P, mem', pos')
    BY <1>1, <1>13, <1>15, <2>1
  <2> QED
    BY <1>1, <2>2 DEF MemoryOK, Written
<1>16. WritesOrdered' <=> WritesOrdered
  BY <1>1, FactsKept
<1>17. RunInv'
  BY <1>1, <1>3, <1>11, <1>12, <1>14, <1>15, <1>16 DEF RunInv, Values
<1> QED
  BY <1>5, <1>17

\* A fetch that is passed over leaves memory as it is, and nobody reads what it would
\* have written.
LEMMA SkipFetchRuns ==
    DetectorInv /\ CompilerInv /\ RunInv /\ SkipFetch => CompilerInv' /\ RunInv'
<1> SUFFICES ASSUME DetectorInv, CompilerInv, RunInv, SkipFetch PROVE CompilerInv' /\ RunInv'
  OBVIOUS
<1>1. /\ pc = "run" /\ pc' = "run" /\ net \in Networks /\ pos <= Len(sched) /\ pos' = pos + 1
      /\ Fetches(sched[pos])
      /\ UNCHANGED <<net, stmts, sched, lifecycles, plan, mem, wrong>>
  BY DEF SkipFetch, DetectorInv, DetectorTypeOK
<1>2. ProgramOK
  BY <1>1 DEF CompilerInv, Fused, ProgramOK
<1>3. /\ pos \in 1 .. Len(sched) /\ pos' \in 1 .. Len(sched) + 1 /\ Len(sched) \in Nat
      /\ pos \in Int
  BY <1>1 DEF RunInv
<1>4. CompilerInv'
  BY <1>1, <1>2, FactsKept DEF CompilerInv, ProgramOK
<1>5. WritesOrdered' <=> WritesOrdered
  BY <1>1, FactsKept
<1>6. Inside(sched[pos].ops) \subseteq FetchOps(net)
  <2> DEFINE s == sched[pos]
  <2>1. StatementOK(s)
    BY <1>2, <1>3, ScheduledStatements DEF ProgramOK
  <2>2. s.ops \in Seq(Ops(net)) /\ s.ops # <<>> /\ s.ops[1] \in FetchOps(net)
    BY <1>1, <2>1 DEF StatementOK, Fetches, FetchOps
  <2>3. s.ops[1] \in Inside(s.ops)
    BY <2>2 DEF Inside
  <2>4. Len(s.ops) = 1
    BY <2>1, <2>2, <2>3 DEF StatementOK
  <2> QED
    BY <2>2, <2>4 DEF Inside
<1>7. ASSUME WritesOrdered, NEW P, Positions(P)' PROVE MemoryOK(P, mem, pos)'
  <2>1. Positions(P)
    BY <1>1, <1>7, FactsKept
  <2>2. MemoryOK(P, mem, pos)
    BY <1>1, <1>7, <2>1 DEF RunInv
  <2>3. /\ \A i \in Ops(net) : i \in Inside(sched[pos].ops) <=> pos = P[i]
        /\ \A i \in Ops(net) : P[i] \in Int
    BY <1>3, <2>1 DEF Positions
  <2>4. ASSUME NEW i \in Ops(net), P[i] >= pos + 1 \/ i \in FetchOps(net), NEW y \in net[i].ins,
               Written(P, Producer(net, i, y), pos + 1)
        PROVE  mem[Renaming(plan, y)] = Producer(net, i, y)
    <3> DEFINE v == Producer(net, i, y)
    <3>1. v \notin FetchOps(net)
      <4>1. v \in VarsRead(net, i)
        BY DEF VarsRead
      <4> QED
        BY <1>1, <4>1, NobodyReadsAFetch
    <3> HIDE DEF v
    <3>2. ~(v \in Ops(net) /\ P[v] = pos)
      BY <1>6, <2>3, <3>1
    <3>3. Written(P, v, pos)
      BY <1>3, <2>3, <2>4, <3>2 DEF Written, v
    <3> QED
      BY <1>3, <2>2, <2>3, <2>4, <3>3 DEF MemoryOK, v
  <2>5. MemoryOK(P, mem, pos + 1)
    BY <2>4 DEF MemoryOK
  <2>6. MemoryOK(P, mem, pos')
    BY <1>1, <2>5
  <2> QED
    BY <1>1, <2>6 DEF MemoryOK, Written, FetchOps
<1>8. RunInv'
  BY <1>1, <1>3, <1>5, <1>7 DEF RunInv, Values
<1> QED
  BY <1>4, <1>8

\* When the program has ended, memory holds what is fetched.
LEMMA FinishedRuns ==
    DetectorInv /\ CompilerInv /\ RunInv /\ Finished => CompilerInv' /\ RunInv'
<1> SUFFICES ASSUME DetectorInv, CompilerInv, RunInv, Finished PROVE CompilerInv' /\ RunInv'
  OBVIOUS
<1>1. /\ pc = "run" /\ pc' = "done" /\ net \in Networks /\ pos > Len(sched)
      /\ wrong' = wrong \cup UNION {Misreads(mem, i) : i \in FetchOps(net)}
      /\ UNCHANGED <<net, stmts, sched, lifecycles, plan, pos, mem>>
  BY DEF Finished, DetectorInv, DetectorTypeOK
<1>2. StatementsOK(stmts)' /\ ScheduledOK' /\ LivesOK(lifecycles)' /\ Disjoint(lifecycles', plan')
  BY <1>1, FactsKept DEF CompilerInv, Fused
<1>3. WritesOrdered' <=> WritesOrdered
  BY <1>1, FactsKept
<1>4. wrong' \subseteq Ops(net) \X Names(net)
  <2>1. \A i \in FetchOps(net) : i \in Ops(net) /\ net[i].ins \subseteq Names(net)
    BY <1>1, OperatorNames DEF FetchOps
  <2>2. \A i \in FetchOps(net) : Misreads(mem, i) \subseteq Ops(net) \X Names(net)
    BY <2>1 DEF Misreads
  <2> QED
    BY <1>1, <2>2 DEF RunInv
<1>5. ASSUME WritesOrdered PROVE wrong' = {}
  <2>1. StatementsOK(stmts) /\ ScheduledOK
    BY <1>1 DEF CompilerInv, Fused
  <2>2. PICK P : Positions(P)
    BY <1>1, <2>1, StatementsHavePositions
  <2>3. MemoryOK(P, mem, pos) /\ wrong = {} /\ Len(sched) \in Nat /\ pos \in Int
    BY <1>1, <1>5, <2>2 DEF RunInv
  <2>4. ASSUME NEW i \in FetchOps(net), NEW y \in net[i].ins
        PROVE  mem[Renaming(plan, y)] = Producer(net, i, y)
    <3> DEFINE v == Producer(net, i, y)
    <3>1. i \in Ops(net) /\ v \in 0 .. i - 1
      BY <1>1, NameOfProducer DEF FetchOps
    <3>2. v = 0 \/ v \in Ops(net)
      <4>1. Len(net) \in Nat
        BY <1>1, NodesFacts, NetworkLength
      <4> HIDE DEF v
      <4> QED
        BY <3>1, <4>1 DEF Ops
    <3> HIDE DEF v
    <3>3. \A j \in Ops(net) : P[j] \in 1 .. Len(sched)
      BY <2>2 DEF Positions
    <3>4. Written(P, v, pos)
      BY <1>1, <2>3, <3>2, <3>3 DEF Written
    <3> QED
      BY <2>3, <3>1, <3>4 DEF MemoryOK, v
  <2>5. \A i \in FetchOps(net) : Misreads(mem, i) = {}
    BY <2>4 DEF Misreads
  <2> QED
    BY <1>1, <2>3, <2>5
<1> QED
  BY <1>1, <1>2, <1>3, <1>4, <1>5 DEF CompilerInv, RunInv, Values

LEMMA StutterRuns == CompilerInv /\ RunInv /\ UNCHANGED vars => CompilerInv' /\ RunInv'
<1> SUFFICES ASSUME CompilerInv, RunInv, UNCHANGED vars PROVE CompilerInv' /\ RunInv'
  OBVIOUS
<1>1. /\ pc' = pc
      /\ UNCHANGED <<net, stmts, sched, lifecycles, plan, pos, mem, wrong>>
  BY DEF vars, later
<1>2. /\ StatementsOK(stmts)' <=> StatementsOK(stmts)
      /\ ScheduledOK' <=> ScheduledOK
      /\ LivesOK(lifecycles)' <=> LivesOK(lifecycles)
      /\ WritesOrdered' <=> WritesOrdered
  BY <1>1, FactsKept
<1>3. ASSUME WritesOrdered, pc = "run", NEW P, Positions(P)' PROVE MemoryOK(P, mem, pos)'
  <2>1. Positions(P)
    BY <1>1, <1>3, FactsKept
  <2>2. MemoryOK(P, mem, pos)
    BY <1>3, <2>1 DEF RunInv
  <2> QED
    BY <1>1, <2>2 DEF MemoryOK, Written
<1>4. CompilerInv'
  BY <1>1, <1>2 DEF CompilerInv
<1>5. RunInv'
  BY <1>1, <1>2, <1>3 DEF RunInv, Values
<1> QED
  BY <1>4, <1>5

\* The invariant of the compiler in every state.
LEMMA CompilerInvariant == Spec => [](DetectorInv /\ CompilerInv /\ RunInv)
<1>1. Init => CompilerInv /\ RunInv
  BY CompilerBegins
<1>2. DetectorInv /\ TreeInv /\ CompilerInv /\ RunInv /\ [Next]_vars => CompilerInv' /\ RunInv'
  BY DetectRuns, ScheduleRuns, CollectRuns, PlanRuns, RunRuns, SkipFetchRuns, FinishedRuns,
     StutterRuns DEF Next
<1> QED
  BY <1>1, <1>2, TreeInvariant, PTL DEF Spec

-----------------------------------------------------------------------------
(* What the compiler promises.                                             *)

\* Every variable of the compiler and of the run keeps its type, in every state.
THEOREM TypeCorrect == Spec => []TypeOK
<1>1. DetectorInv /\ RunInv => TypeOK
  BY DEF DetectorInv, RunInv, TypeOK, Values
<1> QED
  BY <1>1, CompilerInvariant, PTL

\* The memory plan never gives one memory to two names a statement uses: no operator
\* overwrites an input it still reads.
THEOREM InputsAreNeverOverwritten == Spec => []NoOperatorOverwritesItsInput
<1>1. CompilerInv => NoOperatorOverwritesItsInput
  <2> SUFFICES ASSUME CompilerInv, pc = "run", NEW s \in stmts, NEW v \in s.ins \cup s.outs,
                      NEW w \in s.ins \cup s.outs,
                      Renaming(plan, NameOf(net, v)) = Renaming(plan, NameOf(net, w)),
                      NameOf(net, v) # NameOf(net, w)
               PROVE  FALSE
    BY DEF NoOperatorOverwritesItsInput
  <2> DEFINE x == NameOf(net, v)
             y == NameOf(net, w)
  <2>1. ScheduledOK /\ LivesOK(lifecycles) /\ Disjoint(lifecycles, plan)
    BY DEF CompilerInv, Fused
  <2>2. NeverTogether(lifecycles, x, y)
    BY <2>1, SharingIsDisjoint
  <2>3. PICK k \in 1 .. Len(sched) : sched[k] = s
    BY <2>1 DEF ScheduledOK, IsSchedule
  <2>4. x \in Uses(sched[k]).names /\ y \in Uses(sched[k]).names
    BY <2>3 DEF Uses
  <2> HIDE DEF x, y
  <2>5. x \in DOMAIN lifecycles /\ y \in DOMAIN lifecycles /\ ~Overlap(lifecycles[x], lifecycles[y])
    BY <2>2 DEF NeverTogether
  <2>6. /\ lifecycles[x].first \in Nat /\ lifecycles[x].last \in Nat
        /\ lifecycles[y].first \in Nat /\ lifecycles[y].last \in Nat
        /\ lifecycles[x].first <= k + 1 /\ k + 1 <= lifecycles[x].last
        /\ lifecycles[y].first <= k + 1 /\ k + 1 <= lifecycles[y].last
    BY <2>1, <2>4, <2>5 DEF LivesOK
  <2> QED
    BY <2>5, <2>6 DEF Overlap
<1> QED
  BY <1>1, CompilerInvariant, PTL

\* Through fusion, scheduling and shared memory every operator reads the value the
\* network means, as long as whoever writes a name again is ordered by data after the
\* readers of its old value.
THEOREM ReadsAreTheNetworks == Spec => []ReadsWhatTheNetworkMeans
<1>1. RunInv => ReadsWhatTheNetworkMeans
  BY DEF RunInv, ReadsWhatTheNetworkMeans
<1> QED
  BY <1>1, CompilerInvariant, PTL
=============================================================================
