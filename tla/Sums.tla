-------------------------------- MODULE Sums --------------------------------
(***************************************************************************)
(* What the proofs need of the naturals and of finite sets: induction over *)
(* them, with a set in the place of a predicate, and the sums of functions *)
(* as SumFunction computes them.                                           *)
(***************************************************************************)
EXTENDS Integers, FiniteSets, Functions, FiniteSetTheorems, TLAPS

-----------------------------------------------------------------------------
(* Induction over the numbers from 0 to n                                  *)

\* A set of subsets of a finite set has a least one.
LEMMA LeastSubset ==
    ASSUME NEW S, IsFiniteSet(S), NEW R, R \subseteq SUBSET S, R # {}
    PROVE  \E s \in R : \A u \in R : u \subseteq s => u = s
  <1>. DEFINE Smaller == StrictSubsetOrdering(S)
  <1>1. IsWellFoundedOn(Smaller, SUBSET S)
    BY FS_StrictSubsetOrderingWellFounded, FS_FiniteSubsetsOfFinite
  <1>2. \E s \in R : \A u \in R : ~(<<u, s>> \in Smaller)
    <2>. HIDE DEF Smaller
    <2>. QED  BY <1>1, WFMin
  <1>. QED  BY <1>2 DEF StrictSubsetOrdering

\* A set of naturals has a least one.
LEMMA LeastNatural ==
    ASSUME NEW R, R \subseteq Nat, R # {}
    PROVE  \E n \in R : \A m \in R : n <= m
  <1>1. PICK k \in R : k \in Nat
    OBVIOUS
  <1>. DEFINE S == 0 .. k
              Q == {s \in SUBSET S : \E n \in R : s = 0 .. n}
  <1>2. IsFiniteSet(S) /\ Q \subseteq SUBSET S
    BY <1>1, FS_Interval
  <1>3. S \in Q
    BY <1>1
  <1>4. PICK s \in Q : \A u \in Q : u \subseteq s => u = s
    <2>1. Q # {}
      BY <1>3
    <2>. HIDE DEF Q, S
    <2>. QED  BY <1>2, <2>1, LeastSubset
  <1>5. PICK n \in R : s = 0 .. n
    BY <1>4
  <1>6. \A m \in R : n <= m
    <2>. SUFFICES ASSUME NEW m \in R, m < n PROVE FALSE
      OBVIOUS
    <2>1. m \in Nat /\ n \in Nat
      OBVIOUS
    <2>2. 0 .. m \subseteq s /\ 0 .. m \in SUBSET S
      BY <2>1, <1>4, <1>5
    <2>3. 0 .. m = s
      BY <2>2, <1>4
    <2>4. n \in 0 .. m
      BY <2>1, <2>3, <1>5
    <2>. QED  BY <2>1, <2>4
  <1>. QED  BY <1>6

\* Induction up to n, over a set in the place of a predicate.
LEMMA UpTo ==
    ASSUME NEW n \in Nat, NEW T, 0 \in T, \A i \in 0 .. n : i \in T /\ i < n => i + 1 \in T
    PROVE  0 .. n \subseteq T
  <1>. DEFINE R == (0 .. n) \ T
  <1>1. R \subseteq Nat
    OBVIOUS
  <1>2. CASE R # {}
    <2>1. PICK m \in R : \A k \in R : m <= k
      <3>. HIDE DEF R
      <3>. QED  BY <1>1, <1>2, LeastNatural
    <2>2. m - 1 \in 0 .. n /\ m - 1 \in T /\ m - 1 < n
      BY <2>1
    <2>3. m \in T
      BY <2>2
    <2>. QED  BY <2>1, <2>3
  <1>. QED  BY <1>2

-----------------------------------------------------------------------------
(* Sums of functions, as SumFunction computes them                         *)

Pick(s) == CHOOSE x \in s : TRUE
SumsOf(f, S, g) == g = [s \in SUBSET S |-> IF s = {} THEN 0 ELSE f[Pick(s)] + g[s \ {Pick(s)}]]

\* Induction on the subsets of a finite set, over a set in the place of a
\* predicate: one that contains a subset when it contains the smaller ones
\* contains them all.
LEMMA SubsetInduction ==
    ASSUME NEW S, IsFiniteSet(S), NEW T,
           \A s \in SUBSET S : (\A u \in SUBSET s : u # s => u \in T) => s \in T
    PROVE  SUBSET S \subseteq T
  <1>. DEFINE R == (SUBSET S) \ T
  <1>1. R \subseteq SUBSET S
    OBVIOUS
  <1>2. CASE R # {}
    <2>1. \E s \in R : \A u \in R : u \subseteq s => u = s
      <3>. HIDE DEF R
      <3>. QED  BY <1>1, <1>2, LeastSubset
    <2>. QED  BY <2>1
  <1>. QED  BY <1>2

\* What is picked from a set is in it.
LEMMA PickFacts == ASSUME NEW s, s # {} PROVE Pick(s) \in s
  BY DEF Pick

\* Two tables of sums agree where both are defined.
LEMMA SumsAgree ==
    ASSUME NEW f, NEW S, IsFiniteSet(S), NEW R, NEW g, NEW h, SumsOf(f, S, g), SumsOf(f, R, h)
    PROVE  \A s \in SUBSET S : s \subseteq R => g[s] = h[s]
  <1>. DEFINE T == {s \in SUBSET S : s \subseteq R => g[s] = h[s]}
  <1>1. ASSUME NEW s \in SUBSET S, \A u \in SUBSET s : u # s => u \in T, s \subseteq R PROVE g[s] = h[s]
    <2>1. CASE s = {}
      BY <2>1, <1>1 DEF SumsOf
    <2>2. CASE s # {}
      <3>. DEFINE p == Pick(s)
      <3>1. p \in s /\ s \ {p} \in SUBSET s /\ s \ {p} # s
        BY <2>2, PickFacts
      <3>2. g[s \ {p}] = h[s \ {p}]
        BY <3>1, <1>1
      <3>3. g[s] = f[p] + g[s \ {p}]
        BY <2>2, <1>1 DEF SumsOf
      <3>4. h[s] = f[p] + h[s \ {p}]
        BY <2>2, <1>1 DEF SumsOf
      <3>. QED BY <3>2, <3>3, <3>4
    <2>. QED  BY <2>1, <2>2
  <1>2. SUBSET S \subseteq T
    <2>. HIDE DEF T
    <2>1. \A s \in SUBSET S : (\A u \in SUBSET s : u # s => u \in T) => s \in T
      BY <1>1 DEF T
    <2>. QED BY <2>1, SubsetInduction
  <1>. QED BY <1>2

\* The table of the sums over the subsets of a finite set exists.
LEMMA SumsExist ==
    ASSUME NEW f, NEW S, IsFiniteSet(S)
    PROVE  \E g : SumsOf(f, S, g)
  <1>. DEFINE T == {s \in SUBSET S : \E g : SumsOf(f, s, g)}
  <1>. DEFINE V(s) == (CHOOSE g : SumsOf(f, s, g))[s]
  <1>1. ASSUME NEW s \in SUBSET S, \A u \in SUBSET s : u # s => u \in T PROVE \E g : SumsOf(f, s, g)
    <2>. DEFINE G == [r \in SUBSET s |-> IF r = {} THEN 0 ELSE f[Pick(r)] + V(r \ {Pick(r)})]
    <2>1. ASSUME NEW r \in SUBSET s, r # s PROVE V(r) = G[r]
      <3>. DEFINE h == CHOOSE g : SumsOf(f, r, g)
      <3>0. SumsOf(f, r, h)
        BY <1>1, <2>1
      <3>. HIDE DEF h
      <3>1. V(r) = h[r]
        BY DEF h
      <3>2. CASE r = {}
        BY <3>0, <3>1, <3>2 DEF SumsOf
      <3>3. CASE r # {}
        <4>. DEFINE p == Pick(r)
        <4>. DEFINE k == CHOOSE g : SumsOf(f, r \ {p}, g)
        <4>1. p \in r
          BY <3>3, PickFacts
        <4>2. SumsOf(f, r \ {p}, k)
          <5>1. r \ {p} \in SUBSET s /\ r \ {p} # s
            BY <2>1, <4>1
          <5>. QED BY <5>1, <1>1
        <4>3. V(r \ {p}) = k[r \ {p}]
          OBVIOUS
        <4>. HIDE DEF k, p
        <4>4. k[r \ {p}] = h[r \ {p}]
          <5>1. IsFiniteSet(r \ {p})
            BY FS_Subset
          <5>. QED BY <5>1, <4>2, <3>0, SumsAgree
        <4>5. h[r] = f[p] + h[r \ {p}]
          BY <3>0, <3>3 DEF SumsOf, p
        <4>6. G[r] = f[p] + V(r \ {p})
          BY <3>3 DEF p
        <4>. HIDE DEF V, G
        <4>. QED BY <4>3, <4>4, <4>5, <4>6, <3>1
      <3>. QED BY <3>2, <3>3
    <2>2. SumsOf(f, s, G)
      <3>1. ASSUME NEW r \in SUBSET s, r # {} PROVE V(r \ {Pick(r)}) = G[r \ {Pick(r)}]
        <4>1. r \ {Pick(r)} \in SUBSET s /\ r \ {Pick(r)} # s
          BY <3>1, PickFacts
        <4>. HIDE DEF V, G
        <4>. QED BY <4>1, <2>1
      <3>2. \A r \in SUBSET s : (IF r = {} THEN 0 ELSE f[Pick(r)] + V(r \ {Pick(r)})) = (IF r = {} THEN 0 ELSE f[Pick(r)] + G[r \ {Pick(r)}])
        <4>. HIDE DEF V, G
        <4>. QED BY <3>1
      <3>. DEFINE D(r) == IF r = {} THEN 0 ELSE f[Pick(r)] + V(r \ {Pick(r)})
      <3>. DEFINE E(r) == IF r = {} THEN 0 ELSE f[Pick(r)] + G[r \ {Pick(r)}]
      <3>3. G = [r \in SUBSET s |-> D(r)]
        OBVIOUS
      <3>. HIDE DEF D, E
      <3>4. G = [r \in SUBSET s |-> E(r)]
        <4>1. \A r \in SUBSET s : D(r) = E(r)
          BY <3>2 DEF D, E
        <4>. HIDE DEF G
        <4>. QED BY <4>1, <3>3
      <3>. HIDE DEF G
      <3>. QED BY <3>4 DEF SumsOf, E
    <2>. QED BY <2>2
  <1>2. SUBSET S \subseteq T
    <2>. HIDE DEF T
    <2>1. \A s \in SUBSET S : (\A u \in SUBSET s : u # s => u \in T) => s \in T
      BY <1>1 DEF T
    <2>. QED BY <2>1, SubsetInduction
  <1>. QED BY <1>2

\* SumFunction is defined by such a table.
LEMMA SumUnfolds ==
    ASSUME NEW f
    PROVE  SumFunction(f) = (CHOOSE g : SumsOf(f, DOMAIN f, g))[DOMAIN f]
  BY Zenon DEF SumFunction, SumFunctionOnSet, FoldFunctionOnSet, MapThenFoldSet, SumsOf, Pick

\* A sum is the entry of the table for all of the domain.
LEMMA SumTable ==
    ASSUME NEW S, IsFiniteSet(S), NEW f \in [S -> Nat]
    PROVE  \E g : SumsOf(f, S, g) /\ SumFunction(f) = g[S]
  <1>1. DOMAIN f = S
    OBVIOUS
  <1>2. \E g : SumsOf(f, S, g)
    BY SumsExist
  <1>3. SumsOf(f, S, CHOOSE g : SumsOf(f, S, g))
    BY <1>2
  <1>4. SumFunction(f) = (CHOOSE g : SumsOf(f, S, g))[S]
    BY <1>1, SumUnfolds
  <1>. QED BY <1>3, <1>4

\* A sum of naturals is one, and 0 only when all of them are.
LEMMA SumOfNaturals ==
    ASSUME NEW S, IsFiniteSet(S), NEW f \in [S -> Nat]
    PROVE  /\ SumFunction(f) \in Nat
           /\ SumFunction(f) = 0 <=> \A x \in S : f[x] = 0
  <1>1. PICK g : SumsOf(f, S, g) /\ SumFunction(f) = g[S]
    BY SumTable
  <1>. DEFINE T == {s \in SUBSET S : g[s] \in Nat /\ (g[s] = 0 <=> \A x \in s : f[x] = 0)}
  <1>2. ASSUME NEW s \in SUBSET S, \A u \in SUBSET s : u # s => u \in T
        PROVE  g[s] \in Nat /\ (g[s] = 0 <=> \A x \in s : f[x] = 0)
    <2>1. CASE s = {}
      BY <1>1, <2>1 DEF SumsOf
    <2>2. CASE s # {}
      <3>. DEFINE p == Pick(s)
      <3>1. p \in s /\ s \ {p} \in SUBSET s /\ s \ {p} # s
        BY <2>2, PickFacts
      <3>2. g[s \ {p}] \in Nat /\ (g[s \ {p}] = 0 <=> \A x \in s \ {p} : f[x] = 0)
        BY <3>1, <1>2
      <3>3. g[s] = f[p] + g[s \ {p}]
        BY <1>1, <2>2 DEF SumsOf
      <3>4. f[p] \in Nat
        BY <3>1
      <3>. HIDE DEF p
      <3>. QED BY <3>1, <3>2, <3>3, <3>4
    <2>. QED BY <2>1, <2>2
  <1>3. SUBSET S \subseteq T
    <2>. HIDE DEF T
    <2>1. \A s \in SUBSET S : (\A u \in SUBSET s : u # s => u \in T) => s \in T
      BY <1>2 DEF T
    <2>. QED BY <2>1, SubsetInduction
  <1>. QED BY <1>1, <1>3

\* Another value at one point changes the sum by the difference.
LEMMA SumChanges ==
    ASSUME NEW S, IsFiniteSet(S), NEW f \in [S -> Nat], NEW h \in [S -> Nat], NEW t \in S,
           \A x \in S \ {t} : h[x] = f[x]
    PROVE  SumFunction(h) = SumFunction(f) - f[t] + h[t]
  <1>1. PICK g : SumsOf(f, S, g) /\ SumFunction(f) = g[S]
    BY SumTable
  <1>2. PICK k : SumsOf(h, S, k) /\ SumFunction(h) = k[S]
    BY SumTable
  <1>. DEFINE T == {s \in SUBSET S : /\ g[s] \in Int /\ k[s] \in Int
                                     /\ k[s] = IF t \in s THEN g[s] - f[t] + h[t] ELSE g[s]}
  <1>3. ASSUME NEW s \in SUBSET S, \A u \in SUBSET s : u # s => u \in T
        PROVE  s \in T
    <2>1. CASE s = {}
      BY <1>1, <1>2, <2>1 DEF SumsOf
    <2>2. CASE s # {}
      <3>. DEFINE p == Pick(s)
      <3>1. p \in s /\ s \ {p} \in SUBSET s /\ s \ {p} # s
        BY <2>2, PickFacts
      <3>2. /\ g[s \ {p}] \in Int /\ k[s \ {p}] \in Int
            /\ k[s \ {p}] = IF t \in s \ {p} THEN g[s \ {p}] - f[t] + h[t] ELSE g[s \ {p}]
        BY <3>1, <1>3
      <3>3. g[s] = f[p] + g[s \ {p}]
        BY <1>1, <2>2 DEF SumsOf
      <3>4. k[s] = h[p] + k[s \ {p}]
        BY <1>2, <2>2 DEF SumsOf
      <3>5. f[p] \in Nat /\ h[p] \in Nat /\ f[t] \in Nat /\ h[t] \in Nat
        BY <3>1
      <3>6. (p = t \/ f[p] = h[p]) /\ p \in s
        BY <3>1
      <3>. HIDE DEF p
      <3>7. CASE p = t
        BY <3>2, <3>3, <3>4, <3>5, <3>6, <3>7
      <3>8. CASE p # t
        BY <3>2, <3>3, <3>4, <3>5, <3>6, <3>8
      <3>. QED BY <3>7, <3>8
    <2>. QED BY <2>1, <2>2
  <1>4. SUBSET S \subseteq T
    <2>. HIDE DEF T
    <2>. QED BY <1>3, SubsetInduction
  <1>. QED BY <1>1, <1>2, <1>4

\* One less at each point of a set makes the sum less by the size of the set.
LEMMA SumDecreases ==
    ASSUME NEW S, IsFiniteSet(S), NEW f \in [S -> Nat], NEW h \in [S -> Nat], NEW U \in SUBSET S,
           \A x \in S : h[x] = IF x \in U THEN f[x] - 1 ELSE f[x]
    PROVE  SumFunction(h) = SumFunction(f) - Cardinality(U)
  <1>1. PICK g : SumsOf(f, S, g) /\ SumFunction(f) = g[S]
    BY SumTable
  <1>2. PICK k : SumsOf(h, S, k) /\ SumFunction(h) = k[S]
    BY SumTable
  <1>. DEFINE T == {s \in SUBSET S : /\ g[s] \in Int /\ k[s] \in Int
                                     /\ k[s] = g[s] - Cardinality(U \cap s)}
  <1>3. ASSUME NEW s \in SUBSET S, \A u \in SUBSET s : u # s => u \in T
        PROVE  s \in T
    <2>1. CASE s = {}
      <3>1. Cardinality(U \cap s) = 0
        BY <2>1, FS_EmptySet
      <3>. QED BY <1>1, <1>2, <2>1, <3>1 DEF SumsOf
    <2>2. CASE s # {}
      <3>. DEFINE p == Pick(s)
      <3>1. p \in s /\ s \ {p} \in SUBSET s /\ s \ {p} # s
        BY <2>2, PickFacts
      <3>2. /\ g[s \ {p}] \in Int /\ k[s \ {p}] \in Int
            /\ k[s \ {p}] = g[s \ {p}] - Cardinality(U \cap (s \ {p}))
        BY <3>1, <1>3
      <3>3. g[s] = f[p] + g[s \ {p}]
        BY <1>1, <2>2 DEF SumsOf
      <3>4. k[s] = h[p] + k[s \ {p}]
        BY <1>2, <2>2 DEF SumsOf
      <3>5. f[p] \in Nat /\ h[p] = IF p \in U THEN f[p] - 1 ELSE f[p]
        BY <3>1
      <3>6. /\ Cardinality(U \cap s) \in Nat
            /\ Cardinality(U \cap (s \ {p})) = IF p \in U THEN Cardinality(U \cap s) - 1
                                               ELSE Cardinality(U \cap s)
        <4>1. IsFiniteSet(U \cap s)
          BY FS_Subset
        <4>2. U \cap (s \ {p}) = (U \cap s) \ {p} /\ (p \in U <=> p \in U \cap s)
          BY <3>1
        <4>. DEFINE W == U \cap s
        <4>. HIDE DEF p, W
        <4>3. IsFiniteSet(W)
          BY <4>1 DEF W
        <4>4. Cardinality(W \ {p}) = IF p \in W THEN Cardinality(W) - 1 ELSE Cardinality(W)
          BY <4>3, FS_RemoveElement
        <4>5. Cardinality(W) \in Nat
          BY <4>3, FS_CardinalityType
        <4>. QED BY <4>2, <4>4, <4>5 DEF W
      <3>. HIDE DEF p
      <3>. QED BY <3>2, <3>3, <3>4, <3>5, <3>6
    <2>. QED BY <2>1, <2>2
  <1>4. SUBSET S \subseteq T
    <2>. HIDE DEF T
    <2>. QED BY <1>3, SubsetInduction
  <1>. QED
    <2>1. U \cap S = U
      OBVIOUS
    <2>. QED BY <1>1, <1>2, <1>4, <2>1
=============================================================================
