-------------------------- MODULE TreeSearch_proof --------------------------
(***************************************************************************)
(* Proofs about TreeSearch, for every depth of a test and every number of  *)
(* results of its choices: the search explores all of its executions, each *)
(* once, and its second run repeats the one that has failed.               *)
(***************************************************************************)
EXTENDS TreeSearch, Sums

-----------------------------------------------------------------------------
(* The trees of tests                                                      *)

\* The trees with the subtrees in S.
Above(S) ==
    Leaf \cup {[result |-> "none", children |-> c] :
                   c \in UNION {[1 .. n -> S] : n \in 1 .. MaxLimit}}

TreesUpTo(m, g) == g = [d \in 0 .. m |-> IF d = 0 THEN Leaf ELSE Above(g[d - 1])]

\* The trees of a depth are the leaves and what is above the trees of the depth
\* before.
LEMMA TreesUnfold ==
    /\ Trees[0] = Leaf
    /\ \A d \in 1 .. MaxDepth : Trees[d] = Above(Trees[d - 1])
  <1>. DEFINE T == {m \in 0 .. MaxDepth : \E g : TreesUpTo(m, g)}
  <1>. MaxDepth \in Nat
    BY BoundAssumption
  <1>1. 0 \in T
    <2>. DEFINE g == [d \in 0 .. 0 |-> Leaf]
    <2>1. TreesUpTo(0, g)
      BY DEF TreesUpTo
    <2>. QED  BY <2>1
  <1>2. ASSUME NEW m \in 0 .. MaxDepth, m \in T, m < MaxDepth PROVE m + 1 \in T
    <2>1. PICK g : TreesUpTo(m, g)
      BY <1>2
    <2>. DEFINE h == [d \in 0 .. m + 1 |-> IF d <= m THEN g[d] ELSE Above(g[m])]
    <2>2. \A d \in 0 .. m + 1 : h[d] = IF d = 0 THEN Leaf ELSE Above(h[d - 1])
      <3>. SUFFICES ASSUME NEW d \in 0 .. m + 1
                    PROVE  h[d] = IF d = 0 THEN Leaf ELSE Above(h[d - 1])
        OBVIOUS
      <3>1. CASE d <= m
        BY <2>1, <3>1 DEF TreesUpTo
      <3>2. CASE d = m + 1
        BY <3>2
      <3>. QED  BY <3>1, <3>2
    <2>3. TreesUpTo(m + 1, h)
      <3>1. h = [d \in 0 .. m + 1 |-> h[d]]
        OBVIOUS
      <3>. HIDE DEF h
      <3>. QED  BY <2>2, <3>1 DEF TreesUpTo
    <2>. QED  BY <1>2, <2>3
  <1>3. MaxDepth \in T
    <2>. HIDE DEF T
    <2>. QED  BY <1>1, <1>2, UpTo
  <1>4. TreesUpTo(MaxDepth, CHOOSE g : TreesUpTo(MaxDepth, g))
    BY <1>3
  <1>5. Trees = CHOOSE g : TreesUpTo(MaxDepth, g)
    BY Zenon DEF Trees, TreesUpTo, Above
  <1>6. TreesUpTo(MaxDepth, Trees)
    BY <1>4, <1>5
  <1>. QED  BY <1>6 DEF TreesUpTo

\* A node is a call of rand, with subtrees, or the end of an execution.
Inner(node, d) ==
    /\ d # 0
    /\ node.result = "none"
    /\ Len(node.children) \in 1 .. MaxLimit
    /\ DOMAIN node.children = 1 .. Len(node.children)
    /\ \A i \in DOMAIN node.children : node.children[i] \in Trees[d - 1]
Ended(node) == node.result \in {"success", "failure"} /\ node.children = <<>>

\* A tree is a call of rand or an end.
LEMMA NodeKinds ==
    ASSUME NEW d \in 0 .. MaxDepth, NEW node \in Trees[d]
    PROVE  Inner(node, d) \/ Ended(node)
  <1>1. CASE node \in Leaf
    BY <1>1 DEF Leaf, Ended
  <1>2. CASE node \notin Leaf
    <2>1. d # 0
      BY <1>2, TreesUnfold
    <2>2. Trees[d] = Above(Trees[d - 1])
      BY <2>1, TreesUnfold, BoundAssumption
    <2>. DEFINE S == Trees[d - 1]
    <2>. HIDE DEF S
    <2>3. PICK c \in UNION {[1 .. n -> S] : n \in 1 .. MaxLimit} :
              node = [result |-> "none", children |-> c]
      BY <1>2, <2>2 DEF Above, S
    <2>4. PICK n \in 1 .. MaxLimit : c \in [1 .. n -> S]
      OBVIOUS
    <2>5. n \in Nat /\ Len(c) = n /\ DOMAIN c = 1 .. n
      BY <2>4, BoundAssumption
    <2>6. \A i \in DOMAIN c : c[i] \in S
      BY <2>4
    <2>. QED  BY <2>1, <2>3, <2>5, <2>6 DEF Inner, S
  <1>. QED  BY <1>1, <1>2

-----------------------------------------------------------------------------
(* The way down the tree of a test                                         *)

Walk(root, p, m, g) == g = [n \in 0 .. m |-> IF n = 0 THEN root ELSE Down(g[n - 1], p[n])]

\* The way down a path, node by node.
LEMMA WalkExists ==
    ASSUME NEW root, NEW p, NEW m \in Nat
    PROVE  \E g : Walk(root, p, m, g)
  <1>. DEFINE T == {k \in 0 .. m : \E g : Walk(root, p, k, g)}
  <1>1. 0 \in T
    <2>. DEFINE g == [n \in 0 .. 0 |-> root]
    <2>1. Walk(root, p, 0, g)
      BY DEF Walk
    <2>. QED  BY <2>1
  <1>2. ASSUME NEW k \in 0 .. m, k \in T, k < m PROVE k + 1 \in T
    <2>1. PICK g : Walk(root, p, k, g)
      BY <1>2
    <2>. DEFINE h == [n \in 0 .. k + 1 |-> IF n <= k THEN g[n] ELSE Down(g[k], p[k + 1])]
    <2>2. \A n \in 0 .. k + 1 : h[n] = IF n = 0 THEN root ELSE Down(h[n - 1], p[n])
      <3>. SUFFICES ASSUME NEW n \in 0 .. k + 1
                    PROVE  h[n] = IF n = 0 THEN root ELSE Down(h[n - 1], p[n])
        OBVIOUS
      <3>1. CASE n <= k
        BY <2>1, <3>1 DEF Walk
      <3>2. CASE n = k + 1
        BY <3>2
      <3>. QED  BY <3>1, <3>2
    <2>3. Walk(root, p, k + 1, h)
      <3>1. h = [n \in 0 .. k + 1 |-> h[n]]
        OBVIOUS
      <3>. HIDE DEF h
      <3>. QED  BY <2>2, <3>1 DEF Walk
    <2>. QED  BY <1>2, <2>3
  <1>. HIDE DEF T
  <1>3. m \in T
    BY <1>1, <1>2, UpTo
  <1>. QED  BY <1>3 DEF T

\* Two paths with the same first choices lead to the same node.
LEMMA WalksAgree ==
    ASSUME NEW root, NEW p, NEW q, NEW m \in Nat, NEW k \in Nat, NEW g, NEW h,
           Walk(root, p, m, g), Walk(root, q, k, h),
           NEW d \in 0 .. m, d <= k, \A i \in 1 .. d : p[i] = q[i]
    PROVE  g[d] = h[d]
  <1>. DEFINE T == {n \in 0 .. d : g[n] = h[n]}
  <1>1. 0 \in T
    BY DEF Walk
  <1>2. ASSUME NEW n \in 0 .. d, n \in T, n < d PROVE n + 1 \in T
    <2>1. g[n + 1] = Down(g[n], p[n + 1])
      BY <1>2 DEF Walk
    <2>2. h[n + 1] = Down(h[n], q[n + 1])
      BY <1>2 DEF Walk
    <2>3. p[n + 1] = q[n + 1]
      BY <1>2
    <2>. QED  BY <1>2, <2>1, <2>2, <2>3
  <1>3. d \in T
    <2>. HIDE DEF T
    <2>. QED  BY <1>1, <1>2, UpTo
  <1>. QED  BY <1>3

\* The first d choices of a path.
Cut(p, d) == [k \in 1 .. d |-> p[k]]

\* The ends of the cuts of a path are the nodes of one way down.
LEMMA EndWalks ==
    ASSUME NEW root, NEW p, Len(p) \in Nat
    PROVE  \E g : /\ Walk(root, p, Len(p), g)
                  /\ \A d \in 0 .. Len(p) : End(root, Cut(p, d)) = g[d]
  <1>. DEFINE m == Len(p)
  <1>1. PICK g : Walk(root, p, m, g)
    BY WalkExists
  <1>2. ASSUME NEW d \in 0 .. m PROVE End(root, Cut(p, d)) = g[d]
    <2>. DEFINE q == Cut(p, d)
    <2>1. Len(q) = d /\ \A i \in 1 .. d : q[i] = p[i]
      BY DEF Cut
    <2>. HIDE DEF q
    <2>. DEFINE h == CHOOSE f : Walk(root, q, d, f)
    <2>2. Walk(root, q, d, h)
      BY WalkExists
    <2>3. End(root, q) = (CHOOSE f : Walk(root, q, Len(q), f))[Len(q)]
      BY Zenon DEF End, Walk
    <2>. HIDE DEF h
    <2>4. h[d] = g[d]
      <3>1. m \in Nat /\ d \in Nat /\ d \in 0 .. d /\ d <= m
        OBVIOUS
      <3>2. \A i \in 1 .. d : q[i] = p[i]
        BY <2>1
      <3>. HIDE DEF m
      <3>. QED  BY ONLY <1>1, <2>2, <3>1, <3>2, WalksAgree
    <2>. QED  BY <2>1, <2>3, <2>4 DEF h, q
  <1>. QED  BY <1>1, <1>2

\* A path of no choice ends at the root.
LEMMA EndOfNothing ==
    ASSUME NEW root, NEW p, Len(p) \in Nat
    PROVE  End(root, Cut(p, 0)) = root
  <1>1. PICK g : /\ Walk(root, p, Len(p), g)
                 /\ \A d \in 0 .. Len(p) : End(root, Cut(p, d)) = g[d]
    BY EndWalks
  <1>2. g[0] = root
    BY <1>1 DEF Walk
  <1>. QED  BY <1>1, <1>2

\* Any other ends at a child of the end of the path before its last choice.
LEMMA EndOfMore ==
    ASSUME NEW root, NEW p, Len(p) \in Nat, NEW d \in Nat, d < Len(p)
    PROVE  End(root, Cut(p, d + 1)) = Down(End(root, Cut(p, d)), p[d + 1])
  <1>1. PICK g : /\ Walk(root, p, Len(p), g)
                 /\ \A e \in 0 .. Len(p) : End(root, Cut(p, e)) = g[e]
    BY EndWalks
  <1>2. d \in 0 .. Len(p) /\ d + 1 \in 0 .. Len(p) /\ d + 1 # 0 /\ (d + 1) - 1 = d
    OBVIOUS
  <1>3. g[d + 1] = Down(g[(d + 1) - 1], p[d + 1])
    BY <1>1, <1>2 DEF Walk
  <1>4. g[d + 1] = Down(g[d], p[d + 1])
    BY <1>2, <1>3
  <1>. QED  BY <1>1, <1>2, <1>4

\* What a cut of a path is.
LEMMA CutFacts ==
    ASSUME NEW root, NEW p \in Seq(Nat)
    PROVE  /\ Cut(p, Len(p)) = p
           /\ \A d \in 0 .. Len(p) : Cut(p, d) \in Seq(Nat) /\ Len(Cut(p, d)) = d
           /\ \A d \in 0 .. Len(p), e \in Nat : e <= d => Cut(Cut(p, d), e) = Cut(p, e)
  BY DEF Cut

\* The paths that stay within the tree.
IsPath(root, p) ==
    /\ p \in Seq(Nat)
    /\ \A i \in 1 .. Len(p) : p[i] + 1 \in DOMAIN End(root, Cut(p, i - 1)).children

InTree(root, p, d) == d <= MaxDepth /\ End(root, Cut(p, d)) \in Trees[MaxDepth - d]

\* A path that stays in the tree comes to trees of a smaller and smaller depth.
LEMMA PathInTree ==
    ASSUME NEW root, NEW p, IsPath(root, p), root \in Trees[MaxDepth]
    PROVE  \A d \in 0 .. Len(p) : InTree(root, p, d)
  <1>. DEFINE T == {d \in 0 .. Len(p) : InTree(root, p, d)}
  <1>0. Len(p) \in Nat /\ MaxDepth \in Nat
    BY BoundAssumption DEF IsPath
  <1>1. 0 \in T
    BY <1>0, EndOfNothing DEF InTree
  <1>2. ASSUME NEW d \in 0 .. Len(p), d \in T, d < Len(p) PROVE d + 1 \in T
    <2>. DEFINE node == End(root, Cut(p, d))
    <2>1. /\ d \in Nat /\ d <= MaxDepth
          /\ node \in Trees[MaxDepth - d] /\ MaxDepth - d \in 0 .. MaxDepth
      BY <1>0, <1>2 DEF InTree
    <2>2. p[d + 1] + 1 \in DOMAIN node.children
      <3>1. d + 1 \in 1 .. Len(p) /\ (d + 1) - 1 = d
        BY <1>0, <1>2
      <3>2. p[d + 1] + 1 \in DOMAIN End(root, Cut(p, (d + 1) - 1)).children
        BY <3>1 DEF IsPath
      <3>. QED  BY <3>1, <3>2
    <2>3. End(root, Cut(p, d + 1)) = node.children[p[d + 1] + 1]
      <3>1. d + 1 \in 1 .. Len(p) /\ (d + 1) - 1 = d
        BY <1>0, <1>2
      <3>2. End(root, Cut(p, d + 1)) = Down(End(root, Cut(p, d)), p[d + 1])
        <4>1. d < Len(p) /\ d \in Nat
          BY <1>2
        <4>. QED  BY ONLY <1>0, <4>1, EndOfMore
      <3>. QED  BY <3>1, <3>2, <2>2 DEF Down
    <2>. HIDE DEF node
    <2>4. Inner(node, MaxDepth - d)
      <3>1. ~Ended(node)
        BY <2>2 DEF Ended
      <3>. QED  BY <2>1, <3>1, NodeKinds
    <2>5. MaxDepth - d # 0 /\ node.children[p[d + 1] + 1] \in Trees[(MaxDepth - d) - 1]
      BY <2>2, <2>4 DEF Inner
    <2>6. d + 1 <= MaxDepth /\ (MaxDepth - d) - 1 = MaxDepth - (d + 1)
      BY <1>0, <2>1, <2>5
    <2>. QED  BY <1>0, <1>2, <2>3, <2>5, <2>6 DEF InTree
  <1>3. 0 .. Len(p) \subseteq T
    <2>. HIDE DEF T
    <2>. QED  BY <1>0, <1>1, <1>2, UpTo
  <1>. QED  BY <1>3

\* A path comes to a node of the tree: a call of rand or an end.
LEMMA PathNodes ==
    ASSUME NEW root, NEW p, IsPath(root, p), root \in Trees[MaxDepth], NEW d \in 0 .. Len(p)
    PROVE  /\ d <= MaxDepth
           /\ Inner(End(root, Cut(p, d)), MaxDepth - d) \/ Ended(End(root, Cut(p, d)))
  <1>1. InTree(root, p, d)
    BY PathInTree
  <1>2. d <= MaxDepth /\ MaxDepth - d \in 0 .. MaxDepth
    BY <1>1, BoundAssumption DEF InTree, IsPath
  <1>. QED  BY <1>1, <1>2, NodeKinds DEF InTree

\* From the first choice there is no child for, a path leads nowhere.
LEMMA LostForGood ==
    ASSUME NEW root, NEW p, Len(p) \in Nat, NEW i \in 1 .. Len(p),
           p[i] + 1 \notin DOMAIN End(root, Cut(p, i - 1)).children
    PROVE  End(root, Cut(p, Len(p))) = Nowhere
  <1>. DEFINE T == {d \in 0 .. Len(p) : d >= i => End(root, Cut(p, d)) = Nowhere}
  <1>1. 0 \in T
    OBVIOUS
  <1>2. ASSUME NEW d \in 0 .. Len(p), d \in T, d < Len(p) PROVE d + 1 \in T
    <2>1. d + 1 \in 1 .. Len(p) /\ (d + 1) - 1 = d
      BY <1>2
    <2>2. End(root, Cut(p, d + 1)) = Down(End(root, Cut(p, d)), p[d + 1])
      <3>1. d < Len(p) /\ d \in Nat
        BY <1>2
      <3>. QED  BY <3>1, EndOfMore
    <2>3. CASE d + 1 < i
      BY <2>1, <2>3
    <2>4. CASE d + 1 = i
      <3>1. i - 1 = d
        BY <2>1, <2>4
      <3>. QED  BY <2>1, <2>2, <2>4, <3>1 DEF Down
    <2>5. CASE d >= i
      <3>1. End(root, Cut(p, d)) = Nowhere
        BY <1>2, <2>5
      <3>2. DOMAIN Nowhere.children = {}
        BY DEF Nowhere
      <3>. QED  BY <2>1, <2>2, <3>1, <3>2 DEF Down
    <2>. QED  BY <2>1, <2>3, <2>4, <2>5
  <1>3. 0 .. Len(p) \subseteq T
    <2>. HIDE DEF T
    <2>. QED  BY <1>1, <1>2, UpTo
  <1>. QED  BY <1>3

\* The path of an execution stays in the tree and comes to an end.
LEMMA ExecutionIsPath ==
    ASSUME NEW root, NEW p \in Executions(root), root \in Trees[MaxDepth]
    PROVE  IsPath(root, p) /\ Ended(End(root, p))
  <1>1. p \in Seq(0 .. MaxLimit - 1) /\ End(root, p).result # "none"
    <2>1. MaxDepth \in Nat
      BY BoundAssumption
    <2>2. PICK m \in 0 .. MaxDepth : p \in [1 .. m -> 0 .. MaxLimit - 1]
      BY DEF Executions, BoundedSeq, SeqOf
    <2>3. p \in Seq(0 .. MaxLimit - 1)
      <3>. DEFINE S == 0 .. MaxLimit - 1
      <3>1. m \in Nat /\ p \in [1 .. m -> S]
        BY <2>1, <2>2
      <3>. HIDE DEF S
      <3>2. p \in Seq(S)
        BY <3>1
      <3>. QED  BY <3>2 DEF S
    <2>. QED  BY <2>3 DEF Executions
  <1>2. p \in Seq(Nat)
    BY <1>1, BoundAssumption
  <1>3. Cut(p, Len(p)) = p /\ Len(p) \in Nat
    BY <1>2, CutFacts
  <1>4. ASSUME NEW i \in 1 .. Len(p), p[i] + 1 \notin DOMAIN End(root, Cut(p, i - 1)).children
        PROVE  FALSE
    BY <1>1, <1>3, <1>4, LostForGood DEF Nowhere
  <1>5. IsPath(root, p)
    BY <1>2, <1>4 DEF IsPath
  <1>6. Ended(End(root, p))
    <2>1. Len(p) \in 0 .. Len(p)
      BY <1>3
    <2>. QED  BY <1>1, <1>3, <1>5, <2>1, PathNodes DEF Inner
  <1>. QED  BY <1>5, <1>6

\* A path that stays in the tree and comes to an end is an execution.
LEMMA ExecutionOfPath ==
    ASSUME NEW root, NEW p, IsPath(root, p), root \in Trees[MaxDepth], End(root, p).result # "none"
    PROVE  p \in Executions(root)
  <1>1. p \in Seq(Nat) /\ Len(p) \in Nat /\ MaxDepth \in Nat /\ MaxLimit \in Nat
    BY BoundAssumption DEF IsPath
  <1>2. Len(p) \in 0 .. MaxDepth
    <2>1. Len(p) \in 0 .. Len(p)
      BY <1>1
    <2>. QED  BY <1>1, <2>1, PathNodes
  <1>3. ASSUME NEW i \in 1 .. Len(p) PROVE p[i] \in 0 .. MaxLimit - 1
    <2>. DEFINE node == End(root, Cut(p, i - 1))
    <2>1. p[i] + 1 \in DOMAIN node.children /\ p[i] \in Nat
      BY <1>1 DEF IsPath
    <2>2. i - 1 \in 0 .. Len(p)
      BY <1>1
    <2>3. Inner(node, MaxDepth - (i - 1)) \/ Ended(node)
      BY <2>2, PathNodes
    <2>. HIDE DEF node
    <2>4. Len(node.children) \in 1 .. MaxLimit /\ DOMAIN node.children = 1 .. Len(node.children)
      BY <2>1, <2>3 DEF Inner, Ended
    <2>. QED  BY <1>1, <2>1, <2>4
  <1>4. p \in [1 .. Len(p) -> 0 .. MaxLimit - 1]
    BY <1>1, <1>3
  <1>5. p \in BoundedSeq(0 .. MaxLimit - 1, MaxDepth)
    BY <1>2, <1>4 DEF BoundedSeq, SeqOf
  <1>. QED  BY <1>5 DEF Executions

-----------------------------------------------------------------------------
(* The order of the executions                                             *)

\* No path is earlier than itself.
LEMMA NotEarlierThanItself ==
    ASSUME NEW p \in Seq(Nat)
    PROVE  ~Earlier(p, p)
  BY DEF Earlier

\* What is earlier than an earlier path is earlier.
LEMMA EarlierIsTransitive ==
    ASSUME NEW p \in Seq(Nat), NEW q \in Seq(Nat), NEW r \in Seq(Nat),
           Earlier(p, q), Earlier(q, r)
    PROVE  Earlier(p, r)
  <1>1. PICK k \in DOMAIN p \cap DOMAIN q :
            p[k] < q[k] /\ \A i \in 1 .. k - 1 : p[i] = q[i]
    BY DEF Earlier
  <1>2. PICK m \in DOMAIN q \cap DOMAIN r :
            q[m] < r[m] /\ \A i \in 1 .. m - 1 : q[i] = r[i]
    BY DEF Earlier
  <1>3. k \in Nat /\ m \in Nat /\ k >= 1 /\ m >= 1
    OBVIOUS
  <1>4. CASE k < m
    <2>1. k \in 1 .. m - 1 /\ k \in DOMAIN r
      BY <1>3, <1>4
    <2>2. p[k] < r[k]
      BY <1>1, <1>2, <2>1
    <2>3. \A i \in 1 .. k - 1 : p[i] = r[i]
      BY <1>1, <1>2, <1>3, <1>4
    <2>. QED  BY <2>1, <2>2, <2>3 DEF Earlier
  <1>5. CASE m <= k
    <2>1. m \in DOMAIN p
      BY <1>3, <1>5
    <2>2. p[m] < r[m]
      <3>1. p[m] \in Nat /\ q[m] \in Nat /\ r[m] \in Nat
        <4>1. m \in DOMAIN q /\ m \in DOMAIN r
          OBVIOUS
        <4>. QED  BY <2>1, <4>1
      <3>2. p[m] <= q[m]
        <4>1. m < k => m \in 1 .. k - 1
          BY <1>3
        <4>2. CASE m < k
          <5>1. p[m] = q[m]
            BY <1>1, <4>1, <4>2
          <5>. QED  BY <5>1, <3>1
        <4>3. CASE m = k
          BY <1>1, <4>3, <3>1
        <4>4. m < k \/ m = k
          BY ONLY <1>3, <1>5
        <4>. QED  BY <4>2, <4>3, <4>4
      <3>3. q[m] < r[m]
        BY <1>2
      <3>4. \A a, b, c \in Nat : a <= b /\ b < c => a < c
        OBVIOUS
      <3>. QED  BY ONLY <3>1, <3>2, <3>3, <3>4
    <2>3. \A i \in 1 .. m - 1 : p[i] = r[i]
      BY <1>1, <1>2, <1>3, <1>5
    <2>. QED  BY <2>1, <2>2, <2>3 DEF Earlier
  <1>. QED  BY <1>3, <1>4, <1>5

\* Two paths part at a first choice, or one goes on from the end of the other.
LEMMA PathsPart ==
    ASSUME NEW p \in Seq(Nat), NEW q \in Seq(Nat)
    PROVE  \/ Earlier(p, q) \/ Earlier(q, p)
           \/ Len(p) <= Len(q) /\ p = Cut(q, Len(p))
           \/ Len(q) <= Len(p) /\ q = Cut(p, Len(q))
  <1>. DEFINE R == {k \in DOMAIN p \cap DOMAIN q : p[k] # q[k]}
  <1>0. Len(p) \in Nat /\ Len(q) \in Nat
    OBVIOUS
  <1>1. CASE R # {}
    <2>1. R \subseteq Nat
      OBVIOUS
    <2>2. PICK k \in R : \A m \in R : k <= m
      <3>. HIDE DEF R
      <3>. QED  BY <1>1, <2>1, LeastNatural
    <2>3. \A i \in 1 .. k - 1 : p[i] = q[i]
      <3>. SUFFICES ASSUME NEW i \in 1 .. k - 1 PROVE p[i] = q[i]
        OBVIOUS
      <3>1. i \in DOMAIN p \cap DOMAIN q /\ ~(k <= i)
        OBVIOUS
      <3>. QED  BY <2>2, <3>1
    <2>4. k \in DOMAIN p \cap DOMAIN q /\ p[k] \in Nat /\ q[k] \in Nat /\ p[k] # q[k]
      OBVIOUS
    <2>5. CASE p[k] < q[k]
      BY <2>3, <2>4, <2>5 DEF Earlier
    <2>6. CASE q[k] < p[k]
      BY <2>3, <2>4, <2>6 DEF Earlier
    <2>. QED  BY <2>4, <2>5, <2>6
  <1>2. CASE R = {} /\ Len(p) <= Len(q)
    <2>1. \A k \in 1 .. Len(p) : p[k] = q[k]
      BY <1>0, <1>2
    <2>2. p = [k \in 1 .. Len(p) |-> p[k]]
      OBVIOUS
    <2>. QED  BY <1>2, <2>1, <2>2 DEF Cut
  <1>3. CASE R = {} /\ Len(q) <= Len(p)
    <2>1. \A k \in 1 .. Len(q) : p[k] = q[k]
      BY <1>0, <1>3
    <2>2. q = [k \in 1 .. Len(q) |-> q[k]]
      OBVIOUS
    <2>. QED  BY <1>3, <2>1, <2>2 DEF Cut
  <1>. QED  BY <1>0, <1>1, <1>2, <1>3

\* No path goes on from the end of an execution.
LEMMA NothingFollowsAnEnd ==
    ASSUME NEW root, NEW p, NEW q, IsPath(root, q), p \in Seq(Nat), p = Cut(q, Len(p)),
           Len(p) <= Len(q), Ended(End(root, p))
    PROVE  p = q
  <1>1. q \in Seq(Nat) /\ Len(p) \in Nat /\ Len(q) \in Nat
    BY DEF IsPath
  <1>2. CASE Len(p) < Len(q)
    <2>1. Len(p) + 1 \in 1 .. Len(q) /\ (Len(p) + 1) - 1 = Len(p)
      BY <1>1, <1>2
    <2>2. q[Len(p) + 1] + 1 \in DOMAIN End(root, Cut(q, (Len(p) + 1) - 1)).children
      BY <2>1 DEF IsPath
    <2>3. q[Len(p) + 1] + 1 \in DOMAIN End(root, p).children
      BY <2>1, <2>2
    <2>. QED  BY <2>3 DEF Ended
  <1>3. CASE Len(p) = Len(q)
    BY <1>1, <1>3, CutFacts
  <1>. QED  BY <1>1, <1>2, <1>3

\* Of two executions one is the earlier.
LEMMA ExecutionsAreOrdered ==
    ASSUME NEW root, NEW p, NEW q, IsPath(root, p), IsPath(root, q),
           Ended(End(root, p)), Ended(End(root, q)), p # q
    PROVE  Earlier(p, q) \/ Earlier(q, p)
  <1>1. p \in Seq(Nat) /\ q \in Seq(Nat) /\ Len(p) \in Nat /\ Len(q) \in Nat
    BY DEF IsPath
  <1>. QED  BY <1>1, PathsPart, NothingFollowsAnEnd

-----------------------------------------------------------------------------
(* The inductive invariant                                                 *)

\* The path of the search is one of the test, with the limits of its calls.
Follows(root, stree) ==
    \A i \in 1 .. Len(stree) :
        /\ stree[i].count_ = Len(End(root, Cut(Path(stree), i - 1)).children)
        /\ stree[i].index_ < stree[i].count_

\* The first run has explored what is earlier than its path, and only that.
InSearch ==
    /\ current_iter_ = Len(explored) + 1
    /\ \A i \in DOMAIN explored :
        /\ Earlier(explored[i], Path(stree_))
        /\ End(test, explored[i]).result = "success"
    /\ \A p \in Executions(test) : Earlier(p, Path(stree_)) => p \in ToSet(explored)

\* The second run is in the execution in which the first one has failed.
InRepetition ==
    /\ final_state = [stop_iteration |-> Len(explored), stree |-> stree_]
    /\ current_iter_ = Len(explored)
    /\ explored # <<>> /\ Path(stree_) = Last(explored)
    /\ End(test, Last(explored)).result = "failure"
    /\ \A p \in Executions(test) : Earlier(p, Last(explored)) => End(test, p).result = "success"

IInv ==
    /\ test \in Trees[MaxDepth]
    /\ TypeOK
    /\ Follows(test, stree_)
    /\ here = End(test, Cut(Path(stree_), stree_depth_))
    /\ explored \in Seq(Executions(test))
    /\ ExploresInOrder
    /\ outcome = "none" /\ ~second => InSearch
    /\ second => InRepetition
    /\ outcome = "failure" => second
    /\ SuccessIsExhaustive /\ HistoryIsOfTheFailure /\ NoCheckFails

Choice == [count_ : 1 .. MaxLimit, index_ : 0 .. MaxLimit - 1]

\* The path of a sequence of choices.
LEMMA PathFacts ==
    ASSUME NEW s \in Seq(Choice)
    PROVE  /\ Path(s) \in Seq(Nat) /\ Len(Path(s)) = Len(s) /\ Len(s) \in Nat
           /\ \A i \in 1 .. Len(s) : Path(s)[i] = s[i].index_ /\ s[i].index_ \in Nat
  <1>1. \A i \in 1 .. Len(s) : s[i].index_ \in Nat
    <2>1. \A i \in 1 .. Len(s) : s[i] \in Choice
      OBVIOUS
    <2>. QED  BY <2>1 DEF Choice
  <1>2. Path(s) = [i \in 1 .. Len(s) |-> s[i].index_]
    BY DEF Path
  <1>. QED  BY <1>1, <1>2

\* The path of the search is within the tree of the test.
LEMMA SearchesTheTree ==
    ASSUME NEW root, NEW s \in Seq(Choice), Follows(root, s), root \in Trees[MaxDepth]
    PROVE  IsPath(root, Path(s))
  <1>. DEFINE p == Path(s)
  <1>1. p \in Seq(Nat) /\ Len(p) = Len(s)
        /\ \A i \in 1 .. Len(s) : p[i] = s[i].index_ /\ s[i].index_ \in Nat
    BY PathFacts
  <1>2. Follows(root, s) <=> \A i \in 1 .. Len(s) :
            /\ s[i].count_ = Len(End(root, Cut(p, i - 1)).children)
            /\ s[i].index_ < s[i].count_
    BY DEF Follows
  <1>. HIDE DEF p
  <1>. DEFINE T == {d \in 0 .. Len(p) : IsPath(root, Cut(p, d))}
  <1>3. 0 \in T
    BY <1>1, CutFacts DEF IsPath
  <1>4. ASSUME NEW d \in 0 .. Len(p), d \in T, d < Len(p) PROVE d + 1 \in T
    <2>. DEFINE q == Cut(p, d)  r == Cut(p, d + 1)
    <2>1. d \in Nat /\ d + 1 \in 1 .. Len(p) /\ d + 1 \in 0 .. Len(p) /\ (d + 1) - 1 = d
      BY <1>1, <1>4
    <2>2. q \in Seq(Nat) /\ Len(q) = d /\ r \in Seq(Nat) /\ Len(r) = d + 1
      BY <1>1, <2>1, CutFacts
    <2>3. \A e \in 0 .. d : Cut(q, e) = Cut(p, e) /\ Cut(r, e) = Cut(p, e)
      <3>. SUFFICES ASSUME NEW e \in 0 .. d PROVE Cut(q, e) = Cut(p, e) /\ Cut(r, e) = Cut(p, e)
        OBVIOUS
      <3>1. e \in Nat /\ e <= d /\ e <= d + 1 /\ d \in 0 .. Len(p)
        BY <2>1
      <3>. QED  BY <1>1, <2>1, <3>1, CutFacts
    <2>4. \A i \in 1 .. d : q[i] = p[i] /\ r[i] = p[i]
      BY <2>1 DEF Cut
    <2>5. r[d + 1] = p[d + 1]
      BY <2>1 DEF Cut
    <2>6. IsPath(root, q)
      BY <1>4
    <2>. HIDE DEF q, r
    <2>7. p[d + 1] + 1 \in DOMAIN End(root, Cut(p, d)).children
      <3>. DEFINE node == End(root, Cut(p, d))
      <3>1. s[d + 1].count_ = Len(node.children) /\ s[d + 1].index_ < s[d + 1].count_
        BY <1>1, <1>2, <2>1
      <3>2. p[d + 1] = s[d + 1].index_ /\ p[d + 1] \in Nat
        BY <1>1, <2>1
      <3>3. Inner(node, MaxDepth - d) \/ Ended(node)
        <4>1. d \in 0 .. Len(q) /\ Cut(q, d) = Cut(p, d)
          BY <2>1, <2>2, <2>3
        <4>. QED  BY <4>1, <2>6, PathNodes
      <3>. HIDE DEF node
      <3>4. s[d + 1].count_ > 0
        <4>1. s[d + 1] \in Choice
          BY <1>1, <2>1
        <4>. QED  BY <4>1, BoundAssumption DEF Choice
      <3>5. Inner(node, MaxDepth - d)
        BY <3>1, <3>3, <3>4 DEF Ended
      <3>. QED  BY <3>1, <3>2, <3>5, BoundAssumption DEF Inner, node
    <2>8. \A i \in 1 .. d + 1 : r[i] + 1 \in DOMAIN End(root, Cut(r, i - 1)).children
      <3>. SUFFICES ASSUME NEW i \in 1 .. d + 1
                    PROVE  r[i] + 1 \in DOMAIN End(root, Cut(r, i - 1)).children
        OBVIOUS
      <3>1. CASE i = d + 1
        BY <2>1, <2>3, <2>5, <2>7, <3>1
      <3>2. CASE i \in 1 .. d
        <4>1. q[i] + 1 \in DOMAIN End(root, Cut(q, i - 1)).children
          BY <2>2, <2>6, <3>2 DEF IsPath
        <4>2. i - 1 \in 0 .. d
          BY <2>1, <3>2
        <4>3. Cut(q, i - 1) = Cut(r, i - 1)
          BY <2>3, <4>2
        <4>. QED  BY <2>4, <3>2, <4>1, <4>3
      <3>. QED  BY <2>1, <3>1, <3>2
    <2>. QED  BY <2>1, <2>2, <2>8 DEF IsPath, r
  <1>5. Len(p) \in T
    <2>. HIDE DEF T
    <2>1. Len(p) \in Nat
      BY <1>1
    <2>2. 0 .. Len(p) \subseteq T
      BY <1>3, <1>4, <2>1, UpTo
    <2>. QED  BY <2>1, <2>2
  <1>. QED  BY <1>1, <1>5, CutFacts DEF p

\* A choice the search has made, and its node.
LEMMA ChoiceMade ==
    ASSUME NEW root, NEW s \in Seq(Choice), Follows(root, s), root \in Trees[MaxDepth],
           NEW k \in 1 .. Len(s)
    PROVE  /\ s[k].count_ \in Nat /\ s[k].count_ <= MaxLimit
           /\ s[k].index_ \in Nat /\ s[k].index_ < s[k].count_
           /\ DOMAIN End(root, Cut(Path(s), k - 1)).children = 1 .. s[k].count_
           /\ End(root, Cut(Path(s), k - 1)).result = "none"
  <1>. DEFINE node == End(root, Cut(Path(s), k - 1))
  <1>1. s[k].count_ = Len(node.children) /\ s[k].index_ < s[k].count_
    BY DEF Follows
  <1>2. s[k] \in Choice
    OBVIOUS
  <1>3. s[k].count_ \in 1 .. MaxLimit /\ s[k].index_ \in Nat
    BY <1>2 DEF Choice
  <1>4. Inner(node, MaxDepth - (k - 1)) \/ Ended(node)
    <2>1. IsPath(root, Path(s)) /\ Len(Path(s)) = Len(s)
      BY SearchesTheTree, PathFacts
    <2>2. k - 1 \in 0 .. Len(Path(s))
      BY <2>1
    <2>. QED  BY <2>1, <2>2, PathNodes
  <1>. HIDE DEF node
  <1>5. Inner(node, MaxDepth - (k - 1))
    BY <1>1, <1>3, <1>4 DEF Ended
  <1>. QED  BY <1>1, <1>3, <1>5, BoundAssumption DEF Inner, node

\* Where a later path parts from that of the search, there is a next choice.
LEMMA LaterHasNext ==
    ASSUME NEW root, NEW s \in Seq(Choice), Follows(root, s), root \in Trees[MaxDepth],
           NEW q, IsPath(root, q), NEW k \in DOMAIN Path(s) \cap DOMAIN q,
           Path(s)[k] < q[k], \A i \in 1 .. k - 1 : Path(s)[i] = q[i]
    PROVE  s[k].index_ # s[k].count_ - 1
  <1>0. Path(s) \in Seq(Nat) /\ Len(Path(s)) = Len(s) /\ q \in Seq(Nat)
    BY PathFacts DEF IsPath
  <1>1. k \in 1 .. Len(s) /\ Path(s)[k] = s[k].index_ /\ k \in 1 .. Len(q) /\ q[k] \in Nat
    <2>1. k \in 1 .. Len(s) /\ k \in 1 .. Len(q) /\ q[k] \in Nat
      BY <1>0
    <2>. QED  BY <2>1, PathFacts
  <1>2. Cut(Path(s), k - 1) = Cut(q, k - 1)
    BY DEF Cut
  <1>3. q[k] + 1 \in DOMAIN End(root, Cut(q, k - 1)).children
    BY <1>1 DEF IsPath
  <1>4. s[k].count_ \in Nat /\ s[k].index_ \in Nat
        /\ DOMAIN End(root, Cut(Path(s), k - 1)).children = 1 .. s[k].count_
    BY <1>1, ChoiceMade
  <1>5. q[k] + 1 \in 1 .. s[k].count_
    BY <1>2, <1>3, <1>4
  <1>. QED  BY <1>1, <1>4, <1>5

\* The path of an execution, every choice of which has been the last one, is
\* the last of the test.
LEMMA LastIsLast ==
    ASSUME NEW root, NEW s \in Seq(Choice), Follows(root, s), root \in Trees[MaxDepth],
           Ended(End(root, Path(s))), \A i \in 1 .. Len(s) : s[i].index_ = s[i].count_ - 1,
           NEW q \in Executions(root)
    PROVE  q = Path(s) \/ Earlier(q, Path(s))
  <1>1. IsPath(root, q) /\ Ended(End(root, q)) /\ IsPath(root, Path(s))
    BY ExecutionIsPath, SearchesTheTree
  <1>2. ASSUME Earlier(Path(s), q) PROVE FALSE
    <2>1. PICK k \in DOMAIN Path(s) \cap DOMAIN q :
              Path(s)[k] < q[k] /\ \A i \in 1 .. k - 1 : Path(s)[i] = q[i]
      BY <1>2 DEF Earlier
    <2>2. k \in 1 .. Len(s)
      BY PathFacts
    <2>. QED  BY <1>1, <2>1, <2>2, LaterHasNext
  <1>. QED  BY <1>1, <1>2, ExecutionsAreOrdered

Stepped(s, i) == [SubSeq(s, 1, i) EXCEPT ![i].index_ = @ + 1]
Fresh(limit) == [count_ |-> limit, index_ |-> 0]

\* The next path, from the last choice that has a next one.
LEMMA NextPath ==
    ASSUME NEW root, NEW s \in Seq(Choice), Follows(root, s), root \in Trees[MaxDepth],
           NEW i \in 1 .. Len(s), s[i].index_ # s[i].count_ - 1,
           NEW t, t = Stepped(s, i)
    PROVE  /\ t \in Seq(Choice) /\ Len(t) = i
           /\ \A j \in 1 .. i - 1 : Path(t)[j] = Path(s)[j]
           /\ Path(t)[i] = Path(s)[i] + 1
           /\ Follows(root, t)
           /\ Earlier(Path(s), Path(t))
  <1>0. i \in Nat /\ Len(s) \in Nat /\ i \in 1 .. i
    OBVIOUS
  <1>. DEFINE r == SubSeq(s, 1, i)
  <1>1. Len(r) = i /\ r \in Seq(Choice) /\ \A j \in 1 .. i : r[j] = s[j]
    BY <1>0
  <1>. DEFINE c == [s[i] EXCEPT !.index_ = @ + 1]
  <1>2. c \in Choice /\ c.index_ = s[i].index_ + 1 /\ c.count_ = s[i].count_
    <2>1. s[i] \in Choice
      OBVIOUS
    <2>2. /\ s[i].count_ \in Nat /\ s[i].count_ <= MaxLimit
          /\ s[i].index_ \in Nat /\ s[i].index_ < s[i].count_
      BY ChoiceMade
    <2>3. s[i].index_ + 1 \in 0 .. MaxLimit - 1
      BY <2>2, BoundAssumption
    <2>. QED  BY <2>1, <2>3 DEF Choice
  <1>3. t = [r EXCEPT ![i] = c]
    <2>1. t = [r EXCEPT ![i] = [r[i] EXCEPT !.index_ = r[i].index_ + 1]]
      BY Zenon DEF Stepped
    <2>2. r[i] = s[i]
      BY <1>0, <1>1
    <2>. QED  BY Zenon, <2>1, <2>2
  <1>. HIDE DEF r, c
  <1>4. t \in Seq(Choice) /\ Len(t) = i
    BY <1>0, <1>1, <1>2, <1>3
  <1>5. t[i] = c /\ \A j \in 1 .. i - 1 : t[j] = s[j]
    BY <1>0, <1>1, <1>3
  <1>6. \A j \in 1 .. i - 1 : Path(t)[j] = Path(s)[j]
    BY <1>0, <1>4, <1>5 DEF Path
  <1>7. Path(t)[i] = Path(s)[i] + 1
    BY <1>0, <1>2, <1>4, <1>5 DEF Path
  <1>8. Follows(root, t)
    <2>. SUFFICES ASSUME NEW j \in 1 .. i
                  PROVE  /\ t[j].count_ = Len(End(root, Cut(Path(t), j - 1)).children)
                         /\ t[j].index_ < t[j].count_
      BY <1>4 DEF Follows
    <2>1. Cut(Path(t), j - 1) = Cut(Path(s), j - 1)
      <3>1. \A m \in 1 .. j - 1 : m \in 1 .. i - 1
        BY <1>0
      <3>. QED  BY <1>6, <3>1 DEF Cut
    <2>2. /\ s[j].count_ = Len(End(root, Cut(Path(s), j - 1)).children)
          /\ s[j].index_ < s[j].count_
      BY <1>0 DEF Follows
    <2>3. CASE j = i
      <3>1. /\ s[i].count_ \in Nat /\ s[i].index_ \in Nat /\ s[i].index_ < s[i].count_
            /\ s[i].index_ # s[i].count_ - 1
        BY ChoiceMade
      <3>2. s[i].index_ + 1 < s[i].count_
        BY ONLY <3>1
      <3>. QED  BY <1>2, <1>5, <2>1, <2>2, <2>3, <3>2
    <2>4. CASE j # i
      <3>0. j \in 1 .. i - 1
        BY <1>0, <2>4
      <3>1. t[j] = s[j]
        BY <1>5, <3>0
      <3>. QED  BY <2>1, <2>2, <3>1
    <2>. QED  BY <2>3, <2>4
  <1>9. Earlier(Path(s), Path(t))
    <2>0. /\ Path(s) \in Seq(Nat) /\ Len(Path(s)) = Len(s)
          /\ Path(t) \in Seq(Nat) /\ Len(Path(t)) = i
      BY <1>4, PathFacts
    <2>1. i \in DOMAIN Path(s) \cap DOMAIN Path(t) /\ Path(s)[i] \in Nat
      <3>1. i \in 1 .. Len(s)
        OBVIOUS
      <3>. QED  BY ONLY <1>0, <2>0, <3>1
    <2>2. Path(s)[i] < Path(t)[i]
      BY ONLY <1>7, <2>1
    <2>. QED  BY <1>6, <2>1, <2>2 DEF Earlier
  <1>. QED  BY <1>4, <1>6, <1>7, <1>8, <1>9

\* Nothing is between the path of an execution and the next one.
LEMMA NothingBetween ==
    ASSUME NEW root, NEW s \in Seq(Choice), Follows(root, s), root \in Trees[MaxDepth],
           Ended(End(root, Path(s))), NEW i \in 1 .. Len(s),
           \A j \in i + 1 .. Len(s) : s[j].index_ = s[j].count_ - 1,
           NEW p2 \in Seq(Nat), Len(p2) = i, p2[i] = Path(s)[i] + 1,
           \A j \in 1 .. i - 1 : p2[j] = Path(s)[j],
           NEW q \in Executions(root), Earlier(q, p2)
    PROVE  q = Path(s) \/ Earlier(q, Path(s))
  <1>1. IsPath(root, q) /\ Ended(End(root, q)) /\ IsPath(root, Path(s))
    BY ExecutionIsPath, SearchesTheTree
  <1>2. PICK k \in DOMAIN q \cap DOMAIN p2 : q[k] < p2[k] /\ \A j \in 1 .. k - 1 : q[j] = p2[j]
    BY DEF Earlier
  <1>3. /\ i \in Nat /\ k \in 1 .. i /\ Len(s) \in Nat /\ q \in Seq(Nat) /\ q[k] \in Nat
        /\ Path(s) \in Seq(Nat) /\ Len(Path(s)) = Len(s) /\ Path(s)[k] \in Nat
        /\ k \in DOMAIN Path(s)
    <2>1. q \in Seq(Nat) /\ Path(s) \in Seq(Nat) /\ Len(Path(s)) = Len(s)
      BY <1>1, PathFacts DEF IsPath
    <2>2. i \in Nat /\ Len(s) \in Nat /\ i <= Len(s) /\ k \in 1 .. i
      OBVIOUS
    <2>3. k \in 1 .. Len(s)
      BY ONLY <2>2
    <2>4. k \in DOMAIN q
      OBVIOUS
    <2>5. q[k] \in Nat
      BY ONLY <2>1, <2>4
    <2>6. k \in DOMAIN Path(s) /\ Path(s)[k] \in Nat
      BY ONLY <2>1, <2>3
    <2>. QED  BY <2>1, <2>2, <2>5, <2>6
  <1>4. CASE q[k] < Path(s)[k]
    <2>1. \A j \in 1 .. k - 1 : q[j] = Path(s)[j]
      BY <1>2, <1>3
    <2>. QED  BY <1>2, <1>3, <1>4, <2>1 DEF Earlier
  <1>5. CASE ~(q[k] < Path(s)[k])
    <2>1. k = i /\ q[k] = Path(s)[k]
      <3>1. k < i => p2[k] = Path(s)[k]
        <4>1. k < i => k \in 1 .. i - 1
          BY <1>3
        <4>. QED  BY <4>1
      <3>. QED  BY <1>2, <1>3, <1>5, <3>1
    <2>2. \A j \in 1 .. i : q[j] = Path(s)[j]
      <3>1. \A j \in 1 .. i - 1 : q[j] = Path(s)[j]
        BY <1>2, <2>1
      <3>2. \A j \in 1 .. i : j = i \/ j \in 1 .. i - 1
        BY ONLY <1>3
      <3>. QED  BY <2>1, <3>1, <3>2
    <2>3. ASSUME Earlier(Path(s), q) PROVE FALSE
      <3>1. PICK m \in DOMAIN Path(s) \cap DOMAIN q :
                Path(s)[m] < q[m] /\ \A j \in 1 .. m - 1 : Path(s)[j] = q[j]
        BY <2>3 DEF Earlier
      <3>2. m \in 1 .. Len(s)
        <4>1. DOMAIN Path(s) = 1 .. Len(s)
          BY ONLY <1>3
        <4>. QED  BY <4>1
      <3>3. m \in i + 1 .. Len(s)
        BY <1>3, <2>2, <3>1, <3>2
      <3>. QED  BY <1>1, <3>1, <3>2, <3>3, LaterHasNext
    <2>. QED  BY <1>1, <2>3, ExecutionsAreOrdered
  <1>. QED  BY <1>4, <1>5

\* A call of rand that has not been made before.
LEMMA NewChoice ==
    ASSUME NEW root, NEW s \in Seq(Choice), Follows(root, s), root \in Trees[MaxDepth],
           NEW limit, limit = Len(End(root, Path(s)).children), limit \in Nat, limit > 0,
           NEW t, t = Append(s, Fresh(limit))
    PROVE  /\ t \in Seq(Choice) /\ Len(t) = Len(s) + 1
           /\ Path(t) = Append(Path(s), 0)
           /\ Follows(root, t)
  <1>0. /\ Len(s) \in Nat /\ Path(s) \in Seq(Nat) /\ Len(Path(s)) = Len(s)
        /\ Cut(Path(s), Len(s)) = Path(s)
    BY PathFacts, CutFacts
  <1>. DEFINE c == [count_ |-> limit, index_ |-> 0]
  <1>1. c \in Choice
    <2>. DEFINE node == End(root, Path(s))
    <2>1. IsPath(root, Path(s)) /\ Len(s) \in 0 .. Len(Path(s))
      BY <1>0, SearchesTheTree
    <2>2. Inner(node, MaxDepth - Len(s)) \/ Ended(node)
      BY <1>0, <2>1, PathNodes
    <2>. HIDE DEF node
    <2>3. Inner(node, MaxDepth - Len(s))
      BY <2>2 DEF Ended, node
    <2>4. limit \in 1 .. MaxLimit
      BY <2>3 DEF Inner, node
    <2>. QED  BY <2>4, BoundAssumption DEF Choice
  <1>2. t = Append(s, c)
    BY DEF Fresh
  <1>. HIDE DEF c
  <1>3. /\ t \in Seq(Choice) /\ Len(t) = Len(s) + 1 /\ t[Len(s) + 1] = c
        /\ \A j \in 1 .. Len(s) : t[j] = s[j]
    BY <1>0, <1>1, <1>2
  <1>4. Path(t) = Append(Path(s), 0)
    <2>1. Path(t) \in Seq(Nat) /\ Len(Path(t)) = Len(s) + 1
          /\ \A j \in 1 .. Len(s) + 1 : Path(t)[j] = t[j].index_
      BY <1>3, PathFacts
    <2>2. \A j \in 1 .. Len(s) + 1 : Path(t)[j] = Append(Path(s), 0)[j]
      <3>. SUFFICES ASSUME NEW j \in 1 .. Len(s) + 1 PROVE Path(t)[j] = Append(Path(s), 0)[j]
        OBVIOUS
      <3>1. CASE j = Len(s) + 1
        <4>1. Path(t)[j] = t[j].index_ /\ t[j] = c /\ c.index_ = 0
          BY <1>3, <2>1, <3>1 DEF c
        <4>2. Append(Path(s), 0)[j] = 0
          BY ONLY <1>0, <3>1
        <4>. QED  BY <4>1, <4>2
      <3>2. CASE j \in 1 .. Len(s)
        <4>1. Path(s)[j] = s[j].index_
          BY <3>2, PathFacts
        <4>2. Append(Path(s), 0)[j] = Path(s)[j]
          BY ONLY <1>0, <3>2
        <4>3. Path(t)[j] = t[j].index_ /\ t[j] = s[j]
          BY <1>3, <2>1, <3>2
        <4>. QED  BY <4>1, <4>2, <4>3
      <3>. QED  BY <1>0, <3>1, <3>2
    <2>3. Append(Path(s), 0) \in Seq(Nat) /\ Len(Append(Path(s), 0)) = Len(s) + 1
      BY <1>0
    <2>. HIDE DEF c
    <2>. DEFINE a == Append(Path(s), 0)  b == Path(t)
    <2>4. /\ a \in Seq(Nat) /\ b \in Seq(Nat) /\ Len(a) = Len(b)
          /\ \A j \in 1 .. Len(b) : b[j] = a[j]
      BY <2>1, <2>2, <2>3
    <2>. HIDE DEF a, b
    <2>5. a = b
      <3>1. a = [j \in 1 .. Len(a) |-> a[j]] /\ b = [j \in 1 .. Len(b) |-> b[j]]
        BY <2>4
      <3>2. \A j \in 1 .. Len(a) : a[j] = b[j]
        BY <2>4
      <3>. DEFINE n == Len(b)
      <3>3. Len(a) = n
        BY <2>4
      <3>. HIDE DEF n
      <3>. QED  BY <3>1, <3>2, <3>3 DEF n
    <2>. QED  BY <2>5 DEF a, b
  <1>5. \A e \in 0 .. Len(s) : Cut(Path(t), e) = Cut(Path(s), e)
    <2>1. \A j \in 1 .. Len(s) : Path(t)[j] = Path(s)[j]
      <3>. DEFINE P == Path(s)  n == Len(s)
      <3>1. P \in Seq(Nat) /\ Len(P) = n /\ n \in Nat /\ Path(t) = Append(P, 0)
        BY <1>0, <1>4
      <3>. HIDE DEF P, n
      <3>2. \A j \in 1 .. n : Append(P, 0)[j] = P[j]
        BY <3>1
      <3>. QED  BY <3>1, <3>2 DEF P, n
    <2>. QED  BY <1>0, <2>1 DEF Cut
  <1>6. Follows(root, t)
    <2>. SUFFICES ASSUME NEW j \in 1 .. Len(s) + 1
                  PROVE  /\ t[j].count_ = Len(End(root, Cut(Path(t), j - 1)).children)
                         /\ t[j].index_ < t[j].count_
      BY <1>3 DEF Follows
    <2>1. j - 1 \in 0 .. Len(s) /\ Cut(Path(t), j - 1) = Cut(Path(s), j - 1)
      BY <1>0, <1>5
    <2>2. CASE j = Len(s) + 1
      <3>1. j - 1 = Len(s)
        BY <1>0, <2>2
      <3>. QED  BY <1>0, <1>3, <2>1, <2>2, <3>1 DEF c
    <2>3. CASE j \in 1 .. Len(s)
      BY <1>3, <2>1, <2>3 DEF Follows
    <2>. QED  BY <1>0, <2>2, <2>3
  <1>. QED  BY <1>3, <1>4, <1>6

\* The order of the executions before and after it.
LEMMA NewChoiceOrder ==
    ASSUME NEW p \in Seq(Nat), NEW q \in Seq(Nat)
    PROVE  Earlier(q, Append(p, 0)) <=> Earlier(q, p)
  <1>. DEFINE r == Append(p, 0)
  <1>1. /\ Len(p) \in Nat /\ r \in Seq(Nat) /\ Len(r) = Len(p) + 1 /\ r[Len(p) + 1] = 0
        /\ \A i \in 1 .. Len(p) : r[i] = p[i]
    OBVIOUS
  <1>. HIDE DEF r
  <1>2. ASSUME Earlier(q, p) PROVE Earlier(q, r)
    <2>1. PICK k \in DOMAIN q \cap DOMAIN p : q[k] < p[k] /\ \A i \in 1 .. k - 1 : q[i] = p[i]
      BY <1>2 DEF Earlier
    <2>0. k \in 1 .. Len(p)
      OBVIOUS
    <2>2. k \in DOMAIN r /\ r[k] = p[k] /\ \A i \in 1 .. k - 1 : r[i] = p[i]
      BY <1>1, <2>0
    <2>. QED  BY <2>1, <2>2 DEF Earlier
  <1>3. ASSUME Earlier(q, r) PROVE Earlier(q, p)
    <2>1. PICK k \in DOMAIN q \cap DOMAIN r : q[k] < r[k] /\ \A i \in 1 .. k - 1 : q[i] = r[i]
      BY <1>3 DEF Earlier
    <2>2. k # Len(p) + 1
      BY <1>1, <2>1
    <2>0. k \in 1 .. Len(r)
      BY <1>1
    <2>3. k \in DOMAIN p /\ r[k] = p[k] /\ \A i \in 1 .. k - 1 : r[i] = p[i]
      <3>1. k \in 1 .. Len(p)
        BY ONLY <1>1, <2>0, <2>2
      <3>2. r[k] = p[k] /\ \A i \in 1 .. k - 1 : i \in 1 .. Len(p)
        BY ONLY <1>1, <3>1
      <3>. QED  BY <1>1, <3>1, <3>2
    <2>. QED  BY <2>1, <2>3 DEF Earlier
  <1>. QED  BY <1>2, <1>3 DEF r

-----------------------------------------------------------------------------
(* The steps of the search                                                 *)

InOrder(root, e) ==
    /\ IsInjective(e)
    /\ \A i \in DOMAIN e :
        /\ e[i] \in Executions(root)
        /\ \A p \in Executions(root) : Earlier(p, e[i]) => p \in ToSet(e)

GrownBy(f, e, P) ==
    /\ \A i \in DOMAIN f : f[i] = P \/ (i \in DOMAIN e /\ f[i] = e[i])
    /\ ToSet(f) = ToSet(e) \cup {P}

\* The next execution, after all the earlier ones and only them.
LEMMA OneMore ==
    ASSUME NEW root, root \in Trees[MaxDepth], NEW e \in Seq(Executions(root)),
           NEW P \in Executions(root), InOrder(root, e),
           \A i \in DOMAIN e : Earlier(e[i], P),
           \A p \in Executions(root) : Earlier(p, P) => p \in ToSet(e),
           NEW f, f = Append(e, P)
    PROVE  /\ f \in Seq(Executions(root)) /\ InOrder(root, f)
           /\ Len(f) = Len(e) + 1 /\ f # <<>> /\ Last(f) = P
           /\ GrownBy(f, e, P)
  <1>. DEFINE X == Executions(root)
  <1>1. P \in Seq(Nat)
    BY ExecutionIsPath DEF IsPath
  <1>. HIDE DEF X
  <1>2. /\ f \in Seq(X) /\ Len(e) \in Nat /\ Len(f) = Len(e) + 1 /\ f[Len(e) + 1] = P
        /\ \A i \in 1 .. Len(e) : f[i] = e[i]
    BY DEF X
  <1>3. DOMAIN f = 1 .. Len(e) + 1 /\ DOMAIN e = 1 .. Len(e)
    <2>1. e \in Seq(X)
      BY DEF X
    <2>. QED  BY <1>2, <2>1
  <1>4. \A i \in DOMAIN f : (i = Len(e) + 1 /\ f[i] = P) \/ (i \in DOMAIN e /\ f[i] = e[i])
    <2>. SUFFICES ASSUME NEW i \in DOMAIN f
                  PROVE  (i = Len(e) + 1 /\ f[i] = P) \/ (i \in DOMAIN e /\ f[i] = e[i])
      OBVIOUS
    <2>1. i \in 1 .. Len(e) \/ i = Len(e) + 1
      BY ONLY <1>2, <1>3
    <2>2. CASE i = Len(e) + 1
      BY <1>2, <2>2
    <2>3. CASE i \in 1 .. Len(e)
      BY <1>2, <1>3, <2>3
    <2>. QED  BY <2>1, <2>2, <2>3
  <1>5. ToSet(f) = ToSet(e) \cup {P}
    <2>1. \A i \in DOMAIN e : i \in DOMAIN f /\ f[i] = e[i]
      BY <1>2, <1>3
    <2>2. Len(e) + 1 \in DOMAIN f
      BY <1>2, <1>3
    <2>. QED  BY <1>2, <1>4, <2>1, <2>2 DEF ToSet
  <1>6. \A i \in DOMAIN e : e[i] # P
    BY <1>1, NotEarlierThanItself
  <1>7. IsInjective(f)
    <2>. SUFFICES ASSUME NEW a \in DOMAIN f, NEW b \in DOMAIN f, f[a] = f[b] PROVE a = b
      BY DEF IsInjective
    <2>. QED  BY <1>4, <1>6 DEF InOrder, IsInjective
  <1>8. InOrder(root, f)
    <2>. SUFFICES ASSUME NEW i \in DOMAIN f
                  PROVE  /\ f[i] \in Executions(root)
                         /\ \A p \in Executions(root) : Earlier(p, f[i]) => p \in ToSet(f)
      BY <1>7 DEF InOrder
    <2>1. CASE f[i] = P
      BY <1>5, <2>1
    <2>2. CASE i \in DOMAIN e /\ f[i] = e[i]
      BY <1>5, <2>2 DEF InOrder
    <2>. QED  BY <1>4, <2>1, <2>2
  <1>9. f # <<>> /\ Last(f) = P
    BY <1>2, <1>3 DEF Last
  <1>. QED  BY <1>2, <1>4, <1>5, <1>8, <1>9 DEF X, GrownBy

\* What the invariant says of the path and of the node.
LEMMA Found ==
    ASSUME IInv
    PROVE  /\ stree_ \in Seq(Choice) /\ Len(stree_) \in Nat
           /\ Path(stree_) \in Seq(Nat) /\ Len(Path(stree_)) = Len(stree_)
           /\ stree_depth_ \in 0 .. Len(stree_) /\ stree_depth_ \in Nat
           /\ IsPath(test, Path(stree_))
           /\ stree_depth_ <= MaxDepth
           /\ Inner(here, MaxDepth - stree_depth_) \/ Ended(here)
  <1>1. stree_ \in Seq(Choice) /\ stree_depth_ \in 0 .. Len(stree_)
    BY DEF IInv, TypeOK, Choice
  <1>2. Path(stree_) \in Seq(Nat) /\ Len(Path(stree_)) = Len(stree_) /\ Len(stree_) \in Nat
    BY <1>1, PathFacts
  <1>3. IsPath(test, Path(stree_))
    BY <1>1, SearchesTheTree DEF IInv
  <1>. QED  BY <1>1, <1>2, <1>3, PathNodes DEF IInv

\* At the end of an execution all the choices of the path have been made.
LEMMA EndOfThePath ==
    ASSUME IInv, here.result \in {"success", "failure"}
    PROVE  /\ stree_depth_ = Len(stree_) /\ here = End(test, Path(stree_)) /\ Ended(here)
           /\ Path(stree_) \in Executions(test)
  <1>1. stree_depth_ = Len(stree_)
    <2>. SUFFICES ASSUME stree_depth_ # Len(stree_) PROVE FALSE
      OBVIOUS
    <2>1. stree_depth_ + 1 \in 1 .. Len(stree_) /\ (stree_depth_ + 1) - 1 = stree_depth_
      BY Found
    <2>2. End(test, Cut(Path(stree_), (stree_depth_ + 1) - 1)).result = "none"
      BY <2>1, Found, ChoiceMade DEF IInv
    <2>. QED  BY <2>1, <2>2 DEF IInv
  <1>2. here = End(test, Path(stree_))
    BY <1>1, Found, CutFacts DEF IInv
  <1>3. Ended(here)
    BY Found DEF Inner
  <1>. QED  BY <1>1, <1>2, <1>3, Found, ExecutionOfPath DEF IInv

\* The search starts with nothing explored.
LEMMA InitHolds ==
    ASSUME Init
    PROVE  IInv
  <1>1. Path(<<>>) = <<>> /\ Len(<<>>) = 0 /\ DOMAIN <<>> = {}
    BY DEF Path
  <1>2. TypeOK
    <2>1. <<>> \in Seq(Choice)
      OBVIOUS
    <2>2. stree_ \in Seq(Choice) /\ stree_depth_ \in 0 .. Len(stree_)
      BY <1>1, <2>1 DEF Init
    <2>3. current_iter_ = 1 /\ second = FALSE /\ outcome = "none"
      BY DEF Init
    <2>4. current_iter_ \in Nat \ {0} /\ outcome \in {"none", "success", "failure", "verify"}
      BY <2>3
    <2>5. second \in BOOLEAN
      BY <2>3, Zenon
    <2>. QED  BY <2>2, <2>4, <2>5 DEF TypeOK, Choice
  <1>3. Follows(test, stree_)
    BY DEF Init, Follows
  <1>4. here = End(test, Cut(Path(stree_), stree_depth_))
    <2>1. End(test, Cut(<<>>, 0)) = test
      BY <1>1, EndOfNothing
    <2>. QED  BY <1>1, <2>1 DEF Init
  <1>5. explored \in Seq(Executions(test)) /\ ExploresInOrder
    BY DEF Init, ExploresInOrder, IsInjective
  <1>6. InSearch
    BY <1>1 DEF Init, InSearch, Earlier
  <1>. QED
    BY <1>2, <1>3, <1>4, <1>5, <1>6
    DEF Init, IInv, SuccessIsExhaustive, HistoryIsOfTheFailure, NoCheckFails

\* A step that only ends the second run, or nothing.
LEMMA SecondRunHolds ==
    ASSUME IInv, outcome = "none", SecondRunFails
    PROVE  IInv'
  <1>1. InRepetition /\ second
    BY DEF IInv, SecondRunFails
  <1>2. outcome' = "failure"
    BY <1>1 DEF SecondRunFails, Stop, InRepetition
  <1>3. UNCHANGED <<test, here, stree_, stree_depth_, current_iter_, second, final_state, explored>>
    BY DEF SecondRunFails, Stop
  <1>4. TypeOK' /\ ExploresInOrder' /\ InRepetition'
    BY <1>1, <1>2, <1>3 DEF IInv, TypeOK, ExploresInOrder, InRepetition
  <1>5. SuccessIsExhaustive' /\ HistoryIsOfTheFailure' /\ NoCheckFails'
    BY <1>1, <1>2, <1>3
    DEF SuccessIsExhaustive, HistoryIsOfTheFailure, NoCheckFails, InRepetition
  <1>. QED  BY <1>1, <1>2, <1>3, <1>4, <1>5 DEF IInv

\* The first run fails: the path, and what is earlier, are those of the failure.
LEMMA FirstRunHolds ==
    ASSUME IInv, outcome = "none", FirstRunFails
    PROVE  IInv'
  <1>. DEFINE P == Path(stree_)
  <1>1. InSearch /\ ~second /\ here.result = "failure"
    BY DEF IInv, FirstRunFails
  <1>2. P \in Executions(test) /\ here = End(test, P)
    BY <1>1, EndOfThePath
  <1>3. /\ test' = test /\ stree_' = stree_ /\ stree_depth_' = 0 /\ here' = test
        /\ current_iter_' = current_iter_ /\ second' = TRUE /\ outcome' = "none"
        /\ final_state' = [stop_iteration |-> current_iter_, stree |-> stree_]
        /\ explored' = Append(explored, P)
    BY DEF FirstRunFails
  <1>4. /\ explored' \in Seq(Executions(test)) /\ InOrder(test, explored')
        /\ Len(explored') = Len(explored) + 1 /\ explored' # <<>> /\ Last(explored') = P
    <2>1. /\ \A i \in DOMAIN explored : Earlier(explored[i], P)
          /\ \A p \in Executions(test) : Earlier(p, P) => p \in ToSet(explored)
      BY <1>1 DEF InSearch
    <2>2. InOrder(test, explored) /\ test \in Trees[MaxDepth] /\ explored \in Seq(Executions(test))
      BY DEF IInv, InOrder, ExploresInOrder
    <2>. HIDE DEF P
    <2>. QED  BY <1>2, <1>3, <2>1, <2>2, OneMore
  <1>5. InRepetition'
    <2>1. \A p \in Executions(test) : Earlier(p, P) => End(test, p).result = "success"
      <3>. SUFFICES ASSUME NEW p \in Executions(test), Earlier(p, P)
                    PROVE  End(test, p).result = "success"
        OBVIOUS
      <3>1. PICK i \in DOMAIN explored : p = explored[i]
        BY <1>1 DEF InSearch, ToSet
      <3>. QED  BY <1>1, <3>1 DEF InSearch
    <2>2. current_iter_ = Len(explored')
      BY <1>1, <1>4 DEF InSearch
    <2>. QED  BY <1>1, <1>2, <1>3, <1>4, <2>1, <2>2 DEF InRepetition
  <1>6. ExploresInOrder'
    BY <1>3, <1>4 DEF ExploresInOrder, InOrder
  <1>7. TypeOK'
    BY <1>3, Found DEF IInv, TypeOK
  <1>8. here' = End(test, Cut(P, 0))
    BY <1>3, Found, EndOfNothing
  <1>. QED
    BY <1>3, <1>4, <1>5, <1>6, <1>7, <1>8
    DEF IInv, SuccessIsExhaustive, HistoryIsOfTheFailure, NoCheckFails

\* A call of rand: the path gets longer only in the first run, by a first choice.
LEMMA RandHolds ==
    ASSUME IInv, outcome = "none", Rand
    PROVE  IInv'
  <1>. DEFINE P == Path(stree_)
              limit == Len(here.children)
              n == Chosen(limit)
              d == stree_depth_
              t == IF d = Len(stree_) THEN Append(stree_, n) ELSE stree_
  <1>1. /\ here = End(test, Cut(P, d)) /\ Follows(test, stree_) /\ test \in Trees[MaxDepth]
        /\ limit > 0 /\ explored' = explored
    BY DEF IInv, Rand
  <1>2. /\ stree_ \in Seq(Choice) /\ Len(stree_) \in Nat /\ P \in Seq(Nat) /\ Len(P) = Len(stree_)
        /\ d \in 0 .. Len(stree_) /\ d \in Nat /\ Cut(P, Len(P)) = P
    BY Found, CutFacts
  <1>3. /\ Inner(here, MaxDepth - d) /\ here.result = "none"
        /\ limit \in Nat /\ DOMAIN here.children = 1 .. limit
    <2>1. ~Ended(here)
      BY <1>1 DEF Ended
    <2>2. Inner(here, MaxDepth - d)
      BY <2>1, Found
    <2>. QED  BY <2>2, BoundAssumption DEF Inner
  <1>4. /\ n.count_ = limit /\ n.index_ \in Nat /\ n.index_ < limit
        /\ t \in Seq(Choice) /\ Follows(test, t) /\ d + 1 \in 1 .. Len(t)
        /\ t[d + 1] = n /\ Cut(Path(t), d) = Cut(P, d)
    <2>1. CASE d = Len(stree_)
      <3>1. n = [count_ |-> limit, index_ |-> 0] /\ t = Append(stree_, n)
        BY <2>1 DEF Chosen
      <3>2. limit = Len(End(test, P).children)
        BY <1>1, <1>2, <2>1
      <3>. HIDE DEF limit, n, t, P
      <3>3. /\ t \in Seq(Choice) /\ Len(t) = Len(stree_) + 1
            /\ Path(t) = Append(Path(stree_), 0) /\ Follows(test, t)
        <4>1. t = Append(stree_, Fresh(limit)) /\ limit = Len(End(test, Path(stree_)).children)
          BY <3>1, <3>2 DEF Fresh, P
        <4>2. stree_ \in Seq(Choice) /\ Follows(test, stree_) /\ test \in Trees[MaxDepth]
              /\ limit \in Nat /\ limit > 0
          BY <1>1, <1>2, <1>3
        <4>3. t \in Seq(Choice)
          BY ONLY <4>1, <4>2, NewChoice
        <4>4. Len(t) = Len(stree_) + 1
          BY ONLY <4>1, <4>2, NewChoice
        <4>5. Path(t) = Append(Path(stree_), 0)
          BY <1>1, <1>2, <1>3, <4>1, <4>2, NewChoice DEF P
        <4>6. Follows(test, t)
          BY ONLY <4>1, <4>2, NewChoice
        <4>. QED  BY <4>3, <4>4, <4>5, <4>6
      <3>4. t[d + 1] = n
        BY <1>2, <2>1, <3>1
      <3>5. Cut(Path(t), d) = Cut(P, d)
        <4>1. \A i \in 1 .. d : Append(P, 0)[i] = P[i]
          BY <1>2, <2>1
        <4>. QED  BY <3>3, <4>1 DEF Cut, P
      <3>6. d + 1 \in 1 .. Len(t)
        BY <1>2, <2>1, <3>3
      <3>. QED  BY <1>1, <1>3, <3>1, <3>3, <3>4, <3>5, <3>6
    <2>2. CASE d # Len(stree_)
      <3>1. n = stree_[d + 1] /\ t = stree_
        BY <2>2 DEF Chosen
      <3>2. d + 1 \in 1 .. Len(stree_) /\ (d + 1) - 1 = d
        BY <1>2, <2>2
      <3>. HIDE DEF n, t
      <3>3. stree_[d + 1].count_ = Len(End(test, Cut(Path(stree_), (d + 1) - 1)).children)
        BY <1>1, <3>2 DEF Follows
      <3>4. stree_[d + 1].index_ \in Nat /\ stree_[d + 1].index_ < stree_[d + 1].count_
        BY <1>1, <1>2, <3>2, ChoiceMade
      <3>5. stree_[d + 1].count_ = limit
        BY <1>1, <3>2, <3>3
      <3>. QED  BY <1>1, <1>2, <3>1, <3>2, <3>4, <3>5
    <2>. QED  BY <2>1, <2>2
  <1>5. /\ stree_' = t /\ stree_depth_' = d + 1 /\ here' = here.children[n.index_ + 1]
        /\ test' = test /\ current_iter_' = current_iter_ /\ second' = second
        /\ final_state' = final_state /\ outcome' = outcome
    <2>1. n.count_ = limit /\ n.index_ < n.count_
      BY <1>4
    <2>. QED  BY <2>1 DEF Rand
  <1>6. TypeOK'
    <2>1. t \in Seq(Choice) /\ d + 1 \in 0 .. Len(t)
      BY <1>4
    <2>. QED  BY <1>5, <2>1 DEF IInv, TypeOK, Choice
  <1>7. here' = End(test, Cut(Path(t), d + 1))
    <2>. HIDE DEF t, n, limit, d, P
    <2>1. /\ Path(t) \in Seq(Nat) /\ Len(Path(t)) \in Nat /\ d + 1 \in 1 .. Len(Path(t))
          /\ Path(t)[d + 1] = n.index_ /\ (d + 1) - 1 = d
      BY <1>2, <1>4, PathFacts
    <2>2. End(test, Cut(Path(t), d + 1)) = Down(End(test, Cut(Path(t), d)), Path(t)[d + 1])
      <3>1. Len(Path(t)) \in Nat /\ d \in Nat /\ d < Len(Path(t))
        BY <1>2, <2>1
      <3>. QED  BY ONLY <3>1, EndOfMore
    <2>3. End(test, Cut(Path(t), d + 1)) = Down(here, n.index_)
      BY <1>1, <1>4, <2>1, <2>2
    <2>4. n.index_ + 1 \in DOMAIN here.children
      BY <1>3, <1>4
    <2>. QED  BY <1>5, <2>3, <2>4 DEF Down
  <1>8. ASSUME second PROVE t = stree_
    <2>1. CASE d = Len(stree_)
      <3>1. End(test, P).result = "failure"
        BY <1>8 DEF IInv, InRepetition
      <3>. QED  BY <1>1, <1>2, <1>3, <2>1, <3>1
    <2>2. CASE d # Len(stree_)
      BY <2>2
    <2>. QED  BY <2>1, <2>2
  <1>9. InRepetition' \/ ~second'
    BY <1>1, <1>5, <1>8 DEF IInv, InRepetition
  <1>10. InSearch' \/ second'
    <2>. SUFFICES ASSUME ~second PROVE InSearch'
      BY <1>5
    <2>1. InSearch
      BY DEF IInv
    <2>2. CASE t = stree_
      BY <1>1, <1>5, <2>1, <2>2 DEF InSearch
    <2>3. CASE d = Len(stree_)
      <3>1. Path(t) = Append(P, 0)
        <4>1. t = Append(stree_, Fresh(limit)) /\ limit = Len(End(test, P).children)
          BY <1>1, <1>2, <2>3 DEF Chosen, Fresh
        <4>. HIDE DEF limit, t
        <4>. QED  BY <1>1, <1>2, <1>3, <4>1, NewChoice
      <3>2. \A q \in Executions(test) : Earlier(q, Path(t)) <=> Earlier(q, P)
        <4>. HIDE DEF t, P
        <4>. SUFFICES ASSUME NEW q \in Executions(test)
                      PROVE  Earlier(q, Path(t)) <=> Earlier(q, P)
          OBVIOUS
        <4>1. q \in Seq(Nat)
          BY <1>1, ExecutionIsPath DEF IsPath
        <4>. QED  BY <1>2, <3>1, <4>1, NewChoiceOrder
      <3>3. \A i \in DOMAIN explored : explored[i] \in Executions(test)
        BY DEF IInv, ExploresInOrder
      <3>. HIDE DEF t
      <3>4. \A i \in DOMAIN explored : Earlier(explored[i], Path(t))
        BY <2>1, <3>2, <3>3 DEF InSearch
      <3>5. \A p \in Executions(test) : Earlier(p, Path(t)) => p \in ToSet(explored)
        BY <2>1, <3>2 DEF InSearch
      <3>. QED  BY <1>1, <1>5, <2>1, <3>4, <3>5 DEF InSearch
    <2>. QED  BY <2>2, <2>3
  <1>11. ExploresInOrder'
    BY <1>1, <1>5 DEF IInv, ExploresInOrder
  <1>. QED
    BY <1>1, <1>4, <1>5, <1>6, <1>7, <1>9, <1>10, <1>11
    DEF IInv, SuccessIsExhaustive, HistoryIsOfTheFailure, NoCheckFails

\* The end of an execution that succeeds: the search is over when no choice has a
\* next result, and is at the next execution otherwise.
LEMMA IterationHolds ==
    ASSUME IInv, outcome = "none", IterationEnd
    PROVE  IInv'
  <1>. DEFINE P == Path(stree_)
  <1>1. /\ here.result = "success" /\ stree_depth_ = Len(stree_) /\ here = End(test, P)
        /\ Ended(here) /\ P \in Executions(test) /\ Follows(test, stree_)
        /\ test \in Trees[MaxDepth] /\ stree_ \in Seq(Choice)
    BY EndOfThePath, Found DEF IInv, IterationEnd
  <1>2. ~second /\ InSearch
    BY <1>1 DEF IInv, InRepetition
  <1>3. explored' = Append(explored, P)
    BY DEF IterationEnd
  <1>4. /\ explored' \in Seq(Executions(test)) /\ InOrder(test, explored')
        /\ Len(explored') = Len(explored) + 1
        /\ \A i \in DOMAIN explored' :
               explored'[i] = P \/ (i \in DOMAIN explored /\ explored'[i] = explored[i])
        /\ ToSet(explored') = ToSet(explored) \cup {P}
    <2>1. /\ \A i \in DOMAIN explored : Earlier(explored[i], P)
          /\ \A p \in Executions(test) : Earlier(p, P) => p \in ToSet(explored)
      BY <1>2 DEF InSearch
    <2>2. InOrder(test, explored) /\ explored \in Seq(Executions(test))
      BY DEF IInv, InOrder, ExploresInOrder
    <2>. HIDE DEF P
    <2>3. test \in Trees[MaxDepth] /\ P \in Executions(test)
      BY <1>1
    <2>. DEFINE f == explored'
    <2>4. f = Append(explored, P)
      BY <1>3
    <2>. HIDE DEF f
    <2>5. f \in Seq(Executions(test)) /\ InOrder(test, f)
      BY ONLY <2>1, <2>2, <2>3, <2>4, OneMore
    <2>6. Len(f) = Len(explored) + 1 /\ GrownBy(f, explored, P)
      BY ONLY <2>1, <2>2, <2>3, <2>4, OneMore
    <2>. QED  BY <2>5, <2>6 DEF f, GrownBy
  <1>5. \A i \in DOMAIN explored' :
            explored'[i] \in Executions(test) /\ End(test, explored'[i]).result = "success"
    BY <1>1, <1>2, <1>4 DEF InSearch, InOrder
  <1>6. CASE \A i \in 1 .. Len(stree_) : ~HasNext(i)
    <2>1. /\ outcome' = "success"
          /\ UNCHANGED <<test, here, stree_, stree_depth_, current_iter_, second, final_state>>
      BY <1>1, <1>2, <1>6 DEF IterationEnd, Stop
    <2>2. \A i \in 1 .. Len(stree_) : stree_[i].index_ = stree_[i].count_ - 1
      BY <1>6 DEF HasNext
    <2>3. \A q \in Executions(test) : q = P \/ Earlier(q, P)
      <3>. HIDE DEF P
      <3>. QED  BY <1>1, <2>2, LastIsLast DEF P
    <2>4. Executions(test) \subseteq ToSet(explored')
      BY <1>2, <1>4, <2>3 DEF InSearch
    <2>5. \A q \in ToSet(explored') : q \in Executions(test) /\ End(test, q).result = "success"
      BY <1>5 DEF ToSet
    <2>6. current_iter_ = Len(explored')
      BY <1>2, <1>4 DEF InSearch
    <2>7. SuccessIsExhaustive'
      <3>1. /\ ToSet(explored') = Executions(test)
            /\ \A q \in Executions(test) : End(test, q).result = "success"
        BY <2>4, <2>5
      <3>. QED  BY <2>1, <2>6, <3>1 DEF SuccessIsExhaustive
    <2>8. TypeOK' /\ ExploresInOrder'
      BY <1>4, <2>1 DEF IInv, TypeOK, ExploresInOrder, InOrder
    <2>. QED
      BY <1>2, <1>4, <2>1, <2>7, <2>8 DEF IInv, HistoryIsOfTheFailure, NoCheckFails
  <1>7. CASE \E i \in 1 .. Len(stree_) : HasNext(i)
    <2>1. PICK i \in 1 .. Len(stree_) :
              /\ HasNext(i)
              /\ \A j \in i + 1 .. Len(stree_) : ~HasNext(j)
              /\ stree_' = Advanced(i)
              /\ stree_depth_' = 0
              /\ here' = test
              /\ current_iter_' = current_iter_ + 1
              /\ UNCHANGED <<test, second, final_state, outcome>>
      BY <1>1, <1>2, <1>7 DEF IterationEnd
    <2>. DEFINE t == stree_'
                P2 == Path(t)
    <2>2. /\ stree_[i].index_ # stree_[i].count_ - 1
          /\ \A j \in i + 1 .. Len(stree_) : stree_[j].index_ = stree_[j].count_ - 1
          /\ t = Stepped(stree_, i)
      BY <2>1 DEF HasNext, Advanced, Stepped
    <2>. HIDE DEF t
    <2>3. /\ t \in Seq(Choice) /\ Len(t) = i
          /\ \A j \in 1 .. i - 1 : Path(t)[j] = Path(stree_)[j]
          /\ Path(t)[i] = Path(stree_)[i] + 1
          /\ Follows(test, t)
          /\ Earlier(Path(stree_), Path(t))
      BY ONLY <1>1, <2>2, i \in 1 .. Len(stree_), NextPath
    <2>4. P \in Seq(Nat) /\ P2 \in Seq(Nat) /\ Len(P2) = i
      BY <1>1, <2>3, PathFacts
    <2>5. \A q \in Executions(test) : Earlier(q, P2) => q \in ToSet(explored')
      <3>. SUFFICES ASSUME NEW q \in Executions(test), Earlier(q, P2) PROVE q \in ToSet(explored')
        OBVIOUS
      <3>1. q = P \/ Earlier(q, P)
        BY <1>1, <2>2, <2>3, <2>4, NothingBetween
      <3>. QED  BY <1>2, <1>4, <3>1 DEF InSearch
    <2>6. \A k \in DOMAIN explored' : Earlier(explored'[k], P2)
      <3>. SUFFICES ASSUME NEW k \in DOMAIN explored' PROVE Earlier(explored'[k], P2)
        OBVIOUS
      <3>1. explored'[k] \in Seq(Nat)
        BY <1>1, <1>5, ExecutionIsPath DEF IsPath
      <3>2. explored'[k] = P \/ Earlier(explored'[k], P)
        BY <1>2, <1>4 DEF InSearch
      <3>. QED  BY <2>3, <2>4, <3>1, <3>2, EarlierIsTransitive
    <2>7. current_iter_' = Len(explored') + 1
      BY <1>2, <1>4, <2>1 DEF InSearch
    <2>8. InSearch'
      BY <1>5, <2>1, <2>5, <2>6, <2>7 DEF InSearch, t
    <2>9. here' = End(test, Cut(P2, 0))
      BY <2>1, <2>4, EndOfNothing
    <2>10. TypeOK'
      BY <2>1, <2>3 DEF IInv, TypeOK, Choice, t
    <2>11. ExploresInOrder'
      BY <1>4, <2>1 DEF ExploresInOrder, InOrder
    <2>. QED
      BY <1>2, <1>4, <2>1, <2>3, <2>8, <2>9, <2>10, <2>11
      DEF IInv, SuccessIsExhaustive, HistoryIsOfTheFailure, NoCheckFails, t
  <1>. QED  BY <1>6, <1>7

-----------------------------------------------------------------------------
(* The theorems                                                            *)

\* The invariant holds in every state, whatever the test and the bounds.
THEOREM SearchInvariant == Spec => []IInv
  <1>1. Init => IInv
    BY InitHolds
  <1>2. IInv /\ [Next]_vars => IInv'
    <2>. SUFFICES ASSUME IInv, [Next]_vars PROVE IInv'
      OBVIOUS
    <2>1. CASE Next
      BY <2>1, RandHolds, IterationHolds, FirstRunHolds, SecondRunHolds DEF Next
    <2>2. CASE UNCHANGED vars
      BY <2>2
      DEF vars, IInv, TypeOK, ExploresInOrder, InSearch, InRepetition, SuccessIsExhaustive,
          HistoryIsOfTheFailure, NoCheckFails
    <2>. QED  BY <2>1, <2>2
  <1>. QED  BY <1>1, <1>2, PTL DEF Spec

\* Type correctness, for every bound of the tests.
THEOREM TypeCorrect == Spec => []TypeOK
  <1>1. IInv => TypeOK
    BY DEF IInv
  <1>. QED  BY <1>1, SearchInvariant, PTL

\* ExploresInOrder: whatever the test, the search explores its executions one
\* after the other, in order, none twice and none passed over.
THEOREM SearchIsInOrder == Spec => []ExploresInOrder
  <1>1. IInv => ExploresInOrder
    BY DEF IInv
  <1>. QED  BY <1>1, SearchInvariant, PTL

\* SuccessIsExhaustive: a test that the search says to be correct is correct in
\* each of its executions.
THEOREM SearchIsSound == Spec => []SuccessIsExhaustive
  <1>1. IInv => SuccessIsExhaustive
    BY DEF IInv
  <1>. QED  BY <1>1, SearchInvariant, PTL

\* HistoryIsOfTheFailure: the second run repeats the execution that has failed.
THEOREM HistoryIsRight == Spec => []HistoryIsOfTheFailure
  <1>1. IInv => HistoryIsOfTheFailure
    BY DEF IInv
  <1>. QED  BY <1>1, SearchInvariant, PTL

\* NoCheckFails: the assertions of the search and of the second run hold.
THEOREM ChecksHold == Spec => []NoCheckFails
  <1>1. IInv => NoCheckFails
    BY DEF IInv
  <1>. QED  BY <1>1, SearchInvariant, PTL
=============================================================================
