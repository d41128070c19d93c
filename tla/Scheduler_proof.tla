-------------------------- MODULE Scheduler_proof --------------------------
(***************************************************************************)
(* Proofs about Scheduler, for every number of threads, every set of       *)
(* dynamic threads and every bound: why each thread is blocked, and what   *)
(* its deadlocks and its failing check mean.                               *)
(***************************************************************************)
EXTENDS Scheduler, Sums

-----------------------------------------------------------------------------
(* The inductive invariant                                                 *)

HoldersOf(s, t) == {y \in Thread : Holds(s, y, t)}

\* The blocks of a thread but for those that hold it back are W[t], and the
\* rest of the state s goes with its counts.
Explained(s, W) ==
    /\ s \in State
    /\ \A t \in Thread :
        /\ s.block_count[t] = W[t] + Cardinality(HoldersOf(s, t))
        /\ t \in s.running <=> s.block_count[t] = 0
        /\ s.total_yield_priority[t] = SumFunction(s.yield_priority[t])

\* What the operators on the counts leave alone.
SameWaits(s, r) ==
    /\ r.timed = s.timed
    /\ r.spurious = s.spurious
    /\ r.dynamic = s.dynamic
    /\ r.finished = s.finished
    /\ r.parked = s.parked

\* A thread waits for one thing at most, and only one that is parked may time
\* out or wake spuriously.
OneWait(s) ==
    /\ s.parked \cap s.finished = {}
    /\ s.parked \cap s.dynamic = {}
    /\ s.finished \cap s.dynamic = {}
    /\ s.timed \subseteq s.parked
    /\ s.spurious \subseteq s.parked

WaitCount(s) ==
    [t \in Thread |-> IF t \in s.parked \cup s.finished \cup s.dynamic THEN 1 ELSE 0]

Good(s) == Explained(s, WaitCount(s)) /\ OneWait(s)

NobodyHolds(s) == \A t \in Thread : HoldersOf(s, t) = {}

IInv ==
    /\ TypeOK
    /\ Good(sched)
    /\ ~TreeSearch => NobodyHolds(sched)
    /\ outcome = "none" => thread_ \in sched.running
    /\ DeadlockIsReal
    /\ VerifyNeedsAHeldTimedThread

-----------------------------------------------------------------------------
(* The operators on the counts, one by one                                 *)

\* The state s with other counts, other priorities, or both.
WithCounts(s, b, u) == [s EXCEPT !.block_count = b, !.running = u]
WithPriorities(s, p, q, c) ==
    [s EXCEPT !.yield_priority = p, !.total_yield_priority = q, !.yield_sched_count = c]
WithBoth(s, p, q, b, u) ==
    [s EXCEPT !.yield_priority = p, !.total_yield_priority = q, !.block_count = b, !.running = u]

Table == [Thread -> [Thread -> 0 .. MaxYield]]
Totals == [Thread -> Nat]

LEMMA StateCounts ==
    ASSUME NEW s \in State, NEW b \in Totals, NEW u \in SUBSET Thread
    PROVE  LET r == WithCounts(s, b, u)
           IN  /\ r \in State /\ SameWaits(s, r)
               /\ r.block_count = b /\ r.running = u
               /\ r.yield_priority = s.yield_priority /\ r.total_yield_priority = s.total_yield_priority
  BY DEF State, SameWaits, Table, Totals, WithCounts

LEMMA StatePriorities ==
    ASSUME NEW s \in State, NEW p \in Table, NEW q \in Totals,
           NEW c \in Table
    PROVE  LET r == WithPriorities(s, p, q, c)
           IN  /\ r \in State /\ SameWaits(s, r)
               /\ r.block_count = s.block_count /\ r.running = s.running
               /\ r.yield_priority = p /\ r.total_yield_priority = q
  BY DEF State, SameWaits, Table, Totals, WithPriorities

LEMMA StateCountsAndPriorities ==
    ASSUME NEW s \in State, NEW b \in Totals, NEW u \in SUBSET Thread,
           NEW p \in Table, NEW q \in Totals
    PROVE  LET r == WithBoth(s, p, q, b, u)
           IN  /\ r \in State /\ SameWaits(s, r)
               /\ r.block_count = b /\ r.running = u
               /\ r.yield_priority = p /\ r.total_yield_priority = q
  BY DEF State, SameWaits, Table, Totals, WithBoth

LEMMA HoldersFinite ==
    ASSUME NEW s, NEW t
    PROVE  IsFiniteSet(HoldersOf(s, t)) /\ Cardinality(HoldersOf(s, t)) \in Nat
  <1>1. HoldersOf(s, t) \in SUBSET Thread
    BY DEF HoldersOf
  <1>. QED  BY <1>1, ThreadAssumption, FS_Subset, FS_CardinalityType

LEMMA HoldersEmpty ==
    ASSUME NEW s, NEW t
    PROVE  Cardinality(HoldersOf(s, t)) = 0 <=> HoldersOf(s, t) = {}
  BY HoldersFinite, FS_EmptySet

\* One block less for the threads of T.
Fewer(W, T) == [t \in Thread |-> IF t \in T THEN W[t] - 1 ELSE W[t]]

\* unblock_thread takes one block from each thread of T, and lets those run
\* that had no other.
LEMMA UnblockExplained ==
    ASSUME NEW s, NEW W \in [Thread -> Int], Explained(s, W),
           NEW T \in SUBSET Thread, \A t \in T : s.block_count[t] > 0
    PROVE  LET r == Unblock(s, T)
           IN  /\ Explained(r, Fewer(W, T))
               /\ SameWaits(s, r)
               /\ r.yield_priority = s.yield_priority
               /\ s.running \subseteq r.running
               /\ r.block_count = Fewer(s.block_count, T)
  <1>. DEFINE r == Unblock(s, T)
              V == Fewer(W, T)
  <1>0. s \in State
    BY DEF Explained
  <1>1. /\ r \in State
        /\ SameWaits(s, r)
        /\ r.yield_priority = s.yield_priority
        /\ r.total_yield_priority = s.total_yield_priority
        /\ r.running = s.running \cup {t \in T : s.block_count[t] = 1}
        /\ r.block_count = [t \in Thread |-> IF t \in T THEN s.block_count[t] - 1 ELSE s.block_count[t]]
    <2>. DEFINE b == [t \in Thread |-> IF t \in T THEN s.block_count[t] - 1 ELSE s.block_count[t]]
                u == s.running \cup {t \in T : s.block_count[t] = 1}
    <2>1. b \in Totals /\ u \in SUBSET Thread
      BY <1>0 DEF State, Totals
    <2>2. r = WithCounts(s, b, u)
      BY DEF Unblock, WithCounts
    <2>. HIDE DEF b, u, r
    <2>4. /\ r \in State /\ SameWaits(s, r) /\ r.block_count = b /\ r.running = u
          /\ r.yield_priority = s.yield_priority /\ r.total_yield_priority = s.total_yield_priority
      BY <1>0, <2>1, <2>2, StateCounts
    <2>. QED  BY <2>4 DEF b, u
  <1>2. \A t \in Thread : HoldersOf(r, t) = HoldersOf(s, t)
    BY <1>1 DEF HoldersOf, Holds
  <1>3. ASSUME NEW t \in Thread
        PROVE  /\ r.block_count[t] = V[t] + Cardinality(HoldersOf(r, t))
               /\ t \in r.running <=> r.block_count[t] = 0
               /\ r.total_yield_priority[t] = SumFunction(r.yield_priority[t])
    <2>1. /\ s.block_count[t] = W[t] + Cardinality(HoldersOf(s, t))
          /\ t \in s.running <=> s.block_count[t] = 0
          /\ s.total_yield_priority[t] = SumFunction(s.yield_priority[t])
      BY DEF Explained
    <2>2. s.block_count[t] \in Nat /\ W[t] \in Int
      BY <1>0 DEF State
    <2>3. Cardinality(HoldersOf(s, t)) \in Nat
      BY HoldersFinite
    <2>. QED  BY <2>1, <2>2, <2>3, <1>1, <1>2 DEF Fewer
  <1>. HIDE DEF r
  <1>4. Explained(r, V)
    BY <1>1, <1>3 DEF Explained
  <1>. QED  BY <1>1, <1>4 DEF r, Fewer

LEMMA PrioritySums ==
    ASSUME NEW s \in State, NEW y \in Thread
    PROVE  /\ SumFunction(s.yield_priority[y]) \in Nat
           /\ SumFunction(s.yield_priority[y]) = 0 <=> \A t \in Thread : ~Holds(s, y, t)
  <1>1. s.yield_priority[y] \in [Thread -> Nat]
    BY BoundAssumption DEF State
  <1>2. /\ SumFunction(s.yield_priority[y]) \in Nat
        /\ SumFunction(s.yield_priority[y]) = 0 <=> \A t \in Thread : s.yield_priority[y][t] = 0
    BY <1>1, ThreadAssumption, SumOfNaturals
  <1>. QED  BY <1>1, <1>2 DEF Holds

\* on_thread_block: the threads of Y hold back nobody any more, and what the
\* others hold back stays so.
LEMMA LetGoExplained ==
    ASSUME NEW s, NEW W \in [Thread -> Nat], Explained(s, W), NEW Y \in SUBSET Thread
    PROVE  LET r == LetGo(s, Y)
           IN  /\ Explained(r, W)
               /\ SameWaits(s, r)
               /\ \A t \in Thread : HoldersOf(r, t) = HoldersOf(s, t) \ Y
               /\ s.running \subseteq r.running
  <1>. DEFINE holders == {y \in Y : s.total_yield_priority[y] > 0}
              held == [t \in Thread |-> Cardinality({y \in holders : Holds(s, y, t)})]
              r == LetGo(s, Y)
  <1>0. s \in State
    BY DEF Explained
  <1>1. ASSUME NEW t \in Thread
        PROVE  /\ held[t] = Cardinality(HoldersOf(s, t) \cap Y)
               /\ held[t] \in Nat
               /\ Cardinality(HoldersOf(s, t) \ Y) = Cardinality(HoldersOf(s, t)) - held[t]
               /\ Cardinality(HoldersOf(s, t) \ Y) \in Nat
    <2>1. {y \in holders : Holds(s, y, t)} = HoldersOf(s, t) \cap Y
      <3>1. ASSUME NEW y \in Y, Holds(s, y, t) PROVE s.total_yield_priority[y] > 0
        <4>1. s.total_yield_priority[y] = SumFunction(s.yield_priority[y])
          BY DEF Explained
        <4>. QED  BY <1>0, <3>1, <4>1, PrioritySums
      <3>. QED  BY <3>1 DEF HoldersOf
    <2>2. IsFiniteSet(HoldersOf(s, t))
      BY HoldersFinite
    <2>3. /\ IsFiniteSet(HoldersOf(s, t) \ Y)
          /\ Cardinality(HoldersOf(s, t) \ Y) = Cardinality(HoldersOf(s, t)) - Cardinality(HoldersOf(s, t) \cap Y)
      BY <2>2, FS_Difference
    <2>4. IsFiniteSet(HoldersOf(s, t) \cap Y)
      BY <2>2, FS_Intersection
    <2>. HIDE DEF holders
    <2>. QED  BY <2>1, <2>3, <2>4, FS_CardinalityType
  <1>2. \A t \in Thread : s.block_count[t] - held[t] \in Nat
    <2>. SUFFICES ASSUME NEW t \in Thread PROVE s.block_count[t] - held[t] \in Nat
      OBVIOUS
    <2>1. s.block_count[t] = W[t] + Cardinality(HoldersOf(s, t)) /\ W[t] \in Nat
      BY DEF Explained
    <2>2. Cardinality(HoldersOf(s, t)) \in Nat
      BY HoldersFinite
    <2>3. held[t] \in Nat /\ Cardinality(HoldersOf(s, t)) - held[t] \in Nat
      BY <1>1
    <2>. HIDE DEF held
    <2>. QED  BY <2>1, <2>2, <2>3
  <1>3. ASSUME NEW y \in holders
        PROVE  /\ s.total_yield_priority[y] - SumFunction(s.yield_priority[y]) = 0
               /\ SumFunction(NoPriority) = 0
    <2>1. s.total_yield_priority[y] = SumFunction(s.yield_priority[y]) /\ s.total_yield_priority[y] \in Nat
      BY <1>0 DEF Explained, State
    <2>2. NoPriority \in [Thread -> Nat]
      BY DEF NoPriority
    <2>3. SumFunction(NoPriority) = 0
      BY <2>2, ThreadAssumption, SumOfNaturals DEF NoPriority
    <2>. QED  BY <2>1, <2>3
  <1>4. /\ r \in State
        /\ SameWaits(s, r)
        /\ r.yield_priority = [y \in Thread |-> IF y \in holders THEN NoPriority ELSE s.yield_priority[y]]
        /\ r.total_yield_priority = [y \in Thread |->
               IF y \in holders THEN s.total_yield_priority[y] - SumFunction(s.yield_priority[y])
                                ELSE s.total_yield_priority[y]]
        /\ r.block_count = [t \in Thread |-> s.block_count[t] - held[t]]
        /\ r.running = s.running \cup {t \in Thread : held[t] > 0 /\ s.block_count[t] = held[t]}
    <2>. DEFINE p == [y \in Thread |-> IF y \in holders THEN NoPriority ELSE s.yield_priority[y]]
                q == [y \in Thread |->
                        IF y \in holders THEN s.total_yield_priority[y] - SumFunction(s.yield_priority[y])
                                         ELSE s.total_yield_priority[y]]
                b == [t \in Thread |-> s.block_count[t] - held[t]]
                u == s.running \cup {t \in Thread : held[t] > 0 /\ s.block_count[t] = held[t]}
    <2>1. b \in Totals /\ u \in SUBSET Thread
      <3>. HIDE DEF held
      <3>. QED  BY <1>0, <1>2 DEF State, Totals
    <2>2. p \in Table
      <3>1. NoPriority \in [Thread -> 0 .. MaxYield]
        BY BoundAssumption DEF NoPriority
      <3>. HIDE DEF holders
      <3>. QED  BY <1>0, <3>1 DEF State, Table
    <2>3. q \in Totals
      <3>. HIDE DEF holders
      <3>. QED  BY <1>0, <1>3 DEF State, Totals
    <2>4. r = WithBoth(s, p, q, b, u)
      BY DEF LetGo, WithBoth
    <2>. HIDE DEF p, q, b, u, r
    <2>6. /\ r \in State /\ SameWaits(s, r) /\ r.yield_priority = p /\ r.total_yield_priority = q
          /\ r.block_count = b /\ r.running = u
      BY <1>0, <2>1, <2>2, <2>3, <2>4, StateCountsAndPriorities
    <2>. HIDE DEF held, holders
    <2>. QED  BY <2>6 DEF p, q, b, u
  <1>6. ASSUME NEW t \in Thread PROVE HoldersOf(r, t) = HoldersOf(s, t) \ Y
    <2>1. ASSUME NEW y \in Y, y \notin holders PROVE ~Holds(s, y, t)
      <3>1. s.total_yield_priority[y] = SumFunction(s.yield_priority[y]) /\ s.total_yield_priority[y] \in Nat
        BY <1>0 DEF Explained, State
      <3>. QED  BY <1>0, <2>1, <3>1, PrioritySums
    <2>2. \A y \in Thread : Holds(r, y, t) <=> y \notin holders /\ Holds(s, y, t)
      <3>. HIDE DEF r, holders
      <3>. QED  BY <1>4 DEF Holds, NoPriority
    <2>. HIDE DEF r
    <2>. QED  BY <2>1, <2>2 DEF HoldersOf
  <1>7. ASSUME NEW t \in Thread
        PROVE  /\ r.block_count[t] = W[t] + Cardinality(HoldersOf(r, t))
               /\ t \in r.running <=> r.block_count[t] = 0
               /\ r.total_yield_priority[t] = SumFunction(r.yield_priority[t])
    <2>1. /\ s.block_count[t] = W[t] + Cardinality(HoldersOf(s, t))
          /\ t \in s.running <=> s.block_count[t] = 0
          /\ s.total_yield_priority[t] = SumFunction(s.yield_priority[t])
      BY DEF Explained
    <2>2. s.block_count[t] \in Nat /\ W[t] \in Nat /\ Cardinality(HoldersOf(s, t)) \in Nat
      BY <1>0, HoldersFinite DEF State
    <2>3. held[t] \in Nat /\ Cardinality(HoldersOf(r, t)) = Cardinality(HoldersOf(s, t)) - held[t]
          /\ Cardinality(HoldersOf(r, t)) \in Nat
      BY <1>1, <1>6
    <2>4. r.block_count[t] = s.block_count[t] - held[t]
      BY <1>4
    <2>5. t \in r.running <=> t \in s.running \/ (held[t] > 0 /\ s.block_count[t] = held[t])
      BY <1>4
    <2>6. r.total_yield_priority[t] = SumFunction(r.yield_priority[t])
      <3>. HIDE DEF r, holders
      <3>. QED  BY <1>3, <1>4, <2>1
    <2>. HIDE DEF r, held
    <2>7. r.block_count[t] = W[t] + Cardinality(HoldersOf(r, t))
      BY <2>1, <2>2, <2>3, <2>4
    <2>8. t \in r.running <=> r.block_count[t] = 0
      BY <2>1, <2>2, <2>3, <2>4, <2>5
    <2>. QED  BY <2>6, <2>7, <2>8
  <1>. HIDE DEF r
  <1>8. Explained(r, W)
    BY <1>4, <1>7 DEF Explained
  <1>. QED  BY <1>4, <1>6, <1>8 DEF r

\* The blocks of a thread that are no yield, with n more for t.
More(W, t, n) == [u \in Thread |-> IF u = t THEN W[u] + n ELSE W[u]]

\* block_thread takes a thread that could run from those that can, and then it
\* holds back nobody.
LEMMA BlockExplained ==
    ASSUME NEW s, NEW W \in [Thread -> Int], Explained(s, W), NEW t \in Thread, NEW n \in Nat,
           More(W, t, n) \in [Thread -> Nat]
    PROVE  LET r == Block(s, t, n)
           IN  /\ Explained(r, More(W, t, n))
               /\ SameWaits(s, r)
               /\ \A u \in Thread : HoldersOf(r, u) \subseteq HoldersOf(s, u)
               /\ s.running \ {t} \subseteq r.running
  <1>. DEFINE V == More(W, t, n)
              b == [s.block_count EXCEPT ![t] = @ + n]
  <1>0. s \in State /\ s.block_count[t] \in Nat
    BY DEF Explained, State
  <1>1. b \in Totals /\ \A u \in Thread : b[u] = IF u = t THEN s.block_count[u] + n ELSE s.block_count[u]
    BY <1>0 DEF State, Totals
  <1>2. ASSUME NEW u \in SUBSET Thread, \A x \in Thread : x \in u <=> b[x] = 0
        PROVE  LET c == WithCounts(s, b, u)
               IN  Explained(c, V) /\ SameWaits(s, c) /\ \A x \in Thread : HoldersOf(c, x) = HoldersOf(s, x)
    <2>. DEFINE c == WithCounts(s, b, u)
    <2>. HIDE DEF b, c
    <2>1. /\ c \in State /\ SameWaits(s, c) /\ c.block_count = b /\ c.running = u
          /\ c.yield_priority = s.yield_priority /\ c.total_yield_priority = s.total_yield_priority
      BY <1>0, <1>1, StateCounts DEF c
    <2>2. \A x \in Thread : HoldersOf(c, x) = HoldersOf(s, x)
      BY <2>1 DEF HoldersOf, Holds
    <2>3. ASSUME NEW x \in Thread
          PROVE  /\ c.block_count[x] = V[x] + Cardinality(HoldersOf(c, x))
                 /\ c.total_yield_priority[x] = SumFunction(c.yield_priority[x])
      <3>1. Cardinality(HoldersOf(s, x)) \in Nat /\ W[x] \in Int
        BY HoldersFinite
      <3>. QED  BY <2>1, <2>2, <3>1, <1>1 DEF Explained, More
    <2>4. Explained(c, V)
      BY <2>1, <2>3, <1>2 DEF Explained
    <2>. QED  BY <2>1, <2>2, <2>4 DEF c
  <1>3. CASE n = 0 \/ s.block_count[t] > 0
    <2>1. Block(s, t, n) = WithCounts(s, b, s.running)
      BY <1>0, <1>3 DEF Block, WithCounts, State
    <2>2. \A x \in Thread : x \in s.running <=> b[x] = 0
      BY <1>0, <1>1, <1>3 DEF Explained
    <2>3. s.running \in SUBSET Thread
      BY <1>0 DEF State
    <2>4. WithCounts(s, b, s.running).running = s.running
      BY <1>0, <1>1, <2>3, StateCounts
    <2>. HIDE DEF b, V
    <2>. QED  BY <2>1, <2>2, <2>3, <2>4, <1>2 DEF V
  <1>4. CASE ~(n = 0 \/ s.block_count[t] > 0)
    <2>. DEFINE u == s.running \ {t}
                c == WithCounts(s, b, u)
    <2>1. Block(s, t, n) = LetGo(c, {t})
      BY <1>0, <1>4 DEF Block, WithCounts, State
    <2>2. u \in SUBSET Thread /\ \A x \in Thread : x \in u <=> b[x] = 0
      <3>1. u \in SUBSET Thread
        BY <1>0 DEF State
      <3>2. b[t] # 0
        BY <1>0, <1>1, <1>4
      <3>3. \A x \in Thread : x \in s.running <=> s.block_count[x] = 0
        BY DEF Explained
      <3>. HIDE DEF b
      <3>. QED  BY <3>1, <3>2, <3>3, <1>1
    <2>. HIDE DEF u, b
    <2>3. Explained(c, V) /\ SameWaits(s, c) /\ \A x \in Thread : HoldersOf(c, x) = HoldersOf(s, x)
      BY <2>2, <1>2
    <2>4. c.running = u
      BY <1>0, <1>1, <2>2, StateCounts
    <2>. HIDE DEF V, c
    <2>5. {t} \in SUBSET Thread /\ V \in [Thread -> Nat]
      BY DEF V
    <2>. DEFINE r == LetGo(c, {t})
    <2>6. /\ Explained(r, V)
          /\ SameWaits(c, r)
          /\ \A x \in Thread : HoldersOf(r, x) = HoldersOf(c, x) \ {t}
          /\ c.running \subseteq r.running
      BY <2>3, <2>5, LetGoExplained
    <2>. HIDE DEF r
    <2>7. SameWaits(s, r)
      BY <2>3, <2>6 DEF SameWaits
    <2>. QED  BY <2>1, <2>3, <2>4, <2>6, <2>7 DEF u, V, r
  <1>. QED  BY <1>3, <1>4

\* After purge_blocked_threads nobody is held back.
LEMMA PurgeExplained ==
    ASSUME NEW s, NEW W \in [Thread -> Nat], Explained(s, W)
    PROVE  LET r == Purge(s)
           IN  /\ Explained(r, W)
               /\ SameWaits(s, r)
               /\ NobodyHolds(r)
               /\ s.running \subseteq r.running
  <1>. DEFINE r == LetGo(s, Thread)
  <1>1. /\ Explained(r, W)
        /\ SameWaits(s, r)
        /\ \A t \in Thread : HoldersOf(r, t) = HoldersOf(s, t) \ Thread
        /\ s.running \subseteq r.running
    BY LetGoExplained
  <1>2. \A t \in Thread : HoldersOf(s, t) \ Thread = {}
    BY DEF HoldersOf
  <1>. HIDE DEF r
  <1>3. NobodyHolds(r)
    BY <1>1, <1>2 DEF NobodyHolds
  <1>. QED  BY <1>1, <1>3 DEF Purge, r

\* A turn of t: those that it has held back often enough are held back by it no
\* more, and the sum of its priorities stays their sum.
LEMMA CountTurnExplained ==
    ASSUME NEW s, NEW W \in [Thread -> Nat], Explained(s, W), NEW t \in Thread
    PROVE  LET r == CountTurn(s, t)
           IN  /\ Explained(r, W)
               /\ SameWaits(s, r)
               /\ \A u \in Thread : HoldersOf(r, u) \subseteq HoldersOf(s, u)
               /\ s.running \subseteq r.running
  <1>. DEFINE held == {u \in Thread : Holds(s, t, u)}
              p1 == [u \in Thread |-> IF u \in held THEN s.yield_priority[t][u] - 1 ELSE 0]
              c1 == [u \in Thread |-> IF s.yield_sched_count[t][u] < MaxYield
                                        THEN s.yield_sched_count[t][u] + 1 ELSE MaxYield]
              p == [s.yield_priority EXCEPT ![t] = p1]
              q == [s.total_yield_priority EXCEPT ![t] = @ - Cardinality(held)]
              c == [s.yield_sched_count EXCEPT ![t] = c1]
              s1 == WithPriorities(s, p, q, c)
              released == {u \in held : s.yield_priority[t][u] = 1}
              W1 == [u \in Thread |-> IF u \in released THEN W[u] + 1 ELSE W[u]]
              W2 == Fewer(W1, released)
  <1>0. /\ s \in State
        /\ \A y, u \in Thread : s.yield_priority[y][u] \in 0 .. MaxYield /\ s.yield_sched_count[y][u] \in 0 .. MaxYield
        /\ \A y \in Thread : s.total_yield_priority[y] \in Nat
        /\ s.yield_priority[t] \in [Thread -> Nat]
    BY BoundAssumption DEF Explained, State
  <1>1. CASE s.total_yield_priority[t] = 0
    <2>1. CountTurn(s, t) = s
      BY <1>1 DEF CountTurn
    <2>. QED  BY <2>1 DEF SameWaits
  <1>2. CASE s.total_yield_priority[t] # 0
    <2>1. CountTurn(s, t) = Unblock(s1, released)
      <3>1. s1 = [s EXCEPT
                !.yield_priority[t] = [u \in Thread |-> IF u \in held THEN @[u] - 1 ELSE 0],
                !.total_yield_priority[t] = @ - Cardinality(held),
                !.yield_sched_count[t] = [u \in Thread |->
                    IF @[u] < MaxYield THEN @[u] + 1 ELSE MaxYield]]
        BY <1>0 DEF WithPriorities, State
      <3>. QED  BY <1>2, <3>1 DEF CountTurn
    <2>2. \A u \in Thread : u \in held <=> s.yield_priority[t][u] > 0
      BY DEF Holds
    <2>. HIDE DEF held
    <2>3. p1 \in [Thread -> Nat] /\ p1 \in [Thread -> 0 .. MaxYield] /\ c1 \in [Thread -> 0 .. MaxYield]
      BY <1>0, <2>2, BoundAssumption
    <2>4. /\ SumFunction(p1) = s.total_yield_priority[t] - Cardinality(held)
          /\ SumFunction(p1) \in Nat
      <3>1. \A u \in Thread : p1[u] = IF u \in held THEN s.yield_priority[t][u] - 1 ELSE s.yield_priority[t][u]
        BY <1>0, <2>2
      <3>2. s.total_yield_priority[t] = SumFunction(s.yield_priority[t])
        BY DEF Explained
      <3>3. held \in SUBSET Thread /\ IsFiniteSet(Thread)
        BY ThreadAssumption DEF held
      <3>. DEFINE f == s.yield_priority[t]
      <3>4. f \in [Thread -> Nat]
        BY <1>0
      <3>. HIDE DEF p1, f
      <3>5. SumFunction(p1) = SumFunction(f) - Cardinality(held)
        BY <3>1, <3>3, <3>4, <2>3, SumDecreases DEF f
      <3>6. SumFunction(p1) \in Nat
        BY <3>3, <2>3, SumOfNaturals
      <3>. QED  BY <3>2, <3>5, <3>6 DEF f
    <2>5. /\ p \in Table
          /\ q \in Totals
          /\ c \in Table
      <3>. HIDE DEF p1, c1
      <3>. QED  BY <1>0, <2>3, <2>4 DEF State, Table, Totals
    <2>6. /\ s1 \in State /\ SameWaits(s, s1)
          /\ s1.block_count = s.block_count /\ s1.running = s.running
          /\ s1.yield_priority = p /\ s1.total_yield_priority = q
      <3>1. s \in State
        BY <1>0
      <3>. HIDE DEF p, q, c
      <3>. QED  BY <3>1, <2>5, StatePriorities
    <2>7. ASSUME NEW u \in Thread
          PROVE  /\ u \in released => t \in HoldersOf(s, u) /\ HoldersOf(s1, u) = HoldersOf(s, u) \ {t}
                 /\ u \notin released => HoldersOf(s1, u) = HoldersOf(s, u)
      <3>1. \A y \in Thread : Holds(s1, y, u) <=> IF y = t THEN p1[u] > 0 ELSE Holds(s, y, u)
        <4>1. \A y \in Thread : s1.yield_priority[y] = IF y = t THEN p1 ELSE s.yield_priority[y]
          <5>. HIDE DEF p1, s1
          <5>. QED  BY <2>6, <1>0 DEF State
        <4>. HIDE DEF p1, s1
        <4>. QED  BY <4>1 DEF Holds
      <3>2. p1[u] > 0 <=> Holds(s, t, u) /\ u \notin released
        BY <1>0, <2>2 DEF Holds
      <3>3. u \in released => Holds(s, t, u)
        BY <2>2 DEF Holds
      <3>. HIDE DEF p1, s1, released
      <3>. QED  BY <3>1, <3>2, <3>3 DEF HoldersOf
    <2>8. ASSUME NEW u \in Thread
          PROVE  /\ s1.block_count[u] = W1[u] + Cardinality(HoldersOf(s1, u))
                 /\ u \in released => s1.block_count[u] > 0
      <3>1. IsFiniteSet(HoldersOf(s, u)) /\ Cardinality(HoldersOf(s, u)) \in Nat
        BY HoldersFinite
      <3>2. u \in released => Cardinality(HoldersOf(s1, u)) = Cardinality(HoldersOf(s, u)) - 1
        <4>. DEFINE H == HoldersOf(s, u)
        <4>1. IsFiniteSet(H)
          BY <3>1
        <4>. HIDE DEF H
        <4>2. Cardinality(H \ {t}) = IF t \in H THEN Cardinality(H) - 1 ELSE Cardinality(H)
          BY <4>1, FS_RemoveElement
        <4>. HIDE DEF released, s1
        <4>. QED  BY <2>7, <4>2 DEF H
      <3>3. Cardinality(HoldersOf(s1, u)) \in Nat
        BY HoldersFinite
      <3>4. W[u] \in Nat /\ s.block_count[u] = W[u] + Cardinality(HoldersOf(s, u))
        BY DEF Explained
      <3>. HIDE DEF released, s1
      <3>. QED  BY <3>1, <3>2, <3>3, <3>4, <2>6, <2>7
    <2>9. \A u \in Thread : s1.total_yield_priority[u] = SumFunction(s1.yield_priority[u])
      <3>1. \A u \in Thread : u # t => s1.total_yield_priority[u] = s.total_yield_priority[u]
                                    /\ s1.yield_priority[u] = s.yield_priority[u]
        <4>. HIDE DEF s1, p1
        <4>. QED  BY <2>6, <1>0 DEF State
      <3>2. s1.total_yield_priority[t] = s.total_yield_priority[t] - Cardinality(held) /\ s1.yield_priority[t] = p1
        <4>. HIDE DEF s1, p1
        <4>. QED  BY <2>6, <1>0 DEF State
      <3>. HIDE DEF s1, p1
      <3>. QED  BY <3>1, <3>2, <2>4 DEF Explained
    <2>10. Explained(s1, W1)
      <3>1. \A u \in Thread : u \in s1.running <=> s1.block_count[u] = 0
        <4>. HIDE DEF s1
        <4>. QED  BY <2>6 DEF Explained
      <3>. HIDE DEF s1, W1
      <3>. QED  BY <3>1, <2>6, <2>8, <2>9 DEF Explained
    <2>11. W1 \in [Thread -> Int] /\ released \in SUBSET Thread /\ W2 = W
      <3>1. released \in SUBSET Thread
        BY DEF held
      <3>. HIDE DEF released
      <3>2. W1 \in [Thread -> Int]
        OBVIOUS
      <3>3. W2 = W
        BY DEF Fewer
      <3>. QED  BY <3>1, <3>2, <3>3
    <2>. DEFINE r == Unblock(s1, released)
    <2>12. /\ Explained(r, W2)
           /\ SameWaits(s1, r)
           /\ r.yield_priority = s1.yield_priority
           /\ s1.running \subseteq r.running
      <3>. HIDE DEF s1, W1, released
      <3>1. \A u \in released : s1.block_count[u] > 0
        BY <2>8, <2>11
      <3>. QED  BY ONLY <3>1, <2>10, <2>11, UnblockExplained
    <2>13. \A u \in Thread : HoldersOf(r, u) \subseteq HoldersOf(s, u)
      <3>1. \A u \in Thread : HoldersOf(r, u) = HoldersOf(s1, u)
        BY <2>12 DEF HoldersOf, Holds
      <3>. HIDE DEF r, s1, released
      <3>. QED  BY <2>7, <3>1
    <2>14. SameWaits(s, r) /\ s.running \subseteq r.running /\ Explained(r, W)
      <3>. HIDE DEF r, s1, W2, released
      <3>. QED  BY <2>6, <2>12, <2>11 DEF SameWaits
    <2>. HIDE DEF r
    <2>. QED  BY <2>1, <2>13, <2>14 DEF r
  <1>. QED  BY <1>1, <1>2

\* The threads of Y hold back t, which nobody has held back: each of them is
\* one block of t.
LEMMA HoldBackExplained ==
    ASSUME NEW s, NEW W \in [Thread -> Nat], Explained(s, W), NEW t \in Thread, HoldersOf(s, t) = {},
           NEW Y \in SUBSET Thread, NEW n \in 1 .. MaxYield
    PROVE  LET r == HoldBack(s, t, Y, n)
           IN  /\ Explained(r, W)
               /\ SameWaits(s, r)
               /\ s.running \ {t} \subseteq r.running
  <1>. DEFINE p == [y \in Thread |-> IF y \in Y THEN [s.yield_priority[y] EXCEPT ![t] = n] ELSE s.yield_priority[y]]
              q == [y \in Thread |-> IF y \in Y THEN s.total_yield_priority[y] + n ELSE s.total_yield_priority[y]]
              c == s.yield_sched_count
              s0 == WithPriorities(s, p, q, c)
              k == Cardinality(Y)
              W0 == More(W, t, 0 - k)
  <1>0. /\ s \in State
        /\ s.yield_priority \in Table /\ c \in Table /\ s.total_yield_priority \in Totals
        /\ n \in 0 .. MaxYield /\ n \in Nat /\ n > 0
    BY BoundAssumption DEF Explained, State, Table, Totals
  <1>1. HoldBack(s, t, Y, n) = Block(s0, t, k)
    BY <1>0 DEF HoldBack, WithPriorities, State
  <1>2. k \in Nat /\ IsFiniteSet(Y)
    BY ThreadAssumption, FS_Subset, FS_CardinalityType
  <1>3. p \in Table /\ q \in Totals
    BY <1>0 DEF Table, Totals
  <1>4. /\ s0 \in State /\ SameWaits(s, s0)
        /\ s0.block_count = s.block_count /\ s0.running = s.running
        /\ s0.yield_priority = p /\ s0.total_yield_priority = q
    <2>. HIDE DEF p, q, c
    <2>. QED  BY <1>0, <1>3, StatePriorities
  <1>5. HoldersOf(s0, t) = Y /\ \A u \in Thread \ {t} : HoldersOf(s0, u) = HoldersOf(s, u)
    <2>1. \A y \in Thread, u \in Thread : Holds(s0, y, u) <=> IF u = t THEN y \in Y ELSE Holds(s, y, u)
      <3>. SUFFICES ASSUME NEW y \in Thread, NEW u \in Thread
                    PROVE  Holds(s0, y, u) <=> IF u = t THEN y \in Y ELSE Holds(s, y, u)
        OBVIOUS
      <3>1. s0.yield_priority[y] = IF y \in Y THEN [s.yield_priority[y] EXCEPT ![t] = n] ELSE s.yield_priority[y]
        <4>. HIDE DEF s0
        <4>. QED  BY <1>4
      <3>2. s.yield_priority[y] \in [Thread -> 0 .. MaxYield]
        BY <1>0 DEF Table
      <3>3. y \notin Y => s.yield_priority[y][t] = 0
        <4>1. ~(s.yield_priority[y][t] > 0)
          BY DEF HoldersOf, Holds
        <4>. QED  BY <4>1, <3>2, BoundAssumption
      <3>. HIDE DEF s0
      <3>. QED  BY <1>0, <3>1, <3>2, <3>3 DEF Holds
    <2>. HIDE DEF s0
    <2>. QED  BY <2>1 DEF HoldersOf
  <1>6. ASSUME NEW y \in Thread PROVE s0.total_yield_priority[y] = SumFunction(s0.yield_priority[y])
    <2>1. s.total_yield_priority[y] = SumFunction(s.yield_priority[y])
      BY DEF Explained
    <2>2. CASE y \notin Y
      <3>. HIDE DEF s0
      <3>. QED  BY <2>1, <2>2, <1>4
    <2>3. CASE y \in Y
      <3>. DEFINE f == s.yield_priority[y]
                  h == [f EXCEPT ![t] = n]
      <3>1. f \in [Thread -> Nat] /\ h \in [Thread -> Nat]
        BY <1>0, BoundAssumption DEF Table
      <3>2. f[t] = 0 /\ h[t] = n /\ \A x \in Thread \ {t} : h[x] = f[x]
        <4>1. ~(s.yield_priority[y][t] > 0)
          BY DEF HoldersOf, Holds
        <4>. QED  BY <4>1, <3>1
      <3>3. s0.yield_priority[y] = h /\ s0.total_yield_priority[y] = s.total_yield_priority[y] + n
        <4>. HIDE DEF s0
        <4>. QED  BY <1>4, <2>3
      <3>4. SumFunction(h) = SumFunction(f) - f[t] + h[t] /\ SumFunction(f) \in Nat
        <4>. HIDE DEF f, h
        <4>1. IsFiniteSet(Thread)
          BY ThreadAssumption
        <4>2. SumFunction(h) = SumFunction(f) - f[t] + h[t]
          BY ONLY <4>1, <3>1, <3>2, t \in Thread, SumChanges
        <4>3. SumFunction(f) \in Nat
          BY ONLY <4>1, <3>1, SumOfNaturals
        <4>. QED  BY <4>2, <4>3
      <3>. HIDE DEF s0, h
      <3>. QED  BY <1>0, <2>1, <3>2, <3>3, <3>4
    <2>. QED  BY <2>2, <2>3
  <1>7. Explained(s0, W0)
    <2>1. ASSUME NEW u \in Thread PROVE s0.block_count[u] = W0[u] + Cardinality(HoldersOf(s0, u))
      <3>1. s.block_count[u] = W[u] + Cardinality(HoldersOf(s, u)) /\ W[u] \in Nat
        BY DEF Explained
      <3>2. CASE u = t
        <4>1. s.block_count[t] = W[t]
          BY <3>1, <3>2, FS_EmptySet
        <4>. HIDE DEF s0, k
        <4>. QED  BY <4>1, <3>1, <3>2, <1>2, <1>4, <1>5 DEF More, k
      <3>3. CASE u # t
        <4>. HIDE DEF s0
        <4>. QED  BY <3>1, <3>3, <1>4, <1>5 DEF More
      <3>. QED  BY <3>2, <3>3
    <2>2. \A u \in Thread : u \in s0.running <=> s0.block_count[u] = 0
      <3>. HIDE DEF s0
      <3>. QED  BY <1>4 DEF Explained
    <2>. HIDE DEF s0, W0
    <2>. QED  BY <1>4, <1>6, <2>1, <2>2 DEF Explained
  <1>8. W0 \in [Thread -> Int] /\ More(W0, t, k) = W
    <2>. HIDE DEF k
    <2>. QED  BY <1>2 DEF More
  <1>. DEFINE r == Block(s0, t, k)
  <1>9. Explained(r, W) /\ SameWaits(s0, r) /\ s0.running \ {t} \subseteq r.running
    <2>. HIDE DEF s0, W0, k
    <2>1. More(W0, t, k) \in [Thread -> Nat]
      BY <1>8
    <2>. QED  BY <1>2, <1>7, <1>8, <2>1, BlockExplained
  <1>. HIDE DEF r, s0
  <1>. QED  BY <1>1, <1>4, <1>9 DEF r, SameWaits

LEMMA CountAfreshExplained ==
    ASSUME NEW s, NEW W, Explained(s, W), NEW t \in Thread
    PROVE  LET r == CountAfresh(s, t)
           IN  /\ Explained(r, W)
               /\ SameWaits(s, r)
               /\ r.running = s.running
  <1>. DEFINE c == [y \in Thread |-> [s.yield_sched_count[y] EXCEPT ![t] = 0]]
              r == WithPriorities(s, s.yield_priority, s.total_yield_priority, c)
  <1>0. s \in State /\ s.yield_priority \in Table /\ s.total_yield_priority \in Totals
    BY DEF Explained, State, Table, Totals
  <1>1. CountAfresh(s, t) = r
    BY <1>0 DEF CountAfresh, WithPriorities, State
  <1>2. c \in Table
    BY <1>0, BoundAssumption DEF State, Table
  <1>3. /\ r \in State /\ SameWaits(s, r)
        /\ r.block_count = s.block_count /\ r.running = s.running
        /\ r.yield_priority = s.yield_priority /\ r.total_yield_priority = s.total_yield_priority
    <2>. HIDE DEF c
    <2>. QED  BY <1>0, <1>2, StatePriorities
  <1>. HIDE DEF r
  <1>4. \A u \in Thread : HoldersOf(r, u) = HoldersOf(s, u)
    BY <1>3 DEF HoldersOf, Holds
  <1>. QED  BY <1>1, <1>3, <1>4 DEF Explained

\* A thread that yields leaves somebody who can go on, or may time out, if
\* there was one: itself, when all the others are held back too.
LEMMA YieldPriorityExplained ==
    ASSUME NEW s, NEW W \in [Thread -> Nat], Explained(s, W), NEW t \in Thread, HoldersOf(s, t) = {},
           NEW n \in 1 .. MaxYield
    PROVE  LET r == YieldPriority(s, t, n)
           IN  /\ Explained(r, W)
               /\ SameWaits(s, r)
               /\ ~Stuck(s) => ~Stuck(r)
               /\ t \in s.running => r.running # {}
  <1>. DEFINE Y == Before(s, t, n)
              h == HoldBack(s, t, Y, n)
              s1 == CountAfresh(h, t)
              r == IF s1.running = {} THEN Purge(s1) ELSE s1
  <1>1. r = YieldPriority(s, t, n)
    BY DEF YieldPriority
  <1>2. Y \in SUBSET Thread
    BY DEF Before
  <1>3. Explained(h, W) /\ SameWaits(s, h) /\ s.running \ {t} \subseteq h.running
    <2>. HIDE DEF Y
    <2>. QED  BY <1>2, HoldBackExplained
  <1>4. Explained(s1, W) /\ SameWaits(h, s1) /\ s1.running = h.running
    <2>. HIDE DEF h
    <2>. QED  BY <1>3, CountAfreshExplained
  <1>. DEFINE v == Purge(s1)
  <1>5. Explained(v, W) /\ SameWaits(s1, v) /\ NobodyHolds(v) /\ s1.running \subseteq v.running
    <2>. HIDE DEF s1
    <2>. QED  BY <1>4, PurgeExplained
  <1>. HIDE DEF h, s1, v
  <1>6. Explained(r, W) /\ SameWaits(s, r)
    BY <1>3, <1>4, <1>5 DEF SameWaits, v
  <1>7. ASSUME t \in s.running PROVE r.running # {}
    <2>1. W[t] = 0 /\ W[t] \in Nat
      <3>1. s.block_count[t] = 0 /\ s.block_count[t] = W[t] + Cardinality(HoldersOf(s, t)) /\ W[t] \in Nat
        BY <1>7 DEF Explained
      <3>2. Cardinality(HoldersOf(s, t)) = 0
        BY FS_EmptySet
      <3>. QED  BY <3>1, <3>2
    <2>2. v.block_count[t] = W[t] + Cardinality(HoldersOf(v, t)) /\ (t \in v.running <=> v.block_count[t] = 0)
      BY <1>5 DEF Explained
    <2>3. HoldersOf(v, t) = {}
      BY <1>5 DEF NobodyHolds
    <2>4. Cardinality(HoldersOf(v, t)) = 0
      BY <2>3, FS_EmptySet
    <2>5. t \in v.running
      BY <2>1, <2>2, <2>4
    <2>. QED  BY <2>5 DEF v
  <1>8. ASSUME ~Stuck(s) PROVE ~Stuck(r)
    <2>1. CASE s.timed # {}
      BY <2>1, <1>6 DEF Stuck, SameWaits
    <2>2. CASE t \in s.running
      BY <2>2, <1>7 DEF Stuck
    <2>3. CASE s.running # {} /\ t \notin s.running
      <3>1. s1.running # {}
        BY <2>3, <1>3, <1>4
      <3>. QED  BY <3>1 DEF Stuck
    <2>. QED  BY <1>8, <2>1, <2>2, <2>3 DEF Stuck
  <1>. HIDE DEF r
  <1>. QED  BY <1>1, <1>6, <1>7, <1>8

-----------------------------------------------------------------------------
(* The lists of those that wait                                            *)

Lists == SUBSET Thread

WithWaits(s, timed, spurious, dynamic, finished, parked) ==
    [s EXCEPT !.timed = timed, !.spurious = spurious, !.dynamic = dynamic,
              !.finished = finished, !.parked = parked]

SameHolders(s, r) == \A t \in Thread : HoldersOf(r, t) = HoldersOf(s, t)

\* r has these lists, and is s otherwise.
HasWaits(s, r, timed, spurious, dynamic, finished, parked) ==
    /\ r.timed = timed /\ r.spurious = spurious /\ r.dynamic = dynamic
    /\ r.finished = finished /\ r.parked = parked
    /\ r.running = s.running /\ r.block_count = s.block_count
    /\ SameHolders(s, r)

\* The counts do not depend on these lists.
LEMMA WaitsExplained ==
    ASSUME NEW s, NEW W, Explained(s, W), NEW timed \in Lists, NEW spurious \in Lists,
           NEW dynamic \in Lists, NEW finished \in Lists, NEW parked \in Lists
    PROVE  LET r == WithWaits(s, timed, spurious, dynamic, finished, parked)
           IN  Explained(r, W) /\ HasWaits(s, r, timed, spurious, dynamic, finished, parked)
  <1>. DEFINE r == WithWaits(s, timed, spurious, dynamic, finished, parked)
  <1>0. s \in State
    BY DEF Explained
  <1>1. /\ r \in State
        /\ r.timed = timed /\ r.spurious = spurious /\ r.dynamic = dynamic
        /\ r.finished = finished /\ r.parked = parked
        /\ r.running = s.running /\ r.block_count = s.block_count
        /\ r.yield_priority = s.yield_priority /\ r.total_yield_priority = s.total_yield_priority
    BY <1>0 DEF State, WithWaits, Lists
  <1>. HIDE DEF r
  <1>2. \A t \in Thread : HoldersOf(r, t) = HoldersOf(s, t)
    BY <1>1 DEF HoldersOf, Holds
  <1>3. Explained(r, W)
    BY <1>1, <1>2 DEF Explained
  <1>. QED  BY <1>1, <1>2, <1>3 DEF r, SameHolders, HasWaits

LEMMA GoodTypes ==
    ASSUME NEW s, Good(s)
    PROVE  /\ s \in State
           /\ WaitCount(s) \in [Thread -> Nat]
           /\ s.timed \in SUBSET Thread /\ s.spurious \in SUBSET Thread /\ s.dynamic \in SUBSET Thread
           /\ s.finished \in SUBSET Thread /\ s.parked \in SUBSET Thread /\ s.running \in SUBSET Thread
  <1>1. s \in State
    BY DEF Good, Explained
  <1>. QED  BY <1>1 DEF State, WaitCount

\* What leaves the waits alone and explains the counts keeps the state good.
LEMMA GoodKept ==
    ASSUME NEW s, NEW r, Good(s), Explained(r, WaitCount(s)), SameWaits(s, r)
    PROVE  Good(r)
  <1>1. WaitCount(r) = WaitCount(s)
    BY DEF WaitCount, SameWaits
  <1>. QED  BY <1>1 DEF Good, OneWait, SameWaits

\* A thread that can run waits for nothing and is held back by nobody; one that
\* waits is blocked, and only by its wait if nobody holds it back.
LEMMA GoodThreads ==
    ASSUME NEW s, Good(s), NEW t \in Thread
    PROVE  /\ s.block_count[t] \in Nat
           /\ t \in s.running => /\ t \notin s.parked \cup s.finished \cup s.dynamic
                                 /\ HoldersOf(s, t) = {}
           /\ t \in s.parked \cup s.finished \cup s.dynamic => s.block_count[t] > 0
           /\ HoldersOf(s, t) = {} =>
                s.block_count[t] = IF t \in s.parked \cup s.finished \cup s.dynamic THEN 1 ELSE 0
  <1>1. /\ s.block_count[t] = WaitCount(s)[t] + Cardinality(HoldersOf(s, t))
        /\ t \in s.running <=> s.block_count[t] = 0
    BY DEF Good, Explained
  <1>2. Cardinality(HoldersOf(s, t)) \in Nat /\ (Cardinality(HoldersOf(s, t)) = 0 <=> HoldersOf(s, t) = {})
    BY HoldersFinite, HoldersEmpty
  <1>3. WaitCount(s)[t] = IF t \in s.parked \cup s.finished \cup s.dynamic THEN 1 ELSE 0
    BY DEF WaitCount
  <1>. QED  BY <1>1, <1>2, <1>3

\* unpark_thread, for one that is parked.
LEMMA UnparkGood ==
    ASSUME NEW s, Good(s), NEW t \in s.parked
    PROVE  LET r == UnparkThread(s, t)
           IN  /\ Good(r)
               /\ \A u \in Thread : HoldersOf(r, u) = HoldersOf(s, u)
               /\ s.running \subseteq r.running
               /\ r.running \subseteq s.running \cup {t}
               /\ s.block_count[t] = 1 => t \in r.running
  <1>. DEFINE W == WaitCount(s)
              b == Unblock(s, {t})
              r == WithWaits(b, s.timed \ {t}, s.spurious \ {t}, s.dynamic, s.finished, s.parked \ {t})
  <1>0. /\ s \in State /\ t \in Thread /\ W \in [Thread -> Int] /\ Explained(s, W)
        /\ s.timed \in SUBSET Thread /\ s.spurious \in SUBSET Thread /\ s.dynamic \in SUBSET Thread
        /\ s.finished \in SUBSET Thread /\ s.parked \in SUBSET Thread
    BY GoodTypes DEF Good
  <1>1. s.block_count[t] > 0 /\ s.block_count[t] \in Nat
    BY <1>0, GoodThreads
  <1>2. /\ Explained(b, Fewer(W, {t}))
        /\ SameWaits(s, b)
        /\ b.yield_priority = s.yield_priority
        /\ s.running \subseteq b.running
        /\ b.block_count = Fewer(s.block_count, {t})
    <2>1. {t} \in SUBSET Thread /\ \A u \in {t} : s.block_count[u] > 0
      BY <1>0, <1>1
    <2>. HIDE DEF W
    <2>. QED  BY <1>0, <2>1, UnblockExplained
  <1>3. UnparkThread(s, t) = r
    <2>1. b \in State
      BY <1>2 DEF Explained
    <2>. HIDE DEF b
    <2>. QED  BY <1>2, <2>1 DEF UnparkThread, WithWaits, b, State, SameWaits
  <1>4. /\ Explained(r, Fewer(W, {t}))
        /\ r.timed = s.timed \ {t} /\ r.spurious = s.spurious \ {t} /\ r.dynamic = s.dynamic
        /\ r.finished = s.finished /\ r.parked = s.parked \ {t}
        /\ r.running = b.running /\ r.block_count = b.block_count
        /\ \A u \in Thread : HoldersOf(r, u) = HoldersOf(b, u)
    <2>. DEFINE ti == s.timed \ {t}  sp == s.spurious \ {t}  pa == s.parked \ {t}
    <2>1. /\ ti \in Lists /\ sp \in Lists /\ pa \in Lists
          /\ s.dynamic \in Lists /\ s.finished \in Lists
      BY <1>0 DEF Lists
    <2>. HIDE DEF b, W, ti, sp, pa
    <2>3. Explained(b, Fewer(W, {t}))
      BY <1>2
    <2>. DEFINE v == WithWaits(b, ti, sp, s.dynamic, s.finished, pa)
    <2>4. Explained(v, Fewer(W, {t})) /\ HasWaits(b, v, ti, sp, s.dynamic, s.finished, pa)
      BY <2>1, <2>3, WaitsExplained
    <2>. QED  BY <2>4 DEF ti, sp, pa, HasWaits, SameHolders
  <1>5. \A u \in Thread : HoldersOf(b, u) = HoldersOf(s, u)
    <2>. HIDE DEF b
    <2>. QED  BY <1>2 DEF HoldersOf, Holds
  <1>. HIDE DEF r, b
  <1>6. Fewer(W, {t}) = WaitCount(r)
    <2>1. t \notin s.finished /\ t \notin s.dynamic
      BY DEF Good, OneWait
    <2>. QED  BY <1>4, <2>1 DEF Fewer, WaitCount
  <1>7. OneWait(r)
    BY <1>4 DEF Good, OneWait
  <1>8. \A u \in Thread : u \in r.running <=> Fewer(s.block_count, {t})[u] = 0
    BY <1>2, <1>4 DEF Explained
  <1>9. r.running \subseteq Thread
    BY <1>4 DEF Explained, State
  <1>10. \A u \in Thread : u \in s.running <=> s.block_count[u] = 0
    BY <1>0 DEF Explained
  <1>11. r.running \subseteq s.running \cup {t} /\ (s.block_count[t] = 1 => t \in r.running)
    BY <1>0, <1>1, <1>8, <1>9, <1>10 DEF Fewer
  <1>12. Good(r)
    <2>. HIDE DEF W
    <2>. QED  BY <1>4, <1>6, <1>7 DEF Good
  <1>. HIDE DEF W
  <1>. QED  BY <1>2, <1>3, <1>4, <1>5, <1>11, <1>12

-----------------------------------------------------------------------------
(* The choice of the next thread                                           *)

\* What schedule starts from: somebody can run, or time out.
Ready(s) == Good(s) /\ ~Stuck(s) /\ (~TreeSearch => NobodyHolds(s))

\* One of those that can run goes on, at the cost of a switch that is left.
LEMMA ResumeInvariant ==
    ASSUME TypeOK, outcome = "none", NEW s, Good(s), ~TreeSearch => NobodyHolds(s),
           NEW u \in s.running, NEW r \in {"normal", "timeout", "spurious"},
           scheduler = "context_bound" /\ switches_remain = 0 /\ thread_ \in s.running => u = thread_,
           Resume(s, u, r)
    PROVE  IInv'
  <1>1. s \in State /\ u \in Thread
    BY GoodTypes
  <1>2. switches_remain' \in 0 .. ContextBound
    BY BoundAssumption DEF Resume, TypeOK
  <1>3. /\ sched' = s /\ thread_' = u /\ reason' = r /\ scheduler' = scheduler /\ outcome' = "none"
    BY DEF Resume
  <1>4. TypeOK'
    BY <1>1, <1>2, <1>3 DEF TypeOK, State
  <1>5. (TreeSearch <=> TreeSearch')
    BY <1>3 DEF TreeSearch
  <1>6. Good(sched') /\ (~TreeSearch' => NobodyHolds(sched'))
    BY <1>3, <1>5
  <1>7. DeadlockIsReal' /\ VerifyNeedsAHeldTimedThread'
    BY <1>3 DEF DeadlockIsReal, VerifyNeedsAHeldTimedThread
  <1>8. (Good(sched))' /\ (~TreeSearch => NobodyHolds(sched))' /\ (outcome = "none" => thread_ \in sched.running)'
    BY <1>3, <1>6 DEF Good, Explained, OneWait, WaitCount, NobodyHolds, HoldersOf, Holds, State
  <1>. QED  BY <1>4, <1>7, <1>8 DEF IInv

\* The iteration ends, with a result that means what it should.
LEMMA EndInvariant ==
    ASSUME TypeOK, NEW s, Good(s), ~TreeSearch => NobodyHolds(s),
           NEW result \in {"last", "deadlock", "verify"},
           result = "deadlock" =>
               \A t \in Thread \ s.finished : t \in (s.parked \ s.timed) \cup s.dynamic,
           result = "verify" => TreeSearch /\ HeldBack(s, s.timed),
           End(s, result)
    PROVE  IInv'
  <1>1. s \in State
    BY GoodTypes
  <1>3. /\ sched' = s /\ UNCHANGED <<thread_, reason, scheduler, switches_remain>> /\ outcome' = result
    BY DEF End
  <1>4. TypeOK'
    BY <1>1, <1>3 DEF TypeOK, State
  <1>5. (TreeSearch <=> TreeSearch')
    BY <1>3 DEF TreeSearch
  <1>6. Good(sched') /\ (~TreeSearch' => NobodyHolds(sched'))
    BY <1>3, <1>5
  <1>7. DeadlockIsReal' /\ VerifyNeedsAHeldTimedThread'
    BY <1>3, <1>5 DEF DeadlockIsReal, VerifyNeedsAHeldTimedThread, HeldBack
  <1>8. (Good(sched))' /\ (~TreeSearch => NobodyHolds(sched))' /\ (outcome = "none" => thread_ \in sched.running)'
    BY <1>3, <1>6 DEF Good, Explained, OneWait, WaitCount, NobodyHolds, HoldersOf, Holds, State
  <1>. QED  BY <1>4, <1>7, <1>8 DEF IInv

\* A wait that ends without a signal lets its thread go on.
LEMMA WakeInvariant ==
    ASSUME TypeOK, outcome = "none", NEW s, Good(s), ~TreeSearch => NobodyHolds(s),
           scheduler = "context_bound" /\ switches_remain = 0 => thread_ \notin s.running,
           Timeout(s) \/ Spurious(s)
    PROVE  IInv'
  <1>1. PICK u \in s.parked, r \in {"timeout", "spurious"} :
            s.block_count[u] = 1 /\ Resume(UnparkThread(s, u), u, r)
    BY DEF Timeout, Spurious, Good, OneWait
  <1>. DEFINE v == UnparkThread(s, u)
  <1>2. /\ Good(v)
        /\ \A x \in Thread : HoldersOf(v, x) = HoldersOf(s, x)
        /\ v.running \subseteq s.running \cup {u}
        /\ u \in v.running
    BY <1>1, UnparkGood
  <1>. HIDE DEF v
  <1>3. ~TreeSearch => NobodyHolds(v)
    BY <1>2 DEF NobodyHolds
  <1>4. scheduler = "context_bound" /\ switches_remain = 0 /\ thread_ \in v.running => u = thread_
    BY <1>2
  <1>5. Resume(v, u, r)
    BY <1>1 DEF v
  <1>. QED  BY <1>2, <1>3, <1>4, <1>5, ResumeInvariant

LEMMA ScheduleSearchInvariant ==
    ASSUME TypeOK, outcome = "none", TreeSearch, NEW s, Ready(s), ScheduleSearch(s)
    PROVE  IInv'
  <1>0. Good(s) /\ ~Stuck(s)
    BY DEF Ready
  <1>1. CASE scheduler = "context_bound" /\ switches_remain = 0 /\ thread_ \in s.running
    <2>1. Resume(s, thread_, "normal")
      BY <1>1 DEF ScheduleSearch
    <2>. QED  BY <1>0, <1>1, <2>1, ResumeInvariant
  <1>2. CASE ~(scheduler = "context_bound" /\ switches_remain = 0 /\ thread_ \in s.running)
    <2>1. CASE Timeout(s) \/ Spurious(s)
      BY <1>0, <1>2, <2>1, WakeInvariant
    <2>2. CASE \E u \in s.running : Resume(s, u, "normal")
      BY <1>0, <1>2, <2>2, ResumeInvariant
    <2>3. CASE /\ s.running # {} \/ s.timed = {} \/ HeldBack(s, s.timed)
               /\ s.running = {}
               /\ End(s, "verify")
      <3>1. HeldBack(s, s.timed)
        BY <1>0, <2>3 DEF Stuck
      <3>. QED  BY <1>0, <2>3, <3>1, EndInvariant
    <2>. QED  BY <1>2, <2>1, <2>2, <2>3 DEF ScheduleSearch
  <1>. QED  BY <1>1, <1>2

\* The random scheduler holds nobody back, so that its checks do not fail.
LEMMA ScheduleRandomInvariant ==
    ASSUME TypeOK, outcome = "none", ~TreeSearch, NEW s, Ready(s), ScheduleRandom(s)
    PROVE  IInv'
  <1>0. Good(s) /\ ~Stuck(s) /\ NobodyHolds(s) /\ scheduler # "context_bound"
    BY DEF Ready, TreeSearch
  <1>1. CASE Timeout(s) \/ Spurious(s)
    BY <1>0, <1>1, WakeInvariant
  <1>2. CASE \E u \in s.running : Resume(s, u, "normal")
    BY <1>0, <1>2, ResumeInvariant
  <1>3. ~HeldBack(s, s.timed) /\ ~HeldBack(s, s.spurious)
    <2>1. \A t \in s.parked : t \in Thread /\ s.block_count[t] = 1
      BY <1>0, GoodThreads, GoodTypes DEF NobodyHolds
    <2>2. s.timed \subseteq s.parked /\ s.spurious \subseteq s.parked
      BY <1>0 DEF Good, OneWait
    <2>. QED  BY <2>1, <2>2 DEF HeldBack
  <1>. QED  BY <1>0, <1>1, <1>2, <1>3 DEF ScheduleRandom, Stuck

\* schedule keeps the invariant, whoever yields.
LEMMA ScheduleInvariant ==
    ASSUME TypeOK, outcome = "none", NEW s, Ready(s), NEW n \in 0 .. MaxYield,
           n > 0 => HoldersOf(s, thread_) = {}, Schedule(s, n)
    PROVE  IInv'
  <1>1. CASE ~TreeSearch
    BY <1>1, ScheduleRandomInvariant DEF Schedule
  <1>2. CASE TreeSearch
    <2>. DEFINE W == WaitCount(s)
                s1 == CountTurn(s, thread_)
                s2 == YieldPriority(s1, thread_, n)
    <2>0. Good(s) /\ ~Stuck(s) /\ Explained(s, W) /\ W \in [Thread -> Nat] /\ thread_ \in Thread
      BY GoodTypes DEF Ready, Good, TypeOK
    <2>1. /\ Explained(s1, W)
          /\ SameWaits(s, s1)
          /\ \A u \in Thread : HoldersOf(s1, u) \subseteq HoldersOf(s, u)
          /\ s.running \subseteq s1.running
      <3>. HIDE DEF W
      <3>. QED  BY <2>0, CountTurnExplained
    <2>2. ~Stuck(s1) /\ Good(s1)
      <3>. HIDE DEF s1
      <3>. QED  BY <2>0, <2>1, GoodKept DEF Stuck, SameWaits
    <2>3. CASE n > 0
      <3>1. n \in 1 .. MaxYield /\ HoldersOf(s1, thread_) = {}
        BY <2>0, <2>1, <2>3
      <3>2. Explained(s2, W) /\ SameWaits(s1, s2) /\ ~Stuck(s2)
        <4>. HIDE DEF W, s1
        <4>. QED  BY <2>0, <2>1, <2>2, <3>1, YieldPriorityExplained
      <3>. HIDE DEF s1, s2
      <3>3. SameWaits(s, s2)
        BY <2>1, <3>2 DEF SameWaits
      <3>4. Ready(s2)
        BY <2>0, <3>2, <3>3, <1>2, GoodKept DEF Ready
      <3>5. ScheduleSearch(s2)
        BY <1>2, <2>3 DEF Schedule, s1, s2
      <3>. QED  BY <1>2, <3>4, <3>5, ScheduleSearchInvariant
    <2>4. CASE ~(n > 0)
      <3>1. ScheduleSearch(s1)
        BY <1>2, <2>4 DEF Schedule
      <3>. HIDE DEF s1
      <3>. QED  BY <1>2, <2>2, <3>1, ScheduleSearchInvariant DEF Ready
    <2>. QED  BY <2>3, <2>4
  <1>. QED  BY <1>1, <1>2

-----------------------------------------------------------------------------
(* What the running thread calls                                           *)

\* is_deadlock: after its purge nobody is held back, so that whoever cannot run
\* waits for something.
LEMMA PurgedGood ==
    ASSUME NEW s, Good(s)
    PROVE  LET p == Purged(s)
           IN  /\ Good(p)
               /\ SameWaits(s, p)
               /\ \A t \in Thread : HoldersOf(p, t) \subseteq HoldersOf(s, t)
               /\ Stuck(p) => /\ NobodyHolds(p)
                              /\ \A t \in Thread \ p.finished : t \in (p.parked \ p.timed) \cup p.dynamic
  <1>. DEFINE v == Purge(s)
  <1>1. /\ Explained(v, WaitCount(s))
        /\ SameWaits(s, v)
        /\ NobodyHolds(v)
    BY GoodTypes, PurgeExplained DEF Good
  <1>. HIDE DEF v
  <1>2. Good(v)
    BY <1>1, GoodKept
  <1>3. ASSUME Stuck(v), NEW t \in Thread \ v.finished PROVE t \in (v.parked \ v.timed) \cup v.dynamic
    <2>1. v.block_count[t] = IF t \in v.parked \cup v.finished \cup v.dynamic THEN 1 ELSE 0
      BY <1>1, <1>2, GoodThreads DEF NobodyHolds
    <2>2. v.block_count[t] # 0
      BY <1>2, <1>3 DEF Good, Explained, Stuck
    <2>. QED  BY <2>1, <2>2, <1>3 DEF Stuck
  <1>4. CASE Stuck(s)
    <2>1. Purged(s) = v
      BY <1>4 DEF Purged, v
    <2>2. \A t \in Thread : HoldersOf(v, t) \subseteq HoldersOf(s, t)
      BY <1>1 DEF NobodyHolds
    <2>. QED  BY <1>1, <1>2, <1>3, <2>1, <2>2
  <1>5. CASE ~Stuck(s)
    <2>1. Purged(s) = s
      BY <1>5 DEF Purged
    <2>. QED  BY <1>5, <2>1 DEF SameWaits
  <1>. QED  BY <1>4, <1>5

LEMMA NobodyHoldsStays ==
    ASSUME NEW s, NEW r, NobodyHolds(s), \A t \in Thread : HoldersOf(r, t) \subseteq HoldersOf(s, t)
    PROVE  NobodyHolds(r)
  BY DEF NobodyHolds

\* sched and yield.
LEMMA YieldInvariant ==
    ASSUME IInv, outcome = "none", Sched \/ Yield
    PROVE  IInv'
  <1>1. Ready(sched) /\ HoldersOf(sched, thread_) = {} /\ TypeOK
    BY GoodThreads DEF IInv, Ready, Stuck, TypeOK
  <1>2. PICK n \in 0 .. MaxYield : Schedule(sched, n)
    BY BoundAssumption DEF Sched, Yield
  <1>. QED  BY <1>1, <1>2, ScheduleInvariant

\* park_current_thread: the thread that parks waits for nothing yet, and the
\* deadlock it may find is one.
LEMMA ParkInvariant ==
    ASSUME IInv, outcome = "none", ParkCurrentThread
    PROVE  IInv'
  <1>1. PICK args \in ParkArguments :
            LET t == thread_
                s == Block([sched EXCEPT
                        !.timed = IF args[1] THEN @ \cup {t} ELSE @,
                        !.spurious = IF args[2] THEN @ \cup {t} ELSE @,
                        !.parked = @ \cup {t}], t, 1)
            IN  IF Stuck(Purged(s)) THEN End(Purged(s), "deadlock") ELSE Schedule(Purged(s), 1)
    BY DEF ParkCurrentThread
  <1>. DEFINE t == thread_
              ti == IF args[1] THEN sched.timed \cup {t} ELSE sched.timed
              sp == IF args[2] THEN sched.spurious \cup {t} ELSE sched.spurious
              pa == sched.parked \cup {t}
              w == WithWaits(sched, ti, sp, sched.dynamic, sched.finished, pa)
              W == WaitCount(sched)
              s == Block(w, t, 1)
              p == Purged(s)
  <1>2. /\ TypeOK /\ Good(sched) /\ t \in Thread /\ t \in sched.running
        /\ sched \in State /\ W \in [Thread -> Nat] /\ Explained(sched, W)
        /\ t \notin sched.parked \cup sched.finished \cup sched.dynamic
        /\ HoldersOf(sched, t) = {}
        /\ ~TreeSearch => NobodyHolds(sched)
    BY GoodTypes, GoodThreads DEF IInv, TypeOK, Good
  <1>3. /\ ti \in Lists /\ sp \in Lists /\ pa \in Lists
        /\ sched.dynamic \in Lists /\ sched.finished \in Lists
    BY <1>2, GoodTypes DEF Lists
  <1>4. Explained(w, W) /\ HasWaits(sched, w, ti, sp, sched.dynamic, sched.finished, pa)
    <2>. HIDE DEF W, ti, sp, pa, t
    <2>. QED  BY <1>2, <1>3, WaitsExplained
  <1>5. [sched EXCEPT !.timed = IF args[1] THEN @ \cup {t} ELSE @,
                      !.spurious = IF args[2] THEN @ \cup {t} ELSE @,
                      !.parked = @ \cup {t}] = w
    BY <1>2 DEF WithWaits, State
  <1>6. IF Stuck(p) THEN End(p, "deadlock") ELSE Schedule(p, 1)
    BY <1>1, <1>5
  <1>7. More(W, t, 1) \in [Thread -> Nat] /\ W \in [Thread -> Int]
    <2>. HIDE DEF W
    <2>. QED  BY <1>2 DEF More
  <1>8. /\ Explained(s, More(W, t, 1))
        /\ SameWaits(w, s)
        /\ \A u \in Thread : HoldersOf(s, u) \subseteq HoldersOf(w, u)
    <2>1. 1 \in Nat
      OBVIOUS
    <2>. HIDE DEF W, w, t
    <2>. QED  BY <2>1, <1>2, <1>4, <1>7, BlockExplained
  <1>. HIDE DEF s, w, p
  <1>9. Good(s)
    <2>1. /\ s.timed = ti /\ s.spurious = sp /\ s.dynamic = sched.dynamic
          /\ s.finished = sched.finished /\ s.parked = pa
      BY <1>4, <1>8 DEF HasWaits, SameWaits
    <2>2. WaitCount(s) = More(W, t, 1)
      BY <1>2, <2>1 DEF WaitCount, More
    <2>3. OneWait(s)
      BY <1>2, <2>1 DEF Good, OneWait
    <2>. QED  BY <1>8, <2>2, <2>3 DEF Good
  <1>10. \A u \in Thread : HoldersOf(s, u) \subseteq HoldersOf(sched, u)
    BY <1>4, <1>8 DEF HasWaits, SameHolders
  <1>11. /\ Good(p)
         /\ \A u \in Thread : HoldersOf(p, u) \subseteq HoldersOf(s, u)
         /\ Stuck(p) => \A u \in Thread \ p.finished : u \in (p.parked \ p.timed) \cup p.dynamic
    BY <1>9, PurgedGood DEF p
  <1>12. (~TreeSearch => NobodyHolds(p)) /\ HoldersOf(p, t) = {}
    BY <1>2, <1>10, <1>11, NobodyHoldsStays
  <1>13. CASE Stuck(p)
    BY <1>2, <1>6, <1>11, <1>12, <1>13, EndInvariant
  <1>14. CASE ~Stuck(p)
    <2>1. Ready(p)
      BY <1>11, <1>12, <1>14 DEF Ready
    <2>2. 1 \in 0 .. MaxYield
      BY BoundAssumption
    <2>. QED  BY <1>2, <1>6, <1>12, <1>14, <2>1, <2>2, ScheduleInvariant
  <1>. QED  BY <1>13, <1>14

\* The running thread goes on after it has unparked or created another.
LEMMA GoesOn ==
    ASSUME IInv, outcome = "none", Good(sched'), sched.running \subseteq sched'.running,
           \A u \in Thread : HoldersOf(sched', u) = HoldersOf(sched, u),
           UNCHANGED <<scheduler, thread_, reason, switches_remain, outcome>>
    PROVE  IInv'
  <1>1. sched' \in State
    BY GoodTypes
  <1>2. TypeOK'
    BY <1>1 DEF IInv, TypeOK, State
  <1>3. ~TreeSearch' => NobodyHolds(sched')
    BY DEF IInv, TreeSearch, NobodyHolds
  <1>4. thread_' \in sched'.running
    BY DEF IInv
  <1>5. DeadlockIsReal' /\ VerifyNeedsAHeldTimedThread'
    BY DEF DeadlockIsReal, VerifyNeedsAHeldTimedThread
  <1>6. (Good(sched))' /\ (~TreeSearch => NobodyHolds(sched))'
    BY <1>3 DEF Good, Explained, OneWait, WaitCount, NobodyHolds, HoldersOf, Holds, State
  <1>. QED  BY <1>2, <1>4, <1>5, <1>6 DEF IInv

LEMMA UnparkInvariant ==
    ASSUME IInv, outcome = "none", Unpark
    PROVE  IInv'
  <1>1. PICK t \in sched.parked : sched' = UnparkThread(sched, t)
    BY DEF Unpark
  <1>. DEFINE r == UnparkThread(sched, t)
  <1>2. /\ Good(r)
        /\ \A u \in Thread : HoldersOf(r, u) = HoldersOf(sched, u)
        /\ sched.running \subseteq r.running
    BY UnparkGood DEF IInv
  <1>. HIDE DEF r
  <1>3. sched' = r
    BY <1>1 DEF r
  <1>. QED  BY <1>2, <1>3, GoesOn DEF Unpark

\* Dynamic threads that are no more, one of them or all: they have one block
\* less.
LEMMA StartGood ==
    ASSUME NEW s, Good(s), NEW T \in SUBSET s.dynamic
    PROVE  LET b == Unblock(s, T)
               r == [b EXCEPT !.dynamic = s.dynamic \ T]
           IN  /\ Good(r)
               /\ \A u \in Thread : HoldersOf(r, u) = HoldersOf(s, u)
               /\ s.running \subseteq r.running
               /\ b.dynamic = s.dynamic
               /\ \A t \in T : HoldersOf(s, t) = {} => t \in r.running
  <1>. DEFINE W == WaitCount(s)
              b == Unblock(s, T)
              dy == s.dynamic \ T
              r == WithWaits(b, s.timed, s.spurious, dy, s.finished, s.parked)
  <1>0. /\ s \in State /\ T \in SUBSET Thread /\ W \in [Thread -> Int] /\ Explained(s, W)
        /\ s.timed \in Lists /\ s.spurious \in Lists /\ dy \in Lists
        /\ s.finished \in Lists /\ s.parked \in Lists
    BY GoodTypes DEF Good, Lists
  <1>1. \A t \in T : s.block_count[t] > 0 /\ s.block_count[t] \in Nat
    BY <1>0, GoodThreads
  <1>2. /\ Explained(b, Fewer(W, T))
        /\ SameWaits(s, b)
        /\ b.yield_priority = s.yield_priority
        /\ s.running \subseteq b.running
        /\ b.block_count = Fewer(s.block_count, T)
    <2>. HIDE DEF W
    <2>. QED  BY <1>0, <1>1, UnblockExplained
  <1>3. [b EXCEPT !.dynamic = s.dynamic \ T] = r
    <2>1. b \in State
      BY <1>2 DEF Explained
    <2>. HIDE DEF b
    <2>. QED  BY <1>2, <2>1 DEF WithWaits, State, SameWaits
  <1>4. Explained(r, Fewer(W, T)) /\ HasWaits(b, r, s.timed, s.spurious, dy, s.finished, s.parked)
    <2>1. Explained(b, Fewer(W, T))
      BY <1>2
    <2>. HIDE DEF b, W, dy
    <2>. QED  BY <1>0, <2>1, WaitsExplained
  <1>5. \A u \in Thread : HoldersOf(b, u) = HoldersOf(s, u)
    <2>. HIDE DEF b
    <2>. QED  BY <1>2 DEF HoldersOf, Holds
  <1>. HIDE DEF r, b
  <1>6. /\ r.timed = s.timed /\ r.spurious = s.spurious /\ r.dynamic = s.dynamic \ T
        /\ r.finished = s.finished /\ r.parked = s.parked /\ r.running = b.running
        /\ r.block_count = b.block_count
        /\ \A u \in Thread : HoldersOf(r, u) = HoldersOf(b, u)
    BY <1>4 DEF HasWaits, SameHolders
  <1>7. Fewer(W, T) = WaitCount(r)
    <2>1. s.parked \cap s.dynamic = {} /\ s.finished \cap s.dynamic = {}
      BY DEF Good, OneWait
    <2>. QED  BY <1>6, <2>1 DEF Fewer, WaitCount
  <1>8. OneWait(r)
    BY <1>6 DEF Good, OneWait
  <1>9. Good(r)
    <2>. HIDE DEF W
    <2>. QED  BY <1>4, <1>7, <1>8 DEF Good
  <1>10. ASSUME NEW t \in T, HoldersOf(s, t) = {} PROVE t \in r.running
    <2>1. s.block_count[t] = 1
      BY <1>0, <1>10, GoodThreads
    <2>2. r.block_count[t] = 0
      BY <1>0, <1>2, <1>6, <2>1 DEF Fewer
    <2>. QED  BY <1>0, <1>4, <2>2 DEF Explained
  <1>. HIDE DEF W
  <1>11. b.dynamic = s.dynamic
    BY <1>2 DEF SameWaits
  <1>. QED  BY <1>2, <1>3, <1>5, <1>6, <1>9, <1>10, <1>11 DEF b

LEMMA CreateInvariant ==
    ASSUME IInv, outcome = "none", CreateThread
    PROVE  IInv'
  <1>1. PICK t \in sched.dynamic : sched' = [Unblock(sched, {t}) EXCEPT !.dynamic = @ \ {t}]
    BY DEF CreateThread
  <1>. DEFINE b == Unblock(sched, {t})
              r == [b EXCEPT !.dynamic = sched.dynamic \ {t}]
  <1>2. {t} \in SUBSET sched.dynamic /\ Good(sched)
    BY DEF IInv
  <1>3. /\ Good(r)
        /\ \A u \in Thread : HoldersOf(r, u) = HoldersOf(sched, u)
        /\ sched.running \subseteq r.running
        /\ b.dynamic = sched.dynamic
    BY <1>2, StartGood
  <1>4. sched' = r
    <2>. HIDE DEF b
    <2>. QED  BY <1>1, <1>3 DEF b
  <1>. HIDE DEF r
  <1>. QED  BY <1>3, <1>4, GoesOn DEF CreateThread

\* thread_finished: the last of them ends the iteration, and one that leaves
\* nobody to go on starts the dynamic threads or finds a deadlock.
LEMMA FinishInvariant ==
    ASSUME IInv, outcome = "none", ThreadFinished
    PROVE  IInv'
  <1>. DEFINE t == thread_
              W == WaitCount(sched)
              b == Block(sched, t, 1)
              fi == sched.finished \cup {t}
              s == WithWaits(b, sched.timed, sched.spurious, sched.dynamic, fi, sched.parked)
              p == Purged(s)
              started == [Unblock(p, p.dynamic) EXCEPT !.dynamic = {}]
  <1>2. /\ TypeOK /\ Good(sched) /\ t \in Thread /\ t \in sched.running
        /\ sched \in State /\ W \in [Thread -> Nat] /\ Explained(sched, W)
        /\ t \notin sched.parked \cup sched.finished \cup sched.dynamic
        /\ ~TreeSearch => NobodyHolds(sched)
    BY GoodTypes, GoodThreads DEF IInv, TypeOK, Good
  <1>3. /\ sched.timed \in Lists /\ sched.spurious \in Lists /\ sched.parked \in Lists
        /\ sched.dynamic \in Lists /\ fi \in Lists
    BY <1>2, GoodTypes DEF Lists
  <1>4. More(W, t, 1) \in [Thread -> Nat] /\ W \in [Thread -> Int]
    <2>. HIDE DEF W
    <2>. QED  BY <1>2 DEF More
  <1>5. /\ Explained(b, More(W, t, 1))
        /\ SameWaits(sched, b)
        /\ \A u \in Thread : HoldersOf(b, u) \subseteq HoldersOf(sched, u)
    <2>1. 1 \in Nat
      OBVIOUS
    <2>. HIDE DEF W, t
    <2>. QED  BY <2>1, <1>2, <1>4, BlockExplained
  <1>6. [b EXCEPT !.finished = @ \cup {t}] = s
    <2>1. b \in State
      BY <1>5 DEF Explained
    <2>. HIDE DEF b
    <2>. QED  BY <1>5, <2>1 DEF WithWaits, State, SameWaits
  <1>7. Explained(s, More(W, t, 1))
        /\ HasWaits(b, s, sched.timed, sched.spurious, sched.dynamic, fi, sched.parked)
    <2>1. Explained(b, More(W, t, 1))
      BY <1>5
    <2>. HIDE DEF b, W, t, fi
    <2>. QED  BY <1>3, <2>1, WaitsExplained
  <1>8. IF s.finished = Thread THEN End(s, "last")
        ELSE IF ~Stuck(p) THEN Schedule(p, 0)
        ELSE IF p.dynamic # {} THEN Schedule(started, 0)
        ELSE End(p, "deadlock")
    <2>1. LET v == [b EXCEPT !.finished = @ \cup {t}]
              q == Purged(v)
          IN  IF v.finished = Thread THEN End(v, "last")
              ELSE IF ~Stuck(q) THEN Schedule(q, 0)
              ELSE IF q.dynamic # {} THEN Schedule([Unblock(q, q.dynamic) EXCEPT !.dynamic = {}], 0)
              ELSE End(q, "deadlock")
      BY DEF ThreadFinished
    <2>. HIDE DEF s, b
    <2>. QED  BY <1>6, <2>1
  <1>. HIDE DEF s, b, p
  <1>9. Good(s)
    <2>1. /\ s.timed = sched.timed /\ s.spurious = sched.spurious /\ s.dynamic = sched.dynamic
          /\ s.finished = fi /\ s.parked = sched.parked
      BY <1>7 DEF HasWaits
    <2>2. WaitCount(s) = More(W, t, 1)
      BY <1>2, <2>1 DEF WaitCount, More
    <2>3. OneWait(s)
      BY <1>2, <2>1 DEF Good, OneWait
    <2>. QED  BY <1>7, <2>2, <2>3 DEF Good
  <1>10. \A u \in Thread : HoldersOf(s, u) \subseteq HoldersOf(sched, u)
    BY <1>5, <1>7 DEF HasWaits, SameHolders
  <1>11. /\ Good(p)
         /\ \A u \in Thread : HoldersOf(p, u) \subseteq HoldersOf(s, u)
         /\ Stuck(p) => /\ NobodyHolds(p)
                        /\ \A u \in Thread \ p.finished : u \in (p.parked \ p.timed) \cup p.dynamic
    BY <1>9, PurgedGood DEF p
  <1>12. ~TreeSearch => NobodyHolds(s) /\ NobodyHolds(p)
    BY <1>2, <1>10, <1>11, NobodyHoldsStays
  <1>13. 0 \in 0 .. MaxYield
    BY BoundAssumption
  <1>14. CASE s.finished = Thread
    BY <1>2, <1>8, <1>9, <1>12, <1>14, EndInvariant
  <1>15. CASE s.finished # Thread /\ ~Stuck(p)
    BY <1>2, <1>8, <1>11, <1>12, <1>13, <1>15, ScheduleInvariant DEF Ready
  <1>16. CASE s.finished # Thread /\ Stuck(p) /\ p.dynamic = {}
    BY <1>2, <1>8, <1>11, <1>12, <1>16, EndInvariant
  <1>17. CASE s.finished # Thread /\ Stuck(p) /\ p.dynamic # {}
    <2>. DEFINE r == [Unblock(p, p.dynamic) EXCEPT !.dynamic = p.dynamic \ p.dynamic]
    <2>1. /\ Good(r)
          /\ \A u \in Thread : HoldersOf(r, u) = HoldersOf(p, u)
          /\ \A u \in p.dynamic : HoldersOf(p, u) = {} => u \in r.running
      <3>1. p.dynamic \in SUBSET p.dynamic
        OBVIOUS
      <3>. QED  BY <3>1, <1>11, StartGood
    <2>2. p.dynamic \subseteq Thread
      BY <1>11, GoodTypes
    <2>3. r = started
      <3>1. p.dynamic \ p.dynamic = {}
        OBVIOUS
      <3>. QED  BY <3>1
    <2>. HIDE DEF r
    <2>4. Ready(r)
      BY <1>11, <1>17, <2>1, <2>2 DEF Ready, Stuck, NobodyHolds
    <2>. HIDE DEF started
    <2>5. Schedule(r, 0)
      BY <1>8, <1>17, <2>3
    <2>. QED  BY <1>2, <1>13, <2>4, <2>5, ScheduleInvariant
  <1>. QED  BY <1>14, <1>15, <1>16, <1>17

-----------------------------------------------------------------------------
(* The theorems                                                            *)

LEMMA InitInvariant ==
    ASSUME Init
    PROVE  IInv
  <1>1. NoPriority \in [Thread -> Nat] /\ NoPriority \in [Thread -> 0 .. MaxYield]
    BY BoundAssumption DEF NoPriority
  <1>2. SumFunction(NoPriority) = 0
    BY <1>1, ThreadAssumption, SumOfNaturals DEF NoPriority
  <1>3. sched \in State
    BY <1>1, ThreadAssumption DEF Init, Fresh, State
  <1>4. NobodyHolds(sched)
    BY DEF Init, Fresh, NoPriority, NobodyHolds, HoldersOf, Holds
  <1>5. ASSUME NEW t \in Thread
        PROVE  /\ sched.block_count[t] = WaitCount(sched)[t] + Cardinality(HoldersOf(sched, t))
               /\ t \in sched.running <=> sched.block_count[t] = 0
               /\ sched.total_yield_priority[t] = SumFunction(sched.yield_priority[t])
    <2>1. Cardinality(HoldersOf(sched, t)) = 0
      BY <1>4, FS_EmptySet DEF NobodyHolds
    <2>2. sched.total_yield_priority[t] = 0 /\ sched.yield_priority[t] = NoPriority
      BY DEF Init, Fresh, NoPriority
    <2>3. /\ sched.block_count[t] = IF t \in Dynamic THEN 1 ELSE 0
          /\ sched.running = Thread \ Dynamic
          /\ sched.parked = {} /\ sched.finished = {} /\ sched.dynamic = Dynamic
      BY DEF Init, Fresh
    <2>. QED  BY <1>2, <2>1, <2>2, <2>3 DEF WaitCount
  <1>6. OneWait(sched)
    BY DEF Init, Fresh, OneWait
  <1>7. Good(sched)
    BY <1>3, <1>5, <1>6 DEF Good, Explained
  <1>8. TypeOK
    BY <1>3, BoundAssumption DEF Init, TypeOK
  <1>9. thread_ \in sched.running
    BY DEF Init, Fresh
  <1>. QED  BY <1>4, <1>7, <1>8, <1>9 DEF Init, IInv, DeadlockIsReal, VerifyNeedsAHeldTimedThread

\* The inductive invariant: whatever the threads call and whichever of them is
\* chosen, each block has its reason and each reason its block.
THEOREM SchedulerInvariant == Spec => []IInv
  <1>1. IInv /\ [Next]_vars => IInv'
    <2>. SUFFICES ASSUME IInv, [Next]_vars
                  PROVE  IInv'
      OBVIOUS
    <2>1. CASE outcome = "none" /\ (Sched \/ Yield)
      BY <2>1, YieldInvariant
    <2>2. CASE outcome = "none" /\ ParkCurrentThread
      BY <2>2, ParkInvariant
    <2>3. CASE outcome = "none" /\ Unpark
      BY <2>3, UnparkInvariant
    <2>4. CASE outcome = "none" /\ CreateThread
      BY <2>4, CreateInvariant
    <2>5. CASE outcome = "none" /\ ThreadFinished
      BY <2>5, FinishInvariant
    <2>6. CASE UNCHANGED vars
      <3>1. UNCHANGED <<scheduler, sched, thread_, reason, switches_remain, outcome>>
        BY <2>6 DEF vars
      <3>2. TypeOK' /\ DeadlockIsReal' /\ VerifyNeedsAHeldTimedThread'
        BY <3>1 DEF IInv, TypeOK, State, DeadlockIsReal, VerifyNeedsAHeldTimedThread, TreeSearch, HeldBack
      <3>3. Good(sched') /\ (~TreeSearch' => NobodyHolds(sched')) /\ (outcome' = "none" => thread_' \in sched'.running)
        BY <3>1 DEF IInv, TreeSearch
      <3>4. (Good(sched))' /\ (~TreeSearch => NobodyHolds(sched))'
        BY <3>3 DEF Good, Explained, OneWait, WaitCount, NobodyHolds, HoldersOf, Holds, State
      <3>. QED  BY <3>2, <3>3, <3>4 DEF IInv
    <2>. QED  BY <2>1, <2>2, <2>3, <2>4, <2>5, <2>6 DEF Next
  <1>. QED  BY <1>1, InitInvariant, PTL DEF Spec

\* Each variable has its type, and context_bound makes no more switches than it
\* has.
THEOREM TypeCorrect == Spec => []TypeOK
  BY SchedulerInvariant, PTL DEF IInv

\* A thread waits for one thing at most.
LEMMA WaitsCounted ==
    ASSUME Good(sched), NEW t \in Thread
    PROVE  Cardinality(Waits(t)) = WaitCount(sched)[t]
  <1>1. Waits(t) = (IF t \in sched.parked THEN {"parked"} ELSE {})
                   \cup (IF t \in sched.finished THEN {"finished"} ELSE {})
                   \cup (IF t \in sched.dynamic THEN {"dynamic"} ELSE {})
    BY DEF Waits
  <1>2. CASE t \notin sched.parked \cup sched.finished \cup sched.dynamic
    <2>1. Waits(t) = {}
      BY <1>1, <1>2
    <2>. QED  BY <1>2, <2>1, FS_EmptySet DEF WaitCount
  <1>3. CASE t \in sched.parked \cup sched.finished \cup sched.dynamic
    <2>1. \E w : Waits(t) = {w}
      BY <1>1, <1>3 DEF Good, OneWait
    <2>. QED  BY <1>3, <2>1, FS_Singleton DEF WaitCount
  <1>. QED  BY <1>2, <1>3

\* No thread is released while a reason to block it is left, none stays blocked
\* without one, and the sums of the priorities are their sums.
THEOREM BlocksExplained == Spec => []BlockCountsAreExplained
  <1>1. IInv => BlockCountsAreExplained
    BY WaitsCounted DEF IInv, Good, Explained, BlockCountsAreExplained, HoldersOf, Holders
  <1>. QED  BY <1>1, SchedulerInvariant, PTL

\* A yield is no reason for a deadlock.
THEOREM DeadlocksAreReal == Spec => []DeadlockIsReal
  BY SchedulerInvariant, PTL DEF IInv

\* No wait is ended by the permission of an earlier one.
THEOREM OnlyParkedWake == Spec => []WakeableAreParked
  <1>1. IInv => WakeableAreParked
    BY DEF IInv, Good, OneWait, WakeableAreParked
  <1>. QED  BY <1>1, SchedulerInvariant, PTL

\* The random scheduler fails none of its checks, and the search fails one only
\* when it passes over a timed thread that is held back.
THEOREM VerifyExplained == Spec => []VerifyNeedsAHeldTimedThread
  BY SchedulerInvariant, PTL DEF IInv

=============================================================================
