--------------------------- MODULE Context_proof ---------------------------
(***************************************************************************)
(* Proofs about Context, its Heap and its Fibers.                          *)
(*                                                                         *)
(* The heap, for every set of blocks and sizes and every length of the     *)
(* ring: the invariant adds to InOnePlace what the ring records of a block *)
(* that rests, and how long it still does: its way from its slot to the    *)
(* index.  In the middle of a free the block that is freed, or the one the *)
(* ring gives back, is in no place: it is in hand.                         *)
(*                                                                         *)
(* The context: whatever a test does, and whichever of its iterations is   *)
(* run again, the heap is used as Heap says, and a thread finds in its     *)
(* thread-local storage what it has put there.                             *)
(*                                                                         *)
(* The fibers, for every number of threads and every operation, however    *)
(* often it repeats its calls: what is left of the operation of a thread   *)
(* fits the depth of preemption the thread has, or will find when it goes  *)
(* on.  That is found of the calls of an operation alone, without those of *)
(* other threads, and kept by each switch.                                 *)
(*                                                                         *)
(* The objects, for every batch size and every size_t: each element of a   *)
(* slab is free, once, or in use, by a wrapper or in one array; an array   *)
(* is in a block of the test that is no slot of thread-local storage.  An  *)
(* iteration that ends well has no block and allocates nothing of a slab,  *)
(* so that nothing is in use.                                              *)
(*                                                                         *)
(* The two heaps of an iteration that is run again, for every number of    *)
(* iterations before it: as long as the ring gives back no block that is   *)
(* older than the iteration, each stack of the new heap is on top of that  *)
(* of the old, a slot of the ring is a constant turn from its twin, and    *)
(* the blocks handed out pair off one to one.                              *)
(***************************************************************************)
EXTENDS Context, Sums, SequenceTheorems

-----------------------------------------------------------------------------
(* The heap *)

HeapType ==
    [header : [Block -> Size \cup {None}], allocs : SUBSET Block,
     alloc_cache : [Size -> Seq(Block)],
     deferred_free : [Slot -> Block \cup {None}],
     deferred_free_size : [Slot -> Size \cup {None}],
     deferred_index : Slot]

\* InOnePlace but for the blocks in hand.
Placed(h, hand) ==
    /\ \A b \in Block :
        /\ IsNew(h, b) <=> b \notin h.allocs /\ b \notin hand /\ ~Rests(h, b)
                            /\ \A s \in Size : ~IsCached(h, b, s)
        /\ ~(b \in h.allocs /\ Rests(h, b))
        /\ \A s \in Size :
            IsCached(h, b, s) => b \notin h.allocs /\ ~Rests(h, b) /\ h.header[b] = s
        /\ b \in hand => b \notin h.allocs /\ ~Rests(h, b) /\ \A s \in Size : ~IsCached(h, b, s)
    /\ \A s \in Size : \A k, m \in 1 .. Len(h.alloc_cache[s]) :
        h.alloc_cache[s][k] = h.alloc_cache[s][m] => k = m
    /\ \A i, j \in Slot \ {h.deferred_index} :
        h.deferred_free[i] = h.deferred_free[j] /\ h.deferred_free[i] # None => i = j

\* The deferred frees until the slot i is the next.
Way(h, i) ==
    IF i > h.deferred_index THEN i - h.deferred_index ELSE i - h.deferred_index + DeferredCount

RingKnows(h, r) ==
    /\ \A i \in Slot \ {h.deferred_index} : h.deferred_free[i] # None =>
        /\ h.deferred_free_size[i] = h.header[h.deferred_free[i]]
        /\ r[h.deferred_free[i]] = Way(h, i)
    /\ \A b \in Block : r[b] > 0 => Rests(h, b)

HeapOK(h, r, hand) ==
    h \in HeapType /\ r \in [Block -> Slot] /\ Placed(h, hand) /\ RingKnows(h, r)

-----------------------------------------------------------------------------
(* Stacks and slots *)

\* What a block on a stack is above.
LEMMA Pushed ==
    ASSUME NEW q \in Seq(Block), NEW p \in Block
    PROVE  /\ <<p>> \o q \in Seq(Block)
           /\ Len(<<p>> \o q) = Len(q) + 1
           /\ (<<p>> \o q)[1] = p
           /\ \A k \in 1 .. Len(q) : (<<p>> \o q)[k + 1] = q[k]
           /\ \A k \in 2 .. Len(q) + 1 : (<<p>> \o q)[k] = q[k - 1]
  <1>1. <<p>> \in Seq(Block) /\ Len(<<p>>) = 1 /\ <<p>>[1] = p
    OBVIOUS
  <1>2. Len(q) \in Nat
    BY LenProperties
  <1>. QED  BY <1>1, <1>2, ConcatProperties

\* What is left of a stack without its top.
LEMMA Popped ==
    ASSUME NEW q \in Seq(Block), q # <<>>
    PROVE  /\ Head(q) = q[1] /\ 1 \in 1 .. Len(q) /\ q[1] \in Block
           /\ Tail(q) \in Seq(Block)
           /\ Len(Tail(q)) = Len(q) - 1
           /\ \A k \in 1 .. Len(q) - 1 : Tail(q)[k] = q[k + 1]
  <1>1. Len(q) \in Nat \ {0}
    BY EmptySeq
  <1>. QED  BY <1>1, HeadTailProperties

\* The ring: after the last slot comes the first.
LEMMA NextSlotIs ==
    ASSUME NEW h \in HeapType
    PROVE  /\ NextSlot(h) \in Slot
           /\ NextSlot(h) = IF h.deferred_index = DeferredCount - 1 THEN 0
                            ELSE h.deferred_index + 1
  <1>1. h.deferred_index \in 0 .. DeferredCount - 1 /\ DeferredCount \in Nat \ {0}
    BY HeapAssumption DEF HeapType, Slot
  <1>2. ASSUME NEW i \in 0 .. DeferredCount - 1
        PROVE  (i + 1) % DeferredCount = IF i = DeferredCount - 1 THEN 0 ELSE i + 1
    BY <1>1, <1>2
  <1>. QED  BY <1>1, <1>2 DEF NextSlot, Slot
-----------------------------------------------------------------------------
(* The parts of a free *)

\* A block of the test is taken in hand.
LEMMA Taken ==
    ASSUME NEW h, NEW r, NEW p \in Block, HeapOK(h, r, {}), p \in h.allocs
    PROVE  HeapOK([h EXCEPT !.allocs = @ \ {p}], r, {p}) /\ h.header[p] \in Size
  <1>. DEFINE g == [h EXCEPT !.allocs = @ \ {p}]
  <1>1. h \in HeapType /\ r \in [Block -> Slot] /\ Placed(h, {}) /\ RingKnows(h, r)
    BY DEF HeapOK
  <1>2. /\ g \in HeapType /\ g.allocs = h.allocs \ {p} /\ g.header = h.header
        /\ g.alloc_cache = h.alloc_cache /\ g.deferred_free = h.deferred_free
        /\ g.deferred_free_size = h.deferred_free_size /\ g.deferred_index = h.deferred_index
    BY <1>1 DEF HeapType
  <1>3. /\ \A b \in Block : (IsNew(g, b) <=> IsNew(h, b)) /\ (Rests(g, b) <=> Rests(h, b))
        /\ \A b \in Block, s \in Size : IsCached(g, b, s) <=> IsCached(h, b, s)
    BY <1>2 DEF IsNew, Rests, IsCached
  <1>4. ~IsNew(h, p) /\ ~Rests(h, p) /\ \A s \in Size : ~IsCached(h, p, s)
    BY <1>1 DEF Placed
  <1>5. Placed(g, {p})
    <2>1. \A b \in Block :
            /\ IsNew(g, b) <=> b \notin g.allocs /\ b \notin {p} /\ ~Rests(g, b)
                                /\ \A s \in Size : ~IsCached(g, b, s)
            /\ ~(b \in g.allocs /\ Rests(g, b))
            /\ \A s \in Size :
                IsCached(g, b, s) => b \notin g.allocs /\ ~Rests(g, b) /\ g.header[b] = s
            /\ b \in {p} => b \notin g.allocs /\ ~Rests(g, b) /\ \A s \in Size : ~IsCached(g, b, s)
      <3>. TAKE b \in Block
      <3>1. CASE b = p
        BY <3>1, <1>2, <1>3, <1>4
      <3>2. CASE b # p
        <4>1. /\ IsNew(h, b) <=> b \notin h.allocs /\ ~Rests(h, b)
                                  /\ \A s \in Size : ~IsCached(h, b, s)
              /\ ~(b \in h.allocs /\ Rests(h, b))
              /\ \A s \in Size :
                  IsCached(h, b, s) => b \notin h.allocs /\ ~Rests(h, b) /\ h.header[b] = s
          BY <1>1 DEF Placed
        <4>2. b \in g.allocs <=> b \in h.allocs
          BY <3>2, <1>2
        <4>. HIDE DEF g
        <4>. QED  BY <3>2, <4>1, <4>2, <1>2, <1>3
      <3>. QED  BY <3>1, <3>2
    <2>. HIDE DEF g
    <2>. QED  BY <2>1, <1>1, <1>2 DEF Placed
  <1>6. RingKnows(g, r)
    BY <1>1, <1>2, <1>3 DEF RingKnows, Way
  <1>7. h.header[p] \in Size
    BY <1>1, <1>4 DEF IsNew, HeapType
  <1>. QED  BY <1>1, <1>2, <1>5, <1>6, <1>7 DEF HeapOK

\* The block in hand is put on the stack of its size.
LEMMA GivenBack ==
    ASSUME NEW h, NEW r, NEW p \in Block, NEW size \in Size, HeapOK(h, r, {p}),
           h.header[p] = size
    PROVE  HeapOK(free_impl(h, p, size), r, {})
  <1>. DEFINE g == free_impl(h, p, size)
  <1>1. h \in HeapType /\ r \in [Block -> Slot] /\ Placed(h, {p}) /\ RingKnows(h, r)
    BY DEF HeapOK
  <1>2. /\ h.alloc_cache \in [Size -> Seq(Block)]
        /\ g.allocs = h.allocs /\ g.header = h.header
        /\ g.alloc_cache = [h.alloc_cache EXCEPT ![size] = <<p>> \o @]
        /\ g.deferred_free = h.deferred_free
        /\ g.deferred_free_size = h.deferred_free_size /\ g.deferred_index = h.deferred_index
    BY <1>1 DEF HeapType, free_impl
  <1>. DEFINE q == h.alloc_cache[size]
  <1>3. q \in Seq(Block) /\ Len(q) \in Nat
    BY <1>2, LenProperties
  <1>4. /\ g.alloc_cache[size] = <<p>> \o q
        /\ \A s \in Size \ {size} : g.alloc_cache[s] = h.alloc_cache[s]
    BY <1>2
  <1>5. g \in HeapType
    <2>1. g.alloc_cache \in [Size -> Seq(Block)]
      BY <1>2, <1>3, Pushed
    <2>. QED  BY <2>1, <1>1, <1>2 DEF HeapType, free_impl
  <1>6. \A b \in Block : (IsNew(g, b) <=> IsNew(h, b)) /\ (Rests(g, b) <=> Rests(h, b))
    BY <1>2 DEF IsNew, Rests
  <1>. HIDE DEF g, q
  <1>7. /\ (<<p>> \o q)[1] = p /\ Len(<<p>> \o q) = Len(q) + 1
        /\ \A k \in 1 .. Len(q) : (<<p>> \o q)[k + 1] = q[k]
        /\ \A k \in 2 .. Len(q) + 1 : (<<p>> \o q)[k] = q[k - 1]
    BY <1>3, Pushed
  <1>8. \A b \in Block, s \in Size :
            IsCached(g, b, s) <=> IsCached(h, b, s) \/ (b = p /\ s = size)
    <2>. TAKE b \in Block, s \in Size
    <2>1. CASE s # size
      BY <2>1, <1>4 DEF IsCached
    <2>2. CASE s = size
      <3>1. ASSUME IsCached(g, b, s) PROVE IsCached(h, b, s) \/ b = p
        <4>1. PICK k \in 1 .. Len(q) + 1 : (<<p>> \o q)[k] = b
          BY <3>1, <2>2, <1>4, <1>7 DEF IsCached
        <4>2. CASE k = 1
          BY <4>1, <4>2, <1>7
        <4>3. CASE k # 1
          <5>1. k \in 2 .. Len(q) + 1 /\ k - 1 \in 1 .. Len(q)
            BY <4>3, <1>3
          <5>. QED  BY <5>1, <4>1, <1>7, <2>2 DEF IsCached, q
        <4>. QED  BY <4>2, <4>3
      <3>2. ASSUME IsCached(h, b, s) PROVE IsCached(g, b, s)
        <4>1. PICK k \in 1 .. Len(q) : q[k] = b
          BY <3>2, <2>2 DEF IsCached, q
        <4>2. k + 1 \in 1 .. Len(q) + 1 /\ (<<p>> \o q)[k + 1] = b
          BY <4>1, <1>7, <1>3
        <4>. QED  BY <4>2, <1>4, <1>7, <2>2 DEF IsCached
      <3>3. 1 \in 1 .. Len(q) + 1
        BY <1>3
      <3>4. b = p => IsCached(g, b, s)
        BY <3>3, <1>4, <1>7, <2>2 DEF IsCached
      <3>. QED  BY <3>1, <3>2, <3>4, <2>2
    <2>. QED  BY <2>1, <2>2
  <1>9. Placed(g, {})
    <2>1. \A b \in Block :
            /\ IsNew(g, b) <=> b \notin g.allocs /\ b \notin {} /\ ~Rests(g, b)
                                /\ \A s \in Size : ~IsCached(g, b, s)
            /\ ~(b \in g.allocs /\ Rests(g, b))
            /\ \A s \in Size :
                IsCached(g, b, s) => b \notin g.allocs /\ ~Rests(g, b) /\ g.header[b] = s
            /\ b \in {} => b \notin g.allocs /\ ~Rests(g, b) /\ \A s \in Size : ~IsCached(g, b, s)
      <3>. TAKE b \in Block
      <3>1. CASE b = p
        <4>1. ~IsNew(h, p)
          BY <1>1 DEF Placed
        <4>2. p \notin h.allocs /\ ~Rests(h, p) /\ \A s \in Size : ~IsCached(h, p, s)
          BY <1>1 DEF Placed
        <4>3. IsCached(g, p, size)
          BY <1>8
        <4>. QED  BY <3>1, <4>1, <4>2, <4>3, <1>2, <1>6, <1>8
      <3>2. CASE b # p
        <4>1. \A s \in Size : IsCached(g, b, s) <=> IsCached(h, b, s)
          BY <3>2, <1>8
        <4>. QED  BY <3>2, <4>1, <1>1, <1>2, <1>6 DEF Placed
      <3>. QED  BY <3>1, <3>2
    <2>2. ASSUME NEW s \in Size,
                 NEW k \in 1 .. Len(g.alloc_cache[s]), NEW m \in 1 .. Len(g.alloc_cache[s]),
                 g.alloc_cache[s][k] = g.alloc_cache[s][m]
          PROVE  k = m
      <3>0. \A x, y \in 1 .. Len(h.alloc_cache[s]) :
                h.alloc_cache[s][x] = h.alloc_cache[s][y] => x = y
        BY <1>1 DEF Placed
      <3>1. CASE s # size
        BY <3>0, <3>1, <2>2, <1>4
      <3>2. CASE s = size
        <4>1. \A x \in 1 .. Len(q) : q[x] # p
          <5>1. ~IsCached(h, p, size)
            BY <1>1 DEF Placed
          <5>. QED  BY <5>1 DEF IsCached, q
        <4>2. \A x, y \in 1 .. Len(q) : q[x] = q[y] => x = y
          BY <3>0, <3>2 DEF q
        <4>3. \A x \in 2 .. Len(q) + 1 : x - 1 \in 1 .. Len(q) /\ (<<p>> \o q)[x] = q[x - 1]
          BY <1>7, <1>3
        <4>4. /\ k \in 1 .. Len(q) + 1 /\ m \in 1 .. Len(q) + 1
              /\ (<<p>> \o q)[k] = (<<p>> \o q)[m]
          BY <2>2, <3>2, <1>4, <1>7
        <4>5. CASE k = 1 /\ m # 1
          BY <4>5, <4>1, <4>3, <4>4, <1>7, <1>3
        <4>6. CASE k # 1 /\ m = 1
          BY <4>6, <4>1, <4>3, <4>4, <1>7, <1>3
        <4>7. CASE k # 1 /\ m # 1
          <5>1. q[k - 1] = q[m - 1] /\ k - 1 \in 1 .. Len(q) /\ m - 1 \in 1 .. Len(q)
            BY <4>7, <4>3, <4>4, <1>3
          <5>. QED  BY <5>1, <4>2
        <4>. QED  BY <4>5, <4>6, <4>7
      <3>. QED  BY <3>1, <3>2
    <2>. QED  BY <2>1, <2>2, <1>1, <1>2 DEF Placed
  <1>10. RingKnows(g, r)
    BY <1>1, <1>2, <1>6 DEF RingKnows, Way
  <1>. QED  BY <1>1, <1>5, <1>9, <1>10 DEF HeapOK, g

\* The first half of Defer.
PutToRest(h, p) ==
    LET i == h.deferred_index
    IN  [h EXCEPT !.deferred_free[i] = p, !.deferred_free_size[i] = h.header[p],
                  !.deferred_index = NextSlot(h)]

\* The block in hand is put to rest, and the one of the next slot, when there
\* is one, taken in hand.
LEMMA PutToRestKeeps ==
    ASSUME NEW h, NEW r, NEW p \in Block, HeapOK(h, r, {p}), h.header[p] \in Size
    PROVE  LET g == PutToRest(h, p)
               b == g.deferred_free[g.deferred_index]
           IN  /\ b = None => HeapOK(g, Rested(r, p, TRUE), {})
               /\ b # None => /\ b \in Block /\ HeapOK(g, Rested(r, p, TRUE), {b})
                              /\ g.deferred_free_size[g.deferred_index] = g.header[b]
                              /\ g.header[b] \in Size
  <1>. DEFINE g == PutToRest(h, p)
              i == h.deferred_index
              j == g.deferred_index
              b == g.deferred_free[j]
              hand == {b} \cap Block
              q == Rested(r, p, TRUE)
  <1>1. h \in HeapType /\ r \in [Block -> Slot] /\ Placed(h, {p}) /\ RingKnows(h, r)
    BY DEF HeapOK
  <1>2. /\ DeferredCount \in Nat \ {0} /\ Slot = 0 .. DeferredCount - 1 /\ None \notin Block
        /\ i \in Slot /\ j \in Slot
        /\ j = IF i = DeferredCount - 1 THEN 0 ELSE i + 1
    BY <1>1, NextSlotIs, HeapAssumption DEF HeapType, PutToRest, Slot
  <1>3. /\ g.allocs = h.allocs /\ g.header = h.header /\ g.alloc_cache = h.alloc_cache
        /\ g.deferred_free = [h.deferred_free EXCEPT ![i] = p]
        /\ g.deferred_free_size = [h.deferred_free_size EXCEPT ![i] = h.header[p]]
    BY <1>1 DEF HeapType, PutToRest
  <1>4. g \in HeapType
    <2>1. /\ g.deferred_free \in [Slot -> Block \cup {None}]
          /\ g.deferred_free_size \in [Slot -> Size \cup {None}]
      BY <1>1, <1>2, <1>3 DEF HeapType
    <2>. QED  BY <2>1, <1>1, <1>2, <1>3 DEF HeapType, PutToRest
  <1>5. /\ g.deferred_free[i] = p /\ g.deferred_free_size[i] = g.header[p]
        /\ \A k \in Slot \ {i} : /\ g.deferred_free[k] = h.deferred_free[k]
                                 /\ g.deferred_free_size[k] = h.deferred_free_size[k]
    BY <1>1, <1>2, <1>3 DEF HeapType
  <1>6. /\ q \in [Block -> Slot] /\ q[p] = DeferredCount - 1
        /\ \A c \in Block \ {p} : q[c] = IF r[c] > 0 THEN r[c] - 1 ELSE 0
    BY <1>1, <1>2 DEF Rested
  <1>. HIDE DEF g, q
  <1>7. b \in Block \cup {None}
    BY <1>2, <1>4 DEF HeapType
  <1>8. \A k \in Slot \ {i} : h.deferred_free[k] # p
    BY <1>1 DEF Placed, Rests
  <1>9. b # p => i # j /\ b = h.deferred_free[j]
    BY <1>2, <1>5
  \* Where the blocks rest now.
  <1>10. \A c \in Block : Rests(g, c) <=> c \notin hand /\ (c = p \/ Rests(h, c))
    <2>. TAKE c \in Block
    <2>1. ASSUME Rests(g, c) PROVE c \notin hand /\ (c = p \/ Rests(h, c))
      <3>1. PICK k \in Slot : k # j /\ g.deferred_free[k] = c
        BY <2>1 DEF Rests
      <3>2. CASE k = i
        BY <3>1, <3>2, <1>5, <1>8, <1>2
      <3>3. CASE k # i
        <4>1. h.deferred_free[k] = c /\ Rests(h, c) /\ c # p
          BY <3>1, <3>3, <1>5, <1>8 DEF Rests
        <4>2. b # c
          <5>1. CASE j = i
            BY <5>1, <4>1, <1>5
          <5>2. CASE j # i
            <6>1. b = h.deferred_free[j]
              BY <5>2, <1>2, <1>5
            <6>. QED  BY <5>2, <6>1, <4>1, <3>1, <3>3, <1>1, <1>2 DEF Placed
          <5>. QED  BY <5>1, <5>2
        <4>. QED  BY <4>1, <4>2
      <3>. QED  BY <3>2, <3>3
    <2>2. ASSUME c \notin hand, c = p PROVE Rests(g, c)
      BY <2>2, <1>2, <1>5 DEF Rests
    <2>3. ASSUME c \notin hand, Rests(h, c) PROVE Rests(g, c)
      <3>1. PICK k \in Slot : k # i /\ h.deferred_free[k] = c
        BY <2>3 DEF Rests
      <3>. QED  BY <3>1, <2>3, <1>5 DEF Rests
    <2>. QED  BY <2>1, <2>2, <2>3
  <1>11. ~IsNew(h, p) /\ p \notin h.allocs /\ ~Rests(h, p) /\ \A s \in Size : ~IsCached(h, p, s)
    BY <1>1 DEF Placed
  <1>12. b \in Block /\ b # p => Rests(h, b)
    BY <1>9, <1>2 DEF Rests
  <1>13. /\ \A c \in Block : IsNew(g, c) <=> IsNew(h, c)
         /\ \A c \in Block, s \in Size : IsCached(g, c, s) <=> IsCached(h, c, s)
    BY <1>3 DEF IsNew, IsCached
  <1>14. Placed(g, hand)
    <2>1. \A c \in Block :
            /\ IsNew(g, c) <=> c \notin g.allocs /\ c \notin hand /\ ~Rests(g, c)
                                /\ \A s \in Size : ~IsCached(g, c, s)
            /\ ~(c \in g.allocs /\ Rests(g, c))
            /\ \A s \in Size :
                IsCached(g, c, s) => c \notin g.allocs /\ ~Rests(g, c) /\ g.header[c] = s
            /\ c \in hand => c \notin g.allocs /\ ~Rests(g, c) /\ \A s \in Size : ~IsCached(g, c, s)
      <3>. TAKE c \in Block
      <3>1. CASE c = p
        BY <3>1, <1>3, <1>10, <1>11, <1>13
      <3>2. CASE c # p
        <4>1. /\ IsNew(h, c) <=> c \notin h.allocs /\ ~Rests(h, c)
                                  /\ \A s \in Size : ~IsCached(h, c, s)
              /\ ~(c \in h.allocs /\ Rests(h, c))
              /\ \A s \in Size :
                  IsCached(h, c, s) => c \notin h.allocs /\ ~Rests(h, c) /\ h.header[c] = s
          BY <3>2, <1>1 DEF Placed
        <4>2. c \in hand => Rests(h, c)
          BY <3>2, <1>12
        <4>3. Rests(g, c) <=> c \notin hand /\ Rests(h, c)
          BY <3>2, <1>10
        <4>. QED  BY <4>1, <4>2, <4>3, <1>3, <1>13
      <3>. QED  BY <3>1, <3>2
    <2>2. ASSUME NEW k \in Slot \ {j}, NEW m \in Slot \ {j},
                 g.deferred_free[k] = g.deferred_free[m], g.deferred_free[k] # None
          PROVE  k = m
      BY <2>2, <1>1, <1>5, <1>8 DEF Placed
    <2>3. \A s \in Size : \A k, m \in 1 .. Len(g.alloc_cache[s]) :
            g.alloc_cache[s][k] = g.alloc_cache[s][m] => k = m
      BY <1>1, <1>3 DEF Placed
    <2>. HIDE DEF hand
    <2>. QED  BY <2>1, <2>2, <2>3 DEF Placed
  <1>15. RingKnows(g, q)
    <2>1. ASSUME NEW k \in Slot \ {j}, g.deferred_free[k] # None
          PROVE  /\ g.deferred_free_size[k] = g.header[g.deferred_free[k]]
                 /\ q[g.deferred_free[k]] = Way(g, k)
      <3>1. CASE k = i
        <4>1. Way(g, k) = DeferredCount - 1
          BY <3>1, <1>2, <2>1 DEF Way
        <4>. QED  BY <3>1, <4>1, <1>5, <1>6
      <3>2. CASE k # i
        <4>. DEFINE c == h.deferred_free[k]
        <4>1. /\ g.deferred_free[k] = c /\ c \in Block /\ c # p
              /\ g.deferred_free_size[k] = g.header[c]
              /\ r[c] = Way(h, k)
          BY <3>2, <2>1, <1>1, <1>3, <1>5, <1>8, <1>2 DEF RingKnows, HeapType
        <4>2. Way(h, k) > 0 /\ Way(g, k) = Way(h, k) - 1
          BY <3>2, <2>1, <1>2 DEF Way
        <4>. HIDE DEF c
        <4>. QED  BY <4>1, <4>2, <1>6
      <3>. QED  BY <3>1, <3>2
    <2>2. ASSUME NEW c \in Block, q[c] > 0 PROVE Rests(g, c)
      <3>1. CASE c = p
        <4>1. j # i
          BY <3>1, <2>2, <1>2, <1>6
        <4>. QED  BY <3>1, <4>1, <1>2, <1>5 DEF Rests
      <3>2. CASE c # p
        <4>1. r[c] > 1 /\ r[c] \in Nat
          BY <3>2, <2>2, <1>1, <1>2, <1>6
        <4>2. PICK k \in Slot \ {i} : h.deferred_free[k] = c
          BY <4>1, <1>1 DEF RingKnows, Rests
        <4>3. Way(h, k) = r[c]
          BY <4>2, <1>1, <1>2 DEF RingKnows
        <4>4. k # j
          BY <4>1, <4>2, <4>3, <1>2 DEF Way
        <4>. QED  BY <4>2, <4>4, <1>5 DEF Rests
      <3>. QED  BY <3>1, <3>2
    <2>. QED  BY <2>1, <2>2 DEF RingKnows
  <1>16. b # None => /\ g.deferred_free_size[j] = g.header[b] /\ g.header[b] \in Size
    <2>1. CASE j = i
      BY <2>1, <1>3, <1>5
    <2>2. ASSUME j # i, b # None
          PROVE  g.deferred_free_size[j] = g.header[b] /\ g.header[b] \in Size
      <3>1. b = h.deferred_free[j] /\ b \in Block
        BY <2>2, <1>2, <1>5, <1>7
      <3>2. ~IsNew(h, b)
        BY <2>2, <3>1, <1>1, <1>2 DEF Placed, Rests
      <3>3. g.header[b] \in Size
        BY <3>1, <3>2, <1>1, <1>3 DEF IsNew, HeapType
      <3>4. g.deferred_free_size[j] = g.header[b]
        BY <2>2, <3>1, <1>1, <1>2, <1>3, <1>5 DEF RingKnows
      <3>. QED  BY <3>3, <3>4
    <2>. QED  BY <2>1, <2>2
  <1>17. (b = None => hand = {}) /\ (b # None => b \in Block /\ hand = {b})
    BY <1>7, <1>2
  <1>. HIDE DEF hand, b
  <1>18. HeapOK(g, q, hand)
    BY <1>4, <1>6, <1>14, <1>15 DEF HeapOK
  <1>. QED  BY <1>16, <1>17, <1>18 DEF g, q, b

-----------------------------------------------------------------------------
(* The operations *)

\* A free, deferred or not, leaves each block in one place.
LEMMA FreeKeeps ==
    ASSUME NEW h, NEW r, NEW p \in Block, NEW defer \in BOOLEAN, HeapOK(h, r, {}), p \in h.allocs
    PROVE  HeapOK(free(h, p, defer), Rested(r, p, defer), {})
  <1>. DEFINE g == [h EXCEPT !.allocs = @ \ {p}]
              n == PutToRest(g, p)
              b == n.deferred_free[n.deferred_index]
  <1>1. HeapOK(g, r, {p}) /\ h.header[p] \in Size
    BY Taken
  <1>2. g.header = h.header
    BY DEF HeapOK, HeapType
  <1>3. CASE ~defer
    <2>1. free(h, p, defer) = free_impl(g, p, h.header[p]) /\ Rested(r, p, defer) = r
      BY <1>3 DEF free, Rested
    <2>. HIDE DEF g
    <2>. QED  BY <2>1, <1>1, <1>2, GivenBack
  <1>4. CASE defer
    <2>1. free(h, p, defer) = Defer(g, p) /\ Rested(r, p, defer) = Rested(r, p, TRUE)
      BY <1>4 DEF free
    <2>. HIDE DEF g
    <2>2. n.deferred_index = NextSlot(g)
      BY <1>1 DEF HeapOK, HeapType, PutToRest
    <2>3. Defer(g, p) = IF b = None THEN n ELSE free_impl(n, b, n.deferred_free_size[n.deferred_index])
      BY <2>2 DEF Defer, PutToRest
    <2>4. /\ b = None => HeapOK(n, Rested(r, p, TRUE), {})
          /\ b # None => /\ b \in Block /\ HeapOK(n, Rested(r, p, TRUE), {b})
                         /\ n.deferred_free_size[n.deferred_index] = n.header[b]
                         /\ n.header[b] \in Size
      BY <1>1, <1>2, PutToRestKeeps
    <2>. HIDE DEF n, b
    <2>. QED  BY <2>1, <2>3, <2>4, GivenBack
  <1>. QED  BY <1>3, <1>4

\* A free takes the block from the test, and hands nothing out.
LEMMA FreeAllocs ==
    ASSUME NEW h, NEW r, NEW p \in Block, NEW defer \in BOOLEAN, HeapOK(h, r, {}), p \in h.allocs
    PROVE  free(h, p, defer).allocs = h.allocs \ {p}
  <1>1. h \in HeapType
    BY DEF HeapOK
  <1>2. \A g, b, size : free_impl(g, b, size).allocs = g.allocs
    BY DEF free_impl
  <1>. DEFINE g == [h EXCEPT !.allocs = @ \ {p}]
  <1>3. g \in HeapType /\ g.allocs = h.allocs \ {p}
    BY <1>1 DEF HeapType
  <1>4. free(h, p, defer) = IF defer THEN Defer(g, p) ELSE free_impl(g, p, h.header[p])
    BY DEF free
  <1>. HIDE DEF g
  <1>5. PutToRest(g, p).allocs = g.allocs
    BY <1>3 DEF HeapType, PutToRest
  <1>6. Defer(g, p) = LET r1 == PutToRest(g, p)
                          j == NextSlot(g)
                      IN  IF r1.deferred_free[j] = None THEN r1
                          ELSE free_impl(r1, r1.deferred_free[j], r1.deferred_free_size[j])
    BY DEF Defer, PutToRest
  <1>7. Defer(g, p).allocs = g.allocs
    BY <1>2, <1>5, <1>6
  <1>. QED  BY <1>2, <1>3, <1>4, <1>7

\* What is handed out was in a stack or new, and so did not rest.
LEMMA AllocKeeps ==
    ASSUME NEW h, NEW r, NEW size \in Size, HeapOK(h, r, {}), CanAlloc(h, size)
    PROVE  /\ HeapOK(alloc(h, size), r, {})
           /\ alloc(h, size).allocs = h.allocs \cup {NextBlock(h, size)}
           /\ NextBlock(h, size) \in Block \ h.allocs /\ r[NextBlock(h, size)] = 0
  <1>. DEFINE p == NextBlock(h, size)
              g == alloc(h, size)
              q == h.alloc_cache[size]
  <1>1. h \in HeapType /\ r \in [Block -> Slot] /\ Placed(h, {}) /\ RingKnows(h, r)
    BY DEF HeapOK
  <1>2. h.alloc_cache \in [Size -> Seq(Block)] /\ q \in Seq(Block) /\ Len(q) \in Nat
    BY <1>1, LenProperties DEF HeapType
  <1>3. q # <<>> => /\ p = q[1] /\ 1 \in 1 .. Len(q) /\ p \in Block
                    /\ Tail(q) \in Seq(Block) /\ Len(Tail(q)) = Len(q) - 1
                    /\ \A k \in 1 .. Len(q) - 1 : Tail(q)[k] = q[k + 1]
    BY <1>2, Popped DEF NextBlock
  <1>4. q = <<>> => p \in Block /\ IsNew(h, p)
    BY DEF NextBlock, malloc, CanAlloc
  <1>5. p \in Block
    BY <1>3, <1>4
  <1>6. /\ g.allocs = h.allocs \cup {p} /\ g.header = [h.header EXCEPT ![p] = size]
        /\ g.alloc_cache = [h.alloc_cache EXCEPT ![size] = IF q # <<>> THEN Tail(q) ELSE q]
        /\ g.deferred_free = h.deferred_free
        /\ g.deferred_free_size = h.deferred_free_size /\ g.deferred_index = h.deferred_index
    BY <1>1 DEF HeapType, alloc
  <1>7. g \in HeapType
    <2>1. (IF q # <<>> THEN Tail(q) ELSE q) \in Seq(Block)
      BY <1>2, <1>3
    <2>. HIDE DEF q, p
    <2>2. g.alloc_cache \in [Size -> Seq(Block)]
      BY <2>1, <1>2, <1>6
    <2>3. h.header \in [Block -> Size \cup {None}]
      BY <1>1 DEF HeapType
    <2>4. g.header \in [Block -> Size \cup {None}]
      BY <2>3, <1>5, <1>6
    <2>5. h.allocs \cup {p} \subseteq Block
      BY <1>1, <1>5 DEF HeapType
    <2>. QED  BY <2>2, <2>4, <2>5, <1>1, <1>6 DEF HeapType, alloc, p, q
  <1>8. /\ q # <<>> => IsCached(h, p, size)
        /\ p \notin h.allocs /\ ~Rests(h, p)
        /\ \A s \in Size \ {size} : ~IsCached(h, p, s)
    <2>1. q # <<>> => IsCached(h, p, size)
      BY <1>3 DEF IsCached
    <2>2. p \notin h.allocs /\ ~Rests(h, p)
      BY <2>1, <1>1, <1>4, <1>5 DEF Placed
    <2>3. \A s \in Size \ {size} : ~IsCached(h, p, s)
      BY <2>1, <1>1, <1>4, <1>5 DEF Placed
    <2>. QED  BY <2>1, <2>2, <2>3
  <1>9. \A b \in Block : /\ Rests(g, b) <=> Rests(h, b)
                         /\ b # p => (IsNew(g, b) <=> IsNew(h, b))
    BY <1>1, <1>5, <1>6 DEF Rests, IsNew, HeapType
  <1>10. ~IsNew(g, p) /\ g.header[p] = size
    <2>1. g.header[p] = size
      BY <1>1, <1>5, <1>6 DEF HeapType
    <2>. QED  BY <2>1, HeapAssumption DEF IsNew
  <1>11. \A s \in Size \ {size} : g.alloc_cache[s] = h.alloc_cache[s]
    BY <1>2, <1>6
  <1>12. g.alloc_cache[size] = IF q # <<>> THEN Tail(q) ELSE q
    BY <1>2, <1>6
  <1>13. \A x, y \in 1 .. Len(q) : q[x] = q[y] => x = y
    BY <1>1 DEF Placed
  <1>. HIDE DEF g, p, q
  <1>14. \A b \in Block, s \in Size : IsCached(g, b, s) <=> b # p /\ IsCached(h, b, s)
    <2>. TAKE b \in Block, s \in Size
    <2>1. CASE s # size
      BY <2>1, <1>8, <1>11 DEF IsCached
    <2>2. CASE s = size /\ q = <<>>
      <3>1. IsCached(g, b, s) <=> IsCached(h, b, s)
        BY <2>2, <1>12 DEF IsCached, q
      <3>2. ~IsCached(h, b, s)
        BY <2>2, EmptySeq DEF IsCached, q
      <3>. QED  BY <3>1, <3>2
    <2>3. CASE s = size /\ q # <<>>
      <3>1. g.alloc_cache[s] = Tail(q) /\ h.alloc_cache[s] = q
        BY <2>3, <1>12 DEF q
      <3>2. ASSUME IsCached(g, b, s) PROVE b # p /\ IsCached(h, b, s)
        <4>1. PICK k \in 1 .. Len(q) - 1 : Tail(q)[k] = b
          BY <3>1, <3>2, <2>3, <1>3 DEF IsCached
        <4>2. k + 1 \in 1 .. Len(q) /\ q[k + 1] = b /\ k + 1 # 1
          BY <4>1, <2>3, <1>3, <1>2
        <4>3. b # p
          BY <4>2, <2>3, <1>3, <1>13
        <4>. QED  BY <4>2, <4>3, <3>1 DEF IsCached
      <3>3. ASSUME b # p, IsCached(h, b, s) PROVE IsCached(g, b, s)
        <4>1. PICK k \in 1 .. Len(q) : q[k] = b
          BY <3>1, <3>3 DEF IsCached
        <4>2. k - 1 \in 1 .. Len(q) - 1 /\ q[(k - 1) + 1] = b
          BY <4>1, <3>3, <2>3, <1>3, <1>2
        <4>3. Tail(q)[k - 1] = b /\ k - 1 \in 1 .. Len(Tail(q))
          BY <4>2, <2>3, <1>3
        <4>. QED  BY <4>3, <3>1 DEF IsCached
      <3>. QED  BY <3>2, <3>3
    <2>. QED  BY <2>1, <2>2, <2>3
  <1>15. Placed(g, {})
    <2>1. \A b \in Block :
            /\ IsNew(g, b) <=> b \notin g.allocs /\ b \notin {} /\ ~Rests(g, b)
                                /\ \A s \in Size : ~IsCached(g, b, s)
            /\ ~(b \in g.allocs /\ Rests(g, b))
            /\ \A s \in Size :
                IsCached(g, b, s) => b \notin g.allocs /\ ~Rests(g, b) /\ g.header[b] = s
            /\ b \in {} => b \notin g.allocs /\ ~Rests(g, b) /\ \A s \in Size : ~IsCached(g, b, s)
      <3>. TAKE b \in Block
      <3>1. CASE b = p
        BY <3>1, <1>6, <1>8, <1>9, <1>10, <1>14
      <3>2. CASE b # p
        <4>1. /\ IsNew(h, b) <=> b \notin h.allocs /\ ~Rests(h, b)
                                  /\ \A s \in Size : ~IsCached(h, b, s)
              /\ ~(b \in h.allocs /\ Rests(h, b))
              /\ \A s \in Size :
                  IsCached(h, b, s) => b \notin h.allocs /\ ~Rests(h, b) /\ h.header[b] = s
          BY <1>1 DEF Placed
        <4>2. g.header[b] = h.header[b] /\ (b \in g.allocs <=> b \in h.allocs)
          BY <3>2, <1>1, <1>5, <1>6 DEF HeapType
        <4>3. \A s \in Size : IsCached(g, b, s) <=> IsCached(h, b, s)
          BY <3>2, <1>14
        <4>. QED  BY <3>2, <4>1, <4>2, <4>3, <1>9
      <3>. QED  BY <3>1, <3>2
    <2>2. ASSUME NEW s \in Size,
                 NEW k \in 1 .. Len(g.alloc_cache[s]), NEW m \in 1 .. Len(g.alloc_cache[s]),
                 g.alloc_cache[s][k] = g.alloc_cache[s][m]
          PROVE  k = m
      <3>1. CASE s # size
        BY <3>1, <2>2, <1>1, <1>11 DEF Placed
      <3>2. CASE s = size /\ q = <<>>
        BY <3>2, <2>2, <1>12, EmptySeq
      <3>3. CASE s = size /\ q # <<>>
        <4>1. k \in 1 .. Len(q) - 1 /\ m \in 1 .. Len(q) - 1 /\ Tail(q)[k] = Tail(q)[m]
          BY <3>3, <2>2, <1>3, <1>12
        <4>2. q[k + 1] = q[m + 1] /\ k + 1 \in 1 .. Len(q) /\ m + 1 \in 1 .. Len(q)
          BY <4>1, <3>3, <1>2, <1>3
        <4>3. k + 1 = m + 1
          BY <4>2, <1>13
        <4>. QED  BY <4>1, <4>3
      <3>. QED  BY <3>1, <3>2, <3>3
    <2>. QED  BY <2>1, <2>2, <1>1, <1>6 DEF Placed
  <1>16. RingKnows(g, r)
    <2>1. ASSUME NEW k \in Slot \ {h.deferred_index}, h.deferred_free[k] # None
          PROVE  h.deferred_free[k] \in Block /\ h.deferred_free[k] # p
      BY <2>1, <1>1, <1>8 DEF HeapType, Rests
    <2>2. \A k \in Slot \ {h.deferred_index} : h.deferred_free[k] # None =>
                g.header[h.deferred_free[k]] = h.header[h.deferred_free[k]]
      BY <2>1, <1>1, <1>5, <1>6 DEF HeapType
    <2>. QED  BY <2>2, <1>1, <1>6, <1>9 DEF RingKnows, Way
  <1>17. r[p] = 0
    <2>1. r[p] \in Nat /\ ~(r[p] > 0)
      BY <1>1, <1>5, <1>8, HeapAssumption DEF RingKnows, Slot
    <2>. QED  BY <2>1
  <1>18. HeapOK(g, r, {})
    BY <1>1, <1>7, <1>15, <1>16 DEF HeapOK
  <1>. QED  BY <1>5, <1>6, <1>8, <1>17, <1>18 DEF g, p

\* Every block of a new heap is new.
LEMMA NewHeapKeeps == HeapOK(NewHeap, [b \in Block |-> 0], {})
  <1>1. NewHeap \in HeapType /\ [b \in Block |-> 0] \in [Block -> Slot]
    BY HeapAssumption, EmptySeq DEF NewHeap, HeapType, Slot
  <1>2. /\ \A b \in Block : IsNew(NewHeap, b) /\ b \notin NewHeap.allocs /\ ~Rests(NewHeap, b)
        /\ \A b \in Block, s \in Size : ~IsCached(NewHeap, b, s)
    BY HeapAssumption, EmptySeq DEF NewHeap, IsNew, Rests, IsCached
  <1>3. Placed(NewHeap, {})
    <2>1. \A s \in Size : \A k, m \in 1 .. Len(NewHeap.alloc_cache[s]) :
            NewHeap.alloc_cache[s][k] = NewHeap.alloc_cache[s][m] => k = m
      BY EmptySeq DEF NewHeap
    <2>2. \A i \in Slot : NewHeap.deferred_free[i] = None
      BY DEF NewHeap
    <2>. QED  BY <1>2, <2>1, <2>2 DEF Placed
  <1>4. RingKnows(NewHeap, [b \in Block |-> 0])
    BY DEF RingKnows, NewHeap
  <1>. QED  BY <1>1, <1>3, <1>4 DEF HeapOK

-----------------------------------------------------------------------------
(* The heap of a test *)

HeapInv == HeapOK(memory_, rest, {})

\* What a step hands out did not rest.
HandsOutRested == \A b \in memory_'.allocs \ memory_.allocs : rest[b] = 0

\* Each step of the heap leaves each block in one place, and hands out what has rested.
LEMMA HeapStep ==
    ASSUME HeapInv, [HeapNext]_heapVars
    PROVE  HeapInv' /\ HandsOutRested
  <1>1. ASSUME NEW size \in Size, Alloc(size)
        PROVE  HeapInv' /\ HandsOutRested
    BY <1>1, AllocKeeps DEF HeapInv, Alloc, HandsOutRested
  <1>2. ASSUME NEW p \in Block, NEW defer \in BOOLEAN, Free(p, defer)
        PROVE  HeapInv' /\ HandsOutRested
    <2>1. HeapInv'
      BY <1>2, FreeKeeps DEF HeapInv, Free
    <2>2. memory_'.allocs \subseteq memory_.allocs
      BY <1>2, FreeAllocs DEF HeapInv, Free
    <2>. QED  BY <2>1, <2>2 DEF HandsOutRested
  <1>3. ASSUME NEW size \in Size, NEW p \in Block, NEW defer \in BOOLEAN,
               AllocAndFree(size, p, defer)
        PROVE  HeapInv' /\ HandsOutRested
    <2>. DEFINE h == alloc(memory_, size)
    <2>1. /\ HeapOK(h, rest, {}) /\ h.allocs = memory_.allocs \cup {NextBlock(memory_, size)}
          /\ rest[NextBlock(memory_, size)] = 0
      BY <1>3, AllocKeeps DEF HeapInv, AllocAndFree
    <2>2. p \in h.allocs /\ memory_' = free(h, p, defer) /\ rest' = Rested(rest, p, defer)
      BY <1>3 DEF AllocAndFree
    <2>. HIDE DEF h
    <2>3. HeapInv'
      BY <2>1, <2>2, FreeKeeps DEF HeapInv
    <2>4. memory_'.allocs \subseteq h.allocs
      BY <2>1, <2>2, FreeAllocs
    <2>. QED  BY <2>1, <2>3, <2>4 DEF HandsOutRested
  <1>4. ASSUME NewContext PROVE HeapInv' /\ HandsOutRested
    BY <1>4, NewHeapKeeps DEF NewContext, HeapInv, HandsOutRested, NewHeap
  <1>5. ASSUME UNCHANGED heapVars PROVE HeapInv' /\ HandsOutRested
    BY <1>5 DEF heapVars, HeapInv, HandsOutRested
  <1>. QED  BY <1>1, <1>2, <1>3, <1>4, <1>5 DEF HeapNext

\* So does the first state.
LEMMA HeapStart == HeapInit => HeapInv
  BY NewHeapKeeps DEF HeapInit, HeapInv

\* memory_mgr: no block the test asks for is in two places, or lost, whatever
\* is allocated and freed, and whichever frees are deferred.
THEOREM HeapInOnePlace == HeapSpec => []BlocksAreInOnePlace
  <1>1. HeapInv => BlocksAreInOnePlace
    BY DEF HeapInv, HeapOK, Placed, BlocksAreInOnePlace, InOnePlace
  <1>2. HeapInv /\ [HeapNext]_heapVars => HeapInv'
    BY HeapStep
  <1>. QED  BY <1>1, <1>2, HeapStart, PTL DEF HeapSpec

\* memory_mgr::free with defer: the block is not handed out before the ring has
\* come round to it.
THEOREM HeapDefers == HeapSpec => DeferredBlocksRest
  <1>1. HeapInv /\ [HeapNext]_heapVars => HeapInv' /\ [HandsOutRested]_heapVars
    BY HeapStep
  <1>2. HeapSpec => [][HandsOutRested]_heapVars
    BY <1>1, HeapStart, PTL DEF HeapSpec
  <1>. QED  BY <1>2 DEF DeferredBlocksRest, HandsOutRested

-----------------------------------------------------------------------------
(* The context and its heap *)

\* The calls to the heap, one by one.
LEMMA HeapCalls ==
    /\ \A size \in Size : Alloc(size) => HeapNext
    /\ \A p \in Block, defer \in BOOLEAN : Free(p, defer) => HeapNext
    /\ \A size \in Size, p \in Block, defer \in BOOLEAN : AllocAndFree(size, p, defer) => HeapNext
    /\ NewContext => HeapNext
  BY DEF HeapNext

\* Each step of a context is one of its heap, or leaves it alone.
LEMMA ContextStep ==
    ASSUME [Next]_vars
    PROVE  [HeapNext]_heapVars
  <1>1. CASE BeginIteration \/ BeforeOrAfter \/ BeforeEnds \/ Operate \/ GoOn \/ EndTest \/ EndIteration
    BY <1>1 DEF heapVars, BeginIteration, BeforeOrAfter, BeforeEnds, Operate, GoOn, EndTest, EndIteration
  <1>2. CASE RunAgain
    BY <1>2, HeapCalls DEF RunAgain
  <1>3. CASE New
    BY <1>3, HeapCalls DEF New
  <1>4. CASE Delete
    BY <1>4, HeapCalls DEF Delete, Fails, heapVars
  <1>5. CASE Realloc
    BY <1>5, HeapCalls DEF Realloc
  <1>6. CASE HashPtr \/ InitObject \/ DeinitObject \/ UseMutex \/ TlsSet \/ TlsGet
    BY <1>6 DEF heapVars, HashPtr, InitObject, DeinitObject, UseMutex, TlsSet, TlsGet, Fails
  <1>7. CASE NewArray
    BY <1>7, HeapCalls DEF NewArray
  <1>8. CASE NewArrayThrows
    <2>1. PICK n \in Size, p \in Block, defer \in BOOLEAN : AllocAndFree(n, p, defer)
      BY <1>8 DEF NewArrayThrows
    <2>. QED  BY <2>1, HeapCalls
  <1>9. CASE DeleteArray
    BY <1>9, HeapCalls DEF DeleteArray
  <1>10. CASE TlsAlloc
    BY <1>10, HeapCalls, ContextAssumption DEF TlsAlloc
  <1>11. CASE TlsFree
    BY <1>11, HeapCalls DEF TlsFree
  <1>12. CASE UNCHANGED vars
    BY <1>12 DEF vars, heapVars
  <1>. QED  BY <1>1, <1>2, <1>3, <1>4, <1>5, <1>6, <1>7, <1>8, <1>9, <1>10, <1>11, <1>12 DEF Next

\* context_impl uses memory_mgr as Heap allows: its iterations, its leaks, its
\* second run and the operators a test calls are steps of the heap.
THEOREM ContextUsesHeap == Spec => HeapSpec
  <1>1. Init => HeapInit
    BY DEF Init
  <1>2. [Next]_vars => [HeapNext]_heapVars
    BY ContextStep
  <1>. QED  BY <1>1, <1>2, PTL DEF Spec, HeapSpec

\* In every context no block is in two places, or lost.
THEOREM ContextInOnePlace == Spec => []BlocksAreInOnePlace
  BY ContextUsesHeap, HeapInOnePlace, PTL

\* In every context a block whose free was deferred rests.
THEOREM ContextDefers == Spec => DeferredBlocksRest
  BY ContextUsesHeap, HeapDefers, PTL

-----------------------------------------------------------------------------
(* Thread local storage *)

\* The value of each thread, in an entry.
Row == [Thread -> Value \cup {0}]
Zeros == [t \in Thread |-> 0]

Stages == [run : 1 .. 2, iter : Nat, phase : {"main", "before", "threads", "done"}, uses : Nat]

TlsStates ==
    [entries : Seq(Row), var : [Variable \cup Block -> [ctx_seq : 0 .. 2, index : Int]],
     slots : SUBSET Block, last : [Variable \cup Block -> Row]]

\* In s, v has an entry of the context that runs.
Has(s, run, v) == s.var[v].ctx_seq = run

\* Each variable that has an entry has one of the table, and for itself, also
\* a slot that is free again; none has one of a context that is to come.
EntriesAreOwn(s, run) ==
    /\ \A v \in Variable \cup Block :
        /\ s.var[v].ctx_seq <= run
        /\ Has(s, run, v) => s.var[v].index + 1 \in 1 .. Len(s.entries)
    /\ \A v, u \in Variable \cup Block :
        Has(s, run, v) /\ Has(s, run, u) /\ v # u => s.var[v].index # s.var[u].index

\* The entry of a variable is what was stored; one that has no entry has had
\* nothing stored.
EntriesAreStored(s, run) ==
    \A v \in Variable \cup Block :
        /\ Has(s, run, v) => s.entries[s.var[v].index + 1] = s.last[v]
        /\ ~Has(s, run, v) => s.last[v] = Zeros

TlsGood(s, g) ==
    /\ s \in TlsStates
    /\ EntriesAreOwn(s, g.run)
    /\ g.phase # "main" => EntriesAreStored(s, g.run)

TlsInv == stage \in Stages /\ TlsGood(tls, stage)

\* A row may be of zeros, and a thread may store a value in it.
LEMMA Rows ==
    /\ Zeros \in Row
    /\ \A row \in Row, x \in Value : \A t : [row EXCEPT ![t] = x] \in Row
  BY DEF Zeros, Row

\* At the beginning no variable has an entry.
LEMMA TlsInit ==
    ASSUME Init
    PROVE  TlsInv
  <1>1. stage \in Stages /\ stage.phase = "main" /\ stage.run = 1
    BY DEF Init, Stages
  <1>2. tls \in TlsStates
    <2>1. NewVariable \in [ctx_seq : 0 .. 2, index : Int]
      BY DEF NewVariable
    <2>2. [v \in Variable \cup Block |-> NewVariable]
                \in [Variable \cup Block -> [ctx_seq : 0 .. 2, index : Int]]
      BY <2>1
    <2>3. [v \in Variable \cup Block |-> [t \in Thread |-> 0]] \in [Variable \cup Block -> Row]
      BY Rows DEF Zeros
    <2>. QED  BY <2>2, <2>3 DEF Init, NewTls, TlsStates
  <1>3. EntriesAreOwn(tls, 1)
    BY DEF Init, NewTls, NewVariable, EntriesAreOwn, Has
  <1>. QED  BY <1>1, <1>2, <1>3 DEF TlsInv, TlsGood

\* What an iteration finds: entries of zeros, and nothing stored.
LEMMA TlsBegins ==
    ASSUME NEW s, NEW g, g.run \in 1 .. 2, TlsGood(s, g),
           NEW r, r = TlsBegin(s)
    PROVE  r \in TlsStates /\ EntriesAreOwn(r, g.run) /\ EntriesAreStored(r, g.run)
  <1>1. s \in TlsStates /\ EntriesAreOwn(s, g.run)
    BY DEF TlsGood
  <1>2. s.entries \in Seq(Row) /\ Len(s.entries) \in Nat /\ DOMAIN s.entries = 1 .. Len(s.entries)
    BY <1>1 DEF TlsStates
  <1>3. DOMAIN s.var = Variable \cup Block /\ DOMAIN s.last = Variable \cup Block
    BY <1>1 DEF TlsStates
  <1> DEFINE var == [v \in Variable \cup Block |-> IF v \in Global THEN s.var[v] ELSE NewVariable]
             last == [v \in Variable \cup Block |-> Zeros]
             entries == [i \in 1 .. Len(s.entries) |-> Zeros]
  <1>4. r = [s EXCEPT !.entries = entries, !.var = var, !.slots = {}, !.last = last]
    BY <1>1, <1>2, <1>3 DEF TlsBegin, ZeroValues, NewEntry, Zeros, TlsStates
  <1>5. entries \in Seq(Row) /\ Len(entries) = Len(s.entries)
    BY <1>2, Rows
  <1>6. last \in [Variable \cup Block -> Row]
    BY Rows
  <1>7. var \in [Variable \cup Block -> [ctx_seq : 0 .. 2, index : Int]]
    BY <1>1 DEF TlsStates, NewVariable
  <1>8. /\ r.entries = entries /\ r.var = var /\ r.last = last
        /\ r \in TlsStates
    <2>. HIDE DEF entries, var, last
    <2>. QED  BY <1>1, <1>4, <1>5, <1>6, <1>7 DEF TlsStates
  <1>9. EntriesAreOwn(r, g.run)
    <2>1. ASSUME NEW v \in Variable \cup Block
          PROVE  /\ r.var[v] = s.var[v] \/ r.var[v].ctx_seq = 0
                 /\ Has(r, g.run, v) => Has(s, g.run, v) /\ r.var[v] = s.var[v]
      BY <1>8 DEF Has, NewVariable
    <2>2. Len(r.entries) = Len(s.entries)
      BY <1>5, <1>8
    <2>. HIDE DEF entries, var, last
    <2>. QED  BY <1>1, <2>1, <2>2 DEF EntriesAreOwn
  <1>10. EntriesAreStored(r, g.run)
    <2>1. ASSUME NEW v \in Variable \cup Block, Has(r, g.run, v)
          PROVE  r.entries[r.var[v].index + 1] = r.last[v]
      <3>1. r.var[v].index + 1 \in 1 .. Len(s.entries)
        BY <1>5, <1>8, <1>9, <2>1 DEF EntriesAreOwn
      <3>. QED  BY <3>1, <1>8
    <2>2. \A v \in Variable \cup Block : r.last[v] = Zeros
      BY <1>8
    <2>. QED  BY <2>1, <2>2 DEF EntriesAreStored
  <1>. QED  BY <1>8, <1>9, <1>10

\* The table is then e, and the variable v is w.
Entering(s, v, e, w) == [s EXCEPT !.entries = e, !.var[v] = w]

\* The entry that is made is a new one.
LEMMA Enters ==
    ASSUME NEW s \in TlsStates, NEW run \in 1 .. 2, EntriesAreOwn(s, run), EntriesAreStored(s, run),
           NEW v \in Variable \cup Block,
           NEW e, e = WithEntry(s.entries, s.var[v], run),
           NEW w, w = Entered(s.entries, s.var[v], run),
           NEW r, r = Entering(s, v, e, w)
    PROVE  /\ r \in TlsStates /\ EntriesAreOwn(r, run) /\ EntriesAreStored(r, run)
           /\ Has(r, run, v) /\ r.entries = e /\ r.var[v] = w /\ r.last = s.last
           /\ IsEntry(e, w.index)
  <1>1. s.entries \in Seq(Row) /\ Len(s.entries) \in Nat /\ DOMAIN s.entries = 1 .. Len(s.entries)
    BY DEF TlsStates
  <1>2. /\ s.var \in [Variable \cup Block -> [ctx_seq : 0 .. 2, index : Int]]
        /\ s.last \in [Variable \cup Block -> Row]
    BY DEF TlsStates
  <1>3. CASE Has(s, run, v)
    <2>1. e = s.entries /\ w = s.var[v]
      BY <1>3 DEF WithEntry, Entered, NeedsEntry, Has
    <2>2. r = s
      BY <2>1, <1>2 DEF TlsStates, Entering
    <2>. QED  BY <1>1, <1>3, <2>1, <2>2 DEF EntriesAreOwn, IsEntry
  <1>4. CASE ~Has(s, run, v)
    <2>1. e = Append(s.entries, Zeros) /\ w = [ctx_seq |-> run, index |-> Len(s.entries)]
      BY <1>4 DEF WithEntry, Entered, NeedsEntry, Has, thread_local_alloc, NewEntry, Zeros
    <2>2. /\ e \in Seq(Row) /\ Len(e) = Len(s.entries) + 1
          /\ \A i \in 1 .. Len(s.entries) : e[i] = s.entries[i]
          /\ e[Len(s.entries) + 1] = Zeros
          /\ DOMAIN e = 1 .. Len(e)
      BY <2>1, <1>1, Rows
    <2>3. w \in [ctx_seq : 0 .. 2, index : Int] /\ w.ctx_seq = run /\ w.index = Len(s.entries)
      BY <2>1, <1>1
    <2> DEFINE var == [s.var EXCEPT ![v] = w]
    <2>4. var \in [Variable \cup Block -> [ctx_seq : 0 .. 2, index : Int]]
      BY <2>3, <1>2
    <2>5. var[v] = w /\ \A u \in Variable \cup Block : u # v => var[u] = s.var[u]
      BY <1>2
    <2>6. r.entries = e /\ r.var = var /\ r.last = s.last /\ r \in TlsStates
      <3>1. r = [s EXCEPT !.entries = e, !.var = var]
        BY DEF Entering
      <3>. HIDE DEF var
      <3>. QED  BY <3>1, <2>2, <2>4 DEF TlsStates
    <2>. HIDE DEF var
    <2>7. EntriesAreOwn(r, run)
      <3>1. ASSUME NEW u \in Variable \cup Block, u # v
            PROVE  r.var[u] = s.var[u] /\ (Has(r, run, u) <=> Has(s, run, u))
        BY <3>1, <2>5, <2>6 DEF Has
      <3>2. r.var[v] = w /\ Len(r.entries) = Len(s.entries) + 1
        BY <2>2, <2>5, <2>6
      <3>3. \A u \in Variable \cup Block : s.var[u].index \in Int
        BY <1>2
      <3>4. ASSUME NEW u \in Variable \cup Block, u # v, Has(s, run, u)
            PROVE  s.var[u].index # Len(s.entries)
        BY <3>3, <3>4, <1>1 DEF EntriesAreOwn
      <3>5. ASSUME NEW u \in Variable \cup Block
            PROVE  /\ r.var[u].ctx_seq <= run
                   /\ Has(r, run, u) => r.var[u].index + 1 \in 1 .. Len(r.entries)
        <4>1. CASE u = v
          BY <4>1, <3>2, <2>3, <1>1
        <4>2. CASE u # v
          <5>1. /\ s.var[u].ctx_seq <= run
                /\ Has(s, run, u) => s.var[u].index + 1 \in 1 .. Len(s.entries)
            BY DEF EntriesAreOwn
          <5>2. 1 .. Len(s.entries) \subseteq 1 .. Len(r.entries)
            BY <3>2, <1>1
          <5>. QED  BY <5>1, <5>2, <4>2, <3>1
        <4>. QED  BY <4>1, <4>2
      <3>6. ASSUME NEW u \in Variable \cup Block, NEW x \in Variable \cup Block,
                   Has(r, run, u), Has(r, run, x), u # x
            PROVE  r.var[u].index # r.var[x].index
        <4>1. CASE u # v /\ x # v
          BY <4>1, <3>1, <3>6 DEF EntriesAreOwn
        <4>2. CASE u = v \/ x = v
          BY <4>2, <3>1, <3>2, <3>4, <3>6, <2>3
        <4>. QED  BY <4>1, <4>2
      <3>. QED  BY <3>5, <3>6 DEF EntriesAreOwn
    <2>8. EntriesAreStored(r, run)
      <3>1. ASSUME NEW u \in Variable \cup Block, u # v, Has(s, run, u)
            PROVE  e[s.var[u].index + 1] = s.last[u]
        <4>1. s.var[u].index + 1 \in 1 .. Len(s.entries)
          BY <3>1 DEF EntriesAreOwn
        <4>. QED  BY <4>1, <2>2, <3>1 DEF EntriesAreStored
      <3>2. s.last[v] = Zeros
        BY <1>4 DEF EntriesAreStored
      <3>3. ASSUME NEW u \in Variable \cup Block, u # v
            PROVE  /\ Has(r, run, u) => r.entries[r.var[u].index + 1] = r.last[u]
                   /\ ~Has(r, run, u) => r.last[u] = Zeros
        <4>1. r.var[u] = s.var[u] /\ r.last[u] = s.last[u] /\ r.entries = e
          BY <3>3, <2>5, <2>6
        <4>. QED  BY <4>1, <3>1, <3>3 DEF EntriesAreStored, Has
      <3>4. Has(r, run, v) /\ r.entries[r.var[v].index + 1] = Zeros /\ r.last[v] = Zeros
        BY <3>2, <2>2, <2>3, <2>5, <2>6 DEF Has
      <3>. QED  BY <3>2, <3>3, <3>4, <2>6 DEF EntriesAreStored
    <2>9. IsEntry(e, w.index)
      BY <2>2, <2>3, <1>1 DEF IsEntry
    <2>. QED  BY <2>2, <2>3, <2>5, <2>6, <2>7, <2>8, <2>9 DEF Has
  <1>. QED  BY <1>3, <1>4

\* The running thread stores x in an entry.
LEMMA Stores ==
    ASSUME NEW s \in TlsStates, NEW run \in 1 .. 2, EntriesAreOwn(s, run), EntriesAreStored(s, run),
           NEW v \in Variable \cup Block, Has(s, run, v), NEW t, NEW x \in Value,
           NEW r, r = [s EXCEPT !.entries = thread_local_set(@, s.var[v].index, t, x),
                                !.last[v][t] = x]
    PROVE  r \in TlsStates /\ EntriesAreOwn(r, run) /\ EntriesAreStored(r, run)
  <1>1. s.entries \in Seq(Row) /\ Len(s.entries) \in Nat /\ DOMAIN s.entries = 1 .. Len(s.entries)
    BY DEF TlsStates
  <1>2. s.last \in [Variable \cup Block -> Row]
    BY DEF TlsStates
  <1>3. /\ s.var[v].index + 1 \in 1 .. Len(s.entries)
        /\ s.entries[s.var[v].index + 1] = s.last[v]
    BY DEF EntriesAreOwn, EntriesAreStored
  <1>4. PICK row \in Row : row = [s.last[v] EXCEPT ![t] = x]
    BY <1>2, Rows
  <1> DEFINE i == s.var[v].index + 1
             entries == [s.entries EXCEPT ![i] = row]
             last == [s.last EXCEPT ![v] = row]
  <1>5. r = [s EXCEPT !.entries = entries, !.last = last]
    BY <1>3, <1>4 DEF thread_local_set
  <1>6. entries \in Seq(Row) /\ Len(entries) = Len(s.entries)
    BY <1>1, <1>3
  <1>7. entries[i] = row /\ \A j \in 1 .. Len(s.entries) : j # i => entries[j] = s.entries[j]
    BY <1>1, <1>3
  <1>8. last \in [Variable \cup Block -> Row]
    BY <1>2
  <1>9. last[v] = row /\ \A u \in Variable \cup Block : u # v => last[u] = s.last[u]
    BY <1>2
  <1>10. r.entries = entries /\ r.var = s.var /\ r.last = last /\ r \in TlsStates
    <2>. HIDE DEF entries, last
    <2>. QED  BY <1>5, <1>6, <1>8 DEF TlsStates
  <1>. HIDE DEF entries, last
  <1>11. EntriesAreOwn(r, run)
    BY <1>6, <1>10 DEF EntriesAreOwn, Has
  <1>12. EntriesAreStored(r, run)
    <2>1. ASSUME NEW u \in Variable \cup Block, u # v, Has(s, run, u)
          PROVE  entries[s.var[u].index + 1] = last[u]
      <3>1. s.var[u].index + 1 \in 1 .. Len(s.entries) /\ s.var[u].index # s.var[v].index
        BY <2>1 DEF EntriesAreOwn
      <3>2. s.var[u].index \in Int /\ s.var[v].index \in Int
        BY DEF TlsStates
      <3>3. s.var[u].index + 1 # i
        BY <3>1, <3>2
      <3>. QED  BY <3>1, <3>3, <1>7, <1>9, <2>1 DEF EntriesAreStored
    <2>2. ASSUME NEW u \in Variable \cup Block, u # v
          PROVE  /\ Has(r, run, u) => r.entries[r.var[u].index + 1] = r.last[u]
                 /\ ~Has(r, run, u) => r.last[u] = Zeros
      <3>1. Has(r, run, u) <=> Has(s, run, u)
        BY <1>10 DEF Has
      <3>2. last[u] = s.last[u]
        BY <1>9, <2>2
      <3>. QED  BY <2>1, <2>2, <3>1, <3>2, <1>10 DEF EntriesAreStored
    <2>3. Has(r, run, v) /\ r.entries[r.var[v].index + 1] = r.last[v]
      BY <1>7, <1>9, <1>10 DEF Has
    <2>. QED  BY <2>2, <2>3 DEF EntriesAreStored
  <1>. QED  BY <1>10, <1>11, <1>12

\* A block that becomes a slot is a variable without an entry.
LEMMA SlotBegins ==
    ASSUME NEW s \in TlsStates, NEW run \in 1 .. 2, EntriesAreOwn(s, run), EntriesAreStored(s, run),
           NEW p \in Block,
           NEW r, r = [s EXCEPT !.slots = @ \cup {p}, !.var[p] = NewVariable,
                                !.last[p] = [t \in Thread |-> 0]]
    PROVE  r \in TlsStates /\ EntriesAreOwn(r, run) /\ EntriesAreStored(r, run)
  <1>1. /\ s.var \in [Variable \cup Block -> [ctx_seq : 0 .. 2, index : Int]]
        /\ s.last \in [Variable \cup Block -> Row]
    BY DEF TlsStates
  <1> DEFINE var == [s.var EXCEPT ![p] = NewVariable]
             last == [s.last EXCEPT ![p] = Zeros]
  <1>2. /\ NewVariable \in [ctx_seq : 0 .. 2, index : Int]
        /\ NewVariable.ctx_seq = 0
    BY DEF NewVariable
  <1>3. /\ var \in [Variable \cup Block -> [ctx_seq : 0 .. 2, index : Int]]
        /\ var[p] = NewVariable /\ \A u \in Variable \cup Block : u # p => var[u] = s.var[u]
    BY <1>1, <1>2
  <1>4. /\ last \in [Variable \cup Block -> Row]
        /\ last[p] = Zeros /\ \A u \in Variable \cup Block : u # p => last[u] = s.last[u]
    BY <1>1, Rows
  <1>5. r.entries = s.entries /\ r.var = var /\ r.last = last /\ r \in TlsStates
    <2>1. r = [s EXCEPT !.slots = s.slots \cup {p}, !.var = var, !.last = last]
      BY DEF Zeros
    <2> DEFINE slots == s.slots \cup {p}
    <2>2. slots \in SUBSET Block
      BY DEF TlsStates
    <2>. HIDE DEF var, last, slots
    <2>3. r = [s EXCEPT !.slots = slots, !.var = var, !.last = last]
      BY <2>1 DEF slots
    <2>. QED  BY <2>2, <2>3, <1>3, <1>4 DEF TlsStates
  <1>. HIDE DEF var, last
  <1>6. EntriesAreOwn(r, run)
    BY <1>2, <1>3, <1>5 DEF EntriesAreOwn, Has
  <1>7. EntriesAreStored(r, run)
    BY <1>2, <1>3, <1>4, <1>5 DEF EntriesAreStored, Has
  <1>. QED  BY <1>5, <1>6, <1>7

\* Which steps change the stage or the variables, and how.
LEMMA TlsSteps ==
    ASSUME TlsInv, [Next]_vars
    PROVE  \/ BeginIteration \/ RunAgain
           \/ /\ stage' \in Stages /\ stage'.run = stage.run
              /\ stage.phase = "main" => stage'.phase = "main"
              /\ \/ UNCHANGED tls
                 \/ TlsSet \/ TlsGet \/ TlsAlloc \/ TlsFree
  <1>1. stage \in Stages
    BY DEF TlsInv
  <1>2. \A what : Use(what) => /\ stage' \in Stages /\ stage'.run = stage.run
                               /\ stage'.phase = stage.phase
    BY <1>1 DEF Use, Stages
  <1>3. CASE BeforeOrAfter \/ Operate \/ GoOn \/ EndTest \/ UNCHANGED vars
    BY <1>1, <1>3 DEF BeforeOrAfter, Operate, GoOn, EndTest, vars
  <1>4. CASE BeforeEnds
    BY <1>1, <1>4 DEF BeforeEnds, Runs, Stages
  <1>5. CASE EndIteration
    <2>1. stage.phase = "threads" /\ UNCHANGED tls
      BY <1>5 DEF EndIteration, InAfter, Runs
    <2>2. \/ stage' = stage
          \/ stage' = [stage EXCEPT !.phase = "done"]
          \/ stage' = [stage EXCEPT !.phase = "main", !.iter = @ + 1]
      BY <1>5 DEF EndIteration
    <2>3. /\ stage = [run |-> stage.run, iter |-> stage.iter, phase |-> stage.phase,
                      uses |-> stage.uses]
          /\ stage.run \in 1 .. 2 /\ stage.iter \in Nat /\ stage.uses \in Nat
      BY <1>1 DEF Stages
    <2>4. \E iter \in Nat, phase \in {"main", "threads", "done"} :
            stage' = [run |-> stage.run, iter |-> iter, phase |-> phase, uses |-> stage.uses]
      <3>1. stage.iter + 1 \in Nat
        BY <2>3
      <3>. QED  BY <2>1, <2>2, <2>3, <3>1
    <2>5. stage' \in Stages /\ stage'.run = stage.run
      BY <2>3, <2>4 DEF Stages
    <2>. QED  BY <2>1, <2>5
  <1>6. CASE New \/ Delete \/ Realloc \/ HashPtr
    BY <1>2, <1>6 DEF New, Delete, Realloc, HashPtr, Fails
  <1>7. CASE NewArray \/ NewArrayThrows \/ DeleteArray
    BY <1>2, <1>7 DEF NewArray, NewArrayThrows, DeleteArray
  <1>8. CASE InitObject \/ DeinitObject \/ UseMutex
    BY <1>2, <1>8 DEF InitObject, DeinitObject, UseMutex, Fails
  <1>9. CASE TlsSet \/ TlsGet \/ TlsAlloc \/ TlsFree
    BY <1>2, <1>9 DEF TlsSet, TlsGet, TlsAlloc, TlsFree
  <1>. QED  BY <1>3, <1>4, <1>5, <1>6, <1>7, <1>8, <1>9 DEF Next

\* A thread stores or gets while the threads run.
LEMMA UsesInThreads ==
    ASSUME TlsInv, NEW what, Use(what)
    PROVE  /\ stage' \in Stages /\ stage'.run = stage.run /\ stage.run \in 1 .. 2
           /\ tls \in TlsStates /\ EntriesAreOwn(tls, stage.run) /\ EntriesAreStored(tls, stage.run)
  <1>1. stage \in Stages /\ stage.phase = "threads"
    BY DEF TlsInv, Use, AtRest, InTest, Runs
  <1>. QED  BY <1>1 DEF TlsInv, TlsGood, Stages, Use

\* There is an entry for each variable a thread stores in or gets, and none of
\* its entries is another's.
LEMMA TlsStep ==
    ASSUME HeapInv, TlsInv, [Next]_vars
    PROVE  TlsInv'
  <1>1. stage \in Stages /\ TlsGood(tls, stage)
    BY DEF TlsInv
  <1>2. tls \in TlsStates /\ EntriesAreOwn(tls, stage.run) /\ stage.run \in 1 .. 2
    BY <1>1 DEF TlsGood, Stages
  <1>3. CASE BeginIteration
    <2>1. stage' \in Stages /\ stage'.run = stage.run /\ tls' = TlsBegin(tls)
      BY <1>1, <1>3 DEF BeginIteration, Stages
    <2>2. tls' \in TlsStates /\ EntriesAreOwn(tls', stage.run) /\ EntriesAreStored(tls', stage.run)
      BY <1>1, <1>2, <2>1, TlsBegins
    <2>. QED  BY <2>1, <2>2 DEF TlsInv, TlsGood
  <1>4. CASE RunAgain
    <2>1. stage' \in Stages /\ stage'.run = 2 /\ stage'.phase = "main" /\ stage.run = 1
      <3>1. stage.run = 1 /\ stage' = [stage EXCEPT !.run = 2, !.phase = "main", !.uses = 0]
        BY <1>4 DEF RunAgain
      <3>2. /\ stage' = [run |-> 2, iter |-> stage.iter, phase |-> "main", uses |-> 0]
            /\ stage.iter \in Nat
        BY <1>1, <3>1 DEF Stages
      <3>. QED  BY <3>1, <3>2 DEF Stages
    <2> DEFINE var == [v \in Variable \cup Block |-> IF v \in Global THEN tls.var[v] ELSE NewVariable]
    <2>2. tls' = [NewTls EXCEPT !.var = var]
      BY <1>4, <1>2 DEF RunAgain, NewTls
    <2>3. /\ var \in [Variable \cup Block -> [ctx_seq : 0 .. 2, index : Int]]
          /\ \A v \in Variable \cup Block : var[v].ctx_seq <= 1
      BY <1>2, <2>1 DEF TlsStates, NewVariable, EntriesAreOwn
    <2>4. tls'.var = var /\ tls' \in TlsStates
      <3>1. [v \in Variable \cup Block |-> [t \in Thread |-> 0]] \in [Variable \cup Block -> Row]
        BY Rows DEF Zeros
      <3>2. <<>> \in Seq(Row)
        OBVIOUS
      <3>. HIDE DEF var
      <3>3. tls'.entries = <<>> /\ tls'.var = var /\ tls'.slots = {}
            /\ tls' = [entries |-> <<>>, var |-> var, slots |-> {}, last |-> NewTls.last]
            /\ NewTls.last = [v \in Variable \cup Block |-> [t \in Thread |-> 0]]
        BY <2>2 DEF NewTls
      <3>. QED  BY <2>3, <3>1, <3>2, <3>3 DEF TlsStates
    <2>. HIDE DEF var
    <2>5. EntriesAreOwn(tls', 2)
      <3>1. \A v \in Variable \cup Block : ~Has(tls', 2, v) /\ var[v].ctx_seq <= 2
        BY <2>3, <2>4 DEF Has
      <3>. QED  BY <3>1, <2>4 DEF EntriesAreOwn
    <2>. QED  BY <2>1, <2>4, <2>5 DEF TlsInv, TlsGood
  <1>5. CASE /\ stage' \in Stages /\ stage'.run = stage.run
             /\ stage.phase = "main" => stage'.phase = "main"
             /\ UNCHANGED tls
    BY <1>1, <1>5 DEF TlsInv, TlsGood
  <1>6. CASE TlsSet
    <2>1. /\ stage' \in Stages /\ stage'.run = stage.run
          /\ EntriesAreStored(tls, stage.run)
      BY <1>6, UsesInThreads DEF TlsSet
    <2>2. PICK v \in Reachable, x \in Value :
            LET e == WithEntry(tls.entries, tls.var[v], ctx_seq)
                w == Entered(tls.entries, tls.var[v], ctx_seq)
            IN  IF ~IsEntry(e, w.index) THEN UNCHANGED tls
                ELSE tls' = [tls EXCEPT !.entries = thread_local_set(e, w.index, Running, x),
                                        !.var[v] = w, !.last[v][Running] = x]
      BY Zenon, <1>6 DEF TlsSet
    <2>3. v \in Variable \cup Block
      BY <1>2 DEF Reachable, TlsStates
    <2>4. PICK e : e = WithEntry(tls.entries, tls.var[v], stage.run)
      OBVIOUS
    <2>5. PICK w : w = Entered(tls.entries, tls.var[v], stage.run)
      OBVIOUS
    <2>6. PICK s : s = Entering(tls, v, e, w)
      OBVIOUS
    <2>7. /\ s \in TlsStates /\ EntriesAreOwn(s, stage.run) /\ EntriesAreStored(s, stage.run)
          /\ Has(s, stage.run, v) /\ s.entries = e /\ s.var[v] = w /\ s.last = tls.last
          /\ IsEntry(e, w.index)
      BY <1>2, <2>1, <2>3, <2>4, <2>5, <2>6, Enters
    <2>8. tls' = [tls EXCEPT !.entries = thread_local_set(e, w.index, Running, x),
                             !.var[v] = w, !.last[v][Running] = x]
      BY <2>2, <2>4, <2>5, <2>7 DEF ctx_seq
    <2>9. tls' = [s EXCEPT !.entries = thread_local_set(@, s.var[v].index, Running, x),
                           !.last[v][Running] = x]
      BY <1>2, <2>6, <2>7, <2>8 DEF TlsStates, Entering
    <2>10. tls' \in TlsStates /\ EntriesAreOwn(tls', stage.run) /\ EntriesAreStored(tls', stage.run)
      BY <1>2, <2>3, <2>7, <2>9, Stores
    <2>. QED  BY <2>1, <2>10 DEF TlsInv, TlsGood
  <1>7. CASE TlsGet
    <2>1. /\ stage' \in Stages /\ stage'.run = stage.run
          /\ EntriesAreStored(tls, stage.run)
      BY <1>7, UsesInThreads DEF TlsGet
    <2>2. PICK v \in Reachable :
            LET e == WithEntry(tls.entries, tls.var[v], ctx_seq)
                w == Entered(tls.entries, tls.var[v], ctx_seq)
            IN  IF ~IsEntry(e, w.index) THEN UNCHANGED tls
                ELSE tls' = [tls EXCEPT !.entries = e, !.var[v] = w]
      BY Zenon, <1>7 DEF TlsGet
    <2>3. v \in Variable \cup Block
      BY <1>2, <2>2 DEF Reachable, TlsStates
    <2>4. PICK e : e = WithEntry(tls.entries, tls.var[v], stage.run)
      OBVIOUS
    <2>5. PICK w : w = Entered(tls.entries, tls.var[v], stage.run)
      OBVIOUS
    <2>6. PICK s : s = Entering(tls, v, e, w)
      OBVIOUS
    <2>7. /\ s \in TlsStates /\ EntriesAreOwn(s, stage.run) /\ EntriesAreStored(s, stage.run)
          /\ IsEntry(e, w.index)
      BY <1>2, <2>1, <2>3, <2>4, <2>5, <2>6, Enters
    <2>8. tls' = s
      BY <2>2, <2>4, <2>5, <2>6, <2>7 DEF ctx_seq, Entering
    <2>. QED  BY <2>1, <2>7, <2>8 DEF TlsInv, TlsGood
  <1>8. CASE TlsAlloc
    <2>1. /\ stage' \in Stages /\ stage'.run = stage.run
          /\ EntriesAreStored(tls, stage.run)
      BY <1>8, UsesInThreads DEF TlsAlloc
    <2>2. PICK p : /\ p = NextBlock(memory_, SlotSize)
                   /\ tls' = [tls EXCEPT !.slots = @ \cup {p}, !.var[p] = NewVariable,
                                         !.last[p] = [t \in Thread |-> 0]]
      BY <1>8 DEF TlsAlloc
    <2>3. p \in Block
      BY <1>8, <2>2, AllocKeeps, ContextAssumption DEF TlsAlloc, CanGet, HeapInv
    <2>4. tls' \in TlsStates /\ EntriesAreOwn(tls', stage.run) /\ EntriesAreStored(tls', stage.run)
      BY <1>2, <2>1, <2>2, <2>3, SlotBegins
    <2>. QED  BY <2>1, <2>4 DEF TlsInv, TlsGood
  <1>9. CASE TlsFree
    <2>1. /\ stage' \in Stages /\ stage'.run = stage.run
          /\ EntriesAreStored(tls, stage.run)
      BY <1>9, UsesInThreads DEF TlsFree
    <2>2. PICK p \in Block : tls' = [tls EXCEPT !.slots = @ \ {p}]
      BY <1>9 DEF TlsFree
    <2>3. /\ tls' \in TlsStates
          /\ tls'.entries = tls.entries /\ tls'.var = tls.var /\ tls'.last = tls.last
      BY <1>2, <2>2 DEF TlsStates
    <2>. QED  BY <1>2, <2>1, <2>3 DEF TlsInv, TlsGood, EntriesAreOwn, EntriesAreStored, Has
  <1>. QED  BY <1>3, <1>4, <1>5, <1>6, <1>7, <1>8, <1>9, TlsSteps

\* ThreadLocalsArePrivate says what the invariant says, of what get returns.
LEMMA TlsIsPrivate ==
    ASSUME TlsInv
    PROVE  ThreadLocalsArePrivate
  <1>. SUFFICES ASSUME stage.phase # "main", NEW v \in Reachable, NEW t \in Thread
                PROVE  Got(tls.entries, tls.var[v], ctx_seq, t) = tls.last[v][t]
    BY DEF ThreadLocalsArePrivate
  <1>1. tls \in TlsStates /\ EntriesAreOwn(tls, stage.run) /\ EntriesAreStored(tls, stage.run)
    BY DEF TlsInv, TlsGood
  <1>2. stage.run \in 1 .. 2
    BY DEF TlsInv, Stages
  <1>3. v \in Variable \cup Block
    BY <1>1 DEF Reachable, TlsStates
  <1>4. PICK e : e = WithEntry(tls.entries, tls.var[v], stage.run)
    OBVIOUS
  <1>5. PICK w : w = Entered(tls.entries, tls.var[v], stage.run)
    OBVIOUS
  <1>6. PICK s : s = Entering(tls, v, e, w)
    OBVIOUS
  <1>7. /\ EntriesAreStored(s, stage.run) /\ Has(s, stage.run, v)
        /\ s.entries = e /\ s.var[v] = w /\ s.last = tls.last /\ IsEntry(e, w.index)
    BY <1>1, <1>2, <1>3, <1>4, <1>5, <1>6, Enters
  <1>8. e[w.index + 1] = tls.last[v]
    BY <1>3, <1>7 DEF EntriesAreStored
  <1>. QED  BY <1>4, <1>5, <1>7, <1>8 DEF Got, ctx_seq

\* The table has for each variable one entry of its own, with what the threads
\* have stored.
THEOREM ThreadLocalInvariant == Spec => []TlsInv
  <1>1. Init => HeapInv /\ TlsInv
    BY TlsInit, HeapStart DEF Init
  <1>2. HeapInv /\ TlsInv /\ [Next]_vars => HeapInv' /\ TlsInv'
    BY TlsStep, ContextStep, HeapStep
  <1>. QED  BY <1>1, <1>2, PTL DEF Spec

\* A thread gets of a thread local variable what it has itself stored in it in
\* this iteration, or 0: for all variables, slots, tests, numbers of threads and
\* iterations, and in the second context of a failed test too.
THEOREM ThreadLocalsPrivate == Spec => []ThreadLocalsArePrivate
  <1>1. TlsInv => ThreadLocalsArePrivate
    BY TlsIsPrivate
  <1>. QED  BY <1>1, ThreadLocalInvariant, PTL
-----------------------------------------------------------------------------
(* What is left of an operation *)

Calls ==
    {Sched, Yield, Unpark, SwitchBack, Disable, Enable, Create, End}
        \cup {Park(timed, spurious, hand) :
                timed \in BOOLEAN, spurious \in BOOLEAN, hand \in BOOLEAN}

\* A park for what its thread is handed with the processor.
IsHanded(call) == call.op = "park" /\ call.hand

\* The first switch_back after the call i is the call j.
GivesBack(c, i, j) == c[j] = SwitchBack /\ \A k \in i + 1 .. j - 1 : c[k] # SwitchBack

\* D[i] is disable_preemption_ before the call i and S[i] the depth that is put
\* aside, -1 for none.  While the processor is lent, that is while a depth is
\* put aside, a thread neither parks nor ends nor lends the processor itself,
\* and makes no step that another thread could take; if it is handed nothing,
\* it goes on after the switch_back as if it had been.
StepFits(c, D, S, i) ==
    LET op == c[i].op
    IN  /\ op = "sched" => S[i] = -1 \/ D[i] > 0
        /\ op \in {"yield", "unpark", "create", "end"} => S[i] = -1 /\ D[i] = 0
        /\ op = "end" => i = Len(c)
        /\ op = "park" => S[i] = -1
        /\ op = "disable" => D[i + 1] = D[i] + 1
        /\ op = "enable" => D[i] > 0 /\ D[i + 1] = D[i] - 1
        /\ op = "switch_back" => S[i] # -1 /\ D[i] = 0 /\ D[i + 1] = S[i] /\ S[i + 1] = -1
        /\ IsHanded(c[i]) =>
            /\ D[i + 1] = 0 /\ S[i + 1] = D[i]
            /\ \E j \in i + 1 .. Len(c) : GivesBack(c, i, j) /\ D[j + 1] = D[i] /\ S[j + 1] = -1
        /\ op # "switch_back" /\ ~IsHanded(c[i]) => S[i + 1] = S[i]
        /\ op \notin {"disable", "enable", "switch_back"} /\ ~IsHanded(c[i]) => D[i + 1] = D[i]

Leads(c, D, S) ==
    /\ c \in Seq(Calls) /\ Len(c) \in Nat
    /\ D \in [1 .. Len(c) + 1 -> Nat] /\ S \in [1 .. Len(c) + 1 -> Nat \cup {-1}]
    /\ \A i \in 1 .. Len(c) : StepFits(c, D, S, i)

\* The calls c, begun with d disabled and s put aside, end with e and r.
Brings(c, d, s, e, r) ==
    \E D, S : /\ Leads(c, D, S)
              /\ D[1] = d /\ S[1] = s /\ D[Len(c) + 1] = e /\ S[Len(c) + 1] = r

\* They end as the operation of a thread does.
Fits(c, d, s) == Brings(c, d, s, 0, -1)

\* Calls and what they do.
LEMMA CallKinds ==
    /\ \A c \in Calls :
        /\ c.op \in {"sched", "yield", "park", "unpark", "switch_back", "disable", "enable",
                     "create", "end"}
        /\ c.op = "switch_back" <=> c = SwitchBack
        /\ c.op = "park" => c.hand \in BOOLEAN
    /\ Sched \in Calls /\ Sched.op = "sched" /\ Yield \in Calls /\ Yield.op = "yield"
    /\ Unpark \in Calls /\ Unpark.op = "unpark" /\ SwitchBack \in Calls
    /\ Disable \in Calls /\ Disable.op = "disable" /\ Enable \in Calls /\ Enable.op = "enable"
    /\ Create \in Calls /\ Create.op = "create" /\ End \in Calls /\ End.op = "end"
    /\ \A timed, spurious, hand \in BOOLEAN :
        /\ Park(timed, spurious, hand) \in Calls
        /\ Park(timed, spurious, hand).op = "park"
        /\ Park(timed, spurious, hand).hand = hand
  <1>1. \A timed, spurious, hand \in BOOLEAN :
        /\ Park(timed, spurious, hand) \in Calls
        /\ Park(timed, spurious, hand).op = "park"
        /\ Park(timed, spurious, hand).hand = hand
    BY DEF Calls, Park
  <1>2. /\ Sched \in Calls /\ Sched.op = "sched" /\ Yield \in Calls /\ Yield.op = "yield"
        /\ Unpark \in Calls /\ Unpark.op = "unpark"
        /\ SwitchBack \in Calls /\ SwitchBack.op = "switch_back"
        /\ Disable \in Calls /\ Disable.op = "disable" /\ Enable \in Calls /\ Enable.op = "enable"
        /\ Create \in Calls /\ Create.op = "create" /\ End \in Calls /\ End.op = "end"
    BY DEF Calls, Sched, Yield, Unpark, SwitchBack, Disable, Enable, Create, End
  <1>3. ASSUME NEW c \in Calls
        PROVE  \/ c \in {Sched, Yield, Unpark, SwitchBack, Disable, Enable, Create, End}
               \/ c.op = "park" /\ c.hand \in BOOLEAN
    BY DEF Calls, Park
  <1>. QED  BY <1>1, <1>2, <1>3

\* What follows the first m calls.
LEMMA Remains ==
    ASSUME NEW c, NEW D, NEW S, Leads(c, D, S), NEW m \in 0 .. Len(c),
           NEW r, r \in Seq(Calls), Len(r) = Len(c) - m,
           \A i \in 1 .. Len(c) - m : r[i] = c[i + m]
    PROVE  Brings(r, D[m + 1], S[m + 1], D[Len(c) + 1], S[Len(c) + 1])
  <1> DEFINE n == Len(c) - m
             E == [i \in 1 .. n + 1 |-> D[i + m]]
             T == [i \in 1 .. n + 1 |-> S[i + m]]
  <1>1. Len(c) \in Nat /\ n \in Nat /\ \A i \in 1 .. n + 1 : i + m \in 1 .. Len(c) + 1
    BY DEF Leads
  <1>2. E \in [1 .. n + 1 -> Nat] /\ T \in [1 .. n + 1 -> Nat \cup {-1}]
    BY <1>1 DEF Leads
  <1>3. \A i \in 1 .. n + 1 : E[i] = D[i + m] /\ T[i] = S[i + m]
    OBVIOUS
  <1>. HIDE DEF E, T
  <1>4. ASSUME NEW i \in 1 .. n PROVE StepFits(r, E, T, i)
    <2>1. i + m \in 1 .. Len(c) /\ StepFits(c, D, S, i + m) /\ r[i] = c[i + m]
      BY <1>1 DEF Leads
    <2>2. /\ E[i] = D[i + m] /\ T[i] = S[i + m]
          /\ E[i + 1] = D[(i + m) + 1] /\ T[i + 1] = S[(i + m) + 1]
      <3>1. /\ i \in 1 .. n + 1 /\ i + 1 \in 1 .. n + 1 /\ (i + 1) + m = (i + m) + 1
        BY <1>1
      <3>2. E[i] = D[i + m] /\ T[i] = S[i + m]
        BY <1>3, <3>1
      <3>3. E[i + 1] = D[(i + 1) + m] /\ T[i + 1] = S[(i + 1) + m]
        BY <1>3, <3>1
      <3>. QED  BY <3>1, <3>2, <3>3
    <2>3. ASSUME NEW j \in (i + m) + 1 .. Len(c), GivesBack(c, i + m, j),
                 D[j + 1] = D[i + m], S[j + 1] = -1
          PROVE  /\ j - m \in i + 1 .. Len(r) /\ GivesBack(r, i, j - m)
                 /\ E[(j - m) + 1] = E[i] /\ T[(j - m) + 1] = -1
      <3>1. j - m \in 1 .. n /\ j - m \in i + 1 .. Len(r) /\ r[j - m] = c[j]
        <4>1. j - m \in 1 .. n /\ (j - m) + m = j
          BY <1>1
        <4>2. r[j - m] = c[(j - m) + m]
          BY <4>1
        <4>. QED  BY <1>1, <4>1, <4>2
      <3>2. \A k \in i + 1 .. (j - m) - 1 : r[k] = c[k + m] /\ k + m \in (i + m) + 1 .. j - 1
        <4>1. \A k \in i + 1 .. (j - m) - 1 : k \in 1 .. n /\ k + m \in (i + m) + 1 .. j - 1
          BY <1>1, <3>1
        <4>. QED  BY <4>1
      <3>3. GivesBack(r, i, j - m)
        BY <3>1, <3>2, <2>3 DEF GivesBack
      <3>4. (j - m) + 1 \in 1 .. n + 1 /\ ((j - m) + 1) + m = j + 1
        BY <1>1, <3>1
      <3>5. E[(j - m) + 1] = D[j + 1] /\ T[(j - m) + 1] = S[j + 1]
        BY <1>3, <3>4
      <3>. QED  BY <3>1, <3>3, <3>5, <2>2, <2>3
    <2>4. i + m = Len(c) => i = Len(r)
      <3>1. PICK x \in Int, y \in Int, z \in Int : x = Len(c) /\ y = m /\ z = i
        BY <1>1
      <3>2. Len(r) = x - y
        BY <3>1
      <3>3. z + y = x => z = x - y
        OBVIOUS
      <3>. QED  BY <3>1, <3>2, <3>3
    <2>. QED  BY <2>1, <2>2, <2>3, <2>4 DEF StepFits
  <1>5. Leads(r, E, T)
    BY <1>1, <1>2, <1>4 DEF Leads
  <1>6. E[1] = D[m + 1] /\ T[1] = S[m + 1] /\ E[Len(r) + 1] = D[Len(c) + 1]
        /\ T[Len(r) + 1] = S[Len(c) + 1]
    BY <1>1, <1>3
  <1>. QED  BY <1>5, <1>6 DEF Brings

\* What the first call asks for, and what is left after it.
LEMMA Onward ==
    ASSUME NEW c, NEW d, NEW s, Fits(c, d, s), c # <<>>
    PROVE  /\ c \in Seq(Calls) /\ Head(c) \in Calls /\ Tail(c) \in Seq(Calls)
           /\ d \in Nat /\ s \in Nat \cup {-1}
           /\ Head(c).op = "sched" => (s = -1 \/ d > 0) /\ Fits(Tail(c), d, s)
           /\ Head(c).op \in {"yield", "unpark", "create"} =>
                s = -1 /\ d = 0 /\ Fits(Tail(c), 0, -1)
           /\ Head(c).op = "end" => s = -1 /\ d = 0 /\ Tail(c) = <<>>
           /\ Head(c).op = "park" => s = -1
           /\ Head(c).op = "park" /\ ~Head(c).hand => Fits(Tail(c), d, -1)
           /\ Head(c).op = "park" /\ Head(c).hand =>
                Fits(Tail(c), 0, d) /\ Fits(NotTaken(Tail(c)), d, -1)
           /\ Head(c).op = "disable" => Fits(Tail(c), d + 1, s)
           /\ Head(c).op = "enable" => d > 0 /\ Fits(Tail(c), d - 1, s)
           /\ Head(c).op = "switch_back" => s # -1 /\ d = 0 /\ Fits(Tail(c), s, -1)
  <1>1. PICK D, S : /\ Leads(c, D, S) /\ D[1] = d /\ S[1] = s
                    /\ D[Len(c) + 1] = 0 /\ S[Len(c) + 1] = -1
    BY DEF Fits, Brings
  <1>2. c \in Seq(Calls) /\ Len(c) \in Nat \ {0}
    BY <1>1, EmptySeq DEF Leads
  <1>3. /\ Head(c) = c[1] /\ Head(c) \in Calls /\ Tail(c) \in Seq(Calls)
        /\ Len(Tail(c)) = Len(c) - 1 /\ \A i \in 1 .. Len(c) - 1 : Tail(c)[i] = c[i + 1]
    BY <1>2, HeadTailProperties
  <1>4. d \in Nat /\ s \in Nat \cup {-1}
    <2>1. 1 \in 1 .. Len(c) + 1
      BY <1>2
    <2>. QED  BY <1>1, <2>1 DEF Leads
  <1>5. Fits(Tail(c), D[2], S[2])
    <2>1. 1 \in 0 .. Len(c)
      BY <1>2
    <2>2. Brings(Tail(c), D[1 + 1], S[1 + 1], D[Len(c) + 1], S[Len(c) + 1])
      BY <1>1, <1>3, <2>1, Remains
    <2>. QED  BY <1>1, <2>2 DEF Fits
  <1>6. StepFits(c, D, S, 1)
    BY <1>1, <1>2 DEF Leads
  <1>7. ASSUME IsHanded(c[1]) PROVE Fits(NotTaken(Tail(c)), d, -1)
    <2>1. PICK j \in 2 .. Len(c) : GivesBack(c, 1, j) /\ D[j + 1] = d /\ S[j + 1] = -1
      BY <1>1, <1>6, <1>7 DEF StepFits
    <2> DEFINE code == Tail(c)
               end == CHOOSE i \in DOMAIN code :
                        code[i] = SwitchBack /\ \A k \in 1 .. i - 1 : code[k] # SwitchBack
    <2>2. DOMAIN code = 1 .. Len(c) - 1
      BY <1>2, <1>3, LenProperties
    <2>3. j - 1 \in 1 .. Len(c) - 1 /\ code[j - 1] = SwitchBack
      BY <1>2, <1>3, <2>1 DEF GivesBack
    <2>4. \A k \in 1 .. (j - 1) - 1 : code[k] # SwitchBack
      <3>1. \A k \in 1 .. (j - 1) - 1 : k \in 1 .. Len(c) - 1 /\ k + 1 \in 2 .. j - 1
        BY <1>2, <2>1
      <3>. QED  BY <1>3, <2>1, <3>1 DEF GivesBack
    <2>. HIDE DEF code
    <2>5. \E i \in DOMAIN code : code[i] = SwitchBack /\ \A k \in 1 .. i - 1 : code[k] # SwitchBack
      BY <2>2, <2>3, <2>4
    <2>6. /\ end \in DOMAIN code /\ code[end] = SwitchBack
          /\ \A k \in 1 .. end - 1 : code[k] # SwitchBack
      BY <2>5
    <2>. HIDE DEF end
    <2>7. end = j - 1
      <3>1. end \in Int /\ j - 1 \in Int /\ end >= 1 /\ j - 1 >= 1
        BY <1>2, <2>2, <2>3, <2>6
      <3>2. ~(end < j - 1)
        <4>1. end < j - 1 => end \in 1 .. (j - 1) - 1
          BY <3>1
        <4>. QED  BY <4>1, <2>4, <2>6
      <3>3. ~(j - 1 < end)
        <4>1. j - 1 < end => j - 1 \in 1 .. end - 1
          BY <3>1
        <4>. QED  BY <4>1, <2>3, <2>6
      <3>. QED  BY <3>1, <3>2, <3>3
    <2>8. NotTaken(code) = SubSeq(code, j, Len(code))
      <3>1. NotTaken(code) = SubSeq(code, end + 1, Len(code))
        BY DEF NotTaken, end
      <3>. QED  BY <3>1, <2>7, <1>2, <2>1
    <2>9. /\ Len(code) = Len(c) - 1 /\ code \in Seq(Calls)
          /\ \A i \in 1 .. Len(c) - 1 : code[i] = c[i + 1]
      BY <1>3 DEF code
    <2>10. \A i \in j .. Len(code) : code[i] \in Calls
      <3>1. \A i \in j .. Len(code) : i \in 1 .. Len(code)
        BY <1>2, <2>1, <2>9
      <3>. QED  BY <3>1, <2>9, ElementOfSeq
    <2>11. /\ NotTaken(code) \in Seq(Calls) /\ Len(NotTaken(code)) = Len(c) - j
           /\ \A i \in 1 .. Len(c) - j : NotTaken(code)[i] = c[i + j]
      <3>1. j \in Int /\ Len(code) \in Int
        BY <1>2, <2>1, <2>9
      <3>2. /\ NotTaken(code) \in Seq(Calls)
            /\ Len(NotTaken(code)) = IF j <= Len(code) THEN Len(code) - j + 1 ELSE 0
            /\ \A i \in 1 .. Len(code) - j + 1 : NotTaken(code)[i] = code[j + i - 1]
        BY <2>8, <2>10, <3>1, SubSeqProperties
      <3>3. Len(NotTaken(code)) = Len(c) - j
        BY <1>2, <2>1, <2>9, <3>2
      <3>4. \A i \in 1 .. Len(c) - j : /\ i \in 1 .. Len(code) - j + 1
                                       /\ j + i - 1 \in 1 .. Len(c) - 1
                                       /\ (j + i - 1) + 1 = i + j
        BY <1>2, <2>1, <2>9
      <3>. QED  BY <2>9, <3>2, <3>3, <3>4
    <2>12. Brings(NotTaken(code), D[j + 1], S[j + 1], D[Len(c) + 1], S[Len(c) + 1])
      <3>1. j \in 0 .. Len(c)
        BY <1>2, <2>1
      <3>. QED  BY <1>1, <2>11, <3>1, Remains
    <2>. QED  BY <1>1, <2>1, <2>12 DEF code, Fits
  <1>8. Head(c).op = "end" => Tail(c) = <<>>
    <2>1. Head(c).op = "end" => Len(Tail(c)) = 0
      BY <1>2, <1>3, <1>6 DEF StepFits
    <2>. QED  BY <2>1, <1>3, EmptySeq
  <1>9. D[1 + 1] = D[2] /\ S[1 + 1] = S[2]
    OBVIOUS
  <1>. QED  BY <1>1, <1>2, <1>3, <1>4, <1>5, <1>6, <1>7, <1>8, <1>9 DEF StepFits, IsHanded

\* What follows a call that nobody makes with a depth.
LEMMA Plainly ==
    ASSUME NEW c, NEW d, NEW s, Fits(c, d, s), c # <<>>,
           Head(c).op \in {"yield", "unpark", "create"}, NEW r, r = Tail(c)
    PROVE  s = -1 /\ d = 0 /\ Fits(r, 0, -1)
  <1>1. Head(c).op \in {"yield", "unpark", "create"} => s = -1 /\ d = 0 /\ Fits(Tail(c), 0, -1)
    BY Onward, Zenon
  <1>. QED  BY <1>1

\* What the first call asks for.
LEMMA Asked ==
    ASSUME NEW c, NEW d, NEW s, Fits(c, d, s), c # <<>>
    PROVE  /\ c \in Seq(Calls) /\ Head(c) \in Calls /\ Tail(c) \in Seq(Calls)
           /\ d \in Nat /\ s \in Nat \cup {-1}
           /\ Head(c).op = "sched" => s = -1 \/ d > 0
           /\ Head(c).op \in {"yield", "unpark", "create", "end"} => s = -1 /\ d = 0
           /\ Head(c).op = "end" => Tail(c) = <<>>
           /\ Head(c).op = "park" => s = -1
           /\ Head(c).op = "enable" => d > 0
           /\ Head(c).op = "switch_back" => s # -1 /\ d = 0
  <1>1. PICK D, S : Leads(c, D, S) /\ D[1] = d /\ S[1] = s
    BY DEF Fits, Brings
  <1>2. c \in Seq(Calls) /\ Len(c) \in Nat \ {0}
    BY <1>1, EmptySeq DEF Leads
  <1>3. /\ Head(c) = c[1] /\ Head(c) \in Calls /\ Tail(c) \in Seq(Calls)
        /\ Len(Tail(c)) = Len(c) - 1
    BY <1>2, HeadTailProperties
  <1>4. d \in Nat /\ s \in Nat \cup {-1}
    <2>1. 1 \in 1 .. Len(c) + 1
      BY <1>2
    <2>. QED  BY <1>1, <2>1 DEF Leads
  <1>5. StepFits(c, D, S, 1)
    BY <1>1, <1>2 DEF Leads
  <1>6. Head(c).op = "end" => Tail(c) = <<>>
    <2>1. Head(c).op = "end" => Len(Tail(c)) = 0
      BY <1>2, <1>3, <1>5 DEF StepFits
    <2>. QED  BY <2>1, <1>3, EmptySeq
  <1>. QED  BY <1>1, <1>2, <1>3, <1>4, <1>5, <1>6 DEF StepFits

\* When nothing is left, nothing is disabled or put aside.
LEMMA FitsFacts ==
    ASSUME NEW c, NEW d, NEW s, Fits(c, d, s)
    PROVE  /\ c \in Seq(Calls) /\ d \in Nat /\ s \in Nat \cup {-1}
           /\ c = <<>> => d = 0 /\ s = -1
  <1>1. PICK D, S : /\ Leads(c, D, S) /\ D[1] = d /\ S[1] = s
                    /\ D[Len(c) + 1] = 0 /\ S[Len(c) + 1] = -1
    BY DEF Fits, Brings
  <1>2. Len(c) \in Nat /\ 1 \in 1 .. Len(c) + 1
    BY <1>1 DEF Leads
  <1>3. c = <<>> => Len(c) = 0
    BY EmptySeq
  <1>. QED  BY <1>1, <1>2, <1>3 DEF Leads

-----------------------------------------------------------------------------
(* The operations of the primitives are such *)

\* One call.
LEMMA Single ==
    ASSUME NEW call \in Calls, NEW d \in Nat, NEW s \in Nat \cup {-1},
           NEW e \in Nat, NEW r \in Nat \cup {-1},
           NEW D, D = [i \in 1 .. 2 |-> IF i = 1 THEN d ELSE e],
           NEW S, S = [i \in 1 .. 2 |-> IF i = 1 THEN s ELSE r],
           StepFits(<<call>>, D, S, 1)
    PROVE  Brings(<<call>>, d, s, e, r)
  <1>1. <<call>> \in Seq(Calls) /\ Len(<<call>>) = 1
    OBVIOUS
  <1>2. D \in [1 .. Len(<<call>>) + 1 -> Nat] /\ S \in [1 .. Len(<<call>>) + 1 -> Nat \cup {-1}]
    BY <1>1
  <1>3. \A i \in 1 .. Len(<<call>>) : i = 1
    BY <1>1
  <1>4. Leads(<<call>>, D, S)
    BY <1>1, <1>2, <1>3 DEF Leads
  <1>5. D[1] = d /\ S[1] = s /\ D[Len(<<call>>) + 1] = e /\ S[Len(<<call>>) + 1] = r
    BY <1>1
  <1>. QED  BY <1>4, <1>5 DEF Brings

\* A step, or the processor is lent and returned, or a wait for nothing that is
\* handed over.
LEMMA OneCall ==
    /\ \A d \in Nat, s \in Nat \cup {-1} :
        s = -1 \/ d > 0 => Brings(<<Sched>>, d, s, d, s)
    /\ \A call \in {Yield, Unpark, Create, End} : Brings(<<call>>, 0, -1, 0, -1)
    /\ \A timed, spurious \in BOOLEAN, d \in Nat :
        Brings(<<Park(timed, spurious, FALSE)>>, d, -1, d, -1)
    /\ \A d \in Nat, s \in Nat \cup {-1} :
        Brings(<<Disable>>, d, s, d + 1, s) /\ Brings(<<Enable>>, d + 1, s, d, s)
  <1>1. \A call : <<call>>[1] = call /\ Len(<<call>>) = 1
    OBVIOUS
  <1>2. ASSUME NEW d \in Nat, NEW s \in Nat \cup {-1}, s = -1 \/ d > 0
        PROVE  Brings(<<Sched>>, d, s, d, s)
    <2> DEFINE D == [i \in 1 .. 2 |-> IF i = 1 THEN d ELSE d]
               S == [i \in 1 .. 2 |-> IF i = 1 THEN s ELSE s]
    <2>1. D[1] = d /\ D[1 + 1] = d /\ S[1] = s /\ S[1 + 1] = s
      OBVIOUS
    <2>. HIDE DEF D, S
    <2>2. StepFits(<<Sched>>, D, S, 1)
      BY <1>1, <1>2, <2>1, CallKinds DEF StepFits, IsHanded
    <2>. QED  BY <2>2, Single, CallKinds DEF D, S
  <1>3. ASSUME NEW call \in {Yield, Unpark, Create, End}
        PROVE  Brings(<<call>>, 0, -1, 0, -1)
    <2> DEFINE D == [i \in 1 .. 2 |-> IF i = 1 THEN 0 ELSE 0]
               S == [i \in 1 .. 2 |-> IF i = 1 THEN -1 ELSE -1]
    <2>1. D[1] = 0 /\ D[1 + 1] = 0 /\ S[1] = -1 /\ S[1 + 1] = -1
      OBVIOUS
    <2>. HIDE DEF D, S
    <2>2. call \in Calls /\ call.op \in {"yield", "unpark", "create", "end"}
      BY CallKinds
    <2>3. StepFits(<<call>>, D, S, 1)
      BY <1>1, <2>1, <2>2 DEF StepFits, IsHanded
    <2>. QED  BY <2>2, <2>3, Single DEF D, S
  <1>4. ASSUME NEW timed \in BOOLEAN, NEW spurious \in BOOLEAN, NEW d \in Nat
        PROVE  Brings(<<Park(timed, spurious, FALSE)>>, d, -1, d, -1)
    <2> DEFINE D == [i \in 1 .. 2 |-> IF i = 1 THEN d ELSE d]
               S == [i \in 1 .. 2 |-> IF i = 1 THEN -1 ELSE -1]
    <2>1. D[1] = d /\ D[1 + 1] = d /\ S[1] = -1 /\ S[1 + 1] = -1
      OBVIOUS
    <2>. HIDE DEF D, S
    <2>2. PICK call : call = Park(timed, spurious, FALSE)
      OBVIOUS
    <2>3. call \in Calls /\ call.op = "park" /\ call.hand = FALSE
      BY <2>2, CallKinds
    <2>4. StepFits(<<call>>, D, S, 1)
      BY <1>1, <2>1, <2>3 DEF StepFits, IsHanded
    <2>. QED  BY <2>2, <2>3, <2>4, Single DEF D, S
  <1>5. ASSUME NEW d \in Nat, NEW s \in Nat \cup {-1}
        PROVE  Brings(<<Disable>>, d, s, d + 1, s)
    <2> DEFINE D == [i \in 1 .. 2 |-> IF i = 1 THEN d ELSE d + 1]
               S == [i \in 1 .. 2 |-> IF i = 1 THEN s ELSE s]
    <2>1. D[1] = d /\ D[1 + 1] = d + 1 /\ S[1] = s /\ S[1 + 1] = s /\ d + 1 \in Nat
      OBVIOUS
    <2>. HIDE DEF D, S
    <2>2. StepFits(<<Disable>>, D, S, 1)
      BY <1>1, <2>1, CallKinds DEF StepFits, IsHanded
    <2>. QED  BY <2>1, <2>2, Single, CallKinds DEF D, S
  <1>6. ASSUME NEW d \in Nat, NEW s \in Nat \cup {-1}
        PROVE  Brings(<<Enable>>, d + 1, s, d, s)
    <2> DEFINE D == [i \in 1 .. 2 |-> IF i = 1 THEN d + 1 ELSE d]
               S == [i \in 1 .. 2 |-> IF i = 1 THEN s ELSE s]
    <2>1. /\ D[1] = d + 1 /\ D[1 + 1] = d /\ S[1] = s /\ S[1 + 1] = s
          /\ d + 1 \in Nat /\ d + 1 > 0 /\ (d + 1) - 1 = d
      OBVIOUS
    <2>. HIDE DEF D, S
    <2>2. StepFits(<<Enable>>, D, S, 1)
      BY <1>1, <2>1, CallKinds DEF StepFits, IsHanded
    <2>. QED  BY <2>1, <2>2, Single, CallKinds DEF D, S
  <1>. QED  BY <1>2, <1>3, <1>4, <1>5, <1>6

\* Calls after others; End is the last.
NoEnd(c) == \A i \in 1 .. Len(c) : c[i].op # "end"

\* Calls that end with what others begin with.
LEMMA Joined ==
    ASSUME NEW a, NEW b, NEW d, NEW s, NEW e, NEW r, NEW x, NEW y,
           Brings(a, d, s, e, r), NoEnd(a), Brings(b, e, r, x, y)
    PROVE  Brings(a \o b, d, s, x, y)
  <1>1. PICK D, S : /\ Leads(a, D, S) /\ D[1] = d /\ S[1] = s
                    /\ D[Len(a) + 1] = e /\ S[Len(a) + 1] = r
    BY DEF Brings
  <1>2. PICK E, T : /\ Leads(b, E, T) /\ E[1] = e /\ T[1] = r
                    /\ E[Len(b) + 1] = x /\ T[Len(b) + 1] = y
    BY DEF Brings
  <1> DEFINE m == Len(a)
             n == Len(b)
             c == a \o b
             F == [i \in 1 .. m + n + 1 |-> IF i <= m THEN D[i] ELSE E[i - m]]
             U == [i \in 1 .. m + n + 1 |-> IF i <= m THEN S[i] ELSE T[i - m]]
  <1>3. m \in Nat /\ n \in Nat /\ a \in Seq(Calls) /\ b \in Seq(Calls)
    BY <1>1, <1>2 DEF Leads
  <1>4. /\ c \in Seq(Calls) /\ Len(c) = m + n
        /\ \A i \in 1 .. m + n : c[i] = IF i <= m THEN a[i] ELSE b[i - m]
    BY <1>3, ConcatProperties
  <1>5. /\ \A i \in 1 .. m : i \in 1 .. m + n /\ c[i] = a[i]
        /\ \A i \in m + 1 .. m + n : /\ i \in 1 .. m + n /\ i - m \in 1 .. n
                                     /\ c[i] = b[i - m]
    BY <1>3, <1>4
  <1>6. F \in [1 .. m + n + 1 -> Nat] /\ U \in [1 .. m + n + 1 -> Nat \cup {-1}]
    <2>1. ASSUME NEW i \in 1 .. m + n + 1
          PROVE  (IF i <= m THEN D[i] ELSE E[i - m]) \in Nat
                 /\ (IF i <= m THEN S[i] ELSE T[i - m]) \in Nat \cup {-1}
      <3>1. i <= m => i \in 1 .. m + 1
        BY <1>3
      <3>2. ~(i <= m) => i - m \in 1 .. n + 1
        BY <1>3
      <3>. QED  BY <3>1, <3>2, <1>1, <1>2 DEF Leads
    <2>. QED  BY <2>1
  <1>7. /\ \A i \in 1 .. m + 1 : F[i] = D[i] /\ U[i] = S[i]
        /\ \A i \in m + 1 .. m + n + 1 : F[i] = E[i - m] /\ U[i] = T[i - m]
    <2>1. ASSUME NEW i \in 1 .. m + 1 PROVE F[i] = D[i] /\ U[i] = S[i]
      <3>1. i \in 1 .. m + n + 1
        BY <1>3
      <3>2. CASE i <= m
        BY <3>1, <3>2
      <3>3. CASE ~(i <= m)
        <4>1. i = m + 1 /\ i - m = 1
          BY <3>3, <1>3
        <4>. QED  BY <3>1, <3>3, <4>1, <1>1, <1>2
      <3>. QED  BY <3>2, <3>3
    <2>2. ASSUME NEW i \in m + 1 .. m + n + 1 PROVE F[i] = E[i - m] /\ U[i] = T[i - m]
      <3>1. i \in 1 .. m + n + 1 /\ ~(i <= m)
        BY <1>3
      <3>. QED  BY <3>1
    <2>. QED  BY <2>1, <2>2
  <1>. HIDE DEF F, U, c
  <1>8. ASSUME NEW i \in 1 .. m PROVE StepFits(c, F, U, i)
    <2>1. StepFits(a, D, S, i) /\ a[i].op # "end" /\ c[i] = a[i]
      BY <1>1, <1>5 DEF Leads, NoEnd
    <2>2. F[i] = D[i] /\ U[i] = S[i] /\ F[i + 1] = D[i + 1] /\ U[i + 1] = S[i + 1]
      <3>1. i \in 1 .. m + 1 /\ i + 1 \in 1 .. m + 1
        BY <1>3
      <3>. QED  BY <3>1, <1>7
    <2>3. ASSUME NEW j \in i + 1 .. m, GivesBack(a, i, j)
          PROVE  j \in i + 1 .. Len(c) /\ GivesBack(c, i, j) /\ F[j + 1] = D[j + 1] /\ U[j + 1] = S[j + 1]
      <3>1. j \in i + 1 .. Len(c) /\ j \in 1 .. m /\ j + 1 \in 1 .. m + 1
        BY <1>3, <1>4
      <3>2. \A k \in i + 1 .. j - 1 : k \in 1 .. m
        BY <1>3, <3>1
      <3>3. GivesBack(c, i, j)
        <4>1. c[j] = a[j] /\ \A k \in i + 1 .. j - 1 : c[k] = a[k]
          BY <1>5, <3>1, <3>2
        <4>. QED  BY <2>3, <4>1 DEF GivesBack
      <3>. QED  BY <1>7, <3>1, <3>3
    <2>. QED  BY <2>1, <2>2, <2>3 DEF StepFits
  <1>9. ASSUME NEW i \in m + 1 .. m + n PROVE StepFits(c, F, U, i)
    <2>1. StepFits(b, E, T, i - m) /\ c[i] = b[i - m] /\ i - m \in 1 .. n
      BY <1>2, <1>5 DEF Leads
    <2>2. /\ F[i] = E[i - m] /\ U[i] = T[i - m]
          /\ F[i + 1] = E[(i - m) + 1] /\ U[i + 1] = T[(i - m) + 1]
      <3>1. i \in m + 1 .. m + n + 1 /\ i + 1 \in m + 1 .. m + n + 1 /\ (i + 1) - m = (i - m) + 1
        BY <1>3
      <3>. QED  BY <3>1, <1>7
    <2>3. ASSUME NEW j \in (i - m) + 1 .. n, GivesBack(b, i - m, j)
          PROVE  /\ j + m \in i + 1 .. Len(c) /\ GivesBack(c, i, j + m)
                 /\ F[(j + m) + 1] = E[j + 1] /\ U[(j + m) + 1] = T[j + 1]
      <3>1. /\ j + m \in i + 1 .. Len(c) /\ j + m \in m + 1 .. m + n /\ (j + m) - m = j
            /\ (j + m) + 1 \in m + 1 .. m + n + 1 /\ ((j + m) + 1) - m = j + 1
        <4>1. j \in 1 .. n /\ j >= (i - m) + 1 /\ m \in Nat /\ n \in Nat /\ i \in Nat
          BY <1>3, <2>1
        <4>2. j + m >= i + 1 /\ j + m <= m + n /\ j + m >= m + 1 /\ j + m \in Nat
          BY <4>1
        <4>. QED  BY <1>4, <4>1, <4>2
      <3>2. \A k \in i + 1 .. (j + m) - 1 : k \in m + 1 .. m + n /\ k - m \in (i - m) + 1 .. j - 1
        BY <1>3, <2>1
      <3>3. GivesBack(c, i, j + m)
        <4>1. c[j + m] = b[j] /\ \A k \in i + 1 .. (j + m) - 1 : c[k] = b[k - m]
          BY <1>5, <3>1, <3>2
        <4>. QED  BY <2>3, <3>2, <4>1 DEF GivesBack
      <3>. QED  BY <1>7, <3>1, <3>3
    <2>4. i - m = n => i = Len(c)
      BY <1>3, <1>4
    <2>. QED  BY <2>1, <2>2, <2>3, <2>4 DEF StepFits
  <1>10. Leads(c, F, U)
    <2>1. \A i \in 1 .. m + n : i \in 1 .. m \/ i \in m + 1 .. m + n
      BY <1>3
    <2>. QED  BY <1>3, <1>4, <1>6, <1>8, <1>9, <2>1 DEF Leads
  <1>11. /\ F[1] = d /\ U[1] = s
         /\ F[Len(c) + 1] = x /\ U[Len(c) + 1] = y
    <2>1. 1 \in 1 .. m + 1 /\ m + n + 1 \in m + 1 .. m + n + 1 /\ (m + n + 1) - m = n + 1
      BY <1>3
    <2>. QED  BY <2>1, <1>1, <1>2, <1>4, <1>7
  <1>. QED  BY <1>10, <1>11 DEF Brings, c

\* The same call over and over.
LEMMA Repeated ==
    ASSUME NEW n \in Nat, NEW call \in Calls, call.op # "end",
           NEW d \in Nat, NEW s \in Nat \cup {-1}, Brings(<<call>>, d, s, d, s), ~IsHanded(call)
    PROVE  Brings(Times(n, call), d, s, d, s) /\ NoEnd(Times(n, call))
  <1> DEFINE c == [i \in 1 .. n |-> call]
             D == [i \in 1 .. n + 1 |-> d]
             S == [i \in 1 .. n + 1 |-> s]
  <1>1. c \in Seq(Calls) /\ Len(c) = n /\ \A i \in 1 .. n : c[i] = call
    OBVIOUS
  <1>2. /\ D \in [1 .. n + 1 -> Nat] /\ S \in [1 .. n + 1 -> Nat \cup {-1}]
        /\ \A i \in 1 .. n + 1 : D[i] = d /\ S[i] = s
    OBVIOUS
  <1>3. Times(n, call) = c
    BY DEF Times
  <1>. HIDE DEF c, D, S
  <1>4. PICK E, T : Leads(<<call>>, E, T) /\ E[1] = d /\ T[1] = s /\ E[2] = d /\ T[2] = s
    <2>1. Len(<<call>>) + 1 = 2
      OBVIOUS
    <2>. QED  BY <2>1 DEF Brings
  <1>5. StepFits(<<call>>, E, T, 1) /\ <<call>>[1] = call
    BY <1>4 DEF Leads
  <1>6. ASSUME NEW i \in 1 .. n PROVE StepFits(c, D, S, i)
    <2>1. c[i] = call /\ D[i] = d /\ S[i] = s /\ D[i + 1] = d /\ S[i + 1] = s
      BY <1>1, <1>2
    <2>2. E[1 + 1] = d /\ T[1 + 1] = s
      BY <1>4
    <2>. QED  BY <1>4, <1>5, <2>1, <2>2 DEF StepFits
  <1>7. Leads(c, D, S)
    BY <1>1, <1>2, <1>6 DEF Leads
  <1>8. D[1] = d /\ S[1] = s /\ D[Len(c) + 1] = d /\ S[Len(c) + 1] = s
    BY <1>1, <1>2
  <1>. QED  BY <1>1, <1>3, <1>7, <1>8 DEF Brings, NoEnd

\* A wait for what is handed over with the processor, and what is done with it.
LEMMA Handed ==
    ASSUME NEW m, NEW d \in Nat, Brings(m, 0, d, 0, d), NoEnd(m),
           \A i \in 1 .. Len(m) : m[i] # SwitchBack,
           NEW timed \in BOOLEAN, NEW spurious \in BOOLEAN
    PROVE  /\ Brings(<<Park(timed, spurious, TRUE)>> \o (m \o <<SwitchBack>>), d, -1, d, -1)
           /\ NoEnd(<<Park(timed, spurious, TRUE)>> \o (m \o <<SwitchBack>>))
  <1>1. PICK call : call = Park(timed, spurious, TRUE)
    OBVIOUS
  <1>2. call \in Calls /\ call.op = "park" /\ call.hand = TRUE
    BY <1>1, CallKinds
  <1>3. PICK E, T : /\ Leads(m, E, T) /\ E[1] = 0 /\ T[1] = d
                    /\ E[Len(m) + 1] = 0 /\ T[Len(m) + 1] = d
    BY DEF Brings
  <1> DEFINE n == Len(m)
             b == m \o <<SwitchBack>>
             c == <<call>> \o b
             F == [i \in 1 .. n + 3 |-> IF i = 1 \/ i = n + 3 THEN d ELSE E[i - 1]]
             U == [i \in 1 .. n + 3 |-> IF i = 1 \/ i = n + 3 THEN -1 ELSE T[i - 1]]
  <1>4. n \in Nat /\ m \in Seq(Calls)
    BY <1>3 DEF Leads
  <1>5. /\ <<SwitchBack>> \in Seq(Calls) /\ Len(<<SwitchBack>>) = 1 /\ <<SwitchBack>>[1] = SwitchBack
        /\ <<call>> \in Seq(Calls) /\ Len(<<call>>) = 1 /\ <<call>>[1] = call
    BY <1>2, CallKinds
  <1>6. /\ b \in Seq(Calls) /\ Len(b) = n + 1
        /\ \A i \in 1 .. n + 1 : b[i] = IF i <= n THEN m[i] ELSE SwitchBack
    <2>1. /\ b \in Seq(Calls) /\ Len(b) = n + 1
          /\ \A i \in 1 .. n + 1 : b[i] = IF i <= n THEN m[i] ELSE <<SwitchBack>>[i - n]
      BY <1>4, <1>5, ConcatProperties
    <2>2. \A i \in 1 .. n + 1 : ~(i <= n) => i - n = 1
      BY <1>4
    <2>. QED  BY <2>1, <2>2, <1>5
  <1>. HIDE DEF b
  <1>7. /\ c \in Seq(Calls) /\ Len(c) = n + 2 /\ c[1] = call /\ c[n + 2] = SwitchBack
        /\ \A i \in 2 .. n + 1 : i - 1 \in 1 .. n /\ c[i] = m[i - 1]
    <2>1. /\ c \in Seq(Calls) /\ Len(c) = n + 2
          /\ \A i \in 1 .. n + 2 : c[i] = IF i <= 1 THEN <<call>>[i] ELSE b[i - 1]
      BY <1>4, <1>5, <1>6, ConcatProperties
    <2>2. \A i \in 2 .. n + 1 : /\ i - 1 \in 1 .. n /\ i - 1 \in 1 .. n + 1 /\ i - 1 <= n
                                /\ i \in 1 .. n + 2 /\ ~(i <= 1)
      BY <1>4
    <2>3. /\ 1 \in 1 .. n + 2 /\ n + 2 \in 1 .. n + 2 /\ ~(n + 2 <= 1)
          /\ (n + 2) - 1 = n + 1 /\ n + 1 \in 1 .. n + 1 /\ ~(n + 1 <= n)
      BY <1>4
    <2>. QED  BY <2>1, <2>2, <2>3, <1>5, <1>6
  <1>8. F \in [1 .. n + 3 -> Nat] /\ U \in [1 .. n + 3 -> Nat \cup {-1}]
    <2>1. ASSUME NEW i \in 1 .. n + 3, ~(i = 1 \/ i = n + 3)
          PROVE  E[i - 1] \in Nat /\ T[i - 1] \in Nat \cup {-1}
      <3>1. i - 1 \in 1 .. n + 1
        BY <1>4, <2>1
      <3>. QED  BY <3>1, <1>3 DEF Leads
    <2>. QED  BY <2>1
  <1>9. /\ F[1] = d /\ U[1] = -1 /\ F[n + 3] = d /\ U[n + 3] = -1
        /\ \A i \in 2 .. n + 2 : F[i] = E[i - 1] /\ U[i] = T[i - 1]
    BY <1>4
  <1>. HIDE DEF F, U, c
  <1>10. StepFits(c, F, U, 1)
    <2>1. F[1 + 1] = 0 /\ U[1 + 1] = d
      <3>1. 1 + 1 \in 2 .. n + 2 /\ (1 + 1) - 1 = 1
        BY <1>4
      <3>. QED  BY <3>1, <1>3, <1>9
    <2>2. GivesBack(c, 1, n + 2)
      <3>1. \A k \in 1 + 1 .. (n + 2) - 1 : k \in 2 .. n + 1
        BY <1>4
      <3>. QED  BY <3>1, <1>7 DEF GivesBack
    <2>3. n + 2 \in 1 + 1 .. Len(c) /\ (n + 2) + 1 = n + 3
      BY <1>4, <1>7
    <2>. QED  BY <1>2, <1>7, <1>9, <2>1, <2>2, <2>3 DEF StepFits, IsHanded
  <1>11. StepFits(c, F, U, n + 2)
    <2>1. F[n + 2] = 0 /\ U[n + 2] = d
      <3>1. n + 2 \in 2 .. n + 2 /\ (n + 2) - 1 = n + 1
        BY <1>4
      <3>. QED  BY <3>1, <1>3, <1>9
    <2>2. (n + 2) + 1 = n + 3 /\ d # -1
      BY <1>4
    <2>. QED  BY <2>1, <2>2, <1>7, <1>9, CallKinds DEF StepFits, IsHanded
  <1>12. ASSUME NEW i \in 2 .. n + 1 PROVE StepFits(c, F, U, i)
    <2>1. /\ StepFits(m, E, T, i - 1) /\ c[i] = m[i - 1] /\ i - 1 \in 1 .. n
          /\ m[i - 1].op # "end"
      BY <1>3, <1>7 DEF Leads, NoEnd
    <2>2. /\ F[i] = E[i - 1] /\ U[i] = T[i - 1]
          /\ F[i + 1] = E[(i - 1) + 1] /\ U[i + 1] = T[(i - 1) + 1]
      <3>1. i \in 2 .. n + 2 /\ i + 1 \in 2 .. n + 2 /\ (i + 1) - 1 = (i - 1) + 1
        BY <1>4
      <3>. QED  BY <3>1, <1>9
    <2>3. ASSUME NEW j \in (i - 1) + 1 .. n, GivesBack(m, i - 1, j) PROVE FALSE
      <3>1. j \in 1 .. n
        BY <1>4, <2>1
      <3>. QED  BY <3>1, <2>3 DEF GivesBack
    <2>. QED  BY <2>1, <2>2, <2>3 DEF StepFits
  <1>13. Leads(c, F, U)
    <2>1. \A i \in 1 .. n + 2 : i = 1 \/ i = n + 2 \/ i \in 2 .. n + 1
      BY <1>4
    <2>2. Len(c) + 1 = n + 3 /\ Len(c) \in Nat
      BY <1>4, <1>7
    <2>. QED  BY <2>1, <2>2, <1>7, <1>8, <1>10, <1>11, <1>12 DEF Leads
  <1>14. Brings(c, d, -1, d, -1)
    <2>1. Len(c) + 1 = n + 3
      BY <1>4, <1>7
    <2>. QED  BY <2>1, <1>9, <1>13 DEF Brings
  <1>15. NoEnd(c)
    <2>1. \A i \in 1 .. n + 2 : i = 1 \/ i = n + 2 \/ i \in 2 .. n + 1
      BY <1>4
    <2>2. c[1].op # "end" /\ c[n + 2].op # "end"
      BY <1>2, <1>7, CallKinds
    <2>3. \A i \in 2 .. n + 1 : c[i].op # "end"
      BY <1>7 DEF NoEnd
    <2>. QED  BY <2>1, <2>2, <2>3, <1>7 DEF NoEnd
  <1>. QED  BY <1>1, <1>14, <1>15 DEF c, b

\* No call at all.
LEMMA Nothing ==
    \A d \in Nat, s \in Nat \cup {-1} : Brings(<<>>, d, s, d, s) /\ NoEnd(<<>>)
  <1>. SUFFICES ASSUME NEW d \in Nat, NEW s \in Nat \cup {-1}
                PROVE  Brings(<<>>, d, s, d, s) /\ NoEnd(<<>>)
    OBVIOUS
  <1> DEFINE D == [i \in 1 .. 1 |-> d]
             S == [i \in 1 .. 1 |-> s]
  <1>1. <<>> \in Seq(Calls) /\ Len(<<>>) = 0
    BY EmptySeq
  <1>2. D \in [1 .. Len(<<>>) + 1 -> Nat] /\ S \in [1 .. Len(<<>>) + 1 -> Nat \cup {-1}]
        /\ \A i \in 1 .. Len(<<>>) : FALSE
    BY <1>1
  <1>3. Leads(<<>>, D, S)
    BY <1>1, <1>2 DEF Leads
  <1>4. D[1] = d /\ S[1] = s /\ D[Len(<<>>) + 1] = d /\ S[Len(<<>>) + 1] = s
    BY <1>1
  <1>. QED  BY <1>2, <1>3, <1>4 DEF Brings, NoEnd

\* What holds no End, in one call and in two parts.
LEMMA NoEnds ==
    /\ \A call \in Calls : call.op # "end" => NoEnd(<<call>>)
    /\ \A a, b \in Seq(Calls) : NoEnd(a) /\ NoEnd(b) => NoEnd(a \o b)
  <1>1. ASSUME NEW call \in Calls, call.op # "end" PROVE NoEnd(<<call>>)
    <2>1. Len(<<call>>) = 1 /\ <<call>>[1] = call /\ \A i \in 1 .. 1 : i = 1
      OBVIOUS
    <2>. QED  BY <2>1, <1>1 DEF NoEnd
  <1>2. ASSUME NEW a \in Seq(Calls), NEW b \in Seq(Calls), NoEnd(a), NoEnd(b)
        PROVE  NoEnd(a \o b)
    <2>1. Len(a) \in Nat /\ Len(b) \in Nat
      BY LenProperties
    <2>2. /\ Len(a \o b) = Len(a) + Len(b)
          /\ \A i \in 1 .. Len(a) + Len(b) :
                (a \o b)[i] = IF i <= Len(a) THEN a[i] ELSE b[i - Len(a)]
      BY ConcatProperties
    <2>3. \A i \in 1 .. Len(a) + Len(b) : i \in 1 .. Len(a) \/ (~(i <= Len(a)) /\ i - Len(a) \in 1 .. Len(b))
      BY <2>1
    <2>. QED  BY <2>1, <2>2, <2>3, <1>2 DEF NoEnd
  <1>. QED  BY <1>1, <1>2

\* Tuples of calls are joined of shorter ones.
LEMMA Tuples ==
    \A a, b \in Calls : <<a, b>> \in Seq(Calls) /\ <<a>> \in Seq(Calls)
  OBVIOUS

\* Two calls.
LEMMA Pairs ==
    ASSUME NEW a \in Calls, NEW b \in Calls
    PROVE  <<a, b>> = <<a>> \o <<b>>
  <1>1. <<a>> \in Seq(Calls) /\ <<b>> \in Seq(Calls) /\ <<a, b>> \in Seq(Calls)
    BY Tuples
  <1>2. /\ <<a>> \o <<b>> \in Seq(Calls) /\ Len(<<a>> \o <<b>>) = Len(<<a>>) + Len(<<b>>)
        /\ \A i \in 1 .. Len(<<a>>) + Len(<<b>>) :
              (<<a>> \o <<b>>)[i] = IF i <= Len(<<a>>) THEN <<a>>[i] ELSE <<b>>[i - Len(<<a>>)]
    BY <1>1, ConcatProperties
  <1>3. /\ Len(<<a>>) = 1 /\ Len(<<b>>) = 1 /\ <<a>>[1] = a /\ <<b>>[1] = b
        /\ Len(<<a, b>>) = 2 /\ <<a, b>>[1] = a /\ <<a, b>>[2] = b
    OBVIOUS
  <1>4. (<<a>> \o <<b>>)[1] = a /\ (<<a>> \o <<b>>)[2] = b /\ Len(<<a>> \o <<b>>) = 2
    BY <1>2, <1>3
  <1>5. \A i \in 1 .. 2 : i = 1 \/ i = 2
    OBVIOUS
  <1>6. PICK p, q : p = <<a, b>> /\ q = <<a>> \o <<b>>
    OBVIOUS
  <1>7. /\ p \in Seq(Calls) /\ q \in Seq(Calls) /\ Len(p) = Len(q)
        /\ \A i \in 1 .. Len(p) : p[i] = q[i]
    BY <1>1, <1>2, <1>3, <1>4, <1>5, <1>6
  <1>8. p = q
    BY <1>7, SeqEqual
  <1>. QED  BY <1>6, <1>8

\* Four calls.
LEMMA Fours ==
    ASSUME NEW a \in Calls, NEW b \in Calls, NEW c \in Calls, NEW d \in Calls,
           NEW q, q = <<a, b, c, d>>
    PROVE  q = <<a, b>> \o <<c, d>>
  <1>1. <<a, b>> \in Seq(Calls) /\ <<c, d>> \in Seq(Calls) /\ <<a, b, c, d>> \in Seq(Calls)
    OBVIOUS
  <1>2. <<a, b>> \o <<c, d>> \in Seq(Calls)
    BY <1>1, ConcatProperties
  <1>. QED  BY <1>1, <1>2, SeqEqual, ConcatProperties

\* Six calls.
LEMMA Sixes ==
    ASSUME NEW a \in Calls, NEW b \in Calls, NEW c \in Calls, NEW d \in Calls,
           NEW e \in Calls, NEW f \in Calls, NEW q, q = <<a, b, c, d, e, f>>
    PROVE  q = <<a, b, c, d>> \o <<e, f>>
  <1>1. /\ <<a, b, c, d>> \in Seq(Calls) /\ <<e, f>> \in Seq(Calls)
        /\ <<a, b, c, d, e, f>> \in Seq(Calls)
    OBVIOUS
  <1>2. <<a, b, c, d>> \o <<e, f>> \in Seq(Calls)
    BY <1>1, ConcatProperties
  <1>. QED  BY <1>1, <1>2, SeqEqual, ConcatProperties

\* Seven calls.
LEMMA Sevens ==
    ASSUME NEW a \in Calls, NEW b \in Calls, NEW c \in Calls, NEW d \in Calls,
           NEW e \in Calls, NEW f \in Calls, NEW g \in Calls,
           NEW q, q = <<a, b, c, d, e, f, g>>
    PROVE  q = <<a, b, c, d>> \o (<<e, f>> \o <<g>>)
  <1>1. /\ <<a, b, c, d>> \in Seq(Calls) /\ <<e, f>> \in Seq(Calls) /\ <<g>> \in Seq(Calls)
        /\ <<a, b, c, d, e, f, g>> \in Seq(Calls)
    OBVIOUS
  <1>2. <<e, f>> \o <<g>> \in Seq(Calls)
    BY <1>1, ConcatProperties
  <1>3. <<a, b, c, d>> \o (<<e, f>> \o <<g>>) \in Seq(Calls)
    BY <1>1, <1>2, ConcatProperties
  <1>. QED  BY <1>1, <1>2, <1>3, SeqEqual, ConcatProperties

\* Three calls: a step, a wait, and nothing before the processor is given back.
LEMMA Threes ==
    ASSUME NEW a \in Calls, NEW b \in Calls, NEW c \in Calls, NEW w, w = <<a, b, c>>
    PROVE  w = <<a>> \o (<<b>> \o (<<>> \o <<c>>))
  <1>1. /\ <<a>> \in Seq(Calls) /\ <<b>> \in Seq(Calls) /\ <<c>> \in Seq(Calls)
        /\ <<a, b, c>> \in Seq(Calls)
    OBVIOUS
  <1>2. <<>> \o <<c>> = <<c>>
    BY <1>1, ConcatEmptySeq
  <1>3. <<b>> \o <<c>> = <<b, c>> /\ <<b, c>> \in Seq(Calls)
    BY Pairs, Tuples
  <1>4. /\ <<a>> \o <<b, c>> \in Seq(Calls)
        /\ Len(<<a>> \o <<b, c>>) = Len(<<a>>) + Len(<<b, c>>)
        /\ \A i \in 1 .. Len(<<a>>) + Len(<<b, c>>) : (<<a>> \o <<b, c>>)[i] =
              IF i <= Len(<<a>>) THEN <<a>>[i] ELSE <<b, c>>[i - Len(<<a>>)]
    BY <1>1, <1>3, ConcatProperties
  <1>5. <<a>> \o <<b, c>> = <<a, b, c>>
    <2>1. /\ Len(<<a>>) = 1 /\ Len(<<b, c>>) = 2
          /\ <<a>>[1] = a /\ <<b, c>>[1] = b /\ <<b, c>>[2] = c
          /\ Len(<<a, b, c>>) = 3
          /\ <<a, b, c>>[1] = a /\ <<a, b, c>>[2] = b /\ <<a, b, c>>[3] = c
      OBVIOUS
    <2>2. /\ Len(<<a>> \o <<b, c>>) = 3
          /\ (<<a>> \o <<b, c>>)[1] = a
          /\ (<<a>> \o <<b, c>>)[2] = b /\ (<<a>> \o <<b, c>>)[3] = c
      BY <1>4, <2>1
    <2>3. \A i \in 1 .. 3 : i = 1 \/ i = 2 \/ i = 3
      OBVIOUS
    <2>4. PICK p, q : p = <<a, b, c>> /\ q = <<a>> \o <<b, c>>
      OBVIOUS
    <2>5. p = q
      BY <1>1, <1>4, <2>1, <2>2, <2>3, <2>4, SeqEqual
    <2>. QED  BY <2>4, <2>5
  <1>6. PICK q : q = <<b>> \o (<<>> \o <<c>>)
    OBVIOUS
  <1>7. q = <<b, c>>
    BY <1>2, <1>3, <1>6
  <1>. QED  BY <1>5, <1>6, <1>7

\* Calls that other calls can follow.
Goes(c, d, s, e, r) == c \in Seq(Calls) /\ Brings(c, d, s, e, r) /\ NoEnd(c)

\* Calls that can be followed, one after the other.
LEMMA GoesOn ==
    ASSUME NEW a, NEW b, NEW d, NEW s, NEW e, NEW r, NEW x, NEW y,
           Goes(a, d, s, e, r), Goes(b, e, r, x, y)
    PROVE  Goes(a \o b, d, s, x, y)
  BY Joined, NoEnds, ConcatProperties DEF Goes

\* The calls one at a time, where others can follow.
LEMMA Ones ==
    /\ \A d \in Nat, s \in Nat \cup {-1} :
        s = -1 \/ d > 0 => Goes(<<Sched>>, d, s, d, s)
    /\ Goes(<<Yield>>, 0, -1, 0, -1) /\ Goes(<<Unpark>>, 0, -1, 0, -1)
    /\ Goes(<<Create>>, 0, -1, 0, -1)
    /\ \A timed, spurious \in BOOLEAN, d \in Nat :
        Goes(<<Park(timed, spurious, FALSE)>>, d, -1, d, -1)
    /\ \A d \in Nat, s \in Nat \cup {-1} :
        Goes(<<Disable>>, d, s, d + 1, s) /\ Goes(<<Enable>>, d + 1, s, d, s)
  <1>1. \A call \in Calls : <<call>> \in Seq(Calls)
    OBVIOUS
  <1>2. \A call \in Calls : call.op # "end" => <<call>> \in Seq(Calls) /\ NoEnd(<<call>>)
    BY <1>1, NoEnds
  <1>3. /\ Sched.op # "end" /\ Yield.op # "end" /\ Unpark.op # "end" /\ Create.op # "end"
        /\ Disable.op # "end" /\ Enable.op # "end"
        /\ \A timed, spurious \in BOOLEAN : Park(timed, spurious, FALSE).op # "end"
    BY CallKinds
  <1>4. \A timed, spurious \in BOOLEAN : /\ Park(timed, spurious, FALSE) \in Calls
                                         /\ NoEnd(<<Park(timed, spurious, FALSE)>>)
                                         /\ <<Park(timed, spurious, FALSE)>> \in Seq(Calls)
    BY <1>2, <1>3, CallKinds
  <1>5. /\ NoEnd(<<Sched>>) /\ NoEnd(<<Yield>>) /\ NoEnd(<<Unpark>>) /\ NoEnd(<<Create>>)
        /\ NoEnd(<<Disable>>) /\ NoEnd(<<Enable>>)
    BY <1>2, <1>3, CallKinds
  <1>6. /\ <<Sched>> \in Seq(Calls) /\ <<Yield>> \in Seq(Calls) /\ <<Unpark>> \in Seq(Calls)
        /\ <<Create>> \in Seq(Calls) /\ <<Disable>> \in Seq(Calls) /\ <<Enable>> \in Seq(Calls)
    BY <1>1, CallKinds
  <1>. QED  BY <1>4, <1>5, <1>6, OneCall DEF Goes

\* A wait that is handed nothing but the processor: Threes without its first.
LEMMA Handover ==
    ASSUME NEW d \in Nat, NEW timed \in BOOLEAN, NEW spurious \in BOOLEAN
    PROVE  Goes(<<Park(timed, spurious, TRUE), SwitchBack>>, d, -1, d, -1)
  <1>1. PICK call : call = Park(timed, spurious, TRUE)
    OBVIOUS
  <1>2. call \in Calls /\ SwitchBack \in Calls
    BY <1>1, CallKinds
  <1>3. Brings(<<>>, 0, d, 0, d) /\ NoEnd(<<>>) /\ \A i \in 1 .. Len(<<>>) : <<>>[i] # SwitchBack
    BY Nothing, EmptySeq
  <1>4. <<>> \o <<SwitchBack>> = <<SwitchBack>>
    BY <1>2, Tuples, ConcatEmptySeq
  <1>5. PICK b : b = <<>> \o <<SwitchBack>>
    OBVIOUS
  <1>6. Brings(<<call>> \o b, d, -1, d, -1) /\ NoEnd(<<call>> \o b)
    BY <1>1, <1>3, <1>5, Handed
  <1>7. <<call>> \o b = <<call, SwitchBack>>
    BY <1>2, <1>4, <1>5, Pairs
  <1>. QED  BY <1>1, <1>2, <1>6, <1>7, Tuples DEF Goes

\* The same call over and over, and others can follow.
LEMMA GoesOver ==
    ASSUME NEW n \in Nat
    PROVE  /\ Goes(Times(n, Unpark), 0, -1, 0, -1)
           /\ \A timed \in BOOLEAN : Goes(Times(n, Park(timed, FALSE, FALSE)), 0, -1, 0, -1)
           /\ \A s \in Nat \cup {-1} : Goes(Times(n, Sched), 1, s, 1, s)
  <1>1. \A call \in Calls : Times(n, call) \in Seq(Calls)
    BY DEF Times
  <1>2. /\ Unpark \in Calls /\ Unpark.op # "end" /\ ~IsHanded(Unpark)
        /\ Sched \in Calls /\ Sched.op # "end" /\ ~IsHanded(Sched)
        /\ \A timed \in BOOLEAN : LET call == Park(timed, FALSE, FALSE)
                                  IN  call \in Calls /\ call.op # "end" /\ ~IsHanded(call)
    BY CallKinds DEF IsHanded
  <1>3. Goes(Times(n, Unpark), 0, -1, 0, -1)
    BY <1>1, <1>2, Repeated, OneCall DEF Goes
  <1>4. ASSUME NEW timed \in BOOLEAN PROVE Goes(Times(n, Park(timed, FALSE, FALSE)), 0, -1, 0, -1)
    <2>1. PICK call : call = Park(timed, FALSE, FALSE)
      OBVIOUS
    <2>2. call \in Calls /\ call.op # "end" /\ ~IsHanded(call) /\ Brings(<<call>>, 0, -1, 0, -1)
      BY <1>2, <2>1, OneCall
    <2>. QED  BY <1>1, <2>1, <2>2, Repeated DEF Goes
  <1>5. ASSUME NEW s \in Nat \cup {-1} PROVE Goes(Times(n, Sched), 1, s, 1, s)
    <2>1. Brings(<<Sched>>, 1, s, 1, s)
      BY OneCall
    <2>. QED  BY <1>1, <1>2, <2>1, Repeated DEF Goes
  <1>. QED  BY <1>3, <1>4, <1>5

\* Steps without a switch, whether or not the processor is lent.
LEMMA Taking ==
    ASSUME NEW n \in Nat, NEW s \in Nat \cup {-1}
    PROVE  /\ Goes(TakeSeveral(n), 0, s, 0, s)
           /\ \A i \in 1 .. Len(TakeSeveral(n)) : TakeSeveral(n)[i] # SwitchBack
  <1> DEFINE a == <<Disable>> \o Times(n, Sched)
             c == a \o <<Enable>>
  <1>1. c = TakeSeveral(n)
    BY DEF TakeSeveral
  <1>2. Goes(<<Disable>>, 0, s, 1, s) /\ Goes(<<Enable>>, 1, s, 0, s)
    <2>1. 0 + 1 = 1
      OBVIOUS
    <2>. QED  BY <2>1, Ones
  <1>3. Goes(Times(n, Sched), 1, s, 1, s)
    BY GoesOver
  <1>4. Goes(a, 0, s, 1, s)
    BY <1>2, <1>3, GoesOn
  <1>5. Goes(c, 0, s, 0, s)
    BY <1>2, <1>4, GoesOn
  <1>6. /\ Times(n, Sched) \in Seq(Calls) /\ Len(Times(n, Sched)) = n
        /\ \A i \in 1 .. n : Times(n, Sched)[i] = Sched
    BY CallKinds DEF Times
  <1>7. /\ <<Disable>> \in Seq(Calls) /\ Len(<<Disable>>) = 1 /\ <<Disable>>[1] = Disable
        /\ <<Enable>> \in Seq(Calls) /\ Len(<<Enable>>) = 1 /\ <<Enable>>[1] = Enable
    BY CallKinds
  <1>8. a \in Seq(Calls) /\ Len(a) = n + 1 /\ \A i \in 1 .. n + 1 : a[i] \in {Disable, Sched}
    <2>1. /\ a \in Seq(Calls) /\ Len(a) = 1 + n
          /\ \A i \in 1 .. 1 + n : a[i] = IF i <= 1 THEN <<Disable>>[i] ELSE Times(n, Sched)[i - 1]
      BY <1>6, <1>7, ConcatProperties
    <2>2. \A i \in 1 .. n + 1 : i = 1 \/ (~(i <= 1) /\ i - 1 \in 1 .. n)
      OBVIOUS
    <2>. QED  BY <2>1, <2>2, <1>6, <1>7
  <1>. HIDE DEF a
  <1>9. Len(c) = n + 2 /\ \A i \in 1 .. n + 2 : c[i] \in {Disable, Sched, Enable}
    <2>1. /\ Len(c) = n + 2
          /\ \A i \in 1 .. n + 2 : c[i] = IF i <= n + 1 THEN a[i] ELSE <<Enable>>[i - (n + 1)]
      BY <1>7, <1>8, ConcatProperties
    <2>2. \A i \in 1 .. n + 2 : i \in 1 .. n + 1 \/ (~(i <= n + 1) /\ i - (n + 1) = 1)
      OBVIOUS
    <2>. QED  BY <2>1, <2>2, <1>7, <1>8
  <1>10. Disable # SwitchBack /\ Sched # SwitchBack /\ Enable # SwitchBack
    BY CallKinds
  <1>. HIDE DEF c
  <1>11. \A i \in 1 .. Len(c) : c[i] # SwitchBack
    BY <1>9, <1>10
  <1>. QED  BY <1>1, <1>5, <1>11

\* Every operation of the primitives fits, however often it repeats its calls.
LEMMA OperationsFit ==
    \A p \in Operations : Fits(p, 0, -1)
  <1>1. /\ Goes(<<Sched>>, 0, -1, 0, -1) /\ Goes(<<Unpark>>, 0, -1, 0, -1)
        /\ Sched \in Calls /\ Unpark \in Calls /\ Disable \in Calls /\ Enable \in Calls
        /\ SwitchBack \in Calls
    BY Ones, CallKinds
  <1>2. \A c : Goes(c, 0, -1, 0, -1) => Fits(c, 0, -1)
    BY DEF Goes, Fits
  <1>3. Fits(AtomicOperation, 0, -1) /\ Fits(YieldTurn, 0, -1) /\ Fits(CreateThread, 0, -1)
    BY Ones, <1>2 DEF AtomicOperation, YieldTurn, CreateThread
  <1>4. Goes(<<Sched, Unpark>>, 0, -1, 0, -1) /\ Goes(<<Sched, Sched>>, 0, -1, 0, -1)
    <2>1. <<Sched, Unpark>> = <<Sched>> \o <<Unpark>> /\ <<Sched, Sched>> = <<Sched>> \o <<Sched>>
      BY <1>1, Pairs
    <2>. QED  BY <2>1, <1>1, GoesOn
  <1>5. Goes(<<Disable, Sched>>, 0, -1, 1, -1)
    <2>1. <<Disable, Sched>> = <<Disable>> \o <<Sched>>
      BY <1>1, Pairs
    <2>2. 0 + 1 = 1 /\ 1 > 0
      OBVIOUS
    <2>3. Goes(<<Disable>>, 0, -1, 1, -1) /\ Goes(<<Sched>>, 1, -1, 1, -1)
      BY <2>2, Ones
    <2>. QED  BY <2>1, <2>3, GoesOn
  <1>6. ASSUME NEW timed \in BOOLEAN
        PROVE  /\ Fits(Join(timed), 0, -1) /\ Fits(CondVarWait(timed), 0, -1)
               /\ Fits(FutexWait(timed), 0, -1) /\ Fits(SignalAndWait(timed), 0, -1)
    <2>1. PICK a, b : a = Park(timed, FALSE, FALSE) /\ b = Park(timed, TRUE, FALSE)
      OBVIOUS
    <2>2. a \in Calls /\ b \in Calls /\ Goes(<<a>>, 0, -1, 0, -1) /\ Goes(<<b>>, 0, -1, 0, -1)
      BY <2>1, Ones, CallKinds
    <2>3. Fits(Join(timed), 0, -1)
      BY <1>2, <2>1, <2>2 DEF Join
    <2>4. Fits(CondVarWait(timed), 0, -1)
      <3>1. CondVarWait(timed) = <<Sched, Unpark>> \o <<b, Sched>>
        <4>1. CondVarWait(timed) = <<Sched, Unpark, b, Sched>>
          BY <2>1 DEF CondVarWait
        <4>. QED  BY <1>1, <2>2, <4>1, Fours
      <3>2. <<b, Sched>> = <<b>> \o <<Sched>>
        BY <1>1, <2>2, Pairs
      <3>. QED  BY <1>1, <1>2, <1>4, <2>2, <3>1, <3>2, GoesOn
    <2>5. Fits(FutexWait(timed), 0, -1)
      <3>1. FutexWait(timed) = <<Sched, Sched, Disable, Sched>> \o <<Enable, b>>
        <4>1. FutexWait(timed) = <<Sched, Sched, Disable, Sched, Enable, b>>
          BY <2>1 DEF FutexWait
        <4>. QED  BY <1>1, <2>2, <4>1, Sixes
      <3>2. <<Sched, Sched, Disable, Sched>> = <<Sched, Sched>> \o <<Disable, Sched>>
        <4>1. PICK q : q = <<Sched, Sched, Disable, Sched>>
          OBVIOUS
        <4>2. q = <<Sched, Sched>> \o <<Disable, Sched>>
          BY <1>1, <4>1, Fours
        <4>. QED  BY <4>1, <4>2
      <3>3. Goes(<<Sched, Sched, Disable, Sched>>, 0, -1, 1, -1)
        BY <3>2, <1>4, <1>5, GoesOn
      <3>4. <<Enable, b>> = <<Enable>> \o <<b>>
        BY <1>1, <2>2, Pairs
      <3>5. Goes(<<Enable>>, 1, -1, 0, -1)
        <4>1. 0 + 1 = 1
          OBVIOUS
        <4>. QED  BY <4>1, Ones
      <3>6. Goes(<<Enable, b>>, 1, -1, 0, -1)
        BY <3>4, <3>5, <2>2, GoesOn
      <3>. QED  BY <1>2, <3>1, <3>3, <3>6, GoesOn
    <2>6. Fits(SignalAndWait(timed), 0, -1)
      <3>1. PICK h : h = Park(timed, FALSE, TRUE)
        OBVIOUS
      <3>2. h \in Calls
        BY <3>1, CallKinds
      <3>3. SignalAndWait(timed) = <<Sched, Unpark, Disable, Sched>> \o (<<h, SwitchBack>> \o <<Enable>>)
        <4>1. SignalAndWait(timed) = <<Sched, Unpark, Disable, Sched, h, SwitchBack, Enable>>
          BY <3>1 DEF SignalAndWait
        <4>. QED  BY <1>1, <3>2, <4>1, Sevens
      <3>4. <<Sched, Unpark, Disable, Sched>> = <<Sched, Unpark>> \o <<Disable, Sched>>
        <4>1. PICK q : q = <<Sched, Unpark, Disable, Sched>>
          OBVIOUS
        <4>2. q = <<Sched, Unpark>> \o <<Disable, Sched>>
          BY <1>1, <4>1, Fours
        <4>. QED  BY <4>1, <4>2
      <3>5. Goes(<<Sched, Unpark, Disable, Sched>>, 0, -1, 1, -1)
        BY <3>4, <1>4, <1>5, GoesOn
      <3>6. Goes(<<h, SwitchBack>>, 1, -1, 1, -1)
        BY <3>1, Handover
      <3>7. Goes(<<Enable>>, 1, -1, 0, -1)
        <4>1. 0 + 1 = 1
          OBVIOUS
        <4>. QED  BY <4>1, Ones
      <3>8. Goes(<<h, SwitchBack>> \o <<Enable>>, 1, -1, 0, -1)
        BY <3>6, <3>7, GoesOn
      <3>. QED  BY <1>2, <3>3, <3>5, <3>8, GoesOn
    <2>. QED  BY <2>3, <2>4, <2>5, <2>6
  <1>7. ASSUME NEW timed \in BOOLEAN, NEW spurious \in BOOLEAN
        PROVE  Fits(Wait(timed, spurious), 0, -1)
    <2>1. PICK h : h = Park(timed, spurious, TRUE)
      OBVIOUS
    <2>2. h \in Calls
      BY <2>1, CallKinds
    <2>3. PICK b : b = <<>> \o <<SwitchBack>>
      OBVIOUS
    <2>4. Wait(timed, spurious) = <<Sched>> \o (<<h>> \o b)
      <3>1. PICK w : w = <<Sched, h, SwitchBack>>
        OBVIOUS
      <3>2. w = <<Sched>> \o (<<h>> \o (<<>> \o <<SwitchBack>>))
        BY <1>1, <2>2, <3>1, Threes
      <3>3. w = Wait(timed, spurious)
        BY <2>1, <3>1 DEF Wait
      <3>. QED  BY <2>3, <3>2, <3>3
    <2>5. b = <<SwitchBack>>
      BY <1>1, <2>3, Tuples, ConcatEmptySeq
    <2>6. <<h>> \o b = <<h, SwitchBack>>
      BY <1>1, <2>2, <2>5, Pairs
    <2>7. Goes(<<h, SwitchBack>>, 0, -1, 0, -1)
      BY <2>1, Handover
    <2>. QED  BY <1>1, <1>2, <2>4, <2>6, <2>7, GoesOn
  <1>8. ASSUME NEW n \in 0 .. MaxRepeats
        PROVE  /\ Fits(Finish(n), 0, -1) /\ Fits(Signal(n), 0, -1)
               /\ Fits(FindSeveral(n), 0, -1) /\ Fits(FutexWake(n), 0, -1)
    <2>1. n \in Nat
      BY FibersAssumption
    <2>2. Goes(Times(n, Unpark), 0, -1, 0, -1)
      BY <2>1, GoesOver
    <2>3. Fits(Finish(n), 0, -1)
      <3>1. Brings(<<End>>, 0, -1, 0, -1)
        BY OneCall
      <3>. QED  BY <2>2, <3>1, Joined DEF Goes, Fits, Finish
    <2>4. Fits(Signal(n), 0, -1)
      BY <1>1, <1>2, <2>2, GoesOn DEF Signal
    <2>5. Fits(FutexWake(n), 0, -1)
      BY <1>2, <1>4, <2>2, GoesOn DEF FutexWake
    <2>6. Fits(FindSeveral(n), 0, -1)
      <3>1. Goes(TakeSeveral(n), 0, -1, 0, -1)
        BY <2>1, Taking
      <3>. QED  BY <1>1, <1>2, <3>1, GoesOn DEF FindSeveral
    <2>. QED  BY <2>3, <2>4, <2>5, <2>6
  <1>9. ASSUME NEW timed \in BOOLEAN, NEW n \in 0 .. MaxRepeats
        PROVE  Fits(Lock(timed, n), 0, -1) /\ Fits(WaitSeveral(timed, n), 0, -1)
    <2>1. n \in Nat
      BY FibersAssumption
    <2>2. Fits(Lock(timed, n), 0, -1)
      <3>1. Goes(Times(n, Park(timed, FALSE, FALSE)), 0, -1, 0, -1)
        BY <2>1, GoesOver
      <3>. QED  BY <1>1, <1>2, <3>1, GoesOn DEF Lock
    <2>3. Fits(WaitSeveral(timed, n), 0, -1)
      <3>1. PICK h : h = Park(timed, FALSE, TRUE)
        OBVIOUS
      <3>2. h \in Calls
        BY <3>1, CallKinds
      <3>3. PICK m : m = TakeSeveral(n)
        OBVIOUS
      <3>4. Goes(m, 0, 0, 0, 0) /\ \A i \in 1 .. Len(m) : m[i] # SwitchBack
        BY <2>1, <3>3, Taking
      <3>5. Goes(<<h>> \o (m \o <<SwitchBack>>), 0, -1, 0, -1)
        <4>1. /\ Brings(<<h>> \o (m \o <<SwitchBack>>), 0, -1, 0, -1)
              /\ NoEnd(<<h>> \o (m \o <<SwitchBack>>))
          BY <3>1, <3>4, Handed DEF Goes
        <4>2. m \o <<SwitchBack>> \in Seq(Calls)
          BY <1>1, <3>4, Tuples, ConcatProperties DEF Goes
        <4>3. <<h>> \o (m \o <<SwitchBack>>) \in Seq(Calls)
          BY <4>2, <3>2, Tuples, ConcatProperties
        <4>. QED  BY <4>1, <4>3 DEF Goes
      <3>6. WaitSeveral(timed, n) = <<Sched>> \o (<<h>> \o (m \o <<SwitchBack>>))
        <4>1. WaitSeveral(timed, n) = (<<Sched, h>> \o m) \o <<SwitchBack>>
          BY <3>1, <3>3 DEF WaitSeveral
        <4>2. /\ m \in Seq(Calls) /\ <<SwitchBack>> \in Seq(Calls) /\ <<Sched>> \in Seq(Calls)
              /\ <<h>> \in Seq(Calls) /\ <<Sched, h>> \in Seq(Calls) /\ <<Sched, h>> = <<Sched>> \o <<h>>
          BY <1>1, <3>2, <3>4, Tuples, Pairs DEF Goes
        <4>3. PICK b : b = m \o <<SwitchBack>>
          OBVIOUS
        <4>4. b \in Seq(Calls)
          BY <4>2, <4>3, ConcatProperties
        <4>5. (<<Sched, h>> \o m) \o <<SwitchBack>> = <<Sched, h>> \o b
          BY <4>2, <4>3, ConcatAssociative
        <4>6. (<<Sched>> \o <<h>>) \o b = <<Sched>> \o (<<h>> \o b)
          BY <4>2, <4>4, ConcatAssociative
        <4>. QED  BY <4>1, <4>2, <4>3, <4>5, <4>6
      <3>. QED  BY <1>1, <1>2, <3>5, <3>6, GoesOn
    <2>. QED  BY <2>2, <2>3
  <1>10. SUFFICES ASSUME NEW p \in Operations PROVE Fits(p, 0, -1)
    OBVIOUS
  <1> DEFINE Plain == {AtomicOperation, YieldTurn, CreateThread}
             Timeable == UNION {{Join(timed), CondVarWait(timed), FutexWait(timed),
                                 SignalAndWait(timed)} : timed \in BOOLEAN}
             Waits == {Wait(timed, spurious) : timed \in BOOLEAN, spurious \in BOOLEAN}
             Repeating == UNION {{Finish(n), Signal(n), FindSeveral(n), FutexWake(n)} :
                                    n \in 0 .. MaxRepeats}
             Both == UNION {{Lock(timed, n), WaitSeveral(timed, n)} :
                                timed \in BOOLEAN, n \in 0 .. MaxRepeats}
  <1>11. p \in Plain => Fits(p, 0, -1)
    BY <1>3
  <1>12. p \in Timeable => Fits(p, 0, -1)
    BY <1>6
  <1>13. p \in Waits => Fits(p, 0, -1)
    BY <1>7
  <1>14. p \in Repeating => Fits(p, 0, -1)
    BY <1>8
  <1>15. p \in Both => Fits(p, 0, -1)
    BY <1>9
  <1>16. Operations = Plain \cup Timeable \cup Waits \cup Repeating \cup Both
    BY DEF Operations
  <1>. HIDE DEF Plain, Timeable, Waits, Repeating, Both
  <1>. QED  BY <1>10, <1>11, <1>12, <1>13, <1>14, <1>15, <1>16

-----------------------------------------------------------------------------
(* The fibers *)

Places == {"top", "test", "schedule", "park", "unpark", "switch_back"}

\* The results of a test, without that of a failed check.
Outcomes ==
    {"none", "deadlock", "livelock", "memory_leak", "resource_leak", "double_free",
     "double_initialization", "usage_of_non_initialized", "destroying_owned_mutex"}
        \cup (UNION {x.results : x \in Tests})

FiberStates ==
    [running : Thread \cup {Main}, at : [Thread -> Places], code : [Thread -> Seq(Calls)],
     state : [Thread -> {"none", "ready", "parked", "finished"}],
     reason : [Thread -> {"normal", "timeout", "spurious"}],
     from : [Thread -> Thread \cup {Main}], saved : [Thread -> Nat \cup {-1}],
     dp : [Thread -> Nat], disabled : Nat, scopes : [Thread -> Nat],
     special : BOOLEAN, first_thread : BOOLEAN, sched_count : Nat,
     limit : Nat, invariant : Nat, outcome : Outcomes]

\* What is left begins with one of the calls ops.
Asks(code, ops) == code # <<>> /\ Head(code).op \in ops

\* A depth that is put aside, or 0.
Aside(saved) == IF saved = -1 THEN 0 ELSE saved

\* A thread that does not run: what is left of its operation fits the depth that
\* it will find when it goes on, and that is the depth of its scopes.
LeftAt(at, code, state, from, saved, dp, scopes) ==
    /\ from = Main
    /\ at = "top" => code = <<>> /\ saved = -1 /\ dp = 0 /\ scopes = 0
    /\ at = "schedule" =>
        Asks(code, {"sched", "yield"}) /\ Fits(code, 0, -1) /\ saved = -1 /\ dp = 0 /\ scopes = 0
    /\ at = "unpark" =>
        Asks(code, {"unpark"}) /\ Fits(code, 0, -1) /\ saved = -1 /\ dp = 0 /\ scopes = 0
    /\ at = "park" =>
        /\ Asks(code, {"park"}) /\ Fits(code, dp, -1) /\ saved = -1 /\ scopes = dp
        /\ Head(code).hand => state = "parked"
    /\ at = "switch_back" =>
        /\ Asks(code, {"switch_back"}) /\ Fits(code, 0, saved)
        /\ saved # -1 /\ dp = 0 /\ scopes = saved
    /\ at # "test"
    /\ state = "parked" => at = "park"
    /\ state \in {"none", "finished"} => at = "top"

Left(f, t) ==
    LeftAt(f.at[t], f.code[t], f.state[t], f.from[t], f.saved[t], f.dp[t], f.scopes[t])

\* A thread that runs: with a depth put aside exactly when it is lent the processor.
RunsAt(at, code, from, saved, dp, scopes, disabled) ==
    /\ at = "test" /\ dp = 0 /\ scopes = disabled + Aside(saved)
    /\ Fits(code, disabled, saved)
    /\ from # Main <=> saved # -1

RunsAs(f, t) ==
    RunsAt(f.at[t], f.code[t], f.from[t], f.saved[t], f.dp[t], f.scopes[t], f.disabled)

\* Whoever waits in its unpark has lent the processor to the thread t.
Lends(f, t) ==
    /\ \A u \in Thread \ {t} : f.at[u] = "unpark" => f.from[t] = u
    /\ f.from[t] # Main => f.from[t] # t /\ f.at[f.from[t]] = "unpark"

\* The thread t runs.
Going(f, t) ==
    /\ f.running = t /\ t \in Thread /\ f.outcome = "none"
    /\ RunsAs(f, t) /\ Lends(f, t)
    /\ \A u \in Thread \ {t} : Left(f, u)

\* No thread runs, and none is in the middle of an unpark.
AllLeft(f) ==
    /\ f.disabled = 0 /\ f.outcome = "none"
    /\ \A u \in Thread : Left(f, u) /\ f.at[u] # "unpark"

\* What g has of f whatever thread goes on.
Keeps(f, g) ==
    /\ g.special = f.special /\ g.state = f.state /\ g.sched_count = f.sched_count
    /\ g.limit = f.limit

\* Whether a parked thread is handed what it waits for.
IsMet(f, t) == Head(f.code[t]).hand /\ f.reason[t] = "normal"

\* Of the thread t, g has what f has.
SameFor(f, g, t) ==
    /\ g.at[t] = f.at[t] /\ g.code[t] = f.code[t] /\ g.state[t] = f.state[t]
    /\ g.from[t] = f.from[t] /\ g.saved[t] = f.saved[t] /\ g.dp[t] = f.dp[t]
    /\ g.scopes[t] = f.scopes[t]

\* The thread t goes on, with the calls w, the depth d and the depth s put aside;
\* nothing else changes.
Arrived(f, g, t, w, s, d) ==
    /\ g \in FiberStates /\ g.running = t /\ g.at[t] = "test" /\ g.code[t] = w
    /\ g.saved[t] = s /\ g.dp[t] = 0 /\ g.disabled = d /\ g.outcome = f.outcome
    /\ g.from = f.from /\ g.scopes = f.scopes /\ Keeps(f, g)
    /\ \A u \in Thread \ {t} : SameFor(f, g, u)

\* What a thread that is handed nothing goes on with.
Unmet(code) == IF Head(code).hand THEN NotTaken(Tail(code)) ELSE Tail(code)

\* A thread that has begun nothing goes on.
LEMMA FromTop ==
    ASSUME NEW f \in FiberStates, NEW t \in Thread, f.at[t] = "top", f.disabled = 0,
           f.from[t] = Main, f.saved[t] = -1, f.dp[t] = 0,
           NEW w, w = f.code[t], Fits(w, 0, -1)
    PROVE  Arrived(f, SwitchTo(f, t), t, w, -1, 0)
  <1>0. w \in Seq(Calls)
    BY FitsFacts
  <1>1. PICK h : h = [f EXCEPT !.running = t, !.at[t] = "test"]
    OBVIOUS
  <1>2. h.disabled = 0 /\ h.from[t] = Main /\ h.saved[t] = -1
    BY <1>1 DEF FiberStates
  <1>3. SwitchTo(f, t) = Started(Verify(h, h.disabled = 0), t)
    BY <1>1 DEF SwitchTo
  <1>4. SwitchTo(f, t) = [f EXCEPT !.running = t, !.at[t] = "test"]
    BY <1>1, <1>2, <1>3 DEF Verify, Started
  <1>20. ASSUME NEW g, g = [f EXCEPT !.running = t, !.at[t] = "test"]
         PROVE  Arrived(f, g, t, w, -1, 0)
    <2>0. /\ g.running = t /\ g.at = [f.at EXCEPT ![t] = "test"] /\ g.code = f.code
           /\ g.saved = f.saved /\ g.dp = f.dp /\ g.disabled = 0
      BY <1>0, <1>20 DEF FiberStates
    <2>1. g.outcome = f.outcome /\ g.from = f.from /\ g.scopes = f.scopes /\ Keeps(f, g)
      BY <1>20 DEF FiberStates, Keeps
    <2>2. g \in FiberStates
      BY <1>0, <1>20 DEF FiberStates, Places
    <2>3. /\ f.at \in [Thread -> Places] /\ f.code \in [Thread -> Seq(Calls)]
          /\ f.saved \in [Thread -> Nat \cup {-1}] /\ f.dp \in [Thread -> Nat]
      BY DEF FiberStates
    <2>4. ASSUME NEW u \in Thread \ {t} PROVE SameFor(f, g, u)
      BY <2>0, <2>1, <2>3 DEF SameFor, Keeps
    <2>. QED  BY <2>0, <2>1, <2>2, <2>3, <2>4 DEF Arrived
  <1>. QED  BY <1>4, <1>20

\* One that was left at a step.
LEMMA FromSchedule ==
    ASSUME NEW f \in FiberStates, NEW t \in Thread, f.at[t] = "schedule", f.disabled = 0,
           f.saved[t] = -1, f.dp[t] = 0,
           NEW w, w = Tail(f.code[t]), Fits(w, 0, -1)
    PROVE  Arrived(f, SwitchTo(f, t), t, w, -1, 0)
  <1>0. w \in Seq(Calls)
    BY FitsFacts
  <1>1. PICK h : h = [f EXCEPT !.running = t, !.at[t] = "test"]
    OBVIOUS
  <1>2. h.disabled = 0
    BY <1>1 DEF FiberStates
  <1>3. SwitchTo(f, t) = Verify(Advance(h, t), h.disabled = 0)
    BY <1>1 DEF SwitchTo
  <1>4. SwitchTo(f, t) = Advance(h, t)
    BY <1>2, <1>3 DEF Verify
  <1>5. SwitchTo(f, t) = [f EXCEPT !.running = t, !.at[t] = "test", !.code[t] = w]
    BY <1>1, <1>4 DEF Advance, FiberStates
  <1>20. ASSUME NEW g, g = [f EXCEPT !.running = t, !.at[t] = "test", !.code[t] = w]
         PROVE  Arrived(f, g, t, w, -1, 0)
    <2>0. /\ g.running = t /\ g.at = [f.at EXCEPT ![t] = "test"] /\ g.code = [f.code EXCEPT ![t] = w]
           /\ g.saved = f.saved /\ g.dp = f.dp /\ g.disabled = 0
      BY <1>0, <1>20 DEF FiberStates
    <2>1. g.outcome = f.outcome /\ g.from = f.from /\ g.scopes = f.scopes /\ Keeps(f, g)
      BY <1>20 DEF FiberStates, Keeps
    <2>2. g \in FiberStates
      BY <1>0, <1>20 DEF FiberStates, Places
    <2>3. /\ f.at \in [Thread -> Places] /\ f.code \in [Thread -> Seq(Calls)]
          /\ f.saved \in [Thread -> Nat \cup {-1}] /\ f.dp \in [Thread -> Nat]
      BY DEF FiberStates
    <2>4. ASSUME NEW u \in Thread \ {t} PROVE SameFor(f, g, u)
      BY <2>0, <2>1, <2>3 DEF SameFor, Keeps
    <2>. QED  BY <2>0, <2>1, <2>2, <2>3, <2>4 DEF Arrived
  <1>. QED  BY <1>5, <1>20

\* One that was in its unpark.
LEMMA FromUnpark ==
    ASSUME NEW f \in FiberStates, NEW t \in Thread, f.at[t] = "unpark", f.disabled = 0,
           f.saved[t] = -1, f.dp[t] = 0,
           NEW w, w = Tail(f.code[t]), Fits(w, 0, -1)
    PROVE  Arrived(f, SwitchTo(f, t), t, w, -1, 0)
  <1>0. w \in Seq(Calls)
    BY FitsFacts
  <1>1. PICK h : h = [f EXCEPT !.running = t, !.at[t] = "test"]
    OBVIOUS
  <1>4. SwitchTo(f, t) = Advance(h, t)
    BY <1>1 DEF SwitchTo
  <1>5. SwitchTo(f, t) = [f EXCEPT !.running = t, !.at[t] = "test", !.code[t] = w]
    BY <1>1, <1>4 DEF Advance, FiberStates
  <1>20. ASSUME NEW g, g = [f EXCEPT !.running = t, !.at[t] = "test", !.code[t] = w]
         PROVE  Arrived(f, g, t, w, -1, 0)
    <2>0. /\ g.running = t /\ g.at = [f.at EXCEPT ![t] = "test"] /\ g.code = [f.code EXCEPT ![t] = w]
           /\ g.saved = f.saved /\ g.dp = f.dp /\ g.disabled = 0
      BY <1>0, <1>20 DEF FiberStates
    <2>1. g.outcome = f.outcome /\ g.from = f.from /\ g.scopes = f.scopes /\ Keeps(f, g)
      BY <1>20 DEF FiberStates, Keeps
    <2>2. g \in FiberStates
      BY <1>0, <1>20 DEF FiberStates, Places
    <2>3. /\ f.at \in [Thread -> Places] /\ f.code \in [Thread -> Seq(Calls)]
          /\ f.saved \in [Thread -> Nat \cup {-1}] /\ f.dp \in [Thread -> Nat]
      BY DEF FiberStates
    <2>4. ASSUME NEW u \in Thread \ {t} PROVE SameFor(f, g, u)
      BY <2>0, <2>1, <2>3 DEF SameFor, Keeps
    <2>. QED  BY <2>0, <2>1, <2>2, <2>3, <2>4 DEF Arrived
  <1>. QED  BY <1>5, <1>20

\* One that has given the processor back.
LEMMA FromSwitchBack ==
    ASSUME NEW f \in FiberStates, NEW t \in Thread, f.at[t] = "switch_back", f.saved[t] # -1,
           f.dp[t] = 0,
           NEW w, w = Tail(f.code[t]), Fits(w, f.saved[t], -1)
    PROVE  Arrived(f, SwitchTo(f, t), t, w, -1, f.saved[t])
  <1>0. w \in Seq(Calls)
    BY FitsFacts
  <1>1. PICK h : h = [f EXCEPT !.running = t, !.at[t] = "test"]
    OBVIOUS
  <1>2. SwitchTo(f, t) = SwitchedBack(h, t)
    BY <1>1 DEF SwitchTo
  <1>3. h.saved = f.saved
    BY <1>1 DEF FiberStates
  <1>4. SwitchTo(f, t) = [h EXCEPT !.disabled = h.saved[t], !.saved[t] = -1, !.code[t] = Tail(@)]
    BY <1>2, <1>3 DEF SwitchedBack, Verify
  <1>5. SwitchTo(f, t) = [f EXCEPT !.running = t, !.at[t] = "test", !.disabled = f.saved[t],
                      !.saved[t] = -1, !.code[t] = w]
    BY <1>1, <1>3, <1>4 DEF FiberStates
  <1>6. f.saved[t] \in Nat
    BY DEF FiberStates
  <1>20. ASSUME NEW g, g = [f EXCEPT !.running = t, !.at[t] = "test", !.disabled = f.saved[t],
                          !.saved[t] = -1, !.code[t] = w]
         PROVE  Arrived(f, g, t, w, -1, f.saved[t])
    <2>0. /\ g.running = t /\ g.at = [f.at EXCEPT ![t] = "test"] /\ g.code = [f.code EXCEPT ![t] = w]
           /\ g.saved = [f.saved EXCEPT ![t] = -1] /\ g.dp = f.dp /\ g.disabled = f.saved[t]
      BY <1>0, <1>20, <1>6 DEF FiberStates
    <2>1. g.outcome = f.outcome /\ g.from = f.from /\ g.scopes = f.scopes /\ Keeps(f, g)
      BY <1>20, <1>6 DEF FiberStates, Keeps
    <2>2. g \in FiberStates
      BY <1>0, <1>20, <1>6 DEF FiberStates, Places
    <2>3. /\ f.at \in [Thread -> Places] /\ f.code \in [Thread -> Seq(Calls)]
          /\ f.saved \in [Thread -> Nat \cup {-1}] /\ f.dp \in [Thread -> Nat]
      BY DEF FiberStates
    <2>4. ASSUME NEW u \in Thread \ {t} PROVE SameFor(f, g, u)
      BY <2>0, <2>1, <2>3 DEF SameFor, Keeps
    <2>. QED  BY <2>0, <2>1, <2>2, <2>3, <2>4 DEF Arrived
  <1>. QED  BY <1>5, <1>20

\* One that was parked, and is handed what it waits for with the processor.
LEMMA FromParkMet ==
    ASSUME NEW f \in FiberStates, NEW t \in Thread, f.at[t] = "park", f.disabled = 0,
           f.saved[t] = -1, IsMet(f, t), f.from[t] # Main,
           NEW w, w = Tail(f.code[t]), Fits(w, 0, f.dp[t])
    PROVE  Arrived(f, SwitchTo(f, t), t, w, f.dp[t], 0)
  <1>0. w \in Seq(Calls)
    BY FitsFacts
  <1>1. PICK h : h = [f EXCEPT !.running = t, !.at[t] = "test"]
    OBVIOUS
  <1>2. SwitchTo(f, t) = ParkEnds(h, t)
    BY <1>1 DEF SwitchTo
  <1>3. PICK k : k = Advance(h, t)
    OBVIOUS
  <1>4. h.code = f.code /\ h.saved = f.saved /\ h.disabled = f.disabled /\ h.reason = f.reason
    BY <1>1 DEF FiberStates
  <1>5. k.from = f.from /\ k.dp = f.dp /\ k.code[t] = Tail(f.code[t])
    BY <1>1, <1>3 DEF FiberStates, Advance
  <1>6. k = Verify(Advance(h, t), h.disabled = 0 /\ h.saved[t] = -1)
    BY <1>3, <1>4 DEF Verify
  <1>7. SwitchTo(f, t) = [k EXCEPT !.saved[t] = k.dp[t], !.dp[t] = 0]
    BY <1>2, <1>4, <1>5, <1>6 DEF ParkEnds, Verify, IsMet
  <1>8. SwitchTo(f, t) = [f EXCEPT !.running = t, !.at[t] = "test", !.code[t] = w, !.saved[t] = f.dp[t],
                      !.dp[t] = 0]
    BY <1>1, <1>3, <1>5, <1>7 DEF Advance, FiberStates
  <1>20. ASSUME NEW g, g = [f EXCEPT !.running = t, !.at[t] = "test", !.code[t] = w, !.saved[t] = f.dp[t],
                          !.dp[t] = 0]
         PROVE  Arrived(f, g, t, w, f.dp[t], 0)
    <2>0. /\ g.running = t /\ g.at = [f.at EXCEPT ![t] = "test"] /\ g.code = [f.code EXCEPT ![t] = w]
           /\ g.saved = [f.saved EXCEPT ![t] = f.dp[t]] /\ g.dp = [f.dp EXCEPT ![t] = 0] /\ g.disabled = 0
      BY <1>0, <1>20 DEF FiberStates
    <2>1. g.outcome = f.outcome /\ g.from = f.from /\ g.scopes = f.scopes /\ Keeps(f, g)
      BY <1>20 DEF FiberStates, Keeps
    <2>2. g \in FiberStates
      <3>1. f.dp[t] \in Nat
        BY DEF FiberStates
      <3>. QED  BY <1>0, <1>20, <3>1 DEF FiberStates, Places
    <2>3. /\ f.at \in [Thread -> Places] /\ f.code \in [Thread -> Seq(Calls)]
          /\ f.saved \in [Thread -> Nat \cup {-1}] /\ f.dp \in [Thread -> Nat]
      BY DEF FiberStates
    <2>4. ASSUME NEW u \in Thread \ {t} PROVE SameFor(f, g, u)
      BY <2>0, <2>1, <2>3 DEF SameFor, Keeps
    <2>. QED  BY <2>0, <2>1, <2>2, <2>3, <2>4 DEF Arrived
  <1>. QED  BY <1>8, <1>20

\* One that was parked, and is handed nothing.
LEMMA FromParkUnmet ==
    ASSUME NEW f \in FiberStates, NEW t \in Thread, f.at[t] = "park", f.disabled = 0,
           f.saved[t] = -1, ~IsMet(f, t), f.from[t] = Main,
           NEW w, w = Unmet(f.code[t]), Fits(w, f.dp[t], -1)
    PROVE  Arrived(f, SwitchTo(f, t), t, w, -1, f.dp[t])
  <1>0. w \in Seq(Calls)
    BY FitsFacts
  <1>1. PICK h : h = [f EXCEPT !.running = t, !.at[t] = "test"]
    OBVIOUS
  <1>2. SwitchTo(f, t) = ParkEnds(h, t)
    BY <1>1 DEF SwitchTo
  <1>3. PICK k : k = Advance(h, t)
    OBVIOUS
  <1>4. h.code = f.code /\ h.saved = f.saved /\ h.disabled = f.disabled /\ h.reason = f.reason
    BY <1>1 DEF FiberStates
  <1>5. k.from = f.from /\ k.dp = f.dp /\ k.code[t] = Tail(f.code[t])
    BY <1>1, <1>3 DEF FiberStates, Advance
  <1>6. k = Verify(Advance(h, t), h.disabled = 0 /\ h.saved[t] = -1)
    BY <1>3, <1>4 DEF Verify
  <1>7. PICK call : call = Head(h.code[t])
    OBVIOUS
  <1>8. ~(call.hand /\ h.reason[t] = "normal")
    BY <1>4, <1>7 DEF IsMet
  <1>9. SwitchTo(f, t) = [Verify(k, h.reason[t] = "normal" => k.from[t] = Main) EXCEPT
                !.disabled = k.dp[t], !.dp[t] = 0,
                !.code[t] = IF call.hand THEN NotTaken(@) ELSE @]
    BY <1>2, <1>6, <1>7, <1>8, Zenon DEF ParkEnds
  <1>10. Verify(k, h.reason[t] = "normal" => k.from[t] = Main) = k
    BY <1>5 DEF Verify
  <1>11. SwitchTo(f, t) = [k EXCEPT !.disabled = k.dp[t], !.dp[t] = 0,
                       !.code[t] = IF call.hand THEN NotTaken(@) ELSE @]
    BY <1>9, <1>10, Zenon
  <1>12. SwitchTo(f, t) = [k EXCEPT !.disabled = f.dp[t], !.dp[t] = 0, !.code[t] = w]
    BY <1>4, <1>5, <1>7, <1>11 DEF Unmet
  <1>13. SwitchTo(f, t) = [f EXCEPT !.running = t, !.at[t] = "test", !.code[t] = w, !.disabled = f.dp[t],
                       !.dp[t] = 0]
    <2>1. PICK v : v = Tail(f.code[t])
      OBVIOUS
    <2>2. k = [f EXCEPT !.running = t, !.at[t] = "test", !.code[t] = v]
      BY <1>1, <1>3, <2>1 DEF Advance, FiberStates
    <2>3. k.code = [f.code EXCEPT ![t] = v] /\ f.code \in [Thread -> Seq(Calls)]
      BY <2>2 DEF FiberStates
    <2>4. [k.code EXCEPT ![t] = w] = [f.code EXCEPT ![t] = w]
      BY <2>3
    <2>5. SwitchTo(f, t) = [k EXCEPT !.disabled = f.dp[t], !.dp[t] = 0,
                                     !.code = [f.code EXCEPT ![t] = w]]
      BY <1>12, <2>4
    <2>. QED  BY <2>2, <2>5 DEF FiberStates
  <1>14. f.dp[t] \in Nat
    BY DEF FiberStates
  <1>20. ASSUME NEW g, g = [f EXCEPT !.running = t, !.at[t] = "test", !.code[t] = w, !.disabled = f.dp[t],
                          !.dp[t] = 0]
         PROVE  Arrived(f, g, t, w, -1, f.dp[t])
    <2>0. /\ g.running = t /\ g.at = [f.at EXCEPT ![t] = "test"] /\ g.code = [f.code EXCEPT ![t] = w]
           /\ g.saved = f.saved /\ g.dp = [f.dp EXCEPT ![t] = 0] /\ g.disabled = f.dp[t]
      BY <1>0, <1>20, <1>14 DEF FiberStates
    <2>1. g.outcome = f.outcome /\ g.from = f.from /\ g.scopes = f.scopes /\ Keeps(f, g)
      BY <1>20, <1>14 DEF FiberStates, Keeps
    <2>2. g \in FiberStates
      BY <1>0, <1>20, <1>14 DEF FiberStates, Places
    <2>3. /\ f.at \in [Thread -> Places] /\ f.code \in [Thread -> Seq(Calls)]
          /\ f.saved \in [Thread -> Nat \cup {-1}] /\ f.dp \in [Thread -> Nat]
      BY DEF FiberStates
    <2>4. ASSUME NEW u \in Thread \ {t} PROVE SameFor(f, g, u)
      BY <2>0, <2>1, <2>3 DEF SameFor, Keeps
    <2>. QED  BY <2>0, <2>1, <2>2, <2>3, <2>4 DEF Arrived
  <1>. QED  BY <1>13, <1>20

\* The thread c[1] goes on for the reason c[2].
Chosen(f, c) == SwitchTo([f EXCEPT !.state[c[1]] = "ready", !.reason[c[1]] = c[2]], c[1])

\* A thread that goes on when all are left finds its depth, and no check fails.
LEMMA Resumes ==
    ASSUME NEW f \in FiberStates, AllLeft(f), NEW c \in MayGoOn(f), NEW g, g = Chosen(f, c)
    PROVE  /\ g \in FiberStates /\ c[1] \in Thread /\ Going(g, c[1])
           /\ g.state[c[1]] = "ready" /\ g.special = f.special
           /\ g.sched_count = f.sched_count /\ g.limit = f.limit
  <1>1. PICK u, r : /\ c = <<u, r>> /\ u \in Thread /\ r \in {"normal", "timeout", "spurious"}
                    /\ f.state[u] \in {"ready", "parked"}
                    /\ f.state[u] = "ready" <=> r = "normal"
    BY DEF MayGoOn, Ready, Timed, Parked, Interruptible
  <1>2. PICK h : h = [f EXCEPT !.state[u] = "ready", !.reason[u] = r]
    OBVIOUS
  <1>3. /\ h \in FiberStates /\ h.at = f.at /\ h.code = f.code /\ h.from = f.from
        /\ h.saved = f.saved /\ h.dp = f.dp /\ h.scopes = f.scopes
        /\ h.disabled = 0 /\ h.outcome = "none" /\ h.special = f.special
        /\ h.sched_count = f.sched_count /\ h.limit = f.limit
        /\ h.reason[u] = r /\ h.state[u] = "ready"
        /\ \A v \in Thread \ {u} : SameFor(f, h, v)
    BY <1>1, <1>2 DEF FiberStates, AllLeft, SameFor
  <1>4. g = SwitchTo(h, u)
    BY <1>1, <1>2 DEF Chosen
  <1>5. /\ f.from[u] = Main /\ f.at[u] \in {"top", "schedule", "park", "switch_back"}
        /\ LeftAt(f.at[u], f.code[u], f.state[u], f.from[u], f.saved[u], f.dp[u], f.scopes[u])
    BY <1>1 DEF AllLeft, Left, LeftAt, FiberStates, Places
  <1>6. SUFFICES \E w, d : /\ Fits(w, d, -1) /\ f.scopes[u] = d
                           /\ Arrived(h, SwitchTo(h, u), u, w, -1, d)
    <2>1. PICK w, d : /\ Fits(w, d, -1) /\ f.scopes[u] = d
                      /\ Arrived(h, SwitchTo(h, u), u, w, -1, d)
      BY <1>6
    <2>2. Arrived(h, g, u, w, -1, d)
      BY <2>1, <1>4
    <2>3. d + 0 = d
      BY <2>1, FitsFacts
    <2>4. RunsAs(g, u) /\ g.from[u] = Main
      BY <1>3, <1>5, <2>1, <2>2, <2>3 DEF Arrived, RunsAs, RunsAt, Aside
    <2>5. ASSUME NEW v \in Thread \ {u} PROVE Left(g, v) /\ g.at[v] # "unpark"
      <3>1. SameFor(f, h, v) /\ SameFor(h, g, v)
        BY <1>3, <2>2 DEF Arrived
      <3>2. SameFor(f, g, v)
        BY <3>1 DEF SameFor
      <3>3. Left(f, v) /\ f.at[v] # "unpark"
        BY DEF AllLeft
      <3>. QED  BY <3>2, <3>3 DEF SameFor, Left
    <2>6. Going(g, u)
      BY <1>1, <1>3, <2>2, <2>4, <2>5 DEF Going, Lends, Arrived
    <2>. QED  BY <1>1, <1>3, <2>2, <2>6 DEF Arrived, Keeps
  <1>7. CASE f.at[u] = "top"
    <2>1. Fits(h.code[u], 0, -1)
      BY <1>3, <1>5, <1>7, Nothing DEF LeftAt, Fits
    <2>2. Arrived(h, SwitchTo(h, u), u, h.code[u], -1, 0)
      BY <1>1, <1>3, <1>5, <1>7, <2>1, FromTop DEF LeftAt
    <2>. QED  BY <1>5, <1>7, <2>1, <2>2 DEF LeftAt
  <1>8. CASE f.at[u] = "schedule"
    <2>1. Fits(Tail(h.code[u]), 0, -1)
      BY <1>3, <1>5, <1>8, Onward DEF LeftAt, Asks
    <2>2. Arrived(h, SwitchTo(h, u), u, Tail(h.code[u]), -1, 0)
      BY <1>1, <1>3, <1>5, <1>8, <2>1, FromSchedule DEF LeftAt
    <2>. QED  BY <1>5, <1>8, <2>1, <2>2 DEF LeftAt
  <1>9. CASE f.at[u] = "switch_back"
    <2>1. Fits(Tail(h.code[u]), h.saved[u], -1)
      BY <1>3, <1>5, <1>9, Onward DEF LeftAt, Asks
    <2>2. Arrived(h, SwitchTo(h, u), u, Tail(h.code[u]), -1, h.saved[u])
      BY <1>1, <1>3, <1>5, <1>9, <2>1, FromSwitchBack DEF LeftAt
    <2>. QED  BY <1>3, <1>5, <1>9, <2>1, <2>2 DEF LeftAt
  <1>10. CASE f.at[u] = "park"
    <2>1. ~IsMet(h, u)
      BY <1>1, <1>3, <1>5, <1>10 DEF LeftAt, IsMet
    <2>2. Head(h.code[u]).hand \in BOOLEAN
      BY <1>3, <1>5, <1>10, Onward, CallKinds DEF LeftAt, Asks
    <2>3. Fits(Unmet(h.code[u]), h.dp[u], -1)
      BY <1>3, <1>5, <1>10, <2>2, Onward DEF LeftAt, Asks, Unmet
    <2>4. Arrived(h, SwitchTo(h, u), u, Unmet(h.code[u]), -1, h.dp[u])
      BY <1>1, <1>3, <1>5, <1>10, <2>1, <2>3, FromParkUnmet DEF LeftAt
    <2>. QED  BY <1>3, <1>5, <1>10, <2>3, <2>4 DEF LeftAt
  <1>. QED  BY <1>5, <1>7, <1>8, <1>9, <1>10

\* After a step: a thread goes on, or the test has failed, by a check of its own.
Sound(f) ==
    /\ f \in FiberStates /\ f.sched_count <= f.limit + 1
    /\ f.outcome = "none" => Going(f, f.running)

\* In a thread of the test, and after all have finished.
Threading(f) ==
    /\ Sound(f)
    /\ f.outcome = "none" /\ ~f.special => f.state[f.running] = "ready"
    /\ f.outcome = "none" /\ f.special =>
        f.code[f.running] = <<>> /\ \A t \in Thread : f.state[t] = "finished"

\* A test that has failed.
LEMMA Failing ==
    ASSUME NEW f \in FiberStates, f.sched_count <= f.limit + 1,
           NEW result \in Outcomes \ {"none"}, NEW g, g = Fail(f, result)
    PROVE  Threading(g) /\ g.outcome = result
  BY DEF Fail, Threading, Sound, FiberStates

\* The steps of the invariant are counted, or are too many.
LEMMA Invariants ==
    ASSUME NEW f \in FiberStates, f.sched_count <= f.limit + 1, f.outcome = "none",
           NEW g, g = Invariant(f)
    PROVE  /\ g \in FiberStates /\ g.sched_count <= g.limit + 1 /\ g.special = f.special
           /\ g.outcome # "none" => Threading(g)
           /\ g.outcome = "none" => \E n \in Nat : g = [f EXCEPT !.sched_count = n]
  <1>1. f.sched_count \in Nat /\ f.limit \in Nat /\ f.invariant \in Nat
    BY DEF FiberStates
  <1>2. CASE Exceeds(f, f.invariant)
    <2>1. g = Fail(f, "livelock")
      BY <1>2 DEF Invariant
    <2>2. Threading(g) /\ g.outcome = "livelock"
      <3>1. "livelock" \in Outcomes \ {"none"}
        BY DEF Outcomes
      <3>. QED  BY <2>1, <3>1, Failing
    <2>3. g.special = f.special
      BY <2>1 DEF Fail, FiberStates
    <2>. QED  BY <2>2, <2>3 DEF Threading, Sound
  <1>3. CASE ~Exceeds(f, f.invariant)
    <2>1. PICK n : n = f.sched_count + f.invariant
      OBVIOUS
    <2>2. n \in Nat /\ n <= f.limit + 1
      BY <1>1, <1>3, <2>1 DEF Exceeds
    <2>3. g = [f EXCEPT !.sched_count = n]
      <3>1. g = [f EXCEPT !.sched_count = @ + f.invariant]
        BY <1>3 DEF Invariant, Counted
      <3>. QED  BY <2>1, <3>1 DEF FiberStates
    <2>. QED  BY <2>2, <2>3 DEF FiberStates
  <1>. QED  BY <1>2, <1>3

\* The thread t is left at a place, and one that may goes on.
LEMMA Schedules ==
    ASSUME NEW f \in FiberStates, f.sched_count <= f.limit + 1, ~f.special, f.outcome = "none",
           NEW t \in Thread, f.from[t] = Main, f.disabled = 0, NEW place \in Places,
           AllLeft([f EXCEPT !.at[t] = place]), NEW g \in Schedule(f, t, place)
    PROVE  Threading(g)
  <1>1. PICK i : i = Invariant(f)
    OBVIOUS
  <1>2. /\ i \in FiberStates /\ i.sched_count <= i.limit + 1 /\ i.special = f.special
        /\ i.outcome # "none" => Threading(i)
        /\ i.outcome = "none" => \E n \in Nat : i = [f EXCEPT !.sched_count = n]
    BY <1>1, Invariants
  <1>3. CASE i.outcome # "none"
    <2>1. g = i
      BY <1>1, <1>3 DEF Schedule
    <2>. QED  BY <1>2, <1>3, <2>1
  <1>4. CASE i.outcome = "none"
    <2>1. PICK c \in MayGoOn(f) :
            g = SwitchTo([i EXCEPT !.at[t] = place, !.state[c[1]] = "ready",
                                   !.reason[c[1]] = c[2]], c[1])
      BY <1>1, <1>4 DEF Schedule
    <2>2. PICK n \in Nat : i = [f EXCEPT !.sched_count = n]
      BY <1>2, <1>4
    <2>3. PICK h : h = [i EXCEPT !.at[t] = place]
      OBVIOUS
    <2>4. PICK k : k = [f EXCEPT !.at[t] = place]
      OBVIOUS
    <2>5. h \in FiberStates /\ h.sched_count <= h.limit + 1 /\ ~h.special
      BY <1>2, <2>3 DEF FiberStates
    <2>6. /\ h.at = k.at /\ h.code = k.code /\ h.state = k.state /\ h.from = k.from
          /\ h.saved = k.saved /\ h.dp = k.dp /\ h.scopes = k.scopes /\ h.disabled = k.disabled
          /\ h.outcome = k.outcome /\ h.state = f.state /\ h.code = f.code
      BY <2>2, <2>3, <2>4 DEF FiberStates
    <2>7. AllLeft(h)
      BY <2>4, <2>6 DEF AllLeft, Left
    <2>8. c \in MayGoOn(h)
      BY <2>6 DEF MayGoOn, Ready, Timed, Parked, Interruptible
    <2>9. g = Chosen(h, c)
      BY <2>1, <2>3, <1>2 DEF Chosen, FiberStates
    <2>10. /\ g \in FiberStates /\ Going(g, c[1]) /\ g.state[c[1]] = "ready"
           /\ g.special = h.special /\ g.sched_count = h.sched_count /\ g.limit = h.limit
      BY <2>5, <2>7, <2>8, <2>9, Resumes
    <2>. QED  BY <2>5, <2>10 DEF Threading, Sound, Going
  <1>. QED  BY <1>3, <1>4

\* Nobody is in an unpark while the thread t is lent nothing.
LEMMA NoneLends ==
    ASSUME NEW f \in FiberStates, NEW t \in Thread, Lends(f, t), f.from[t] = Main
    PROVE  \A u \in Thread \ {t} : f.at[u] # "unpark"
  BY FibersAssumption DEF Lends

\* When the one that runs is left, all are.
LEMMA Leaves ==
    ASSUME NEW f \in FiberStates, NEW t \in Thread, Lends(f, t), f.from[t] = Main,
           f.disabled = 0, f.outcome = "none", \A u \in Thread \ {t} : Left(f, u),
           NEW place \in Places, place # "unpark",
           LeftAt(place, f.code[t], f.state[t], Main, f.saved[t], f.dp[t], f.scopes[t]),
           NEW k, k = [f EXCEPT !.at[t] = place]
    PROVE  AllLeft(k)
  <1>1. /\ k.at[t] = place /\ k.disabled = 0 /\ k.outcome = "none"
        /\ \A u \in Thread \ {t} : k.at[u] = f.at[u]
        /\ k.code = f.code /\ k.state = f.state /\ k.from = f.from /\ k.saved = f.saved
        /\ k.dp = f.dp /\ k.scopes = f.scopes
    BY DEF FiberStates
  <1>2. ASSUME NEW u \in Thread PROVE Left(k, u) /\ k.at[u] # "unpark"
    <2>1. CASE u = t
      BY <1>1, <2>1 DEF Left
    <2>2. CASE u # t
      BY <1>1, <2>2, NoneLends DEF Left
    <2>. QED  BY <2>1, <2>2
  <1>. QED  BY <1>1, <1>2 DEF AllLeft

\* The thread that runs goes on itself.
LEMMA StaysOn ==
    ASSUME NEW f \in FiberStates, NEW t \in Thread, Going(f, t), NEW g \in FiberStates,
           g.running = t, g.outcome = "none", g.at = f.at, g.from = f.from, g.saved = f.saved,
           g.dp = f.dp, g.scopes[t] = g.disabled + Aside(g.saved[t]),
           Fits(g.code[t], g.disabled, g.saved[t]), \A u \in Thread \ {t} : Left(g, u)
    PROVE  Going(g, t)
  BY DEF Going, RunsAs, RunsAt, Lends

\* What the next call of the thread that runs finds.
Calling(f, t, ops) ==
    /\ f \in FiberStates /\ f.sched_count <= f.limit + 1 /\ Going(f, t)
    /\ ~f.special /\ f.state[t] = "ready" /\ Asks(f.code[t], ops)

\* One step is counted.
LEMMA Counts ==
    ASSUME NEW f \in FiberStates, ~Exceeds(f, 1), NEW g, g = Counted(f, 1)
    PROVE  /\ g \in FiberStates /\ g.sched_count <= g.limit + 1
           /\ \E n \in Nat : g = [f EXCEPT !.sched_count = n]
  <1>1. PICK n : n = f.sched_count + 1
    OBVIOUS
  <1>2. f.sched_count \in Nat /\ f.limit \in Nat
    BY DEF FiberStates
  <1>3. n \in Nat /\ n <= f.limit + 1
    BY <1>1, <1>2 DEF Exceeds
  <1>4. g = [f EXCEPT !.sched_count = n]
    BY <1>1 DEF Counted, FiberStates
  <1>. QED  BY <1>3, <1>4 DEF FiberStates

\* Nothing else of f changes with the count.
LEMMA CountsOnly ==
    ASSUME NEW f \in FiberStates, NEW t \in Thread, NEW ops, Calling(f, t, ops), ~Exceeds(f, 1),
           NEW g, g = Counted(f, 1)
    PROVE  Calling(g, t, ops) /\ g.disabled = f.disabled /\ g.code = f.code
  <1>1. PICK n \in Nat : g = [f EXCEPT !.sched_count = n]
    BY Counts
  <1>2. g \in FiberStates /\ g.sched_count <= g.limit + 1
    BY Counts
  <1>3. /\ g.running = f.running /\ g.at = f.at /\ g.code = f.code /\ g.state = f.state
        /\ g.from = f.from /\ g.saved = f.saved /\ g.dp = f.dp /\ g.disabled = f.disabled
        /\ g.scopes = f.scopes /\ g.special = f.special /\ g.outcome = f.outcome
    BY <1>1 DEF FiberStates
  <1>4. Going(g, t)
    BY <1>3 DEF Calling, Going, RunsAs, Lends, Left
  <1>. QED  BY <1>2, <1>3, <1>4 DEF Calling

\* A step, or a yield, at which another thread may go on.
LEMMA Steps ==
    ASSUME NEW f \in FiberStates, NEW t \in Thread, Calling(f, t, {"sched", "yield"}),
           f.disabled = 0, ~Exceeds(f, 1), NEW g \in Schedule(Counted(f, 1), t, "schedule")
    PROVE  Threading(g)
  <1>1. PICK h : h = Counted(f, 1)
    OBVIOUS
  <1>2. Calling(h, t, {"sched", "yield"}) /\ h.disabled = 0
    BY <1>1, CountsOnly
  <1>3. Fits(h.code[t], 0, h.saved[t]) /\ Asks(h.code[t], {"sched", "yield"})
    BY <1>2 DEF Calling, Going, RunsAs, RunsAt
  <1>4. h.saved[t] = -1
    <2>1. h.code[t] # <<>> /\ Head(h.code[t]).op \in {"sched", "yield"} /\ ~(0 > 0)
      BY <1>3 DEF Asks
    <2>. QED  BY <1>3, <2>1, Asked
  <1>5. /\ h \in FiberStates /\ h.from[t] = Main /\ h.scopes[t] = 0 /\ h.dp[t] = 0 /\ Lends(h, t)
        /\ h.outcome = "none" /\ (\A u \in Thread \ {t} : Left(h, u)) /\ h.state[t] = "ready"
    BY <1>2, <1>4 DEF Calling, Going, RunsAs, RunsAt, Aside
  <1>6. LeftAt("schedule", h.code[t], h.state[t], Main, h.saved[t], h.dp[t], h.scopes[t])
    BY <1>3, <1>4, <1>5 DEF LeftAt
  <1>7. "schedule" \in Places
    BY DEF Places
  <1>8. AllLeft([h EXCEPT !.at[t] = "schedule"])
    BY <1>2, <1>5, <1>6, <1>7, Leaves
  <1>. QED  BY <1>1, <1>2, <1>5, <1>7, <1>8, Schedules DEF Calling

\* The thread t has the calls w left; nothing else has changed.
Continues(f, g, t, w) ==
    /\ g \in FiberStates /\ g.code[t] = w /\ g.running = f.running /\ g.at = f.at
    /\ g.state = f.state /\ g.from = f.from /\ g.saved = f.saved /\ g.dp = f.dp
    /\ g.disabled = f.disabled /\ g.scopes = f.scopes /\ g.special = f.special
    /\ g.outcome = f.outcome /\ g.sched_count = f.sched_count /\ g.limit = f.limit
    /\ \A u \in Thread \ {t} : SameFor(f, g, u)

\* A call is done.
LEMMA Advances ==
    ASSUME NEW f \in FiberStates, NEW t \in Thread, Tail(f.code[t]) \in Seq(Calls),
           NEW g, g = Advance(f, t)
    PROVE  Continues(f, g, t, Tail(f.code[t]))
  <1>1. /\ g.code = [f.code EXCEPT ![t] = Tail(f.code[t])]
        /\ g.running = f.running /\ g.at = f.at /\ g.state = f.state
        /\ g.from = f.from /\ g.saved = f.saved /\ g.dp = f.dp /\ g.disabled = f.disabled
        /\ g.scopes = f.scopes /\ g.special = f.special /\ g.outcome = f.outcome
        /\ g.sched_count = f.sched_count /\ g.limit = f.limit
    BY DEF Advance, FiberStates
  <1>2. g \in FiberStates
    BY DEF Advance, FiberStates
  <1>3. f.code \in [Thread -> Seq(Calls)]
    BY DEF FiberStates
  <1>. QED  BY <1>1, <1>2, <1>3 DEF Continues, SameFor

\* A step, counted, at which another thread may go on unless preemption is disabled.
LEMMA SchedWorks ==
    ASSUME NEW f \in FiberStates, NEW t \in Thread, Calling(f, t, {"sched"}), NEW g \in DoSched(f, t)
    PROVE  Threading(g)
  <1>1. CASE Exceeds(f, 1)
    <2>1. g = Fail(f, "livelock") /\ "livelock" \in Outcomes \ {"none"}
      BY <1>1 DEF DoSched, Outcomes
    <2>. QED  BY <2>1, Failing DEF Calling
  <1>2. CASE ~Exceeds(f, 1) /\ f.disabled > 0
    <2>1. PICK h : h = Counted(f, 1)
      OBVIOUS
    <2>2. Calling(h, t, {"sched"}) /\ h.disabled = f.disabled
      BY <1>2, <2>1, CountsOnly
    <2>3. g = Advance(h, t)
      BY <1>2, <2>1 DEF DoSched
    <2>4. Fits(h.code[t], h.disabled, h.saved[t]) /\ Asks(h.code[t], {"sched"})
      BY <2>2 DEF Calling, Going, RunsAs, RunsAt
    <2>5. Fits(Tail(h.code[t]), h.disabled, h.saved[t]) /\ Tail(h.code[t]) \in Seq(Calls)
      BY <2>4, Onward DEF Asks
    <2>6. /\ h \in FiberStates /\ Going(h, t) /\ h.running = t /\ ~h.special
          /\ h.outcome = "none" /\ h.state[t] = "ready" /\ h.sched_count <= h.limit + 1
          /\ h.scopes[t] = h.disabled + Aside(h.saved[t]) /\ \A u \in Thread \ {t} : Left(h, u)
      BY <2>2 DEF Calling, Going, RunsAs, RunsAt
    <2>7. Continues(h, g, t, Tail(h.code[t]))
      BY <2>3, <2>5, <2>6, Advances
    <2>8. ASSUME NEW u \in Thread \ {t} PROVE Left(g, u)
      BY <2>6, <2>7 DEF Continues, SameFor, Left
    <2>9. Going(g, t)
      BY <2>5, <2>6, <2>7, <2>8, StaysOn DEF Continues
    <2>. QED  BY <2>6, <2>7, <2>9 DEF Threading, Sound, Continues
  <1>3. CASE ~Exceeds(f, 1) /\ f.disabled = 0
    <2>1. g \in Schedule(Counted(f, 1), t, "schedule")
      BY <1>3 DEF DoSched
    <2>2. Calling(f, t, {"sched", "yield"})
      BY DEF Calling, Asks
    <2>. QED  BY <1>3, <2>1, <2>2, Steps
  <1>4. f.disabled \in Nat
    BY DEF FiberStates
  <1>. QED  BY <1>1, <1>2, <1>3, <1>4

\* A yield, counted, at which another thread may go on.
LEMMA YieldWorks ==
    ASSUME NEW f \in FiberStates, NEW t \in Thread, Calling(f, t, {"yield"}), NEW g \in DoYield(f, t)
    PROVE  Threading(g)
  <1>1. CASE Exceeds(f, 1)
    <2>1. g = Fail(f, "livelock") /\ "livelock" \in Outcomes \ {"none"}
      BY <1>1 DEF DoYield, Outcomes
    <2>. QED  BY <2>1, Failing DEF Calling
  <1>2. CASE ~Exceeds(f, 1)
    <2>1. g \in Schedule(Counted(f, 1), t, "schedule")
      BY <1>2 DEF DoYield
    <2>2. Calling(f, t, {"sched", "yield"})
      BY DEF Calling, Asks
    <2>3. f.disabled = 0
      BY Asked DEF Calling, Going, RunsAs, RunsAt, Asks
    <2>. QED  BY <1>2, <2>1, <2>2, <2>3, Steps
  <1>. QED  BY <1>1, <1>2

\* What a call finds of its thread, by what it does.
LEMMA Finds ==
    ASSUME NEW f, NEW t, NEW ops, Calling(f, t, ops)
    PROVE  /\ f \in FiberStates /\ f.sched_count <= f.limit + 1 /\ ~f.special
           /\ f.outcome = "none" /\ f.running = t /\ t \in Thread
           /\ f.state[t] = "ready" /\ f.at[t] = "test" /\ f.dp[t] = 0
           /\ f.scopes[t] = f.disabled + Aside(f.saved[t])
           /\ (f.from[t] # Main <=> f.saved[t] # -1)
           /\ f.disabled \in Nat /\ f.saved[t] \in Nat \cup {-1}
           /\ Lends(f, t) /\ Going(f, t) /\ \A u \in Thread \ {t} : Left(f, u)
           /\ Fits(f.code[t], f.disabled, f.saved[t])
           /\ f.code[t] # <<>> /\ Head(f.code[t]).op \in ops
           /\ Tail(f.code[t]) \in Seq(Calls)
  <1>1. /\ f \in FiberStates /\ f.sched_count <= f.limit + 1 /\ ~f.special
        /\ f.state[t] = "ready" /\ Going(f, t) /\ f.code[t] # <<>> /\ Head(f.code[t]).op \in ops
    BY DEF Calling, Asks
  <1>2. /\ f.outcome = "none" /\ f.running = t /\ t \in Thread
        /\ RunsAs(f, t) /\ Lends(f, t) /\ \A u \in Thread \ {t} : Left(f, u)
    BY <1>1 DEF Going
  <1>3. /\ f.at[t] = "test" /\ f.dp[t] = 0 /\ f.scopes[t] = f.disabled + Aside(f.saved[t])
        /\ (f.from[t] # Main <=> f.saved[t] # -1) /\ Fits(f.code[t], f.disabled, f.saved[t])
    BY <1>2 DEF RunsAs, RunsAt
  <1>4. f.disabled \in Nat /\ f.saved[t] \in Nat \cup {-1} /\ Tail(f.code[t]) \in Seq(Calls)
    BY <1>1, <1>3, Asked
  <1>. QED  BY <1>1, <1>2, <1>3, <1>4

\* The thread waits, and another goes on.
LEMMA ParkWorks ==
    ASSUME NEW f, NEW t, Calling(f, t, {"park"}), NEW g \in DoPark(f, t)
    PROVE  Threading(g)
  <1>1. /\ f \in FiberStates /\ f.sched_count <= f.limit + 1 /\ ~f.special
        /\ f.outcome = "none" /\ t \in Thread /\ f.disabled \in Nat
        /\ f.scopes[t] = f.disabled + Aside(f.saved[t]) /\ (f.from[t] # Main <=> f.saved[t] # -1)
        /\ Lends(f, t) /\ (\A u \in Thread \ {t} : Left(f, u)) /\ Asks(f.code[t], {"park"})
        /\ Fits(f.code[t], f.disabled, f.saved[t])
    BY Finds DEF Asks
  <1>2. f.saved[t] = -1 /\ f.from[t] = Main /\ f.scopes[t] = f.disabled
    <2>1. /\ f.code[t] # <<>> /\ Head(f.code[t]).op = "park"
          /\ Fits(f.code[t], f.disabled, f.saved[t])
      BY <1>1 DEF Asks
    <2>2. f.saved[t] = -1
      BY <2>1, Asked
    <2>. QED  BY <1>1, <2>2 DEF Aside
  <1>3. PICK k : k = [f EXCEPT !.dp[t] = f.disabled, !.disabled = 0, !.state[t] = "parked"]
    OBVIOUS
  <1>4. k = [Verify(f, ~f.special /\ f.saved[t] = -1) EXCEPT
                !.dp[t] = f.disabled, !.disabled = 0, !.state[t] = "parked"]
    BY <1>1, <1>2, <1>3 DEF Verify
  <1>5. k \in FiberStates
    BY <1>1, <1>3 DEF FiberStates
  <1>6. /\ k.dp = [f.dp EXCEPT ![t] = f.disabled] /\ k.disabled = 0
        /\ k.state = [f.state EXCEPT ![t] = "parked"] /\ k.at = f.at /\ k.code = f.code
        /\ k.from = f.from /\ k.saved = f.saved /\ k.scopes = f.scopes /\ k.outcome = f.outcome
        /\ k.special = f.special /\ k.sched_count = f.sched_count /\ k.limit = f.limit
    BY <1>1, <1>3 DEF FiberStates
  <1>7. f.dp \in [Thread -> Nat]
        /\ f.state \in [Thread -> {"none", "ready", "parked", "finished"}]
    BY <1>1 DEF FiberStates
  <1>8. CASE Ready(k) \cup Timed(k) = {}
    <2>1. g = Fail(k, "deadlock") /\ "deadlock" \in Outcomes \ {"none"}
      BY <1>4, <1>8, Zenon DEF DoPark, Outcomes
    <2>. QED  BY <2>1, <1>1, <1>5, <1>6, Failing
  <1>9. CASE Ready(k) \cup Timed(k) # {}
    <2>1. g \in Schedule(k, t, "park")
      BY <1>4, <1>9, Zenon DEF DoPark
    <2>2. k.dp[t] = f.disabled /\ k.state[t] = "parked"
      BY <1>1, <1>6, <1>7
    <2>3. LeftAt("park", k.code[t], k.state[t], Main, k.saved[t], k.dp[t], k.scopes[t])
      BY <1>1, <1>2, <1>6, <2>2 DEF LeftAt
    <2>4. ASSUME NEW u \in Thread \ {t} PROVE Left(k, u)
      BY <1>1, <1>6, <1>7 DEF Left
    <2>5. Lends(k, t) /\ k.from[t] = Main /\ k.outcome = "none"
      BY <1>1, <1>2, <1>6 DEF Lends
    <2>6. "park" \in Places /\ "park" # "unpark"
      BY DEF Places
    <2>7. AllLeft([k EXCEPT !.at[t] = "park"])
      BY <1>1, <1>5, <1>6, <2>3, <2>4, <2>5, <2>6, Leaves
    <2>. QED  BY <1>1, <1>5, <1>6, <2>1, <2>5, <2>6, <2>7, Schedules
  <1>. QED  BY <1>8, <1>9

\* A call that lets nobody else go on, with the processor lent or not.
LEMMA GoesOnItself ==
    ASSUME NEW f, NEW t, NEW ops, Calling(f, t, ops), NEW h \in FiberStates,
           h.code = f.code, h.running = t, h.outcome = "none", h.at = f.at, h.from = f.from,
           h.saved = f.saved, h.dp = f.dp, h.special = f.special,
           h.sched_count = f.sched_count, h.limit = f.limit, h.state[t] = "ready",
           h.scopes[t] = h.disabled + Aside(h.saved[t]),
           Fits(Tail(f.code[t]), h.disabled, f.saved[t]),
           \A u \in Thread \ {t} : Left(h, u),
           NEW g, g = Advance(h, t)
    PROVE  Threading(g)
  <1>1. /\ f \in FiberStates /\ f.sched_count <= f.limit + 1 /\ ~f.special /\ t \in Thread
        /\ Going(f, t) /\ Tail(f.code[t]) \in Seq(Calls)
    BY Finds
  <1>2. Continues(h, g, t, Tail(h.code[t]))
    BY <1>1, Advances
  <1>3. ASSUME NEW u \in Thread \ {t} PROVE Left(g, u)
    BY <1>2 DEF Continues, SameFor, Left
  <1>4. /\ g \in FiberStates /\ g.code[t] = Tail(f.code[t]) /\ g.running = t /\ g.at = f.at
        /\ g.state[t] = "ready" /\ g.from = f.from /\ g.saved = f.saved /\ g.dp = f.dp
        /\ g.scopes[t] = g.disabled + Aside(g.saved[t]) /\ ~g.special
        /\ g.outcome = "none" /\ g.sched_count <= g.limit + 1 /\ g.disabled = h.disabled
    BY <1>1, <1>2 DEF Continues
  <1>5. Going(g, t)
    BY <1>1, <1>3, <1>4, StaysOn
  <1>. QED  BY <1>4, <1>5 DEF Threading, Sound

\* A thread unparks one that waits: it makes it ready, or lends it the processor.
LEMMA UnparkWorks ==
    ASSUME NEW f, NEW t, Calling(f, t, {"unpark"}), NEW g \in DoUnpark(f, t)
    PROVE  Threading(g)
  <1>1. /\ f \in FiberStates /\ f.sched_count <= f.limit + 1 /\ ~f.special
        /\ f.outcome = "none" /\ f.running = t /\ t \in Thread /\ f.state[t] = "ready"
        /\ f.dp[t] = 0 /\ f.scopes[t] = f.disabled + Aside(f.saved[t])
        /\ (f.from[t] # Main <=> f.saved[t] # -1) /\ Lends(f, t)
        /\ (\A u \in Thread \ {t} : Left(f, u)) /\ Fits(f.code[t], f.disabled, f.saved[t])
        /\ f.code[t] # <<>> /\ Head(f.code[t]).op = "unpark"
    BY Finds
  <1>2. f.saved[t] = -1 /\ f.disabled = 0 /\ Fits(Tail(f.code[t]), 0, -1)
    <2>1. Head(f.code[t]).op \in {"yield", "unpark", "create"}
      BY <1>1
    <2>. QED  BY <1>1, <2>1, Plainly
  <1>3. f.from[t] = Main /\ f.scopes[t] = 0
    BY <1>1, <1>2 DEF Aside
  <1>4. f = Verify(f, ~f.special)
    BY <1>1 DEF Verify
  <1>5. CASE g = Advance(f, t)
    BY <1>1, <1>2, <1>5, GoesOnItself
  <1>6. ASSUME NEW u \in Parked(f), g = UnparkThread(f, t, u)
        PROVE  Threading(g)
    <2>1. u \in Thread \ {t} /\ f.state[u] = "parked"
      BY <1>1 DEF Parked
    <2>2. /\ f.at[u] = "park" /\ f.from[u] = Main /\ Fits(f.code[u], f.dp[u], -1)
          /\ f.saved[u] = -1 /\ f.scopes[u] = f.dp[u] /\ f.code[u] # <<>>
          /\ Head(f.code[u]).op = "park"
      BY <1>1, <2>1 DEF Left, LeftAt, Asks
    <2>3. Head(f.code[u]).hand \in BOOLEAN
      BY <2>2, Onward, CallKinds
    <2>4. /\ f.state \in [Thread -> {"none", "ready", "parked", "finished"}]
          /\ f.from \in [Thread -> Thread \cup {Main}] /\ f.at \in [Thread -> Places]
          /\ f.reason \in [Thread -> {"normal", "timeout", "spurious"}]
          /\ f.dp[u] \in Nat
      BY <1>1, <2>1 DEF FiberStates
    <2>5. CASE ~Head(f.code[u]).hand
      <3>1. PICK h : h = [f EXCEPT !.state[u] = "ready", !.reason[u] = "normal"]
        OBVIOUS
      <3>2. g = Advance(h, t)
        BY <1>6, <2>5, <3>1 DEF UnparkThread
      <3>3. h \in FiberStates
        BY <1>1, <2>1, <3>1 DEF FiberStates
      <3>4. /\ h.state = [f.state EXCEPT ![u] = "ready"] /\ h.at = f.at /\ h.code = f.code
            /\ h.from = f.from /\ h.saved = f.saved /\ h.dp = f.dp /\ h.scopes = f.scopes
            /\ h.running = t /\ h.outcome = "none" /\ h.special = f.special
            /\ h.sched_count = f.sched_count /\ h.limit = f.limit /\ h.disabled = f.disabled
        BY <1>1, <3>1 DEF FiberStates
      <3>5. ASSUME NEW v \in Thread \ {t} PROVE Left(h, v)
        <4>1. CASE v # u
          BY <1>1, <2>4, <3>4, <4>1 DEF Left
        <4>2. CASE v = u
          <5>1. h.state[u] = "ready"
            BY <2>1, <2>4, <3>4
          <5>2. /\ h.at[u] = "park" /\ h.from[u] = Main /\ h.saved[u] = -1 /\ h.code[u] = f.code[u]
                /\ h.dp[u] = f.dp[u] /\ h.scopes[u] = f.dp[u]
            BY <2>2, <3>4
          <5>. QED  BY <2>2, <2>5, <4>2, <5>1, <5>2 DEF Left, LeftAt, Asks
        <4>. QED  BY <4>1, <4>2
      <3>6. h.state[t] = "ready"
        BY <1>1, <2>1, <2>4, <3>4
      <3>7. h.scopes[t] = h.disabled + Aside(h.saved[t]) /\ h.disabled = 0
        BY <1>1, <1>2, <3>4
      <3>. QED  BY <1>1, <1>2, <3>2, <3>3, <3>4, <3>5, <3>6, <3>7, GoesOnItself
    <2>6. CASE Head(f.code[u]).hand
      <3>1. PICK h : h = [f EXCEPT !.state[u] = "ready", !.reason[u] = "normal", !.from[u] = t,
                                   !.at[t] = "unpark"]
        OBVIOUS
      <3>2. g = SwitchTo(h, u)
        BY <1>6, <2>6, <3>1 DEF UnparkThread
      <3>3. h \in FiberStates
        <4>1. "unpark" \in Places
          BY DEF Places
        <4>. QED  BY <1>1, <2>1, <3>1, <4>1 DEF FiberStates
      <3>4. /\ h.state = [f.state EXCEPT ![u] = "ready"] /\ h.at = [f.at EXCEPT ![t] = "unpark"]
            /\ h.reason = [f.reason EXCEPT ![u] = "normal"] /\ h.from = [f.from EXCEPT ![u] = t]
            /\ h.code = f.code /\ h.saved = f.saved /\ h.dp = f.dp /\ h.scopes = f.scopes
            /\ h.outcome = "none" /\ h.special = f.special
            /\ h.sched_count = f.sched_count /\ h.limit = f.limit /\ h.disabled = 0
        BY <1>1, <1>2, <3>1 DEF FiberStates
      <3>5. /\ h.state[u] = "ready" /\ h.reason[u] = "normal" /\ h.from[u] = t /\ h.at[u] = "park"
            /\ h.at[t] = "unpark" /\ h.from[t] = Main /\ h.state[t] = "ready"
            /\ \A v \in Thread \ {t, u} : SameFor(f, h, v)
        BY <1>1, <1>3, <2>1, <2>2, <2>4, <3>4 DEF SameFor
      <3>6. t # Main
        BY <1>1, FibersAssumption
      <3>7. Fits(Tail(h.code[u]), 0, h.dp[u])
        BY <2>2, <2>6, <3>4, Onward
      <3>8. IsMet(h, u)
        BY <2>6, <3>4, <3>5 DEF IsMet
      <3>9. Arrived(h, g, u, Tail(h.code[u]), h.dp[u], 0)
        BY <2>1, <2>2, <3>2, <3>3, <3>4, <3>5, <3>6, <3>7, <3>8, FromParkMet
      <3>10. RunsAs(g, u)
        <4>1. g.saved[u] # -1 /\ g.scopes[u] = 0 + Aside(g.saved[u]) /\ g.from[u] # Main
          BY <2>1, <2>2, <2>4, <3>4, <3>5, <3>6, <3>9 DEF Arrived, Aside
        <4>. QED  BY <3>7, <3>9, <4>1 DEF Arrived, RunsAs, RunsAt
      <3>11. ASSUME NEW v \in Thread \ {u} PROVE Left(g, v) /\ (g.at[v] = "unpark" => v = t)
        <4>1. SameFor(h, g, v)
          BY <3>9 DEF Arrived
        <4>2. CASE v = t
          <5>1. LeftAt("unpark", f.code[t], "ready", Main, -1, 0, 0)
            BY <1>1, <1>2 DEF LeftAt, Asks
          <5>2. /\ g.at[t] = "unpark" /\ g.code[t] = f.code[t] /\ g.state[t] = "ready"
                /\ g.from[t] = Main /\ g.saved[t] = -1 /\ g.dp[t] = 0 /\ g.scopes[t] = 0
            BY <1>1, <1>2, <1>3, <3>4, <3>5, <4>1, <4>2 DEF SameFor
          <5>. QED  BY <4>2, <5>1, <5>2 DEF Left
        <4>3. CASE v # t
          <5>1. SameFor(f, h, v)
            BY <3>5, <4>3
          <5>2. Left(f, v) /\ f.at[v] # "unpark"
            BY <1>1, <1>3, <4>3, NoneLends
          <5>. QED  BY <4>1, <5>1, <5>2 DEF SameFor, Left
        <4>. QED  BY <4>2, <4>3
      <3>12. Lends(g, u)
        <4>1. g.from[u] = t /\ g.at[t] = "unpark" /\ t # u
          BY <2>1, <3>5, <3>9, <1>1 DEF Arrived, SameFor
        <4>. QED  BY <3>11, <4>1 DEF Lends
      <3>13. /\ g \in FiberStates /\ g.running = u /\ g.outcome = "none" /\ g.state[u] = "ready"
             /\ ~g.special /\ g.sched_count <= g.limit + 1
        BY <1>1, <3>4, <3>5, <3>9 DEF Arrived, Keeps
      <3>. QED  BY <2>1, <3>10, <3>11, <3>12, <3>13 DEF Threading, Sound, Going
    <2>. QED  BY <2>3, <2>5, <2>6
  <1>. QED  BY <1>4, <1>5, <1>6 DEF DoUnpark

\* A thread gives the processor back to the one that has lent it.
LEMMA SwitchBackWorks ==
    ASSUME NEW f, NEW t, Calling(f, t, {"switch_back"}), NEW g, g = DoSwitchBack(f, t)
    PROVE  Threading(g)
  <1>1. /\ f \in FiberStates /\ f.sched_count <= f.limit + 1 /\ ~f.special
        /\ f.outcome = "none" /\ f.running = t /\ t \in Thread /\ f.state[t] = "ready"
        /\ f.dp[t] = 0 /\ f.scopes[t] = f.disabled + Aside(f.saved[t])
        /\ (f.from[t] # Main <=> f.saved[t] # -1) /\ Lends(f, t)
        /\ (\A u \in Thread \ {t} : Left(f, u)) /\ Fits(f.code[t], f.disabled, f.saved[t])
        /\ f.code[t] # <<>> /\ Head(f.code[t]).op = "switch_back"
        /\ f.saved[t] \in Nat \cup {-1}
    BY Finds
  <1>2. f.saved[t] # -1 /\ f.disabled = 0
    <2>1. /\ f.code[t] # <<>> /\ Head(f.code[t]).op = "switch_back"
          /\ Fits(f.code[t], f.disabled, f.saved[t])
      BY <1>1
    <2>. QED  BY <2>1, Asked
  <1>3. f.from[t] # Main /\ f.scopes[t] = f.saved[t]
    BY <1>1, <1>2 DEF Aside
  <1>4. PICK v : v = f.from[t]
    OBVIOUS
  <1>5. /\ f.at \in [Thread -> Places] /\ f.from \in [Thread -> Thread \cup {Main}]
    BY <1>1 DEF FiberStates
  <1>6. v \in Thread \ {t} /\ f.at[v] = "unpark"
        /\ \A u \in Thread \ {t} : f.at[u] = "unpark" => u = v
    BY <1>1, <1>3, <1>4, <1>5 DEF Lends
  <1>7. PICK h : h = [f EXCEPT !.from[t] = Main, !.at[t] = "switch_back"]
    OBVIOUS
  <1>8. g = SwitchTo(h, v)
    <2>1. f = Verify(f, f.saved[t] # -1 /\ f.from[t] # Main)
      BY <1>2, <1>3 DEF Verify
    <2>. QED  BY <1>4, <1>7, <2>1, Zenon DEF DoSwitchBack
  <1>9. h \in FiberStates
    <2>1. "switch_back" \in Places
      BY DEF Places
    <2>. QED  BY <1>1, <1>7, <2>1 DEF FiberStates
  <1>10. /\ h.at = [f.at EXCEPT ![t] = "switch_back"] /\ h.from = [f.from EXCEPT ![t] = Main]
         /\ h.state = f.state /\ h.code = f.code /\ h.saved = f.saved /\ h.dp = f.dp
         /\ h.scopes = f.scopes /\ h.outcome = "none" /\ h.special = f.special
         /\ h.sched_count = f.sched_count /\ h.limit = f.limit /\ h.disabled = 0
    BY <1>1, <1>2, <1>7 DEF FiberStates
  <1>11. /\ h.at[t] = "switch_back" /\ h.from[t] = Main
         /\ \A u \in Thread \ {t} : SameFor(f, h, u)
    BY <1>1, <1>5, <1>10 DEF SameFor
  <1>12. /\ LeftAt("unpark", f.code[v], f.state[v], f.from[v], f.saved[v], f.dp[v], f.scopes[v])
         /\ SameFor(f, h, v)
    BY <1>1, <1>6, <1>11 DEF Left
  <1>13. /\ h.at[v] = "unpark" /\ h.from[v] = Main /\ h.saved[v] = -1 /\ h.dp[v] = 0
         /\ h.scopes[v] = 0 /\ Fits(h.code[v], 0, -1) /\ h.code[v] # <<>>
         /\ Head(h.code[v]).op = "unpark" /\ h.state[v] \notin {"parked", "none", "finished"}
    BY <1>6, <1>12 DEF SameFor, LeftAt, Asks
  <1>14. h.state[v] = "ready"
    BY <1>6, <1>9, <1>13 DEF FiberStates
  <1>15. Fits(Tail(h.code[v]), 0, -1)
    BY <1>13, Onward
  <1>16. Arrived(h, g, v, Tail(h.code[v]), -1, 0)
    <2>1. v \in Thread /\ h.disabled = 0
      BY <1>6, <1>10
    <2>. QED  BY <1>8, <1>9, <1>13, <1>15, <2>1, FromUnpark
  <1>17. RunsAs(g, v) /\ g.from[v] = Main
    <2>1. g.scopes[v] = 0 + Aside(g.saved[v]) /\ g.from[v] = Main
      BY <1>13, <1>16 DEF Arrived, Aside
    <2>. QED  BY <1>15, <1>16, <2>1 DEF Arrived, RunsAs, RunsAt
  <1>18. ASSUME NEW u \in Thread \ {v} PROVE Left(g, u) /\ g.at[u] # "unpark"
    <2>1. SameFor(h, g, u)
      BY <1>16 DEF Arrived
    <2>2. CASE u = t
      <3>1. LeftAt("switch_back", f.code[t], "ready", Main, f.saved[t], 0, f.saved[t])
        BY <1>1, <1>2 DEF LeftAt, Asks
      <3>2. /\ g.at[t] = "switch_back" /\ g.code[t] = f.code[t] /\ g.state[t] = "ready"
            /\ g.from[t] = Main /\ g.saved[t] = f.saved[t] /\ g.dp[t] = 0
            /\ g.scopes[t] = f.saved[t]
        BY <1>1, <1>3, <1>10, <1>11, <2>1, <2>2 DEF SameFor
      <3>. QED  BY <2>2, <3>1, <3>2 DEF Left
    <2>3. CASE u # t
      <3>1. SameFor(f, h, u)
        BY <1>11, <2>3
      <3>2. Left(f, u) /\ f.at[u] # "unpark"
        BY <1>1, <1>6, <2>3
      <3>. QED  BY <2>1, <3>1, <3>2 DEF SameFor, Left
    <2>. QED  BY <2>2, <2>3
  <1>19. Lends(g, v)
    BY <1>17, <1>18 DEF Lends
  <1>20. /\ g \in FiberStates /\ g.running = v /\ g.outcome = "none" /\ g.state[v] = "ready"
         /\ ~g.special /\ g.sched_count <= g.limit + 1
    BY <1>1, <1>10, <1>14, <1>16 DEF Arrived, Keeps
  <1>. QED  BY <1>6, <1>17, <1>18, <1>19, <1>20 DEF Threading, Sound, Going

\* A preemption_disabler begins or ends.
LEMMA DisablerWorks ==
    ASSUME NEW f, NEW t, Calling(f, t, {"disable", "enable"}),
           NEW d, d = IF Head(f.code[t]).op = "disable" THEN f.disabled + 1 ELSE f.disabled - 1,
           NEW e, e = IF Head(f.code[t]).op = "disable" THEN f.scopes[t] + 1 ELSE f.scopes[t] - 1,
           NEW g, g = Advance([f EXCEPT !.disabled = d, !.scopes[t] = e], t)
    PROVE  Threading(g)
  <1>1. /\ f \in FiberStates /\ ~f.special
        /\ f.outcome = "none" /\ f.running = t /\ t \in Thread /\ f.state[t] = "ready"
        /\ f.scopes[t] = f.disabled + Aside(f.saved[t])
        /\ f.disabled \in Nat /\ f.saved[t] \in Nat \cup {-1}
        /\ (\A u \in Thread \ {t} : Left(f, u)) /\ Fits(f.code[t], f.disabled, f.saved[t])
        /\ f.code[t] # <<>> /\ Head(f.code[t]).op \in {"disable", "enable"}
    BY Finds
  <1>2. Fits(Tail(f.code[t]), d, f.saved[t])
    BY <1>1, Onward
  <1>3. d \in Nat
    BY <1>2, FitsFacts
  <1>4. Aside(f.saved[t]) \in Nat
    BY <1>1 DEF Aside
  <1>5. e = d + Aside(f.saved[t]) /\ e \in Nat
    <2>1. PICK a \in Nat : a = Aside(f.saved[t])
      BY <1>4
    <2>2. PICK n \in Nat : n = f.disabled
      BY <1>1
    <2>3. f.scopes[t] = n + a
      BY <1>1, <2>1, <2>2
    <2>4. CASE Head(f.code[t]).op = "disable"
      <3>1. d = n + 1 /\ e = (n + a) + 1
        BY <2>2, <2>3, <2>4
      <3>. QED  BY <2>1, <3>1
    <2>5. CASE Head(f.code[t]).op # "disable"
      <3>1. d = n - 1 /\ e = (n + a) - 1
        BY <2>2, <2>3, <2>5
      <3>. QED  BY <1>3, <2>1, <3>1
    <2>. QED  BY <2>4, <2>5
  <1>6. PICK h : h = [f EXCEPT !.disabled = d, !.scopes[t] = e]
    OBVIOUS
  <1>7. h \in FiberStates
    BY <1>1, <1>3, <1>5, <1>6 DEF FiberStates
  <1>8. /\ h.code = f.code /\ h.running = t /\ h.outcome = "none" /\ h.at = f.at
        /\ h.from = f.from /\ h.saved = f.saved /\ h.dp = f.dp /\ h.special = f.special
        /\ h.sched_count = f.sched_count /\ h.limit = f.limit /\ h.state = f.state
        /\ h.disabled = d /\ h.scopes = [f.scopes EXCEPT ![t] = e]
        /\ f.scopes \in [Thread -> Nat]
    BY <1>1, <1>6 DEF FiberStates
  <1>9. h.scopes[t] = h.disabled + Aside(h.saved[t])
    BY <1>1, <1>5, <1>8
  <1>10. ASSUME NEW u \in Thread \ {t} PROVE Left(h, u)
    BY <1>1, <1>8 DEF Left
  <1>11. g = Advance(h, t)
    BY <1>6
  <1>. QED  BY <1>1, <1>2, <1>7, <1>8, <1>9, <1>10, <1>11, GoesOnItself

\* A dynamic thread is created.
LEMMA CreateWorks ==
    ASSUME NEW f, NEW t, Calling(f, t, {"create"}), NEW g \in DoCreate(f, t)
    PROVE  Threading(g)
  <1>1. /\ f \in FiberStates /\ ~f.special
        /\ f.outcome = "none" /\ f.running = t /\ t \in Thread /\ f.state[t] = "ready"
        /\ f.scopes[t] = f.disabled + Aside(f.saved[t])
        /\ (\A u \in Thread \ {t} : Left(f, u)) /\ Fits(f.code[t], f.disabled, f.saved[t])
        /\ f.code[t] # <<>> /\ Head(f.code[t]).op = "create"
    BY Finds
  <1>2. f.saved[t] = -1 /\ f.disabled = 0 /\ Fits(Tail(f.code[t]), 0, -1)
    <2>1. Head(f.code[t]).op \in {"yield", "unpark", "create"}
      BY <1>1
    <2>. QED  BY <1>1, <2>1, Plainly
  <1>3. PICK u \in Thread : f.state[u] = "none" /\ g = Advance([f EXCEPT !.state[u] = "ready"], t)
    BY FibersAssumption DEF DoCreate
  <1>4. PICK h : h = [f EXCEPT !.state[u] = "ready"]
    OBVIOUS
  <1>5. h \in FiberStates
    BY <1>1, <1>3, <1>4 DEF FiberStates
  <1>6. /\ h.code = f.code /\ h.running = t /\ h.outcome = "none" /\ h.at = f.at
        /\ h.from = f.from /\ h.saved = f.saved /\ h.dp = f.dp /\ h.special = f.special
        /\ h.sched_count = f.sched_count /\ h.limit = f.limit
        /\ h.state = [f.state EXCEPT ![u] = "ready"]
        /\ h.disabled = f.disabled /\ h.scopes = f.scopes
        /\ f.state \in [Thread -> {"none", "ready", "parked", "finished"}]
    BY <1>1, <1>4 DEF FiberStates
  <1>7. u # t /\ f.at[u] = "top"
    BY <1>1, <1>3 DEF Left, LeftAt
  <1>8. ASSUME NEW v \in Thread \ {t} PROVE Left(h, v)
    <2>1. CASE v = u
      <3>1. h.state[u] = "ready"
        BY <1>6
      <3>2. Left(f, u)
        BY <1>1, <1>7
      <3>. QED  BY <1>6, <1>7, <2>1, <3>1, <3>2 DEF Left, LeftAt
    <2>2. CASE v # u
      <3>1. h.state[v] = f.state[v]
        BY <1>6, <2>2
      <3>. QED  BY <1>1, <1>6, <3>1 DEF Left
    <2>. QED  BY <2>1, <2>2
  <1>9. h.state[t] = "ready" /\ h.scopes[t] = h.disabled + Aside(h.saved[t])
    BY <1>1, <1>6, <1>7
  <1>10. g = Advance(h, t) /\ Fits(Tail(f.code[t]), h.disabled, f.saved[t])
    BY <1>2, <1>3, <1>4, <1>6
  <1>. QED  BY <1>1, <1>5, <1>6, <1>8, <1>9, <1>10, GoesOnItself

\* A thread ends: another goes on, or the last of them with what follows.
LEMMA EndWorks ==
    ASSUME NEW f, NEW t, Calling(f, t, {"end"}), NEW g \in DoEnd(f, t)
    PROVE  Threading(g)
  <1>1. /\ f \in FiberStates /\ f.sched_count <= f.limit + 1 /\ ~f.special
        /\ f.outcome = "none" /\ f.running = t /\ t \in Thread /\ f.at[t] = "test"
        /\ f.dp[t] = 0 /\ f.scopes[t] = f.disabled + Aside(f.saved[t])
        /\ (f.from[t] # Main <=> f.saved[t] # -1) /\ Lends(f, t)
        /\ (\A u \in Thread \ {t} : Left(f, u)) /\ Fits(f.code[t], f.disabled, f.saved[t])
        /\ f.code[t] # <<>> /\ Head(f.code[t]).op = "end" /\ Tail(f.code[t]) \in Seq(Calls)
    BY Finds
  <1>2. f.saved[t] = -1 /\ f.disabled = 0 /\ Tail(f.code[t]) = <<>>
    BY <1>1, Asked
  <1>3. f.from[t] = Main /\ f.scopes[t] = 0
    BY <1>1, <1>2 DEF Aside
  <1>4. PICK h : h = [f EXCEPT !.state[t] = "finished"]
    OBVIOUS
  <1>5. h \in FiberStates
    BY <1>1, <1>4 DEF FiberStates
  <1>6. /\ h.code = f.code /\ h.running = t /\ h.outcome = "none" /\ h.at = f.at
        /\ h.from = f.from /\ h.saved = f.saved /\ h.dp = f.dp /\ h.special = f.special
        /\ h.sched_count = f.sched_count /\ h.limit = f.limit
        /\ h.state = [f.state EXCEPT ![t] = "finished"]
        /\ h.disabled = f.disabled /\ h.scopes = f.scopes
        /\ f.state \in [Thread -> {"none", "ready", "parked", "finished"}]
    BY <1>1, <1>4 DEF FiberStates
  <1>7. PICK k : k = Advance(h, t)
    OBVIOUS
  <1>8. Continues(h, k, t, <<>>)
    <2>1. Tail(h.code[t]) = <<>> /\ Tail(h.code[t]) \in Seq(Calls)
      BY <1>1, <1>2, <1>6
    <2>2. Continues(h, k, t, Tail(h.code[t]))
      BY <1>1, <1>5, <1>7, <2>1, Advances
    <2>. QED  BY <2>1, <2>2
  <1>9. /\ k \in FiberStates /\ k.code[t] = <<>> /\ k.running = t /\ k.at = f.at
        /\ k.state = [f.state EXCEPT ![t] = "finished"] /\ k.from = f.from /\ k.saved = f.saved
        /\ k.dp = f.dp /\ k.disabled = 0 /\ k.scopes = f.scopes /\ ~k.special
        /\ k.outcome = "none" /\ k.sched_count <= k.limit + 1 /\ k.state[t] = "finished"
        /\ \A u \in Thread \ {t} : k.code[u] = f.code[u] /\ k.state[u] = f.state[u]
    BY <1>1, <1>2, <1>6, <1>8 DEF Continues, SameFor
  <1>10. k = Advance([Verify(f, f.disabled = 0 /\ f.from[t] = Main /\ f.saved[t] = -1) EXCEPT
                        !.state[t] = "finished"], t)
    BY <1>2, <1>3, <1>4, <1>7 DEF Verify
  <1>11. ASSUME NEW u \in Thread \ {t} PROVE Left(k, u)
    BY <1>1, <1>9 DEF Left
  <1>12. Lends(k, t)
    BY <1>1, <1>9 DEF Lends
  <1>13. PICK r : r = IF Ready(k) \cup Timed(k) = {}
                        THEN [k EXCEPT !.state = [u \in Thread |-> IF @[u] = "none" THEN "ready"
                                                                   ELSE @[u]]]
                        ELSE k
    OBVIOUS
  <1>18. DoEnd(f, t) =
            IF \A u \in Thread : k.state[u] = "finished"
              THEN {Invariant([k EXCEPT !.special = TRUE])}
            ELSE IF Ready(r) \cup Timed(r) = {} THEN {Fail(k, "deadlock")}
            ELSE IF Exceeds(k, 1) THEN {Fail(k, "livelock")}
            ELSE Schedule(Counted(r, 1), t, "top")
    BY <1>10, <1>13, Zenon DEF DoEnd
  <1>14. CASE \A u \in Thread : k.state[u] = "finished"
    <2>1. PICK a : a = [k EXCEPT !.special = TRUE]
      OBVIOUS
    <2>2. g = Invariant(a)
      BY <1>10, <1>14, <2>1, Zenon DEF DoEnd
    <2>3. a \in FiberStates /\ a.sched_count <= a.limit + 1 /\ a.outcome = "none"
      BY <1>9, <2>1 DEF FiberStates
    <2>4. CASE g.outcome # "none"
      BY <2>2, <2>3, <2>4, Invariants
    <2>5. CASE g.outcome = "none"
      <3>1. /\ g \in FiberStates /\ g.sched_count <= g.limit + 1
            /\ \E n \in Nat : g = [a EXCEPT !.sched_count = n]
        BY <2>2, <2>3, <2>5, Invariants
      <3>2. PICK n \in Nat : g = [a EXCEPT !.sched_count = n]
        BY <3>1
      <3>3. /\ g.running = t /\ g.at = k.at /\ g.code = k.code /\ g.state = k.state
            /\ g.from = k.from /\ g.saved = k.saved /\ g.dp = k.dp /\ g.disabled = k.disabled
            /\ g.scopes = k.scopes /\ g.special
        BY <1>9, <2>1, <3>2 DEF FiberStates
      <3>4. Fits(<<>>, 0, -1)
        BY Nothing DEF Fits
      <3>5. g.scopes[t] = g.disabled + Aside(g.saved[t])
        BY <1>2, <1>3, <1>9, <3>3 DEF Aside
      <3>6. RunsAs(g, t)
        BY <1>1, <1>2, <1>3, <1>9, <3>3, <3>4, <3>5 DEF RunsAs, RunsAt
      <3>7. Lends(g, t) /\ \A u \in Thread \ {t} : Left(g, u)
        BY <1>11, <1>12, <3>3 DEF Lends, Left
      <3>8. Going(g, t)
        BY <1>1, <2>5, <3>3, <3>6, <3>7 DEF Going
      <3>9. Sound(g) /\ f.running = t
        BY <1>1, <3>1, <3>3, <3>8 DEF Sound
      <3>10. g.code[g.running] = <<>>
        BY <1>9, <3>3
      <3>11. \A u \in Thread : g.state[u] = "finished"
        BY <1>14, <3>3
      <3>. QED  BY <3>3, <3>9, <3>10, <3>11 DEF Threading
    <2>. QED  BY <2>4, <2>5
  <1>15. CASE ~(\A u \in Thread : k.state[u] = "finished") /\ Ready(r) \cup Timed(r) = {}
    <2>1. g = Fail(k, "deadlock") /\ "deadlock" \in Outcomes \ {"none"}
      BY <1>10, <1>13, <1>15, Zenon DEF DoEnd, Outcomes
    <2>. QED  BY <1>9, <2>1, Failing
  <1>16. CASE /\ ~(\A u \in Thread : k.state[u] = "finished") /\ Ready(r) \cup Timed(r) # {}
              /\ Exceeds(k, 1)
    <2>1. g = Fail(k, "livelock")
      BY <1>16, <1>18
    <2>2. "livelock" \in Outcomes \ {"none"}
      BY DEF Outcomes
    <2>. QED  BY <1>9, <2>1, <2>2, Failing
  <1>17. CASE /\ ~(\A u \in Thread : k.state[u] = "finished") /\ Ready(r) \cup Timed(r) # {}
              /\ ~Exceeds(k, 1)
    <2>1. g \in Schedule(Counted(r, 1), t, "top")
      BY <1>17, <1>18
    <2>2. /\ r \in FiberStates /\ r.code = k.code /\ r.running = t /\ r.at = k.at
          /\ r.from = k.from /\ r.saved = k.saved /\ r.dp = k.dp /\ r.disabled = k.disabled
          /\ r.scopes = k.scopes /\ ~r.special /\ r.outcome = "none"
          /\ r.sched_count = k.sched_count /\ r.limit = k.limit
          /\ \A u \in Thread :
                r.state[u] = k.state[u] \/ (k.state[u] = "none" /\ r.state[u] = "ready")
      <3>1. CASE r = k
        BY <1>9, <3>1
      <3>2. CASE r # k
        <4>1. PICK s : s = [u \in Thread |-> IF k.state[u] = "none" THEN "ready" ELSE k.state[u]]
          OBVIOUS
        <4>2. r = [k EXCEPT !.state = s]
          BY <1>9, <1>13, <3>2, <4>1 DEF FiberStates
        <4>3. s \in [Thread -> {"none", "ready", "parked", "finished"}]
          BY <1>9, <4>1 DEF FiberStates
        <4>4. /\ r.code = k.code /\ r.running = t /\ r.at = k.at /\ r.state = s
              /\ r.from = k.from /\ r.saved = k.saved /\ r.dp = k.dp /\ r.disabled = k.disabled
              /\ r.scopes = k.scopes /\ ~r.special /\ r.outcome = "none"
              /\ r.sched_count = k.sched_count /\ r.limit = k.limit
          BY <1>9, <4>2 DEF FiberStates
        <4>5. r \in FiberStates
          BY <1>9, <4>2, <4>3 DEF FiberStates
        <4>. QED  BY <4>1, <4>4, <4>5
      <3>. QED  BY <3>1, <3>2
    <2>3. ~Exceeds(r, 1)
      BY <1>17, <2>2 DEF Exceeds
    <2>4. PICK c : c = Counted(r, 1)
      OBVIOUS
    <2>5. c \in FiberStates /\ c.sched_count <= c.limit + 1
      BY <2>2, <2>3, <2>4, Counts
    <2>6. PICK n \in Nat : c = [r EXCEPT !.sched_count = n]
      BY <2>2, <2>3, <2>4, Counts
    <2>7. /\ c.code = k.code /\ c.at = k.at /\ c.from = k.from /\ c.saved = k.saved
          /\ c.dp = k.dp /\ c.disabled = k.disabled /\ c.scopes = k.scopes /\ ~c.special
          /\ c.outcome = "none" /\ c.state = r.state
      BY <2>2, <2>6 DEF FiberStates
    <2>8. ASSUME NEW u \in Thread \ {t} PROVE Left(c, u)
      <3>1. Left(k, u)
        BY <1>11
      <3>2. c.state[u] = k.state[u] \/ (k.state[u] = "none" /\ c.state[u] = "ready")
        BY <2>2, <2>7
      <3>. QED  BY <2>7, <3>1, <3>2 DEF Left, LeftAt
    <2>9. Lends(c, t) /\ c.from[t] = Main /\ c.disabled = 0
      BY <1>3, <1>9, <1>12, <2>7 DEF Lends
    <2>10. c.state[t] = "finished"
      BY <1>1, <1>9, <2>2, <2>7
    <2>11. LeftAt("top", c.code[t], c.state[t], Main, c.saved[t], c.dp[t], c.scopes[t])
      BY <1>1, <1>2, <1>3, <1>9, <2>7, <2>10 DEF LeftAt
    <2>12. "top" \in Places /\ "top" # "unpark"
      BY DEF Places
    <2>13. AllLeft([c EXCEPT !.at[t] = "top"])
      BY <1>1, <2>5, <2>7, <2>8, <2>9, <2>11, <2>12, Leaves
    <2>. QED  BY <1>1, <2>1, <2>4, <2>5, <2>7, <2>9, <2>12, <2>13, Schedules
  <1>. QED  BY <1>14, <1>15, <1>16, <1>17

\* Whatever a thread calls, no check fails and each thread will find its depth.
LEMMA CallsWork ==
    ASSUME NEW f, NEW t, NEW ops, Calling(f, t, ops), NEW g \in Call(f, t)
    PROVE  Threading(g)
  <1>1. PICK op : op = Head(f.code[t]).op
    OBVIOUS
  <1>2. f.code[t] # <<>> /\ f \in FiberStates /\ t \in Thread
    BY Finds
  <1>3. Head(f.code[t]) \in Calls
    BY <1>2, Finds, Asked
  <1>4. op \in {"sched", "yield", "park", "unpark", "switch_back", "disable", "enable",
                "create", "end"}
    BY <1>1, <1>3, CallKinds
  <1>5. Calling(f, t, {op})
    BY <1>1, <1>2 DEF Calling, Asks
  <1>6. Calling(f, t, {"disable", "enable"}) \/ op \notin {"disable", "enable"}
    BY <1>1, <1>2, <1>5 DEF Calling, Asks
  <1>7. CASE op = "sched"
    BY <1>1, <1>2, <1>5, <1>7, SchedWorks DEF Call
  <1>8. CASE op = "yield"
    BY <1>1, <1>2, <1>5, <1>8, YieldWorks DEF Call
  <1>9. CASE op = "park"
    BY <1>1, <1>2, <1>5, <1>9, ParkWorks DEF Call
  <1>10. CASE op = "unpark"
    BY <1>1, <1>2, <1>5, <1>10, UnparkWorks DEF Call
  <1>11. CASE op = "switch_back"
    BY <1>1, <1>2, <1>5, <1>11, SwitchBackWorks DEF Call
  <1>12. CASE op = "disable"
    <2>1. g = Advance([f EXCEPT !.disabled = f.disabled + 1, !.scopes[t] = f.scopes[t] + 1], t)
      BY <1>1, <1>12 DEF Call
    <2>. QED  BY <1>1, <1>2, <1>6, <1>12, <2>1, DisablerWorks
  <1>13. CASE op = "enable"
    <2>1. g = Advance([f EXCEPT !.disabled = f.disabled - 1, !.scopes[t] = f.scopes[t] - 1], t)
      BY <1>1, <1>13 DEF Call
    <2>. QED  BY <1>1, <1>2, <1>6, <1>13, <2>1, DisablerWorks
  <1>14. CASE op = "create"
    BY <1>1, <1>2, <1>5, <1>14, CreateWorks DEF Call
  <1>15. CASE op = "end"
    BY <1>1, <1>2, <1>5, <1>15, EndWorks DEF Call
  <1>. QED  BY <1>4, <1>7, <1>8, <1>9, <1>10, <1>11, <1>12, <1>13, <1>14, <1>15

\* An operation makes at least one call.
LEMMA OperationsCall ==
    \A p \in Operations : p # <<>>
  <1>1. /\ Sched \in Calls /\ Unpark \in Calls /\ Disable \in Calls /\ Enable \in Calls
        /\ SwitchBack \in Calls /\ End \in Calls /\ Yield \in Calls /\ Create \in Calls
    BY CallKinds
  <1>2. ASSUME NEW a \in Seq(Calls), NEW b \in Seq(Calls), a # <<>> \/ b # <<>>
        PROVE  a \o b \in Seq(Calls) /\ a \o b # <<>>
    <2>1. Len(a) \in Nat /\ Len(b) \in Nat /\ (Len(a) # 0 \/ Len(b) # 0)
      BY <1>2, LenProperties, EmptySeq
    <2>2. Len(a \o b) # 0 /\ a \o b \in Seq(Calls)
      BY <2>1, ConcatProperties
    <2>. QED  BY <2>2, EmptySeq
  <1>3. \A a \in Calls : <<a>> \in Seq(Calls) /\ <<a>> # <<>>
    OBVIOUS
  <1>4. \A n \in Nat, call \in Calls : Times(n, call) \in Seq(Calls)
    BY DEF Times
  <1>5. \A n \in 0 .. MaxRepeats : n \in Nat
    BY FibersAssumption
  <1>6. \A n \in Nat : TakeSeveral(n) \in Seq(Calls)
    BY Taking DEF Goes
  <1>7. AtomicOperation # <<>> /\ YieldTurn # <<>> /\ CreateThread # <<>>
    BY <1>1, <1>3 DEF AtomicOperation, YieldTurn, CreateThread
  <1>8. ASSUME NEW timed \in BOOLEAN
        PROVE  /\ Join(timed) # <<>> /\ CondVarWait(timed) # <<>>
               /\ FutexWait(timed) # <<>> /\ SignalAndWait(timed) # <<>>
    BY DEF Join, CondVarWait, FutexWait, SignalAndWait
  <1>9. ASSUME NEW timed \in BOOLEAN, NEW spurious \in BOOLEAN PROVE Wait(timed, spurious) # <<>>
    BY DEF Wait
  <1>10. ASSUME NEW n \in 0 .. MaxRepeats
         PROVE  /\ Finish(n) # <<>> /\ Signal(n) # <<>>
                /\ FindSeveral(n) # <<>> /\ FutexWake(n) # <<>>
    <2>1. Times(n, Unpark) \in Seq(Calls) /\ TakeSeveral(n) \in Seq(Calls)
      BY <1>1, <1>4, <1>5, <1>6
    <2>2. <<Sched, Sched>> \in Seq(Calls) /\ <<Sched, Sched>> # <<>>
      BY <1>1
    <2>. QED  BY <1>1, <1>2, <1>3, <2>1, <2>2 DEF Finish, Signal, FindSeveral, FutexWake
  <1>11. ASSUME NEW timed \in BOOLEAN, NEW n \in 0 .. MaxRepeats
         PROVE  Lock(timed, n) # <<>> /\ WaitSeveral(timed, n) # <<>>
    <2>1. PICK h : h = Park(timed, FALSE, TRUE)
      OBVIOUS
    <2>2. PICK k : k = Park(timed, FALSE, FALSE)
      OBVIOUS
    <2>3. h \in Calls /\ k \in Calls
      BY <2>1, <2>2, CallKinds
    <2>4. Lock(timed, n) # <<>>
      <3>1. Times(n, k) \in Seq(Calls)
        BY <2>3, <1>4, <1>5
      <3>. QED  BY <1>1, <1>2, <1>3, <2>2, <3>1 DEF Lock
    <2>5. WaitSeveral(timed, n) # <<>>
      <3>1. <<Sched, h>> \in Seq(Calls) /\ <<Sched, h>> # <<>>
        BY <1>1, <2>3
      <3>2. TakeSeveral(n) \in Seq(Calls)
        BY <1>5, <1>6
      <3>3. PICK q : q = <<Sched, h>> \o TakeSeveral(n)
        OBVIOUS
      <3>4. q \in Seq(Calls) /\ q # <<>>
        BY <1>2, <3>1, <3>2, <3>3
      <3>5. q \o <<SwitchBack>> # <<>>
        BY <1>1, <1>2, <1>3, <3>4
      <3>6. WaitSeveral(timed, n) = q \o <<SwitchBack>>
        BY <2>1, <3>3 DEF WaitSeveral
      <3>. QED  BY <3>5, <3>6
    <2>. QED  BY <2>4, <2>5
  <1>12. SUFFICES ASSUME NEW p \in Operations PROVE p # <<>>
    OBVIOUS
  <1> DEFINE Plain == {AtomicOperation, YieldTurn, CreateThread}
             Timeable == UNION {{Join(timed), CondVarWait(timed), FutexWait(timed),
                                 SignalAndWait(timed)} : timed \in BOOLEAN}
             Waits == {Wait(timed, spurious) : timed \in BOOLEAN, spurious \in BOOLEAN}
             Repeating == UNION {{Finish(n), Signal(n), FindSeveral(n), FutexWake(n)} :
                                    n \in 0 .. MaxRepeats}
             Both == UNION {{Lock(timed, n), WaitSeveral(timed, n)} :
                                timed \in BOOLEAN, n \in 0 .. MaxRepeats}
  <1>13. p \in Plain => p # <<>>
    BY <1>7
  <1>14. p \in Timeable => p # <<>>
    BY <1>8
  <1>15. p \in Waits => p # <<>>
    BY <1>9
  <1>16. p \in Repeating => p # <<>>
    BY <1>10
  <1>17. p \in Both => p # <<>>
    BY <1>11
  <1>18. Operations = Plain \cup Timeable \cup Waits \cup Repeating \cup Both
    BY DEF Operations
  <1>. HIDE DEF Plain, Timeable, Waits, Repeating, Both
  <1>. QED  BY <1>12, <1>13, <1>14, <1>15, <1>16, <1>17, <1>18

-----------------------------------------------------------------------------
(* The fibers of a context *)

\* Between the iterations: no thread is in the middle of anything.
Idle(f) ==
    /\ f.running = Main /\ f.outcome = "none" /\ f.special = FALSE
    /\ \A t \in Thread : f.at[t] = "top" /\ f.code[t] = <<>> /\ f.dp[t] = 0 /\ f.scopes[t] = 0

\* In before or after, the function of the thread that runs.
Outside(f) == f.special /\ Going(f, f.running) /\ f.code[f.running] = <<>>

FibersFit(f, phase) ==
    /\ f \in FiberStates /\ f.sched_count <= f.limit + 1
    /\ phase \in {"main", "done"} => Idle(f)
    /\ phase = "before" /\ f.outcome = "none" => Outside(f) /\ f.state[f.running] = "ready"
    /\ phase = "threads" => Threading(f)

\* What an iteration sets of the fibers.
LEMMA BeginsTyped ==
    ASSUME NEW f \in FiberStates, NEW from \in [Thread -> Thread \cup {Main}],
           NEW saved \in [Thread -> Nat \cup {-1}],
           NEW state \in [Thread -> {"none", "ready", "parked", "finished"}],
           NEW h, h = [f EXCEPT !.first_thread = TRUE, !.disabled = 0, !.sched_count = 0,
                                !.from = from, !.saved = saved, !.state = state]
    PROVE  h \in FiberStates
  <1>1. PICK m : m = [f EXCEPT !.first_thread = TRUE, !.disabled = 0, !.sched_count = 0]
    OBVIOUS
  <1>2. m \in FiberStates
    BY <1>1 DEF FiberStates
  <1>3. PICK n : n = [m EXCEPT !.from = from]
    OBVIOUS
  <1>4. n \in FiberStates
    BY <1>2, <1>3 DEF FiberStates
  <1>5. PICK o : o = [n EXCEPT !.saved = saved]
    OBVIOUS
  <1>6. o \in FiberStates
    BY <1>4, <1>5 DEF FiberStates
  <1>7. h = [o EXCEPT !.state = state]
    <2>1. h = [m EXCEPT !.from = from, !.saved = saved, !.state = state]
      BY <1>1 DEF FiberStates
    <2>2. h = [n EXCEPT !.saved = saved, !.state = state]
      BY <1>2, <1>3, <2>1 DEF FiberStates
    <2>. QED  BY <1>4, <1>5, <2>2 DEF FiberStates
  <1>8. ASSUME NEW p, p = [o EXCEPT !.state = state] PROVE p \in FiberStates
    BY <1>6, <1>8 DEF FiberStates
  <1>. QED  BY <1>7, <1>8

\* The first thread of an iteration.
LEMMA Begins ==
    ASSUME test \in Tests, NEW f \in FiberStates, Idle(f), NEW t \in test.threads \ Dynamic,
           NEW h, h = FibersBegin(f), NEW k, k = SwitchTo(h, t),
           NEW g, g = [k EXCEPT !.first_thread = FALSE, !.special = TRUE]
    PROVE  FibersFit(g, "before")
  <1>1. t \in Thread /\ test.threads \subseteq Thread
    BY ContextAssumption
  <1> DEFINE from == [u \in Thread |-> Main]
             saved == [u \in Thread |-> -1]
             state == [u \in Thread |-> IF u \notin test.threads THEN "finished"
                                        ELSE IF u \in Dynamic THEN "none" ELSE "ready"]
  <1>2. /\ from \in [Thread -> Thread \cup {Main}] /\ saved \in [Thread -> Nat \cup {-1}]
        /\ state \in [Thread -> {"none", "ready", "parked", "finished"}]
        /\ \A u \in Thread : from[u] = Main /\ saved[u] = -1 /\ state[u] # "parked"
        /\ state[t] = "ready"
    BY <1>1
  <1>3. h = [f EXCEPT !.first_thread = TRUE, !.disabled = 0, !.sched_count = 0,
                      !.from = from, !.saved = saved, !.state = state]
    BY DEF FibersBegin
  <1>. HIDE DEF from, saved, state
  <1>4. /\ h.from = from /\ h.saved = saved /\ h.state = state /\ h.disabled = 0
        /\ h.sched_count = 0 /\ h.at = f.at /\ h.code = f.code /\ h.dp = f.dp
        /\ h.scopes = f.scopes /\ h.outcome = f.outcome /\ h.limit = f.limit /\ f.limit \in Nat
    BY <1>3 DEF FiberStates
  <1>5. h \in FiberStates
    <2>1. /\ from \in [Thread -> Thread \cup {Main}] /\ saved \in [Thread -> Nat \cup {-1}]
          /\ state \in [Thread -> {"none", "ready", "parked", "finished"}]
      BY <1>2
    <2>. QED  BY <1>3, <2>1, BeginsTyped
  <1>6. Fits(<<>>, 0, -1)
    BY Nothing DEF Fits
  <1>7. Arrived(h, k, t, <<>>, -1, 0)
    BY <1>1, <1>2, <1>4, <1>5, <1>6, FromTop DEF Idle
  <1>8. /\ k \in FiberStates /\ k.running = t /\ k.at[t] = "test" /\ k.code[t] = <<>>
        /\ k.saved[t] = -1 /\ k.dp[t] = 0 /\ k.disabled = 0 /\ k.outcome = "none"
        /\ k.from = from /\ k.scopes = f.scopes /\ k.state = state /\ k.sched_count = 0
        /\ k.limit = f.limit
        /\ \A u \in Thread \ {t} : SameFor(h, k, u)
    BY <1>4, <1>7 DEF Arrived, Keeps, Idle
  <1>9. /\ g.running = t /\ g.at = k.at /\ g.code = k.code /\ g.saved = k.saved /\ g.dp = k.dp
        /\ g.disabled = 0 /\ g.outcome = "none" /\ g.from = from /\ g.scopes = f.scopes
        /\ g.state = state /\ g.sched_count = 0 /\ g.limit = f.limit /\ g.special
    BY <1>8 DEF FiberStates
  <1>10. g \in FiberStates
    BY <1>8 DEF FiberStates
  <1>11. RunsAs(g, t)
    <2>1. g.scopes[t] = 0 + Aside(-1)
      BY <1>1, <1>9 DEF Idle, Aside
    <2>. QED  BY <1>1, <1>2, <1>6, <1>8, <1>9, <2>1 DEF RunsAs, RunsAt
  <1>12. ASSUME NEW u \in Thread \ {t} PROVE Left(g, u) /\ g.at[u] = "top"
    <2>1. /\ g.at[u] = "top" /\ g.code[u] = <<>> /\ g.dp[u] = 0 /\ g.scopes[u] = 0
          /\ g.saved[u] = -1
      BY <1>2, <1>4, <1>8, <1>9 DEF SameFor, Idle
    <2>. QED  BY <1>2, <1>9, <2>1 DEF Left, LeftAt
  <1>13. Lends(g, t)
    BY <1>1, <1>2, <1>9, <1>12 DEF Lends
  <1>14. Going(g, t)
    BY <1>1, <1>9, <1>11, <1>12, <1>13 DEF Going
  <1>. QED  BY <1>2, <1>4, <1>8, <1>9, <1>10, <1>14 DEF FibersFit, Outside

\* What nothing is left of is disabled, put aside or lent.
LEMMA Bare ==
    ASSUME NEW f \in FiberStates, NEW t, Going(f, t), f.code[t] = <<>>
    PROVE  f.disabled = 0 /\ f.saved[t] = -1 /\ f.from[t] = Main /\ f.scopes[t] = 0 /\ f.dp[t] = 0
  <1>1. /\ f.dp[t] = 0 /\ f.scopes[t] = f.disabled + Aside(f.saved[t])
        /\ Fits(f.code[t], f.disabled, f.saved[t]) /\ (f.from[t] # Main <=> f.saved[t] # -1)
    BY DEF Going, RunsAs, RunsAt
  <1>2. f.disabled = 0 /\ f.saved[t] = -1
    BY <1>1, FitsFacts
  <1>. QED  BY <1>1, <1>2 DEF Aside

\* A step of before or after is no switch.
LEMMA StepsOutside ==
    ASSUME NEW f \in FiberStates, f.sched_count <= f.limit + 1, Outside(f),
           NEW t, t = f.running, NEW g \in DoSched(f, t)
    PROVE  \/ Threading(g) /\ g.outcome # "none"
           \/ /\ g \in FiberStates /\ g.sched_count <= g.limit + 1
              /\ Outside(g) /\ g.state = f.state /\ g.running = t /\ g.code = f.code
  <1>1. Going(f, t) /\ f.special /\ f.code[t] = <<>> /\ t \in Thread /\ f.outcome = "none"
    BY DEF Outside, Going
  <1>2. f.disabled = 0 /\ f.from[t] = Main
    BY <1>1, Bare
  <1>3. CASE Exceeds(f, 1)
    <2>1. g = Fail(f, "livelock")
      BY <1>3 DEF DoSched
    <2>2. "livelock" \in Outcomes \ {"none"}
      BY DEF Outcomes
    <2>. QED  BY <2>1, <2>2, Failing
  <1>4. CASE ~Exceeds(f, 1)
    <2>1. PICK h : h = Counted(f, 1)
      OBVIOUS
    <2>2. h \in FiberStates /\ h.sched_count <= h.limit + 1
      BY <1>4, <2>1, Counts
    <2>3. PICK n \in Nat : h = [f EXCEPT !.sched_count = n]
      BY <1>4, <2>1, Counts
    <2>4. h.from = f.from /\ h.disabled = 0 /\ h.special
      BY <1>1, <1>2, <2>3 DEF FiberStates
    <2>5. g \in Schedule(h, t, "schedule")
      BY <1>2, <1>4, <2>1 DEF DoSched
    <2>6. g = [h EXCEPT !.reason[t] = "normal"]
      BY <1>2, <2>4, <2>5 DEF Schedule
    <2>7. /\ g.running = f.running /\ g.at = f.at /\ g.code = f.code /\ g.state = f.state
          /\ g.from = f.from /\ g.saved = f.saved /\ g.dp = f.dp /\ g.disabled = f.disabled
          /\ g.scopes = f.scopes /\ g.special = f.special /\ g.outcome = f.outcome
          /\ g.sched_count = h.sched_count /\ g.limit = h.limit
      BY <2>3, <2>6 DEF FiberStates
    <2>8. g \in FiberStates
      BY <1>1, <2>2, <2>6 DEF FiberStates
    <2>9. Going(g, t)
      BY <1>1, <2>7 DEF Going, RunsAs, Lends, Left
    <2>. QED  BY <1>1, <2>2, <2>7, <2>8, <2>9 DEF Outside
  <1>. QED  BY <1>3, <1>4

\* After before, the thread goes on with its own function.
LEMMA ThreadsBegin ==
    ASSUME NEW f \in FiberStates, f.sched_count <= f.limit + 1, Outside(f),
           NEW t, t = f.running, f.state[t] = "ready", NEW i, i = Invariant(f),
           NEW g, g = IF i.outcome # "none" THEN i ELSE [Started(i, t) EXCEPT !.special = FALSE]
    PROVE  Threading(g)
  <1>1. Going(f, t) /\ f.code[t] = <<>> /\ t \in Thread /\ f.outcome = "none"
    BY DEF Outside, Going
  <1>2. f.disabled = 0 /\ f.from[t] = Main /\ f.saved[t] = -1
    BY <1>1, Bare
  <1>3. /\ i \in FiberStates /\ i.sched_count <= i.limit + 1
        /\ i.outcome # "none" => Threading(i)
        /\ i.outcome = "none" => \E n \in Nat : i = [f EXCEPT !.sched_count = n]
    BY <1>1, Invariants
  <1>4. CASE i.outcome # "none"
    BY <1>3, <1>4
  <1>5. CASE i.outcome = "none"
    <2>1. PICK n \in Nat : i = [f EXCEPT !.sched_count = n]
      BY <1>3, <1>5
    <2>2. i.from[t] = Main /\ i.saved[t] = -1
      BY <1>2, <2>1 DEF FiberStates
    <2>3. g = [i EXCEPT !.special = FALSE]
      BY <1>5, <2>2 DEF Started, Verify
    <2>4. /\ g.running = t /\ g.at = f.at /\ g.code = f.code /\ g.state = f.state
          /\ g.from = f.from /\ g.saved = f.saved /\ g.dp = f.dp /\ g.disabled = f.disabled
          /\ g.scopes = f.scopes /\ g.special = FALSE /\ g.outcome = f.outcome
          /\ g.sched_count = i.sched_count /\ g.limit = i.limit
      <3>1. /\ i.running = t /\ i.at = f.at /\ i.code = f.code /\ i.state = f.state
            /\ i.from = f.from /\ i.saved = f.saved /\ i.dp = f.dp /\ i.disabled = f.disabled
            /\ i.scopes = f.scopes /\ i.outcome = f.outcome
        BY <2>1 DEF FiberStates
      <3>. QED  BY <1>3, <2>3, <3>1 DEF FiberStates
    <2>5. g \in FiberStates
      BY <1>3, <2>3 DEF FiberStates
    <2>6. Going(g, t)
      BY <1>1, <2>4 DEF Going, RunsAs, Lends, Left
    <2>. QED  BY <1>3, <2>4, <2>5, <2>6 DEF Threading, Sound
  <1>. QED  BY <1>4, <1>5

\* A thread begins an operation.
LEMMA OperationBegins ==
    ASSUME NEW f, Threading(f), f.outcome = "none", ~f.special, NEW t, t = f.running,
           f.code[t] = <<>>, NEW p \in Operations, NEW h, h = [f EXCEPT !.code[t] = p]
    PROVE  Calling(h, t, {Head(h.code[t]).op})
  <1>1. /\ f \in FiberStates /\ f.sched_count <= f.limit + 1 /\ Going(f, t)
        /\ f.state[t] = "ready"
    BY DEF Threading, Sound
  <1>2. t \in Thread /\ \A u \in Thread \ {t} : Left(f, u)
    BY <1>1 DEF Going
  <1>3. f.disabled = 0 /\ f.saved[t] = -1 /\ f.scopes[t] = 0
    BY <1>1, Bare
  <1>4. Fits(p, 0, -1) /\ p # <<>>
    BY OperationsFit, OperationsCall
  <1>5. p \in Seq(Calls)
    BY <1>4, FitsFacts
  <1>6. /\ h.running = t /\ h.at = f.at /\ h.code = [f.code EXCEPT ![t] = p] /\ h.state = f.state
        /\ h.from = f.from /\ h.saved = f.saved /\ h.dp = f.dp /\ h.disabled = f.disabled
        /\ h.scopes = f.scopes /\ h.special = f.special /\ h.outcome = f.outcome
        /\ h.sched_count = f.sched_count /\ h.limit = f.limit
        /\ f.code \in [Thread -> Seq(Calls)]
    BY <1>1 DEF FiberStates
  <1>7. h \in FiberStates
    BY <1>1, <1>5 DEF FiberStates
  <1>8. ASSUME NEW u \in Thread \ {t} PROVE Left(h, u)
    BY <1>2, <1>6 DEF Left
  <1>9. h.code[t] = p /\ h.scopes[t] = h.disabled + Aside(h.saved[t])
    BY <1>2, <1>3, <1>6 DEF Aside
  <1>10. Fits(h.code[t], h.disabled, h.saved[t])
    BY <1>3, <1>4, <1>6, <1>9
  <1>11. Going(h, t)
    <2>1. /\ f \in FiberStates /\ Going(f, t) /\ h.outcome = "none" /\ h.running = t
          /\ h.at = f.at /\ h.from = f.from /\ h.saved = f.saved /\ h.dp = f.dp
      BY <1>1, <1>6
    <2>2. h.scopes[t] = h.disabled + Aside(h.saved[t])
      BY <1>9
    <2>. QED  BY <1>2, <1>7, <1>8, <1>10, <2>1, <2>2, StaysOn
  <1>. QED  BY <1>1, <1>4, <1>6, <1>7, <1>9, <1>11 DEF Calling, Asks

\* After the last function of an iteration.
LEMMA Ends ==
    ASSUME NEW f, Threading(f), f.outcome = "none", f.special, NEW g, g = AfterThreads(f)
    PROVE  \/ Threading(g) /\ g.outcome # "none"
           \/ g \in FiberStates /\ g.sched_count <= g.limit + 1 /\ Idle(g)
  <1>1. /\ f \in FiberStates /\ f.sched_count <= f.limit + 1 /\ Going(f, f.running)
        /\ f.code[f.running] = <<>> /\ \A u \in Thread : f.state[u] = "finished"
    BY DEF Threading, Sound
  <1>2. PICK t : t = f.running
    OBVIOUS
  <1>3. t \in Thread /\ \A u \in Thread \ {t} : Left(f, u)
    BY <1>1, <1>2 DEF Going
  <1>4. f.scopes[t] = 0 /\ f.dp[t] = 0
    BY <1>1, <1>2, Bare
  <1>5. CASE g = Fail(f, "memory_leak") \/ g = Fail(f, "resource_leak")
    <2>1. "memory_leak" \in Outcomes \ {"none"} /\ "resource_leak" \in Outcomes \ {"none"}
      BY DEF Outcomes
    <2>. QED  BY <1>1, <1>5, <2>1, Failing
  <1>6. CASE g = [f EXCEPT !.special = FALSE, !.at[t] = "top", !.running = Main]
    <2>1. /\ g.running = Main /\ g.at = [f.at EXCEPT ![t] = "top"] /\ g.code = f.code
          /\ g.dp = f.dp /\ g.scopes = f.scopes /\ g.special = FALSE /\ g.outcome = "none"
          /\ g.sched_count = f.sched_count /\ g.limit = f.limit
          /\ f.at \in [Thread -> Places]
      BY <1>1, <1>6 DEF FiberStates
    <2>2. g \in FiberStates
      <3>1. PICK m : m = [f EXCEPT !.at[t] = "top"]
        OBVIOUS
      <3>2. m \in FiberStates
        BY <1>1, <3>1 DEF FiberStates, Places
      <3>3. g = [m EXCEPT !.special = FALSE, !.running = Main]
        BY <1>1, <1>6, <3>1 DEF FiberStates
      <3>. QED  BY <3>2, <3>3 DEF FiberStates
    <2>3. ASSUME NEW u \in Thread
          PROVE  g.at[u] = "top" /\ g.code[u] = <<>> /\ g.dp[u] = 0 /\ g.scopes[u] = 0
      <3>1. CASE u = t
        BY <1>1, <1>2, <1>4, <2>1, <3>1
      <3>2. CASE u # t
        BY <1>1, <1>3, <2>1, <3>2 DEF Left, LeftAt
      <3>. QED  BY <3>1, <3>2
    <2>. QED  BY <1>1, <2>1, <2>2, <2>3 DEF Idle
  <1>. QED  BY <1>2, <1>5, <1>6 DEF AfterThreads

\* What is checked of an entry holds.
LEMMA TlsChecks ==
    ASSUME TlsInv, NEW what, Use(what), NEW v \in Reachable
    PROVE  IsEntry(WithEntry(tls.entries, tls.var[v], ctx_seq),
                   Entered(tls.entries, tls.var[v], ctx_seq).index)
  <1>1. /\ stage.run \in 1 .. 2 /\ tls \in TlsStates
        /\ EntriesAreOwn(tls, stage.run) /\ EntriesAreStored(tls, stage.run)
    BY UsesInThreads
  <1>2. v \in Variable \cup Block
    BY <1>1 DEF Reachable, TlsStates
  <1>. QED  BY <1>1, <1>2, Enters DEF ctx_seq

FibersInv == test \in Tests /\ FibersFit(fibers, stage.phase)

\* No thread is in anything when a context begins.
LEMMA FibersNew ==
    ASSUME NEW x \in Tests, NEW f, f = NewFibers(x.limit, x.invariant)
    PROVE  FibersFit(f, "main")
  <1>1. x.limit \in Nat /\ x.invariant \in Nat
    BY ContextAssumption
  <1>2. \A t \in Thread : <<>> \in Seq(Calls)
    OBVIOUS
  <1>3. f \in FiberStates
    <2>1. /\ [t \in Thread |-> "top"] \in [Thread -> Places]
          /\ [t \in Thread |-> <<>>] \in [Thread -> Seq(Calls)]
          /\ [t \in Thread |-> "none"] \in [Thread -> {"none", "ready", "parked", "finished"}]
          /\ [t \in Thread |-> "normal"] \in [Thread -> {"normal", "timeout", "spurious"}]
          /\ [t \in Thread |-> Main] \in [Thread -> Thread \cup {Main}]
          /\ [t \in Thread |-> -1] \in [Thread -> Nat \cup {-1}]
          /\ [t \in Thread |-> 0] \in [Thread -> Nat]
          /\ "none" \in Outcomes
      BY <1>2 DEF Places, Outcomes
    <2>. QED  BY <1>1, <2>1 DEF NewFibers, FiberStates
  <1>4. Idle(f)
    BY DEF NewFibers, Idle
  <1>5. f.sched_count = 0 /\ f.limit = x.limit
    BY DEF NewFibers
  <1>. QED  BY <1>1, <1>3, <1>4, <1>5 DEF FibersFit

\* A test that fails in a thread.
LEMMA FailsFit ==
    ASSUME NEW f, FibersFit(f, "threads"), NEW result \in Outcomes \ {"none"},
           NEW g, g = Fail(f, result)
    PROVE  FibersFit(g, "threads")
  <1>1. Threading(g)
    BY Failing DEF FibersFit
  <1>. QED  BY <1>1 DEF FibersFit, Threading, Sound

\* What stays of the phase is kept by the uses of the heap, of the objects and
\* of thread local variables.
LEMMA UsesKeepFibers ==
    ASSUME FibersInv, TlsInv, NEW what, Use(what),
           \/ UNCHANGED fibers
           \/ \E result \in Outcomes \ {"none"} : fibers' = Fail(fibers, result)
    PROVE  FibersInv'
  <1>1. stage.phase = "threads" /\ test' = test /\ stage'.phase = stage.phase
    <2>1. stage \in Stages /\ stage' = [stage EXCEPT !.uses = @ + 1]
      BY DEF TlsInv, Use
    <2>. QED  BY <2>1 DEF Use, AtRest, InTest, Runs, Stages
  <1>2. FibersFit(fibers, "threads")
    BY <1>1 DEF FibersInv
  <1>3. FibersFit(fibers', "threads")
    BY <1>2, FailsFit
  <1>. QED  BY <1>1, <1>3 DEF FibersInv

\* The results with which the calls of a test fail.
LEMMA CallsFail ==
    {"double_free", "double_initialization", "usage_of_non_initialized", "destroying_owned_mutex"}
        \subseteq Outcomes \ {"none"}
  BY DEF Outcomes

\* Each use of the heap, of the objects and of thread local variables leaves the
\* fibers as they are, or ends the test with its result.
LEMMA UsesEach ==
    ASSUME TlsInv,
           \/ New \/ Delete \/ Realloc \/ HashPtr \/ NewArray \/ NewArrayThrows \/ DeleteArray
           \/ InitObject \/ DeinitObject \/ UseMutex \/ TlsSet \/ TlsGet \/ TlsAlloc \/ TlsFree
    PROVE  \E what : /\ Use(what)
                     /\ \/ UNCHANGED fibers
                        \/ \E result \in Outcomes \ {"none"} : fibers' = Fail(fibers, result)
  <1>1. CASE New \/ HashPtr \/ NewArray \/ NewArrayThrows \/ DeleteArray
    BY <1>1 DEF New, HashPtr, NewArray, NewArrayThrows, DeleteArray
  <1>2. CASE TlsAlloc \/ TlsFree
    BY <1>2 DEF TlsAlloc, TlsFree
  <1>3. CASE Delete
    <2>1. Use("heap") /\ (UNCHANGED fibers \/ fibers' = Fail(fibers, "double_free"))
      BY <1>3 DEF Delete, Fails
    <2>. QED  BY <2>1, CallsFail
  <1>4. CASE Realloc
    <2>1. Use("addresses") /\ (UNCHANGED fibers \/ fibers' = Fail(fibers, "double_free"))
      BY <1>4 DEF Realloc
    <2>. QED  BY <2>1, CallsFail
  <1>5. CASE InitObject \/ DeinitObject \/ UseMutex
    <2>1. Use("objects") /\ (\/ UNCHANGED fibers
                             \/ fibers' = Fail(fibers, "double_initialization")
                             \/ fibers' = Fail(fibers, "usage_of_non_initialized")
                             \/ fibers' = Fail(fibers, "destroying_owned_mutex"))
      <3>1. CASE InitObject
        BY <3>1 DEF InitObject, Fails
      <3>2. CASE DeinitObject
        BY <3>2 DEF DeinitObject, Fails
      <3>3. CASE UseMutex
        BY <3>3 DEF UseMutex, Fails
      <3>. QED  BY <1>5, <3>1, <3>2, <3>3
    <2>. QED  BY <2>1, CallsFail
  <1>6. CASE TlsSet
    <2>1. Use("tls")
      BY <1>6 DEF TlsSet
    <2>2. UNCHANGED fibers
      <3>1. PICK v \in Reachable :
              IF ~IsEntry(WithEntry(tls.entries, tls.var[v], ctx_seq),
                          Entered(tls.entries, tls.var[v], ctx_seq).index)
                THEN TRUE ELSE UNCHANGED fibers
        BY <1>6, Zenon DEF TlsSet
      <3>. QED  BY <2>1, <3>1, TlsChecks
    <2>. QED  BY <2>1, <2>2
  <1>7. CASE TlsGet
    <2>1. Use("tls")
      BY <1>7 DEF TlsGet
    <2>2. UNCHANGED fibers
      <3>1. PICK v \in Reachable :
              IF ~IsEntry(WithEntry(tls.entries, tls.var[v], ctx_seq),
                          Entered(tls.entries, tls.var[v], ctx_seq).index)
                THEN TRUE ELSE UNCHANGED fibers
        BY <1>7, Zenon DEF TlsGet
      <3>. QED  BY <2>1, <3>1, TlsChecks
    <2>. QED  BY <2>1, <2>2
  <1>. QED  BY <1>1, <1>2, <1>3, <1>4, <1>5, <1>6, <1>7

\* A thread that is called fails, or what runs fits.
LEMMA CallsFit ==
    ASSUME NEW f, NEW t, NEW ops, Calling(f, t, ops), NEW g \in Call(f, t)
    PROVE  FibersFit(g, "threads")
  <1>1. Threading(g)
    BY CallsWork
  <1>. QED  BY <1>1 DEF FibersFit, Threading, Sound

\* Whatever a test does, each thread finds the depth that what is left of its
\* operation needs.
LEMMA FibersStep ==
    ASSUME FibersInv, TlsInv, [Next]_vars
    PROVE  FibersInv'
  <1>1. test \in Tests /\ FibersFit(fibers, stage.phase) /\ stage \in Stages
    BY DEF FibersInv, TlsInv
  <1>2. fibers \in FiberStates /\ fibers.sched_count <= fibers.limit + 1
    BY <1>1 DEF FibersFit
  <1>3. CASE BeginIteration
    <2>1. stage.phase = "main" /\ stage'.phase = "before" /\ test' = test
      <3>1. stage' = [stage EXCEPT !.phase = "before", !.uses = 0]
        BY <1>3 DEF BeginIteration
      <3>. QED  BY <1>1, <1>3, <3>1 DEF BeginIteration, Stages
    <2>2. Idle(fibers)
      BY <1>1, <2>1 DEF FibersFit
    <2>3. PICK t \in test.threads \ Dynamic :
            fibers' = [SwitchTo(FibersBegin(fibers), t) EXCEPT !.first_thread = FALSE,
                                                               !.special = TRUE]
      BY <1>3 DEF BeginIteration
    <2>4. FibersFit(fibers', "before")
      BY <1>1, <1>2, <2>2, <2>3, Begins
    <2>. QED  BY <1>1, <2>1, <2>4 DEF FibersInv
  <1>4. CASE BeforeOrAfter
    <2>1. /\ test' = test /\ stage' = stage /\ fibers' \in DoSched(fibers, fibers.running)
          /\ fibers.outcome = "none"
          /\ stage.phase = "before" \/ (stage.phase = "threads" /\ fibers.special)
      BY <1>4 DEF BeforeOrAfter, Runs, InAfter, Running
    <2>2. CASE stage.phase = "before"
      <3>1. Outside(fibers) /\ fibers.state[fibers.running] = "ready"
        BY <1>1, <2>1, <2>2 DEF FibersFit
      <3>2. \/ Threading(fibers') /\ fibers'.outcome # "none"
            \/ /\ fibers' \in FiberStates /\ fibers'.sched_count <= fibers'.limit + 1
               /\ Outside(fibers') /\ fibers'.state = fibers.state
               /\ fibers'.running = fibers.running
        BY <1>2, <2>1, <3>1, StepsOutside
      <3>3. FibersFit(fibers', "before")
        BY <3>1, <3>2 DEF FibersFit, Threading, Sound
      <3>. QED  BY <1>1, <2>1, <2>2, <3>3 DEF FibersInv
    <2>3. CASE stage.phase = "threads" /\ fibers.special
      <3>1. /\ Outside(fibers) /\ \A t \in Thread : fibers.state[t] = "finished"
        BY <1>1, <2>1, <2>3 DEF FibersFit, Threading, Sound, Outside
      <3>2. \/ Threading(fibers') /\ fibers'.outcome # "none"
            \/ /\ fibers' \in FiberStates /\ fibers'.sched_count <= fibers'.limit + 1
               /\ Outside(fibers') /\ fibers'.state = fibers.state
               /\ fibers'.running = fibers.running
        BY <1>2, <2>1, <3>1, StepsOutside
      <3>3. Threading(fibers')
        BY <3>1, <3>2 DEF Threading, Sound, Outside
      <3>4. FibersFit(fibers', "threads")
        BY <3>3 DEF FibersFit, Threading, Sound
      <3>. QED  BY <1>1, <2>1, <2>3, <3>4 DEF FibersInv
    <2>. QED  BY <2>1, <2>2, <2>3
  <1>5. CASE BeforeEnds
    <2>1. /\ test' = test /\ stage.phase = "before" /\ fibers.outcome = "none"
      BY <1>5 DEF BeforeEnds, Runs
    <2>2. stage'.phase = "threads"
      BY <1>1, <1>5 DEF BeforeEnds, Stages
    <2>3. Outside(fibers) /\ fibers.state[fibers.running] = "ready"
      BY <1>1, <2>1 DEF FibersFit
    <2>4. fibers' = IF Invariant(fibers).outcome # "none" THEN Invariant(fibers)
                    ELSE [Started(Invariant(fibers), fibers.running) EXCEPT !.special = FALSE]
      BY <1>5 DEF BeforeEnds, Running
    <2>5. Threading(fibers')
      BY <1>2, <2>3, <2>4, ThreadsBegin
    <2>6. FibersFit(fibers', "threads")
      BY <2>5 DEF FibersFit, Threading, Sound
    <2>. QED  BY <1>1, <2>1, <2>2, <2>6 DEF FibersInv
  <1>6. CASE Operate \/ GoOn
    <2>1. /\ test' = test /\ stage' = stage /\ stage.phase = "threads"
          /\ fibers.outcome = "none" /\ ~fibers.special
      BY <1>6 DEF Operate, GoOn, AtRest, InTest, Runs
    <2>2. Threading(fibers)
      BY <1>1, <2>1 DEF FibersFit
    <2>3. FibersFit(fibers', "threads")
      <3>1. CASE Operate
        <4>1. PICK p \in test.programs :
                fibers' \in Call([fibers EXCEPT !.code[fibers.running] = p], fibers.running)
          BY <3>1 DEF Operate, Running
        <4>2. fibers.code[fibers.running] = <<>> /\ p \in Operations
          BY <1>1, <3>1, ContextAssumption DEF Operate, AtRest, Running
        <4>3. PICK h : h = [fibers EXCEPT !.code[fibers.running] = p]
          OBVIOUS
        <4>4. Calling(h, fibers.running, {Head(h.code[fibers.running]).op})
          BY <2>1, <2>2, <4>2, <4>3, OperationBegins
        <4>. QED  BY <4>1, <4>3, <4>4, CallsFit
      <3>2. CASE GoOn
        <4>1. fibers.code[fibers.running] # <<>> /\ fibers' \in Call(fibers, fibers.running)
          BY <3>2 DEF GoOn, Running
        <4>2. Calling(fibers, fibers.running, {Head(fibers.code[fibers.running]).op})
          BY <2>1, <2>2, <4>1 DEF Calling, Threading, Sound, Asks
        <4>. QED  BY <4>1, <4>2, CallsFit
      <3>. QED  BY <1>6, <3>1, <3>2
    <2>. QED  BY <1>1, <2>1, <2>3 DEF FibersInv
  <1>7. CASE EndTest
    <2>1. /\ test' = test /\ stage' = stage /\ stage.phase = "threads"
          /\ \E result \in test.results : fibers' = Fail(fibers, result)
      BY <1>7 DEF EndTest, AtRest, InTest, Runs
    <2>2. test.results \subseteq Outcomes \ {"none"}
      BY <1>1, ContextAssumption DEF Outcomes
    <2>3. FibersFit(fibers', "threads")
      BY <1>1, <2>1, <2>2, FailsFit
    <2>. QED  BY <1>1, <2>1, <2>3 DEF FibersInv
  <1>8. CASE EndIteration
    <2>1. /\ test' = test /\ stage.phase = "threads" /\ fibers.outcome = "none" /\ fibers.special
          /\ fibers' = AfterThreads(fibers)
      BY <1>8 DEF EndIteration, InAfter, Runs
    <2>2. Threading(fibers)
      BY <1>1, <2>1 DEF FibersFit
    <2>3. \/ Threading(fibers') /\ fibers'.outcome # "none"
          \/ /\ fibers' \in FiberStates /\ fibers'.sched_count <= fibers'.limit + 1
             /\ Idle(fibers')
      BY <2>1, <2>2, Ends
    <2>4. CASE fibers'.outcome # "none"
      <3>1. stage' = stage
        BY <1>8, <2>4 DEF EndIteration
      <3>2. FibersFit(fibers', "threads")
        BY <2>3, <2>4 DEF FibersFit, Threading, Sound, Idle
      <3>. QED  BY <1>1, <2>1, <3>1, <3>2 DEF FibersInv
    <2>5. CASE fibers'.outcome = "none"
      <3>1. stage'.phase \in {"main", "done"}
        BY <1>1, <1>8, <2>5 DEF EndIteration, Stages
      <3>2. FibersFit(fibers', stage'.phase)
        BY <2>3, <2>5, <3>1 DEF FibersFit
      <3>. QED  BY <1>1, <2>1, <3>2 DEF FibersInv
    <2>. QED  BY <2>4, <2>5
  <1>9. CASE RunAgain
    <2>1. test' = test /\ fibers' = NewFibers(test.limit, test.invariant)
      BY <1>9 DEF RunAgain
    <2>2. stage'.phase = "main"
      BY <1>1, <1>9 DEF RunAgain, Stages
    <2>3. FibersFit(fibers', "main")
      BY <1>1, <2>1, FibersNew
    <2>. QED  BY <1>1, <2>1, <2>2, <2>3 DEF FibersInv
  <1>10. CASE \/ New \/ Delete \/ Realloc \/ HashPtr \/ NewArray \/ NewArrayThrows \/ DeleteArray
              \/ InitObject \/ DeinitObject \/ UseMutex \/ TlsSet \/ TlsGet \/ TlsAlloc \/ TlsFree
    BY <1>10, UsesEach, UsesKeepFibers
  <1>11. CASE UNCHANGED vars
    BY <1>1, <1>11 DEF vars, FibersInv
  <1>. QED  BY <1>3, <1>4, <1>5, <1>6, <1>7, <1>8, <1>9, <1>10, <1>11 DEF Next

\* What is left of each operation fits the depth its thread finds when it goes on.
THEOREM FibersInvariant == Spec => []FibersInv
  <1>1. Init => FibersInv
    <2>. SUFFICES ASSUME Init PROVE FibersInv
      OBVIOUS
    <2>1. test \in Tests /\ fibers = NewFibers(test.limit, test.invariant) /\ stage.phase = "main"
      BY DEF Init
    <2>. QED  BY <2>1, FibersNew DEF FibersInv
  <1>2. FibersInv /\ TlsInv /\ [Next]_vars => FibersInv'
    BY FibersStep
  <1>. QED  BY <1>1, <1>2, ThreadLocalInvariant, PTL DEF Spec

\* The depth of a thread is the number of its preemption_disablers, wherever it
\* is and whoever runs, and only a thread that runs is lent the processor: for
\* all threads and tests, and however often an operation repeats its calls.
THEOREM PreemptionRestored == Spec => []PreemptionIsRestored
  <1>1. FibersInv /\ TlsInv => PreemptionIsRestored
    <2>. SUFFICES ASSUME FibersInv, TlsInv, fibers.outcome = "none", fibers.running # Main
                  PROVE  /\ fibers.disabled + Count(fibers, fibers.running)
                                = fibers.scopes[fibers.running]
                         /\ \A t \in Thread \ {fibers.running} :
                                fibers.dp[t] + Count(fibers, t) = fibers.scopes[t]
                         /\ \A t \in Thread : fibers.from[t] # Main =>
                                fibers.running = t /\ fibers.at[fibers.from[t]] = "unpark"
      BY DEF PreemptionIsRestored, Running
    <2>1. fibers \in FiberStates /\ Going(fibers, fibers.running)
      BY DEF FibersInv, FibersFit, Idle, Outside, Threading, Sound, TlsInv, Stages
    <2>2. PICK t : t = fibers.running
      OBVIOUS
    <2>3. /\ t \in Thread /\ fibers.scopes[t] = fibers.disabled + Aside(fibers.saved[t])
          /\ fibers.from[t] # Main => fibers.at[fibers.from[t]] = "unpark"
      BY <2>1, <2>2 DEF Going, RunsAs, RunsAt, Lends
    <2>4. ASSUME NEW u \in Thread \ {t}
          PROVE  /\ fibers.dp[u] + Aside(fibers.saved[u]) = fibers.scopes[u]
                 /\ fibers.from[u] = Main
      <3>1. Left(fibers, u)
        BY <2>1, <2>2 DEF Going
      <3>2. fibers.at[u] \in Places /\ fibers.dp[u] \in Nat /\ fibers.saved[u] \in Nat \cup {-1}
        BY <2>1 DEF FiberStates
      <3>3. PICK at, dp, saved : at = fibers.at[u] /\ dp = fibers.dp[u] /\ saved = fibers.saved[u]
        OBVIOUS
      <3>4. /\ fibers.from[u] = Main
            /\ fibers.scopes[u] = IF at = "park" THEN dp ELSE IF at = "switch_back" THEN saved ELSE 0
            /\ at # "park" => dp = 0
            /\ IF at = "switch_back" THEN saved # -1 ELSE saved = -1
        BY <3>1, <3>2, <3>3 DEF Left, LeftAt, Places
      <3>. QED  BY <3>2, <3>3, <3>4 DEF Aside
    <2>5. \A u \in Thread : Count(fibers, u) = Aside(fibers.saved[u])
      BY DEF Count, Aside
    <2>. QED  BY <2>2, <2>3, <2>4, <2>5
  <1>. QED  BY <1>1, FibersInvariant, ThreadLocalInvariant, PTL

\* No check of the context fails: not of the preemption or of the lending at a
\* switch, nor that before, after and the invariant take no switch, nor of an
\* entry of a thread local variable, for the tests whose own results are others.
THEOREM ContextChecks == Spec => []ChecksHold
  <1>1. FibersInv => ChecksHold
    <2>1. "verify" \notin Outcomes
      BY ContextAssumption DEF Outcomes
    <2>2. FibersInv => fibers.outcome \in Outcomes
      BY DEF FibersInv, FibersFit, FiberStates
    <2>. QED  BY <2>1, <2>2 DEF ChecksHold
  <1>. QED  BY <1>1, FibersInvariant, PTL

-----------------------------------------------------------------------------
(* The slabs *)

SlabStates == [freelist : Seq(Nat), batches : Nat, alloc_count : Int]

\* Each element is free, once, or one of those used.
SlabOK(slab, used) ==
    /\ slab \in SlabStates
    /\ IsInjective(slab.freelist)
    /\ ToSet(slab.freelist) = Elements(slab) \ used
    /\ used \subseteq Elements(slab)
    /\ slab.alloc_count = Cardinality(used)

\* The first of a list, and what is left.
LEMMA FirstOff ==
    ASSUME NEW q \in Seq(Nat), q # <<>>, IsInjective(q)
    PROVE  /\ Head(q) \in ToSet(q) /\ Head(q) \in Nat
           /\ Tail(q) \in Seq(Nat) /\ IsInjective(Tail(q))
           /\ ToSet(Tail(q)) = ToSet(q) \ {Head(q)}
  <1>1. Len(q) \in Nat \ {0} /\ DOMAIN q = 1 .. Len(q)
    BY EmptySeq
  <1>2. /\ Head(q) = q[1] /\ Tail(q) \in Seq(Nat) /\ Len(Tail(q)) = Len(q) - 1
        /\ \A k \in 1 .. Len(q) - 1 : Tail(q)[k] = q[k + 1]
    BY <1>1, HeadTailProperties
  <1>3. DOMAIN Tail(q) = 1 .. Len(q) - 1
    BY <1>1, <1>2
  <1>4. 1 \in DOMAIN q /\ q[1] \in Nat
    BY <1>1
  <1>5. IsInjective(Tail(q))
    <2>1. ASSUME NEW a \in 1 .. Len(q) - 1, NEW b \in 1 .. Len(q) - 1, Tail(q)[a] = Tail(q)[b]
          PROVE  a = b
      <3>1. q[a + 1] = q[b + 1] /\ a + 1 \in DOMAIN q /\ b + 1 \in DOMAIN q
        BY <1>1, <1>2, <2>1
      <3>2. a + 1 = b + 1
        BY <3>1 DEF IsInjective
      <3>. QED  BY <3>2
    <2>. QED  BY <2>1, <1>3 DEF IsInjective
  <1>6. ASSUME NEW x \in ToSet(Tail(q)) PROVE x \in ToSet(q) \ {Head(q)}
    <2>1. PICK k \in 1 .. Len(q) - 1 : x = Tail(q)[k]
      BY <1>3 DEF ToSet
    <2>2. x = q[k + 1] /\ k + 1 \in DOMAIN q /\ k + 1 # 1
      BY <1>1, <1>2, <2>1
    <2>3. x # q[1]
      BY <2>2, <1>4 DEF IsInjective
    <2>. QED  BY <2>2, <2>3, <1>2 DEF ToSet
  <1>7. ASSUME NEW x \in ToSet(q), x # Head(q) PROVE x \in ToSet(Tail(q))
    <2>1. PICK k \in 1 .. Len(q) : x = q[k]
      BY <1>1 DEF ToSet
    <2>2. k # 1
      BY <2>1, <1>2, <1>7
    <2>3. k - 1 \in 1 .. Len(q) - 1 /\ q[(k - 1) + 1] = q[k]
      BY <1>1, <2>2
    <2>4. Tail(q)[k - 1] = x
      BY <2>1, <2>3, <1>2
    <2>. QED  BY <2>3, <2>4, <1>3 DEF ToSet
  <1>. QED  BY <1>2, <1>4, <1>5, <1>6, <1>7 DEF ToSet

\* An element in front of the others.
LEMMA OneOn ==
    ASSUME NEW q \in Seq(Nat), IsInjective(q), NEW p \in Nat, p \notin ToSet(q),
           NEW r, r = <<p>> \o q
    PROVE  r \in Seq(Nat) /\ IsInjective(r) /\ ToSet(r) = ToSet(q) \cup {p}
  <1>1. <<p>> \in Seq(Nat) /\ Len(<<p>>) = 1 /\ <<p>>[1] = p
    OBVIOUS
  <1>2. Len(q) \in Nat /\ DOMAIN q = 1 .. Len(q)
    BY LenProperties
  <1>3. /\ r \in Seq(Nat) /\ Len(r) = Len(q) + 1 /\ r[1] = p
        /\ \A k \in 2 .. Len(q) + 1 : r[k] = q[k - 1]
    BY <1>1, <1>2, ConcatProperties
  <1>4. DOMAIN r = 1 .. Len(q) + 1
    BY <1>2, <1>3
  <1>5. ASSUME NEW k \in 2 .. Len(q) + 1
        PROVE  k - 1 \in DOMAIN q /\ r[k] = q[k - 1] /\ r[k] # p
    <2>1. k - 1 \in DOMAIN q /\ r[k] = q[k - 1]
      BY <1>2, <1>3
    <2>. QED  BY <2>1 DEF ToSet
  <1>6. IsInjective(r)
    <2>1. ASSUME NEW a \in 1 .. Len(q) + 1, NEW b \in 1 .. Len(q) + 1, r[a] = r[b] PROVE a = b
      <3>1. CASE a = 1 \/ b = 1
        BY <3>1, <2>1, <1>2, <1>3, <1>5
      <3>2. CASE a # 1 /\ b # 1
        <4>1. q[a - 1] = q[b - 1] /\ a - 1 \in DOMAIN q /\ b - 1 \in DOMAIN q
          BY <3>2, <2>1, <1>2, <1>5
        <4>2. a - 1 = b - 1
          BY <4>1 DEF IsInjective
        <4>. QED  BY <4>2
      <3>. QED  BY <3>1, <3>2
    <2>. QED  BY <2>1, <1>4 DEF IsInjective
  <1>7. \A x \in ToSet(r) : x \in ToSet(q) \cup {p}
    <2>1. ASSUME NEW k \in 1 .. Len(q) + 1 PROVE r[k] \in ToSet(q) \cup {p}
      <3>1. CASE k = 1
        BY <3>1, <1>3
      <3>2. CASE k # 1
        <4>1. k \in 2 .. Len(q) + 1
          BY <3>2, <1>2
        <4>2. r[k] = q[k - 1] /\ k - 1 \in DOMAIN q
          BY <4>1, <1>5
        <4>. QED  BY <4>2 DEF ToSet
      <3>. QED  BY <3>1, <3>2
    <2>. QED  BY <2>1, <1>4 DEF ToSet
  <1>8. p \in ToSet(r)
    BY <1>2, <1>3, <1>4 DEF ToSet
  <1>9. ASSUME NEW k \in 1 .. Len(q) PROVE q[k] \in ToSet(r)
    <2>1. k + 1 \in 2 .. Len(q) + 1 /\ (k + 1) - 1 = k /\ k + 1 \in DOMAIN r
      BY <1>2, <1>4
    <2>2. r[k + 1] = q[k]
      BY <2>1, <1>3
    <2>. QED  BY <2>1, <2>2 DEF ToSet
  <1>10. \A x \in ToSet(q) \cup {p} : x \in ToSet(r)
    BY <1>2, <1>8, <1>9 DEF ToSet
  <1>. QED  BY <1>3, <1>6, <1>7, <1>10

\* A slab with no free element gets a batch of them.
LEMMA RefilledOK ==
    ASSUME NEW slab, NEW used, SlabOK(slab, used), NEW r, r = Refilled(slab)
    PROVE  SlabOK(r, used) /\ r.freelist # <<>> /\ r.alloc_count = slab.alloc_count
  <1>1. CASE slab.freelist # <<>>
    BY <1>1 DEF Refilled
  <1>2. CASE slab.freelist = <<>>
    <2>. DEFINE n == BatchSize * slab.batches
                q == Reverse([i \in 1 .. BatchSize |-> slab.batches * BatchSize + i])
    <2>1. slab.batches \in Nat /\ BatchSize \in Nat \ {0} /\ n \in Nat
      BY BatchAssumption DEF SlabOK, SlabStates
    <2>2. BatchSize * (slab.batches + 1) = n + BatchSize /\ slab.batches * BatchSize = n
      BY <2>1
    <2>3. q = [i \in 1 .. BatchSize |-> n + (BatchSize - i + 1)]
      <3>. DEFINE s == [i \in 1 .. BatchSize |-> slab.batches * BatchSize + i]
      <3>1. Len(s) = BatchSize
        BY <2>1
      <3>2. q = [i \in 1 .. BatchSize |-> s[(BatchSize - i) + 1]]
        <4>1. q = [i \in 1 .. Len(s) |-> s[(Len(s) - i) + 1]]
          BY Zenon DEF Reverse
        <4>. HIDE DEF s, q
        <4>. QED  BY <3>1, <4>1
      <3>3. ASSUME NEW i \in 1 .. BatchSize PROVE s[(BatchSize - i) + 1] = n + (BatchSize - i + 1)
        <4>1. (BatchSize - i) + 1 \in 1 .. BatchSize
          BY <2>1
        <4>. QED  BY <4>1, <2>2
      <3>. HIDE DEF s, q, n
      <3>. QED  BY <3>2, <3>3
    <2>. HIDE DEF q, n
    <2>4. q \in Seq(Nat) /\ Len(q) = BatchSize /\ DOMAIN q = 1 .. BatchSize
      BY <2>1, <2>3
    <2>5. q \o <<>> = q
      BY <2>4
    <2>6. r = [slab EXCEPT !.batches = @ + 1, !.freelist = q \o @]
      BY <1>2, Zenon DEF Refilled, AddBatch, q
    <2>7. r \in SlabStates /\ r.freelist = q /\ r.batches = slab.batches + 1
          /\ r.alloc_count = slab.alloc_count
      <3>1. slab \in [freelist : Seq(Nat), batches : Nat, alloc_count : Int]
        BY DEF SlabOK, SlabStates
      <3>2. r = [slab EXCEPT !.batches = slab.batches + 1, !.freelist = q]
        BY <1>2, <2>5, <2>6
      <3>3. slab.batches + 1 \in Nat
        BY <2>1
      <3>4. r.freelist = q /\ r.batches = slab.batches + 1 /\ r.alloc_count = slab.alloc_count
        BY <3>1, <3>2
      <3>. QED  BY <2>4, <3>1, <3>2, <3>3, <3>4 DEF SlabStates
    <2>8. IsInjective(q)
      BY <2>1, <2>3, <2>4 DEF IsInjective
    <2>9. Elements(slab) = 1 .. n /\ Elements(r) = 1 .. n + BatchSize
      BY <2>2, <2>7 DEF Elements, n
    <2>10. used = 1 .. n
      <3>1. ToSet(slab.freelist) = {}
        BY <1>2 DEF ToSet
      <3>. QED  BY <2>9, <3>1 DEF SlabOK
    <2>11. ToSet(q) = (1 .. n + BatchSize) \ (1 .. n)
      <3>1. ASSUME NEW k \in 1 .. BatchSize PROVE q[k] \in (1 .. n + BatchSize) \ (1 .. n)
        BY <2>1, <2>3
      <3>2. ASSUME NEW x \in (1 .. n + BatchSize) \ (1 .. n) PROVE x \in ToSet(q)
        <4>1. n + BatchSize - x + 1 \in 1 .. BatchSize
          BY <2>1
        <4>2. q[n + BatchSize - x + 1] = n + (BatchSize - (n + BatchSize - x + 1) + 1)
          BY <4>1, <2>3
        <4>3. q[n + BatchSize - x + 1] = x
          BY <4>2, <2>1
        <4>. QED  BY <4>1, <4>3, <2>4 DEF ToSet
      <3>. QED  BY <3>1, <3>2, <2>4 DEF ToSet
    <2>12. q # <<>>
      BY <2>1, <2>4
    <2>. QED  BY <2>1, <2>7, <2>8, <2>9, <2>10, <2>11, <2>12 DEF SlabOK
  <1>. QED  BY <1>1, <1>2

\* An element is taken that was free.
LEMMA SlabAllocOK ==
    ASSUME NEW slab, NEW used, SlabOK(slab, used), NEW p, p = NextElement(slab),
           NEW r, r = SlabAlloc(slab)
    PROVE  p \in Nat /\ p \notin used /\ SlabOK(r, used \cup {p})
  <1>. DEFINE f == Refilled(slab)
  <1>1. SlabOK(f, used) /\ f.freelist # <<>>
    BY RefilledOK
  <1>2. p = Head(f.freelist) /\ r = [f EXCEPT !.freelist = Tail(@), !.alloc_count = @ + 1]
    BY DEF NextElement, SlabAlloc
  <1>. HIDE DEF f
  <1>3. f \in SlabStates /\ f.freelist \in Seq(Nat) /\ IsInjective(f.freelist)
        /\ ToSet(f.freelist) = Elements(f) \ used /\ used \subseteq Elements(f)
        /\ f.alloc_count = Cardinality(used) /\ f.batches \in Nat
    BY <1>1 DEF SlabOK, SlabStates
  <1>4. /\ p \in ToSet(f.freelist) /\ p \in Nat
        /\ Tail(f.freelist) \in Seq(Nat) /\ IsInjective(Tail(f.freelist))
        /\ ToSet(Tail(f.freelist)) = ToSet(f.freelist) \ {p}
    BY <1>1, <1>2, <1>3, FirstOff
  <1>5. r \in SlabStates /\ r.freelist = Tail(f.freelist) /\ r.batches = f.batches
        /\ r.alloc_count = f.alloc_count + 1
    <2>1. PICK q \in Seq(Nat) : q = Tail(f.freelist)
      BY <1>4
    <2>2. r = [f EXCEPT !.freelist = q, !.alloc_count = f.alloc_count + 1]
      BY <1>2, <2>1
    <2>3. f \in [freelist : Seq(Nat), batches : Nat, alloc_count : Int] /\ f.alloc_count + 1 \in Int
      BY <1>3 DEF SlabStates
    <2>. QED  BY <2>1, <2>2, <2>3 DEF SlabStates
  <1>6. Elements(r) = Elements(f)
    BY <1>5 DEF Elements
  <1>7. IsFiniteSet(used)
    <2>1. IsFiniteSet(Elements(f))
      BY <1>3, BatchAssumption, FS_Interval DEF Elements
    <2>. QED  BY <1>3, <2>1, FS_Subset
  <1>8. p \notin used /\ p \in Elements(f)
    BY <1>3, <1>4
  <1>9. Cardinality(used \cup {p}) = Cardinality(used) + 1
    BY <1>7, <1>8, FS_AddElement
  <1>. QED  BY <1>3, <1>4, <1>5, <1>6, <1>8, <1>9 DEF SlabOK

\* An element is given back that was used.
LEMMA SlabFreeOK ==
    ASSUME NEW slab, NEW used, SlabOK(slab, used), NEW p \in used,
           NEW r, r = SlabFree(slab, p)
    PROVE  SlabOK(r, used \ {p})
  <1>1. slab \in SlabStates /\ slab.freelist \in Seq(Nat) /\ IsInjective(slab.freelist)
        /\ ToSet(slab.freelist) = Elements(slab) \ used /\ used \subseteq Elements(slab)
        /\ slab.alloc_count = Cardinality(used) /\ slab.batches \in Nat
    BY DEF SlabOK, SlabStates
  <1>2. p \in Nat /\ p \notin ToSet(slab.freelist)
    BY <1>1, BatchAssumption DEF Elements
  <1>. DEFINE q == <<p>> \o slab.freelist
  <1>3. q \in Seq(Nat) /\ IsInjective(q) /\ ToSet(q) = ToSet(slab.freelist) \cup {p}
    BY <1>1, <1>2, OneOn
  <1>. HIDE DEF q
  <1>4. r \in SlabStates /\ r.freelist = q /\ r.batches = slab.batches
        /\ r.alloc_count = slab.alloc_count - 1
    <2>1. r = [slab EXCEPT !.freelist = q, !.alloc_count = slab.alloc_count - 1]
      BY DEF SlabFree, q
    <2>2. slab \in [freelist : Seq(Nat), batches : Nat, alloc_count : Int]
      BY <1>1 DEF SlabStates
    <2>3. slab.alloc_count - 1 \in Int
      BY <2>2
    <2>4. r.freelist = q /\ r.batches = slab.batches /\ r.alloc_count = slab.alloc_count - 1
      BY <2>1, <2>2
    <2>. QED  BY <2>1, <2>2, <2>3, <1>3 DEF SlabStates
  <1>5. Elements(r) = Elements(slab)
    BY <1>4 DEF Elements
  <1>6. IsFiniteSet(used)
    <2>1. IsFiniteSet(Elements(slab))
      BY <1>1, BatchAssumption, FS_Interval DEF Elements
    <2>. QED  BY <1>1, <2>1, FS_Subset
  <1>7. Cardinality(used \ {p}) = Cardinality(used) - 1
    BY <1>6, FS_RemoveElement
  <1>. QED  BY <1>1, <1>3, <1>4, <1>5, <1>7 DEF SlabOK

\* A new slab has no elements.
LEMMA NewSlabOK == SlabOK(NewSlab, {})
  <1>1. NewSlab \in SlabStates /\ NewSlab.freelist = <<>> /\ NewSlab.batches = 0
        /\ NewSlab.alloc_count = 0
    BY DEF NewSlab, SlabStates
  <1>2. Elements(NewSlab) = {}
    BY <1>1, BatchAssumption DEF Elements
  <1>. QED  BY <1>1, <1>2, FS_EmptySet DEF SlabOK, IsInjective, ToSet

-----------------------------------------------------------------------------
(* Vars and the loops over them *)

ObjectStates ==
    [slab : [Kind \cup {"var"} -> SlabStates], impl : [Kind -> Nat \cup {None}],
     owned : SUBSET Kind, elements : [Block -> Seq(Nat)]]

VarsOK(s, used) == s \in ObjectStates /\ SlabOK(s.slab["var"], used)

\* Nothing but the slab of vars has changed.
OnlyVars(s, r) ==
    /\ r.impl = s.impl /\ r.owned = s.owned /\ r.elements = s.elements
    /\ \A k \in Kind : r.slab[k] = s.slab[k]

\* A state with another slab, wrapper or array.
PutSlab(s, k, b) == [s EXCEPT !.slab[k] = b]
PutImpl(s, k, p) == [s EXCEPT !.impl[k] = p]
PutElements(s, p, q) == [s EXCEPT !.elements[p] = q]

\* One slab is changed.
LEMMA WithSlab ==
    ASSUME NEW s \in ObjectStates, NEW k \in Kind \cup {"var"}, NEW b \in SlabStates,
           NEW r, r = PutSlab(s, k, b)
    PROVE  /\ r \in ObjectStates /\ r.slab[k] = b
           /\ r.impl = s.impl /\ r.owned = s.owned /\ r.elements = s.elements
           /\ \A j \in Kind \cup {"var"} : j # k => r.slab[j] = s.slab[j]
  BY DEF ObjectStates, PutSlab

\* A var is constructed.
LEMMA ConstructsVar ==
    ASSUME NEW s, NEW used, VarsOK(s, used), NEW p, p = NextElement(s.slab["var"]),
           NEW r, r = Construct(s, "var")
    PROVE  p \in Nat /\ p \notin used /\ VarsOK(r, used \cup {p}) /\ OnlyVars(s, r)
  <1>1. PICK b : b = SlabAlloc(s.slab["var"])
    OBVIOUS
  <1>2. p \in Nat /\ p \notin used /\ SlabOK(b, used \cup {p})
    BY <1>1, SlabAllocOK DEF VarsOK
  <1>3. b \in SlabStates /\ s \in ObjectStates
    BY <1>2 DEF SlabOK, VarsOK
  <1>4. r = PutSlab(s, "var", b)
    BY <1>1, Zenon DEF Construct, PutSlab
  <1>5. "var" \in Kind \cup {"var"} /\ \A k \in Kind : k # "var"
    BY ContextAssumption
  <1>. QED  BY <1>2, <1>3, <1>4, <1>5, WithSlab DEF VarsOK, OnlyVars

\* A var is destroyed.
LEMMA DestroysVar ==
    ASSUME NEW s, NEW used, VarsOK(s, used), NEW p \in used, NEW r, r = Destroy(s, "var", p)
    PROVE  VarsOK(r, used \ {p}) /\ OnlyVars(s, r)
  <1>1. PICK b : b = SlabFree(s.slab["var"], p)
    OBVIOUS
  <1>2. SlabOK(b, used \ {p})
    BY <1>1, SlabFreeOK DEF VarsOK
  <1>3. b \in SlabStates /\ s \in ObjectStates
    BY <1>2 DEF SlabOK, VarsOK
  <1>4. r = PutSlab(s, "var", b)
    BY <1>1, Zenon DEF Destroy, PutSlab
  <1>5. "var" \in Kind \cup {"var"} /\ \A k \in Kind : k # "var"
    BY ContextAssumption
  <1>. QED  BY <1>2, <1>3, <1>4, <1>5, WithSlab DEF VarsOK, OnlyVars

\* What leaves others alone twice leaves them alone.
LEMMA OnlyVarsTwice ==
    ASSUME NEW s, NEW r, NEW q, OnlyVars(s, r), OnlyVars(r, q)
    PROVE  OnlyVars(s, q)
  BY DEF OnlyVars

\* An element behind the others.
LEMMA OneBehind ==
    ASSUME NEW q \in Seq(Nat), IsInjective(q), NEW p \in Nat, p \notin ToSet(q),
           NEW r, r = Append(q, p)
    PROVE  /\ r \in Seq(Nat) /\ Len(r) = Len(q) + 1
           /\ IsInjective(r) /\ ToSet(r) = ToSet(q) \cup {p}
  <1>1. Len(q) \in Nat /\ DOMAIN q = 1 .. Len(q)
    BY LenProperties
  <1>2. /\ r \in Seq(Nat) /\ Len(r) = Len(q) + 1 /\ r[Len(q) + 1] = p
        /\ \A k \in 1 .. Len(q) : r[k] = q[k]
    BY <1>1, AppendProperties
  <1>3. DOMAIN r = 1 .. Len(q) + 1
    BY <1>1, <1>2
  <1>4. \A k \in 1 .. Len(q) : r[k] # p
    BY <1>1, <1>2 DEF ToSet
  <1>5. IsInjective(r)
    BY <1>1, <1>2, <1>3, <1>4 DEF IsInjective
  <1>6. ToSet(r) = ToSet(q) \cup {p}
    BY <1>1, <1>2, <1>3 DEF ToSet
  <1>. QED  BY <1>2, <1>5, <1>6

\* One more var, and the table of those constructed.
OneMoreVar(x) ==
    [objects |-> Construct(x.objects, "var"),
     made |-> Append(x.made, NextElement(x.objects.slab["var"]))]

Makes(s, n, g) ==
    g = [i \in 0 .. n |-> IF i = 0 THEN [objects |-> s, made |-> <<>>] ELSE OneMoreVar(g[i - 1])]

\* There is such a table.
LEMMA MakesExist ==
    ASSUME NEW s, NEW n \in Nat
    PROVE  \E g : Makes(s, n, g)
  <1>. DEFINE T == {k \in 0 .. n : \E g : Makes(s, k, g)}
  <1>1. 0 \in T
    <2>. DEFINE g == [i \in 0 .. 0 |-> [objects |-> s, made |-> <<>>]]
    <2>1. Makes(s, 0, g)
      BY DEF Makes
    <2>. QED  BY <2>1
  <1>2. ASSUME NEW k \in 0 .. n, k \in T, k < n PROVE k + 1 \in T
    <2>1. PICK g : Makes(s, k, g)
      BY <1>2
    <2>. DEFINE h == [i \in 0 .. k + 1 |-> IF i <= k THEN g[i] ELSE OneMoreVar(g[k])]
    <2>2. \A i \in 0 .. k + 1 :
            h[i] = IF i = 0 THEN [objects |-> s, made |-> <<>>] ELSE OneMoreVar(h[i - 1])
      <3>. SUFFICES ASSUME NEW i \in 0 .. k + 1
                    PROVE  h[i] = IF i = 0 THEN [objects |-> s, made |-> <<>>]
                                  ELSE OneMoreVar(h[i - 1])
        OBVIOUS
      <3>1. CASE i <= k
        BY <2>1, <3>1 DEF Makes
      <3>2. CASE i = k + 1
        BY <3>2
      <3>. QED  BY <3>1, <3>2
    <2>3. Makes(s, k + 1, h)
      <3>1. h = [i \in 0 .. k + 1 |-> h[i]]
        OBVIOUS
      <3>. HIDE DEF h
      <3>. QED  BY <2>2, <3>1 DEF Makes
    <2>. QED  BY <1>2, <2>3
  <1>. HIDE DEF T
  <1>3. n \in T
    BY <1>1, <1>2, UpTo
  <1>. QED  BY <1>3 DEF T

\* ConstructVars is its last entry.
LEMMA ConstructVarsMakes ==
    ASSUME NEW s, NEW n \in Nat
    PROVE  \E g : Makes(s, n, g) /\ ConstructVars(s, n) = g[n]
  <1>. DEFINE G == CHOOSE g : Makes(s, n, g)
  <1>1. Makes(s, n, G)
    BY MakesExist
  <1>2. ConstructVars(s, n) = G[n]
    BY Zenon DEF ConstructVars, Makes, OneMoreVar
  <1>. QED  BY <1>1, <1>2

\* x: i vars constructed in s, where those in used were.
Made(s, used, i, x) ==
    /\ x.made \in Seq(Nat) /\ Len(x.made) = i /\ IsInjective(x.made)
    /\ ToSet(x.made) \cap used = {}
    /\ VarsOK(x.objects, used \cup ToSet(x.made))
    /\ OnlyVars(s, x.objects)

\* The vars constructed were all free.
LEMMA VarsConstructed ==
    ASSUME NEW s, NEW used, VarsOK(s, used), NEW n \in Nat
    PROVE  Made(s, used, n, ConstructVars(s, n))
  <1>1. PICK g : Makes(s, n, g) /\ ConstructVars(s, n) = g[n]
    BY ConstructVarsMakes
  <1>2. g[0] = [objects |-> s, made |-> <<>>]
    BY <1>1 DEF Makes
  <1>3. \A i \in 0 .. n : i < n => g[i + 1] = OneMoreVar(g[i])
    BY <1>1 DEF Makes
  <1>. DEFINE T == {i \in 0 .. n : Made(s, used, i, g[i])}
  <1>4. 0 \in T
    <2>1. g[0].made = <<>> /\ g[0].objects = s
      BY <1>2
    <2>2. ToSet(<<>>) = {} /\ IsInjective(<<>>) /\ <<>> \in Seq(Nat) /\ Len(<<>>) = 0
      BY DEF ToSet, IsInjective
    <2>3. OnlyVars(s, s)
      BY DEF OnlyVars
    <2>4. Made(s, used, 0, g[0])
      BY <2>1, <2>2, <2>3 DEF Made
    <2>. QED  BY <2>4
  <1>5. ASSUME NEW i \in 0 .. n, i \in T, i < n PROVE i + 1 \in T
    <2>1. PICK x : x = g[i]
      OBVIOUS
    <2>2. Made(s, used, i, x)
      BY <1>5, <2>1
    <2>3. PICK p : p = NextElement(x.objects.slab["var"])
      OBVIOUS
    <2>4. PICK o : o = Construct(x.objects, "var")
      OBVIOUS
    <2>5. g[i + 1] = [objects |-> o, made |-> Append(x.made, p)]
      BY <1>3, <1>5, <2>1, <2>3, <2>4 DEF OneMoreVar
    <2>6. p \in Nat /\ p \notin used \cup ToSet(x.made)
          /\ VarsOK(o, (used \cup ToSet(x.made)) \cup {p}) /\ OnlyVars(x.objects, o)
      BY <2>2, <2>3, <2>4, ConstructsVar DEF Made
    <2>7. PICK q : q = Append(x.made, p)
      OBVIOUS
    <2>8. q \in Seq(Nat) /\ Len(q) = i + 1 /\ IsInjective(q) /\ ToSet(q) = ToSet(x.made) \cup {p}
      BY <2>2, <2>6, <2>7, OneBehind DEF Made
    <2>9. (used \cup ToSet(x.made)) \cup {p} = used \cup ToSet(q)
      BY <2>8
    <2>10. OnlyVars(s, o)
      BY <2>2, <2>6, OnlyVarsTwice DEF Made
    <2>11. ToSet(q) \cap used = {}
      BY <2>2, <2>6, <2>8 DEF Made
    <2>12. VarsOK(o, used \cup ToSet(q))
      BY <2>6, <2>9
    <2>13. g[i + 1] = [objects |-> o, made |-> q]
      BY <2>5, <2>7
    <2>14. g[i + 1].made = q /\ g[i + 1].objects = o
      BY <2>13
    <2>15. Made(s, used, i + 1, g[i + 1])
      BY <2>8, <2>10, <2>11, <2>12, <2>14 DEF Made
    <2>. QED  BY <1>5, <2>15
  <1>. HIDE DEF T
  <1>6. n \in T
    BY <1>4, <1>5, UpTo
  <1>. QED  BY <1>1, <1>6 DEF T

\* The table of vars destroyed one by one.
Destroys(s, q, n, g) ==
    g = [i \in 0 .. n |-> IF i = 0 THEN s ELSE Destroy(g[i - 1], "var", q[i])]

\* There is such a table.
LEMMA DestroysExist ==
    ASSUME NEW s, NEW q, NEW n \in Nat
    PROVE  \E g : Destroys(s, q, n, g)
  <1>. DEFINE T == {k \in 0 .. n : \E g : Destroys(s, q, k, g)}
  <1>1. 0 \in T
    <2>. DEFINE g == [i \in 0 .. 0 |-> s]
    <2>1. Destroys(s, q, 0, g)
      BY DEF Destroys
    <2>. QED  BY <2>1
  <1>2. ASSUME NEW k \in 0 .. n, k \in T, k < n PROVE k + 1 \in T
    <2>1. PICK g : Destroys(s, q, k, g)
      BY <1>2
    <2>. DEFINE h == [i \in 0 .. k + 1 |-> IF i <= k THEN g[i] ELSE Destroy(g[k], "var", q[k + 1])]
    <2>2. \A i \in 0 .. k + 1 : h[i] = IF i = 0 THEN s ELSE Destroy(h[i - 1], "var", q[i])
      <3>. SUFFICES ASSUME NEW i \in 0 .. k + 1
                    PROVE  h[i] = IF i = 0 THEN s ELSE Destroy(h[i - 1], "var", q[i])
        OBVIOUS
      <3>1. CASE i <= k
        BY <2>1, <3>1 DEF Destroys
      <3>2. CASE i = k + 1
        BY <3>2
      <3>. QED  BY <3>1, <3>2
    <2>3. Destroys(s, q, k + 1, h)
      <3>1. h = [i \in 0 .. k + 1 |-> h[i]]
        OBVIOUS
      <3>. HIDE DEF h
      <3>. QED  BY <2>2, <3>1 DEF Destroys
    <2>. QED  BY <1>2, <2>3
  <1>. HIDE DEF T
  <1>3. n \in T
    BY <1>1, <1>2, UpTo
  <1>. QED  BY <1>3 DEF T

\* DestroyVars is its last entry.
LEMMA DestroyVarsDestroys ==
    ASSUME NEW s, NEW q, Len(q) \in Nat
    PROVE  \E g : Destroys(s, q, Len(q), g) /\ DestroyVars(s, q) = g[Len(q)]
  <1>. DEFINE G == CHOOSE g : Destroys(s, q, Len(q), g)
  <1>1. Destroys(s, q, Len(q), G)
    BY DestroysExist
  <1>2. DestroyVars(s, q) = G[Len(q)]
    BY Zenon DEF DestroyVars, Destroys
  <1>. QED  BY <1>1, <1>2

\* Of vars in use those destroyed are free again, the others are in use.
LEMMA VarsDestroyed ==
    ASSUME NEW s, NEW used, VarsOK(s, used),
           NEW q \in Seq(Nat), IsInjective(q), ToSet(q) \subseteq used,
           NEW r, r = DestroyVars(s, q)
    PROVE  VarsOK(r, used \ ToSet(q)) /\ OnlyVars(s, r)
  <1>. DEFINE n == Len(q)
  <1>1. n \in Nat /\ DOMAIN q = 1 .. n
    BY LenProperties
  <1>2. PICK g : Destroys(s, q, n, g) /\ r = g[n]
    BY <1>1, DestroyVarsDestroys
  <1>. HIDE DEF n
  <1>3. g[0] = s
    BY <1>1, <1>2 DEF Destroys
  <1>4. \A i \in 0 .. n : i < n => g[i + 1] = Destroy(g[i], "var", q[i + 1])
    BY <1>1, <1>2 DEF Destroys
  <1>. DEFINE Gone(i) == {q[j] : j \in 1 .. i}
              T == {i \in 0 .. n : VarsOK(g[i], used \ Gone(i)) /\ OnlyVars(s, g[i])}
  <1>5. 0 \in T
    <2>1. used \ Gone(0) = used
      OBVIOUS
    <2>2. OnlyVars(s, s)
      BY DEF OnlyVars
    <2>. HIDE DEF Gone
    <2>3. VarsOK(g[0], used \ Gone(0)) /\ OnlyVars(s, g[0])
      BY <1>3, <2>1, <2>2
    <2>4. 0 \in 0 .. n
      BY <1>1
    <2>. QED  BY <2>3, <2>4
  <1>6. ASSUME NEW i \in 0 .. n, i \in T, i < n PROVE i + 1 \in T
    <2>1. i + 1 \in 1 .. n /\ q[i + 1] \in used
      BY <1>1, <1>6 DEF ToSet
    <2>2. q[i + 1] \notin Gone(i)
      BY <1>1, <2>1 DEF IsInjective
    <2>3. (used \ Gone(i)) \ {q[i + 1]} = used \ Gone(i + 1)
      <3>1. Gone(i + 1) = Gone(i) \cup {q[i + 1]}
        <4>1. 1 .. i + 1 = (1 .. i) \cup {i + 1}
          BY <1>6
        <4>. QED  BY <4>1
      <3>. HIDE DEF Gone
      <3>. QED  BY <3>1
    <2>. HIDE DEF Gone
    <2>4. VarsOK(g[i], used \ Gone(i)) /\ OnlyVars(s, g[i])
      BY <1>6
    <2>5. VarsOK(g[i + 1], (used \ Gone(i)) \ {q[i + 1]}) /\ OnlyVars(g[i], g[i + 1])
      BY <1>4, <1>6, <2>1, <2>2, <2>4, DestroysVar
    <2>6. VarsOK(g[i + 1], used \ Gone(i + 1))
      BY <2>3, <2>5
    <2>7. OnlyVars(s, g[i + 1])
      BY <2>4, <2>5, OnlyVarsTwice
    <2>. QED  BY <2>1, <2>6, <2>7
  <1>7. Gone(n) = ToSet(q)
    BY <1>1 DEF ToSet
  <1>. HIDE DEF Gone, T
  <1>8. n \in T
    <2>1. n \in Nat /\ n \in 0 .. n
      BY <1>1
    <2>2. 0 .. n \subseteq T
      BY <2>1, <1>5, <1>6, UpTo
    <2>. QED  BY <2>1, <2>2
  <1>. QED  BY <1>2, <1>7, <1>8 DEF T

-----------------------------------------------------------------------------
(* An array whose constructor throws *)

\* The numbers from m down to 0.
Down(m) == [k \in 1 .. m + 1 |-> m + 1 - k]

\* The table of Unwind.
Unwinds(n, f) ==
    f = [m \in 0 .. WordSize - 1 |->
            IF m < n THEN <<m>> \o f[(m - 1 + WordSize) % WordSize] ELSE <<>>]

\* One number before those below it.
LEMMA DownFacts ==
    /\ <<0>> \o <<>> = Down(0)
    /\ \A m \in Nat : <<m + 1>> \o Down(m) = Down(m + 1)
  <1>1. <<0>> \o <<>> = Down(0)
    BY DEF Down
  <1>2. ASSUME NEW m \in Nat PROVE <<m + 1>> \o Down(m) = Down(m + 1)
    <2>. DEFINE q == Down(m)
                r == <<m + 1>> \o q
    <2>1. q \in Seq(Int) /\ Len(q) = m + 1 /\ \A k \in 1 .. m + 1 : q[k] = m + 1 - k
      BY DEF Down
    <2>2. <<m + 1>> \in Seq(Int) /\ Len(<<m + 1>>) = 1 /\ <<m + 1>>[1] = m + 1
      OBVIOUS
    <2>. HIDE DEF q
    <2>3. /\ r \in Seq(Int) /\ Len(r) = m + 2 /\ r[1] = m + 1
          /\ \A k \in 2 .. m + 2 : r[k] = q[k - 1]
      BY <2>1, <2>2, ConcatProperties
    <2>. HIDE DEF r
    <2>4. ASSUME NEW k \in 1 .. m + 2 PROVE r[k] = m + 2 - k
      <3>1. CASE k = 1
        BY <3>1, <2>3
      <3>2. CASE k # 1
        <4>1. k \in 2 .. m + 2 /\ k - 1 \in 1 .. m + 1
          BY <3>2
        <4>2. r[k] = q[k - 1] /\ q[k - 1] = m + 1 - (k - 1)
          BY <4>1, <2>1, <2>3
        <4>. QED  BY <4>2
      <3>. QED  BY <3>1, <3>2
    <2>5. r = [k \in 1 .. m + 2 |-> m + 2 - k]
      BY <2>3, <2>4
    <2>6. Down(m + 1) = [k \in 1 .. m + 2 |-> m + 2 - k]
      <3>1. (m + 1) + 1 = m + 2
        OBVIOUS
      <3>. QED  BY <3>1 DEF Down
    <2>. QED  BY <2>5, <2>6 DEF r, q
  <1>. QED  BY <1>1, <1>2

\* The elements below the one whose constructor throws are destroyed, the last
\* first, and no other: the loop ends where its index has wrapped.
LEMMA UnwindsDown ==
    ASSUME WordSize \in Nat, NEW n \in 0 .. WordSize - 1, NEW i \in 0 .. n - 1
    PROVE  Unwind(i, n) = [k \in 1 .. i |-> i - k]
  <1>1. n \in Nat /\ i \in Nat /\ i < n /\ n < WordSize /\ WordSize - 1 \in Nat
    OBVIOUS
  <1>2. ASSUME NEW m \in 0 .. WordSize - 1
        PROVE  (m - 1 + WordSize) % WordSize = IF m = 0 THEN WordSize - 1 ELSE m - 1
    BY <1>1
  <1>. DEFINE h == [m \in 0 .. WordSize - 1 |-> IF m < n THEN Down(m) ELSE <<>>]
  <1>3. Unwinds(n, h)
    <2>1. ASSUME NEW m \in 0 .. WordSize - 1
          PROVE  h[m] = IF m < n THEN <<m>> \o h[(m - 1 + WordSize) % WordSize] ELSE <<>>
      <3>1. CASE ~(m < n)
        BY <3>1
      <3>2. CASE m = 0
        <4>1. h[(m - 1 + WordSize) % WordSize] = <<>>
          BY <3>2, <1>1, <1>2
        <4>. QED  BY <4>1, <3>2, <1>1, DownFacts
      <3>3. CASE m < n /\ m # 0
        <4>1. m - 1 \in Nat /\ m - 1 \in 0 .. WordSize - 1 /\ m - 1 < n /\ (m - 1) + 1 = m
          BY <3>3, <1>1
        <4>2. h[(m - 1 + WordSize) % WordSize] = Down(m - 1)
          BY <3>3, <4>1, <1>2
        <4>3. <<m>> \o Down(m - 1) = Down(m)
          BY <4>1, DownFacts
        <4>. QED  BY <3>3, <4>2, <4>3
      <3>. QED  BY <3>1, <3>2, <3>3
    <2>2. h = [m \in 0 .. WordSize - 1 |-> h[m]]
      OBVIOUS
    <2>. HIDE DEF h
    <2>. QED  BY <2>1, <2>2 DEF Unwinds
  <1>. DEFINE F == CHOOSE f : Unwinds(n, f)
  <1>4. Unwinds(n, F)
    BY <1>3
  <1>5. Unwind(i, n) = F[(i - 1 + WordSize) % WordSize]
    BY Zenon DEF Unwind, Unwinds
  <1>. HIDE DEF F, h
  <1>6. /\ \A m \in 0 .. WordSize - 1 :
              m < n => F[m] = <<m>> \o F[(m - 1 + WordSize) % WordSize]
        /\ \A m \in 0 .. WordSize - 1 : ~(m < n) => F[m] = <<>>
    BY <1>4 DEF Unwinds
  <1>7. F[WordSize - 1] = <<>>
    <2>1. WordSize - 1 \in 0 .. WordSize - 1 /\ ~(WordSize - 1 < n)
      BY <1>1
    <2>. QED  BY <2>1, <1>6
  <1>. DEFINE T == {m \in 0 .. n - 1 : F[m] = Down(m)}
  <1>8. 0 \in T
    <2>1. F[0] = <<0>> \o F[(0 - 1 + WordSize) % WordSize]
      <3>1. 0 \in 0 .. WordSize - 1 /\ 0 < n
        BY <1>1
      <3>. QED  BY <3>1, <1>6
    <2>2. (0 - 1 + WordSize) % WordSize = WordSize - 1
      BY <1>1, <1>2
    <2>. QED  BY <2>1, <2>2, <1>1, <1>7, DownFacts
  <1>9. ASSUME NEW m \in 0 .. n - 1, m \in T, m < n - 1 PROVE m + 1 \in T
    <2>1. m + 1 \in 0 .. WordSize - 1 /\ m + 1 < n /\ m \in Nat
      BY <1>1, <1>9
    <2>2. (m + 1 - 1 + WordSize) % WordSize = m
      BY <2>1, <1>2
    <2>3. F[m + 1] = <<m + 1>> \o F[m]
      <3>1. F[m + 1] = <<m + 1>> \o F[(m + 1 - 1 + WordSize) % WordSize]
        BY <2>1, <1>6
      <3>. QED  BY <3>1, <2>2
    <2>4. F[m + 1] = Down(m + 1)
      BY <2>1, <2>3, <1>9, DownFacts
    <2>. QED  BY <2>1, <2>4
  <1>. HIDE DEF T
  <1>10. 0 .. n - 1 \subseteq T
    BY <1>1, <1>8, <1>9, UpTo
  <1>11. CASE i = 0
    <2>1. Unwind(i, n) = <<>>
      BY <1>11, <1>1, <1>2, <1>5, <1>7
    <2>. QED  BY <2>1, <1>11
  <1>12. CASE i # 0
    <2>1. i - 1 \in 0 .. n - 1 /\ (i - 1 + WordSize) % WordSize = i - 1 /\ (i - 1) + 1 = i
      BY <1>12, <1>1, <1>2
    <2>2. Unwind(i, n) = Down(i - 1)
      BY <2>1, <1>5, <1>10 DEF T
    <2>. QED  BY <2>1, <2>2 DEF Down
  <1>. QED  BY <1>11, <1>12

\* The vars of an array whose constructor throws are as if they had not been.
LEMMA VarsUnwound ==
    ASSUME WordSize \in Nat, NEW n \in 0 .. WordSize - 1, NEW i \in 0 .. n - 1,
           NEW s, NEW used, VarsOK(s, used), NEW x, x = ConstructVars(s, i),
           NEW q, q = [k \in DOMAIN Unwind(i, n) |-> x.made[Unwind(i, n)[k] + 1]],
           NEW r, r = DestroyVars(x.objects, q)
    PROVE  VarsOK(r, used) /\ OnlyVars(s, r)
  <1>1. i \in Nat
    OBVIOUS
  <1>2. Made(s, used, i, x)
    BY <1>1, VarsConstructed
  <1>3. Unwind(i, n) = [k \in 1 .. i |-> i - k]
    BY UnwindsDown
  <1>4. q = [k \in 1 .. i |-> x.made[i - k + 1]]
    BY <1>3
  <1>5. x.made \in Seq(Nat) /\ Len(x.made) = i /\ DOMAIN x.made = 1 .. i /\ IsInjective(x.made)
    BY <1>2, <1>1 DEF Made
  <1>6. q \in Seq(Nat) /\ DOMAIN q = 1 .. i
    <2>1. \A k \in 1 .. i : i - k + 1 \in 1 .. i
      BY <1>1
    <2>2. \A k \in 1 .. i : x.made[k] \in Nat
      BY <1>5
    <2>3. \A k \in 1 .. i : x.made[i - k + 1] \in Nat
      BY <2>1, <2>2
    <2>. HIDE <1>5
    <2>. QED  BY <1>1, <1>4, <2>3
  <1>7. ToSet(q) = ToSet(x.made)
    <2>1. ASSUME NEW k \in 1 .. i PROVE q[k] \in ToSet(x.made)
      <3>1. i - k + 1 \in 1 .. i /\ q[k] = x.made[i - k + 1]
        BY <1>1, <1>4
      <3>. QED  BY <3>1, <1>5 DEF ToSet
    <2>2. ASSUME NEW k \in 1 .. i PROVE x.made[k] \in ToSet(q)
      <3>1. i - k + 1 \in 1 .. i /\ i - (i - k + 1) + 1 = k
        BY <1>1
      <3>2. q[i - k + 1] = x.made[k]
        BY <1>4, <3>1
      <3>3. i - k + 1 \in DOMAIN q
        BY <3>1, <1>6
      <3>. QED  BY <3>2, <3>3 DEF ToSet
    <2>3. /\ ToSet(q) = {q[k] : k \in 1 .. i}
          /\ ToSet(x.made) = {x.made[k] : k \in 1 .. i}
      BY <1>5, <1>6 DEF ToSet
    <2>. QED  BY <2>1, <2>2, <2>3
  <1>8. IsInjective(q)
    <2>1. ASSUME NEW a \in 1 .. i, NEW b \in 1 .. i, q[a] = q[b] PROVE a = b
      <3>1. i - a + 1 \in 1 .. i /\ i - b + 1 \in 1 .. i
        BY <1>1
      <3>2. x.made[i - a + 1] = x.made[i - b + 1]
        BY <2>1, <1>4
      <3>3. i - a + 1 = i - b + 1
        BY <3>1, <3>2, <1>5 DEF IsInjective
      <3>. QED  BY <3>3, <1>1
    <2>. QED  BY <2>1, <1>6 DEF IsInjective
  <1>9. VarsOK(x.objects, used \cup ToSet(q)) /\ OnlyVars(s, x.objects) /\ ToSet(q) \cap used = {}
    BY <1>2, <1>7 DEF Made
  <1>10. VarsOK(r, (used \cup ToSet(q)) \ ToSet(q)) /\ OnlyVars(x.objects, r)
    BY <1>6, <1>8, <1>9, VarsDestroyed
  <1>11. (used \cup ToSet(q)) \ ToSet(q) = used
    BY <1>9
  <1>. QED  BY <1>9, <1>10, <1>11, OnlyVarsTwice

-----------------------------------------------------------------------------
(* The objects of a context *)

InArrays(e) == UNION {ToSet(e[b]) : b \in Block}

\* An array is in a block of the test, and a var in one array, once.
Arrays(e, allocs, slots) ==
    /\ e \in [Block -> Seq(Nat)]
    /\ \A b \in Block : IsInjective(e[b]) /\ (e[b] # <<>> => b \in allocs \ slots)
    /\ \A b, c \in Block : b # c => ToSet(e[b]) \cap ToSet(e[c]) = {}
    /\ slots \subseteq allocs

\* What is used of a slab of wrappers is what a wrapper has.
Wrappers(s) ==
    /\ \A k \in Kind : SlabOK(s.slab[k], {s.impl[k]} \ {None})
    /\ \A k \in s.owned : s.impl[k] # None

ObjectsOK(s, allocs, slots) ==
    /\ VarsOK(s, InArrays(s.elements))
    /\ Arrays(s.elements, allocs, slots)
    /\ Wrappers(s)

\* Wrappers do not mind the vars.
LEMMA WrappersStay ==
    ASSUME NEW s \in ObjectStates, NEW r, OnlyVars(s, r), Wrappers(s)
    PROVE  Wrappers(r)
  BY DEF OnlyVars, Wrappers, ObjectStates

\* The elements of one array are replaced.
LEMMA WithElements ==
    ASSUME NEW s \in ObjectStates, NEW p \in Block, NEW q \in Seq(Nat),
           NEW r, r = PutElements(s, p, q)
    PROVE  /\ r \in ObjectStates /\ r.slab = s.slab /\ r.impl = s.impl /\ r.owned = s.owned
           /\ r.elements = [s.elements EXCEPT ![p] = q]
  BY DEF ObjectStates, PutElements

\* With other arrays the rest is as it was.
LEMMA OthersKept ==
    ASSUME NEW s \in ObjectStates, NEW p, NEW q, NEW r, r = PutElements(s, p, q)
    PROVE  r.slab = s.slab /\ r.impl = s.impl /\ r.owned = s.owned
  BY DEF ObjectStates, PutElements

\* An array is no more.
LEMMA WithoutElements ==
    ASSUME NEW s \in ObjectStates, NEW p \in Block, NEW r, r = PutElements(s, p, <<>>)
    PROVE  /\ r \in ObjectStates /\ r.slab = s.slab /\ r.impl = s.impl /\ r.owned = s.owned
           /\ r.elements = [s.elements EXCEPT ![p] = <<>>]
  <1>1. <<>> \in Seq(Nat)
    OBVIOUS
  <1>2. PICK m : m = <<>>
    OBVIOUS
  <1>3. m \in Seq(Nat) /\ r = PutElements(s, p, m)
    BY <1>1, <1>2
  <1>4. r.elements = [s.elements EXCEPT ![p] = m]
    BY <1>3, WithElements
  <1>5. r \in ObjectStates
    BY <1>3, WithElements
  <1>7. r.slab = s.slab /\ r.impl = s.impl /\ r.owned = s.owned
    BY <1>3, OthersKept
  <1>6. [s.elements EXCEPT ![p] = m] = [s.elements EXCEPT ![p] = <<>>]
    BY <1>2
  <1>. QED  BY <1>4, <1>5, <1>6, <1>7

\* A new array has vars that no other has.
LEMMA ArrayMade ==
    ASSUME NEW s, NEW allocs, NEW slots, ObjectsOK(s, allocs, slots),
           NEW p \in Block, p \notin allocs, NEW n \in Nat, NEW x, x = ConstructVars(s, n),
           NEW r, r = PutElements(x.objects, p, x.made)
    PROVE  ObjectsOK(r, allocs \cup {p}, slots)
  <1>. DEFINE e == s.elements
              f == [e EXCEPT ![p] = x.made]
              U == InArrays(e)
  <1>1. VarsOK(s, U) /\ Arrays(e, allocs, slots) /\ Wrappers(s) /\ s \in ObjectStates
    BY DEF ObjectsOK, VarsOK
  <1>2. Made(s, U, n, x)
    BY <1>1, VarsConstructed
  <1>3. x.objects \in ObjectStates /\ x.made \in Seq(Nat) /\ x.objects.elements = e
        /\ IsInjective(x.made) /\ ToSet(x.made) \cap U = {}
        /\ VarsOK(x.objects, U \cup ToSet(x.made)) /\ OnlyVars(s, x.objects)
    BY <1>2 DEF Made, VarsOK, OnlyVars
  <1>4. r \in ObjectStates /\ r.slab = x.objects.slab /\ r.impl = x.objects.impl
        /\ r.owned = x.objects.owned /\ r.elements = f
    <2>1. r.elements = [x.objects.elements EXCEPT ![p] = x.made]
      BY <1>3, WithElements
    <2>. QED  BY <1>3, <2>1, WithElements
  <1>5. e \in [Block -> Seq(Nat)] /\ e[p] = <<>>
    BY <1>1 DEF Arrays
  <1>6. f \in [Block -> Seq(Nat)] /\ f[p] = x.made /\ \A b \in Block \ {p} : f[b] = e[b]
    BY <1>3, <1>5
  <1>7. \A b \in Block : ToSet(e[b]) \subseteq U
    BY DEF InArrays
  <1>8. InArrays(f) = U \cup ToSet(x.made)
    <2>1. ToSet(e[p]) = {}
      BY <1>5 DEF ToSet
    <2>. HIDE DEF f, e
    <2>2. InArrays(f) = UNION {ToSet(f[b]) : b \in Block}
      BY DEF InArrays
    <2>3. U = UNION {ToSet(e[b]) : b \in Block}
      BY DEF InArrays
    <2>. HIDE DEF U
    <2>. QED  BY <1>6, <2>1, <2>2, <2>3
  <1>. HIDE DEF e, f, U
  <1>9. Arrays(f, allocs \cup {p}, slots)
    <2>1. ASSUME NEW b \in Block
          PROVE  IsInjective(f[b]) /\ (f[b] # <<>> => b \in (allocs \cup {p}) \ slots)
      <3>1. CASE b = p
        BY <3>1, <1>1, <1>3, <1>6 DEF Arrays
      <3>2. CASE b # p
        BY <3>2, <1>1, <1>6 DEF Arrays
      <3>. QED  BY <3>1, <3>2
    <2>2. ASSUME NEW b \in Block, NEW c \in Block, b # c
          PROVE  ToSet(f[b]) \cap ToSet(f[c]) = {}
      <3>1. CASE b = p
        BY <3>1, <2>2, <1>3, <1>6, <1>7
      <3>2. CASE c = p
        BY <3>2, <2>2, <1>3, <1>6, <1>7
      <3>3. CASE b # p /\ c # p
        BY <3>3, <2>2, <1>1, <1>6 DEF Arrays
      <3>. QED  BY <3>1, <3>2, <3>3
    <2>. QED  BY <2>1, <2>2, <1>1, <1>6 DEF Arrays
  <1>10. Wrappers(r)
    <2>1. Wrappers(x.objects)
      BY <1>1, <1>3, WrappersStay
    <2>. QED  BY <2>1, <1>4 DEF Wrappers
  <1>11. VarsOK(r, U \cup ToSet(x.made))
    BY <1>3, <1>4 DEF VarsOK
  <1>. QED  BY <1>4, <1>8, <1>9, <1>10, <1>11 DEF ObjectsOK

\* The vars of an array that is deleted are free again.
LEMMA ArrayDeleted ==
    ASSUME NEW s, NEW allocs, NEW slots, ObjectsOK(s, allocs, slots),
           NEW p \in Block, s.elements[p] # <<>>,
           NEW r, r = PutElements(DestroyVars(s, s.elements[p]), p, <<>>)
    PROVE  ObjectsOK(r, allocs \ {p}, slots) /\ p \notin slots
  <1>. DEFINE e == s.elements
              f == [e EXCEPT ![p] = <<>>]
              U == InArrays(e)
              d == DestroyVars(s, e[p])
  <1>1. VarsOK(s, U) /\ Arrays(e, allocs, slots) /\ Wrappers(s) /\ s \in ObjectStates
    BY DEF ObjectsOK, VarsOK
  <1>2. e \in [Block -> Seq(Nat)] /\ IsInjective(e[p]) /\ p \in allocs \ slots
    BY <1>1 DEF Arrays
  <1>3. \A b \in Block : ToSet(e[b]) \subseteq U
    BY DEF InArrays
  <1>4. VarsOK(d, U \ ToSet(e[p])) /\ OnlyVars(s, d)
    BY <1>1, <1>2, <1>3, VarsDestroyed
  <1>5. r = PutElements(d, p, <<>>)
    OBVIOUS
  <1>. HIDE DEF d
  <1>6. d \in ObjectStates /\ d.elements = e
    BY <1>4 DEF VarsOK, OnlyVars
  <1>7. r \in ObjectStates /\ r.slab = d.slab /\ r.impl = d.impl /\ r.owned = d.owned
        /\ r.elements = f
    <2>1. /\ r \in ObjectStates /\ r.slab = d.slab /\ r.impl = d.impl /\ r.owned = d.owned
          /\ r.elements = [d.elements EXCEPT ![p] = <<>>]
      BY <1>5, <1>6, WithoutElements
    <2>. QED  BY <1>6, <2>1
  <1>8. f \in [Block -> Seq(Nat)] /\ f[p] = <<>> /\ \A b \in Block \ {p} : f[b] = e[b]
    BY <1>2
  <1>9. ToSet(f[p]) = {} /\ IsInjective(f[p])
    BY <1>8 DEF ToSet, IsInjective
  <1>10. InArrays(f) = U \ ToSet(e[p])
    <2>1. \A b \in Block \ {p} : ToSet(e[b]) \cap ToSet(e[p]) = {}
      BY <1>1 DEF Arrays
    <2>. HIDE DEF f, e
    <2>2. InArrays(f) = UNION {ToSet(f[b]) : b \in Block}
      BY DEF InArrays
    <2>3. U = UNION {ToSet(e[b]) : b \in Block}
      BY DEF InArrays
    <2>. HIDE DEF U
    <2>. QED  BY <1>8, <1>9, <2>1, <2>2, <2>3
  <1>. HIDE DEF e, f, U
  <1>11. Arrays(f, allocs \ {p}, slots)
    <2>1. ASSUME NEW b \in Block
          PROVE  IsInjective(f[b]) /\ (f[b] # <<>> => b \in (allocs \ {p}) \ slots)
      <3>1. CASE b = p
        BY <3>1, <1>8, <1>9
      <3>2. CASE b # p
        BY <3>2, <1>1, <1>8 DEF Arrays
      <3>. QED  BY <3>1, <3>2
    <2>2. ASSUME NEW b \in Block, NEW c \in Block, b # c
          PROVE  ToSet(f[b]) \cap ToSet(f[c]) = {}
      <3>1. CASE b = p \/ c = p
        BY <3>1, <1>9
      <3>2. CASE b # p /\ c # p
        BY <3>2, <2>2, <1>1, <1>8 DEF Arrays
      <3>. QED  BY <3>1, <3>2
    <2>3. slots \subseteq allocs \ {p}
      BY <1>1, <1>2 DEF Arrays
    <2>. QED  BY <2>1, <2>2, <2>3, <1>8 DEF Arrays
  <1>12. Wrappers(r)
    <2>1. Wrappers(d)
      BY <1>1, <1>4, WrappersStay
    <2>. QED  BY <2>1, <1>7 DEF Wrappers
  <1>13. VarsOK(r, U \ ToSet(e[p]))
    BY <1>4, <1>7 DEF VarsOK
  <1>. QED  BY <1>2, <1>7, <1>10, <1>11, <1>12, <1>13 DEF ObjectsOK

\* A block that the test has not has no array, and is no slot.
LEMMA NotOurs ==
    ASSUME NEW s, NEW allocs, NEW slots, ObjectsOK(s, allocs, slots), NEW p \in Block \ allocs
    PROVE  s.elements[p] = <<>> /\ p \notin slots
  BY DEF ObjectsOK, Arrays

\* Nor has a slot an array.
LEMMA SlotIsNoArray ==
    ASSUME NEW s, NEW allocs, NEW slots, ObjectsOK(s, allocs, slots), NEW p \in Block, p \in slots
    PROVE  s.elements[p] = <<>>
  BY DEF ObjectsOK, Arrays

\* A block comes.
LEMMA BlockComes ==
    ASSUME NEW s, NEW allocs, NEW slots, ObjectsOK(s, allocs, slots), NEW p, NEW a,
           a = allocs \cup {p}
    PROVE  ObjectsOK(s, a, slots)
  BY DEF ObjectsOK, Arrays

\* A block without an array goes.
LEMMA BlockGoes ==
    ASSUME NEW s, NEW allocs, NEW slots, ObjectsOK(s, allocs, slots),
           NEW p \in Block, p \notin slots, s.elements[p] = <<>>, NEW a, a = allocs \ {p}
    PROVE  ObjectsOK(s, a, slots)
  <1>1. Arrays(s.elements, a, slots)
    BY DEF ObjectsOK, Arrays
  <1>. QED  BY <1>1 DEF ObjectsOK

\* A block is a slot no more.
LEMMA SlotsGo ==
    ASSUME NEW s, NEW allocs, NEW slots, ObjectsOK(s, allocs, slots), NEW b, b \subseteq slots
    PROVE  ObjectsOK(s, allocs, b)
  <1>1. Arrays(s.elements, allocs, b)
    BY DEF ObjectsOK, Arrays
  <1>. QED  BY <1>1 DEF ObjectsOK

\* A block without an array becomes a slot.
LEMMA SlotComes ==
    ASSUME NEW s, NEW allocs, NEW slots, ObjectsOK(s, allocs, slots),
           NEW p \in Block \ allocs
    PROVE  ObjectsOK(s, allocs \cup {p}, slots \cup {p})
  BY DEF ObjectsOK, Arrays

\* A wrapper is changed with its slab.
LEMMA WithWrapper ==
    ASSUME NEW s, NEW allocs, NEW slots, ObjectsOK(s, allocs, slots),
           NEW k \in Kind, NEW b, NEW p \in Nat \cup {None}, SlabOK(b, {p} \ {None}),
           p = None => k \notin s.owned,
           NEW q, q = PutSlab(s, k, b), NEW r, r = PutImpl(q, k, p)
    PROVE  ObjectsOK(r, allocs, slots)
  <1>1. s \in ObjectStates /\ b \in SlabStates
    BY DEF ObjectsOK, VarsOK, SlabOK
  <1>3. /\ q \in ObjectStates /\ q.slab[k] = b /\ q.impl = s.impl /\ q.owned = s.owned
        /\ q.elements = s.elements /\ \A j \in Kind \cup {"var"} : j # k => q.slab[j] = s.slab[j]
    <2>1. k \in Kind \cup {"var"}
      OBVIOUS
    <2>. QED  BY <1>1, <2>1, WithSlab
  <1>5. /\ r \in ObjectStates /\ r.slab = q.slab /\ r.owned = s.owned /\ r.elements = s.elements
        /\ r.impl[k] = p /\ \A j \in Kind \ {k} : r.impl[j] = s.impl[j]
    BY <1>3 DEF ObjectStates, PutImpl
  <1>6. VarsOK(r, InArrays(r.elements))
    <2>1. "var" # k
      BY ContextAssumption
    <2>2. r.slab["var"] = s.slab["var"]
      BY <1>3, <1>5, <2>1
    <2>. QED  BY <1>5, <2>2 DEF ObjectsOK, VarsOK
  <1>7. Wrappers(r)
    <2>1. ASSUME NEW j \in Kind PROVE SlabOK(r.slab[j], {r.impl[j]} \ {None})
      <3>1. CASE j = k
        BY <3>1, <1>3, <1>5
      <3>2. CASE j # k
        BY <3>2, <2>1, <1>3, <1>5 DEF ObjectsOK, Wrappers
      <3>. QED  BY <3>1, <3>2
    <2>2. ASSUME NEW j \in r.owned PROVE r.impl[j] # None
      BY <2>2, <1>1, <1>5 DEF ObjectsOK, Wrappers, ObjectStates
    <2>. QED  BY <2>1, <2>2 DEF Wrappers
  <1>. QED  BY <1>5, <1>6, <1>7 DEF ObjectsOK

\* A wrapper is initialised.
LEMMA WrapperMade ==
    ASSUME NEW s, NEW allocs, NEW slots, ObjectsOK(s, allocs, slots),
           NEW k \in Kind, s.impl[k] = None,
           NEW r, r = [Construct(s, k) EXCEPT !.impl[k] = NextElement(s.slab[k])]
    PROVE  ObjectsOK(r, allocs, slots)
  <1>1. PICK b : b = SlabAlloc(s.slab[k])
    OBVIOUS
  <1>2. PICK p : p = NextElement(s.slab[k])
    OBVIOUS
  <1>3. SlabOK(s.slab[k], {})
    <2>1. {s.impl[k]} \ {None} = {}
      OBVIOUS
    <2>2. SlabOK(s.slab[k], {s.impl[k]} \ {None})
      BY DEF ObjectsOK, Wrappers
    <2>. QED  BY <2>1, <2>2
  <1>4. p \in Nat /\ SlabOK(b, {} \cup {p})
    BY <1>1, <1>2, <1>3, SlabAllocOK
  <1>5. p # None /\ {} \cup {p} = {p} \ {None}
    BY <1>4, ContextAssumption
  <1>6. PICK q : q = PutSlab(s, k, b)
    OBVIOUS
  <1>7. q = Construct(s, k)
    BY <1>1, <1>6, Zenon DEF Construct, PutSlab
  <1>8. r = PutImpl(q, k, p)
    BY <1>2, <1>7, Zenon DEF PutImpl
  <1>9. p \in Nat \cup {None} /\ SlabOK(b, {p} \ {None})
    BY <1>4, <1>5
  <1>. QED  BY <1>5, <1>6, <1>8, <1>9, WithWrapper

\* A wrapper that nobody owns is destroyed.
LEMMA WrapperDestroyed ==
    ASSUME NEW s, NEW allocs, NEW slots, ObjectsOK(s, allocs, slots),
           NEW k \in Kind, s.impl[k] # None, k \notin s.owned,
           NEW r, r = [Destroy(s, k, s.impl[k]) EXCEPT !.impl[k] = None]
    PROVE  ObjectsOK(r, allocs, slots)
  <1>1. PICK b : b = SlabFree(s.slab[k], s.impl[k])
    OBVIOUS
  <1>2. SlabOK(s.slab[k], {s.impl[k]})
    <2>1. {s.impl[k]} \ {None} = {s.impl[k]}
      OBVIOUS
    <2>2. SlabOK(s.slab[k], {s.impl[k]} \ {None})
      BY DEF ObjectsOK, Wrappers
    <2>. QED  BY <2>1, <2>2
  <1>3. SlabOK(b, {s.impl[k]} \ {s.impl[k]})
    BY <1>1, <1>2, SlabFreeOK
  <1>4. {s.impl[k]} \ {s.impl[k]} = {None} \ {None}
    OBVIOUS
  <1>5. PICK q : q = PutSlab(s, k, b)
    OBVIOUS
  <1>6. q = Destroy(s, k, s.impl[k])
    BY <1>1, <1>5, Zenon DEF Destroy, PutSlab
  <1>7. r = PutImpl(q, k, None)
    BY <1>6, Zenon DEF PutImpl
  <1>8. None \in Nat \cup {None} /\ SlabOK(b, {None} \ {None})
    BY <1>3, <1>4
  <1>. QED  BY <1>5, <1>7, <1>8, WithWrapper

\* A wrapper there is gets an owner, or loses it.
LEMMA OwnerChanged ==
    ASSUME NEW s, NEW allocs, NEW slots, ObjectsOK(s, allocs, slots),
           NEW k \in Kind, s.impl[k] # None,
           NEW r, r = [s EXCEPT !.owned = IF k \in @ THEN @ \ {k} ELSE @ \cup {k}]
    PROVE  ObjectsOK(r, allocs, slots)
  <1>1. s \in ObjectStates
    BY DEF ObjectsOK, VarsOK
  <1>2. PICK u : u = IF k \in s.owned THEN s.owned \ {k} ELSE s.owned \cup {k}
    OBVIOUS
  <1>3. r = [s EXCEPT !.owned = u]
    BY <1>2
  <1>4. u \subseteq s.owned \cup {k} /\ u \subseteq Kind
    BY <1>1, <1>2 DEF ObjectStates
  <1>5. /\ r \in ObjectStates /\ r.slab = s.slab /\ r.impl = s.impl /\ r.elements = s.elements
        /\ r.owned = u
    BY <1>1, <1>3, <1>4 DEF ObjectStates
  <1>6. Wrappers(r)
    BY <1>4, <1>5 DEF Wrappers, ObjectsOK
  <1>. QED  BY <1>5, <1>6 DEF ObjectsOK, VarsOK

\* There are none in a new context.
LEMMA NewObjectsOK == ObjectsOK(NewObjects, {}, {})
  <1>1. NewSlab \in SlabStates /\ SlabOK(NewSlab, {})
    BY NewSlabOK DEF SlabOK
  <1>2. NewObjects \in ObjectStates
    <2>1. /\ [k \in Kind \cup {"var"} |-> NewSlab] \in [Kind \cup {"var"} -> SlabStates]
          /\ [k \in Kind |-> None] \in [Kind -> Nat \cup {None}]
          /\ [b \in Block |-> <<>>] \in [Block -> Seq(Nat)]
      BY <1>1
    <2>. QED  BY <2>1 DEF NewObjects, ObjectStates
  <1>3. ToSet(<<>>) = {} /\ IsInjective(<<>>)
    BY DEF ToSet, IsInjective
  <1>4. \A b \in Block : NewObjects.elements[b] = <<>>
    BY DEF NewObjects
  <1>5. InArrays(NewObjects.elements) = {}
    BY <1>3, <1>4 DEF InArrays
  <1>6. Arrays(NewObjects.elements, {}, {})
    BY <1>2, <1>3, <1>4 DEF Arrays, ObjectStates
  <1>7. Wrappers(NewObjects)
    <2>1. {None} \ {None} = {}
      OBVIOUS
    <2>. QED  BY <1>1, <2>1 DEF Wrappers, NewObjects
  <1>8. VarsOK(NewObjects, {})
    BY <1>1, <1>2 DEF VarsOK, NewObjects
  <1>. QED  BY <1>5, <1>6, <1>7, <1>8 DEF ObjectsOK

\* Blocks, objects and slots go together, and nothing is left between the
\* iterations.
ObjectsInv ==
    /\ ObjectsOK(objects, memory_.allocs, tls.slots)
    /\ stage.phase = "main" => memory_.allocs = {} /\ NothingLeaks(objects)

\* A block is handed out that the test has not.
LEMMA HandsOut ==
    ASSUME HeapInv, NEW size \in Size, CanAlloc(memory_, size), NEW p, p = NextBlock(memory_, size)
    PROVE  p \in Block \ memory_.allocs /\ alloc(memory_, size).allocs = memory_.allocs \cup {p}
  BY AllocKeeps DEF HeapInv

\* A block that is freed is gone.
LEMMA TakesBack ==
    ASSUME NEW h, NEW r, HeapOK(h, r, {}), NEW p \in Block, p \in h.allocs, NEW defer \in BOOLEAN
    PROVE  free(h, p, defer).allocs = h.allocs \ {p}
  BY FreeAllocs

\* The heap and the objects after an allocation and a free.
LEMMA GetsAndFrees ==
    ASSUME HeapInv, NEW size \in Size, NEW p \in Block, NEW defer \in BOOLEAN,
           AllocAndFree(size, p, defer)
    PROVE  memory_'.allocs = (memory_.allocs \cup {NextBlock(memory_, size)}) \ {p}
  <1>1. HeapOK(alloc(memory_, size), rest, {})
    BY AllocKeeps DEF HeapInv, AllocAndFree
  <1>2. alloc(memory_, size).allocs = memory_.allocs \cup {NextBlock(memory_, size)}
    BY HandsOut DEF AllocAndFree
  <1>3. memory_'.allocs = alloc(memory_, size).allocs \ {p}
    BY <1>1, TakesBack DEF AllocAndFree
  <1>. QED  BY <1>2, <1>3

\* The uses of the heap, the objects and the slots do not change what goes with
\* the phase, which is that of the threads.
LEMMA UsesOutsideMain ==
    ASSUME NEW what, Use(what), stage \in Stages
    PROVE  stage'.phase # "main"
  <1>1. stage.phase = "threads" /\ stage' = [stage EXCEPT !.uses = @ + 1]
    BY DEF Use, AtRest, InTest, Runs
  <1>. QED  BY <1>1 DEF Stages

\* Each use of the heap keeps the objects and the slots in their blocks.
LEMMA HeapUsesKeep ==
    ASSUME HeapInv, ObjectsOK(objects, memory_.allocs, tls.slots), New \/ Delete \/ Realloc
    PROVE  ObjectsOK(objects, memory_.allocs, tls.slots)'
  <1>1. CASE New
    <2>1. PICK size \in Size : Alloc(size)
      BY <1>1 DEF New
    <2>2. memory_'.allocs = memory_.allocs \cup {NextBlock(memory_, size)}
      BY <2>1, HandsOut DEF Alloc
    <2>3. objects' = objects /\ tls' = tls
      BY <1>1 DEF New
    <2>4. ObjectsOK(objects, memory_'.allocs, tls.slots)
      BY <2>2, BlockComes
    <2>. QED  BY <2>3, <2>4
  <1>2. CASE Delete
    <2>1. PICK p \in Block :
            /\ objects.elements[p] = <<>> /\ p \notin tls.slots
            /\ \/ \E defer \in BOOLEAN : Free(p, defer) /\ UNCHANGED <<objects, tls>>
               \/ UNCHANGED <<memory_, objects, tls>>
      BY <1>2 DEF Delete, Fails
    <2>2. CASE UNCHANGED <<memory_, objects, tls>>
      BY <2>2
    <2>3. ASSUME NEW defer \in BOOLEAN, Free(p, defer), UNCHANGED <<objects, tls>>
          PROVE  ObjectsOK(objects, memory_.allocs, tls.slots)'
      <3>1. memory_'.allocs = memory_.allocs \ {p}
        BY <2>3, TakesBack DEF Free, HeapInv
      <3>2. ObjectsOK(objects, memory_'.allocs, tls.slots)
        BY <2>1, <3>1, BlockGoes
      <3>. QED  BY <2>3, <3>2
    <2>. QED  BY <2>1, <2>2, <2>3
  <1>3. CASE Realloc
    <2>1. objects' = objects /\ tls' = tls
      BY <1>3 DEF Realloc
    <2>2. PICK p \in Block, size \in Size :
            /\ objects.elements[p] = <<>> /\ p \notin tls.slots
            /\ Alloc(size) \/ \E defer \in BOOLEAN : AllocAndFree(size, p, defer)
      BY <1>3 DEF Realloc
    <2>3. PICK a : a = memory_.allocs \cup {NextBlock(memory_, size)}
      OBVIOUS
    <2>4. ObjectsOK(objects, a, tls.slots)
      BY <2>3, BlockComes
    <2>5. CASE Alloc(size)
      <3>1. memory_'.allocs = a
        BY <2>3, <2>5, HandsOut DEF Alloc
      <3>. QED  BY <2>1, <2>4, <3>1
    <2>6. ASSUME NEW defer \in BOOLEAN, AllocAndFree(size, p, defer)
          PROVE  ObjectsOK(objects, memory_.allocs, tls.slots)'
      <3>1. memory_'.allocs = a \ {p}
        BY <2>3, <2>6, GetsAndFrees
      <3>2. ObjectsOK(objects, memory_'.allocs, tls.slots)
        BY <2>2, <2>4, <3>1, BlockGoes
      <3>. QED  BY <2>1, <3>2
    <2>. QED  BY <2>2, <2>5, <2>6
  <1>. QED  BY <1>1, <1>2, <1>3

\* So does each use of arrays.
LEMMA ArrayUsesKeep ==
    ASSUME HeapInv, ObjectsOK(objects, memory_.allocs, tls.slots),
           NewArray \/ NewArrayThrows \/ DeleteArray
    PROVE  ObjectsOK(objects, memory_.allocs, tls.slots)'
  <1>1. CASE NewArray
    <2>1. PICK n \in Size :
            /\ Alloc(n)
            /\ objects' = PutElements(ConstructVars(objects, n).objects, NextBlock(memory_, n),
                                      ConstructVars(objects, n).made)
      BY <1>1, Zenon DEF NewArray, PutElements
    <2>2. PICK p : p = NextBlock(memory_, n)
      OBVIOUS
    <2>3. p \in Block /\ p \notin memory_.allocs /\ memory_'.allocs = memory_.allocs \cup {p}
      BY <2>1, <2>2, HandsOut DEF Alloc
    <2>4. n \in Nat
      BY ContextAssumption
    <2>5. PICK x : x = ConstructVars(objects, n)
      OBVIOUS
    <2>6. objects' = PutElements(x.objects, p, x.made)
      BY <2>1, <2>2, <2>5
    <2>7. ObjectsOK(objects', memory_.allocs \cup {p}, tls.slots)
      BY <2>3, <2>4, <2>5, <2>6, ArrayMade
    <2>8. tls' = tls
      BY <1>1 DEF NewArray
    <2>. QED  BY <2>3, <2>7, <2>8
  <1>2. CASE NewArrayThrows
    <2>1. PICK n \in Size, p \in Block, defer \in BOOLEAN : \E i \in 0 .. n - 1 :
            /\ p = NextBlock(memory_, n)
            /\ AllocAndFree(n, p, defer)
            /\ objects' = DestroyVars(ConstructVars(objects, i).objects,
                             [k \in DOMAIN Unwind(i, n) |->
                                 ConstructVars(objects, i).made[Unwind(i, n)[k] + 1]])
      BY <1>2, Zenon DEF NewArrayThrows
    <2>0. PICK i \in 0 .. n - 1 :
            /\ p = NextBlock(memory_, n)
            /\ AllocAndFree(n, p, defer)
            /\ objects' = DestroyVars(ConstructVars(objects, i).objects,
                             [k \in DOMAIN Unwind(i, n) |->
                                 ConstructVars(objects, i).made[Unwind(i, n)[k] + 1]])
      BY <2>1
    <2>2. p \notin memory_.allocs /\ memory_'.allocs = (memory_.allocs \cup {p}) \ {p}
      BY <2>0, HandsOut, GetsAndFrees DEF AllocAndFree
    <2>3. memory_'.allocs = memory_.allocs
      BY <2>2
    <2>4. WordSize \in Nat /\ n \in 0 .. WordSize - 1
      BY ContextAssumption
    <2>5. VarsOK(objects, InArrays(objects.elements)) /\ objects \in ObjectStates
      BY DEF ObjectsOK, VarsOK
    <2>6. PICK x : x = ConstructVars(objects, i)
      OBVIOUS
    <2>7. PICK q : q = [k \in DOMAIN Unwind(i, n) |-> x.made[Unwind(i, n)[k] + 1]]
      OBVIOUS
    <2>8. objects' = DestroyVars(x.objects, q)
      BY <2>0, <2>6, <2>7
    <2>9. VarsOK(objects', InArrays(objects.elements)) /\ OnlyVars(objects, objects')
      BY <2>4, <2>5, <2>6, <2>7, <2>8, VarsUnwound
    <2>10. objects'.elements = objects.elements
      BY <2>9 DEF OnlyVars
    <2>11. Wrappers(objects')
      BY <2>5, <2>9, WrappersStay DEF ObjectsOK
    <2>12. tls' = tls
      BY <1>2 DEF NewArrayThrows
    <2>. QED  BY <2>3, <2>9, <2>10, <2>11, <2>12 DEF ObjectsOK
  <1>3. CASE DeleteArray
    <2>1. PICK p \in Block, defer \in BOOLEAN :
            /\ objects.elements[p] # <<>>
            /\ Free(p, defer)
            /\ objects' = PutElements(DestroyVars(objects, objects.elements[p]), p, <<>>)
      BY <1>3, Zenon DEF DeleteArray, PutElements
    <2>2. memory_'.allocs = memory_.allocs \ {p}
      BY <2>1, TakesBack DEF Free, HeapInv
    <2>3. ObjectsOK(objects', memory_.allocs \ {p}, tls.slots)
      BY <2>1, ArrayDeleted
    <2>4. tls' = tls
      BY <1>3 DEF DeleteArray
    <2>. QED  BY <2>2, <2>3, <2>4
  <1>. QED  BY <1>1, <1>2, <1>3

\* So does each use of wrappers.
LEMMA WrapperUsesKeep ==
    ASSUME ObjectsOK(objects, memory_.allocs, tls.slots),
           InitObject \/ DeinitObject \/ UseMutex
    PROVE  ObjectsOK(objects, memory_.allocs, tls.slots)'
  <1>1. CASE UNCHANGED <<objects, memory_, tls>>
    BY <1>1
  <1>2. ASSUME NEW k \in Kind, objects.impl[k] = None, UNCHANGED <<memory_, tls>>,
               objects' = [Construct(objects, k) EXCEPT !.impl[k] = NextElement(objects.slab[k])]
        PROVE  ObjectsOK(objects, memory_.allocs, tls.slots)'
    <2>1. ObjectsOK(objects', memory_.allocs, tls.slots)
      BY <1>2, WrapperMade
    <2>. QED  BY <1>2, <2>1
  <1>3. ASSUME NEW k \in Kind, objects.impl[k] # None, k \notin objects.owned,
               UNCHANGED <<memory_, tls>>,
               objects' = [Destroy(objects, k, objects.impl[k]) EXCEPT !.impl[k] = None]
        PROVE  ObjectsOK(objects, memory_.allocs, tls.slots)'
    <2>1. ObjectsOK(objects', memory_.allocs, tls.slots)
      BY <1>3, WrapperDestroyed
    <2>. QED  BY <1>3, <2>1
  <1>4. ASSUME NEW k \in Kind, objects.impl[k] # None, UNCHANGED <<memory_, tls>>,
               objects' = [objects EXCEPT !.owned = IF k \in @ THEN @ \ {k} ELSE @ \cup {k}]
        PROVE  ObjectsOK(objects, memory_.allocs, tls.slots)'
    <2>1. ObjectsOK(objects', memory_.allocs, tls.slots)
      BY <1>4, OwnerChanged
    <2>. QED  BY <1>4, <2>1
  <1>5. CASE InitObject
    <2>1. \/ UNCHANGED <<objects, memory_, tls>>
          \/ \E k \in Kind : /\ objects.impl[k] = None /\ UNCHANGED <<memory_, tls>>
                             /\ objects' = [Construct(objects, k) EXCEPT
                                              !.impl[k] = NextElement(objects.slab[k])]
      BY <1>5, Zenon DEF InitObject, Fails
    <2>. QED  BY <1>1, <1>2, <2>1
  <1>6. CASE DeinitObject
    <2>1. \/ UNCHANGED <<objects, memory_, tls>>
          \/ \E k \in Kind : /\ objects.impl[k] # None /\ k \notin objects.owned
                             /\ UNCHANGED <<memory_, tls>>
                             /\ objects' = [Destroy(objects, k, objects.impl[k]) EXCEPT
                                              !.impl[k] = None]
      BY <1>6, Zenon DEF DeinitObject, Fails
    <2>. QED  BY <1>1, <1>3, <2>1
  <1>7. CASE UseMutex
    <2>1. \/ UNCHANGED <<objects, memory_, tls>>
          \/ \E k \in Kind : /\ objects.impl[k] # None /\ UNCHANGED <<memory_, tls>>
                             /\ objects' = [objects EXCEPT
                                              !.owned = IF k \in @ THEN @ \ {k} ELSE @ \cup {k}]
      BY <1>7, Zenon DEF UseMutex, Fails
    <2>. QED  BY <1>1, <1>4, <2>1
  <1>. QED  BY <1>5, <1>6, <1>7

\* So does each use of thread local storage.
LEMMA TlsUsesKeep ==
    ASSUME HeapInv, tls \in TlsStates, ObjectsOK(objects, memory_.allocs, tls.slots),
           TlsSet \/ TlsGet \/ TlsAlloc \/ TlsFree
    PROVE  ObjectsOK(objects, memory_.allocs, tls.slots)'
  <1>1. CASE TlsSet
    <2>1. memory_' = memory_ /\ objects' = objects /\ tls'.slots = tls.slots
      <3>1. memory_' = memory_ /\ objects' = objects
        BY <1>1 DEF TlsSet
      <3>2. PICK v, x :
              IF ~IsEntry(WithEntry(tls.entries, tls.var[v], ctx_seq),
                          Entered(tls.entries, tls.var[v], ctx_seq).index)
                THEN tls' = tls
                ELSE tls' = [tls EXCEPT
                               !.entries = thread_local_set(
                                               WithEntry(tls.entries, tls.var[v], ctx_seq),
                                               Entered(tls.entries, tls.var[v], ctx_seq).index,
                                               Running, x),
                               !.var[v] = Entered(tls.entries, tls.var[v], ctx_seq),
                               !.last[v][Running] = x]
        BY <1>1, Zenon DEF TlsSet
      <3>3. PICK w : w = Entered(tls.entries, tls.var[v], ctx_seq)
        OBVIOUS
      <3>4. PICK e : e = thread_local_set(WithEntry(tls.entries, tls.var[v], ctx_seq), w.index,
                                          Running, x)
        OBVIOUS
      <3>5. \/ tls' = tls
            \/ tls' = [tls EXCEPT !.entries = e, !.var[v] = w, !.last[v][Running] = x]
        BY <3>2, <3>3, <3>4
      <3>6. tls'.slots = tls.slots
        BY <3>5 DEF TlsStates
      <3>. QED  BY <3>1, <3>6
    <2>. QED  BY <2>1
  <1>2. CASE TlsGet
    <2>1. memory_' = memory_ /\ objects' = objects /\ tls'.slots = tls.slots
      <3>1. memory_' = memory_ /\ objects' = objects
        BY <1>2 DEF TlsGet
      <3>2. tls' = tls \/ \E v, e, w : tls' = [tls EXCEPT !.entries = e, !.var[v] = w]
        BY <1>2, Zenon DEF TlsGet
      <3>3. tls'.slots = tls.slots
        BY <3>2 DEF TlsStates
      <3>. QED  BY <3>1, <3>3
    <2>. QED  BY <2>1
  <1>3. CASE TlsAlloc
    <2>1. PICK p : p = NextBlock(memory_, SlotSize)
      OBVIOUS
    <2>2. Alloc(SlotSize) /\ objects' = objects
          /\ tls' = [tls EXCEPT !.slots = @ \cup {p}, !.var[p] = NewVariable,
                                !.last[p] = [t \in Thread |-> 0]]
      BY <1>3, <2>1, Zenon DEF TlsAlloc
    <2>3. p \in Block \ memory_.allocs /\ memory_'.allocs = memory_.allocs \cup {p}
      BY <2>1, <2>2, ContextAssumption, HandsOut DEF Alloc
    <2>4. tls'.slots = tls.slots \cup {p}
      BY <2>2 DEF TlsStates
    <2>5. ObjectsOK(objects, memory_.allocs \cup {p}, tls.slots \cup {p})
      BY <2>3, SlotComes
    <2>. QED  BY <2>2, <2>3, <2>4, <2>5
  <1>4. CASE TlsFree
    <2>1. PICK p \in Block, defer \in BOOLEAN :
            p \in tls.slots /\ Free(p, defer) /\ tls' = [tls EXCEPT !.slots = @ \ {p}]
      BY <1>4 DEF TlsFree
    <2>2. memory_'.allocs = memory_.allocs \ {p}
      BY <2>1, TakesBack DEF Free, HeapInv
    <2>3. tls'.slots = tls.slots \ {p} /\ objects' = objects
      BY <1>4, <2>1 DEF TlsFree, TlsStates
    <2>4. objects.elements[p] = <<>>
      BY <2>1, SlotIsNoArray
    <2>5. PICK slots : slots = tls.slots \ {p}
      OBVIOUS
    <2>6. ObjectsOK(objects, memory_.allocs, slots)
      BY <2>5, SlotsGo
    <2>7. ObjectsOK(objects, memory_'.allocs, slots)
      BY <2>1, <2>2, <2>4, <2>5, <2>6, BlockGoes
    <2>. QED  BY <2>3, <2>5, <2>7
  <1>. QED  BY <1>1, <1>2, <1>3, <1>4

\* The uses, one by one, keep what goes together.
LEMMA UsesKeepObjects ==
    ASSUME ObjectsInv, HeapInv, TlsInv,
           \/ New \/ Delete \/ Realloc \/ HashPtr \/ NewArray \/ NewArrayThrows \/ DeleteArray
           \/ InitObject \/ DeinitObject \/ UseMutex \/ TlsSet \/ TlsGet \/ TlsAlloc \/ TlsFree
    PROVE  ObjectsInv'
  <1>1. ObjectsOK(objects, memory_.allocs, tls.slots) /\ tls \in TlsStates /\ stage \in Stages
    BY DEF ObjectsInv, TlsInv, TlsGood
  <1>2. PICK what : Use(what)
    BY UsesEach
  <1>3. stage'.phase # "main"
    BY <1>1, <1>2, UsesOutsideMain
  <1>4. ObjectsOK(objects, memory_.allocs, tls.slots)'
    <2>1. CASE New \/ Delete \/ Realloc
      BY <1>1, <2>1, HeapUsesKeep
    <2>2. CASE HashPtr
      BY <1>1, <2>2 DEF HashPtr
    <2>3. CASE NewArray \/ NewArrayThrows \/ DeleteArray
      BY <1>1, <2>3, ArrayUsesKeep
    <2>4. CASE InitObject \/ DeinitObject \/ UseMutex
      BY <1>1, <2>4, WrapperUsesKeep
    <2>5. CASE TlsSet \/ TlsGet \/ TlsAlloc \/ TlsFree
      BY <1>1, <2>5, TlsUsesKeep
    <2>. QED  BY <2>1, <2>2, <2>3, <2>4, <2>5
  <1>. QED  BY <1>3, <1>4 DEF ObjectsInv

\* An iteration ends well when the test has left no block and no object.
LEMMA LeavesNothing ==
    ASSUME fibers \in FiberStates, NEW f, f = AfterThreads(fibers), f.outcome = "none"
    PROVE  memory_.allocs = {} /\ NothingLeaks(objects)
  <1>1. ASSUME NEW result \in {"memory_leak", "resource_leak"}, f = Fail(fibers, result)
        PROVE  FALSE
    BY <1>1 DEF Fail, FiberStates
  <1>. QED  BY <1>1 DEF AfterThreads, iteration_end

\* Whatever a test does, its blocks, its objects and its slots go together, and
\* an iteration that ends well leaves none.
LEMMA ObjectsStep ==
    ASSUME ObjectsInv, HeapInv, TlsInv, FibersInv, [Next]_vars
    PROVE  ObjectsInv'
  <1>1. ObjectsOK(objects, memory_.allocs, tls.slots) /\ tls \in TlsStates /\ stage \in Stages
    BY DEF ObjectsInv, TlsInv, TlsGood
  <1>2. CASE BeginIteration
    <2>1. stage' = [stage EXCEPT !.phase = "before", !.uses = 0] /\ tls' = TlsBegin(tls)
          /\ memory_' = memory_ /\ objects' = objects
      BY <1>2 DEF BeginIteration
    <2>2. stage'.phase = "before" /\ tls'.slots = {}
      BY <1>1, <2>1 DEF Stages, TlsStates, TlsBegin
    <2>3. {} \subseteq tls.slots
      OBVIOUS
    <2>4. ObjectsOK(objects, memory_.allocs, {})
      BY <1>1, <2>3, SlotsGo
    <2>. QED  BY <2>1, <2>2, <2>4 DEF ObjectsInv
  <1>3. CASE BeforeOrAfter \/ BeforeEnds \/ Operate \/ GoOn \/ EndTest
    <2>1. objects' = objects /\ memory_' = memory_ /\ tls' = tls
      BY <1>3 DEF BeforeOrAfter, BeforeEnds, Operate, GoOn, EndTest
    <2>2. stage'.phase = "main" => stage.phase = "main"
      <3>1. CASE BeforeEnds
        BY <1>1, <3>1 DEF BeforeEnds, Stages
      <3>2. CASE BeforeOrAfter \/ Operate \/ GoOn \/ EndTest
        BY <3>2 DEF BeforeOrAfter, Operate, GoOn, EndTest
      <3>. QED  BY <1>3, <3>1, <3>2
    <2>. QED  BY <2>1, <2>2 DEF ObjectsInv
  <1>4. CASE EndIteration
    <2>1. objects' = objects /\ memory_' = memory_ /\ tls' = tls
          /\ stage.phase = "threads" /\ fibers' = AfterThreads(fibers)
      BY <1>4 DEF EndIteration, InAfter, Runs
    <2>2. CASE fibers'.outcome # "none"
      <3>1. stage' = stage
        BY <1>4, <2>2 DEF EndIteration
      <3>. QED  BY <2>1, <3>1 DEF ObjectsInv
    <2>3. CASE fibers'.outcome = "none"
      <3>1. fibers \in FiberStates
        BY DEF FibersInv, FibersFit
      <3>2. memory_.allocs = {} /\ NothingLeaks(objects)
        BY <2>1, <2>3, <3>1, LeavesNothing
      <3>. QED  BY <1>1, <2>1, <3>2 DEF ObjectsInv
    <2>. QED  BY <2>2, <2>3
  <1>5. CASE RunAgain
    <2>1. memory_'.allocs = {} /\ objects' = NewObjects
      BY <1>5 DEF RunAgain, NewContext, NewHeap
    <2>2. tls'.slots = {}
      <3>1. \E var : tls' = [NewTls EXCEPT !.var = var]
        BY <1>5 DEF RunAgain, NewTls
      <3>. QED  BY <3>1 DEF NewTls
    <2>3. NothingLeaks(NewObjects)
      BY DEF NothingLeaks, NewObjects, NothingAllocated, NewSlab
    <2>. QED  BY <2>1, <2>2, <2>3, NewObjectsOK DEF ObjectsInv
  <1>6. CASE \/ New \/ Delete \/ Realloc \/ HashPtr \/ NewArray \/ NewArrayThrows \/ DeleteArray
             \/ InitObject \/ DeinitObject \/ UseMutex \/ TlsSet \/ TlsGet \/ TlsAlloc \/ TlsFree
    BY <1>6, UsesKeepObjects
  <1>7. CASE UNCHANGED vars
    BY <1>7 DEF vars, ObjectsInv
  <1>. QED  BY <1>2, <1>3, <1>4, <1>5, <1>6, <1>7 DEF Next

\* What is used of a slab of which nothing is allocated is nothing.
LEMMA NoneUsed ==
    ASSUME NEW slab, NEW used, SlabOK(slab, used), NothingAllocated(slab)
    PROVE  used = {}
  <1>1. used \subseteq 1 .. BatchSize * slab.batches /\ slab.batches \in Nat /\ Cardinality(used) = 0
    BY DEF SlabOK, SlabStates, Elements, NothingAllocated
  <1>2. BatchSize * slab.batches \in Nat
    BY <1>1, BatchAssumption
  <1>3. IsFiniteSet(used)
    <2>1. PICK n \in Nat : n = BatchSize * slab.batches
      BY <1>2
    <2>2. IsFiniteSet(1 .. n)
      BY FS_Interval
    <2>. QED  BY <1>1, <2>1, <2>2, FS_Subset
  <1>. QED  BY <1>1, <1>3, FS_EmptySet

\* What is used of the slabs, and what an iteration leaves to the next.
LEMMA CarriesNothingOver ==
    ASSUME ObjectsInv, FibersInv
    PROVE  NothingIsCarriedOver
  <1>1. /\ objects \in ObjectStates /\ SlabOK(objects.slab["var"], InArrays(objects.elements))
        /\ Wrappers(objects)
    BY DEF ObjectsInv, ObjectsOK, VarsOK
  <1>2. ASSUME NEW k \in Kind \cup {"var"}, NEW used,
               used = IF k = "var" THEN UNION {ToSet(objects.elements[b]) : b \in Block}
                      ELSE {objects.impl[k]} \ {None}
        PROVE  SlabOK(objects.slab[k], used)
    <2>1. CASE k = "var"
      BY <1>1, <1>2, <2>1 DEF InArrays
    <2>2. CASE k # "var"
      BY <1>1, <1>2, <2>2 DEF Wrappers
    <2>. QED  BY <2>1, <2>2
  <1>3. ASSUME NEW k \in Kind \cup {"var"}
        PROVE  LET used == IF k = "var" THEN UNION {ToSet(objects.elements[b]) : b \in Block}
                           ELSE {objects.impl[k]} \ {None}
               IN  /\ ToSet(objects.slab[k].freelist) = Elements(objects.slab[k]) \ used
                   /\ objects.slab[k].alloc_count = Cardinality(used)
    BY <1>2 DEF SlabOK
  <1>4. ASSUME stage.phase = "main"
        PROVE  /\ memory_.allocs = {} /\ NothingLeaks(objects) /\ objects.owned = {}
               /\ \A b \in Block : objects.elements[b] = <<>>
               /\ \A k \in Kind : objects.impl[k] = None
               /\ \A t \in Thread :
                    fibers.at[t] = "top" /\ fibers.code[t] = <<>> /\ fibers.scopes[t] = 0
    <2>1. memory_.allocs = {} /\ NothingLeaks(objects)
      BY <1>4 DEF ObjectsInv
    <2>2. \A k \in Kind \cup {"var"} : NothingAllocated(objects.slab[k])
      BY <1>1, <2>1 DEF NothingLeaks, ObjectStates
    <2>3. ASSUME NEW b \in Block PROVE objects.elements[b] = <<>>
      <3>1. InArrays(objects.elements) = {}
        BY <1>1, <2>2, NoneUsed
      <3>2. ToSet(objects.elements[b]) = {}
        BY <3>1 DEF InArrays
      <3>3. objects.elements[b] \in Seq(Nat)
        BY <1>1 DEF ObjectStates
      <3>4. DOMAIN objects.elements[b] = 1 .. Len(objects.elements[b])
            /\ Len(objects.elements[b]) \in Nat
        BY <3>3
      <3>5. 1 \notin DOMAIN objects.elements[b]
        BY <3>2 DEF ToSet
      <3>6. Len(objects.elements[b]) = 0
        BY <3>4, <3>5
      <3>. QED  BY <3>3, <3>6, EmptySeq
    <2>4. ASSUME NEW k \in Kind PROVE objects.impl[k] = None
      <3>1. {objects.impl[k]} \ {None} = {}
        BY <1>1, <2>2, NoneUsed DEF Wrappers
      <3>. QED  BY <3>1
    <2>5. objects.owned = {}
      BY <1>1, <2>4 DEF Wrappers, ObjectStates
    <2>6. Idle(fibers)
      BY <1>4 DEF FibersInv, FibersFit
    <2>. QED  BY <2>1, <2>3, <2>4, <2>5, <2>6 DEF Idle
  <1>. QED  BY <1>3, <1>4 DEF NothingIsCarriedOver

\* The slabs, the arrays and the wrappers know the same of each object, and an
\* iteration that has ended well leaves the next no block, no object and no
\* thread in the middle of anything: for all tests, kinds, blocks, sizes and
\* batches, and though an array whose constructor throws is unwound by an index
\* that wraps.
THEOREM NothingCarriedOver == Spec => []NothingIsCarriedOver
  <1>1. Init => HeapInv /\ ObjectsInv
    <2>. SUFFICES ASSUME Init PROVE HeapInv /\ ObjectsInv
      OBVIOUS
    <2>1. HeapInv
      BY HeapStart DEF Init
    <2>2. memory_.allocs = {} /\ objects = NewObjects /\ tls.slots = {}
      BY DEF Init, HeapInit, NewHeap, NewTls
    <2>3. NothingLeaks(NewObjects)
      BY DEF NothingLeaks, NewObjects, NothingAllocated, NewSlab
    <2>. QED  BY <2>1, <2>2, <2>3, NewObjectsOK DEF ObjectsInv
  <1>2. HeapInv /\ ObjectsInv /\ TlsInv /\ FibersInv /\ [Next]_vars => HeapInv' /\ ObjectsInv'
    BY ObjectsStep, ContextStep, HeapStep
  <1>3. ObjectsInv /\ FibersInv => NothingIsCarriedOver
    BY CarriesNothingOver
  <1>. QED  BY <1>1, <1>2, <1>3, ThreadLocalInvariant, FibersInvariant, PTL DEF Spec

-----------------------------------------------------------------------------
(* Two heaps *)

Pair(S, x, y) == <<x, y>> \in S
In(S, x) == \E y \in Block : Pair(S, x, y)

\* The pairs of blocks tell the same of both heaps: what is one block.
Agree(S) ==
    \A x, y, u, v \in Block : Pair(S, x, y) /\ Pair(S, u, v) => (x = u <=> y = v)

\* The same on top, then what the second heap has not.
StackAlong(a, b, S) ==
    /\ Len(b) <= Len(a)
    /\ \A k \in 1 .. Len(b) : Pair(S, a[k], b[k])
    /\ \A k \in Len(b) + 1 .. Len(a) : ~In(S, a[k])

SlotAlong(x, y, S) == IF y = None THEN x \in Block => ~In(S, x) ELSE x \in Block /\ Pair(S, x, y)

\* The slot that i of one ring is in another.
Turn(c, i) == IF i + c < DeferredCount THEN i + c ELSE i + c - DeferredCount

RingAlong(h, g, S, c) ==
    /\ h.deferred_index = Turn(c, g.deferred_index)
    /\ \A i \in Slot \ {g.deferred_index} :
        SlotAlong(h.deferred_free[Turn(c, i)], g.deferred_free[i], S)

BlocksAlong(h, g, S) ==
    /\ \A x, y \in Block : Pair(S, x, y) =>
        /\ h.header[x] \in Size /\ g.header[y] = h.header[x]
        /\ x \in h.allocs <=> y \in g.allocs
    /\ \A x \in h.allocs : In(S, x)
    /\ \A y \in Block : ~IsNew(g, y) => \E x \in Block : Pair(S, x, y)

\* The second heap has had the calls of the first since it was new: it has a
\* block for each that the first had in them, in the same place.
Along(h, g, S, c) ==
    /\ S \subseteq Block \X Block /\ Agree(S) /\ BlocksAlong(h, g, S)
    /\ \A s \in Size : StackAlong(h.alloc_cache[s], g.alloc_cache[s], S)
    /\ c \in Slot /\ RingAlong(h, g, S, c)

\* One more pair.
AndPair(S, p, q) == S \cup {<<p, q>>}

\* Its pairs are those before and the new one.
LEMMA OneMorePair ==
    ASSUME NEW S, NEW p \in Block, NEW q \in Block
    PROVE  /\ \A x, y \in Block : Pair(AndPair(S, p, q), x, y) <=> Pair(S, x, y) \/ (x = p /\ y = q)
           /\ \A x \in Block : In(AndPair(S, p, q), x) <=> In(S, x) \/ x = p
  <1>1. \A x, y \in Block : Pair(AndPair(S, p, q), x, y) <=> Pair(S, x, y) \/ (x = p /\ y = q)
    BY DEF Pair, AndPair
  <1>. QED  BY <1>1 DEF In

\* Turning is from slots to slots, to each from one, and after each comes what
\* comes after it.
LEMMA Turns ==
    ASSUME NEW c \in Slot
    PROVE  /\ \A i \in Slot : Turn(c, i) \in Slot
           /\ \A i, j \in Slot : Turn(c, i) = Turn(c, j) => i = j
  <1>1. DeferredCount \in Nat \ {0} /\ c \in 0 .. DeferredCount - 1
    BY HeapAssumption DEF Slot
  <1>. QED  BY <1>1 DEF Turn, Slot

\* The next slots of two rings are next to each other's.
LEMMA NextAlong ==
    ASSUME NEW h \in HeapType, NEW g \in HeapType, NEW c \in Slot,
           h.deferred_index = Turn(c, g.deferred_index)
    PROVE  NextSlot(h) = Turn(c, NextSlot(g)) /\ NextSlot(h) \in Slot /\ NextSlot(g) \in Slot
  <1>1. DeferredCount \in Nat \ {0} /\ c \in 0 .. DeferredCount - 1
        /\ g.deferred_index \in 0 .. DeferredCount - 1
        /\ h.deferred_index \in 0 .. DeferredCount - 1
    BY HeapAssumption DEF Slot, HeapType
  <1>2. /\ NextSlot(h) = IF h.deferred_index = DeferredCount - 1 THEN 0 ELSE h.deferred_index + 1
        /\ NextSlot(g) = IF g.deferred_index = DeferredCount - 1 THEN 0 ELSE g.deferred_index + 1
        /\ NextSlot(h) \in Slot /\ NextSlot(g) \in Slot
    BY NextSlotIs
  <1>. QED  BY <1>1, <1>2 DEF Turn

\* A new heap goes along with one of which the test has nothing.
LEMMA NewGoesAlong ==
    ASSUME NEW h \in HeapType, h.allocs = {}
    PROVE  Along(h, NewHeap, {}, h.deferred_index)
  <1>1. \A x, y : ~Pair({}, x, y)
    BY DEF Pair
  <1>2. \A x : ~In({}, x)
    BY <1>1 DEF In
  <1>3. h.deferred_index \in Slot /\ DeferredCount \in Nat \ {0} /\ Slot = 0 .. DeferredCount - 1
    BY HeapAssumption DEF HeapType, Slot
  <1>4. ASSUME NEW s \in Size PROVE StackAlong(h.alloc_cache[s], NewHeap.alloc_cache[s], {})
    <2>1. NewHeap.alloc_cache[s] = <<>> /\ h.alloc_cache[s] \in Seq(Block)
      BY DEF NewHeap, HeapType
    <2>2. Len(h.alloc_cache[s]) \in Nat /\ Len(NewHeap.alloc_cache[s]) = 0
      BY <2>1, LenProperties
    <2>. QED  BY <2>2, <1>2 DEF StackAlong
  <1>5. RingAlong(h, NewHeap, {}, h.deferred_index)
    <2>1. NewHeap.deferred_index = 0 /\ \A i \in Slot : NewHeap.deferred_free[i] = None
      BY DEF NewHeap
    <2>2. Turn(h.deferred_index, 0) = h.deferred_index
      BY <1>3 DEF Turn
    <2>. QED  BY <1>2, <2>1, <2>2 DEF RingAlong, SlotAlong
  <1>6. BlocksAlong(h, NewHeap, {})
    <2>1. \A y \in Block : IsNew(NewHeap, y)
      BY DEF NewHeap, IsNew
    <2>. QED  BY <1>1, <2>1 DEF BlocksAlong
  <1>7. Agree({})
    BY <1>1 DEF Agree
  <1>. QED  BY <1>3, <1>4, <1>5, <1>6, <1>7 DEF Along

\* What is handed out by both.
LEMMA NextAre ==
    ASSUME NEW h, NEW r, HeapOK(h, r, {}), NEW size \in Size, CanAlloc(h, size),
           NEW a, a = h.alloc_cache[size], NEW p, p = NextBlock(h, size)
    PROVE  /\ p \in Block /\ p \notin h.allocs /\ ~Rests(h, p) /\ a \in Seq(Block)
           /\ a = <<>> => IsNew(h, p)
           /\ a # <<>> => p = a[1]
           /\ \A s \in Size \ {size} : ~IsCached(h, p, s)
           /\ \A k \in 2 .. Len(a) : a[k] # p
  <1>1. h \in HeapType /\ Placed(h, {})
    BY DEF HeapOK
  <1>2. a \in Seq(Block)
    BY <1>1 DEF HeapType
  <1>3. a # <<>> => p = a[1] /\ 1 \in 1 .. Len(a) /\ p \in Block
    BY <1>2, Popped DEF NextBlock
  <1>4. a = <<>> => p \in Block /\ IsNew(h, p)
    BY DEF NextBlock, malloc, CanAlloc
  <1>5. a # <<>> => IsCached(h, p, size)
    BY <1>3 DEF IsCached
  <1>6. p \in Block
    BY <1>3, <1>4
  <1>7. p \notin h.allocs /\ ~Rests(h, p)
    BY <1>1, <1>4, <1>5, <1>6 DEF Placed
  <1>8. \A s \in Size \ {size} : ~IsCached(h, p, s)
    BY <1>1, <1>4, <1>5, <1>6 DEF Placed
  <1>9. ASSUME NEW k \in 2 .. Len(a), a[k] = p PROVE FALSE
    <2>1. Len(a) \in Nat /\ a # <<>>
      BY <1>2, <1>9, LenProperties, EmptySeq
    <2>2. k \in 1 .. Len(a) /\ 1 \in 1 .. Len(a) /\ a[1] = a[k]
      BY <2>1, <1>3, <1>9
    <2>3. 1 = k
      BY <1>1, <2>2 DEF Placed
    <2>. QED  BY <2>3, <1>9, <2>1
  <1>. QED  BY <1>2, <1>3, <1>4, <1>6, <1>7, <1>8, <1>9

\* The stacks without what is handed out.
LEMMA StacksAfterAlloc ==
    ASSUME NEW a \in Seq(Block), NEW b \in Seq(Block), NEW S, NEW T,
           StackAlong(a, b, S), NEW p \in Block, NEW q \in Block,
           T = AndPair(S, p, q), \A k \in 2 .. Len(a) : a[k] # p
    PROVE  StackAlong(IF a # <<>> THEN Tail(a) ELSE a, IF b # <<>> THEN Tail(b) ELSE b, T)
  <1>1. Len(a) \in Nat /\ Len(b) \in Nat /\ (a = <<>> <=> Len(a) = 0) /\ (b = <<>> <=> Len(b) = 0)
    BY LenProperties, EmptySeq
  <1>2. /\ \A k \in 1 .. Len(a) : a[k] \in Block
        /\ \A k \in 1 .. Len(b) : b[k] \in Block
    BY <1>1
  <1>3. /\ a # <<>> => Len(Tail(a)) = Len(a) - 1 /\ \A k \in 1 .. Len(a) - 1 : Tail(a)[k] = a[k + 1]
        /\ b # <<>> => Len(Tail(b)) = Len(b) - 1 /\ \A k \in 1 .. Len(b) - 1 : Tail(b)[k] = b[k + 1]
    BY Popped
  <1>4. /\ \A x, y \in Block : Pair(T, x, y) <=> Pair(S, x, y) \/ (x = p /\ y = q)
        /\ \A x \in Block : In(T, x) <=> In(S, x) \/ x = p
    BY OneMorePair
  <1>5. CASE a = <<>>
    <2>1. b = <<>>
      BY <1>1, <1>5 DEF StackAlong
    <2>. QED  BY <1>1, <1>5, <2>1 DEF StackAlong
  <1>6. CASE a # <<>> /\ b = <<>>
    <2>1. ASSUME NEW k \in 1 .. Len(a) - 1 PROVE ~In(T, Tail(a)[k])
      <3>1. k + 1 \in 2 .. Len(a) /\ k + 1 \in 1 .. Len(a) /\ Tail(a)[k] = a[k + 1]
        BY <1>1, <1>3, <1>6, <2>1
      <3>2. k + 1 \in Len(b) + 1 .. Len(a)
        BY <1>1, <1>6, <3>1
      <3>3. ~In(S, a[k + 1]) /\ a[k + 1] # p /\ a[k + 1] \in Block
        BY <3>1, <3>2, <1>2 DEF StackAlong
      <3>. QED  BY <3>1, <3>3, <1>4
    <2>2. Len(Tail(a)) = Len(a) - 1 /\ Len(b) = 0 /\ Len(a) - 1 \in Nat
      BY <1>1, <1>3, <1>6
    <2>3. \A k \in 1 .. 0 : Pair(T, Tail(a)[k], b[k])
      OBVIOUS
    <2>. QED  BY <1>6, <2>1, <2>2, <2>3 DEF StackAlong
  <1>7. CASE a # <<>> /\ b # <<>>
    <2>1. Len(b) - 1 <= Len(a) - 1 /\ Len(b) <= Len(a)
      BY <1>1 DEF StackAlong
    <2>2. ASSUME NEW k \in 1 .. Len(b) - 1 PROVE Pair(T, Tail(a)[k], Tail(b)[k])
      <3>1. /\ k + 1 \in 1 .. Len(b) /\ k + 1 \in 1 .. Len(a) /\ k \in 1 .. Len(a) - 1
            /\ Tail(b)[k] = b[k + 1]
        BY <1>1, <1>3, <1>7, <2>1, <2>2
      <3>2. Tail(a)[k] = a[k + 1]
        BY <1>3, <1>7, <3>1
      <3>3. Pair(S, a[k + 1], b[k + 1])
        BY <3>1 DEF StackAlong
      <3>. QED  BY <3>1, <3>2, <3>3, <1>2, <1>4
    <2>3. ASSUME NEW k \in Len(b) .. Len(a) - 1 PROVE ~In(T, Tail(a)[k])
      <3>1. k + 1 \in 2 .. Len(a) /\ k + 1 \in Len(b) + 1 .. Len(a) /\ k \in 1 .. Len(a) - 1
            /\ k + 1 \in 1 .. Len(a)
        BY <1>1, <1>7, <2>1, <2>3
      <3>2. Tail(a)[k] = a[k + 1]
        BY <1>3, <1>7, <3>1
      <3>3. ~In(S, a[k + 1]) /\ a[k + 1] # p /\ a[k + 1] \in Block
        BY <3>1, <1>2 DEF StackAlong
      <3>. QED  BY <3>2, <3>3, <1>4
    <2>4. Len(Tail(a)) = Len(a) - 1 /\ Len(Tail(b)) = Len(b) - 1 /\ Len(b) - 1 + 1 = Len(b)
      BY <1>1, <1>3, <1>7
    <2>. QED  BY <1>1, <1>7, <2>1, <2>2, <2>3, <2>4 DEF StackAlong
  <1>. QED  BY <1>5, <1>6, <1>7

\* What both hand out is a pair, of which they agree as of the others.
LEMMA AgreeOnNext ==
    ASSUME NEW h, NEW r, HeapOK(h, r, {}), NEW g, NEW t, HeapOK(g, t, {}), NEW S, NEW c,
           Along(h, g, S, c), NEW size \in Size, CanAlloc(h, size), CanAlloc(g, size),
           NEW p, p = NextBlock(h, size), NEW q, q = NextBlock(g, size)
    PROVE  Pair(S, p, q) \/ (~In(S, p) /\ \A x \in Block : ~Pair(S, x, q))
  <1>1. PICK a : a = h.alloc_cache[size]
    OBVIOUS
  <1>2. PICK b : b = g.alloc_cache[size]
    OBVIOUS
  <1>3. /\ p \in Block /\ a \in Seq(Block) /\ (a = <<>> => IsNew(h, p)) /\ (a # <<>> => p = a[1])
        /\ q \in Block /\ b \in Seq(Block) /\ (b = <<>> => IsNew(g, q)) /\ (b # <<>> => q = b[1])
    BY <1>1, <1>2, NextAre
  <1>4. StackAlong(a, b, S) /\ BlocksAlong(h, g, S) /\ S \subseteq Block \X Block
    BY <1>1, <1>2 DEF Along
  <1>5. Len(a) \in Nat /\ Len(b) \in Nat /\ (a = <<>> <=> Len(a) = 0) /\ (b = <<>> <=> Len(b) = 0)
    BY <1>3, LenProperties, EmptySeq
  <1>6. \A x, y \in Block : Pair(S, x, y) => ~IsNew(h, x) /\ ~IsNew(g, y)
    BY <1>4, HeapAssumption DEF BlocksAlong, IsNew
  <1>7. CASE b # <<>>
    BY <1>3, <1>4, <1>5, <1>7 DEF StackAlong
  <1>8. CASE b = <<>>
    <2>1. \A x \in Block : ~Pair(S, x, q)
      BY <1>3, <1>6, <1>8
    <2>2. CASE a = <<>>
      <3>1. ~In(S, p)
        BY <1>3, <1>6, <2>2 DEF In
      <3>. QED  BY <2>1, <3>1
    <2>3. CASE a # <<>>
      <3>1. 1 \in Len(b) + 1 .. Len(a)
        BY <1>5, <1>8, <2>3
      <3>2. ~In(S, p)
        BY <3>1, <2>3, <1>3, <1>4 DEF StackAlong
      <3>. QED  BY <2>1, <3>2
    <2>. QED  BY <2>2, <2>3
  <1>. QED  BY <1>7, <1>8

\* A stack that has not what is handed out stays along.
LEMMA StackStays ==
    ASSUME NEW a \in Seq(Block), NEW b \in Seq(Block), NEW S, StackAlong(a, b, S),
           NEW T, NEW p \in Block, NEW q \in Block,
           \A x, y \in Block : Pair(T, x, y) <=> Pair(S, x, y) \/ (x = p /\ y = q),
           \A x \in Block : In(T, x) <=> In(S, x) \/ x = p,
           \A k \in 1 .. Len(a) : a[k] # p
    PROVE  StackAlong(a, b, T)
  <1>1. Len(a) \in Nat /\ Len(b) \in Nat /\ Len(b) <= Len(a)
        /\ (\A k \in 1 .. Len(a) : a[k] \in Block) /\ \A k \in 1 .. Len(b) : b[k] \in Block
    BY LenProperties DEF StackAlong
  <1>2. ASSUME NEW k \in 1 .. Len(b) PROVE Pair(T, a[k], b[k])
    <2>1. k \in 1 .. Len(a) /\ Pair(S, a[k], b[k])
      BY <1>1 DEF StackAlong
    <2>. QED  BY <2>1, <1>1
  <1>3. ASSUME NEW k \in Len(b) + 1 .. Len(a) PROVE ~In(T, a[k])
    <2>1. k \in 1 .. Len(a) /\ ~In(S, a[k])
      BY <1>1 DEF StackAlong
    <2>. QED  BY <2>1, <1>1
  <1>. QED  BY <1>1, <1>2, <1>3 DEF StackAlong

\* An alloc of both.
LEMMA AllocGoesAlong ==
    ASSUME NEW h, NEW r, HeapOK(h, r, {}), NEW g, NEW t, HeapOK(g, t, {}), NEW S, NEW c,
           Along(h, g, S, c), NEW size \in Size, CanAlloc(h, size), CanAlloc(g, size),
           NEW p, p = NextBlock(h, size), NEW q, q = NextBlock(g, size),
           NEW T, T = AndPair(S, p, q)
    PROVE  Along(alloc(h, size), alloc(g, size), T, c) /\ Pair(T, p, q)
  <1>1. PICK a : a = h.alloc_cache[size]
    OBVIOUS
  <1>2. PICK b : b = g.alloc_cache[size]
    OBVIOUS
  <1>3. /\ p \in Block /\ p \notin h.allocs /\ ~Rests(h, p) /\ a \in Seq(Block)
        /\ \A s \in Size \ {size} : ~IsCached(h, p, s)
        /\ \A k \in 2 .. Len(a) : a[k] # p
        /\ q \in Block /\ q \notin g.allocs /\ b \in Seq(Block)
    BY <1>1, <1>2, NextAre
  <1>4. h \in HeapType /\ g \in HeapType
    BY DEF HeapOK
  <1>5. PICK n : n = alloc(h, size)
    OBVIOUS
  <1>6. PICK m : m = alloc(g, size)
    OBVIOUS
  <1>7. /\ n.allocs = h.allocs \cup {p} /\ n.header = [h.header EXCEPT ![p] = size]
        /\ n.alloc_cache = [h.alloc_cache EXCEPT ![size] = IF a # <<>> THEN Tail(a) ELSE a]
        /\ n.deferred_free = h.deferred_free /\ n.deferred_index = h.deferred_index
    BY <1>1, <1>4, <1>5 DEF HeapType, alloc
  <1>8. /\ m.allocs = g.allocs \cup {q} /\ m.header = [g.header EXCEPT ![q] = size]
        /\ m.alloc_cache = [g.alloc_cache EXCEPT ![size] = IF b # <<>> THEN Tail(b) ELSE b]
        /\ m.deferred_free = g.deferred_free /\ m.deferred_index = g.deferred_index
    BY <1>2, <1>4, <1>6 DEF HeapType, alloc
  <1>9. /\ \A x, y \in Block : Pair(T, x, y) <=> Pair(S, x, y) \/ (x = p /\ y = q)
        /\ \A x \in Block : In(T, x) <=> In(S, x) \/ x = p
    <2>1. p \in Block /\ q \in Block
      BY <1>3
    <2>. QED  BY <2>1, OneMorePair
  <1>10. S \subseteq Block \X Block /\ Agree(S) /\ BlocksAlong(h, g, S) /\ c \in Slot
         /\ RingAlong(h, g, S, c) /\ \A s \in Size : StackAlong(h.alloc_cache[s], g.alloc_cache[s], S)
    BY DEF Along
  <1>11. Pair(S, p, q) \/ (~In(S, p) /\ \A x \in Block : ~Pair(S, x, q))
    BY AgreeOnNext
  <1>12. T \subseteq Block \X Block
    BY <1>3, <1>10 DEF AndPair
  <1>13. \A x, y \in Block : Pair(S, x, y) => (x = p <=> y = q)
    BY <1>3, <1>10, <1>11 DEF Agree, In
  <1>14. Agree(T)
    BY <1>9, <1>10, <1>13 DEF Agree
  <1>15. BlocksAlong(n, m, T)
    <2>1. ASSUME NEW x \in Block, NEW y \in Block, Pair(T, x, y)
          PROVE  /\ n.header[x] \in Size /\ m.header[y] = n.header[x]
                 /\ x \in n.allocs <=> y \in m.allocs
      <3>1. h.header \in [Block -> Size \cup {None}] /\ g.header \in [Block -> Size \cup {None}]
        BY <1>4 DEF HeapType
      <3>2. CASE x = p
        <4>1. y = q
          BY <3>2, <2>1, <1>9, <1>13
        <4>. QED  BY <3>1, <3>2, <4>1, <1>7, <1>8
      <3>3. CASE x # p
        <4>1. Pair(S, x, y) /\ y # q
          BY <3>3, <2>1, <1>9, <1>13
        <4>2. h.header[x] \in Size /\ g.header[y] = h.header[x] /\ (x \in h.allocs <=> y \in g.allocs)
          BY <4>1, <1>10 DEF BlocksAlong
        <4>. QED  BY <3>1, <3>3, <4>1, <4>2, <1>7, <1>8
      <3>. QED  BY <3>2, <3>3
    <2>2. ASSUME NEW x \in n.allocs PROVE In(T, x)
      <3>1. x \in Block /\ (x = p \/ x \in h.allocs)
        BY <1>3, <1>4, <1>7, <2>2 DEF HeapType
      <3>. QED  BY <3>1, <1>9, <1>10 DEF BlocksAlong
    <2>3. ASSUME NEW y \in Block, ~IsNew(m, y) PROVE \E x \in Block : Pair(T, x, y)
      <3>1. CASE y = q
        BY <3>1, <1>3, <1>9
      <3>2. CASE y # q
        <4>1. ~IsNew(g, y)
          BY <1>4, <1>8, <2>3, <3>2 DEF IsNew, HeapType
        <4>. QED  BY <4>1, <1>9, <1>10 DEF BlocksAlong
      <3>. QED  BY <3>1, <3>2
    <2>. QED  BY <2>1, <2>2, <2>3 DEF BlocksAlong
  <1>16. ASSUME NEW s \in Size PROVE StackAlong(n.alloc_cache[s], m.alloc_cache[s], T)
    <2>1. h.alloc_cache \in [Size -> Seq(Block)] /\ g.alloc_cache \in [Size -> Seq(Block)]
      BY <1>4 DEF HeapType
    <2>2. CASE s = size
      <3>1. StackAlong(a, b, S)
        BY <1>1, <1>2, <1>10
      <3>2. StackAlong(IF a # <<>> THEN Tail(a) ELSE a, IF b # <<>> THEN Tail(b) ELSE b, T)
        BY <3>1, <1>3, StacksAfterAlloc
      <3>3. /\ n.alloc_cache[s] = IF a # <<>> THEN Tail(a) ELSE a
            /\ m.alloc_cache[s] = IF b # <<>> THEN Tail(b) ELSE b
        BY <1>7, <1>8, <2>1, <2>2
      <3>. QED  BY <3>2, <3>3
    <2>3. CASE s # size
      <3>1. n.alloc_cache[s] = h.alloc_cache[s] /\ m.alloc_cache[s] = g.alloc_cache[s]
        BY <1>7, <1>8, <2>1, <2>3
      <3>2. PICK u \in Seq(Block) : u = h.alloc_cache[s]
        BY <2>1
      <3>3. PICK v \in Seq(Block) : v = g.alloc_cache[s]
        BY <2>1
      <3>4. \A k \in 1 .. Len(u) : u[k] # p
        BY <3>2, <2>3, <1>3 DEF IsCached
      <3>5. StackAlong(u, v, T)
        BY <3>2, <3>3, <3>4, <1>3, <1>9, <1>10, StackStays
      <3>. QED  BY <3>1, <3>2, <3>3, <3>5
    <2>. QED  BY <2>2, <2>3
  <1>17. RingAlong(n, m, T, c)
    <2>1. ASSUME NEW i \in Slot \ {g.deferred_index}
          PROVE  SlotAlong(h.deferred_free[Turn(c, i)], g.deferred_free[i], T)
      <3>1. Turn(c, i) \in Slot /\ Turn(c, i) # h.deferred_index
        BY <1>4, <1>10, <2>1, Turns DEF RingAlong, HeapType
      <3>2. PICK x : x = h.deferred_free[Turn(c, i)]
        OBVIOUS
      <3>3. PICK y : y = g.deferred_free[i]
        OBVIOUS
      <3>4. x \in Block \cup {None} /\ y \in Block \cup {None} /\ x # p /\ None \notin Block
        BY <1>3, <1>4, <3>1, <3>2, <3>3, <2>1, HeapAssumption DEF HeapType, Rests
      <3>5. SlotAlong(x, y, S)
        BY <1>10, <2>1, <3>2, <3>3 DEF RingAlong
      <3>6. SlotAlong(x, y, T)
        BY <3>4, <3>5, <1>9 DEF SlotAlong
      <3>. QED  BY <3>2, <3>3, <3>6
    <2>. QED  BY <2>1, <1>7, <1>8, <1>10 DEF RingAlong
  <1>18. Pair(T, p, q)
    BY <1>3, <1>9
  <1>. QED  BY <1>5, <1>6, <1>10, <1>12, <1>14, <1>15, <1>16, <1>17, <1>18 DEF Along

\* A block of both is taken in hand.
LEMMA TakenAlong ==
    ASSUME NEW h \in HeapType, NEW g \in HeapType, NEW S, NEW c, Along(h, g, S, c),
           NEW p \in Block, NEW q \in Block, Pair(S, p, q),
           NEW n, n = [h EXCEPT !.allocs = @ \ {p}], NEW m, m = [g EXCEPT !.allocs = @ \ {q}]
    PROVE  Along(n, m, S, c)
  <1>1. /\ n.allocs = h.allocs \ {p} /\ n.header = h.header /\ n.alloc_cache = h.alloc_cache
        /\ n.deferred_free = h.deferred_free /\ n.deferred_index = h.deferred_index
    BY DEF HeapType
  <1>2. /\ m.allocs = g.allocs \ {q} /\ m.header = g.header /\ m.alloc_cache = g.alloc_cache
        /\ m.deferred_free = g.deferred_free /\ m.deferred_index = g.deferred_index
    BY DEF HeapType
  <1>3. \A x, y \in Block : Pair(S, x, y) => (x = p <=> y = q)
    BY DEF Along, Agree
  <1>4. BlocksAlong(n, m, S)
    BY <1>1, <1>2, <1>3 DEF Along, BlocksAlong, IsNew
  <1>5. RingAlong(n, m, S, c)
    BY <1>1, <1>2 DEF Along, RingAlong
  <1>. QED  BY <1>1, <1>2, <1>4, <1>5 DEF Along

\* A pair is put on two stacks.
LEMMA StackedAlong ==
    ASSUME NEW a \in Seq(Block), NEW b \in Seq(Block), NEW S, StackAlong(a, b, S),
           NEW p \in Block, NEW q \in Block, Pair(S, p, q)
    PROVE  StackAlong(<<p>> \o a, <<q>> \o b, S)
  <1>1. PICK u : u = <<p>> \o a
    OBVIOUS
  <1>2. PICK v : v = <<q>> \o b
    OBVIOUS
  <1>3. Len(a) \in Nat /\ Len(b) \in Nat /\ Len(b) <= Len(a)
    BY LenProperties DEF StackAlong
  <1>4. Len(u) = Len(a) + 1 /\ u[1] = p /\ \A k \in 2 .. Len(a) + 1 : u[k] = a[k - 1]
    BY <1>1, Pushed
  <1>5. Len(v) = Len(b) + 1 /\ v[1] = q /\ \A k \in 2 .. Len(b) + 1 : v[k] = b[k - 1]
    BY <1>2, Pushed
  <1>6. ASSUME NEW k \in 1 .. Len(b) + 1 PROVE Pair(S, u[k], v[k])
    <2>1. CASE k = 1
      BY <2>1, <1>4, <1>5
    <2>2. CASE k # 1
      <3>1. k - 1 \in 1 .. Len(b) /\ k \in 2 .. Len(b) + 1 /\ k \in 2 .. Len(a) + 1
        BY <1>3, <1>6, <2>2
      <3>. QED  BY <3>1, <1>4, <1>5 DEF StackAlong
    <2>. QED  BY <2>1, <2>2
  <1>7. ASSUME NEW k \in Len(b) + 2 .. Len(a) + 1 PROVE ~In(S, u[k])
    <2>1. k - 1 \in Len(b) + 1 .. Len(a) /\ k \in 2 .. Len(a) + 1
      BY <1>3, <1>7
    <2>. QED  BY <2>1, <1>4 DEF StackAlong
  <1>8. Len(v) <= Len(u) /\ Len(v) + 1 = Len(b) + 2
    BY <1>3, <1>4, <1>5
  <1>. QED  BY <1>1, <1>2, <1>4, <1>5, <1>6, <1>7, <1>8 DEF StackAlong

\* Both put a pair on the stack of its size.
LEMMA GivenBackAlong ==
    ASSUME NEW h \in HeapType, NEW g \in HeapType, NEW S, NEW c, Along(h, g, S, c),
           NEW p \in Block, NEW q \in Block, Pair(S, p, q), NEW size \in Size
    PROVE  Along(free_impl(h, p, size), free_impl(g, q, size), S, c)
  <1>1. PICK n : n = free_impl(h, p, size)
    OBVIOUS
  <1>2. PICK m : m = free_impl(g, q, size)
    OBVIOUS
  <1>3. /\ n.allocs = h.allocs /\ n.header = h.header
        /\ n.alloc_cache = [h.alloc_cache EXCEPT ![size] = <<p>> \o @]
        /\ n.deferred_free = h.deferred_free /\ n.deferred_index = h.deferred_index
    BY <1>1 DEF HeapType, free_impl
  <1>4. /\ m.allocs = g.allocs /\ m.header = g.header
        /\ m.alloc_cache = [g.alloc_cache EXCEPT ![size] = <<q>> \o @]
        /\ m.deferred_free = g.deferred_free /\ m.deferred_index = g.deferred_index
    BY <1>2 DEF HeapType, free_impl
  <1>5. h.alloc_cache \in [Size -> Seq(Block)] /\ g.alloc_cache \in [Size -> Seq(Block)]
    BY DEF HeapType
  <1>6. ASSUME NEW s \in Size PROVE StackAlong(n.alloc_cache[s], m.alloc_cache[s], S)
    <2>1. StackAlong(h.alloc_cache[s], g.alloc_cache[s], S)
      BY DEF Along
    <2>2. CASE s = size
      <3>1. StackAlong(<<p>> \o h.alloc_cache[s], <<q>> \o g.alloc_cache[s], S)
        BY <2>1, <1>5, StackedAlong
      <3>. QED  BY <3>1, <2>2, <1>3, <1>4, <1>5
    <2>3. CASE s # size
      BY <2>1, <2>3, <1>3, <1>4, <1>5
    <2>. QED  BY <2>2, <2>3
  <1>7. BlocksAlong(n, m, S)
    BY <1>3, <1>4 DEF Along, BlocksAlong, IsNew
  <1>8. RingAlong(n, m, S, c)
    BY <1>3, <1>4 DEF Along, RingAlong
  <1>. QED  BY <1>1, <1>2, <1>6, <1>7, <1>8 DEF Along

\* What both put to rest is a pair, and so is, or is not of the calls, what the
\* next slots have.
LEMMA RestsAlong ==
    ASSUME NEW h \in HeapType, NEW g \in HeapType, NEW S, NEW c, Along(h, g, S, c),
           NEW p \in Block, NEW q \in Block, Pair(S, p, q),
           NEW n, n = PutToRest(h, p), NEW m, m = PutToRest(g, q)
    PROVE  /\ Along(n, m, S, c)
           /\ SlotAlong(n.deferred_free[n.deferred_index], m.deferred_free[m.deferred_index], S)
  <1>1. c \in Slot /\ h.deferred_index = Turn(c, g.deferred_index)
        /\ g.deferred_index \in Slot /\ h.deferred_index \in Slot
    BY DEF Along, RingAlong, HeapType
  <1>2. NextSlot(h) = Turn(c, NextSlot(g)) /\ NextSlot(h) \in Slot /\ NextSlot(g) \in Slot
    BY <1>1, NextAlong
  <1>3. /\ n.allocs = h.allocs /\ n.header = h.header /\ n.alloc_cache = h.alloc_cache
        /\ n.deferred_free = [h.deferred_free EXCEPT ![h.deferred_index] = p]
        /\ n.deferred_index = NextSlot(h)
    BY DEF HeapType, PutToRest
  <1>4. /\ m.allocs = g.allocs /\ m.header = g.header /\ m.alloc_cache = g.alloc_cache
        /\ m.deferred_free = [g.deferred_free EXCEPT ![g.deferred_index] = q]
        /\ m.deferred_index = NextSlot(g)
    BY DEF HeapType, PutToRest
  <1>5. h.deferred_free \in [Slot -> Block \cup {None}] /\ g.deferred_free \in [Slot -> Block \cup {None}]
        /\ None \notin Block
    BY HeapAssumption DEF HeapType
  <1>6. ASSUME NEW i \in Slot
        PROVE  SlotAlong(n.deferred_free[Turn(c, i)], m.deferred_free[i], S)
    <2>1. CASE i = g.deferred_index
      <3>1. n.deferred_free[Turn(c, i)] = p /\ m.deferred_free[i] = q
        BY <1>1, <1>3, <1>4, <1>5, <2>1
      <3>. QED  BY <3>1, <1>5 DEF SlotAlong
    <2>2. CASE i # g.deferred_index
      <3>1. Turn(c, i) \in Slot /\ Turn(c, i) # h.deferred_index
        BY <1>1, <2>2, Turns
      <3>2. /\ n.deferred_free[Turn(c, i)] = h.deferred_free[Turn(c, i)]
            /\ m.deferred_free[i] = g.deferred_free[i]
        BY <1>3, <1>4, <1>5, <2>2, <3>1
      <3>. QED  BY <2>2, <3>2 DEF Along, RingAlong
    <2>. QED  BY <2>1, <2>2
  <1>7. RingAlong(n, m, S, c)
    BY <1>2, <1>3, <1>4, <1>6 DEF RingAlong
  <1>8. BlocksAlong(n, m, S)
    BY <1>3, <1>4 DEF Along, BlocksAlong, IsNew
  <1>9. Along(n, m, S, c)
    BY <1>3, <1>4, <1>7, <1>8 DEF Along
  <1>. QED  BY <1>2, <1>3, <1>4, <1>6, <1>9

\* The block that a deferred free of p gives back.
GivenBackBy(h, p) == Defer(h, p).deferred_free[NextSlot(h)]

\* That is the one in the slot which is the next.
LEMMA GivesBackNext ==
    ASSUME NEW h \in HeapType, NEW p \in Block,
           NEW g, g = [h EXCEPT !.allocs = @ \ {p}], NEW n, n = PutToRest(g, p)
    PROVE  /\ GivenBackBy(h, p) = n.deferred_free[n.deferred_index]
           /\ Defer(g, p) = LET b == n.deferred_free[n.deferred_index]
                            IN  IF b = None THEN n
                                ELSE free_impl(n, b, n.deferred_free_size[n.deferred_index])
  <1>1. /\ g \in HeapType /\ g.deferred_index = h.deferred_index /\ g.deferred_free = h.deferred_free
        /\ NextSlot(g) = NextSlot(h)
    BY DEF HeapType, NextSlot
  <1>2. n.deferred_index = NextSlot(g)
        /\ n.deferred_free = [h.deferred_free EXCEPT ![h.deferred_index] = p]
    BY <1>1 DEF HeapType, PutToRest
  <1>3. Defer(g, p) = LET b == n.deferred_free[n.deferred_index]
                      IN  IF b = None THEN n
                          ELSE free_impl(n, b, n.deferred_free_size[n.deferred_index])
    BY <1>2 DEF Defer, PutToRest
  <1>4. PICK k : k = PutToRest(h, p)
    OBVIOUS
  <1>6. k.deferred_free = [h.deferred_free EXCEPT ![h.deferred_index] = p]
    BY <1>4 DEF HeapType, PutToRest
  <1>7. \A b, size : free_impl(k, b, size).deferred_free = k.deferred_free
    BY <1>4 DEF HeapType, PutToRest, free_impl
  <1>8. Defer(h, p) = IF k.deferred_free[NextSlot(h)] = None THEN k
                      ELSE free_impl(k, k.deferred_free[NextSlot(h)], k.deferred_free_size[NextSlot(h)])
    BY <1>4 DEF Defer, PutToRest
  <1>9. Defer(h, p).deferred_free = k.deferred_free
    BY <1>7, <1>8
  <1>. QED  BY <1>1, <1>2, <1>3, <1>6, <1>9 DEF GivenBackBy

\* A free of both, unless one of them gives back what the other has not.
LEMMA FreeGoesAlong ==
    ASSUME NEW h, NEW r, HeapOK(h, r, {}), NEW g, NEW t, HeapOK(g, t, {}), NEW S, NEW c,
           Along(h, g, S, c), NEW p \in Block, NEW q \in Block, Pair(S, p, q), p \in h.allocs,
           NEW defer \in BOOLEAN,
           defer => GivenBackBy(h, p) = None \/ In(S, GivenBackBy(h, p))
    PROVE  Along(free(h, p, defer), free(g, q, defer), S, c)
  <1>1. h \in HeapType /\ g \in HeapType
    BY DEF HeapOK
  <1>2. q \in g.allocs /\ h.header[p] \in Size /\ g.header[q] = h.header[p]
    BY DEF Along, BlocksAlong
  <1>3. PICK k : k = [h EXCEPT !.allocs = @ \ {p}]
    OBVIOUS
  <1>4. PICK l : l = [g EXCEPT !.allocs = @ \ {q}]
    OBVIOUS
  <1>5. Along(k, l, S, c) /\ k \in HeapType /\ l \in HeapType
    <2>1. k \in HeapType /\ l \in HeapType
      BY <1>1, <1>3, <1>4 DEF HeapType
    <2>. QED  BY <2>1, <1>1, <1>3, <1>4, TakenAlong
  <1>6. CASE ~defer
    <2>1. free(h, p, defer) = free_impl(k, p, h.header[p])
          /\ free(g, q, defer) = free_impl(l, q, h.header[p])
      BY <1>2, <1>3, <1>4, <1>6 DEF free
    <2>2. Along(free_impl(k, p, h.header[p]), free_impl(l, q, h.header[p]), S, c)
      BY <1>2, <1>5, GivenBackAlong
    <2>. QED  BY <2>1, <2>2
  <1>7. CASE defer
    <2>1. free(h, p, defer) = Defer(k, p) /\ free(g, q, defer) = Defer(l, q)
      BY <1>3, <1>4, <1>7 DEF free
    <2>2. HeapOK(k, r, {p}) /\ HeapOK(l, t, {q}) /\ k.header = h.header /\ l.header = g.header
      <3>1. HeapOK(k, r, {p})
        BY <1>3, Taken
      <3>2. HeapOK(l, t, {q})
        BY <1>2, <1>4, Taken
      <3>. QED  BY <3>1, <3>2, <1>1, <1>3, <1>4 DEF HeapType
    <2>3. PICK n : n = PutToRest(k, p)
      OBVIOUS
    <2>4. PICK m : m = PutToRest(l, q)
      OBVIOUS
    <2>5. PICK b : b = n.deferred_free[n.deferred_index]
      OBVIOUS
    <2>6. PICK d : d = m.deferred_free[m.deferred_index]
      OBVIOUS
    <2>7. Along(n, m, S, c) /\ SlotAlong(b, d, S)
      BY <1>5, <2>3, <2>4, <2>5, <2>6, RestsAlong
    <2>8. GivenBackBy(h, p) = b
          /\ Defer(k, p) = IF b = None THEN n
                           ELSE free_impl(n, b, n.deferred_free_size[n.deferred_index])
      BY <1>1, <1>3, <2>3, <2>5, GivesBackNext
    <2>9. Defer(l, q) = IF d = None THEN m
                        ELSE free_impl(m, d, m.deferred_free_size[m.deferred_index])
      BY <1>1, <1>4, <2>4, <2>6, GivesBackNext
    <2>10. /\ b = None => HeapOK(n, Rested(r, p, TRUE), {})
           /\ b # None => /\ b \in Block /\ HeapOK(n, Rested(r, p, TRUE), {b})
                          /\ n.deferred_free_size[n.deferred_index] = n.header[b]
                          /\ n.header[b] \in Size
      BY <1>2, <2>2, <2>3, <2>5, PutToRestKeeps
    <2>11. /\ d = None => HeapOK(m, Rested(t, q, TRUE), {})
           /\ d # None => /\ d \in Block /\ HeapOK(m, Rested(t, q, TRUE), {d})
                          /\ m.deferred_free_size[m.deferred_index] = m.header[d]
                          /\ m.header[d] \in Size
      BY <1>2, <2>2, <2>4, <2>6, PutToRestKeeps
    <2>12. n \in HeapType /\ m \in HeapType /\ None \notin Block
      BY <2>10, <2>11, HeapAssumption DEF HeapOK
    <2>13. CASE d = None
      <3>1. b = None
        BY <1>7, <2>7, <2>8, <2>10, <2>13 DEF SlotAlong
      <3>. QED  BY <3>1, <2>1, <2>7, <2>8, <2>9, <2>13
    <2>14. CASE d # None
      <3>1. b \in Block /\ Pair(S, b, d) /\ b # None
        BY <2>7, <2>12, <2>14 DEF SlotAlong
      <3>2. n.header[b] = m.header[d]
        BY <2>7, <2>11, <2>14, <3>1 DEF Along, BlocksAlong
      <3>3. PICK size \in Size : size = n.header[b]
        BY <2>10, <3>1
      <3>4. Defer(k, p) = free_impl(n, b, size) /\ Defer(l, q) = free_impl(m, d, size)
        BY <2>8, <2>9, <2>10, <2>11, <2>14, <3>1, <3>2, <3>3
      <3>5. Along(free_impl(n, b, size), free_impl(m, d, size), S, c)
        BY <2>7, <2>11, <2>12, <2>14, <3>1, GivenBackAlong
      <3>. QED  BY <3>4, <3>5, <2>1
    <2>. QED  BY <2>13, <2>14
  <1>. QED  BY <1>6, <1>7

-----------------------------------------------------------------------------
(* The twin of a context's heap *)

\* A block in the ring has a size.
RingSized(m) == \A i \in Slot : m.deferred_free[i] # None => m.deferred_free_size[i] \in Size

\* An alloc keeps a heap one.
LEMMA AllocTyped ==
    ASSUME NEW h \in HeapType, RingSized(h), NEW size \in Size, CanAlloc(h, size),
           NEW p, p = NextBlock(h, size), NEW n, n = alloc(h, size)
    PROVE  /\ p \in Block /\ n \in HeapType /\ RingSized(n)
           /\ n.header = [h.header EXCEPT ![p] = size]
  <1>1. PICK q \in Seq(Block) : q = h.alloc_cache[size]
    BY DEF HeapType
  <1>2. q # <<>> => Head(q) \in Block /\ Tail(q) \in Seq(Block)
    BY Popped
  <1>3. p \in Block
    BY <1>1, <1>2 DEF NextBlock, malloc, CanAlloc
  <1>4. /\ n.header = [h.header EXCEPT ![p] = size] /\ n.allocs = h.allocs \cup {p}
        /\ n.alloc_cache = [h.alloc_cache EXCEPT ![size] = IF q # <<>> THEN Tail(q) ELSE q]
        /\ n.deferred_free = h.deferred_free
        /\ n.deferred_free_size = h.deferred_free_size /\ n.deferred_index = h.deferred_index
        /\ n = [header |-> n.header, allocs |-> n.allocs, alloc_cache |-> n.alloc_cache,
                deferred_free |-> n.deferred_free, deferred_free_size |-> n.deferred_free_size,
                deferred_index |-> n.deferred_index]
    BY <1>1 DEF HeapType, alloc
  <1>5. (IF q # <<>> THEN Tail(q) ELSE q) \in Seq(Block)
    BY <1>2
  <1>6. n.alloc_cache \in [Size -> Seq(Block)]
    BY <1>4, <1>5 DEF HeapType
  <1>7. n.header \in [Block -> Size \cup {None}]
    BY <1>3, <1>4 DEF HeapType
  <1>8. n.allocs \subseteq Block
    BY <1>3, <1>4 DEF HeapType
  <1>. QED  BY <1>3, <1>4, <1>6, <1>7, <1>8 DEF HeapType, RingSized

\* So does a block put on a stack.
LEMMA StackTyped ==
    ASSUME NEW h \in HeapType, NEW p \in Block, NEW size \in Size, NEW n, n = free_impl(h, p, size)
    PROVE  /\ n \in HeapType /\ n.header = h.header /\ n.deferred_free = h.deferred_free
           /\ n.deferred_free_size = h.deferred_free_size
  <1>1. PICK q \in Seq(Block) : q = <<p>> \o h.alloc_cache[size]
    BY Pushed DEF HeapType
  <1>2. n = [h EXCEPT !.alloc_cache[size] = q]
    BY <1>1 DEF free_impl, HeapType
  <1>. QED  BY <1>2 DEF HeapType

\* So does a free.
LEMMA FreeTyped ==
    ASSUME NEW h \in HeapType, RingSized(h), NEW p \in Block, h.header[p] \in Size,
           NEW defer \in BOOLEAN
    PROVE  /\ free(h, p, defer) \in HeapType /\ RingSized(free(h, p, defer))
           /\ free(h, p, defer).header = h.header
  <1>1. PICK g : g = [h EXCEPT !.allocs = @ \ {p}]
    OBVIOUS
  <1>2. g \in HeapType /\ RingSized(g) /\ g.header = h.header
    BY <1>1 DEF HeapType, RingSized
  <1>3. CASE ~defer
    <2>1. free(h, p, defer) = free_impl(g, p, h.header[p])
      BY <1>1, <1>3 DEF free
    <2>. QED  BY <2>1, <1>2, StackTyped DEF RingSized
  <1>4. CASE defer
    <2>1. free(h, p, defer) = Defer(g, p)
      BY <1>1, <1>4 DEF free
    <2>2. PICK n : n = PutToRest(g, p)
      OBVIOUS
    <2>3. PICK b : b = n.deferred_free[n.deferred_index]
      OBVIOUS
    <2>4. Defer(g, p) = IF b = None THEN n
                        ELSE free_impl(n, b, n.deferred_free_size[n.deferred_index])
      BY <1>1, <2>2, <2>3, GivesBackNext
    <2>5. n = [g EXCEPT !.deferred_free[g.deferred_index] = p,
                        !.deferred_free_size[g.deferred_index] = g.header[p],
                        !.deferred_index = NextSlot(g)]
      BY <2>2 DEF PutToRest
    <2>6. NextSlot(g) \in Slot
      BY <1>2, NextSlotIs
    <2>7. n \in HeapType /\ n.header = h.header
      BY <1>2, <2>5, <2>6 DEF HeapType
    <2>8. RingSized(n)
      <3>1. /\ n.deferred_free = [g.deferred_free EXCEPT ![g.deferred_index] = p]
            /\ n.deferred_free_size = [g.deferred_free_size EXCEPT ![g.deferred_index] = g.header[p]]
        BY <1>2, <2>5 DEF HeapType
      <3>. QED  BY <3>1, <1>2 DEF RingSized, HeapType
    <2>9. CASE b = None
      BY <2>1, <2>4, <2>7, <2>8, <2>9
    <2>10. CASE b # None
      <3>1. b \in Block /\ n.deferred_free_size[n.deferred_index] \in Size
        BY <2>3, <2>7, <2>8, <2>10 DEF HeapType, RingSized
      <3>2. PICK m : m = free_impl(n, b, n.deferred_free_size[n.deferred_index])
        OBVIOUS
      <3>3. /\ m \in HeapType /\ m.header = n.header /\ m.deferred_free = n.deferred_free
            /\ m.deferred_free_size = n.deferred_free_size
        BY <2>7, <3>1, <3>2, StackTyped
      <3>. QED  BY <2>1, <2>4, <2>7, <2>8, <2>10, <3>2, <3>3 DEF RingSized
    <2>. QED  BY <2>9, <2>10
  <1>. QED  BY <1>3, <1>4

TwinStates ==
    [memory : HeapType, partner : [Block -> Block \cup {None}], same : SUBSET (Block \X Block),
     hash : Seq(Block), twin_hash : Seq(Block \cup {None}), old : BOOLEAN]

\* Each block the test has was handed out by the twin as well.
Served(w, h) ==
    /\ w \in TwinStates /\ RingSized(w.memory)
    /\ \A p \in h.allocs : w.partner[p] \in Block /\ w.memory.header[w.partner[p]] \in Size

HashesAlong(w) ==
    /\ Len(w.hash) = Len(w.twin_hash)
    /\ \A i \in 1 .. Len(w.hash) : Pair(w.same, w.hash[i], w.twin_hash[i])

\* The twin goes along as long as no block of an earlier iteration has come back.
GoesAlong(w, h) ==
    /\ \E c, t : HeapOK(w.memory, t, {}) /\ Along(h, w.memory, w.same, c)
    /\ \A x, y \in Block : Pair(w.same, x, y) => w.partner[x] = y
    /\ HashesAlong(w)

TwinOK(w, h) == Served(w, h) /\ (~w.old => GoesAlong(w, h))

\* A new twin goes along when the test has nothing.
LEMMA NewTwinOK ==
    ASSUME NEW h \in HeapType, h.allocs = {}
    PROVE  TwinOK(NewTwin, h)
  <1>1. PICK t : HeapOK(NewHeap, t, {})
    BY NewHeapKeeps
  <1>2. NewHeap \in HeapType
    BY <1>1 DEF HeapOK
  <1>3. /\ NewTwin.memory = NewHeap /\ NewTwin.same = {} /\ NewTwin.hash = <<>>
        /\ NewTwin.twin_hash = <<>> /\ NewTwin.old = FALSE
    BY DEF NewTwin
  <1>4. RingSized(NewHeap)
    BY DEF RingSized, NewHeap
  <1>5. NewTwin \in TwinStates
    <2>1. <<>> \in Seq(Block) /\ <<>> \in Seq(Block \cup {None})
      OBVIOUS
    <2>2. [b \in Block |-> None] \in [Block -> Block \cup {None}]
      OBVIOUS
    <2>. QED  BY <1>2, <2>1, <2>2 DEF NewTwin, TwinStates
  <1>6. Along(h, NewHeap, {}, h.deferred_index)
    BY NewGoesAlong
  <1>7. HashesAlong(NewTwin)
    BY <1>3 DEF HashesAlong
  <1>8. GoesAlong(NewTwin, h)
    BY <1>1, <1>3, <1>6, <1>7 DEF GoesAlong, Pair
  <1>. QED  BY <1>3, <1>4, <1>5, <1>8 DEF TwinOK, Served

\* An alloc, and the same of the twin.
LEMMA TwinAllocOK ==
    ASSUME HeapInv, NEW w, TwinOK(w, memory_), NEW size \in Size,
           CanAlloc(memory_, size), CanAlloc(w.memory, size),
           NEW v, v = TwinAlloc(w, size)
    PROVE  TwinOK(v, alloc(memory_, size))
  <1>1. PICK p : p = NextBlock(memory_, size)
    OBVIOUS
  <1>2. PICK q : q = NextBlock(w.memory, size)
    OBVIOUS
  <1>3. PICK m : m = alloc(w.memory, size)
    OBVIOUS
  <1>4. PICK T : T = AndPair(w.same, p, q)
    OBVIOUS
  <1>5. w \in TwinStates /\ RingSized(w.memory) /\ w.memory \in HeapType
    BY DEF TwinOK, Served, TwinStates
  <1>6. PICK f : f = [w.partner EXCEPT ![p] = q]
    OBVIOUS
  <1>7. HeapOK(memory_, rest, {}) /\ memory_ \in HeapType
    BY DEF HeapInv, HeapOK
  <1>8. p \in Block \ memory_.allocs /\ alloc(memory_, size).allocs = memory_.allocs \cup {p}
    BY <1>1, <1>7, AllocKeeps
  <1>9. q \in Block /\ m \in HeapType /\ RingSized(m)
        /\ m.header = [w.memory.header EXCEPT ![q] = size]
    BY <1>2, <1>3, <1>5, AllocTyped
  <1>10. T \subseteq Block \X Block /\ f \in [Block -> Block \cup {None}]
    BY <1>4, <1>5, <1>6, <1>8, <1>9 DEF TwinStates, AndPair
  <1>11. v = [w EXCEPT !.memory = m, !.partner = f, !.same = T]
    BY <1>1, <1>2, <1>3, <1>4, <1>5, <1>6 DEF TwinAlloc, TwinStates, AndPair
  <1>12. /\ v \in TwinStates /\ v.memory = m /\ v.partner = f /\ v.same = T /\ v.old = w.old
         /\ v.hash = w.hash /\ v.twin_hash = w.twin_hash
    BY <1>5, <1>9, <1>10, <1>11 DEF TwinStates
  <1>13. Served(v, alloc(memory_, size))
    <2>1. ASSUME NEW x \in memory_.allocs \cup {p}
          PROVE  f[x] \in Block /\ m.header[f[x]] \in Size
      <3>1. x \in Block /\ w.partner \in [Block -> Block \cup {None}]
            /\ w.memory.header \in [Block -> Size \cup {None}]
        BY <1>5, <1>7, <1>8 DEF HeapType, TwinStates
      <3>2. CASE x = p
        <4>1. f[x] = q
          BY <3>1, <3>2, <1>6
        <4>. QED  BY <3>1, <4>1, <1>9
      <3>3. CASE x # p
        <4>1. f[x] = w.partner[x] /\ x \in memory_.allocs
          BY <3>1, <3>3, <1>6
        <4>2. f[x] \in Block /\ w.memory.header[f[x]] \in Size
          BY <4>1 DEF TwinOK, Served
        <4>. QED  BY <3>1, <4>2, <1>9
      <3>. QED  BY <3>2, <3>3
    <2>. QED  BY <2>1, <1>8, <1>9, <1>12 DEF Served
  <1>14. ASSUME ~w.old PROVE GoesAlong(v, alloc(memory_, size))
    <2>1. GoesAlong(w, memory_)
      BY <1>14 DEF TwinOK
    <2>2. PICK c, t : HeapOK(w.memory, t, {}) /\ Along(memory_, w.memory, w.same, c)
      BY <2>1 DEF GoesAlong
    <2>3. Along(alloc(memory_, size), m, T, c)
      BY <1>1, <1>2, <1>3, <1>4, <1>7, <2>2, AllocGoesAlong
    <2>4. HeapOK(m, t, {})
      BY <1>3, <2>2, AllocKeeps
    <2>5. \A x, y \in Block : Pair(T, x, y) <=> Pair(w.same, x, y) \/ (x = p /\ y = q)
      BY <1>4, <1>8, <1>9, OneMorePair
    <2>6. ASSUME NEW x \in Block, NEW y \in Block, Pair(T, x, y) PROVE f[x] = y
      <3>1. Agree(T) /\ Pair(T, p, q)
        BY <2>3, <2>5, <1>8, <1>9 DEF Along
      <3>2. CASE x = p
        <4>1. y = q
          BY <3>1, <3>2, <2>6, <1>8, <1>9 DEF Agree
        <4>. QED  BY <3>2, <4>1, <1>5, <1>6 DEF TwinStates
      <3>3. CASE x # p
        <4>1. w.partner[x] = y
          BY <3>3, <2>1, <2>5, <2>6 DEF GoesAlong
        <4>. QED  BY <3>3, <4>1, <1>5, <1>6 DEF TwinStates
      <3>. QED  BY <3>2, <3>3
    <2>7. HashesAlong(v)
      <3>1. HashesAlong(w)
        BY <2>1 DEF GoesAlong
      <3>2. \A x, y : Pair(w.same, x, y) => Pair(T, x, y)
        BY <1>4 DEF Pair, AndPair
      <3>. QED  BY <3>1, <3>2, <1>12 DEF HashesAlong
    <2>. QED  BY <1>12, <2>3, <2>4, <2>6, <2>7 DEF GoesAlong
  <1>. QED  BY <1>12, <1>13, <1>14 DEF TwinOK

\* The first blocks of the pairs.
LEMMA Firsts ==
    ASSUME NEW S \in SUBSET (Block \X Block), NEW x, x \in {s[1] : s \in S}
    PROVE  In(S, x)
  <1>1. PICK s \in S : x = s[1]
    OBVIOUS
  <1>2. s = <<s[1], s[2]>> /\ s[2] \in Block
    BY <1>1
  <1>. QED  BY <1>1, <1>2 DEF In, Pair

\* A free, and the same of the twin.
LEMMA TwinFreeOK ==
    ASSUME NEW h, NEW r, HeapOK(h, r, {}), NEW w, TwinOK(w, h), NEW p \in Block, p \in h.allocs,
           NEW defer \in BOOLEAN, NEW v, v = TwinFree(w, h, p, defer)
    PROVE  TwinOK(v, free(h, p, defer))
  <1>1. PICK q : q = w.partner[p]
    OBVIOUS
  <1>2. PICK m : m = free(w.memory, q, defer)
    OBVIOUS
  <1>3. PICK b : b = GivenBackBy(h, p)
    OBVIOUS
  <1>4. w \in TwinStates /\ RingSized(w.memory) /\ w.memory \in HeapType /\ w.same \subseteq Block \X Block
        /\ q \in Block /\ w.memory.header[q] \in Size
    BY <1>1 DEF TwinOK, Served, TwinStates
  <1>5. h \in HeapType
    BY DEF HeapOK
  <1>6. PICK o \in BOOLEAN :
          o = (w.old \/ (defer /\ b \notin {None, p} \cup {s[1] : s \in w.same}))
    BY <1>4 DEF TwinStates
  <1>7. m \in HeapType /\ RingSized(m) /\ m.header = w.memory.header
    BY <1>2, <1>4, FreeTyped
  <1>8. v = [w EXCEPT !.memory = m, !.old = o]
    BY <1>1, <1>2, <1>3, <1>4, <1>6 DEF TwinFree, GivenBackBy, TwinStates
  <1>9. /\ v \in TwinStates /\ v.memory = m /\ v.partner = w.partner /\ v.same = w.same
        /\ v.old = o /\ v.hash = w.hash /\ v.twin_hash = w.twin_hash
    BY <1>4, <1>7, <1>8 DEF TwinStates
  <1>10. free(h, p, defer).allocs = h.allocs \ {p}
    BY FreeAllocs
  <1>11. Served(v, free(h, p, defer))
    BY <1>7, <1>9, <1>10 DEF TwinOK, Served
  <1>12. ASSUME ~o PROVE GoesAlong(v, free(h, p, defer))
    <2>1. GoesAlong(w, h)
      BY <1>6, <1>12 DEF TwinOK
    <2>2. PICK c, t : HeapOK(w.memory, t, {}) /\ Along(h, w.memory, w.same, c)
      BY <2>1 DEF GoesAlong
    <2>3. Pair(w.same, p, q)
      <3>1. In(w.same, p)
        BY <2>2 DEF Along, BlocksAlong
      <3>. QED  BY <3>1, <2>1, <1>1 DEF In, GoesAlong
    <2>4. defer => b = None \/ In(w.same, b)
      <3>1. ASSUME defer PROVE b = None \/ In(w.same, b)
        <4>1. b = None \/ b = p \/ b \in {s[1] : s \in w.same}
          BY <1>6, <1>12, <3>1
        <4>2. In(w.same, p)
          BY <2>2 DEF Along, BlocksAlong
        <4>. QED  BY <4>1, <4>2, <1>4, Firsts
      <3>. QED  BY <3>1
    <2>5. Along(free(h, p, defer), m, w.same, c)
      BY <1>2, <1>3, <1>4, <2>2, <2>3, <2>4, FreeGoesAlong
    <2>6. q \in w.memory.allocs
      BY <1>4, <2>2, <2>3 DEF Along, BlocksAlong
    <2>7. HeapOK(m, Rested(t, q, defer), {})
      BY <1>2, <1>4, <2>2, <2>6, FreeKeeps
    <2>. QED  BY <1>9, <2>1, <2>5, <2>7 DEF GoesAlong, HashesAlong
  <1>. QED  BY <1>9, <1>11, <1>12 DEF TwinOK

\* An address that is hashed is new to both, or to none.
LEMMA TwinHashOK ==
    ASSUME NEW h \in HeapType, NEW w, TwinOK(w, h), NEW p \in h.allocs \ ToSet(w.hash),
           NEW v, v = [w EXCEPT !.hash = Append(@, p),
                                !.twin_hash = IF w.partner[p] \in ToSet(@) THEN @
                                              ELSE Append(@, w.partner[p])]
    PROVE  TwinOK(v, h)
  <1>1. PICK q : q = w.partner[p]
    OBVIOUS
  <1>2. w \in TwinStates /\ p \in Block /\ q \in Block
    BY <1>1 DEF TwinOK, Served, HeapType
  <1>3. PICK a : a = w.hash
    OBVIOUS
  <1>4. PICK b : b = w.twin_hash
    OBVIOUS
  <1>5. a \in Seq(Block) /\ b \in Seq(Block \cup {None}) /\ Len(a) \in Nat /\ Len(b) \in Nat
    BY <1>2, <1>3, <1>4, LenProperties DEF TwinStates
  <1>6. PICK d : d = IF q \in ToSet(b) THEN b ELSE Append(b, q)
    OBVIOUS
  <1>7. PICK u : u = Append(a, p)
    OBVIOUS
  <1>8. v = [w EXCEPT !.hash = u, !.twin_hash = d]
    BY <1>1, <1>2, <1>3, <1>4, <1>6, <1>7 DEF TwinStates
  <1>9. u \in Seq(Block) /\ d \in Seq(Block \cup {None})
    BY <1>2, <1>5, <1>6, <1>7, AppendProperties
  <1>10. /\ v \in TwinStates /\ v.memory = w.memory /\ v.partner = w.partner /\ v.same = w.same
         /\ v.old = w.old /\ v.hash = u /\ v.twin_hash = d
    BY <1>2, <1>8, <1>9 DEF TwinStates
  <1>11. ASSUME ~w.old PROVE GoesAlong(v, h)
    <2>1. GoesAlong(w, h)
      BY <1>11 DEF TwinOK
    <2>2. PICK c, t : HeapOK(w.memory, t, {}) /\ Along(h, w.memory, w.same, c)
      BY <2>1 DEF GoesAlong
    <2>3. Pair(w.same, p, q)
      <3>1. In(w.same, p)
        BY <2>2 DEF Along, BlocksAlong
      <3>. QED  BY <3>1, <2>1, <1>1, <1>2 DEF In, GoesAlong
    <2>4. /\ Len(a) = Len(b)
          /\ \A i \in 1 .. Len(a) : Pair(w.same, a[i], b[i])
      BY <2>1, <1>3, <1>4 DEF GoesAlong, HashesAlong
    <2>5. q \notin ToSet(b)
      <3>1. ASSUME NEW i \in 1 .. Len(b), b[i] = q PROVE FALSE
        <4>1. Pair(w.same, a[i], q) /\ a[i] \in Block
          BY <3>1, <2>4, <1>5
        <4>2. a[i] = p
          BY <4>1, <2>2, <2>3, <1>2 DEF Along, Agree
        <4>. QED  BY <4>2, <3>1, <2>4, <1>3, <1>5 DEF ToSet
      <3>. QED  BY <3>1, <1>5 DEF ToSet
    <2>6. d = Append(b, q)
      BY <2>5, <1>6
    <2>7. /\ Len(u) = Len(a) + 1 /\ u[Len(a) + 1] = p /\ \A i \in 1 .. Len(a) : u[i] = a[i]
          /\ Len(d) = Len(b) + 1 /\ d[Len(b) + 1] = q /\ \A i \in 1 .. Len(b) : d[i] = b[i]
      BY <2>6, <1>2, <1>5, <1>7, AppendProperties
    <2>8. ASSUME NEW i \in 1 .. Len(u) PROVE Pair(w.same, u[i], d[i])
      <3>1. i \in 1 .. Len(a) \/ i = Len(a) + 1
        BY <2>7, <2>8, <1>5
      <3>. QED  BY <3>1, <2>3, <2>4, <2>7
    <2>9. HashesAlong(v)
      BY <1>10, <2>4, <2>7, <2>8 DEF HashesAlong
    <2>. QED  BY <1>10, <2>1, <2>2, <2>9 DEF GoesAlong
  <1>12. Served(v, h)
    BY <1>10 DEF TwinOK, Served
  <1>. QED  BY <1>10, <1>11, <1>12 DEF TwinOK

TwinInv == TwinOK(twin, memory_)

\* An alloc of the test, and that of the twin.
LEMMA AllocKeepsTwin ==
    ASSUME HeapInv, TwinInv, NEW size \in Size, CanGet(size), Alloc(size),
           twin' = TwinAlloc(twin, size)
    PROVE  TwinInv'
  <1>1. CanAlloc(memory_, size) /\ CanAlloc(twin.memory, size) /\ memory_' = alloc(memory_, size)
    BY DEF CanGet, Alloc
  <1>2. TwinOK(twin', alloc(memory_, size))
    BY <1>1, TwinAllocOK DEF TwinInv
  <1>. QED  BY <1>1, <1>2 DEF TwinInv

\* A free, immediate or deferred, and that of the twin.
LEMMA FreeKeepsTwin ==
    ASSUME HeapInv, TwinInv, NEW p \in Block, NEW defer \in BOOLEAN, Free(p, defer),
           twin' = TwinFree(twin, memory_, p, defer)
    PROVE  TwinInv'
  <1>1. p \in memory_.allocs /\ memory_' = free(memory_, p, defer)
    BY DEF Free
  <1>2. TwinOK(twin', free(memory_, p, defer))
    BY <1>1, TwinFreeOK DEF TwinInv, HeapInv
  <1>. QED  BY <1>1, <1>2 DEF TwinInv

\* A call that does both: a realloc, or an array that is unwound.
LEMMA AllocAndFreeKeepTwin ==
    ASSUME HeapInv, TwinInv, NEW size \in Size, CanGet(size), NEW p \in Block,
           NEW defer \in BOOLEAN, AllocAndFree(size, p, defer),
           twin' = TwinFree(TwinAlloc(twin, size), alloc(memory_, size), p, defer)
    PROVE  TwinInv'
  <1>1. CanAlloc(memory_, size) /\ CanAlloc(twin.memory, size)
    BY DEF CanGet
  <1>2. PICK h : h = alloc(memory_, size)
    OBVIOUS
  <1>3. PICK w : w = TwinAlloc(twin, size)
    OBVIOUS
  <1>4. TwinOK(w, h)
    BY <1>1, <1>2, <1>3, TwinAllocOK DEF TwinInv
  <1>5. HeapOK(h, rest, {})
    BY <1>1, <1>2, AllocKeeps DEF HeapInv
  <1>6. p \in h.allocs /\ memory_' = free(h, p, defer)
    BY <1>2 DEF AllocAndFree
  <1>7. twin' = TwinFree(w, h, p, defer)
    BY <1>2, <1>3
  <1>8. TwinOK(twin', free(h, p, defer))
    BY <1>4, <1>5, <1>6, <1>7, TwinFreeOK
  <1>. QED  BY <1>6, <1>8 DEF TwinInv

\* Whatever a test does, the twin of its heap goes along with it.
LEMMA TwinStep ==
    ASSUME HeapInv, ObjectsInv, TwinInv, [Next]_vars
    PROVE  TwinInv'
  <1>0. memory_ \in HeapType
    BY DEF HeapInv, HeapOK
  <1>1. CASE UNCHANGED <<memory_, twin>>
    BY <1>1 DEF TwinInv
  <1>2. CASE BeginIteration
    <2>1. stage.phase = "main" /\ memory_' = memory_ /\ twin' = NewTwin
      BY <1>2 DEF BeginIteration
    <2>2. memory_.allocs = {}
      BY <2>1 DEF ObjectsInv
    <2>3. TwinOK(NewTwin, memory_)
      BY <1>0, <2>2, NewTwinOK
    <2>. QED  BY <2>1, <2>3 DEF TwinInv
  <1>3. CASE BeforeOrAfter \/ BeforeEnds \/ Operate \/ GoOn \/ EndTest \/ EndIteration
    BY <1>1, <1>3 DEF BeforeOrAfter, BeforeEnds, Operate, GoOn, EndTest, EndIteration
  <1>4. CASE RunAgain
    <2>1. memory_' = NewHeap /\ twin' = NewTwin
      BY <1>4 DEF RunAgain, NewContext
    <2>2. NewHeap \in HeapType /\ NewHeap.allocs = {}
      BY NewHeapKeeps DEF HeapOK, NewHeap
    <2>3. TwinOK(NewTwin, NewHeap)
      BY <2>2, NewTwinOK
    <2>. QED  BY <2>1, <2>3 DEF TwinInv
  <1>5. CASE New
    <2>1. PICK size \in Size : CanGet(size) /\ Alloc(size) /\ twin' = TwinAlloc(twin, size)
      BY <1>5 DEF New
    <2>. QED  BY <2>1, AllocKeepsTwin
  <1>6. CASE Delete
    <2>1. \/ UNCHANGED <<memory_, twin>>
          \/ \E p \in Block, defer \in BOOLEAN :
                Free(p, defer) /\ twin' = TwinFree(twin, memory_, p, defer)
      BY <1>6 DEF Delete, Fails
    <2>. QED  BY <2>1, <1>1, FreeKeepsTwin
  <1>7. CASE Realloc
    <2>1. PICK p \in Block, size \in Size :
            /\ CanGet(size)
            /\ \/ \E defer \in BOOLEAN :
                    /\ AllocAndFree(size, p, defer)
                    /\ twin' = TwinFree(TwinAlloc(twin, size), alloc(memory_, size), p, defer)
               \/ Alloc(size) /\ twin' = TwinAlloc(twin, size)
      BY <1>7 DEF Realloc
    <2>2. CASE Alloc(size) /\ twin' = TwinAlloc(twin, size)
      BY <2>1, <2>2, AllocKeepsTwin
    <2>3. ASSUME NEW defer \in BOOLEAN, AllocAndFree(size, p, defer),
                 twin' = TwinFree(TwinAlloc(twin, size), alloc(memory_, size), p, defer)
          PROVE  TwinInv'
      BY <2>1, <2>3, AllocAndFreeKeepTwin
    <2>. QED  BY <2>1, <2>2, <2>3
  <1>8. CASE HashPtr
    <2>1. PICK p \in memory_.allocs \ ToSet(twin.hash) :
            twin' = [twin EXCEPT !.hash = Append(@, p),
                                 !.twin_hash = IF twin.partner[p] \in ToSet(@) THEN @
                                               ELSE Append(@, twin.partner[p])]
      BY <1>8 DEF HashPtr
    <2>2. memory_' = memory_
      BY <1>8 DEF HashPtr
    <2>3. PICK w : w = twin
      OBVIOUS
    <2>4. PICK v : v = twin'
      OBVIOUS
    <2>5. v = [w EXCEPT !.hash = Append(@, p),
                        !.twin_hash = IF w.partner[p] \in ToSet(@) THEN @
                                      ELSE Append(@, w.partner[p])]
      BY <2>1, <2>3, <2>4
    <2>6. TwinOK(v, memory_)
      BY <1>0, <2>1, <2>3, <2>5, TwinHashOK DEF TwinInv
    <2>. QED  BY <2>2, <2>4, <2>6 DEF TwinInv
  <1>9. CASE NewArray
    <2>1. PICK size \in Size : CanGet(size) /\ Alloc(size) /\ twin' = TwinAlloc(twin, size)
      BY <1>9 DEF NewArray
    <2>. QED  BY <2>1, AllocKeepsTwin
  <1>10. CASE NewArrayThrows
    <2>1. PICK size \in Size, p \in Block, defer \in BOOLEAN :
            /\ CanGet(size) /\ AllocAndFree(size, p, defer)
            /\ twin' = TwinFree(TwinAlloc(twin, size), alloc(memory_, size), p, defer)
      BY <1>10 DEF NewArrayThrows
    <2>. QED  BY <2>1, AllocAndFreeKeepTwin
  <1>11. CASE DeleteArray
    <2>1. PICK p \in Block, defer \in BOOLEAN :
            Free(p, defer) /\ twin' = TwinFree(twin, memory_, p, defer)
      BY <1>11 DEF DeleteArray
    <2>. QED  BY <2>1, FreeKeepsTwin
  <1>12. CASE InitObject \/ DeinitObject \/ UseMutex
    BY <1>1, <1>12 DEF InitObject, DeinitObject, UseMutex, Fails
  <1>13. CASE TlsSet \/ TlsGet
    BY <1>1, <1>13 DEF TlsSet, TlsGet
  <1>14. CASE TlsAlloc
    <2>1. CanGet(SlotSize) /\ Alloc(SlotSize) /\ twin' = TwinAlloc(twin, SlotSize)
      BY <1>14 DEF TlsAlloc
    <2>. QED  BY <2>1, AllocKeepsTwin, ContextAssumption
  <1>15. CASE TlsFree
    <2>1. PICK p \in Block, defer \in BOOLEAN :
            Free(p, defer) /\ twin' = TwinFree(twin, memory_, p, defer)
      BY <1>15 DEF TlsFree
    <2>. QED  BY <2>1, FreeKeepsTwin
  <1>16. CASE UNCHANGED vars
    BY <1>1, <1>16 DEF vars
  <1>. QED  BY <1>2, <1>3, <1>4, <1>5, <1>6, <1>7, <1>8, <1>9, <1>10, <1>11, <1>12, <1>13, <1>14,
               <1>15, <1>16 DEF Next

\* The blocks, objects and slots of a test go together, and its heap with the twin.
ContextInv == HeapInv /\ TlsInv /\ FibersInv /\ ObjectsInv /\ TwinInv

\* They do, whatever a test does, through all iterations and both contexts.
THEOREM ContextInvariant == Spec => []ContextInv
  <1>1. Init => HeapInv /\ ObjectsInv /\ TwinInv
    <2>. SUFFICES ASSUME Init PROVE HeapInv /\ ObjectsInv /\ TwinInv
      OBVIOUS
    <2>1. HeapInv
      BY HeapStart DEF Init
    <2>2. memory_ = NewHeap /\ objects = NewObjects /\ tls.slots = {} /\ twin = NewTwin
      BY DEF Init, HeapInit, NewTls
    <2>3. NothingLeaks(NewObjects)
      BY DEF NothingLeaks, NewObjects, NothingAllocated, NewSlab
    <2>4. NewHeap.allocs = {} /\ NewHeap \in HeapType
      BY NewHeapKeeps DEF NewHeap, HeapOK
    <2>5. ObjectsInv
      BY <2>2, <2>3, <2>4, NewObjectsOK DEF ObjectsInv
    <2>6. TwinInv
      BY <2>2, <2>4, NewTwinOK DEF TwinInv
    <2>. QED  BY <2>1, <2>5, <2>6
  <1>2. HeapInv /\ TlsInv /\ FibersInv /\ ObjectsInv /\ TwinInv /\ [Next]_vars
            => HeapInv' /\ ObjectsInv' /\ TwinInv'
    BY ObjectsStep, TwinStep, ContextStep, HeapStep
  <1>3. HeapInv /\ TlsInv /\ FibersInv /\ ObjectsInv /\ TwinInv => ContextInv
    BY DEF ContextInv
  <1>. QED  BY <1>1, <1>2, <1>3, ThreadLocalInvariant, FibersInvariant, PTL DEF Spec

\* A test that compares or hashes addresses sees the same when an iteration is
\* run again with a new heap, unless a deferred free has given back a block of
\* an iteration before: for all sizes, blocks and lengths of the ring.
THEOREM ReplaysAgreeOnBlocks == Spec => []ReplaysAgree
  <1>1. ContextInv => ReplaysAgree
    <2>. SUFFICES ASSUME TwinInv, ~twin.old
                  PROVE  /\ \A s, r \in twin.same : s[1] = r[1] <=> s[2] = r[2]
                         /\ Len(twin.hash) = Len(twin.twin_hash)
                         /\ \A i \in DOMAIN twin.hash :
                                <<twin.hash[i], twin.twin_hash[i]>> \in twin.same
      BY DEF ContextInv, ReplaysAgree
    <2>1. twin \in TwinStates /\ GoesAlong(twin, memory_)
      BY DEF TwinInv, TwinOK, Served
    <2>2. Agree(twin.same) /\ twin.same \subseteq Block \X Block
      BY <2>1 DEF GoesAlong, Along
    <2>3. ASSUME NEW s \in twin.same, NEW r \in twin.same PROVE s[1] = r[1] <=> s[2] = r[2]
      <3>1. /\ s = <<s[1], s[2]>> /\ s[1] \in Block /\ s[2] \in Block
            /\ r = <<r[1], r[2]>> /\ r[1] \in Block /\ r[2] \in Block
        BY <2>2, <2>3
      <3>2. Pair(twin.same, s[1], s[2]) /\ Pair(twin.same, r[1], r[2])
        BY <2>3, <3>1 DEF Pair
      <3>. QED  BY <2>2, <3>1, <3>2 DEF Agree
    <2>4. DOMAIN twin.hash = 1 .. Len(twin.hash)
      BY <2>1 DEF TwinStates
    <2>. QED  BY <2>1, <2>3, <2>4 DEF GoesAlong, HashesAlong, Pair
  <1>. QED  BY <1>1, ContextInvariant, PTL

\* How far a test may be.
StageInv ==
    stage \in [run : 1 .. 2, iter : 1 .. MaxIterations,
               phase : {"main", "before", "threads", "done"}, uses : 0 .. test.max_uses]

\* It goes no further than its bounds.
LEMMA StageStep ==
    ASSUME StageInv, FibersInv, TlsInv, [Next]_vars
    PROVE  StageInv'
  <1>1. test.max_uses \in Nat /\ MaxIterations \in Nat \ {0}
    BY ContextAssumption DEF FibersInv
  <1>2. PICK uses \in 0 .. test.max_uses : uses = stage.uses
    BY DEF StageInv
  <1>3. PICK iter \in 1 .. MaxIterations : iter = stage.iter
    BY DEF StageInv
  <1>4. PICK run \in 1 .. 2 : run = stage.run
    BY DEF StageInv
  <1>5. PICK phase \in {"main", "before", "threads", "done"} : phase = stage.phase
    BY DEF StageInv
  <1>6. stage = [run |-> run, iter |-> iter, phase |-> phase, uses |-> uses]
    BY <1>2, <1>3, <1>4, <1>5 DEF StageInv
  <1>7. CASE test' = test /\ stage' = stage
    BY <1>7 DEF StageInv
  <1>8. CASE BeginIteration
    <2>1. test' = test /\ stage' = [run |-> run, iter |-> iter, phase |-> "before", uses |-> 0]
      BY <1>6, <1>8 DEF BeginIteration
    <2>. QED  BY <1>1, <2>1 DEF StageInv
  <1>9. CASE BeforeOrAfter \/ Operate \/ GoOn \/ EndTest
    BY <1>7, <1>9 DEF BeforeOrAfter, Operate, GoOn, EndTest
  <1>10. CASE BeforeEnds
    <2>1. test' = test /\ stage' = [run |-> run, iter |-> iter, phase |-> "threads", uses |-> uses]
      BY <1>6, <1>10 DEF BeforeEnds
    <2>. QED  BY <2>1 DEF StageInv
  <1>11. CASE EndIteration
    <2>1. /\ test' = test
          /\ \/ stage' = stage
             \/ stage' = [stage EXCEPT !.phase = "done"]
             \/ iter # MaxIterations /\ stage' = [stage EXCEPT !.phase = "main", !.iter = @ + 1]
      BY <1>3, <1>11 DEF EndIteration
    <2>2. CASE stage' = [stage EXCEPT !.phase = "done"]
      <3>1. stage' = [run |-> run, iter |-> iter, phase |-> "done", uses |-> uses]
        BY <1>6, <2>2
      <3>. QED  BY <2>1, <3>1 DEF StageInv
    <2>3. CASE iter # MaxIterations /\ stage' = [stage EXCEPT !.phase = "main", !.iter = @ + 1]
      <3>1. stage' = [run |-> run, iter |-> iter + 1, phase |-> "main", uses |-> uses]
        BY <1>6, <2>3
      <3>2. iter + 1 \in 1 .. MaxIterations
        BY <1>1, <2>3
      <3>. QED  BY <2>1, <3>1, <3>2 DEF StageInv
    <2>. QED  BY <2>1, <2>2, <2>3, <1>7
  <1>12. CASE RunAgain
    <2>1. test' = test /\ stage' = [run |-> 2, iter |-> iter, phase |-> "main", uses |-> 0]
      BY <1>6, <1>12 DEF RunAgain
    <2>. QED  BY <1>1, <2>1 DEF StageInv
  <1>13. CASE \/ New \/ Delete \/ Realloc \/ HashPtr \/ NewArray \/ NewArrayThrows \/ DeleteArray
              \/ InitObject \/ DeinitObject \/ UseMutex \/ TlsSet \/ TlsGet \/ TlsAlloc \/ TlsFree
    <2>1. PICK what : Use(what)
      BY <1>13, UsesEach
    <2>2. test' = test /\ uses < test.max_uses
          /\ stage' = [run |-> run, iter |-> iter, phase |-> phase, uses |-> uses + 1]
      BY <1>2, <1>6, <2>1 DEF Use
    <2>3. uses + 1 \in 0 .. test.max_uses
      BY <1>1, <2>2
    <2>. QED  BY <2>2, <2>3 DEF StageInv
  <1>14. CASE UNCHANGED vars
    BY <1>7, <1>14 DEF vars
  <1>. QED  BY <1>8, <1>9, <1>10, <1>11, <1>12, <1>13, <1>14 DEF Next

\* The types of a context, with the bound of the steps that are counted.
THEOREM TypeCorrect == Spec => []TypeOK
  <1>1. Init => StageInv
    <2>. SUFFICES ASSUME Init PROVE StageInv
      OBVIOUS
    <2>1. test.max_uses \in Nat /\ MaxIterations \in Nat \ {0}
      BY ContextAssumption DEF Init
    <2>. QED  BY <2>1 DEF Init, StageInv
  <1>2. StageInv /\ ContextInv /\ [Next]_vars => StageInv'
    BY StageStep DEF ContextInv
  <1>3. StageInv /\ ContextInv => TypeOK
    <2>. SUFFICES ASSUME StageInv, ContextInv PROVE TypeOK
      OBVIOUS
    <2>1. /\ test \in Tests /\ fibers \in FiberStates /\ fibers.sched_count <= fibers.limit + 1
      BY DEF ContextInv, FibersInv, FibersFit
    <2>2. fibers.sched_count \in 0 .. fibers.limit + 1 /\ fibers.disabled \in Nat
          /\ fibers.running \in Thread \cup {Main}
      BY <2>1 DEF FiberStates
    <2>3. ASSUME NEW t \in Thread
          PROVE  /\ fibers.at[t] \in {"top", "test", "schedule", "park", "unpark", "switch_back"}
                 /\ fibers.state[t] \in {"none", "ready", "parked", "finished"}
                 /\ fibers.from[t] \in Thread \cup {Main} /\ fibers.saved[t] \in Nat \cup {-1}
      BY <2>1 DEF FiberStates, Places
    <2>4. memory_.allocs \subseteq Block /\ rest \in [Block -> Slot]
      BY DEF ContextInv, HeapInv, HeapOK, HeapType
    <2>5. objects.impl \in [Kind -> Nat \cup {None}] /\ objects.owned \subseteq Kind
      BY DEF ContextInv, ObjectsInv, ObjectsOK, VarsOK, ObjectStates
    <2>6. tls.slots \subseteq Block
      BY DEF ContextInv, TlsInv, TlsGood, TlsStates
    <2>7. twin.memory.allocs \subseteq Block /\ twin.old \in BOOLEAN
      BY DEF ContextInv, TwinInv, TwinOK, Served, TwinStates, HeapType
    <2>. QED  BY <2>1, <2>2, <2>3, <2>4, <2>5, <2>6, <2>7 DEF TypeOK, StageInv
  <1>. QED  BY <1>1, <1>2, <1>3, ContextInvariant, PTL DEF Spec
=============================================================================
