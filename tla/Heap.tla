-------------------------------- MODULE Heap --------------------------------
(***************************************************************************)
(* The heap of the test, memory_mgr: the blocks the test holds, those that *)
(* wait in a stack of their size to be handed out again, and those whose   *)
(* free was deferred, which rest in a ring so that the test may meet them  *)
(* later than it would otherwise.  Nothing is given back to ::malloc.      *)
(***************************************************************************)
EXTENDS Integers, Sequences

CONSTANTS
    Block,          \* what ::malloc can hand out
    Size,           \* the sizes the test asks for
    DeferredCount,  \* deferred_count
    None            \* 0, where a pointer may be

ASSUME HeapAssumption ==
    /\ DeferredCount \in Nat \ {0}
    /\ None \notin Block \cup Size

VARIABLES
    memory_,    \* the memory_mgr
    rest        \* auxiliary, [b]: the deferred frees for which b still rests

heapVars == <<memory_, rest>>

Slot == 0 .. DeferredCount - 1

(***************************************************************************)
(* The fields of a memory_mgr:                                             *)
(*   header              the size written before a block, None for one     *)
(*                       that ::malloc has not handed out                  *)
(*   allocs              the keys of allocs_                               *)
(*   alloc_cache         [size]: the stack of free blocks, the top first   *)
(*   deferred_free, deferred_free_size   the ring                          *)
(*   deferred_index      modulo the length of the ring                     *)
(***************************************************************************)
NewHeap ==
    [header |-> [b \in Block |-> None], allocs |-> {},
     alloc_cache |-> [s \in Size |-> <<>>],
     deferred_free |-> [i \in Slot |-> None],
     deferred_free_size |-> [i \in Slot |-> None],
     deferred_index |-> 0]

\* A block never handed out before: any will do.
IsNew(h, b) == h.header[b] = None
malloc(h) == CHOOSE b \in Block : IsNew(h, b)

CanAlloc(h, size) == h.alloc_cache[size] # <<>> \/ \E b \in Block : IsNew(h, b)

\* The block that alloc returns.
NextBlock(h, size) ==
    IF h.alloc_cache[size] # <<>> THEN Head(h.alloc_cache[size]) ELSE malloc(h)

alloc(h, size) ==
    LET p == NextBlock(h, size)
    IN  [h EXCEPT !.alloc_cache[size] = IF @ # <<>> THEN Tail(@) ELSE @,
                  !.header[p] = size,
                  !.allocs = @ \cup {p}]

\* Mutant: the block freed longest ago is handed out first.
FreeLast(h, p, size) == [h EXCEPT !.alloc_cache[size] = Append(@, p)]

free_impl(h, p, size) == [h EXCEPT !.alloc_cache[size] = <<p>> \o @]

\* What a deferred free gives back: what rests in the next slot of the ring.
NextSlot(h) == (h.deferred_index + 1) % DeferredCount

\* Mutant: the slot of the index is given back, and its block put there after.
DeferTooEarly(h, p) ==
    LET i == h.deferred_index
        r == [h EXCEPT !.deferred_free[i] = p, !.deferred_free_size[i] = h.header[p],
                       !.deferred_index = NextSlot(h)]
    IN  IF h.deferred_free[i] = None THEN r ELSE free_impl(r, h.deferred_free[i], h.deferred_free_size[i])

\* Mutant: what is given back is the block itself.
DeferNot(h, p) ==
    LET i == h.deferred_index
        r == [h EXCEPT !.deferred_free[i] = p, !.deferred_free_size[i] = h.header[p],
                       !.deferred_index = NextSlot(h)]
    IN  free_impl(r, p, h.header[p])

\* p is put in the slot of the index, and the block in the next one given back.
Defer(h, p) ==
    LET i == h.deferred_index
        j == NextSlot(h)
        r == [h EXCEPT !.deferred_free[i] = p, !.deferred_free_size[i] = h.header[p],
                       !.deferred_index = j]
    IN  IF r.deferred_free[j] = None THEN r
        ELSE free_impl(r, r.deferred_free[j], r.deferred_free_size[j])

\* free of a block of allocs_
free(h, p, defer) ==
    LET r == [h EXCEPT !.allocs = @ \ {p}]
    IN  IF defer THEN Defer(r, p) ELSE free_impl(r, p, h.header[p])

iteration_end(h) == h.allocs = {}

-----------------------------------------------------------------------------
(* The heap by itself *)

Alloc(size) ==
    /\ CanAlloc(memory_, size)
    /\ memory_' = alloc(memory_, size)
    /\ UNCHANGED rest

\* With p deferred, the blocks that rest come one free nearer to their end.
Rested(r, p, defer) ==
    IF defer THEN [b \in Block |-> IF b = p THEN DeferredCount - 1
                                   ELSE IF r[b] > 0 THEN r[b] - 1 ELSE 0]
    ELSE r

Free(p, defer) ==
    /\ p \in memory_.allocs
    /\ memory_' = free(memory_, p, defer)
    /\ rest' = Rested(rest, p, defer)

\* A block is replaced by another, or freed since its constructor has thrown.
AllocAndFree(size, p, defer) ==
    /\ CanAlloc(memory_, size)
    /\ p \in alloc(memory_, size).allocs
    /\ memory_' = free(alloc(memory_, size), p, defer)
    /\ rest' = Rested(rest, p, defer)

NewContext ==
    /\ memory_' = NewHeap
    /\ rest' = [b \in Block |-> 0]

HeapInit ==
    /\ memory_ = NewHeap
    /\ rest = [b \in Block |-> 0]

HeapNext ==
    \/ \E size \in Size : Alloc(size)
    \/ \E p \in Block, defer \in BOOLEAN : Free(p, defer)
    \/ \E size \in Size, p \in Block, defer \in BOOLEAN : AllocAndFree(size, p, defer)
    \/ NewContext

HeapSpec == HeapInit /\ [][HeapNext]_heapVars

-----------------------------------------------------------------------------
(* Properties *)

Rests(h, b) == \E i \in Slot : i # h.deferred_index /\ h.deferred_free[i] = b
IsCached(h, b, size) == \E k \in 1 .. Len(h.alloc_cache[size]) : h.alloc_cache[size][k] = b

InOnePlace(h) ==
    /\ \A b \in Block :
        /\ IsNew(h, b) <=> b \notin h.allocs /\ ~Rests(h, b) /\ \A s \in Size : ~IsCached(h, b, s)
        /\ ~(b \in h.allocs /\ Rests(h, b))
        /\ \A s \in Size :
            IsCached(h, b, s) => b \notin h.allocs /\ ~Rests(h, b) /\ h.header[b] = s
    /\ \A s \in Size : \A k, m \in 1 .. Len(h.alloc_cache[s]) :
        h.alloc_cache[s][k] = h.alloc_cache[s][m] => k = m
    /\ \A i, j \in Slot \ {h.deferred_index} :
        h.deferred_free[i] = h.deferred_free[j] /\ h.deferred_free[i] # None => i = j

\* Every block that was ever handed out is in one place, once: the test holds
\* it, it waits in the stack of its own size, or it rests in the ring.  None is
\* handed out twice or with a wrong size, and none is lost, however the frees
\* of a test and their deferral go.
BlocksAreInOnePlace == InOnePlace(memory_)

\* A block whose free was deferred is not handed out again before
\* DeferredCount - 1 more frees have been: in between nothing else is found at
\* its address, so that a use of it is still recognised as one of freed memory.
DeferredBlocksRest ==
    [][\A b \in memory_'.allocs \ memory_.allocs : rest[b] = 0]_heapVars
=============================================================================
