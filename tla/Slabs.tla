------------------------------- MODULE Slabs -------------------------------
(***************************************************************************)
(* The slab allocators of a context, one for each kind of simulated object, *)
(* from which the wrappers a test declares get the data behind them, and   *)
(* which tell at the end of an iteration whether one was not destroyed.    *)
(***************************************************************************)
EXTENDS Integers, SequencesExt

CONSTANTS
    BatchSize   \* batch_size

ASSUME BatchAssumption == BatchSize \in Nat \ {0}

(***************************************************************************)
(* A slab_allocator: the free elements with the next first, the batches    *)
(* that blocks_ links, and alloc_count_.  The elements are numbered in the *)
(* order of their addresses.                                               *)
(***************************************************************************)
NewSlab == [freelist |-> <<>>, batches |-> 0, alloc_count |-> 0]

Elements(slab) == 1 .. BatchSize * slab.batches

\* alloc_batch: the last element of the batch is the next.
AddBatch(slab) ==
    [slab EXCEPT !.batches = @ + 1,
                 !.freelist = Reverse([i \in 1 .. BatchSize |-> slab.batches * BatchSize + i]) \o @]

Refilled(slab) == IF slab.freelist = <<>> THEN AddBatch(slab) ELSE slab

\* The element alloc returns, and the slab after it.
NextElement(slab) == Head(Refilled(slab).freelist)
SlabAlloc(slab) ==
    [Refilled(slab) EXCEPT !.freelist = Tail(@), !.alloc_count = @ + 1]

SlabFree(slab, p) == [slab EXCEPT !.freelist = <<p>> \o @, !.alloc_count = @ - 1]

NothingAllocated(slab) == slab.alloc_count = 0
=============================================================================
