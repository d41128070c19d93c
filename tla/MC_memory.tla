----------------------------- MODULE MC_memory -----------------------------
(* Threads that are interchangeable and may do anything to a few objects. *)
EXTENDS MemoryModel, TLC

Symmetry == Permutations(Thread)
============================================================================
