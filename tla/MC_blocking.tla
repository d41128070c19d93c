---------------------------- MODULE MC_blocking ----------------------------
(* A few threads that may call anything of a few objects. *)
EXTENDS Blocking

Symmetry == Permutations(Thread)

\* The objects a test uses together, and those it waits for together.
TheTests ==
    {{"rw"}, {"srw"}, {"posix"}, {"mutex", "cv"}, {"win", "manual", "sema"},
     {"sema", "auto", "manual"}, Thread}
TheArrays ==
    {<<"win", "manual">>, <<"auto", "sema">>, <<"sema", "manual">>} \cup
        ({<<t, u>> : t, u \in Thread} \ {<<t, t>> : t \in Thread})

\* What NobodyWaitsInVain is stated for.
ASSUME TheArraysAssumption == NoLockFirst

\* One semaphore of two units, the other of one, and recursion where it is
\* the lock itself that matters.
TheCounts == [o \in Semaphore |-> IF o = "posix" THEN 2 ELSE 1]
TheRecursions == [m \in Mutex |-> IF m = "win" THEN 1 ELSE 2]
=============================================================================
