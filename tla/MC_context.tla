----------------------------- MODULE MC_context -----------------------------
(* Small tests of a context: what one test does is of one part of it. *)
EXTENDS Context

CONSTANTS
    t1, t2, t3,         \* threads; t3 is a dynamic one
    b1, b2, b3, b4,     \* blocks
    global, member      \* thread local variables

Test(threads, limit, programs, invariant, uses, max_uses, results) ==
    [threads |-> threads, limit |-> limit, programs |-> programs, invariant |-> invariant,
     uses |-> uses, max_uses |-> max_uses, results |-> results]

AllTests ==
    { \* atomics, locks, a thread that is created and joined
      Test({t1, t2, t3}, 3,
        {AtomicOperation, CreateThread, Join(FALSE), Lock(TRUE, 1), Finish(0), Finish(1)},
        0, {}, 0, {}),
      \* waits that are lent the processor, in and out of disabled preemption
      Test({t1, t2}, 6,
        {Wait(FALSE, FALSE), Wait(TRUE, FALSE), SignalAndWait(TRUE), Signal(1), WaitSeveral(TRUE, 1),
         YieldTurn, Finish(0)},
        0, {}, 0, {}),
      \* condition variables and futexes, an invariant with steps
      Test({t1, t2}, 12,
        {CondVarWait(TRUE), FutexWait(FALSE), FutexWake(1), FindSeveral(1), Finish(0)},
        1, {}, 0, {}),
      \* blocks, arrays of objects, objects, variables
      Test({t1}, 2, {Finish(0)}, 0, {"heap"}, 5, {}),
      Test({t1}, 2, {Finish(0)}, 0, {"heap", "addresses"}, 3, {}),
      Test({t1}, 2, {Finish(0)}, 0, {"arrays"}, 3, {}),
      Test({t1}, 2, {Finish(0)}, 0, {"objects"}, 6, {}),
      Test({t1, t2}, 3, {AtomicOperation, Finish(0)}, 0, {"tls"}, 3, {"user_assert_failed", "user_invariant_failed"}),
      Test({t1}, 2, {Finish(0)}, 0, {"tls", "slots"}, 4, {}) }
=============================================================================
