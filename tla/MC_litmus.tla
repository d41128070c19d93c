----------------------------- MODULE MC_litmus -----------------------------
(***************************************************************************)
(* The litmus tests of the repository's test suite (test/memory_order.hpp, *)
(* test/fence.hpp, test/data_race.hpp, test/iriw.cpp, test/futex.hpp,      *)
(* test/dyn_thread.hpp) as programs of Iteration, and tests of the release *)
(* sequences and the coherence of ISO C++.                                 *)
(***************************************************************************)
EXTENDS Iteration

ld(x, mo) == [op |-> "load", obj |-> x, mo |-> mo]
st(x, mo) == [op |-> "store", obj |-> x, mo |-> mo]
rmw(x, mo) == [op |-> "rmw", obj |-> x, mo |-> mo]
cas(x, expected, weak, mo, failure_mo) ==
    [op |-> "compare_exchange", obj |-> x, expected |-> expected, weak |-> weak,
     mo |-> mo, failure_mo |-> failure_mo]
fence(mo) == [op |-> "fence", mo |-> mo]
plain_ld(v) == [op |-> "plain_load", obj |-> v]
plain_st(v) == [op |-> "plain_store", obj |-> v]
if(literals, skip) == [op |-> "if", literals |-> literals, skip |-> skip]
assert(literals) == [op |-> "assert", literals |-> literals]

create(t) == [op |-> "create", obj |-> t]
join(t, timed) == [op |-> "join", obj |-> t, timed |-> timed]

yield == [op |-> "yield"]
until == [op |-> "until"]

FutexSync == "x" :> 4 @@ "y" :> 5 @@ "r" :> 6

\* before() makes the first store of every atomic.
Old == {1}
New == 2 .. 4

\* The threads are numbered; those past the last program have nothing to do.
Test(before, threads, after) ==
    [before |-> before, after |-> after,
     thread |-> [t \in Thread |-> IF t + 1 <= Len(threads) THEN threads[t + 1] ELSE <<>>],
     dynamic |-> {}, expected_result |-> "none"]

reorder_single_var_test ==
    Test(<<st("x", "seq_cst")>>, <<
         <<ld("x", "relaxed"), ld("x", "relaxed"), assert({<<0, 1, Old>>, <<0, 2, New>>})>>,
         <<st("x", "relaxed")>> >>, <<>>)

acq_rel_test ==
    Test(<<st("x", "seq_cst")>>, <<
         <<ld("x", "acquire"), if({<<0, 1, New>>}, 1), plain_ld("d")>>,
         <<plain_st("d"), st("x", "release")>> >>,
        <<plain_st("d")>>)

modification_order_test ==
    Test(<<st("x", "seq_cst"), plain_st("d")>>, <<
         <<ld("x", "acquire"), if({<<0, 1, New>>}, 1), plain_ld("d")>>,
         <<plain_st("d"), st("x", "release"), st("x", "relaxed")>> >>,
        <<plain_ld("d"), ld("x", "relaxed")>>)

fence_synch_test(a, b) ==
    Test(<<st("x", "seq_cst")>>, <<
         <<plain_st("d"), fence(a), st("x", "relaxed")>>,
         <<ld("x", "relaxed"), if({<<1, 1, New>>}, 2), fence(b), plain_ld("d")>> >>,
        <<plain_st("d")>>)

seq_cst_fence_test ==
    Test(<<st("x", "seq_cst"), st("y", "seq_cst")>>, <<
         <<st("x", "relaxed"), fence("seq_cst"), ld("y", "relaxed"), plain_st("d")>>,
         <<st("y", "relaxed"), fence("seq_cst"), ld("x", "relaxed"), plain_st("e")>> >>,
        <<plain_ld("d"), plain_ld("e"), assert({<<0, 1, New>>, <<1, 1, New>>})>>)

reordering_test ==
    Test(<<st("x", "seq_cst"), st("y", "seq_cst"), st("r", "seq_cst")>>, <<
         <<st("x", "relaxed")>>,
         <<ld("x", "relaxed"), if({<<1, 1, New>>}, 1), st("r", "relaxed"), st("y", "release")>>,
         <<ld("y", "acquire"), if({<<2, 1, New>>}, 4), ld("r", "relaxed"),
           if({<<2, 2, New>>}, 2), ld("x", "relaxed"), assert({<<2, 3, New>>})>> >>, <<>>)

cc_transitive_test ==
    Test(<<st("x", "relaxed"), st("y", "relaxed")>>, <<
         <<st("x", "relaxed")>>,
         <<ld("x", "relaxed"), if({<<1, 1, New>>}, 1), st("y", "release")>>,
         <<ld("y", "acquire"), if({<<2, 1, New>>}, 2), ld("x", "relaxed"),
           assert({<<2, 2, New>>})>> >>, <<>>)

\* The second read-modify-write of x belongs to the release sequence of the
\* first, if the first is that of thread 0.
transitive_test ==
    Test(<<st("x", "seq_cst")>>, <<
         <<plain_st("d"), rmw("x", "release")>>,
         <<rmw("x", "acquire")>>,
         <<ld("x", "acquire"), ld("x", "acquire"), if({<<2, 2, {3}>>}, 1), plain_ld("d")>> >>, <<>>)

\* Its loop is unrolled once: a thread that yields sees the store.
race_seq_ld_ld_test ==
    Test(<<st("x", "seq_cst"), plain_st("d")>>, <<
         <<ld("x", "relaxed"), yield, ld("x", "relaxed"), if({<<0, 2, New>>}, 1), plain_ld("d")>>,
         <<plain_ld("d"), st("x", "relaxed")>> >>, <<>>)

readers_agree ==
    {<<2, 1, Old>>, <<2, 2, New>>, <<3, 1, Old>>, <<3, 2, New>>}

seq_cst_test ==
    Test(<<st("x", "seq_cst"), st("y", "seq_cst")>>, <<
         <<st("x", "seq_cst")>>,
         <<st("y", "seq_cst")>>,
         <<ld("x", "seq_cst"), ld("y", "seq_cst")>>,
         <<ld("y", "seq_cst"), ld("x", "seq_cst")>> >>,
        <<assert(readers_agree)>>)

iriw_test ==
    Test(<<st("x", "relaxed"), st("y", "relaxed")>>, <<
         <<st("x", "relaxed")>>,
         <<st("y", "relaxed")>>,
         <<ld("x", "relaxed"), fence("seq_cst"), ld("y", "relaxed")>>,
         <<ld("y", "relaxed"), fence("seq_cst"), ld("x", "relaxed")>> >>,
        <<assert(readers_agree)>>)

\* A thread that takes a newer value twice, and tells of it in between.
coherence_test ==
    Test(<<st("x", "relaxed"), st("y", "relaxed")>>, <<
         <<st("x", "relaxed")>>,
         <<ld("x", "relaxed"), if({<<1, 1, New>>}, 1), st("y", "release"), ld("x", "relaxed")>>,
         <<ld("y", "acquire"), if({<<2, 1, New>>}, 2), ld("x", "relaxed"),
           assert({<<2, 2, New>>})>> >>, <<>>)

\* A relaxed store that follows the store of another thread.
relaxed_store_test ==
    Test(<<st("x", "seq_cst")>>, <<
         <<plain_st("d"), st("x", "relaxed")>>,
         <<ld("x", "acquire"), if({<<1, 1, New>>}, 1), plain_ld("d")>> >>, <<>>)

\* The thread 0 stores and wakes; the loop of the other is unrolled twice.
test_futex ==
    Test(<<st("x", "relaxed")>>, <<
         <<st("x", "relaxed")>> \o FutexWake("x", 1),
         <<ld("x", "relaxed"), if({<<1, 1, Old>>}, 8)>> \o FutexWait("x", Old, FALSE)
           \o <<ld("x", "relaxed"), if({<<1, 4, Old>>}, 3)>> \o FutexWait("x", Old, FALSE) >>,
         <<if({<<1, 1, Old>>}, 3), if({<<1, 4, New>>}, 2),
                 assert({<<0, 1, {0}>>, <<1, 3, {Success}>>}),
                 assert({<<0, 1, {1}>>, <<1, 3, {WouldBlock, Interrupted}>>})>>)

\* test_futex_sync1, test_futex_sync2: one who is woken and one who need not
\* wait know what went before the store.
test_futex_sync ==
    Test(<<st("x", "relaxed"), plain_st("d")>>, <<
         <<plain_st("d"), st("x", "release")>> \o FutexWake("x", 1),
         FutexWait("x", Old, FALSE) \o
         <<if({<<1, 2, {Success, WouldBlock}>>}, 3), plain_ld("d"), ld("x", "relaxed"),
           assert({<<1, 3, New>>})>> >>, <<>>)

\* Two wait, with and without a timeout, and all are woken.
futex_broadcast_test ==
    Test(<<st("x", "relaxed"), plain_st("d")>>, <<
         <<plain_st("d"), st("x", "relaxed")>> \o FutexWake("x", 4),
         FutexWait("x", Old, FALSE) \o <<if({<<1, 2, {Success}>>}, 1), plain_ld("d")>>,
         FutexWait("x", Old, TRUE) \o <<if({<<2, 2, {Success}>>}, 1), plain_ld("d")>> >>, <<>>)

dyn_thread_visibility_test ==
    [Test(<<>>, <<
         <<plain_st("d"), create(1), join(1, FALSE), plain_ld("d")>>,
         <<plain_ld("d"), plain_st("d")>> >>, <<>>)
        EXCEPT !.dynamic = {1, 2, 3}]

\* Without its second loop; one dynamic thread is never created.
dyn_thread_basic_test ==
    [Test(<<st("x", "relaxed")>>, <<
         <<create(1), create(2), join(2, TRUE), join(1, FALSE),
           plain_ld("d"), if({<<0, 1, {Success}>>}, 1), plain_ld("e")>>,
         <<plain_st("d")>>, <<ld("x", "relaxed"), plain_st("e")>> >>, <<>>)
        EXCEPT !.dynamic = {1, 2, 3}]

\* The second compare-exchange ends the test when it fails, which it can only
\* do spuriously.
cas_spurious_fail_test ==
    LET exchange(i) == cas("x", {i}, TRUE, "seq_cst", FailureOrder("seq_cst"))
    IN  [Test(<<st("x", "relaxed")>>,
             << <<exchange(1), if({<<0, 1, {Success}>>}, 3),
                  exchange(2), if({<<0, 3, {Failed}>>}, 1), until>> >>, <<>>)
            EXCEPT !.expected_result = "until_condition_hit"]

\* A lock that two take by a compare-exchange: its owner has stored at the even
\* positions.
compare_exchange_lock_test ==
    LET lock == cas("x", {1, 3}, TRUE, "acquire", "relaxed")
    IN  Test(<<st("x", "relaxed"), plain_st("d")>>, <<
             <<lock, if({<<0, 1, {Success}>>}, 2), plain_st("d"), st("x", "release")>>,
             <<lock, if({<<1, 1, {Success}>>}, 2), plain_st("d"), st("x", "release")>> >>,
            <<plain_ld("d")>>)

\* One that fails acquires all the same.
compare_exchange_fails_test ==
    Test(<<st("x", "relaxed")>>, <<
         <<plain_st("d"), st("x", "release")>>,
         <<cas("x", Old, FALSE, "acq_rel", FailureOrder("acq_rel")),
           assert({<<1, 1, {Success}>>, <<1, 1, New>>}),
           if({<<1, 1, New>>}, 1), plain_ld("d")>> >>, <<>>)

\* Nobody has stored before.
uninitialized_test(threads) ==
    [Test(<<>>, threads, <<>>) EXCEPT !.expected_result = "uninitialized"]

\* It waits for nobody, and may only be interrupted.
test_futex_deadlock ==
    [Test(<<>>,
         << <<st("x", "relaxed")>> \o FutexWait("x", Old, FALSE)
           \o <<assert({<<0, 2, {Interrupted}>>})>> >>, <<>>)
        EXCEPT !.expected_result = "deadlock"]

AllTests ==
    {reorder_single_var_test, acq_rel_test, modification_order_test, seq_cst_fence_test,
     reordering_test, transitive_test, cc_transitive_test, race_seq_ld_ld_test, seq_cst_test, iriw_test,
     test_futex, test_futex_sync, test_futex_deadlock, futex_broadcast_test,
     dyn_thread_visibility_test, dyn_thread_basic_test,
     cas_spurious_fail_test, compare_exchange_lock_test, compare_exchange_fails_test,
     uninitialized_test(<<FutexWait("x", Old, FALSE)>>),
     uninitialized_test(<< <<cas("x", Old, TRUE, "relaxed", "relaxed")>> >>),
     fence_synch_test("release", "acquire"), fence_synch_test("seq_cst", "seq_cst")}

CoherenceTests == {coherence_test}
RelaxedStoreTests == {relaxed_store_test}
============================================================================
