# Relacy Race Detector: models, checks and proofs

Relacy runs a small multithreaded C++ test over and over on fibers, one thread
at a time.  In each *iteration* it chooses which thread goes on and which store
a relaxed load reads, and it reports data races, failed assertions, deadlocks
and misuse of the synchronisation primitives.  What a user relies on is that it
reports no error that is not there, overlooks none that its search is meant to
reach, and that the search ends.  This directory states those promises in TLA+
for the parts of the code that carry them, model-checks them with TLC on small
instances, and proves most of those about safety, for all instances, with TLAPS.

Paths below are relative to the repository (`src/relacy/...` is where this
project finds `relacy/...`).  `PROJECT.json` maps every definition to its lines.

## 1. The system

Exactly one fiber runs at any time.  User code calls a primitive; the primitive
calls `sched()` (which may switch fibers), then changes the state of the model
without a switch, and returns or parks.  There is no real parallelism, so all
interleaving is between those calls, and one action of a model is the code from
one switch to the next.

| component | state | operations | correct when |
|---|---|---|---|
| **memory model** `data/thread_info`, `data/atomic_data`, `data/var_data`, `sync_var` | the vector clocks of threads, fences, stores and sync_vars; a ring of the last 3 stores of each atomic; timestamps of the last loads and stores of a plain variable | load, store, read-modify-write, compare-exchange, fence, plain load and store, acquire/release of a sync_var, global fence | clocks describe happens-before exactly: a race is reported iff a conflicting access is not ordered; a load reads only stores the standard allows; release sequences are carried and nothing else |
| **iteration** `context.hpp`, `thread_sync_object` | which phase, which thread, who has finished or was created, who waits | before, thread start and end, creation and join of a thread, after, the next iteration, the second run of a failed one | correct tests pass, `after()` sees everything, the iteration ends, nothing of it is left to the next |
| **schedulers** `scheduler.hpp`, `full_search_`, `context_bound_`, `random_scheduler.hpp` | block counts, the lists of running, timed and spurious threads, yield priorities, switches left | sched, yield, park, unpark, create, finish | the chosen thread can run, a deadlock is real, yields are fair and do not lose a thread |
| **search** `full_search_scheduler.hpp`, `simulate` in `context.hpp` | the stack of choices with its depth, the iteration number, the saved final state | rand, end of an iteration, second run | every execution once, the search ends, the repeated execution is the one that failed |
| **blocking primitives** `waitset`, `data/generic_mutex_data`, `condvar_data`, `sema_data`, `event_data`, `thread_sync_object`, `stdlib/semaphore`, `mutex`, `event`, `windows`, `pthread` | owners and counts, waitsets, the threads' places in them | lock, unlock, wait, notify, post, set, reset, pulse, join, wait for several objects, timeouts, spurious wakeups | no lost wakeup, consistent ownership, waitsets and threads agree, takers are ordered after signalers |
| **futexes** `stdlib/pthread.cpp`, `data/thread_info.cpp` | the waitset and the sync_var beside an atomic | wait, wake | no wake between comparison and park is lost; one who is woken knows what went before |
| **heap of the test** `memory.cpp` | live blocks, stacks of freed blocks by size, a ring of deferred frees | alloc, free, end of iteration; new, malloc, realloc, arrays | a block is in one place, is not reused while deferred, a second run finds the same addresses |
| **slab allocators** `slab_allocator.hpp` | the free list, the batches, the count | alloc, free, end of iteration | an element is free or in use; leaks are seen |
| **thread local storage** `thread_local*.hpp` | the table of a context, the context and index each variable has | alloc, get, set, TlsAlloc, TlsFree | a thread gets what it has stored in this iteration, or 0 |
| **address hash** `context_addr_hash.hpp` | the addresses hashed so far | get_addr_hash | the same numbers in a second run |
| **fibers** `context.hpp`, `context_base.hpp` | where each fiber stands, who lent the processor to whom, the depth of disabled preemption, the count of steps | sched, yield, park, unpark, switch_back, create, finish | preemption comes back to its thread, endless tests are ended |
| history, platform, names of the wrappers, parameters, random numbers | – | output and glue | – |

How they interact.  A primitive asks the context, which asks the scheduler to
park or unpark a thread; the scheduler draws every choice from `rand`, which in
the search schedulers reads or extends the stack of choices; primitives hand
clocks from thread to thread through `sync_var`s, atomics through the records
of their stores; the context starts an iteration, joins the clocks of all
threads at its phase boundaries, and asks the scheduler whether to go on.

What is hard here, and hard to test:

* vector clocks kept in six places that must all agree with one partial order;
* three stores of history per atomic and a set of reasons why a load may not
  look further back, each of which is wrong by one in an obvious way;
* reference counting of the reasons a thread is blocked, where a yield is one
  of them and may be withdrawn by parks, ends and purges of other threads;
* a woken thread that is overtaken, times out, or waits for several objects;
* hand-over of the processor inside `unpark`, which runs another thread's code
  in the middle of the caller's operation, with or without preemption;
* what outlives an iteration (the heap, slabs, global variables of the test) or
  even the context, and must not be noticed by the next;
* a search that must neither repeat nor skip, driven by the test itself.

`PROJECT.json` lists each hazard at its line with the properties that watch it.

## 2. Plan

Modules are written to be proved about: parameters are CONSTANTS with named
assumptions, one action per operation, no RECURSIVE operators.

1. (done) `HappensBefore`, the abstract specification of the memory model, and
   `MemoryModel`, which implements it; proof of type correctness, of the clock
   invariant and of the refinement.
2. (done) `Iteration`, which extends `MemoryModel` with the course of a test,
   and the repository's litmus tests as its programs.
3. (done) `Scheduler`; `TreeSearch`; `Blocking`.
4. (done) Futexes, dynamic threads, joins and compare-exchanges in `Iteration`;
   `Heap`, `Slabs`, `ThreadLocal`, `Fibers`, and `Context`, which composes them
   over several iterations and the second run; proofs about `Heap`, and that
   `Context` implements it.
5. (done) Proofs about the loads and release sequences of `MemoryModel`, and
   that they hold of every test of `Iteration`; about `Scheduler`, `TreeSearch`
   and `Blocking`; about thread local storage, the fibers and the objects of
   `Context`.
6. (done) Proofs that a second run tells the same of addresses (`ReplaysAgree`),
   of the types of `Context`, and that no wakeup is lost in `Blocking`
   (`NobodyWaitsInVain`) where no array names a lock first.
7. (done) `Holders`, the abstract specification of locks and semaphores, and
   the proof that `Blocking` implements it.
8. (left) A composition of `Scheduler` and `TreeSearch` through the choices
   drawn.

## 3. The modules

### HappensBefore and MemoryModel

`MemoryModel` keeps the variables of `thread_info`, `atomic_data`, `var_data`
and `sync_var` under their names: `acq_rel_order[t][u]` is
`acq_rel_order_[u]` of thread t, `history[x]` the ring `history_`, and so on.
Each operation is one action with its early failures (`Fail` is `fail_test`).
The values stored are left out: a position in the modification order stands for
the value, so whether a compare-exchange matches is a free choice.  `consume` is
run as acquire, as the code does.  `(timestamp_t)-1`, the stamp of a store that
nobody has seen, is a value above every clock.  The middle slot of a fresh ring
has an uninitialized `busy_` flag: Init chooses it freely.

`accesses` is an auxiliary variable that records every access; no guard reads
it.  It gives the properties something to compare with, and the refinement its
meaning: a clock stands for the set of accesses it covers.

`HappensBefore` has no timestamps at all: each thread knows a set of accesses;
releases, acquires and fences move such sets; a plain access fails exactly when
a conflicting access is not in its thread's set.  `MemoryModel` implements it
under the mapping `known[t] <- Upto(acq_rel_order[t])` etc.  Which of the last
stores a load may read, and the yields, are not part of `HappensBefore`: they
are stated as action properties of `MemoryModel` (`ReadsAreOfStores`,
`NoStaleRead`, `OwnReadsAdvance`, `YieldMakesProgress`).

`HappensBefore` describes what the code promises, which differs from ISO C++ in
one place it names: a store that continues no release sequence hands over
everything, relaxed or not (finding 2 below).

### Iteration and MC_litmus

`Iteration` EXTENDS `MemoryModel` with the phases of `fiber_proc_impl`: the
first thread runs `before()`, a global fence follows, threads start
(`on_start` acquires, `on_finish` releases their sync object), the last to
finish goes on to the global fence and `after()`.  A thread can be switched
out only where the code calls `sched()` (`AtSched`): plain accesses and weak
fences are not such places.  Programs are sequences of instructions
(`TestAssumption`: well formed, and nobody waits in `before()` and `after()`, on
which `park` insists); `MC_litmus` holds those of `test/memory_order.hpp`, `test/fence.hpp`,
`test/data_race.hpp`, `test/iriw.cpp`, `test/futex.hpp`, `test/dyn_thread.hpp`
and `test/compare_swap.hpp`, with the result they expect.  Loops are unrolled.

Here positions of stores stand for values too, and what a load has read is
remembered, so a compare-exchange knows whether it matches: `CompareExchange`
names the positions that hold the expected value, adds the spurious failure of a
weak one, and the order of the load when it fails (`FailureOrder`,
`FailureOrders`).  In the search schedulers an atomic fails spuriously once at
most (`already_failed_`); the model lets it fail at any time, as the random
scheduler does.

A futex wait is three instructions, `fence`, `futex_compare` and `futex_park`.
Only the first is a place where another thread can go on: the load runs with
preemption disabled, and the park follows it.  A wake releases
the `sync_var` beside the waitset, one who is woken acquires it, one who is
interrupted or times out does not; a join acquires in every case, as the code
does.  Threads that were never created are started, without a function, when
one has ended and nobody else can run (`MayRun`), and a `Deadlock` is found by a
thread that parks or ends.

### Scheduler

One record `sched` holds what the three schedulers share.  The order of the
thread lists only numbers the choices of `rand`, so lists are sets.  Every call
of the context is an action, with everything it does: `ParkCurrentThread`
blocks, looks for a deadlock (with the purge of the yields in between), and
schedules; `ThreadFinished` may start the dynamic threads; `Yield` first counts
the turn, then sets the priorities, then chooses.  `yield_sched_count` is
compared with the argument of a yield only, so it is capped at `MaxYield`.

### TreeSearch

A deterministic test is a tree: a node is a call of `rand`, a leaf an end with
its result.  TLC takes every tree up to a depth and width as the test.  `Rand`,
`IterationEnd`, `FirstRunFails` and `SecondRunFails` are `rand_impl`,
`iteration_end_impl` and the two halves of `simulate`.

### Holders and Blocking

One record `sys` holds the objects, the waitsets and what each thread waits
for.  An operation is one action, from the `sched()` it starts with to its
return or park.  An array of objects has none of them twice (`KindAssumption`): the
second take would fail an `RL_VERIFY`.  `Unpark` of a thread that waits with `do_switch` (semaphores,
events, waits for several objects) includes what the woken thread does before
it hands the processor back; other threads go on in an action `Continue`, so
another thread may overtake them.  `unpark_one` may pick any thread it can
remove.  Vector clocks are reduced to one question, which is what the ordering
property is about: who knows the *last signal* of one thread, `watched`, chosen
freely at the start.  Signals of different threads do not affect each other's
spread, so to follow any one of them is to follow them all.  `acquire`,
`release`, `acq_rel` are `sync_var`'s; `Signal` is a release that, made by the
watched thread, makes what the others knew of it stale.

Abstractions: a wait has a timeout whenever some wrapper can give it one, and
one without is one whose timeout does not come; a timeout or spurious wakeup
may come at any time (the scheduler chooses it among its threads); threads end
only in tests that wait for threads; semaphores start at 0.

`Holders` is what locks and semaphores promise of a step, in three variables:
the owner of each lock, its readers, the units of each semaphore.  In one step a
thread gives back one lock of its own, leaves the readers of one, or posts to one
semaphore within its `max_count_`, or does none of these; then threads have locks
and units that are free by then, any of them, and nothing else; or a thread joins
the readers.  Waitsets, recursion, waits for several objects and the hand-over of
the processor are not part of it: that an `unpark` in the middle of an operation,
which runs other threads' operations inside it, gives nobody what a third thread
still holds is what it is there to say.  `Blocking` maps `owner` and `count` to
themselves and `readers` to the threads whose `shared_owner` is above 0 (`HS`).
How many units a step takes, and who gets what first, is not in `Holders`; the
other properties of `Blocking` are about that.

### Context, with Fibers, Heap, Slabs and ThreadLocal

`Context` is a `context_impl`: iterations one after the other
(`BeginIteration`, `BeforeEnds`, the threads, `EndIteration` with the leak
checks), and `RunAgain`, the second context that `simulate` makes for a test that
has failed.  It holds a record for each of its parts; the parts are modules of
their own that say what one call makes of such a record.

* `Fibers` is who runs on the one real thread.  A thread runs *programs*, the
  sequences of calls to the context that the operations of the wrappers make
  (`Operations`: `Lock`, `Wait`, `CondVarWait`, `FutexWait`, `SignalAndWait`, ...); a call gives
  the set of states it may lead to, since the scheduler's choice is left open.
  What an operation does over and over (the unparks of a signal, of the end of a
  thread or of a futex wake, the looks of a wait for several objects) it does up to
  `MaxRepeats` times.
  `at[t]` is where a fiber stands, and `SwitchTo` does what the code does after
  the switch there.  `unpark` of a thread that waits with `do_switch` lends it
  the processor (`from`, `temp_switch_from_`), and `SwitchBack` returns it;
  `disabled`, `dp` and `saved` are the places the depth of disabled preemption
  is kept meanwhile.  `scopes`, auxiliary, counts the `preemption_disabler`s a
  thread is in.  Which waits are met is `Blocking`'s matter: here any parked
  thread may be unparked, and any timed one may time out.
* `Heap` is `memory_mgr`.  `rest`, auxiliary, counts the deferred frees for
  which a block still rests.  `HeapSpec` is the heap by itself, used in any way.
* `Slabs` is `slab_allocator`: one for each kind of wrapper and for vars.
* `ThreadLocal` is the table of a context and the variables that enter it at
  their first use in each context.  A global variable keeps its index from one
  context to the next; a member of the test and a slot of `TlsAlloc` are new.

`Context` adds what a test calls: `new`, `malloc`, `realloc`, arrays of vars
whose constructors may throw at any element (`Unwind` is the loop that destroys
the others, with its unsigned index, in words of `WordSize` values), `init` and
`deinit` of wrappers, thread local variables, hashes of addresses.  `Realloc` gets
the new block before it frees the old one, so a block that was free already may
be the one it gets, and is a double free otherwise.  The second
run is of the same test but need not make the same calls: that it does is
`TreeSearch`'s `HistoryIsOfTheFailure`, if the test can tell nothing apart.  The
heap is where it might: the first run's heap has a past.  So `twin` follows
each iteration with a heap that was new when it began, and `ReplaysAgree`
compares the two: the same addresses equal, the same hashes.  It excepts
one case, which the code does not avoid (section 6).

## 4. Model checking

Each run bounds what the code leaves open; nothing in the code depends on the
particular numbers, except the ring of 3 stores, which is its real size.

| run | shows | bounds, and why they are enough | states |
|---|---|---|---|
| `memory_clocks` | the clocks implement `HappensBefore`, races included; release sequences are carried | 2 threads, 1 atomic, 1 plain variable, 1 sync_var, own clocks to 3; relaxed operations, an acq_rel RMW and two fences cover each place a clock is kept, the proofs cover the rest | 329,088 |
| `memory_loads` | which stores a load may read | 2 threads, own clocks to 4, so that more stores than the ring holds are made; random scheduler, which looks back 2 stores; one thread yields | 2.0 million |
| `litmus` | 23 litmus tests pass, or fail as they expect, under every schedule, see everything in `after()`, and end | 4 threads, clocks never reach their bound of 20 | 103,613 |
| `scheduler` | the bookkeeping of the three schedulers | 3 threads, one of them dynamic, yields of 1 and 2, one context switch: two threads can hold back a third, and one thread two | 791,338 |
| `scheduler_fair` | yields are fair | 3 threads, no dynamic ones, yields of 1; two threads may yield to each other and leave out the third | 32,763 |
| `search` | the search is exhaustive, ends, and finds the failure again | every tree of depth 3 and width 2, so that a carry goes over two levels | 66,275 |
| `blocking` | waitsets, ownership, lost wakeups, ordering | 3 threads, symmetric; every kind of object, alone or with those it is waited for together with: a waiter, one who overtakes it, and one who signals | 348,835 |
| `context` | preemption and the hand-over of the processor; the heap, slabs and thread local storage over iterations and the second run; leaks and livelocks | 9 small tests, each of one part, with 1 to 3 threads, 4 blocks of 2 sizes, a ring of 2, batches of 2 elements, words of 8 values, 2 iterations: a ring that goes round, a second batch, an array and one that comes after it, an iteration with a past | 207,567 |

Four more runs show where the code disagrees with what the repository says of
it (section 6).

`memory_clocks` and `blocking` use symmetry in the threads, which no property
of theirs tells apart; they check no liveness.  `CHECK_DEADLOCK FALSE` is set
where the system really stops: the end of a test, or the bound on clocks.

### Liveness and fairness

* `Completes` (litmus): weak fairness of the next step.  A scheduler never
  stops while something can run, and the programs have no loops.
* `YieldIsFair` (scheduler): a thread that is created, unfinished and not
  waiting gets its turn, if the running threads do not offer switches for ever
  without ever giving way.  This is what `docs/advanced.txt` asks of a test: a
  yield in every loop that spins.  `GiveWay` is always possible while a test
  runs, so its weak fairness is written as `[]<><<GiveWay>>_vars` or the end.
  No fairness is assumed of the choice of the thread: the property is about
  that choice.
* `SearchEnds` (search): weak fairness of the next step; a finite test ends.
* `IterationsEnd` (context): weak fairness of the next step.  The threads do
  what they like for ever; what ends them is the count of steps.  So it is about
  tests of which all that is done passes through the context (`OnlySteps`):
  heap, variables and wrappers' construction ask for no step, and the code ends
  no loop over them.  Nor does `thread_sync_object::wait` count a step: a join or
  a try_wait on a finished thread and a try_wait on a running one return at once,
  and a join with a timeout parks.  The code ends no loop of these either, and
  `IterationsEnd` claims nothing of tests that have one.

## 5. Proofs

TLAPS proves these for all values of the constants: any number of threads and
objects, any tests, any bounds.  What they rest on are the ASSUMEs of the
modules, which TLC evaluates in every run.

| module | theorem | states |
|---|---|---|
| `MemoryModel_proof` | `TypeCorrect` | `Spec => []TypeOK` |
| | `ClocksArePast` | `Spec => []NoKnowledgeOfTheFuture` |
| | `RingCorrect` | `Spec => []RingHoldsTheLastStores` |
| | `TimestampsCorrect` | `Spec => []TimestampsAreOfTheLastAccesses` |
| | `ReleaseSequences` | `Spec => []ReleaseSequencesAreCarried` |
| | `LoadsReadStores` | `Spec => ReadsAreOfStores` |
| | `LoadsAreFresh` | `Spec => NoStaleRead` |
| | `LoadsAdvance` | `Spec => OwnReadsAdvance` |
| | `YieldingLoadsAdvance` | `Spec => YieldMakesProgress` |
| `MemoryModel_refinement` | `Refinement` | `Spec => ImplementsHappensBefore` |
| `Iteration_proof` | `TestsUseMemory` | `ItSpec => AnySpec` |
| | `TestLoads`, `TestReleases` | the properties of loads and releases hold of `ItSpec` |
| | `AfterSees` | `ItSpec => []AfterSeesEverything` |
| `Scheduler_proof` | `TypeCorrect` | `Spec => []TypeOK` |
| | `BlocksExplained` | `Spec => []BlockCountsAreExplained` |
| | `DeadlocksAreReal` | `Spec => []DeadlockIsReal` |
| | `OnlyParkedWake` | `Spec => []WakeableAreParked` |
| | `VerifyExplained` | `Spec => []VerifyNeedsAHeldTimedThread` |
| `TreeSearch_proof` | `TypeCorrect` | `Spec => []TypeOK` |
| | `SearchIsInOrder` | `Spec => []ExploresInOrder` |
| | `SearchIsSound` | `Spec => []SuccessIsExhaustive` |
| | `HistoryIsRight` | `Spec => []HistoryIsOfTheFailure` |
| | `ChecksHold` | `Spec => []NoCheckFails` |
| `Blocking_proof` | `TypeCorrect` | `Spec => []TypeOK` |
| | `WaitsetsRight` | `Spec => []WaitsetsAreOfParkedThreads` |
| | `LocksHeldOnce` | `Spec => []LocksAreHeldOnce` |
| | `TakersKnow` | `Spec => []TakersKnowTheSignals` |
| | `ChecksBreakByPulse` | `Spec => OnlyPulsesBreakTheChecks` |
| | `NobodyInVain` | `NoLockFirst` implies `Spec => []NobodyWaitsInVain` |
| | `BlockingInvariant` | `Spec => []IInv`, on which these rest |
| | `Refinement` | `Spec => ImplementsHolders` |
| `Context_proof` | `HeapInOnePlace` | `HeapSpec => []BlocksAreInOnePlace` |
| | `HeapDefers` | `HeapSpec => DeferredBlocksRest` |
| | `ContextUsesHeap` | `Spec => HeapSpec` |
| | `ContextInOnePlace` | `Spec => []BlocksAreInOnePlace` |
| | `ContextDefers` | `Spec => DeferredBlocksRest` |
| | `ThreadLocalsPrivate` | `Spec => []ThreadLocalsArePrivate` |
| | `PreemptionRestored` | `Spec => []PreemptionIsRestored` |
| | `ContextChecks` | `Spec => []ChecksHold` |
| | `NothingCarriedOver` | `Spec => []NothingIsCarriedOver` |
| | `ReplaysAgreeOnBlocks` | `Spec => []ReplaysAgree` |
| | `TypeCorrect` | `Spec => []TypeOK` |
| | `ContextInvariant` | `Spec => []ContextInv`, on which these rest |

The arguments, module by module.

`Sums` has what several proofs need and the library's theorems do not give in a
form the provers can use: induction over subsets and naturals through a least
counterexample, and the sum of a function over a finite set, with what one
change of the function makes of it.

`MemoryModel_proof`.  `TypeOK` alone is not inductive: a read-modify-write
advances its clock twice with a join in between, and the join stays within
`MaxClock` only if nothing joined is ahead of the thread's own clock.  So the
invariant `Inv` is `TypeOK /\ NoKnowledgeOfTheFuture`.  Lemmas about `Join` and
`Tick` (types, bounds, that a join of past clocks is past) come first, then one
lemma per action.  On top of it, `Recorded` says that the ring and the timestamps
are of the accesses really made.  Release sequences: clocks only grow
(`StepGrows`), and what a thread has released it still knows (`ReleasesAreKnown`);
so a store that takes over the clock of the store before it carries all of its
sequence.  Loads: `Legible` says that each slot of the ring, as long as it holds
a store, tells which threads have seen it (`RingTells`), and `Reached` names the
positions the loop of a load can get to; what stops the loop (`Stops`) is then
just what the three properties forbid to pass.  All of this is proved of
`AnySpec`, any sequence of the steps of the memory, of which `Spec` is one case.

`MemoryModel_refinement`.  To map a step, one must know that the set a clock
covers changes exactly by the access made: the new access's stamp is beyond
every clock, which is `NoKnowledgeOfTheFuture`; and that timestamps and slots
are those of accesses really made (`Recorded`).  `Upto(Join(c, d)) = Upto(c) \cup
Upto(d)` carries clocks to sets.  Then each action maps to an action of
`HappensBefore`; a failing plain access maps to `Race` because the last
conflicting access of some thread is not known, and a passing one has none by
the same equality.

`Iteration_proof`.  Each action of `Iteration` is a step of the memory, which is
all that the theorems about `AnySpec` ask: so they hold of every iteration of
every test.  That a step keeps within the types of the memory needs `Control`: who
is in which instruction, and that a thread waits for what its instruction says.
`AfterSees`: at the second global fence the running thread joins the clock of
every thread, and nobody else steps any more (`KnowsTheLast`).

`Scheduler_proof`.  A thread's count is one for its wait (`WaitCount`: it is parked,
has ended or is not created yet, one of them at most) and one for each yield that
holds it back (`HoldersOf`); it is in `running` iff the count is zero; and the
total of its priorities is their sum (`Explained`).  In the middle of an operation
the wait is not yet, or no longer, counted, so the lemmas about `block_thread`,
`unblock_thread` and the operators on priorities carry any `W` in place of
`WaitCount`.  A deadlock is then real because the purge of the yields leaves a
count of zero to whoever does not wait.

`TreeSearch_proof`.  `IInv` relates the stack of choices to the tree of the test:
`stree_` follows it (`Follows`), and what has been explored are the executions
earlier than the present path, all of them (`InSearch`).  The end of an iteration
goes to the next path (`NextPath`), and `NothingBetween` says that no execution
is between the two.  Executions are paths and paths have their one end (`WalkExists`,
`WalksAgree`); of two executions one is earlier (`ExecutionsAreOrdered`).  The
second run ends in the same place as the execution that failed (`InRepetition`).

`Blocking_proof`.  `Good` is the invariant of the record `sys`: a thread is in the
waitsets of what it waits for and in no other (`Linked`); owners, recursion and
counts of readers agree (`Held`); who waits for a lock could take it if it were
free (`MayWait`), without which a woken thread could be refused; and wherever the
last signal was, the sync_var of its object covers it (`Informed`), so who takes
it gets to know it.  The hand-over inside an unpark composes two operations, so
`Good` is kept by each of the parts (`Taken`, `Leave`, `HandOver`, `Unpark`), and
the loops over waitsets and arrays, which are recursive functions, are shown to
have a value and to keep it by induction over the length.  `Spares` says which
threads an unpark leaves alone: the rest of the caller's operation relies on it.

`Blocking_proof`, lost wakeups.  `NobodyWaitsInVain` is broken in the middle of
every operation that signals, so `NoneInVain(s, X)` leaves out the objects X that
have come just now.  An unlock, a post, a set or an end makes that one object
(`FreedFresh`, `ChangedFresh`, `RaisedFresh`, `EndedFresh`).  `Fades(s, r)` says
that from s to r nothing comes, nobody parks and no claim of a lock is given up;
it holds of takes, news, unparks, timeouts and who leaves, and keeps
`NoneInVain` (`FadesKeeps`).  What remains is the one object: whoever is woken for
it takes it away from the others or claims it (`UnparkServes`), or else those left
wait for more than it (`NobodyRemoved`, `UnparkAllServes`, `LeftAlone`).  A
reader-writer lock needs more: readers are kept out by a writer that waits, so the
timeout of a writer would let them in, and none is offered (`MayTimeOut`);
and a last unlock_shared that finds no writer leaves no readers either.  A thread
that is handed the processor for its k-th object takes the first that has come:
`NoLockFirst`, the theorem's hypothesis, is what makes that the k-th
(`FirstIsFresh`).  It is about `WaitArrays` alone, and `MC_blocking` states
it as an assumption, so that TLC evaluates it for the arrays of the runs.

`Blocking_proof`, `Holders`.  `Grants(s, r)` says that from s to r what was free has
been taken and nothing has been given back.  It is transitive, holds of takes, parks
and news, and is part of `Spares`: so it holds of every unpark whatever it hands
over, and of the loops of them.  `Deals(t, s, r)` is what is left: t gives one thing
back first, into an intermediate state, and grants follow; each operation deals
(`UnlockExclusiveGives`, `UnlockSharedDeals`, `PostGives`, and one lemma per
action), a signal-and-wait included, which gives in its first half only.  A last
`unlock_shared` frees the lock because `Held` counts its readers (`UnreadLeaves`).
Each case of `Deals` is one action of `Holders` (`DealsMapped`).  TLC has found the
refinement to hold on the instance of `blocking` with `ImplementsHolders` as a
PROPERTY of it; no run lists it, as the theorem says it of every instance.

`Context_proof`, the heap.  `BlocksAreInOnePlace` says nothing of the sizes the ring
remembers, which decide the stack a block goes back to, nor how far a block in
the ring is from its end.  `HeapOK` adds both (`RingKnows`): each slot has the size
of its block's header, and a block rests for as many more deferred frees as its
slot is away from the index (`Way`), which goes round with the ring.  A deferred
free moves two blocks, the one freed and the one the ring gives back, so the
invariant allows for blocks in hand: `Taken`, `GivenBack` and the lemmas beside
them take one block from one place or put it in one, and each operation is a
composition of them.  `HeapDefers` follows, since a block that `alloc` hands out
comes from a stack or from `::malloc`, and one that rests is in neither.  Each
action of `Context` is a step of `HeapNext` or leaves the heap alone; with that the
theorems about the heap hold of every context.

`Context_proof`, thread local storage.  An entry is of the variable that got its
index in this context (`EntriesAreOwn`), and has what was stored in this iteration
(`EntriesAreStored`), though variables, indexes and stored values outlive both.

`Context_proof`, the fibers.  What is left of a thread's operation must fit the
depth of preemption it has, or will find when it goes on.  `Fits` says so of a
sequence of calls alone: from a depth and a number of `preemption_disabler`s it
leads to zero of both (`Brings`, `Leads`), whichever alternative the calls take;
each of `Operations` fits, for any number of repetitions.  The other half is the
switch: `Left` is what is true of a fiber that does not run, of each place where
one can have left off, `Going` of the one that runs, and `Threading` of the chain of
those who have lent the processor, which ends and in which everybody is lent it
by one.  Every action is a composition of switches that keep `AllLeft`
(`FibersFit`).  Two assumptions say what a test is: its programs are operations
of the wrappers, and its results are not the names of the model's own verdicts.

`Context_proof`, the objects.  `SlabOK` says of one slab and a set of elements in
use that the free list has each other element, once, and that the count is of the
set; an `alloc`, with a new batch or without, adds one to the set and a `free` takes
one away.  `Arrays` says which sets these are for vars: an array is in a block of
the test that is no slot of thread local storage, has each of its vars once, and
shares none with another array; `Wrappers` that the other slabs have what the
wrappers have.  The loops that construct and destroy the elements of an array are
recursive functions and are shown to have a value by induction over the index
(`VarsConstructed`, `VarsDestroyed`).  The unwinding of a constructor that throws
goes down to 0 and stops where `size_t` has wrapped (`UnwindsDown`), since no size is
as large as the number of its values; so it destroys just what has been
constructed (`VarsUnwound`).  `ObjectsInv` adds that the iteration ends well only
with an empty heap and no count above 0, from which, by the rest, all free lists
are whole and no array, wrapper or owner is left.

`Context_proof`, the twin.  `twin.same` has the pairs of blocks that the heap and
its twin have handed out in the same call.  `Along` says how two heaps stand that
have had the same calls since one of them was new: the pairs are one to one
(`Agree`); each stack of the real heap begins with the partners of the twin's, and
below them has only blocks that no call of this iteration has had; and the slots
of the two rings correspond by a turn that stays the same (`Turn`), since the twin's
ring began at 0 and the other where the last iteration left it.  So an `alloc`
gives either a pair there is or two blocks that neither has had
(`AgreeOnNext`), and a free moves a pair (`FreeGoesAlong`), until the ring gives back
a block that the twin's has not: that is what `twin.old` records, and the only
way out (`TwinFreeOK`).  Hashes are the same because both are appended at the
same calls (`HashesAlong`).

Model-checked only:

* `NoFalseAlarm` of `Iteration`: it is about the results of particular tests.
* The liveness properties, and the violations of section 6: the prover has no
  ENABLED and no fairness.

`Operations` bounds how often an operation repeats its calls by `MaxRepeats`, which
is 1 in the run and any number in the proofs.

## 6. Where code and documentation disagree

1. `litmus_coherence`: a correct test fails.  A load overwrites its thread's
   stamp on the store it reads (`data/thread_info.cpp:251`), so a second load of
   a newer value moves the stamp past an earlier release, and one who acquires
   that release may still read the older value.  `docs/features.txt:7`: "No
   false positives."
2. `litmus_relaxed_store`: a relaxed store after a store of another thread
   copies the whole clock (`thread_info.cpp:336`: the member `acq_rel_order_`
   where the local `acq_rel_order` was chosen), so an acquire of it hides a
   race.  `docs/detection.txt:1`: races are detected according to ISO C++0x.
3. `scheduler_verify`: `RL_VERIFY(running_thread_count)`
   (`full_search_scheduler.hpp:188`) fails when the only timed thread is still
   held back by a yield.  `VerifyNeedsAHeldTimedThread`, in the passing run, says
   this is the only way.
4. `blocking_pulse`: `pulse` of an auto-reset event wakes all its waiters
   (`data/event_data.cpp:97`), and the second finds the event reset:
   `RL_VERIFY(state_ == true)` (`:147`).  `OnlyPulsesBreakTheChecks`, in the
   passing run, says this is the only way.

`RL_VERIFY` is compiled out unless asked for (`base.hpp:89-94`).  Read but not
turned into runs: a thread's own read-modify-write after another's store
preserves that store's sequence in a way ISO C++ does not
(`thread_info.cpp:323-334`); `set`, `reset` and `pulse` insist that nobody waits
on a set event, which a waiter for all of several objects does
(`event_data.cpp:40,71,91`; a comment says so); a timed writer on a
reader-writer lock could leave readers parked, but no wrapper offers one;
`condition_variable::wait_until` converts an enumeration to bool the wrong way
round (`stdlib/condition_variable.hpp:142-146`); the ring of deferred frees
survives an iteration, so a test that compares addresses may see one again in
the first run that the second, with its empty heap, does not give it
(`twin.old` of `ReplaysAgree`), and then the check that both runs end alike may
fail; a wrapper that is a global object is still initialised when a failed
test is run again, which then reports a double initialization; semaphores,
events and condition variables are destroyed without a look for waiters
(`data/sema_data.cpp:33` and others say so), and the slab reuses their data at
once; a loop of joins with a timeout, of joins of finished threads or of try_waits on
threads (`WaitForSingleObject` with 0) is never reported as a livelock
(`thread_sync_object.cpp:57-79` passes no place that counts a step); a wait for any of
several objects that is woken by one of them takes the first it finds
(`NobodyWaitsInVain` says which lock it must not name), and nobody else is woken
for the other; the postfix `++` and `--` of
a plain variable return the new value (`var.hpp:104-118`); an atomic's `-=` returns
the old value plus the operand (`atomic.hpp:160-163`).

## 7. Not modelled

History and events are output, and nothing reads them back.  Of the platform,
the switch of stacks is below the level of the models, which have who runs and
what is restored.  The names of the wrappers are macros and functions that pass
a call on; what they call is modelled.  Parameters, names of results and
random numbers hold no logic that the models do not leave open; the signatures
of objects recognise those a test has overwritten, which the models have not.

Within modelled parts: `atomic_init`; the ABA flag (history output); the estimate
of the number of iterations (progress output); the one spurious failure of
`std::mutex::try_lock`, which changes nothing else; waits with a predicate, which
are loops of the wait; `thread_local_free`, which nothing calls, so that entries
of thread local storage stay; `prev_alloc_size_` and the statistics of the heap;
the list of the places of leaked objects that is printed.

## 8. Running

    tlc -config MC_blocking.cfg MC_blocking.tla
    tlapm MemoryModel_refinement.tla

Modules `MC_*` instantiate the others for TLC; each `.cfg` named after one (or
after it and a suffix) is a run.  Definitions marked *Mutant* in comments are
wrong variants of the definition after them: each property is known to fail
when one of them is put in its place.
