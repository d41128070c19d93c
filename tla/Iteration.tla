----------------------------- MODULE Iteration -----------------------------
(***************************************************************************)
(* One iteration of a test: the first scheduled thread runs before(), then *)
(* every thread runs its program over the simulated memory, and the last   *)
(* to finish runs after().  Wherever the code calls sched() any thread may *)
(* go on: the schedulers choose among these.                               *)
(*                                                                         *)
(* A test is a record of programs; a program is a sequence of instructions *)
(* over the objects of MemoryModel.  Every thread remembers which stores   *)
(* its loads have read, and a literal <<t, k, S>> says that the k-th load  *)
(* of t has read a store whose position is in S.  "if" skips instructions, *)
(* "until" ends the test, and "assert" fails it when none of its literals  *)
(* holds.  What a wait, a wake or a compare-exchange returns is remembered *)
(* like what a load has read.                                              *)
(***************************************************************************)
EXTENDS MemoryModel, SequencesExt

CONSTANTS
    Tests,          \* the tests to run: [before, thread, after, dynamic, expected_result]
    futex_sync      \* the sync_var beside the futex of an atomic

\* Every thread has a thread_sync_object, so a sync_var of its own.
ASSUME SyncAssumption ==
    /\ Thread \subseteq SyncVar
    /\ futex_sync \in Injection(Atomic, SyncVar \ Thread)

\* The instructions that create or wake a thread or wait for one.
Blocking == {"create", "join", "futex_compare", "futex_park", "futex_wake"}

\* An instruction is one of these, of an object of its kind.
IsInstruction(ins) ==
    \/ ins.op \in {"load", "store", "rmw", "compare_exchange"} /\ ins.obj \in Atomic
    \/ ins.op \in {"plain_load", "plain_store"} /\ ins.obj \in Var
    \/ ins.op = "fence" /\ ins.mo \in FenceOrder
    \/ ins.op \in {"yield", "if", "until", "assert"}
    \/ ins.op \in {"create", "join"} /\ ins.obj \in Thread
    \/ ins.op \in {"futex_compare", "futex_park", "futex_wake"} /\ ins.obj \in Atomic
IsProgram(p) == Len(p) \in Nat /\ \A i \in 1 .. Len(p) : IsInstruction(p[i])

\* Nobody waits in before() and after(), on which park insists
\* (special_function_executing), and the tests create no thread there.
ASSUME TestAssumption ==
    \A T \in Tests :
        /\ IsProgram(T.before) /\ \A i \in 1 .. Len(T.before) : T.before[i].op \notin Blocking
        /\ IsProgram(T.after) /\ \A i \in 1 .. Len(T.after) : T.after[i].op \notin Blocking
        /\ \A t \in Thread : IsProgram(T.thread[t])

VARIABLES
    test,           \* the test that runs
    phase,          \* "before", "threads", "fence", "after", "end"
    running,        \* the thread whose fiber runs, threadx_
    pc,             \* pc[t]: the next instruction of thread(t), 0 before on_start
    special_pc,     \* the next instruction of before() or after()
    created,        \* the threads that may start
    finished,       \* the threads that have finished
    waitset,        \* waitset[s]: those that wait for the object with s
    woken,          \* those that were unparked and have not gone on yet
    reads           \* reads[t]: the positions of the stores t's loads have
                    \* read, and what its waits and wakes have returned

blocking == <<created, waitset, woken>>
control == <<test, phase, running, pc, special_pc, finished, blocking, reads>>
allVars == <<vars, control>>

\* All but what a sync_var is concerned with.
notClocks == <<acquire_fence_order, release_fence_order, last_yield, seq_cst_fence_order,
               atomicVars, plainVars, test_result, accesses>>

\* What a wait or a compare-exchange returns; the positions of stores are
\* positive.
Success == 0
WouldBlock == -1
TimedOut == -2
Interrupted == -3
Failed == -4

ItInit ==
    /\ Init
    /\ test \in Tests
    /\ phase = "before"
    /\ running \in Thread \ test.dynamic
    /\ pc = [t \in Thread |-> 0]
    /\ special_pc = 1
    /\ created = Thread \ test.dynamic
    /\ finished = {}
    /\ waitset = [s \in SyncVar |-> {}]
    /\ woken = {}
    /\ reads = [t \in Thread |-> <<>>]

Holds(literals) ==
    \E l \in literals :
        LET t == l[1]
            k == l[2]
        IN  k <= Len(reads[t]) /\ reads[t][k] \in l[3]

\* The order of the load of a compare-exchange that fails, when none is given,
\* and those that may be given.
FailureOrder(mo) ==
    CASE mo \in {"relaxed", "release"} -> "relaxed"
      [] mo \in {"acquire", "acq_rel"} -> "acquire"
      [] mo = "seq_cst" -> "seq_cst"
FailureOrders(mo) ==
    {"relaxed"} \cup (IF Acquires(mo) THEN {"acquire"} ELSE {})
                \cup (IF mo = "seq_cst" THEN {"seq_cst"} ELSE {})

\* The value that is compared with is that of the stores at the positions
\* expected.  A weak one may fail all the same; with the search schedulers an
\* atomic does so once only, which is one of the ways it may go here.
CompareExchange(t, ins) ==
    LET found == current_index[ins.obj] \in ins.expected
    IN  /\ ins.failure_mo \in FailureOrders(ins.mo)
        /\ \/ found /\ ReadModifyWrite(t, ins.obj, ins.mo)
           \/ (found => ins.weak) /\ CompareExchangeFails(t, ins.obj, ins.failure_mo)
           \/ ReadModifyWriteFails(ins.obj)

Execute(t, ins) ==
    CASE ins.op = "load" -> Load(t, ins.obj, ins.mo)
      [] ins.op = "store" -> Store(t, ins.obj, ins.mo)
      [] ins.op = "rmw" -> ReadModifyWrite(t, ins.obj, ins.mo) \/ ReadModifyWriteFails(ins.obj)
      [] ins.op = "compare_exchange" -> CompareExchange(t, ins)
      [] ins.op = "fence" -> Fence(t, ins.mo)
      [] ins.op = "plain_load" -> VarLoad(t, ins.obj) \/ VarLoadFails(t, ins.obj)
      [] ins.op = "plain_store" -> VarStore(t, ins.obj) \/ VarStoreFails(t, ins.obj)
      [] ins.op = "yield" -> Yield(t)
      [] ins.op = "if" -> UNCHANGED vars
      [] ins.op = "until" -> Fail("until_condition_hit")
      [] ins.op = "assert" -> IF Holds(ins.literals) THEN UNCHANGED vars ELSE Fail("assert")

\* What the thread remembers of the instruction: what its loads have read, and
\* of a compare-exchange whether it has exchanged.
Remembered(ins) ==
    LET loads == {a.pos : a \in {b \in Made : b.op = "load"}}
    IN  SetToSeq(loads) \o
        (IF ins.op = "compare_exchange" THEN <<IF loads = {} THEN Success ELSE Failed>> ELSE <<>>)

\* t takes the i-th instruction of the program; next is the one after it.
Instruction(t, program, i, next) ==
    LET ins == program[i]
    IN  /\ i <= Len(program)
        /\ Execute(t, ins)
        /\ reads' = [reads EXCEPT ![t] = @ \o Remembered(ins)]
        /\ next = i + 1 + (IF ins.op = "if" /\ ~Holds(ins.literals) THEN ins.skip ELSE 0)

\* before() runs in the first thread.  The global fence after it makes all it
\* did known to every thread.
Before ==
    /\ phase = "before"
    /\ \/ /\ \E next \in 1 .. Len(test.before) + 1 :
                /\ Instruction(running, test.before, special_pc, next)
                /\ special_pc' = next
          /\ UNCHANGED phase
       \/ /\ special_pc > Len(test.before)
          /\ rl_global_fence
          /\ phase' = "threads"
          /\ special_pc' = 1
          /\ UNCHANGED reads
    /\ UNCHANGED <<test, running, pc, finished, blocking>>

Parked == UNION {waitset[s] : s \in SyncVar}

\* A thread that was never created has no function when it is started.
Program(t) == IF t \in created THEN test.thread[t] ELSE <<>>
\* The next instruction, if there is one.
Ahead(t) == Program(t)[pc[t]]

\* Mutant: a finished thread does not give way.
AtSchedUnlessFinished(t) ==
    \/ t \in Parked
    \/ /\ pc[t] \in 1 .. Len(Program(t))
       /\ \/ Ahead(t).op \in {"load", "store", "rmw", "compare_exchange", "yield"}
          \/ Ahead(t).op = "fence" /\ Ahead(t).mo = "seq_cst"

\* Where a fiber can be switched out: before an operation on an atomic and a
\* seq_cst fence, in a yield, when it is parked, and after its end.
AtSched(t) ==
    \/ t \in finished \cup Parked
    \/ /\ pc[t] \in 1 .. Len(Program(t))
       /\ \/ Ahead(t).op \in {"load", "store", "rmw", "compare_exchange", "yield"}
          \/ Ahead(t).op = "fence" /\ Ahead(t).mo = "seq_cst"

\* Nobody goes on unless he is woken.
Stuck == \A t \in created \ finished : t \in Parked /\ ~Ahead(t).timed

\* Threads that were not created are started when a thread has ended and no
\* other can go on.
MayRun(t) ==
    /\ phase = "threads"
    /\ t \notin finished \cup Parked
    /\ \/ t = running
       \/ AtSched(running) /\ (t \in created \/ (running \in finished /\ Stuck))
    /\ running' = t

on_start(t) ==
    /\ MayRun(t)
    /\ pc[t] = 0
    /\ own(t) < MaxClock
    /\ sync_acquire(t, t)
    /\ pc' = [pc EXCEPT ![t] = 1]
    /\ UNCHANGED <<notClocks, test, phase, special_pc, finished, blocking, reads>>

ThreadStep(t) ==
    /\ MayRun(t)
    /\ pc[t] \in 1 .. Len(Program(t)) /\ ~Ahead(t).op \in Blocking
    /\ \E next \in 1 .. Len(Program(t)) + 1 :
        /\ Instruction(t, Program(t), pc[t], next)
        /\ pc' = [pc EXCEPT ![t] = next]
    /\ UNCHANGED <<test, phase, special_pc, finished, blocking>>

\* Those that wait for its end are woken.  The last thread to finish goes on
\* with after().
on_finish(t) ==
    /\ MayRun(t)
    /\ pc[t] = Len(Program(t)) + 1
    /\ own(t) < MaxClock
    /\ sync_release(t, t)
    /\ finished' = finished \cup {t}
    /\ waitset' = [waitset EXCEPT ![t] = {}]
    /\ woken' = woken \cup waitset[t]
    /\ phase' = IF finished' = Thread THEN "fence" ELSE phase
    /\ UNCHANGED <<notClocks, test, pc, special_pc, created, reads>>

After ==
    /\ \/ /\ phase = "fence"
          /\ rl_global_fence
          /\ phase' = "after"
          /\ UNCHANGED <<special_pc, reads>>
       \/ /\ phase = "after"
          /\ \E next \in 1 .. Len(test.after) + 1 :
                /\ Instruction(running, test.after, special_pc, next)
                /\ special_pc' = next
          /\ UNCHANGED phase
       \/ /\ phase = "after"
          /\ special_pc > Len(test.after)
          /\ phase' = "end"
          /\ UNCHANGED <<vars, special_pc, reads>>
    /\ UNCHANGED <<test, running, pc, finished, blocking>>

-----------------------------------------------------------------------------
(* Threads that are created, and waits *)

\* The thread t takes its next instruction, one of these, and the one after it
\* is next.
Takes(t, op) ==
    /\ MayRun(t)
    /\ t \notin woken
    /\ pc[t] \in 1 .. Len(Program(t)) /\ Ahead(t).op = op
    /\ own(t) < MaxClock
    /\ UNCHANGED <<test, phase, special_pc, finished>>
Done(t) == pc' = [pc EXCEPT ![t] = @ + 1]
Returns(t, result) == reads' = [reads EXCEPT ![t] = Append(@, result)]

\* park_current_thread schedules like a yield.
Park(t, s) ==
    /\ Yield(t)
    /\ waitset' = [waitset EXCEPT ![s] = @ \cup {t}]
    /\ UNCHANGED <<pc, created, woken, reads>>

\* create_thread, with on_create of the new thread's object by its creator
create_thread(t) ==
    /\ Takes(t, "create")
    /\ sync_release(t, Ahead(t).obj)
    /\ created' = created \cup {Ahead(t).obj}
    /\ Done(t)
    /\ UNCHANGED <<notClocks, waitset, woken, reads>>

\* thread_sync_object::wait
WaitForThread(t) ==
    LET u == Ahead(t).obj
    IN  /\ Takes(t, "join")
        /\ \/ u \notin finished /\ Park(t, u)
           \/ /\ u \in finished
              /\ sync_acquire(t, u) /\ Done(t) /\ Returns(t, Success)
              /\ UNCHANGED <<notClocks, blocking>>

\* A wait of a futex and a wake begin with a sched and a seq_cst fence.  The
\* load that follows takes place with preemption disabled.
FutexWait(x, expected, timed) ==
    <<[op |-> "fence", mo |-> "seq_cst"],
      [op |-> "futex_compare", obj |-> x, expected |-> expected],
      [op |-> "futex_park", obj |-> x, timed |-> timed]>>
FutexWake(x, n) == <<[op |-> "fence", mo |-> "seq_cst"], [op |-> "futex_wake", obj |-> x, n |-> n]>>

futex_compare(t) ==
    /\ Takes(t, "futex_compare")
    /\ Load(t, Ahead(t).obj, "acquire")
    /\ \/ Made = {} /\ UNCHANGED <<pc, reads>>
       \/ \E a \in Made : a.pos \in Ahead(t).expected /\ Done(t) /\ Returns(t, a.pos)
       \/ \E a \in Made :
           /\ a.pos \notin Ahead(t).expected
           /\ pc' = [pc EXCEPT ![t] = @ + 2]
           /\ reads' = [reads EXCEPT ![t] = @ \o <<a.pos, WouldBlock>>]
    /\ UNCHANGED blocking

atomic_wait(t) == Takes(t, "futex_park") /\ Park(t, futex_sync[Ahead(t).obj])

\* The rest of a wake: as many as there are, at most n.
atomic_wake(t) ==
    LET s == futex_sync[Ahead(t).obj]
    IN  /\ Takes(t, "futex_wake")
        /\ \E w \in SUBSET waitset[s] :
            /\ Cardinality(w) = Min({Cardinality(waitset[s]), Ahead(t).n})
            /\ waitset' = [waitset EXCEPT ![s] = @ \ w]
            /\ woken' = woken \cup w
            /\ Returns(t, Cardinality(w))
            /\ IF w = {} THEN UNCHANGED <<acq_rel_order, order>> ELSE sync_release(t, s)
        /\ Done(t)
        /\ UNCHANGED <<notClocks, created>>

WaitsFor(t) == IF Ahead(t).op = "join" THEN Ahead(t).obj ELSE futex_sync[Ahead(t).obj]

\* A thread that was woken goes on.
Continue(t) ==
    /\ MayRun(t)
    /\ t \in woken
    /\ own(t) < MaxClock
    /\ sync_acquire(t, WaitsFor(t))
    /\ woken' = woken \ {t}
    /\ Done(t) /\ Returns(t, Success)
    /\ UNCHANGED <<notClocks, test, phase, special_pc, finished, created, waitset>>

\* A wait with a timeout may time out, and that of a futex be interrupted if
\* another thread can run.  A join acquires all the same.
WaitEnds(t, result) ==
    /\ phase = "threads" /\ t \in Parked /\ AtSched(running)
    /\ own(t) < MaxClock
    /\ \/ result = TimedOut /\ Ahead(t).timed
       \/ /\ result = Interrupted /\ Ahead(t).op = "futex_park"
          /\ created \ (finished \cup Parked) # {}
    /\ running' = t
    /\ waitset' = [waitset EXCEPT ![WaitsFor(t)] = @ \ {t}]
    /\ IF Ahead(t).op = "join" THEN sync_acquire(t, Ahead(t).obj) ELSE UNCHANGED <<acq_rel_order, order>>
    /\ Done(t) /\ Returns(t, result)
    /\ UNCHANGED <<notClocks, test, phase, special_pc, finished, created, woken>>

\* A thread that parks or ends finds that nobody can go on.
Deadlock ==
    /\ phase = "threads" /\ Stuck
    /\ running \in Parked \/ (running \in finished /\ Thread \ created \subseteq finished)
    /\ Fail("deadlock")
    /\ UNCHANGED control

-----------------------------------------------------------------------------
ItNext ==
    /\ test_result = "none"
    /\ \/ Before
       \/ \E t \in Thread :
            \/ on_start(t) \/ ThreadStep(t) \/ on_finish(t)
            \/ create_thread(t) \/ WaitForThread(t)
            \/ futex_compare(t) \/ atomic_wait(t) \/ atomic_wake(t) \/ Continue(t)
            \/ \E result \in {TimedOut, Interrupted} : WaitEnds(t, result)
       \/ Deadlock
       \/ After

ItSpec == ItInit /\ [][ItNext]_allVars

\* The schedulers never let an iteration stop while it can go on.
FairItSpec == ItSpec /\ WF_allVars(ItNext)

-----------------------------------------------------------------------------
(* Properties *)

\* A test without a bug does not fail, whatever the schedule and whatever its
\* relaxed loads read: relacy gives no false alarm, no lost wake of a futex
\* among them.  A test that shows a bug fails with its expected_result.
NoFalseAlarm == test_result \in {"none", test.expected_result}

\* after() sees everything: of each atomic only the last store, and it may
\* touch every plain variable without a race.
AfterSeesEverything ==
    phase = "after" =>
        /\ \A x \in Atomic, mo \in LoadOrder :
               LoadIndices(running, x, mo) = {current_index[x]}
        /\ \A v \in Var : /\ Knows(running, store_timestamp[v])
                          /\ Knows(running, load_timestamp[v])

\* A test whose threads all end is brought to its end.
Completes == <>(phase = "end" \/ test_result # "none")
============================================================================
