---------------------------- MODULE MemoryModel ----------------------------
(***************************************************************************)
(* The simulated memory of one iteration: the vector clocks of the threads *)
(* (thread_info), the last stores of every atomic (atomic_data), the       *)
(* sync_vars of the blocking primitives, and the race check of the plain   *)
(* variables (var_data).  Exactly one fiber runs at a time and every       *)
(* operation below runs without a switch of fibers, so each is one action. *)
(*                                                                         *)
(* The values stored are left out: a position in the modification order    *)
(* stands for the value, and whether a compare-exchange finds the value it *)
(* expects (or fails spuriously) is a free choice.                         *)
(***************************************************************************)
EXTENDS Integers

CONSTANTS
    Thread, NoThread,   \* the threads; thread_id_ -1
    Atomic, Var,        \* the atomics and the plain variables of the test
    SyncVar,            \* the sync_vars
    LoadOrder,          \* the memory orders loads, stores, RMWs and fences
    StoreOrder,         \* of the test use (consume is run as acquire)
    RmwOrder,
    FenceOrder,
    Yielding,           \* the threads that yield
    RandomScheduler,    \* c.is_random_sched()
    MaxClock            \* bound on every thread's own clock

ASSUME ThreadAssumption == NoThread \notin Thread /\ Yielding \subseteq Thread
ASSUME ObjectAssumption == Atomic \cap Var = {}
ASSUME OrderAssumption ==
    /\ LoadOrder \subseteq {"relaxed", "acquire", "seq_cst"}
    /\ StoreOrder \subseteq {"relaxed", "release", "seq_cst"}
    /\ RmwOrder \subseteq {"relaxed", "acquire", "release", "acq_rel", "seq_cst"}
    /\ FenceOrder \subseteq {"acquire", "release", "acq_rel", "seq_cst"}
ASSUME BoundAssumption == MaxClock \in Nat \ {0} /\ RandomScheduler \in BOOLEAN

VARIABLES
    acq_rel_order,          \* acq_rel_order[t][u]: how much of u t knows
    acquire_fence_order,    \* what relaxed loads of t have read
    release_fence_order,    \* t's clock at its last release fence
    last_yield,             \* t's own clock when it last yielded
    seq_cst_fence_order,
    current_index,          \* number of stores to an atomic
    history,                \* history[x][i]: a ring of the last stores to x
    order,                  \* sync_var::order_
    initialized,            \* var::initialized_
    load_timestamp,         \* var_data::load_acq_rel_timestamp_
    store_timestamp,        \* var_data::store_acq_rel_timestamp_
    test_result,
    accesses                \* auxiliary: every access made, never read

threadVars == <<acq_rel_order, acquire_fence_order, release_fence_order, last_yield>>
atomicVars == <<current_index, history>>
plainVars == <<initialized, load_timestamp, store_timestamp>>
vars == <<threadVars, seq_cst_fence_order, atomicVars, order, plainVars,
          test_result, accesses>>

-----------------------------------------------------------------------------
(* Vector clocks *)

Max2(m, n) == IF m < n THEN n ELSE m

\* Mutant: adds where assign_max takes the maximum.
JoinAdds(c, d) == [u \in Thread |-> c[u] + d[u]]

\* assign_max
Join(c, d) == [u \in Thread |-> Max2(c[u], d[u])]

Zero == [u \in Thread |-> 0]

\* own_acq_rel_order_ is a reference to the thread's own entry.
own(t) == acq_rel_order[t][t]
Tick(c, t) == [c EXCEPT ![t] = @ + 1]

\* (timestamp_t)-1 compares as later than every clock.
NotSeen == MaxClock + 1

HistorySize == 3
Slot == 0 .. HistorySize - 1

Acquires(mo) == mo \in {"acquire", "acq_rel", "seq_cst"}
Releases(mo) == mo \in {"release", "acq_rel", "seq_cst"}

\* The accesses known to a thread whose clock is c.
Upto(c) == {a \in accesses : a.stamp <= c[a.thread]}

\* A slot before its first store.  The constructor sets busy_ in the first
\* and the last slot only.
EmptyRecord(busy) ==
    [busy |-> busy, seq_cst |-> FALSE, thread |-> NoThread, timestamp |-> 0,
     order |-> Zero, last_seen |-> Zero]

Init ==
    /\ acq_rel_order = [t \in Thread |-> Tick(Zero, t)]
    /\ acquire_fence_order = [t \in Thread |-> Zero]
    /\ release_fence_order = [t \in Thread |-> Zero]
    /\ last_yield = [t \in Thread |-> 0]
    /\ seq_cst_fence_order = Zero
    /\ current_index = [x \in Atomic |-> 0]
    /\ \E garbage \in [Atomic -> BOOLEAN] :
           history = [x \in Atomic |-> [i \in Slot |->
                          EmptyRecord(IF i = 1 THEN garbage[x] ELSE FALSE)]]
    /\ order = [s \in SyncVar |-> Zero]
    /\ initialized = [v \in Var |-> FALSE]
    /\ load_timestamp = [v \in Var |-> Zero]
    /\ store_timestamp = [v \in Var |-> Zero]
    /\ test_result = "none"
    /\ accesses = {}

\* fail_test ends the iteration.
Fail(result) ==
    /\ test_result' = result
    /\ UNCHANGED <<threadVars, seq_cst_fence_order, atomicVars, order, plainVars, accesses>>

\* An access of t: the store of obj it made or read, its time, whether it is
\* seq_cst, and the clock a store releases.
Log(t, op, obj, pos, stamp, seq_cst, release) ==
    accesses' = accesses \cup
        {[thread |-> t, op |-> op, obj |-> obj, pos |-> pos, stamp |-> stamp,
          seq_cst |-> seq_cst, release |-> release]}

-----------------------------------------------------------------------------
(* atomic_load: relaxed loads may read an older store *)

Rec(x, i) == history[x][i % HistorySize]

\* Mutants: each forgets one of the breaks.
StopsButForYield(t, x, i, mo) ==
    LET rec == Rec(x, i)
    IN  \/ mo = "seq_cst" /\ rec.seq_cst
        \/ acq_rel_order[t][rec.thread] >= rec.timestamp
        \/ \E u \in Thread : acq_rel_order[t][u] >= rec.last_seen[u]
StopsButForOrder(t, x, i, mo) ==
    LET rec == Rec(x, i)
        prev == Rec(x, i - 1)
    IN  \/ prev.busy /\ prev.last_seen[t] <= last_yield[t]
        \/ mo = "seq_cst" /\ rec.seq_cst
        \/ \E u \in Thread : acq_rel_order[t][u] >= rec.last_seen[u]
StopsButForSeen(t, x, i, mo) ==
    LET rec == Rec(x, i)
        prev == Rec(x, i - 1)
    IN  \/ prev.busy /\ prev.last_seen[t] <= last_yield[t]
        \/ mo = "seq_cst" /\ rec.seq_cst
        \/ acq_rel_order[t][rec.thread] >= rec.timestamp

\* The breaks of the loop in get_load_index: t may not look past the i-th
\* store of x.
Stops(t, x, i, mo) ==
    LET rec == Rec(x, i)
        prev == Rec(x, i - 1)
    IN  \/ prev.busy /\ prev.last_seen[t] <= last_yield[t]
        \/ mo = "seq_cst" /\ rec.seq_cst
        \/ acq_rel_order[t][rec.thread] >= rec.timestamp
        \/ \E u \in Thread : acq_rel_order[t][u] >= rec.last_seen[u]

\* Mutant: one slot more than the ring has.
LimitOffByOne == IF RandomScheduler THEN HistorySize ELSE 1

Limit == IF RandomScheduler THEN HistorySize - 1 ELSE 1

\* Where the loop can end: at the last store or, by the choices of rand(2),
\* at an older one that no break above it hides.
LoadIndices(t, x, mo) ==
    {current_index[x] - back : back \in
        {k \in 0 .. Limit : \A j \in 0 .. k - 1 :
            /\ Rec(x, current_index[x] - j).busy
            /\ ~Stops(t, x, current_index[x] - j, mo)}}

\* Mutant: stamps the store instead of the reader's entry.
SeeStampsStore(t, x, i, c) == [history EXCEPT ![x][i % HistorySize].timestamp = c[t]]

\* The part of atomic_load after get_load_index; c is the thread's clock
\* when it reads the i-th store.
See(t, x, i, c) == [history EXCEPT ![x][i % HistorySize].last_seen[t] = c[t]]

\* The stores of the clock vectors by a load of the i-th store: an acquire
\* joins the thread's clock, a relaxed load what an acquire fence will join.
LoadClock(t, x, i, mo) ==
    IF Acquires(mo) THEN Join(Tick(acq_rel_order[t], t), Rec(x, i).order)
                    ELSE Tick(acq_rel_order[t], t)
LoadFence(t, x, i, mo) ==
    IF Acquires(mo) THEN acquire_fence_order
    ELSE [acquire_fence_order EXCEPT ![t] = Join(@, Rec(x, i).order)]

LoadAt(t, x, i, mo) ==
    /\ Rec(x, i).busy
    /\ own(t) < MaxClock
    /\ history' = See(t, x, i, Tick(acq_rel_order[t], t))
    /\ acq_rel_order' = [acq_rel_order EXCEPT ![t] = LoadClock(t, x, i, mo)]
    /\ acquire_fence_order' = LoadFence(t, x, i, mo)
    /\ Log(t, "load", x, i, own(t) + 1, mo = "seq_cst", Zero)
    /\ UNCHANGED <<release_fence_order, last_yield, seq_cst_fence_order,
                   current_index, order, plainVars, test_result>>

Load(t, x, mo) ==
    \E i \in LoadIndices(t, x, mo) :
        IF Rec(x, i).busy THEN LoadAt(t, x, i, mo) ELSE Fail("uninitialized")

-----------------------------------------------------------------------------
(* atomic_store and atomic_rmw *)

\* What a store by t releases when t's clock is c.
Released(t, mo, c) == IF Releases(mo) THEN c ELSE release_fence_order[t]

\* Mutant: a read-modify-write never continues another's release sequence.
RecordBreaks(t, mo, c, prev, rmw) ==
    [busy |-> TRUE, seq_cst |-> mo = "seq_cst", thread |-> t, timestamp |-> c[t],
     order |-> IF prev.busy /\ prev.thread = t
                 THEN Join(prev.order, Released(t, mo, c)) ELSE c,
     last_seen |-> [[u \in Thread |-> NotSeen] EXCEPT ![t] = c[t]]]

\* The record of a store by t, made when its clock is c, after the record
\* prev.  A store that preserves nothing copies the member acq_rel_order_,
\* the thread's whole clock, whatever its memory order.
Record(t, mo, c, prev, rmw) ==
    [busy |-> TRUE, seq_cst |-> mo = "seq_cst", thread |-> t, timestamp |-> c[t],
     order |-> IF prev.busy /\ (rmw \/ prev.thread = t)
                 THEN Join(prev.order, Released(t, mo, c)) ELSE c,
     last_seen |-> [[u \in Thread |-> NotSeen] EXCEPT ![t] = c[t]]]

\* The next store of x, by t whose clock has become c, in the ring h.
Publish(t, x, h, mo, c, rmw) ==
    LET i == current_index[x] + 1
        prev == h[x][current_index[x] % HistorySize]
        rec == Record(t, mo, c, prev, rmw)
    IN  /\ current_index' = [current_index EXCEPT ![x] = i]
        /\ history' = [h EXCEPT ![x][i % HistorySize] = rec]
        /\ acq_rel_order' = [acq_rel_order EXCEPT ![t] = c]
        /\ Log(t, IF rmw THEN "rmw" ELSE "store", x, i, c[t], mo = "seq_cst", Released(t, mo, c))
        /\ UNCHANGED <<release_fence_order, last_yield, seq_cst_fence_order, order,
                       plainVars, test_result>>

Store(t, x, mo) ==
    /\ own(t) < MaxClock
    /\ Publish(t, x, history, mo, Tick(acq_rel_order[t], t), FALSE)
    /\ UNCHANGED acquire_fence_order

\* generic_atomic::initialized_
AtomicInitialized(x) == current_index[x] > 0

\* A load of the last store, then a store after it.
ReadModifyWrite(t, x, mo) ==
    LET i == current_index[x]
        c == LoadClock(t, x, i, mo)
    IN  /\ AtomicInitialized(x)
        /\ own(t) + 1 < MaxClock
        /\ Publish(t, x, See(t, x, i, Tick(acq_rel_order[t], t)), mo, Tick(c, t), TRUE)
        /\ acquire_fence_order' = LoadFence(t, x, i, mo)

\* A compare-exchange that does not exchange loads the last store.
CompareExchangeFails(t, x, mo) ==
    /\ AtomicInitialized(x)
    /\ LoadAt(t, x, current_index[x], mo)

ReadModifyWriteFails(x) == ~AtomicInitialized(x) /\ Fail("uninitialized")

-----------------------------------------------------------------------------
(* Fences *)

atomic_thread_fence_acquire(t) ==
    /\ acq_rel_order' = [acq_rel_order EXCEPT ![t] = Join(@, acquire_fence_order[t])]
    /\ UNCHANGED <<release_fence_order, seq_cst_fence_order>>

atomic_thread_fence_release(t) ==
    /\ release_fence_order' = [release_fence_order EXCEPT ![t] = acq_rel_order[t]]
    /\ UNCHANGED <<acq_rel_order, seq_cst_fence_order>>

atomic_thread_fence_acq_rel(t) ==
    LET c == Join(acq_rel_order[t], acquire_fence_order[t])
    IN  /\ acq_rel_order' = [acq_rel_order EXCEPT ![t] = c]
        /\ release_fence_order' = [release_fence_order EXCEPT ![t] = c]
        /\ UNCHANGED seq_cst_fence_order

\* Mutant: joins no earlier seq_cst fence.
FenceJoinsNone(t) ==
    LET c == Join(acq_rel_order[t], acquire_fence_order[t])
    IN  /\ acq_rel_order' = [acq_rel_order EXCEPT ![t] = c]
        /\ seq_cst_fence_order' = c
        /\ release_fence_order' = [release_fence_order EXCEPT ![t] = c]

atomic_thread_fence_seq_cst(t) ==
    LET c == Join(Join(acq_rel_order[t], acquire_fence_order[t]), seq_cst_fence_order)
    IN  /\ acq_rel_order' = [acq_rel_order EXCEPT ![t] = c]
        /\ seq_cst_fence_order' = c
        /\ release_fence_order' = [release_fence_order EXCEPT ![t] = c]

Fence(t, mo) ==
    /\ CASE mo = "acquire" -> atomic_thread_fence_acquire(t)
         [] mo = "release" -> atomic_thread_fence_release(t)
         [] mo = "acq_rel" -> atomic_thread_fence_acq_rel(t)
         [] mo = "seq_cst" -> atomic_thread_fence_seq_cst(t)
    /\ UNCHANGED <<acquire_fence_order, last_yield, atomicVars, order, plainVars,
                   test_result, accesses>>

\* Mutant: raises the threads' own entries only.
GlobalFenceOwnOnly ==
    /\ \E max \in {own(t) : t \in Thread} :
        /\ \A t \in Thread : own(t) <= max
        /\ acq_rel_order' = [t \in Thread |-> [acq_rel_order[t] EXCEPT ![t] = max]]
    /\ UNCHANGED <<acquire_fence_order, release_fence_order, last_yield,
                   seq_cst_fence_order, atomicVars, order, plainVars, test_result, accesses>>

\* Every entry of every clock becomes the greatest of the threads' own clocks.
rl_global_fence ==
    /\ \E max \in {own(t) : t \in Thread} :
        /\ \A t \in Thread : own(t) <= max
        /\ acq_rel_order' = [t \in Thread |-> [u \in Thread |-> max]]
    /\ UNCHANGED <<acquire_fence_order, release_fence_order, last_yield,
                   seq_cst_fence_order, atomicVars, order, plainVars, test_result, accesses>>

-----------------------------------------------------------------------------
(* sync_var, var_data, and the scheduler's note of a yield *)

sync_acquire(t, s) ==
    /\ acq_rel_order' = [acq_rel_order EXCEPT ![t] = Join(Tick(@, t), order[s])]
    /\ UNCHANGED order

\* Mutant: counts its step in what it publishes only.
SyncReleaseForgetsStep(t, s) ==
    /\ order' = [order EXCEPT ![s] = Join(@, Tick(acq_rel_order[t], t))]
    /\ UNCHANGED acq_rel_order

sync_release(t, s) ==
    /\ acq_rel_order' = [acq_rel_order EXCEPT ![t] = Tick(@, t)]
    /\ order' = [order EXCEPT ![s] = Join(@, Tick(acq_rel_order[t], t))]

sync_acq_rel(t, s) ==
    LET c == Join(Tick(acq_rel_order[t], t), order[s])
    IN  /\ acq_rel_order' = [acq_rel_order EXCEPT ![t] = c]
        /\ order' = [order EXCEPT ![s] = Join(@, c)]

Synchronize(t, s) ==
    /\ own(t) < MaxClock
    /\ sync_acquire(t, s) \/ sync_release(t, s) \/ sync_acq_rel(t, s)
    /\ UNCHANGED <<acquire_fence_order, release_fence_order, last_yield,
                   seq_cst_fence_order, atomicVars, plainVars, test_result, accesses>>

\* Mutant: accepts a conflicting access one step too new.
KnowsAlmost(t, timestamp) == \A u \in Thread : acq_rel_order[t][u] + 1 >= timestamp[u]

\* var_data::load and store fail unless the thread knows the last conflicting
\* access of every thread.
Knows(t, timestamp) == \A u \in Thread : acq_rel_order[t][u] >= timestamp[u]

\* Mutant: notes the load with the thread's clock before its step.
VarLoadStampsEarly(t, v) ==
    /\ initialized[v] /\ Knows(t, store_timestamp[v])
    /\ own(t) < MaxClock
    /\ acq_rel_order' = [acq_rel_order EXCEPT ![t] = Tick(@, t)]
    /\ load_timestamp' = [load_timestamp EXCEPT ![v][t] = own(t)]
    /\ Log(t, "plain_load", v, 0, own(t) + 1, FALSE, Zero)
    /\ UNCHANGED <<acquire_fence_order, release_fence_order, last_yield,
                   seq_cst_fence_order, atomicVars, order, initialized,
                   store_timestamp, test_result>>

VarLoad(t, v) ==
    /\ initialized[v] /\ Knows(t, store_timestamp[v])
    /\ own(t) < MaxClock
    /\ acq_rel_order' = [acq_rel_order EXCEPT ![t] = Tick(@, t)]
    /\ load_timestamp' = [load_timestamp EXCEPT ![v][t] = own(t) + 1]
    /\ Log(t, "plain_load", v, 0, own(t) + 1, FALSE, Zero)
    /\ UNCHANGED <<acquire_fence_order, release_fence_order, last_yield,
                   seq_cst_fence_order, atomicVars, order, initialized,
                   store_timestamp, test_result>>

\* The first store calls var_data::init, which checks nothing.
VarStore(t, v) ==
    /\ initialized[v] => Knows(t, store_timestamp[v]) /\ Knows(t, load_timestamp[v])
    /\ own(t) < MaxClock
    /\ acq_rel_order' = [acq_rel_order EXCEPT ![t] = Tick(@, t)]
    /\ initialized' = [initialized EXCEPT ![v] = TRUE]
    /\ store_timestamp' = [store_timestamp EXCEPT ![v][t] = own(t) + 1]
    /\ Log(t, "plain_store", v, 0, own(t) + 1, FALSE, Zero)
    /\ UNCHANGED <<acquire_fence_order, release_fence_order, last_yield,
                   seq_cst_fence_order, atomicVars, order, load_timestamp, test_result>>

VarLoadFails(t, v) ==
    \/ ~initialized[v] /\ Fail("uninitialized")
    \/ initialized[v] /\ ~Knows(t, store_timestamp[v]) /\ Fail("race")

VarStoreFails(t, v) ==
    /\ initialized[v]
    /\ ~Knows(t, store_timestamp[v]) \/ ~Knows(t, load_timestamp[v])
    /\ Fail("race")

\* context_impl::schedule notes a yield of the running thread.
Yield(t) ==
    /\ last_yield' = [last_yield EXCEPT ![t] = own(t)]
    /\ UNCHANGED <<acq_rel_order, acquire_fence_order, release_fence_order,
                   seq_cst_fence_order, atomicVars, order, plainVars, test_result, accesses>>

-----------------------------------------------------------------------------
Step(t) ==
    \/ \E x \in Atomic :
        \/ \E mo \in LoadOrder : Load(t, x, mo) \/ CompareExchangeFails(t, x, mo)
        \/ \E mo \in StoreOrder : Store(t, x, mo)
        \/ \E mo \in RmwOrder : ReadModifyWrite(t, x, mo)
        \/ ReadModifyWriteFails(x)
    \/ \E mo \in FenceOrder : Fence(t, mo)
    \/ \E s \in SyncVar : Synchronize(t, s)
    \/ \E v \in Var : 
           \/ VarLoad(t, v) \/ VarLoadFails(t, v) \/ VarStore(t, v) \/ VarStoreFails(t, v)
    \/ t \in Yielding /\ Yield(t)

Next == test_result = "none" /\ (rl_global_fence \/ \E t \in Thread : Step(t))

Spec == Init /\ [][Next]_vars

-----------------------------------------------------------------------------
(* Properties *)

Clock == [Thread -> 0 .. MaxClock]

AccessRecord ==
    [thread : Thread, op : {"load", "store", "rmw", "plain_load", "plain_store"},
     obj : Atomic \cup Var, pos : Int, stamp : 1 .. MaxClock, seq_cst : BOOLEAN,
     release : Clock]

HistoryRecord ==
    [busy : BOOLEAN, seq_cst : BOOLEAN, thread : Thread \cup {NoThread},
     timestamp : 0 .. MaxClock, order : Clock, last_seen : [Thread -> 0 .. NotSeen]]

\* Those of the results of an iteration that the memory, a test's assertions
\* and its threads waiting for one another may give.
TestResult ==
    {"none", "race", "uninitialized", "assert", "until_condition_hit", "deadlock"}

\* Every variable has its type, the clocks within their bound.
TypeOK ==
    /\ acq_rel_order \in [Thread -> Clock]
    /\ acquire_fence_order \in [Thread -> Clock]
    /\ release_fence_order \in [Thread -> Clock]
    /\ last_yield \in [Thread -> 0 .. MaxClock]
    /\ seq_cst_fence_order \in Clock
    /\ current_index \in [Atomic -> Nat]
    /\ history \in [Atomic -> [Slot -> HistoryRecord]]
    /\ order \in [SyncVar -> Clock]
    /\ initialized \in [Var -> BOOLEAN]
    /\ load_timestamp \in [Var -> Clock]
    /\ store_timestamp \in [Var -> Clock]
    /\ test_result \in TestResult
    /\ accesses \subseteq AccessRecord

\* c claims of no thread more than it has done.
Past(c) == \A u \in Thread : c[u] <= own(u)

\* No clock, wherever it is kept, claims more of a thread than the thread
\* has done: the next access of a thread is always news to all others.
NoKnowledgeOfTheFuture ==
    /\ \A t \in Thread : /\ Past(acq_rel_order[t])
                         /\ Past(acquire_fence_order[t])
                         /\ Past(release_fence_order[t])
                         /\ last_yield[t] <= own(t)
    /\ Past(seq_cst_fence_order)
    /\ \A x \in Atomic, i \in Slot : Past(history[x][i].order)
    /\ \A s \in SyncVar : Past(order[s])
    /\ \A v \in Var : Past(load_timestamp[v]) /\ Past(store_timestamp[v])
    /\ \A a \in accesses : a.stamp <= own(a.thread)

Stores(x) == {b \in accesses : b.obj = x /\ b.op \in {"store", "rmw"}}
Accesses(v, op) == {b \in accesses : b.obj = v /\ b.op = op}

\* The n stores of an atomic have the positions 1 .. n, and the ring holds the
\* last of them, each in the slot of its position.
HoldsTheLast(stores, n, ring) ==
    \A b \in stores : /\ b.pos \in 1 .. n
                      /\ b.pos > n - HistorySize =>
                             /\ ring[b.pos % HistorySize].thread = b.thread
                             /\ ring[b.pos % HistorySize].timestamp = b.stamp

\* Of the slots a load can reach, those of a store are in use and those of none
\* are not.
UsedSlots(stores, n, ring) ==
    \A k \in 0 .. HistorySize - 1 :
        /\ n - k > 0 => /\ ring[(n - k) % HistorySize].busy
                        /\ \E b \in stores : b.pos = n - k
        /\ n - k \in {-1, 0} => /\ ~ring[(n - k) % HistorySize].busy
                                /\ ring[(n - k) % HistorySize].thread = NoThread

\* The ring buffer of every atomic holds its last stores and nothing else.
RingHoldsTheLastStores ==
    \A x \in Atomic : /\ HoldsTheLast(Stores(x), current_index[x], history[x])
                      /\ UsedSlots(Stores(x), current_index[x], history[x])

\* The timestamps of a plain variable are those of the last load and the last
\* store of every thread, and none of either precedes its first store.
TimestampsAreOfTheLastAccesses ==
    \A v \in Var :
        /\ \A b \in Accesses(v, "plain_load") : b.stamp <= load_timestamp[v][b.thread]
        /\ \A b \in Accesses(v, "plain_store") : b.stamp <= store_timestamp[v][b.thread]
        /\ \A u \in Thread :
            /\ load_timestamp[v][u] > 0 => \E b \in Accesses(v, "plain_load") :
                   b.thread = u /\ b.stamp = load_timestamp[v][u]
            /\ store_timestamp[v][u] > 0 => \E b \in Accesses(v, "plain_store") :
                   b.thread = u /\ b.stamp = store_timestamp[v][u]
        /\ ~initialized[v] => \A b \in accesses : b.obj # v

-----------------------------------------------------------------------------
(* The refinement mapping: a clock stands for the accesses it covers. *)

known == [t \in Thread |-> Upto(acq_rel_order[t])]
acquirable == [t \in Thread |-> Upto(acquire_fence_order[t])]
released == [t \in Thread |-> Upto(release_fence_order[t])]
fenced == Upto(seq_cst_fence_order)
latest == [x \in Atomic |-> current_index[x] % HistorySize]
writer == [x \in Atomic |-> [i \in Slot |-> history[x][i].thread]]
carried == [x \in Atomic |-> [i \in Slot |-> Upto(history[x][i].order)]]
published == [s \in SyncVar |-> Upto(order[s])]

HB == INSTANCE HappensBefore WITH Index <- Slot, FirstIndex <- 0, verdict <- test_result

\* The vector clocks implement the sets of known accesses: the race check
\* reports a race exactly when a conflicting access is not ordered before.
ImplementsHappensBefore == HB!Spec

-----------------------------------------------------------------------------
(* What loads may read *)

Made == accesses' \ accesses

\* No load, by any choice of the scheduler, reads a slot that was never
\* written or that a later store has taken over.
ReadsAreOfStores ==
    [][\A a \in Made : a.op = "load" =>
        \E b \in Stores(a.obj) : /\ b.pos = a.pos
                                 /\ b.thread = Rec(a.obj, a.pos).thread
                                 /\ b.stamp = Rec(a.obj, a.pos).timestamp]_vars

\* A load never reads a store older than one that happens before the load,
\* and a seq_cst load none older than the last seq_cst store.
NoStaleRead ==
    [][\A a \in Made : a.op = "load" =>
        \A b \in Stores(a.obj) :
            b \in Upto(acq_rel_order[a.thread]) \/ (a.seq_cst /\ b.seq_cst)
                => b.pos <= a.pos]_vars

\* A thread never goes back to a store older than one it has read or made.
OwnReadsAdvance ==
    [][\A a \in Made : a.op = "load" =>
        \A b \in accesses :
            b.thread = a.thread /\ b.obj = a.obj => b.pos <= a.pos]_vars

\* When a thread has read something, yielded, and newer stores are there, it
\* does not read the same again: a loop that waits for a store and yields
\* does not wait for ever.
YieldMakesProgress ==
    [][\A a \in Made : a.op = "load" /\ a.pos < current_index[a.obj] =>
        \A b \in accesses :
            b.thread = a.thread /\ b.obj = a.obj /\ b.pos = a.pos
                => \E c \in accesses : /\ c.thread = a.thread /\ c.obj = a.obj
                                       /\ c.pos = a.pos /\ c.stamp > last_yield[a.thread]]_vars

\* The stores whose release sequences (ISO C++0x) the last store of x
\* belongs to: later stores are by the same thread or read-modify-writes.
Heads(x) ==
    {h \in Stores(x) : \A b \in Stores(x) :
        b.pos > h.pos => b.thread = h.thread \/ b.op = "rmw"}

\* ISO C++0x: an acquire of the last store synchronises with the heads of
\* all its release sequences...
ReleaseSequencesAreCarried ==
    \A x \in Atomic : \A h \in Heads(x), u \in Thread :
        h.release[u] <= Rec(x, current_index[x]).order[u]

\* ... and with nothing else.
OnlyReleaseSequencesAreCarried ==
    \A x \in Atomic, u \in Thread :
        Rec(x, current_index[x]).order[u] > 0 =>
            \E h \in Heads(x) : h.release[u] >= Rec(x, current_index[x]).order[u]
============================================================================
