------------------------------- MODULE Context -------------------------------
(***************************************************************************)
(* A context of a test, context_impl: the iterations one after the other,  *)
(* each with its before, its threads and its after, the fibers they run    *)
(* on, the heap, the simulated objects and the thread local storage they   *)
(* use, the checks for leaks; and the second context that runs a failed    *)
(* iteration again.  Heap, Fibers, Slabs and ThreadLocal have the parts.   *)
(***************************************************************************)
EXTENDS Heap, Fibers, Slabs, FiniteSets

CONSTANTS
    Tests,          \* the tests: threads, programs, and what else they use, and
                    \* max_uses, the bound of how often
    Kind,           \* the kinds of simulated objects with init and deinit
    Variable,       \* the thread local variables
    Global,         \* those of them that are not members of the test
    Value,          \* what is stored in them
    SlotSize,       \* the size of one that TlsAlloc makes
    WordSize,       \* the number of values of size_t
    MaxIterations   \* the bound of iterations

INSTANCE ThreadLocal

ASSUME ContextAssumption ==
    /\ \A x \in Tests :
        /\ x.threads \subseteq Thread /\ x.threads \ Dynamic # {}
        /\ x.programs \subseteq Operations /\ x.results \cap {"none", "verify"} = {}
        /\ x.limit \in Nat /\ x.invariant \in Nat /\ x.max_uses \in Nat
    /\ Global \subseteq Variable /\ Variable \cap Block = {}
    /\ WordSize \in Nat /\ SlotSize \in Size /\ Size \subseteq 0 .. WordSize - 1
    /\ "var" \notin Kind /\ None \notin Nat
    /\ MaxIterations \in Nat \ {0}

VARIABLES
    test,       \* the test, one of Tests
    stage,      \* how far it is
    fibers,     \* the fibers of Fibers
    objects,    \* the simulated objects
    tls,        \* thread local storage
    twin        \* auxiliary: the heap a replay of the iteration has

vars == <<test, stage, fibers, memory_, rest, objects, tls, twin>>

(***************************************************************************)
(* stage     run: the first context, or the second of a failed test;       *)
(*           iter; phase: "main" between iterations, "before", "threads",  *)
(*           "done"; uses: counted for the bound                             *)
(* objects   slab: of the kinds and of vars; impl: of the wrappers, by     *)
(*           their kind, None for 0; owned: whether a thread owns it;      *)
(*           elements: of the array of vars in a block                     *)
(* tls       entries; var: the variables, also those in blocks, and        *)
(*           slots: such blocks; last: auxiliary, what each thread has     *)
(*           stored in this iteration                                      *)
(* twin      memory: a heap that was new when the iteration began, and     *)
(*           has had the same calls; partner: the block it has for one of  *)
(*           the test; same: every such pair; hash: context_addr_hash, and *)
(*           twin_hash: the same of the twin, both as the sequence of the  *)
(*           addresses hashed; old: the ring has given back a block of an  *)
(*           earlier iteration                                             *)
(***************************************************************************)
NewTwin ==
    [memory |-> NewHeap, partner |-> [b \in Block |-> None], same |-> {},
     hash |-> <<>>, twin_hash |-> <<>>, old |-> FALSE]

NewObjects ==
    [slab |-> [k \in Kind \cup {"var"} |-> NewSlab], impl |-> [k \in Kind |-> None],
     owned |-> {}, elements |-> [b \in Block |-> <<>>]]

NewTls ==
    [entries |-> <<>>, var |-> [v \in Variable \cup Block |-> NewVariable], slots |-> {},
     last |-> [v \in Variable \cup Block |-> [t \in Thread |-> 0]]]

-----------------------------------------------------------------------------
(* Iterations *)

\* iteration, thread_info::iteration_begin and the scheduler's
FibersBegin(f) ==
    [f EXCEPT !.first_thread = TRUE, !.disabled = 0, !.sched_count = 0,
              !.from = [t \in Thread |-> Main], !.saved = [t \in Thread |-> -1],
              !.state = [t \in Thread |-> IF t \notin test.threads THEN "finished"
                                          ELSE IF t \in Dynamic THEN "none" ELSE "ready"]]

\* The members of the test are constructed anew with it.
TlsBegin(s) ==
    [s EXCEPT !.entries = ZeroValues(@),
              !.var = [v \in DOMAIN @ |-> IF v \in Global THEN @[v] ELSE NewVariable],
              !.slots = {},
              !.last = [v \in DOMAIN @ |-> [t \in Thread |-> 0]]]

\* The thread t goes first: it constructs the test and runs its before.
BeginIteration ==
    /\ stage.phase = "main"
    /\ stage' = [stage EXCEPT !.phase = "before", !.uses = 0]
    /\ \E t \in test.threads \ Dynamic :
        fibers' = [SwitchTo(FibersBegin(fibers), t) EXCEPT !.first_thread = FALSE, !.special = TRUE]
    /\ tls' = TlsBegin(tls)
    /\ twin' = NewTwin
    /\ UNCHANGED <<test, memory_, rest, objects>>

Running == fibers.running
Runs(phase) == fibers.outcome = "none" /\ stage.phase = phase

InTest == Runs("threads") /\ ~fibers.special
InAfter == Runs("threads") /\ fibers.special
AtRest == InTest /\ fibers.code[Running] = <<>>

\* An operation of the test's before or after is a step and no switch.
BeforeOrAfter ==
    /\ Runs("before") \/ InAfter
    /\ AtomicOperation \in test.programs
    /\ fibers' \in DoSched(fibers, Running)
    /\ UNCHANGED <<test, stage, memory_, rest, objects, tls, twin>>

\* The invariant is run for the first time, and the thread begins.
BeforeEnds ==
    /\ Runs("before")
    /\ stage' = [stage EXCEPT !.phase = "threads"]
    /\ fibers' = LET f == Invariant(fibers)
                 IN  IF f.outcome # "none" THEN f ELSE [Started(f, Running) EXCEPT !.special = FALSE]
    /\ UNCHANGED <<test, memory_, rest, objects, tls, twin>>

\* The running thread begins an operation, creates a thread or ends.
Operate ==
    /\ AtRest
    /\ \E p \in test.programs :
        /\ p = CreateThread => \E u \in Dynamic : fibers.state[u] = "none"
        /\ fibers' \in Call([fibers EXCEPT !.code[Running] = p], Running)
    /\ UNCHANGED <<test, stage, memory_, rest, objects, tls, twin>>

\* It goes on with its operation.
GoOn ==
    /\ InTest
    /\ fibers.code[Running] # <<>>
    /\ fibers' \in Call(fibers, Running)
    /\ UNCHANGED <<test, stage, memory_, rest, objects, tls, twin>>

\* RL_ASSERT, in the invariant or elsewhere, and rl_until.
EndTest ==
    /\ AtRest
    /\ \E result \in test.results : fibers' = Fail(fibers, result)
    /\ UNCHANGED <<test, stage, memory_, rest, objects, tls, twin>>

\* The checks of the end of an iteration, by the data of the objects.
NothingLeaks(s) == \A k \in DOMAIN s.slab : NothingAllocated(s.slab[k])

\* After the after, the destructor of the test: what it has left behind.
AfterThreads(f) ==
    IF ~iteration_end(memory_) THEN Fail(f, "memory_leak")
    ELSE IF ~NothingLeaks(objects) THEN Fail(f, "resource_leak")
    ELSE [f EXCEPT !.special = FALSE, !.at[f.running] = "top", !.running = Main]

\* The next iteration, or success.
EndIteration ==
    /\ InAfter
    /\ fibers' = AfterThreads(fibers)
    /\ stage' = IF fibers'.outcome # "none" THEN stage
                ELSE IF stage.run = 2 \/ stage.iter = MaxIterations THEN [stage EXCEPT !.phase = "done"]
                ELSE [stage EXCEPT !.phase = "main", !.iter = @ + 1]
    /\ UNCHANGED <<test, memory_, rest, objects, tls, twin>>

\* The iteration that has failed is run again, in a new context.  Global
\* variables are what they were.
RunAgain ==
    /\ fibers.outcome \notin {"none", "verify"}
    /\ stage.run = 1
    /\ stage' = [stage EXCEPT !.run = 2, !.phase = "main", !.uses = 0]
    /\ fibers' = NewFibers(test.limit, test.invariant)
    /\ NewContext
    /\ objects' = NewObjects
    /\ tls' = [NewTls EXCEPT !.var = [v \in DOMAIN @ |-> IF v \in Global THEN tls.var[v] ELSE @[v]]]
    /\ twin' = NewTwin
    /\ UNCHANGED test

-----------------------------------------------------------------------------
(* The heap *)

\* The running thread uses what the test is about.
Use(what) ==
    /\ AtRest
    /\ what \in test.uses
    /\ stage.uses < test.max_uses
    /\ stage' = [stage EXCEPT !.uses = @ + 1]
    /\ UNCHANGED test

Fails(result) ==
    fibers' = Fail(fibers, result) /\ UNCHANGED <<memory_, rest, objects, tls, twin>>

\* The same call to the twin.
TwinAlloc(w, size) ==
    LET p == NextBlock(memory_, size)
        q == NextBlock(w.memory, size)
    IN  [w EXCEPT !.memory = alloc(@, size), !.partner[p] = q, !.same = @ \cup {<<p, q>>}]

TwinFree(w, h, p, defer) ==
    LET given_back == Defer(h, p).deferred_free[NextSlot(h)]
    IN  [w EXCEPT !.memory = free(@, w.partner[p], defer),
                  !.old = @ \/ (defer /\ given_back \notin {None, p} \cup {s[1] : s \in w.same})]

\* The block the next alloc of the test returns, and whether there is one.
CanGet(size) == CanAlloc(memory_, size) /\ CanAlloc(twin.memory, size)

\* operator new, malloc, calloc
New ==
    /\ Use("heap")
    /\ \E size \in Size :
        CanGet(size) /\ Alloc(size) /\ twin' = TwinAlloc(twin, size)
    /\ UNCHANGED <<fibers, objects, tls>>

\* operator delete, free: the scheduler chooses whether the free is deferred.
Delete ==
    /\ Use("heap")
    /\ \E p \in Block :
        /\ objects.elements[p] = <<>> /\ p \notin tls.slots
        /\ \/ \E defer \in BOOLEAN :
                /\ Free(p, defer)
                /\ twin' = TwinFree(twin, memory_, p, defer)
                /\ UNCHANGED <<fibers, objects, tls>>
           \/ /\ p \notin memory_.allocs /\ ~IsNew(memory_, p)
              /\ Fails("double_free")

\* realloc, to a size that is not 0 (to 0 it is a free), of a block handed out in
\* this iteration.  The new block is there before the old one is freed: one that
\* was free already may be the one that realloc gets, and is otherwise not freed.
Realloc ==
    /\ Use("addresses")
    /\ \E p \in Block, size \in Size \ {0} :
        /\ p \in {s[1] : s \in twin.same} /\ objects.elements[p] = <<>> /\ p \notin tls.slots
        /\ CanGet(size)
        /\ \/ \E defer \in BOOLEAN :
                /\ AllocAndFree(size, p, defer)
                /\ twin' = TwinFree(TwinAlloc(twin, size), alloc(memory_, size), p, defer)
                /\ UNCHANGED fibers
           \/ /\ p \notin alloc(memory_, size).allocs
              /\ Alloc(size)
              /\ twin' = TwinAlloc(twin, size)
              /\ fibers' = Fail(fibers, "double_free")
    /\ UNCHANGED <<objects, tls>>

\* get_addr_hash: addresses are numbered in the order in which they are hashed.
HashPtr ==
    /\ Use("addresses")
    /\ \E p \in memory_.allocs \ ToSet(twin.hash) :
        twin' = [twin EXCEPT !.hash = Append(@, p),
                             !.twin_hash = IF twin.partner[p] \in ToSet(@) THEN @
                                           ELSE Append(@, twin.partner[p])]
    /\ UNCHANGED <<fibers, memory_, rest, objects, tls>>

-----------------------------------------------------------------------------
(* Simulated objects *)

\* Objects are constructed and destroyed by the thread that runs.
Construct(s, k) == [s EXCEPT !.slab[k] = SlabAlloc(@)]
Destroy(s, k, p) == [s EXCEPT !.slab[k] = SlabFree(@, p)]

\* Mutant: the first element is not destroyed.
UnwindToFirst(i, count) == [j \in 1 .. IF i = 0 THEN 0 ELSE i - 1 |-> i - j]

\* The elements that new_arr_impl destroys, by number, when the constructor of
\* the i-th has thrown: i is a size_t, and the loop ends after it wraps.
Unwind(i, count) ==
    LET from[n \in 0 .. WordSize - 1] ==
            IF n < count THEN <<n>> \o from[(n - 1 + WordSize) % WordSize] ELSE <<>>
    IN  from[(i - 1 + WordSize) % WordSize]

\* n vars: the objects after it, and their elements.
ConstructVars(s, n) ==
    LET after[i \in 0 .. n] ==
            IF i = 0 THEN [objects |-> s, made |-> <<>>]
            ELSE [objects |-> Construct(after[i - 1].objects, "var"),
                  made |-> Append(after[i - 1].made, NextElement(after[i - 1].objects.slab["var"]))]
    IN  after[n]

DestroyVars(s, vars_) ==
    LET after[i \in 0 .. Len(vars_)] ==
            IF i = 0 THEN s ELSE Destroy(after[i - 1], "var", vars_[i])
    IN  after[Len(vars_)]

\* new_arr_impl of vars: an array of n has the size n, which stands for
\* alignment + n * sizeof.
NewArray ==
    /\ Use("arrays")
    /\ \E n \in Size :
        /\ CanGet(n)
        /\ Alloc(n)
        /\ twin' = TwinAlloc(twin, n)
        /\ LET r == ConstructVars(objects, n)
           IN  objects' = [r.objects EXCEPT !.elements[NextBlock(memory_, n)] = r.made]
    /\ UNCHANGED <<fibers, tls>>

\* The constructor of the element i throws.
NewArrayThrows ==
    /\ Use("arrays")
    /\ \E n \in Size, p \in Block, defer \in BOOLEAN : \E i \in 0 .. n - 1 :
        LET r == ConstructVars(objects, i)
            unwound == [k \in DOMAIN Unwind(i, n) |-> r.made[Unwind(i, n)[k] + 1]]
        IN  /\ CanGet(n) /\ p = NextBlock(memory_, n)
            /\ AllocAndFree(n, p, defer)
            /\ twin' = TwinFree(TwinAlloc(twin, n), alloc(memory_, n), p, defer)
            /\ objects' = DestroyVars(r.objects, unwound)
    /\ UNCHANGED <<fibers, tls>>

\* delete_arr_impl
DeleteArray ==
    /\ Use("arrays")
    /\ \E p \in Block, defer \in BOOLEAN :
        /\ objects.elements[p] # <<>>
        /\ Free(p, defer)
        /\ twin' = TwinFree(twin, memory_, p, defer)
        /\ objects' = [DestroyVars(objects, objects.elements[p]) EXCEPT !.elements[p] = <<>>]
    /\ UNCHANGED <<fibers, tls>>

\* init of a wrapper
InitObject ==
    /\ Use("objects")
    /\ \E k \in Kind :
        IF objects.impl[k] # None THEN Fails("double_initialization")
        ELSE /\ objects' = [Construct(objects, k) EXCEPT !.impl[k] = NextElement(objects.slab[k])]
             /\ UNCHANGED <<fibers, memory_, rest, tls, twin>>

\* deinit, with the destructor of the data.
DeinitObject ==
    /\ Use("objects")
    /\ \E k \in Kind :
        IF objects.impl[k] = None THEN Fails("usage_of_non_initialized")
        ELSE IF k \in objects.owned THEN Fails("destroying_owned_mutex")
        ELSE /\ objects' = [Destroy(objects, k, objects.impl[k]) EXCEPT !.impl[k] = None]
             /\ UNCHANGED <<fibers, memory_, rest, tls, twin>>

\* lock and unlock of a mutex nobody else wants.
UseMutex ==
    /\ Use("objects")
    /\ \E k \in Kind \cap {"mutex"} :
        IF objects.impl[k] = None THEN Fails("usage_of_non_initialized")
        ELSE /\ objects' = [objects EXCEPT !.owned = IF k \in @ THEN @ \ {k} ELSE @ \cup {k}]
             /\ UNCHANGED <<fibers, memory_, rest, tls, twin>>

-----------------------------------------------------------------------------
(* Thread local storage *)

ctx_seq == stage.run

\* The variables there are.
Reachable == Variable \cup tls.slots

\* thread_local_var::set
TlsSet ==
    /\ Use("tls")
    /\ \E v \in Reachable, x \in Value :
        LET e == WithEntry(tls.entries, tls.var[v], ctx_seq)
            w == Entered(tls.entries, tls.var[v], ctx_seq)
        IN  IF ~IsEntry(e, w.index)
              THEN fibers' = [fibers EXCEPT !.outcome = "verify"] /\ UNCHANGED tls
              ELSE /\ tls' = [tls EXCEPT !.entries = thread_local_set(e, w.index, Running, x),
                                         !.var[v] = w, !.last[v][Running] = x]
                   /\ UNCHANGED fibers
    /\ UNCHANGED <<memory_, rest, objects, twin>>

\* thread_local_var::get
TlsGet ==
    /\ Use("tls")
    /\ \E v \in Reachable :
        LET e == WithEntry(tls.entries, tls.var[v], ctx_seq)
            w == Entered(tls.entries, tls.var[v], ctx_seq)
        IN  IF ~IsEntry(e, w.index)
              THEN fibers' = [fibers EXCEPT !.outcome = "verify"] /\ UNCHANGED tls
              ELSE tls' = [tls EXCEPT !.entries = e, !.var[v] = w] /\ UNCHANGED fibers
    /\ UNCHANGED <<memory_, rest, objects, twin>>

\* rl_TlsAlloc: the slot is a variable in a block of the heap.
TlsAlloc ==
    /\ Use("slots")
    /\ CanGet(SlotSize)
    /\ Alloc(SlotSize)
    /\ twin' = TwinAlloc(twin, SlotSize)
    /\ LET p == NextBlock(memory_, SlotSize)
       IN  tls' = [tls EXCEPT !.slots = @ \cup {p}, !.var[p] = NewVariable,
                              !.last[p] = [t \in Thread |-> 0]]
    /\ UNCHANGED <<fibers, objects>>

\* rl_TlsFree: its entry stays.
TlsFree ==
    /\ Use("slots")
    /\ \E p \in Block, defer \in BOOLEAN :
        /\ p \in tls.slots
        /\ Free(p, defer)
        /\ twin' = TwinFree(twin, memory_, p, defer)
        /\ tls' = [tls EXCEPT !.slots = @ \ {p}]
    /\ UNCHANGED <<fibers, objects>>

-----------------------------------------------------------------------------
Init ==
    /\ test \in Tests
    /\ stage = [run |-> 1, iter |-> 1, phase |-> "main", uses |-> 0]
    /\ fibers = NewFibers(test.limit, test.invariant)
    /\ HeapInit
    /\ objects = NewObjects
    /\ tls = NewTls
    /\ twin = NewTwin

Next ==
    \/ BeginIteration \/ BeforeOrAfter \/ BeforeEnds \/ Operate \/ GoOn \/ EndTest
    \/ EndIteration \/ RunAgain
    \/ New \/ Delete \/ Realloc \/ HashPtr
    \/ NewArray \/ NewArrayThrows \/ DeleteArray \/ InitObject \/ DeinitObject \/ UseMutex
    \/ TlsSet \/ TlsGet \/ TlsAlloc \/ TlsFree

\* All that a thread of the test does passes through the context.  Heap, objects
\* and thread local variables do not ask it for a step: a thread may go on with
\* them for ever.  Nor does a join or a try_wait on a thread that has finished, or
\* a try_wait on one that has not: these return at once, without a call of the
\* context, and are no program of Fibers.  A join with a timeout parks, and asks
\* for no step either: programs have Join(FALSE) where the end is claimed.
OnlySteps == test.uses = {}

\* The one real thread goes on as long as there is something to do.
Spec == Init /\ [][Next]_vars /\ WF_vars(OnlySteps /\ Next)

-----------------------------------------------------------------------------
(* Properties *)

TypeOK ==
    /\ test \in Tests
    /\ stage \in [run : 1 .. 2, iter : 1 .. MaxIterations,
                  phase : {"main", "before", "threads", "done"}, uses : 0 .. test.max_uses]
    /\ fibers.running \in Thread \cup {Main}
    /\ fibers.disabled \in Nat /\ fibers.sched_count \in 0 .. fibers.limit + 1
    /\ \A t \in Thread :
        /\ fibers.at[t] \in {"top", "test", "schedule", "park", "unpark", "switch_back"}
        /\ fibers.state[t] \in {"none", "ready", "parked", "finished"}
        /\ fibers.from[t] \in Thread \cup {Main} /\ fibers.saved[t] \in Nat \cup {-1}
    /\ memory_.allocs \subseteq Block /\ rest \in [Block -> Slot]
    /\ objects.impl \in [Kind -> Nat \cup {None}] /\ objects.owned \subseteq Kind
    /\ tls.slots \subseteq Block
    /\ twin.memory.allocs \subseteq Block /\ twin.old \in BOOLEAN

Count(f, t) == IF f.saved[t] = -1 THEN 0 ELSE f.saved[t]

\* Each thread finds the depth of its preemption_disablers again after it has
\* been parked, lent the processor by an unpark and given it back; nobody else
\* runs with it.  Only a thread that runs is lent the processor, and by one that
\* waits in its unpark for it.
PreemptionIsRestored ==
    fibers.outcome = "none" /\ Running # Main =>
        /\ fibers.disabled + Count(fibers, Running) = fibers.scopes[Running]
        /\ \A t \in Thread \ {Running} : fibers.dp[t] + Count(fibers, t) = fibers.scopes[t]
        /\ \A t \in Thread : fibers.from[t] # Main =>
                Running = t /\ fibers.at[fibers.from[t]] = "unpark"

\* No RL_VERIFY of the context fails: of the preemption and of the lending at
\* each switch, of no switch in before, after or the invariant, and of the
\* entries of thread local variables.
ChecksHold == fibers.outcome # "verify"

\* The elements of a slab are each free once or in use once, whatever is
\* constructed, destroyed, or destroyed since a constructor has thrown; and
\* what an iteration that has ended well leaves to the next is as if it had
\* not been: no block, no object, no thread in the middle of something.
NothingIsCarriedOver ==
    /\ \A k \in Kind \cup {"var"} :
        LET used == IF k = "var" THEN UNION {ToSet(objects.elements[b]) : b \in Block}
                    ELSE {objects.impl[k]} \ {None}
        IN  /\ ToSet(objects.slab[k].freelist) = Elements(objects.slab[k]) \ used
            /\ objects.slab[k].alloc_count = Cardinality(used)
    /\ stage.phase = "main" =>
        /\ memory_.allocs = {} /\ NothingLeaks(objects) /\ objects.owned = {}
        /\ \A b \in Block : objects.elements[b] = <<>>
        /\ \A k \in Kind : objects.impl[k] = None
        /\ \A t \in Thread : fibers.at[t] = "top" /\ fibers.code[t] = <<>> /\ fibers.scopes[t] = 0

\* What a thread gets of a thread local variable is what it has itself stored
\* in it in this iteration, or 0: nothing of another thread or variable, of an
\* iteration before, or of the context that ran the test first.
ThreadLocalsArePrivate ==
    stage.phase # "main" =>
        \A v \in Reachable, t \in Thread : Got(tls.entries, tls.var[v], ctx_seq, t) = tls.last[v][t]

\* What a test can tell of addresses, which blocks are the same and in which
\* order they were hashed, is the same when an iteration is run again with a
\* new heap, unless a deferred free has given back a block of an earlier
\* iteration.
ReplaysAgree ==
    twin.old \/
        /\ \A s, r \in twin.same : s[1] = r[1] <=> s[2] = r[2]
        /\ Len(twin.hash) = Len(twin.twin_hash)
        /\ \A i \in DOMAIN twin.hash : <<twin.hash[i], twin.twin_hash[i]>> \in twin.same

\* An iteration ends, though its threads do as they like for ever, when each
\* thing they do is a step or has to wait for one (OnlySteps says what is not):
\* the steps that are counted end it at execution_depth_limit.
IterationsEnd ==
    OnlySteps /\ stage.phase = "before" ~> stage.phase \in {"main", "done"} \/ fibers.outcome # "none"
=============================================================================
