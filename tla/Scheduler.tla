----------------------------- MODULE Scheduler -----------------------------
(***************************************************************************)
(* Which thread runs next: the scheduler of one iteration (scheduler) and  *)
(* its three derivations, the random one, the full search and the full     *)
(* search with a bound on the context switches.                            *)
(*                                                                         *)
(* Exactly one fiber runs.  It calls the scheduler to park itself, to      *)
(* unpark another, to create a dynamic thread, to yield, to offer a switch *)
(* and to finish; all but unpark and create end by choosing the thread     *)
(* that goes on.  The order of the code's thread lists only numbers the    *)
(* choices of the random generator and of the search: the lists are sets.  *)
(***************************************************************************)
EXTENDS Integers, FiniteSets, Functions

CONSTANTS
    Thread,         \* the threads, numbered from 0
    Dynamic,        \* those that create_thread starts
    Schedulers,     \* the search types explored
    ParkArguments,  \* the pairs <<is_timed, allow_spurious_wakeup>> of its waits
    MaxYield,       \* the greatest argument of yield
    ContextBound    \* params_.context_bound

ASSUME ThreadAssumption == IsFiniteSet(Thread) /\ Thread \subseteq Nat /\ Dynamic \subseteq Thread
ASSUME SchedulerAssumption == Schedulers \subseteq {"random", "full", "context_bound"}
ASSUME ParkAssumption == ParkArguments \subseteq BOOLEAN \X BOOLEAN
ASSUME BoundAssumption == MaxYield \in Nat /\ MaxYield >= 1 /\ ContextBound \in Nat

VARIABLES
    scheduler,      \* the search type of the test
    sched,          \* what the scheduler knows of the threads
    thread_,        \* the thread that runs
    reason,         \* why it was chosen, its unpark_reason_
    switches_remain,\* context_bound_scheduler::switches_remain_
    outcome         \* "none", "last", "deadlock", or "verify": an RL_VERIFY failed

vars == <<scheduler, sched, thread_, reason, switches_remain, outcome>>

TreeSearch == scheduler # "random"

-----------------------------------------------------------------------------
(* The state of the scheduler is a record s with the fields                *)
(*   block_count             how often each thread is blocked              *)
(*   running                 running_threads                               *)
(*   yield_priority          [y][t]: how often y must run before t may     *)
(*   total_yield_priority    [y]: the sum of y's yield_priority            *)
(*   yield_sched_count       [y][t]: the runs of y since t's last yield,   *)
(*                           no further than MaxYield, the most it is      *)
(*                           compared with                                 *)
(*   timed, spurious         the parked threads that may time out or wake  *)
(*   dynamic                 the dynamic threads not yet created           *)
(*   finished                the threads that have finished                *)
(*   parked                  auxiliary: those parked and not unparked      *)

NoPriority == [t \in Thread |-> 0]

\* iteration_begin
Fresh ==
    [block_count |-> [t \in Thread |-> IF t \in Dynamic THEN 1 ELSE 0],
     running |-> Thread \ Dynamic,
     yield_priority |-> [y \in Thread |-> NoPriority],
     total_yield_priority |-> NoPriority,
     yield_sched_count |-> [y \in Thread |-> NoPriority],
     timed |-> {}, spurious |-> {}, dynamic |-> Dynamic, finished |-> {}, parked |-> {}]

\* The thread y holds back t: t has yielded, and y must run first.
Holds(s, y, t) == s.yield_priority[y][t] > 0

\* unblock_thread for every thread of T
Unblock(s, T) ==
    [s EXCEPT !.block_count = [t \in Thread |-> IF t \in T THEN @[t] - 1 ELSE @[t]],
              !.running = @ \cup {t \in T : s.block_count[t] = 1}]

\* on_thread_block for every thread of Y: they hold back nobody any more.
LetGo(s, Y) ==
    LET holders == {y \in Y : s.total_yield_priority[y] > 0}
        held == [t \in Thread |-> Cardinality({y \in holders : Holds(s, y, t)})]
    IN  [s EXCEPT
            !.yield_priority = [y \in Thread |-> IF y \in holders THEN NoPriority ELSE @[y]],
            !.total_yield_priority = [y \in Thread |->
                IF y \in holders THEN @[y] - SumFunction(s.yield_priority[y]) ELSE @[y]],
            !.block_count = [t \in Thread |-> @[t] - held[t]],
            !.running = @ \cup {t \in Thread : held[t] > 0 /\ s.block_count[t] = held[t]}]

\* Mutant: blocks a thread once, however many hold it back.
BlockOnce(s, t, n) ==
    LET blocked == [s EXCEPT !.block_count[t] = IF n = 0 THEN @ ELSE @ + 1]
    IN  IF n = 0 \/ s.block_count[t] > 0 THEN blocked
        ELSE LetGo([blocked EXCEPT !.running = @ \ {t}], {t})

\* block_thread, n times
Block(s, t, n) ==
    LET blocked == [s EXCEPT !.block_count[t] = @ + n]
    IN  IF n = 0 \/ s.block_count[t] > 0 THEN blocked
        ELSE LetGo([blocked EXCEPT !.running = @ \ {t}], {t})

\* Mutant: leaves the thread in the list of those that may wake spuriously.
UnparkKeepsSpurious(s, t) == [Unblock(s, {t}) EXCEPT !.timed = @ \ {t}, !.parked = @ \ {t}]

\* scheduler::unpark_thread
UnparkThread(s, t) ==
    [Unblock(s, {t}) EXCEPT !.timed = @ \ {t}, !.spurious = @ \ {t}, !.parked = @ \ {t}]

\* purge_blocked_threads: nobody can run, so nobody is held back.
Purge(s) == LetGo(s, Thread)

\* is_deadlock looks again after a purge.
Stuck(s) == s.running = {} /\ s.timed = {}
\* Mutant: takes a thread that is held back for one that waits.
NeverPurged(s) == s

Purged(s) == IF Stuck(s) THEN Purge(s) ELSE s

-----------------------------------------------------------------------------
(* schedule *)

\* The thread t is about to give way: its turn counts for those it holds back.
CountTurn(s, t) ==
    LET held == {u \in Thread : Holds(s, t, u)}
        s1 == [s EXCEPT
                !.yield_priority[t] = [u \in Thread |-> IF u \in held THEN @[u] - 1 ELSE 0],
                !.total_yield_priority[t] = @ - Cardinality(held),
                !.yield_sched_count[t] = [u \in Thread |->
                    IF @[u] < MaxYield THEN @[u] + 1 ELSE MaxYield]]
    IN  IF s.total_yield_priority[t] = 0 THEN s
        ELSE Unblock(s1, {u \in held : s.yield_priority[t][u] = 1})

\* Those that must run before t when it yields n times.
Before(s, t, n) ==
    {y \in Thread \ (s.finished \cup {t}) : s.yield_sched_count[y][t] < n}

\* Everyone of Y must run n times before t.
HoldBack(s, t, Y, n) ==
    Block([s EXCEPT !.yield_priority = [y \in Thread |->
                        IF y \in Y THEN [@[y] EXCEPT ![t] = n] ELSE @[y]],
                    !.total_yield_priority = [y \in Thread |->
                        IF y \in Y THEN @[y] + n ELSE @[y]]], t, Cardinality(Y))

\* Mutant: counts no turn afresh.
KeepCounts(s, t) == s

\* The turns of the others are counted from t's yield on.
CountAfresh(s, t) ==
    [s EXCEPT !.yield_sched_count = [y \in Thread |-> [@[y] EXCEPT ![t] = 0]]]

\* tree_search_scheduler::yield_priority
YieldPriority(s, t, n) ==
    LET s1 == CountAfresh(HoldBack(s, t, Before(s, t, n), n), t)
    IN  IF s1.running = {} THEN Purge(s1) ELSE s1

\* Mutant: counts the switches away from blocked threads too.
ResumeCountsForced(s, u, r) ==
    /\ sched' = s
    /\ thread_' = u
    /\ reason' = r
    /\ switches_remain' = IF scheduler = "context_bound" /\ u # thread_
                            THEN switches_remain - 1 ELSE switches_remain
    /\ UNCHANGED <<scheduler, outcome>>

\* The thread u goes on, for the reason r.  A switch away from a thread that
\* could have gone on is one of those context_bound allows.
Resume(s, u, r) ==
    /\ sched' = s
    /\ thread_' = u
    /\ reason' = r
    /\ switches_remain' =
           IF scheduler = "context_bound" /\ u # thread_ /\ thread_ \in s.running
             THEN switches_remain - 1 ELSE switches_remain
    /\ UNCHANGED <<scheduler, outcome>>

End(s, result) ==
    /\ sched' = s
    /\ outcome' = result
    /\ UNCHANGED <<scheduler, thread_, reason, switches_remain>>

\* A wait times out or wakes spuriously.  The search passes over a thread that
\* is held back too; the random scheduler insists that there is none.
Timeout(s) == \E u \in s.timed : s.block_count[u] = 1 /\ Resume(UnparkThread(s, u), u, "timeout")
Spurious(s) == \E u \in s.spurious : s.block_count[u] = 1 /\ Resume(UnparkThread(s, u), u, "spurious")
HeldBack(s, T) == \E u \in T : s.block_count[u] # 1

\* random_scheduler::schedule_impl
ScheduleRandom(s) ==
    \/ Timeout(s)
    \/ s.running # {} /\ Spurious(s)
    \/ \E u \in s.running : Resume(s, u, "normal")
    \/ /\ \/ HeldBack(s, s.timed)
          \/ s.running # {} /\ HeldBack(s, s.spurious)
          \/ s.running = {} /\ s.timed = {}
       /\ End(s, "verify")

\* tree_search_scheduler::schedule_impl after the yield.  Nobody may run when
\* the one timed thread that is chosen is held back.
ScheduleSearch(s) ==
    IF scheduler = "context_bound" /\ switches_remain = 0 /\ thread_ \in s.running
      THEN Resume(s, thread_, "normal")
    ELSE
      \/ Timeout(s)
      \/ /\ s.running # {} \/ s.timed = {} \/ HeldBack(s, s.timed)
         /\ IF s.running = {} THEN End(s, "verify")
            ELSE Spurious(s) \/ \E u \in s.running : Resume(s, u, "normal")

\* Mutant: the random scheduler holds threads back too.
ScheduleYields(s, n) ==
    LET s1 == CountTurn(s, thread_)
        s2 == IF n > 0 THEN YieldPriority(s1, thread_, n) ELSE s1
    IN  IF TreeSearch THEN ScheduleSearch(s2) ELSE ScheduleRandom(s2)

Schedule(s, n) ==
    IF TreeSearch
      THEN LET s1 == CountTurn(s, thread_)
           IN  ScheduleSearch(IF n > 0 THEN YieldPriority(s1, thread_, n) ELSE s1)
      ELSE ScheduleRandom(s)

-----------------------------------------------------------------------------
(* What the running thread calls *)

\* context_impl::sched, where preemption is not disabled
Sched == Schedule(sched, 0)

Yield == \E n \in 1 .. MaxYield : Schedule(sched, n)

ParkCurrentThread ==
    \E args \in ParkArguments :
        LET t == thread_
            s == Block([sched EXCEPT
                    !.timed = IF args[1] THEN @ \cup {t} ELSE @,
                    !.spurious = IF args[2] THEN @ \cup {t} ELSE @,
                    !.parked = @ \cup {t}], t, 1)
        IN  IF Stuck(Purged(s)) THEN End(Purged(s), "deadlock") ELSE Schedule(Purged(s), 1)

Unpark ==
    /\ \E t \in sched.parked : sched' = UnparkThread(sched, t)
    /\ UNCHANGED <<scheduler, thread_, reason, switches_remain, outcome>>

\* The last of the dynamic threads not yet created is created first.
CreateThread ==
    /\ \E t \in sched.dynamic :
        /\ \A u \in sched.dynamic : u <= t
        /\ sched' = [Unblock(sched, {t}) EXCEPT !.dynamic = @ \ {t}]
    /\ UNCHANGED <<scheduler, thread_, reason, switches_remain, outcome>>

\* When nobody else can run, the dynamic threads start on their own.
ThreadFinished ==
    LET s == [Block(sched, thread_, 1) EXCEPT !.finished = @ \cup {thread_}]
        p == Purged(s)
        started == [Unblock(p, p.dynamic) EXCEPT !.dynamic = {}]
    IN  IF s.finished = Thread THEN End(s, "last")
        ELSE IF ~Stuck(p) THEN Schedule(p, 0)
        ELSE IF p.dynamic # {} THEN Schedule(started, 0)
        ELSE End(p, "deadlock")

Init ==
    /\ scheduler \in Schedulers
    /\ sched = Fresh
    /\ thread_ \in Thread \ Dynamic
    /\ reason = "normal"
    /\ switches_remain = ContextBound
    /\ outcome = "none"

Next ==
    /\ outcome = "none"
    /\ \/ Sched \/ Yield \/ ParkCurrentThread \/ Unpark \/ CreateThread \/ ThreadFinished

Spec == Init /\ [][Next]_vars

\* Weak fairness of the calls that end a thread's turn, which are possible as
\* long as the test runs: a thread does not offer switches for ever.  For
\* docs/advanced.txt asks for a yield in every loop that spins.
GiveWay == Yield \/ ParkCurrentThread \/ ThreadFinished
FairSpec == Spec /\ ([]<>(outcome # "none") \/ []<><<GiveWay>>_vars)

-----------------------------------------------------------------------------
(* Properties *)

State ==
    [block_count : [Thread -> Nat], running : SUBSET Thread,
     yield_priority : [Thread -> [Thread -> 0 .. MaxYield]],
     total_yield_priority : [Thread -> Nat],
     yield_sched_count : [Thread -> [Thread -> 0 .. MaxYield]],
     timed : SUBSET Thread, spurious : SUBSET Thread, dynamic : SUBSET Thread,
     finished : SUBSET Thread, parked : SUBSET Thread]

\* Every variable has its type; no more switches are made than allowed.
TypeOK ==
    /\ scheduler \in Schedulers
    /\ sched \in State
    /\ thread_ \in Thread
    /\ reason \in {"normal", "timeout", "spurious"}
    /\ switches_remain \in 0 .. ContextBound
    /\ outcome \in {"none", "last", "deadlock", "verify"}

\* The reasons for which t is blocked: its wait, its end or that it has not
\* been created, and the threads that hold it back.
Waits(t) == {w \in {"parked", "finished", "dynamic"} : t \in sched[w]}
Holders(t) == {y \in Thread : Holds(sched, y, t)}

\* Every block of a thread has its reason and every reason its block, and the
\* sums kept beside the priorities are their sums: no thread is released too
\* early, none stays blocked when its reason is gone, and none is passed over
\* when it should let the others go.  The thread that goes on has no block.
BlockCountsAreExplained ==
    /\ \A t \in Thread :
        /\ sched.block_count[t] = Cardinality(Waits(t)) + Cardinality(Holders(t))
        /\ t \in sched.running <=> sched.block_count[t] = 0
        /\ sched.total_yield_priority[t] = SumFunction(sched.yield_priority[t])
    /\ outcome = "none" => thread_ \in sched.running

\* A deadlock is reported only when every thread that has not finished waits
\* without a timeout or has not been created: a yield is no reason for one.
DeadlockIsReal ==
    outcome = "deadlock" =>
        \A t \in Thread \ sched.finished : t \in (sched.parked \ sched.timed) \cup sched.dynamic

\* Only a thread that waits is in the lists of those that may time out or
\* wake spuriously: no wait is ended by the permission of an earlier one.
WakeableAreParked == sched.timed \cup sched.spurious \subseteq sched.parked

\* Of the checks of schedule_impl one can fail, in the search only, and only
\* when a timed thread is held back that should not be.
VerifyNeedsAHeldTimedThread ==
    outcome = "verify" => TreeSearch /\ HeldBack(sched, sched.timed)

\* docs/advanced.txt: the scheduler is fair to threads that yield.  One that
\* has been created, has not finished and does not wait gets its turn.
YieldIsFair ==
    \A t \in Thread :
        Waits(t) = {} ~> outcome # "none" \/ thread_ = t

\* RL_VERIFY(running_thread_count): there is always a thread that can run.
NoVerifyFails == outcome # "verify"
============================================================================
