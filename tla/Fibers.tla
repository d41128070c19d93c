------------------------------- MODULE Fibers -------------------------------
(***************************************************************************)
(* How the threads of a test share the one real thread: each has a fiber,  *)
(* and a fiber goes on until it lets another: at a step of a simulated     *)
(* operation, when it parks, or when it hands the processor to a thread it *)
(* unparks, which takes what it waited for and hands it back.              *)
(*                                                                         *)
(* A thread runs programs: the calls to the context that the operations of *)
(* a test make, in their order.  Which thread goes on, and which waits     *)
(* time out, is the choice of the scheduler; here it is any.               *)
(***************************************************************************)
EXTENDS Integers, SequencesExt

CONSTANTS
    Thread,         \* the threads
    Dynamic,        \* those that have to be created
    Main,           \* the fiber of simulate, and no thread
    MaxRepeats      \* the bound of what an operation does over and over

ASSUME FibersAssumption ==
    /\ Dynamic \subseteq Thread /\ Dynamic # Thread /\ Main \notin Thread
    /\ MaxRepeats \in Nat

(***************************************************************************)
(* The calls to the context.                                               *)
(***************************************************************************)
Sched == [op |-> "sched"]
Yield == [op |-> "yield"]
Park(timed, spurious, hand) ==
    [op |-> "park", timed |-> timed, spurious |-> spurious, hand |-> hand]
Unpark == [op |-> "unpark"]             \* of a thread that waits, or of none
SwitchBack == [op |-> "switch_back"]
Disable == [op |-> "disable"]           \* preemption_disabler
Enable == [op |-> "enable"]
Create == [op |-> "create"]
End == [op |-> "end"]

Times(n, call) == [i \in 1 .. n |-> call]

(***************************************************************************)
(* The programs.  What a wait does once it is handed what it waited for    *)
(* ends with SwitchBack, and is left out when it times out.                *)
(***************************************************************************)
AtomicOperation == <<Sched>>
YieldTurn == <<Yield>>
CreateThread == <<Create>>
Finish(n) == Times(n, Unpark) \o <<End>>
Join(timed) == <<Park(timed, FALSE, FALSE)>>
\* n times the lock was free and taken by another first.
Lock(timed, n) == <<Sched>> \o Times(n, Park(timed, FALSE, FALSE))
Wait(timed, spurious) == <<Sched, Park(timed, spurious, TRUE), SwitchBack>>
Signal(n) == <<Sched>> \o Times(n, Unpark)
CondVarWait(timed) == <<Sched, Unpark, Park(timed, TRUE, FALSE), Sched>>
\* Several objects, of which n take a step when they are taken.
TakeSeveral(n) == <<Disable>> \o Times(n, Sched) \o <<Enable>>
WaitSeveral(timed, n) == <<Sched, Park(timed, FALSE, TRUE)>> \o TakeSeveral(n) \o <<SwitchBack>>
FindSeveral(n) == <<Sched>> \o TakeSeveral(n)
FutexWait(timed) == <<Sched, Sched, Disable, Sched, Enable, Park(timed, TRUE, FALSE)>>
FutexWake(n) == <<Sched, Sched>> \o Times(n, Unpark)

\* Mutant: from before the signal nobody else may run.
DisabledSignal(timed) == <<Disable, Sched, Unpark, Sched, Park(timed, FALSE, TRUE), SwitchBack, Enable>>

SignalAndWait(timed) == <<Sched, Unpark, Disable, Sched, Park(timed, FALSE, TRUE), SwitchBack, Enable>>

\* What a test can make a thread do.
Operations ==
    {AtomicOperation, YieldTurn, CreateThread}
    \cup (UNION {{Join(timed), CondVarWait(timed), FutexWait(timed), SignalAndWait(timed)} :
                    timed \in BOOLEAN})
    \cup {Wait(timed, spurious) : timed \in BOOLEAN, spurious \in BOOLEAN}
    \cup (UNION {{Finish(n), Signal(n), FindSeveral(n), FutexWake(n)} : n \in 0 .. MaxRepeats})
    \cup (UNION {{Lock(timed, n), WaitSeveral(timed, n)} :
                    timed \in BOOLEAN, n \in 0 .. MaxRepeats})

(***************************************************************************)
(* The state f of the fibers:                                              *)
(*   running        threadx_, or Main                                      *)
(*   at             where a fiber stands: at its top, where a thread       *)
(*                  begins, in the test, or in the call it has switched in *)
(*   code           the calls its thread still makes in its operation      *)
(*   state          of a thread for the scheduler                          *)
(*   reason         unpark_reason_                                         *)
(*   from           temp_switch_from_, Main for -1                         *)
(*   saved          saved_disable_preemption_                              *)
(*   dp             the dp of park_current_thread                          *)
(*   disabled       disable_preemption_                                    *)
(*   scopes         auxiliary: the preemption_disablers a thread is in     *)
(*   special        special_function_executing                             *)
(*   first_thread, sched_count                                             *)
(*   limit          execution_depth_limit                                  *)
(*   invariant      the number of simulated operations of its invariant    *)
(*   outcome        "none", or the test_result_ with which the test fails, *)
(*                  or "verify": an RL_VERIFY has failed                   *)
(***************************************************************************)
NewFibers(limit, invariant) ==
    [running |-> Main, at |-> [t \in Thread |-> "top"], code |-> [t \in Thread |-> <<>>],
     state |-> [t \in Thread |-> "none"], reason |-> [t \in Thread |-> "normal"],
     from |-> [t \in Thread |-> Main], saved |-> [t \in Thread |-> -1],
     dp |-> [t \in Thread |-> 0], disabled |-> 0, scopes |-> [t \in Thread |-> 0],
     special |-> FALSE, first_thread |-> FALSE, sched_count |-> 0,
     limit |-> limit, invariant |-> invariant, outcome |-> "none"]

\* RL_VERIFY
Verify(f, condition) == IF condition THEN f ELSE [f EXCEPT !.outcome = "verify"]

\* fail_test, and the rl_until of the test
Fail(f, result) == [f EXCEPT !.outcome = result, !.running = Main]

Advance(f, t) == [f EXCEPT !.code[t] = Tail(@)]

-----------------------------------------------------------------------------
(* Switching *)

\* What is left of a wait that was not met.
NotTaken(code) ==
    LET end == CHOOSE i \in DOMAIN code :
                    code[i] = SwitchBack /\ \A j \in 1 .. i - 1 : code[j] # SwitchBack
    IN  SubSeq(code, end + 1, Len(code))

\* Mutant: the depth is restored when the thread is handed the processor too.
RestoreAtOnce(f, t) ==
    LET call == Head(f.code[t])
        handed == call.hand /\ f.reason[t] = "normal"
        g == Verify(Advance(f, t), f.disabled = 0 /\ f.saved[t] = -1)
    IN  IF handed
          THEN [Verify(g, g.from[t] # Main) EXCEPT !.saved[t] = 0, !.disabled = g.dp[t], !.dp[t] = 0]
          ELSE [Verify(g, f.reason[t] = "normal" => g.from[t] = Main) EXCEPT
                    !.disabled = g.dp[t], !.dp[t] = 0,
                    !.code[t] = IF call.hand THEN NotTaken(@) ELSE @]

\* park_current_thread after its schedule: the depth of t is restored, or put
\* aside while the processor is lent to t.
ParkEnds(f, t) ==
    LET call == Head(f.code[t])
        handed == call.hand /\ f.reason[t] = "normal"
        g == Verify(Advance(f, t), f.disabled = 0 /\ f.saved[t] = -1)
    IN  IF handed
          THEN [Verify(g, g.from[t] # Main) EXCEPT !.saved[t] = g.dp[t], !.dp[t] = 0]
          ELSE [Verify(g, f.reason[t] = "normal" => g.from[t] = Main) EXCEPT
                    !.disabled = g.dp[t], !.dp[t] = 0,
                    !.code[t] = IF call.hand THEN NotTaken(@) ELSE @]

\* switch_back when it goes on
SwitchedBack(f, t) ==
    [Verify(f, f.saved[t] # -1) EXCEPT
        !.disabled = f.saved[t], !.saved[t] = -1, !.code[t] = Tail(@)]

\* thread_info::on_start
Started(f, t) == Verify(f, f.from[t] = Main /\ f.saved[t] = -1)

\* switch_to_fiber: t goes on where its fiber stands.
SwitchTo(f, t) ==
    LET g == [f EXCEPT !.running = t, !.at[t] = "test"]
    IN  CASE f.at[t] = "top" -> Started(Verify(g, g.disabled = 0), t)
          [] f.at[t] = "schedule" -> Verify(Advance(g, t), g.disabled = 0)
          [] f.at[t] = "park" -> ParkEnds(g, t)
          [] f.at[t] = "unpark" -> Advance(g, t)
          [] f.at[t] = "switch_back" -> SwitchedBack(g, t)

-----------------------------------------------------------------------------
(* The scheduler, and the steps it is asked at *)

Ready(f) == {t \in Thread : f.state[t] = "ready"}
Parked(f) == {t \in Thread : f.state[t] = "parked"}
Timed(f) == {t \in Parked(f) : Head(f.code[t]).timed}
Interruptible(f) == {t \in Parked(f) : Head(f.code[t]).spurious}

\* The threads that may go on, and why.
MayGoOn(f) ==
    Ready(f) \X {"normal"} \cup Timed(f) \X {"timeout"}
        \cup IF Ready(f) = {} THEN {} ELSE Interruptible(f) \X {"spurious"}

\* n steps towards the limit
Counted(f, n) == [f EXCEPT !.sched_count = @ + n]
\* Mutant: a step too late.
ExceedsLate(f, n) == n > 0 /\ f.sched_count + n - 2 > f.limit

Exceeds(f, n) == n > 0 /\ f.sched_count + n - 1 > f.limit

\* The test's invariant, which takes no switch.
Invariant(f) == IF Exceeds(f, f.invariant) THEN Fail(f, "livelock") ELSE Counted(f, f.invariant)

\* schedule by the thread t, which is at a place in its code where it can be
\* left; the test's invariant is run first.
Schedule(f, t, place) ==
    IF f.from[t] # Main \/ f.disabled # 0 THEN {[f EXCEPT !.outcome = "verify"]}
    ELSE IF f.special THEN {[f EXCEPT !.reason[t] = "normal"]}
    ELSE IF Invariant(f).outcome # "none" THEN {Invariant(f)}
    ELSE {SwitchTo([Invariant(f) EXCEPT
                        !.at[t] = place, !.state[c[1]] = "ready", !.reason[c[1]] = c[2]], c[1]) :
              c \in MayGoOn(f)}

\* Mutant: a yield is no step.
YieldFreely(f, t) == Schedule(f, t, "schedule")

\* context_impl::yield
DoYield(f, t) ==
    IF Exceeds(f, 1) THEN {Fail(f, "livelock")} ELSE Schedule(Counted(f, 1), t, "schedule")

\* context_impl::sched
DoSched(f, t) ==
    IF Exceeds(f, 1) THEN {Fail(f, "livelock")}
    ELSE IF f.disabled > 0 THEN {Advance(Counted(f, 1), t)}
    ELSE Schedule(Counted(f, 1), t, "schedule")

\* park_current_thread
DoPark(f, t) ==
    LET g == [Verify(f, ~f.special /\ f.saved[t] = -1) EXCEPT
                !.dp[t] = f.disabled, !.disabled = 0, !.state[t] = "parked"]
    IN  IF Ready(g) \cup Timed(g) = {} THEN {Fail(g, "deadlock")} ELSE Schedule(g, t, "park")

\* unpark_thread of the thread u, which runs at once if it is to be handed the
\* processor.
UnparkThread(f, t, u) ==
    IF Head(f.code[u]).hand
      THEN SwitchTo([f EXCEPT !.state[u] = "ready", !.reason[u] = "normal", !.from[u] = t,
                              !.at[t] = "unpark"], u)
      ELSE Advance([f EXCEPT !.state[u] = "ready", !.reason[u] = "normal"], t)

DoUnpark(f, t) ==
    {Advance(f, t)} \cup {UnparkThread(Verify(f, ~f.special), t, u) : u \in Parked(f)}

\* switch_back
DoSwitchBack(f, t) ==
    SwitchTo([Verify(f, f.saved[t] # -1 /\ f.from[t] # Main) EXCEPT
                !.from[t] = Main, !.at[t] = "switch_back"], f.from[t])

DoCreate(f, t) ==
    {Advance([f EXCEPT !.state[u] = "ready"], t) : u \in {d \in Dynamic : f.state[d] = "none"}}

\* The end of a thread.  Threads that were not created start when nobody else
\* can run.  After the last one the test goes on to its invariant and its after.
DoEnd(f, t) ==
    LET g == Advance([Verify(f, f.disabled = 0 /\ f.from[t] = Main /\ f.saved[t] = -1) EXCEPT
                        !.state[t] = "finished"], t)
        stuck == Ready(g) \cup Timed(g) = {}
        r == IF stuck THEN [g EXCEPT !.state = [u \in Thread |-> IF @[u] = "none" THEN "ready" ELSE @[u]]]
             ELSE g
    IN  IF \A u \in Thread : g.state[u] = "finished" THEN {Invariant([g EXCEPT !.special = TRUE])}
        ELSE IF Ready(r) \cup Timed(r) = {} THEN {Fail(g, "deadlock")}
        ELSE IF Exceeds(g, 1) THEN {Fail(g, "livelock")}
        ELSE Schedule(Counted(r, 1), t, "top")

\* What the next call of the thread t makes of f.
Call(f, t) ==
    LET op == Head(f.code[t]).op
    IN  CASE op = "sched" -> DoSched(f, t)
          [] op = "yield" -> DoYield(f, t)
          [] op = "park" -> DoPark(f, t)
          [] op = "unpark" -> DoUnpark(f, t)
          [] op = "switch_back" -> {DoSwitchBack(f, t)}
          [] op = "disable" -> {Advance([f EXCEPT !.disabled = @ + 1, !.scopes[t] = @ + 1], t)}
          [] op = "enable" -> {Advance([f EXCEPT !.disabled = @ - 1, !.scopes[t] = @ - 1], t)}
          [] op = "create" -> DoCreate(f, t)
          [] op = "end" -> DoEnd(f, t)
=============================================================================
