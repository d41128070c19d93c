------------------------------ MODULE Blocking ------------------------------
(***************************************************************************)
(* The blocking primitives a test may use: mutexes and reader-writer locks *)
(* (generic_mutex_data), condition variables (condvar_data), semaphores    *)
(* (sema_data), events (event_data), the ends of threads                   *)
(* (thread_sync_object), the waits for several objects                     *)
(* (wait_for_multiple_objects), and the waitsets below them all.           *)
(*                                                                         *)
(* Every operation first calls sched(), where any thread may go on, and    *)
(* then runs without a switch until its thread parks or returns: it is one *)
(* action.  A thread unparked by a semaphore, an event or for several      *)
(* objects is handed the processor at once, takes what it waits for and    *)
(* switches back; any other goes on when it is scheduled.                  *)
(***************************************************************************)
EXTENDS Integers, FiniteSets, SequencesExt

CONSTANTS
    Thread,             \* the threads, which can be waited for
    Mutex,              \* generic_mutexes, those below among them
    RwLock,             \* is_rw_
    Recursive,          \* is_exclusive_recursive_
    SharedRecursive,    \* is_shared_recursive_
    Semaphore,
    Interruptible,      \* the semaphores with spurious_wakeups_
    Event,
    ManualReset,        \* manual_reset_
    CondVar,
    WaitArrays,         \* the sequences of objects waited for together
    Tests,              \* the sets of objects a test uses
    Free, Shared,       \* state_free, state_shared
    MaxCount,           \* max_count_ of each semaphore
    MaxRecursion,       \* bound on the recursion of each lock
    SpuriousLimit       \* spurious_wakeup_limit_ of a condvar at first

Object == Mutex \cup Semaphore \cup Event \cup CondVar \cup Thread

\* An object is of one kind.  No object is twice in an array: the second take of
\* a semaphore or an event would fail an RL_VERIFY.
ASSUME KindAssumption ==
    /\ Mutex \cap (Semaphore \cup Event \cup CondVar \cup Thread) = {}
    /\ Semaphore \cap (Event \cup CondVar \cup Thread) = {}
    /\ Event \cap (CondVar \cup Thread) = {} /\ CondVar \cap Thread = {}
    /\ RwLock \cup Recursive \subseteq Mutex /\ SharedRecursive \subseteq RwLock
    /\ ManualReset \subseteq Event /\ Interruptible \subseteq Semaphore
    /\ WaitArrays \subseteq Seq((Mutex \ RwLock) \cup Semaphore \cup Event \cup Thread)
    /\ \A on \in WaitArrays : IsInjective(on)
    /\ Tests \subseteq SUBSET Object
    /\ IsFiniteSet(Thread)
    /\ Free # Shared /\ {Free, Shared} \cap Thread = {}
ASSUME BoundAssumption ==
    /\ MaxCount \in [Semaphore -> Nat] /\ MaxRecursion \in [Mutex -> Nat \ {0}]
    /\ SpuriousLimit \in Nat

VARIABLES
    uses,       \* the objects the test uses
    sys         \* the state of the objects and of the threads that use them

vars == <<uses, sys>>

(***************************************************************************)
(* The state s of objects and threads:                                     *)
(*   owner, recursion, shared_owner, shared_lock_count   of a mutex        *)
(*   count, state, spurious_limit       of a semaphore, event, condvar     *)
(*   finished     the threads that have finished                           *)
(*   ws           the waitsets: an object's own and a lock's for readers   *)
(*   wait         [t]: what t waits for, or is about to try again          *)
(*   watched      auxiliary: a thread, whose last signal is followed       *)
(*   last         auxiliary: where that signal was                         *)
(*   order        the objects whose sync_var covers it                     *)
(*   known        the threads whose clock covers it                        *)
(*   unseen       auxiliary: the takes of what was signaled of which the   *)
(*                taker did not know it, as <<taker, object>>              *)
(*   outcome      "none", the misuse for which the test fails, or "verify": *)
(*                an RL_VERIFY has failed                                  *)
(***************************************************************************)

Main(o) == <<o, "main">>
Readers(m) == <<m, "readers">>
WaitsetId == {Main(o) : o \in Object} \cup {Readers(m) : m \in RwLock}

\* A wait on the objects on, by an operation op, with allow_spurious_wakeup.
Wait(op, on, spurious) == [op |-> op, on |-> on, spurious |-> spurious, parked |-> TRUE]
Idle == [op |-> "none", on |-> <<>>, spurious |-> FALSE, parked |-> FALSE]

\* The waits that may have a timeout: all but those for reader-writer locks.  One
\* without is one whose timeout does not come.
MayTimeOut(w) == w.op \in {"lock", "lock_shared"} => w.on[1] \notin RwLock

\* do_switch
HandsOver(w) == w.op \in {"wait", "wait_all", "wait_any"}

\* The waitsets a thread that waits is in.
Waitsets(w) ==
    CASE w.op = "lock_shared" -> {Readers(w.on[1])}
      [] w.op = "condvar" -> {Main(w.on[1])}
      [] OTHER -> {Main(o) : o \in ToSet(w.on)}

-----------------------------------------------------------------------------
(* sync_var: who knows the last signal of the thread watched, which stands for *)
(* any of the threads                                                          *)

acquire(s, t, o) == [s EXCEPT !.known = IF o \in s.order THEN @ \cup {t} ELSE @]
release(s, t, o) == [s EXCEPT !.order = IF t \in s.known THEN @ \cup {o} ELSE @]
acq_rel(s, t, o) == release(acquire(s, t, o), t, o)

\* t releases o by a signal that others may wait for: news to all others.
Signal(s, t, o) ==
    IF t = s.watched THEN [s EXCEPT !.last = o, !.known = {t}, !.order = {o}]
    ELSE release(s, t, o)

Took(s, t, o) ==
    IF s.last = o /\ t \notin s.known THEN [s EXCEPT !.unseen = @ \cup {<<t, o>>}] ELSE s

-----------------------------------------------------------------------------
(* win_waitable_object *)

is_signaled(s, o) ==
    CASE o \in Mutex -> s.owner[o] = Free
      [] o \in Semaphore -> s.count[o] > 0
      [] o \in Event -> s.state[o]
      [] o \in Thread -> o \in s.finished

\* Mutant: no order with who has set a manual-reset event.
TakeUnordered(s, t, o) ==
    Took(CASE o \in Mutex -> acquire([s EXCEPT !.owner[o] = t, !.recursion[o] = 1], t, o)
           [] o \in Semaphore -> acq_rel([s EXCEPT !.count[o] = @ - 1], t, o)
           [] o \in ManualReset -> s
           [] o \in Event \ ManualReset -> acq_rel([s EXCEPT !.state[o] = FALSE], t, o)
           [] o \in Thread -> acquire(s, t, o), t, o)

\* t takes the signaled object o.
Take(s, t, o) ==
    Took(CASE o \in Mutex -> acquire([s EXCEPT !.owner[o] = t, !.recursion[o] = 1], t, o)
           [] o \in Semaphore -> acq_rel([s EXCEPT !.count[o] = @ - 1], t, o)
           [] o \in ManualReset -> acquire(s, t, o)
           [] o \in Event \ ManualReset -> acq_rel([s EXCEPT !.state[o] = FALSE], t, o)
           [] o \in Thread -> acquire(s, t, o), t, o)

AllSignaled(s, on) == \A i \in DOMAIN on : is_signaled(s, on[i])

MayTake(s, op, on) ==
    IF op = "wait_all" THEN AllSignaled(s, on) ELSE \E i \in DOMAIN on : is_signaled(s, on[i])

\* t takes the objects in their order.
TakeAll(s, t, on) ==
    LET after[n \in 0 .. Len(on)] == IF n = 0 THEN s ELSE Take(after[n - 1], t, on[n])
    IN  after[Len(on)]

FirstSignaled(s, on) ==
    on[CHOOSE i \in DOMAIN on :
           is_signaled(s, on[i]) /\ \A j \in 1 .. i - 1 : ~is_signaled(s, on[j])]

\* Every object, or the first that is signaled.
TakeThem(s, t, op, on) ==
    IF op = "wait_all" THEN TakeAll(s, t, on) ELSE Take(s, t, FirstSignaled(s, on))

\* A wait that has not been met still acquires all that it waited for.
GiveUp(s, t, on) ==
    [s EXCEPT !.known = IF ToSet(on) \cap s.order = {} THEN @ ELSE @ \cup {t}]

-----------------------------------------------------------------------------
(* waitset *)

unlink(q, t) == RemoveAt(q, CHOOSE i \in DOMAIN q : q[i] = t)

\* Mutant: a wait for several objects leaves the first waitset only.
RemoveFromFirst(s, t) ==
    LET id == IF s.wait[t].op = "lock_shared" THEN Readers(s.wait[t].on[1])
              ELSE Main(s.wait[t].on[1])
    IN  [s EXCEPT !.ws[id] = unlink(@, t)]

remove(s, t) ==
    [s EXCEPT !.ws = [id \in WaitsetId |->
        IF id \in Waitsets(s.wait[t]) THEN unlink(@[id], t) ELSE @[id]]]

\* waitset::park_current
Park(s, t, w) ==
    [s EXCEPT !.wait[t] = w,
              !.ws = [id \in WaitsetId |->
                         IF id \in Waitsets(w) THEN Append(@[id], t) ELSE @[id]]]

\* Where a thread goes on that is handed the processor.  Of the objects it
\* waits for one is signaled, or all are: the code checks it with RL_VERIFY.
HandOver(s, t, w) ==
    IF MayTake(s, w.op, w.on) THEN TakeThem(s, t, w.op, w.on) ELSE [s EXCEPT !.outcome = "verify"]

\* try_remove, when it succeeds.
Unpark(s, t) ==
    LET w == s.wait[t]
        s1 == remove(s, t)
    IN  IF HandsOver(w) THEN HandOver([s1 EXCEPT !.wait[t] = Idle], t, w)
        ELSE [s1 EXCEPT !.wait[t].parked = FALSE]

\* Mutant: an object of a wait for all is enough.
RemovableAlways(s, t) == TRUE

\* A thread that waits for all of its objects is passed over until all are
\* signaled.
Removable(s, t) == s.wait[t].op = "wait_all" => AllSignaled(s, s.wait[t].on)

\* unpark_one may pick any thread it can remove.
UnparkOne(s, id) == {Unpark(s, t) : t \in {u \in ToSet(s.ws[id]) : Removable(s, u)}}
TryUnparkOne(s, id) == IF UnparkOne(s, id) = {} THEN {s} ELSE UnparkOne(s, id)

TryUnpark(s, t) == IF Removable(s, t) THEN Unpark(s, t) ELSE s

unpark_all(s, id) ==
    LET q == s.ws[id]
        after[n \in 0 .. Len(q)] == IF n = 0 THEN s ELSE TryUnpark(after[n - 1], q[n])
    IN  after[Len(q)]

-----------------------------------------------------------------------------
(* generic_mutex_data *)

\* t takes the lock m if it may, and parks otherwise.
LockOrPark(s, t, m) ==
    IF s.owner[m] = Free THEN Take(s, t, m) ELSE Park(s, t, Wait("lock", <<m>>, FALSE))

lock_exclusive(s, t, m) ==
    IF s.owner[m] = Shared /\ s.shared_owner[m][t] > 0
      THEN [s EXCEPT !.outcome = "mutex_read_to_write_upgrade"]
    ELSE IF s.owner[m] # t THEN LockOrPark(s, t, m)
    ELSE IF m \in Recursive THEN [s EXCEPT !.recursion[m] = @ + 1]
    ELSE [s EXCEPT !.outcome = "recursion_on_nonrecursive_mutex"]

\* Readers let a waiting writer go first.
SharedFree(s, m) == s.owner[m] = Free \/ (s.owner[m] = Shared /\ s.ws[Main(m)] = <<>>)

LockSharedOrPark(s, t, m) ==
    IF SharedFree(s, m)
      THEN Took(acquire([s EXCEPT !.owner[m] = Shared, !.shared_owner[m][t] = @ + 1,
                                  !.shared_lock_count[m] = @ + 1], t, m), t, m)
      ELSE Park(s, t, Wait("lock_shared", <<m>>, FALSE))

lock_shared(s, t, m) ==
    IF s.owner[m] = t THEN [s EXCEPT !.outcome = "mutex_write_to_read_upgrade"]
    ELSE IF s.owner[m] # Shared \/ s.shared_owner[m][t] = 0 THEN LockSharedOrPark(s, t, m)
    ELSE IF m \in SharedRecursive
      THEN [s EXCEPT !.shared_owner[m][t] = @ + 1, !.shared_lock_count[m] = @ + 1]
    ELSE [s EXCEPT !.outcome = "recursion_on_nonrecursive_mutex"]

\* Mutant: wakes the readers only when they alone can be there.
UnlockWakesWriters(s, t, m) ==
    IF s.owner[m] # t THEN {[s EXCEPT !.outcome = "unlocking_mutex_wo_ownership"]}
    ELSE IF s.recursion[m] > 1 THEN {[s EXCEPT !.recursion[m] = @ - 1]}
    ELSE TryUnparkOne(Signal([s EXCEPT !.recursion[m] = 0, !.owner[m] = Free], t, m), Main(m))

\* The last unlock_exclusive lets a writer go on or else all readers.
unlock_exclusive(s, t, m) ==
    IF s.owner[m] # t THEN {[s EXCEPT !.outcome = "unlocking_mutex_wo_ownership"]}
    ELSE IF s.recursion[m] > 1 THEN {[s EXCEPT !.recursion[m] = @ - 1]}
    ELSE LET r == Signal([s EXCEPT !.recursion[m] = 0, !.owner[m] = Free], t, m)
             woken == UnparkOne(r, Main(m))
         IN  IF woken # {} THEN woken
             ELSE {IF m \in RwLock THEN unpark_all(r, Readers(m)) ELSE r}

\* Mutant: the lock stays shared when its last reader has gone.
UnlockSharedStays(s, t, m) ==
    LET r == [s EXCEPT !.shared_owner[m][t] = @ - 1, !.shared_lock_count[m] = @ - 1]
    IN  IF s.owner[m] # Shared \/ s.shared_owner[m][t] = 0
          THEN {[s EXCEPT !.outcome = "unlocking_mutex_wo_ownership"]}
        ELSE {IF r.shared_owner[m][t] = 0 THEN Signal(r, t, m) ELSE r}

\* The last unlock_shared of a reader is a signal, the last of all wakes a
\* writer.
unlock_shared(s, t, m) ==
    LET r == [s EXCEPT !.shared_owner[m][t] = @ - 1, !.shared_lock_count[m] = @ - 1]
        last == r.shared_lock_count[m] = 0
        signal == IF r.shared_owner[m][t] = 0 THEN Signal(r, t, m) ELSE r
    IN  IF s.owner[m] # Shared \/ s.shared_owner[m][t] = 0
          THEN {[s EXCEPT !.outcome = "unlocking_mutex_wo_ownership"]}
        ELSE IF last THEN TryUnparkOne([signal EXCEPT !.owner[m] = Free], Main(m))
        ELSE {signal}

-----------------------------------------------------------------------------
(* sema_data, event_data, thread_sync_object, wait_for_multiple_objects *)

\* An object's wait, without a timeout of 0.
WaitFor(s, t, o) ==
    CASE o \in Mutex -> lock_exclusive(s, t, o)
      [] o \in Semaphore \cup Event ->
            IF is_signaled(s, o) THEN Take(s, t, o) ELSE Park(s, t, Wait("wait", <<o>>, o \in Interruptible))
      [] o \in Thread ->
            IF is_signaled(s, o) THEN Take(s, t, o) ELSE Park(s, t, Wait("join", <<o>>, FALSE))

\* try is a timeout of 0.
wait_for_multiple_objects(s, t, on, op, try) ==
    IF MayTake(s, op, on) THEN TakeThem(s, t, op, on)
    ELSE IF try THEN GiveUp(s, t, on)
    ELSE Park(s, t, Wait(op, on, FALSE))

\* Up to n threads go on, one after the other.
UnparkUpTo(s, id, n) ==
    LET after[i \in 0 .. n] ==
            IF i = 0 THEN {s} ELSE UNION {TryUnparkOne(r, id) : r \in after[i - 1]}
    IN  after[n]

\* Mutant: only a post to a full semaphore is refused.
PostUntilFull(s, t, o, n) ==
    IF s.count[o] >= MaxCount[o] THEN {acquire(s, t, o)}
    ELSE UnparkUpTo(Signal(acquire([s EXCEPT !.count[o] = @ + n], t, o), t, o), Main(o), n)

\* A post of n units wakes up to n threads; too many are refused.
post(s, t, o, n) ==
    IF s.count[o] + n > MaxCount[o] THEN {acquire(s, t, o)}
    ELSE UnparkUpTo(Signal(acquire([s EXCEPT !.count[o] = @ + n], t, o), t, o), Main(o), n)

\* A set event stays set; an auto-reset event lets one thread go on.
set(s, t, o) ==
    LET r == Signal([s EXCEPT !.state[o] = TRUE], t, o)
    IN  IF s.state[o] THEN {s}
        ELSE IF o \in ManualReset THEN {unpark_all(r, Main(o))}
        ELSE TryUnparkOne(r, Main(o))

reset(s, t, o) == IF s.state[o] THEN release([s EXCEPT !.state[o] = FALSE], t, o) ELSE s

\* Sets the event for those that wait, and resets it.
pulse(s, t, o) ==
    LET r == unpark_all(Signal([s EXCEPT !.state[o] = TRUE], t, o), Main(o))
    IN  IF s.state[o] THEN s ELSE [r EXCEPT !.state[o] = FALSE]

\* win_object::signal
SignalObject(s, t, o) ==
    CASE o \in Mutex -> unlock_exclusive(s, t, o)
      [] o \in Semaphore -> post(s, t, o, 1)
      [] o \in Event -> set(s, t, o)
      [] o \in Thread -> {[s EXCEPT !.outcome = "thread_signal"]}

-----------------------------------------------------------------------------
(* What the threads do *)

Ready(t) == sys.outcome = "none" /\ t \notin sys.finished /\ sys.wait[t] = Idle
Step(states) == sys' \in states /\ UNCHANGED uses

\* A lock is taken again no further than the bound.
MayRecur(t, m) ==
    /\ sys.owner[m] = t => sys.recursion[m] < MaxRecursion[m]
    /\ sys.owner[m] = Shared => sys.shared_owner[m][t] < MaxRecursion[m]

LockExclusive(t) ==
    \E m \in Mutex \cap uses :
        Ready(t) /\ MayRecur(t, m) /\ Step({lock_exclusive(sys, t, m)})

\* A try_lock that fails does nothing.
TryLockExclusive(t) ==
    \E m \in Mutex \cap uses :
        /\ Ready(t) /\ MayRecur(t, m)
        /\ sys.owner[m] \in {Free, t} \/ sys.shared_owner[m][t] > 0
        /\ Step({lock_exclusive(sys, t, m)})

LockShared(t) ==
    \E m \in RwLock \cap uses :
        Ready(t) /\ MayRecur(t, m) /\ Step({lock_shared(sys, t, m)})

TryLockShared(t) ==
    \E m \in RwLock \cap uses :
        /\ Ready(t) /\ MayRecur(t, m)
        /\ SharedFree(sys, m) \/ sys.owner[m] = t \/ sys.shared_owner[m][t] > 0
        /\ Step({lock_shared(sys, t, m)})

Unlock(t) ==
    \E m \in Mutex \cap uses :
        /\ Ready(t)
        /\ \/ Step(unlock_exclusive(sys, t, m))
           \/ m \in RwLock /\ Step(unlock_shared(sys, t, m))

\* condvar_data::wait: nobody can run between the unlock and the park.
CondVarWait(t) ==
    \E c \in CondVar \cap uses, m \in Mutex \cap uses :
        /\ Ready(t)
        /\ Step({IF r.outcome # "none" THEN r
                 ELSE Park(r, t, Wait("condvar", <<c, m>>, r.spurious_limit[c] > 0)) :
                     r \in unlock_exclusive(sys, t, m)})

Notify(t) ==
    \E c \in CondVar \cap uses :
        /\ Ready(t)
        /\ Step(TryUnparkOne(sys, Main(c))) \/ Step({unpark_all(sys, Main(c))})

WaitForSingleObject(t) ==
    \E o \in uses \ CondVar :
        /\ Ready(t)
        /\ o \in Mutex => o \notin RwLock /\ MayRecur(t, o)
        /\ Step({WaitFor(sys, t, o)})

TryWait(t) ==
    \E o \in uses \cap (Semaphore \cup Event \cup Thread) :
        /\ Ready(t)
        /\ Step({IF is_signaled(sys, o) THEN Take(sys, t, o) ELSE acquire(sys, t, o)})

GetValue(t) == \E o \in Semaphore \cap uses : Ready(t) /\ Step({acquire(sys, t, o)})

WaitForMultipleObjects(t) ==
    \E on \in WaitArrays, op \in {"wait_all", "wait_any"}, try \in BOOLEAN :
        /\ Ready(t)
        /\ ToSet(on) \subseteq uses
        /\ Step({wait_for_multiple_objects(sys, t, on, op, try)})

Post(t) ==
    \E o \in Semaphore \cap uses : \E n \in 1 .. MaxCount[o] :
        Ready(t) /\ Step(post(sys, t, o, n))

SetEvent(t) == \E o \in Event \cap uses : Ready(t) /\ Step(set(sys, t, o))
ResetEvent(t) == \E o \in Event \cap uses : Ready(t) /\ Step({reset(sys, t, o)})
PulseEvent(t) == \E o \in Event \cap uses : Ready(t) /\ Step({pulse(sys, t, o)})

\* Nobody can run between the signal and the wait.
SignalObjectAndWait(t) ==
    \E o, p \in uses \ (RwLock \cup CondVar) :
        /\ Ready(t)
        /\ p \in Mutex => p = o \/ MayRecur(t, p)
        /\ Step({IF r.outcome # "none" \/ (o \in Semaphore /\ sys.count[o] = MaxCount[o]) THEN r
                 ELSE WaitFor(r, t, p) : r \in SignalObject(sys, t, o)})

\* thread_sync_object::on_finish.  In a test where nobody waits for t, its end is
\* that it does nothing more.
Finish(t) ==
    /\ Ready(t) /\ t \in uses
    /\ Step({unpark_all(Signal([sys EXCEPT !.finished = @ \cup {t}], t, t), Main(t))})

\* An unparked thread goes on where it was parked.
Continue(t) ==
    LET w == sys.wait[t]
        r == [sys EXCEPT !.wait[t] = Idle]
    IN  /\ sys.outcome = "none" /\ ~w.parked
        /\ Step(CASE w.op = "lock" -> {LockOrPark(r, t, w.on[1])}
                  [] w.op = "lock_shared" -> {LockSharedOrPark(r, t, w.on[1])}
                  [] w.op = "condvar" -> {lock_exclusive(r, t, w.on[2])}
                  [] w.op = "join" -> {Take(r, t, w.on[1])}
                  [] OTHER -> {})

\* The thread leaves the waitsets and, but for a condition variable whose lock
\* it must take again, returns.
Timeout(t) ==
    LET w == sys.wait[t]
        r == remove(sys, t)
    IN  /\ sys.outcome = "none" /\ w.parked /\ MayTimeOut(w)
        /\ Step({IF w.op = "condvar" THEN [r EXCEPT !.wait[t].parked = FALSE]
                 ELSE GiveUp([r EXCEPT !.wait[t] = Idle], t, w.on)})

Spurious(t) ==
    LET w == sys.wait[t]
        r == remove(sys, t)
    IN  /\ sys.outcome = "none" /\ w.parked /\ w.spurious
        /\ Step({IF w.op = "condvar"
                   THEN [r EXCEPT !.wait[t].parked = FALSE, !.spurious_limit[w.on[1]] = @ - 1]
                   ELSE acquire([r EXCEPT !.wait[t] = Idle], t, w.on[1])})

Init ==
    /\ uses \in Tests
    /\ \E set_first \in SUBSET (Event \cap uses), watched \in Thread :
        sys = [owner |-> [m \in Mutex |-> Free], recursion |-> [m \in Mutex |-> 0],
               shared_owner |-> [m \in Mutex |-> [t \in Thread |-> 0]],
               shared_lock_count |-> [m \in Mutex |-> 0],
               count |-> [o \in Semaphore |-> 0], state |-> [o \in Event |-> o \in set_first],
               spurious_limit |-> [c \in CondVar |-> SpuriousLimit],
               finished |-> {}, ws |-> [id \in WaitsetId |-> <<>>],
               wait |-> [t \in Thread |-> Idle], watched |-> watched, last |-> watched,
               order |-> {}, known |-> {}, unseen |-> {}, outcome |-> "none"]

Next ==
    \E t \in Thread :
        \/ LockExclusive(t) \/ TryLockExclusive(t) \/ LockShared(t) \/ TryLockShared(t) \/ Unlock(t)
        \/ CondVarWait(t) \/ Notify(t)
        \/ WaitForSingleObject(t) \/ TryWait(t) \/ GetValue(t) \/ WaitForMultipleObjects(t)
        \/ Post(t) \/ SetEvent(t) \/ ResetEvent(t) \/ PulseEvent(t) \/ SignalObjectAndWait(t)
        \/ Finish(t) \/ Continue(t) \/ Timeout(t) \/ Spurious(t)

Spec == Init /\ [][Next]_vars

-----------------------------------------------------------------------------
(* Properties *)

Parked(t) == sys.wait[t].parked
On(t) == ToSet(sys.wait[t].on)

\* Every variable has its type.
TypeOK ==
    /\ uses \in Tests
    /\ sys.owner \in [Mutex -> Thread \cup {Free, Shared}]
    /\ \A m \in Mutex : sys.recursion[m] \in 0 .. MaxRecursion[m]
    /\ \A m \in Mutex : sys.shared_owner[m] \in [Thread -> 0 .. MaxRecursion[m]]
    /\ \A o \in Semaphore : sys.count[o] \in 0 .. MaxCount[o]
    /\ sys.state \in [Event -> BOOLEAN]
    /\ \A c \in CondVar : sys.spurious_limit[c] <= SpuriousLimit
    /\ sys.finished \subseteq Thread
    /\ sys.watched \in Thread /\ sys.last \in Object
    /\ sys.known \subseteq Thread /\ sys.order \subseteq Object
    /\ sys.outcome \in {"none", "verify", "mutex_read_to_write_upgrade", "thread_signal",
            "mutex_write_to_read_upgrade", "recursion_on_nonrecursive_mutex",
            "unlocking_mutex_wo_ownership"}

\* A parked thread is in each of the waitsets it waits in, once, and no
\* thread is in any other: none is unparked that is not parked.
WaitsetsAreOfParkedThreads ==
    \A id \in WaitsetId, t \in Thread :
        Cardinality({i \in DOMAIN sys.ws[id] : sys.ws[id][i] = t}) =
            IF Parked(t) /\ id \in Waitsets(sys.wait[t]) THEN 1 ELSE 0

\* How a lock is held: free, by its owner alone, or by the readers counted.
LocksAreHeldOnce ==
    \A m \in Mutex :
        LET readers == {t \in Thread : sys.shared_owner[m][t] > 0}
        IN  /\ sys.shared_lock_count[m] = SumFunction(sys.shared_owner[m])
            /\ sys.owner[m] = Shared <=> readers # {}
            /\ sys.recursion[m] > 0 <=> sys.owner[m] \in Thread

\* Whatever an operation wakes, and whomever it hands the processor: its thread
\* gives back at most one lock of its own, or posts to one semaphore within its
\* max_count_, and threads are granted what is free by then and nothing that
\* another still holds; only readers share a lock, which each joins and leaves in a
\* step of its own.
HS == INSTANCE Holders WITH
         Lock <- Mutex, owner <- sys.owner, count <- sys.count,
         readers <- [m \in Mutex |-> {t \in Thread : sys.shared_owner[m][t] > 0}]
ImplementsHolders == HS!Spec

\* A thread that was unparked for the lock m is about to take it, and will
\* wake another when it gives it back.
IsClaimed(m) == \E u \in Thread : ~Parked(u) /\ sys.wait[u].op = "lock" /\ sys.wait[u].on = <<m>>

\* What t waits for has come, and nobody is to have it first.
CanGoOn(t) ==
    LET w == sys.wait[t]
        has_come(o) == is_signaled(sys, o) /\ (o \in Mutex => ~IsClaimed(o))
    IN  CASE w.op = "lock_shared" -> SharedFree(sys, w.on[1]) /\ ~IsClaimed(w.on[1])
          [] w.op = "wait_all" -> \A o \in On(t) : has_come(o)
          [] w.op = "condvar" -> FALSE
          [] OTHER -> \E o \in On(t) : has_come(o)

\* No lock is before another lock, a semaphore or an auto-reset event in an array.
NoLockFirst ==
    \A on \in WaitArrays : \A i, j \in DOMAIN on :
        i < j /\ on[i] \in Mutex => on[j] \in ManualReset \cup Thread

\* No wakeup is lost: a thread is parked only while what it waits for has not
\* come, whatever locks, timeouts and waits for several objects do meanwhile.
\* This holds where NoLockFirst does: else who waits for any of several objects
\* and is handed the processor for a later one takes the lock before it if that
\* is free by then, and leaves what it was woken for to nobody.
NobodyWaitsInVain ==
    sys.outcome = "none" => \A t \in Thread : Parked(t) => ~CanGoOn(t)

\* Who takes something knows the last signal of every thread that signaled it:
\* a lock its unlocks, a semaphore its posts, an event its sets, a thread its
\* end, whichever way the wait was met.
TakersKnowTheSignals == sys.unseen = {}

\* The checks of the waits hold but for a pulse of an auto-reset event.
OnlyPulsesBreakTheChecks ==
    [][sys'.outcome = "verify" =>
        \E t \in Thread, o \in Event \ ManualReset : sys' = pulse(sys, t, o)]_vars

\* RL_VERIFY(state_ == true), RL_VERIFY(i != count): a thread that is woken
\* finds what it was woken for.
WokenThreadsFindTheirObject == sys.outcome # "verify"
=============================================================================
