--------------------------- MODULE Blocking_proof ---------------------------
(***************************************************************************)
(* Proofs about Blocking, for any threads, objects, arrays and bounds: the *)
(* waitsets hold the parked threads, locks are held once, who takes what   *)
(* was signaled knows the signal, only a pulse breaks a check, nobody      *)
(* waits in vain, and every step is one of Holders.                        *)
(***************************************************************************)
EXTENDS Blocking, Sums

-----------------------------------------------------------------------------
(* The inductive invariant, of a state s                                   *)

Outcomes ==
    {"none", "verify", "mutex_read_to_write_upgrade", "thread_signal",
     "mutex_write_to_read_upgrade", "recursion_on_nonrecursive_mutex",
     "unlocking_mutex_wo_ownership"}

\* What a thread waits for, or has waited for when it is not parked; only who is
\* not handed the processor is between the two.  Only a condition variable and a
\* semaphore wake threads spuriously.
Sensible(w) ==
    /\ \/ w = Idle
       \/ w.op = "lock" /\ \E m \in Mutex : w.on = <<m>>
       \/ w.op = "lock_shared" /\ \E m \in RwLock : w.on = <<m>>
       \/ w.op = "condvar" /\ \E c \in CondVar, m \in Mutex : w.on = <<c, m>>
       \/ w.op = "join" /\ \E u \in Thread : w.on = <<u>>
       \/ w.op = "wait" /\ w.parked /\ \E o \in Semaphore \cup Event : w.on = <<o>>
       \/ w.op \in {"wait_all", "wait_any"} /\ w.parked /\ w.on \in WaitArrays
    /\ w.spurious => w.op \in {"condvar", "wait"}

Ops == {"none", "lock", "lock_shared", "condvar", "join", "wait", "wait_all", "wait_any"}

Waits ==
    {w \in [op : Ops, on : Seq(Object), spurious : BOOLEAN, parked : BOOLEAN] : Sensible(w)}

State ==
    [owner : [Mutex -> Thread \cup {Free, Shared}], recursion : [Mutex -> Nat],
     shared_owner : [Mutex -> [Thread -> Nat]], shared_lock_count : [Mutex -> Nat],
     count : [Semaphore -> Nat], state : [Event -> BOOLEAN], spurious_limit : [CondVar -> Int],
     finished : SUBSET Thread, ws : [WaitsetId -> Seq(Thread)], wait : [Thread -> Waits],
     watched : Thread, last : Object, order : SUBSET Object, known : SUBSET Thread,
     unseen : SUBSET (Thread \X Object), outcome : Outcomes]

Bounded(s) ==
    /\ \A o \in Semaphore : s.count[o] <= MaxCount[o]
    /\ \A c \in CondVar : s.spurious_limit[c] <= SpuriousLimit

WaitsIn(w, id) == w.parked /\ id \in Waitsets(w)

Linked(s) ==
    \A id \in WaitsetId :
        /\ IsInjective(s.ws[id])
        /\ \A t \in Thread : t \in ToSet(s.ws[id]) <=> WaitsIn(s.wait[t], id)

Held(s) ==
    \A m \in Mutex :
        /\ s.shared_lock_count[m] = SumFunction(s.shared_owner[m])
        /\ s.owner[m] = Shared <=> \E t \in Thread : s.shared_owner[m][t] > 0
        /\ s.recursion[m] > 0 <=> s.owner[m] \in Thread
        /\ s.recursion[m] <= MaxRecursion[m]
        /\ \A t \in Thread : s.shared_owner[m][t] <= MaxRecursion[m]

\* Who waits for a lock can take it, and who waits no longer for a thread has
\* seen its end.
MayWait(s, t, w) ==
    /\ w.op = "lock_shared" => s.shared_owner[w.on[1]][t] = 0
    /\ w.op = "condvar" /\ s.owner[w.on[2]] = t =>
           s.recursion[w.on[2]] < MaxRecursion[w.on[2]]
    /\ w.op = "join" /\ ~w.parked => w.on[1] \in s.finished

Waiting(s) == \A t \in Thread : MayWait(s, t, s.wait[t])

\* Where the last signal was its sync_var covers it, once there is one.
Informed(s) ==
    /\ s.unseen = {}
    /\ s.last \in s.order \/ (s.last = s.watched /\ s.watched \notin s.finished)

Good(s) ==
    s \in State /\ Bounded(s) /\ Linked(s) /\ Held(s) /\ Waiting(s) /\ Informed(s)

IInv == uses \in Tests /\ Good(sys)

-----------------------------------------------------------------------------
(* sync_var                                                                *)

\* From s to r nothing but who knows the last signal has changed.
NewsOnly(s, r) ==
    /\ r \in State
    /\ r.owner = s.owner /\ r.recursion = s.recursion
    /\ r.shared_owner = s.shared_owner /\ r.shared_lock_count = s.shared_lock_count
    /\ r.count = s.count /\ r.state = s.state /\ r.spurious_limit = s.spurious_limit
    /\ r.finished = s.finished /\ r.ws = s.ws /\ r.wait = s.wait
    /\ r.watched = s.watched /\ r.outcome = s.outcome /\ r.unseen = s.unseen
    /\ r.last \in r.order \/ (r.last = s.last /\ s.order \subseteq r.order)

\* News after news are news.
LEMMA NewsOnlyTransitive ==
    ASSUME NEW s, NEW r, NEW q, NewsOnly(s, r), NewsOnly(r, q)
    PROVE  NewsOnly(s, q)
  BY DEF NewsOnly

\* The invariant does not depend on who knows, once the signal is covered.
LEMMA NewsOnlyGood ==
    ASSUME NEW s, NEW r, Good(s), NewsOnly(s, r)
    PROVE  Good(r)
  <1>1. r \in State
    BY DEF NewsOnly
  <1>2. Bounded(r)
    BY DEF NewsOnly, Good, Bounded
  <1>3. Linked(r)
    BY DEF NewsOnly, Good, Linked
  <1>4. Held(r)
    BY DEF NewsOnly, Good, Held
  <1>5. Waiting(r)
    BY DEF NewsOnly, Good, Waiting, MayWait
  <1>6. Informed(r)
    BY DEF NewsOnly, Good, Informed
  <1>. QED  BY <1>1, <1>2, <1>3, <1>4, <1>5, <1>6 DEF Good

\* The sync_var operations change nothing else.
LEMMA SyncNews ==
    ASSUME NEW s \in State, NEW t \in Thread, NEW o \in Object
    PROVE  /\ NewsOnly(s, acquire(s, t, o))
           /\ NewsOnly(s, release(s, t, o))
           /\ NewsOnly(s, acq_rel(s, t, o))
           /\ NewsOnly(s, Signal(s, t, o))
  <1>1. ASSUME NEW r \in State PROVE NewsOnly(r, acquire(r, t, o))
    BY <1>1 DEF State, acquire, NewsOnly
  <1>2. ASSUME NEW r \in State PROVE NewsOnly(r, release(r, t, o))
    BY <1>2 DEF State, release, NewsOnly
  <1>3. NewsOnly(s, acq_rel(s, t, o))
    <2>1. acquire(s, t, o) \in State
      BY <1>1 DEF NewsOnly
    <2>. QED  BY <1>1, <1>2, <2>1, NewsOnlyTransitive DEF acq_rel
  <1>4. NewsOnly(s, Signal(s, t, o))
    <2>1. CASE t = s.watched
      BY <2>1 DEF State, Signal, NewsOnly
    <2>. QED  BY <1>2, <2>1 DEF Signal
  <1>. QED  BY <1>1, <1>2, <1>3, <1>4

\* Who acquires what has been signaled knows the signal.
LEMMA TookNews ==
    ASSUME NEW s \in State, NEW t \in Thread, NEW o \in Object, s.last = o => o \in s.order
    PROVE  /\ NewsOnly(s, Took(acquire(s, t, o), t, o))
           /\ NewsOnly(s, Took(acq_rel(s, t, o), t, o))
  <1>1. acquire(s, t, o).last = s.last /\ (o \in s.order => t \in acquire(s, t, o).known)
    BY DEF State, acquire
  <1>2. acq_rel(s, t, o).last = s.last /\ (o \in s.order => t \in acq_rel(s, t, o).known)
    <2>1. acquire(s, t, o) \in State
      BY SyncNews DEF NewsOnly
    <2>. QED  BY <1>1, <2>1 DEF State, acq_rel, release
  <1>3. Took(acquire(s, t, o), t, o) = acquire(s, t, o)
    BY <1>1 DEF Took
  <1>4. Took(acq_rel(s, t, o), t, o) = acq_rel(s, t, o)
    BY <1>2 DEF Took
  <1>. QED  BY <1>3, <1>4, SyncNews

\* What is signaled was signaled before, or its sync_var covers the signal.
LEMMA SignaledIsCovered ==
    ASSUME NEW s, Good(s), NEW o \in Object, o \in Thread => o \in s.finished
    PROVE  s.last = o => o \in s.order
  BY KindAssumption DEF Good, Informed, State, Object

-----------------------------------------------------------------------------
(* Takes of one object                                                     *)

\* From s to r what is waited for has not changed, nor who has ended.
SameWaits(s, r) == r.ws = s.ws /\ r.wait = s.wait /\ r.finished = s.finished
SameLocks(s, r) ==
    /\ r.owner = s.owner /\ r.recursion = s.recursion
    /\ r.shared_owner = s.shared_owner /\ r.shared_lock_count = s.shared_lock_count
SameCounts(s, r) == r.count = s.count /\ r.state = s.state /\ r.spurious_limit = s.spurious_limit
SameNews(s, r) ==
    /\ r.watched = s.watched /\ r.last = s.last /\ r.order = s.order
    /\ r.known = s.known /\ r.unseen = s.unseen

\* Each part of the invariant depends on its part of the state alone.
LEMMA LinkedStays == ASSUME NEW s, NEW r, SameWaits(s, r), Linked(s) PROVE Linked(r)
  BY DEF Linked, SameWaits
\* How locks are held depends on the locks alone.
LEMMA HeldStays == ASSUME NEW s, NEW r, SameLocks(s, r), Held(s) PROVE Held(r)
  BY DEF Held, SameLocks
\* The bounds depend on the counts alone.
LEMMA BoundedStays == ASSUME NEW s, NEW r, SameCounts(s, r), Bounded(s) PROVE Bounded(r)
  BY DEF Bounded, SameCounts
\* What is known depends on the signals and the ends alone.
LEMMA InformedStays ==
    ASSUME NEW s, NEW r, SameNews(s, r), r.finished = s.finished, Informed(s) PROVE Informed(r)
  BY DEF Informed, SameNews
\* What a thread may wait for depends on the waits and the locks alone.
LEMMA WaitingStays ==
    ASSUME NEW s, NEW r, SameWaits(s, r), SameLocks(s, r), Waiting(s) PROVE Waiting(r)
  BY DEF Waiting, MayWait, SameWaits, SameLocks

\* From s to r t has taken the objects O, and no more.
Taken(s, r, t, O) ==
    /\ SameWaits(s, r) /\ r.outcome = s.outcome /\ r.watched = s.watched
    /\ r.shared_owner = s.shared_owner
    /\ \A m \in Mutex :
           IF m \in O THEN s.owner[m] = Free /\ r.owner[m] = t /\ r.recursion[m] = 1
           ELSE r.owner[m] = s.owner[m] /\ r.recursion[m] = s.recursion[m]
    /\ \A p \in Semaphore : r.count[p] = IF p \in O THEN s.count[p] - 1 ELSE s.count[p]
    /\ \A e \in Event : e \notin O \/ e \in ManualReset => r.state[e] = s.state[e]
    /\ \A e \in Event \ ManualReset : e \in O => ~r.state[e]

\* A free lock becomes its taker's.
LEMMA TakeMutex ==
    ASSUME NEW s, Good(s), NEW t \in Thread, NEW m \in Mutex, s.owner[m] = Free, s.wait[t] = Idle,
           NEW r, r = [s EXCEPT !.owner[m] = t, !.recursion[m] = 1]
    PROVE  Good(r) /\ Taken(s, r, t, {m})
  <1>. /\ m \notin Semaphore /\ m \notin Event /\ m \in Object
       /\ MaxRecursion[m] \in Nat \ {0} /\ t # Shared
    BY KindAssumption, BoundAssumption DEF Object
  <1>. s \in State
    BY DEF Good
  <1>1. r \in State
    BY DEF State
  <1>2. /\ SameWaits(s, r) /\ SameCounts(s, r) /\ SameNews(s, r)
        /\ r.outcome = s.outcome /\ r.shared_owner = s.shared_owner
        /\ r.shared_lock_count = s.shared_lock_count
    BY DEF State, SameWaits, SameCounts, SameNews
  <1>3. \A x \in Mutex : /\ r.owner[x] = IF x = m THEN t ELSE s.owner[x]
                         /\ r.recursion[x] = IF x = m THEN 1 ELSE s.recursion[x]
    BY DEF State
  <1>. HIDE DEF State
  <1>4. Bounded(r) /\ Linked(r) /\ Informed(r)
    BY <1>2, BoundedStays, LinkedStays, InformedStays DEF Good, SameWaits
  <1>5. Held(r)
    <2>. SUFFICES ASSUME NEW x \in Mutex
                  PROVE  /\ r.shared_lock_count[x] = SumFunction(r.shared_owner[x])
                         /\ r.owner[x] = Shared <=> \E u \in Thread : r.shared_owner[x][u] > 0
                         /\ r.recursion[x] > 0 <=> r.owner[x] \in Thread
                         /\ r.recursion[x] <= MaxRecursion[x]
                         /\ \A u \in Thread : r.shared_owner[x][u] <= MaxRecursion[x]
      BY DEF Held
    <2>1. /\ s.shared_lock_count[x] = SumFunction(s.shared_owner[x])
          /\ s.owner[x] = Shared <=> \E u \in Thread : s.shared_owner[x][u] > 0
          /\ s.recursion[x] > 0 <=> s.owner[x] \in Thread
          /\ s.recursion[x] <= MaxRecursion[x]
          /\ \A u \in Thread : s.shared_owner[x][u] <= MaxRecursion[x]
      BY DEF Good, Held
    <2>. QED  BY <1>2, <1>3, <2>1, KindAssumption
  <1>6. Waiting(r)
    <2>. SUFFICES ASSUME NEW u \in Thread, NEW w, w = s.wait[u]
                  PROVE  /\ w.op = "lock_shared" => r.shared_owner[w.on[1]][u] = 0
                         /\ w.op = "condvar" /\ r.owner[w.on[2]] = u =>
                                r.recursion[w.on[2]] < MaxRecursion[w.on[2]]
                         /\ w.op = "join" /\ ~w.parked => w.on[1] \in r.finished
      BY <1>2 DEF Waiting, MayWait, SameWaits
    <2>1. /\ w.op = "lock_shared" => s.shared_owner[w.on[1]][u] = 0
          /\ w.op = "condvar" /\ s.owner[w.on[2]] = u =>
                 s.recursion[w.on[2]] < MaxRecursion[w.on[2]]
          /\ w.op = "join" /\ ~w.parked => w.on[1] \in s.finished
      BY DEF Good, Waiting, MayWait
    <2>2. w \in Waits
      BY DEF State
    <2>3. w.op = "condvar" => w.on[2] \in Mutex
      BY <2>2 DEF Waits, Sensible, Idle
    <2>4. w.op = "condvar" => u # t
      BY DEF Idle
    <2>. QED  BY <1>2, <1>3, <2>1, <2>3, <2>4 DEF SameWaits
  <1>7. Taken(s, r, t, {m})
    BY <1>2, <1>3 DEF Taken, SameNews, SameCounts
  <1>. QED  BY <1>1, <1>4, <1>5, <1>6, <1>7 DEF Good

\* A semaphore loses a unit.
LEMMA TakeUnit ==
    ASSUME NEW s, Good(s), NEW t \in Thread, NEW o \in Semaphore, s.count[o] > 0,
           NEW r, r = [s EXCEPT !.count[o] = @ - 1]
    PROVE  Good(r) /\ Taken(s, r, t, {o})
  <1>. o \notin Mutex /\ o \notin Event
    BY KindAssumption
  <1>. s \in State
    BY DEF Good
  <1>0. s.count[o] - 1 \in Nat /\ DOMAIN s.count = Semaphore
    BY DEF State
  <1>1. r \in State
    BY <1>0 DEF State
  <1>2. /\ SameWaits(s, r) /\ SameLocks(s, r) /\ SameNews(s, r)
        /\ r.outcome = s.outcome /\ r.state = s.state /\ r.spurious_limit = s.spurious_limit
    BY DEF State, SameWaits, SameLocks, SameNews
  <1>3. \A x \in Semaphore : r.count[x] = IF x = o THEN s.count[o] - 1 ELSE s.count[x]
    BY <1>0 DEF State
  <1>4. \A x \in Semaphore : s.count[x] \in Nat /\ MaxCount[x] \in Nat
    BY BoundAssumption DEF State
  <1>. HIDE DEF State
  <1>5. Bounded(r)
    BY <1>2, <1>3, <1>4 DEF Good, Bounded
  <1>6. Linked(r) /\ Held(r) /\ Waiting(r) /\ Informed(r)
    BY <1>2, LinkedStays, HeldStays, WaitingStays, InformedStays DEF Good, SameWaits
  <1>7. Taken(s, r, t, {o})
    BY <1>2, <1>3 DEF Taken, SameLocks, SameNews
  <1>. QED  BY <1>1, <1>5, <1>6, <1>7 DEF Good

\* An auto-reset event is reset by who takes it.
LEMMA TakeEvent ==
    ASSUME NEW s, Good(s), NEW t \in Thread, NEW o \in Event \ ManualReset,
           NEW r, r = [s EXCEPT !.state[o] = FALSE]
    PROVE  Good(r) /\ Taken(s, r, t, {o})
  <1>. o \notin Mutex /\ o \notin Semaphore
    BY KindAssumption
  <1>. s \in State
    BY DEF Good
  <1>1. r \in State
    BY DEF State
  <1>2. /\ SameWaits(s, r) /\ SameLocks(s, r) /\ SameNews(s, r)
        /\ r.outcome = s.outcome /\ r.count = s.count /\ r.spurious_limit = s.spurious_limit
    BY DEF State, SameWaits, SameLocks, SameNews
  <1>3. ~r.state[o] /\ \A x \in Event : x # o => r.state[x] = s.state[x]
    BY DEF State
  <1>. HIDE DEF State
  <1>5. Bounded(r)
    BY <1>2 DEF Good, Bounded
  <1>6. Linked(r) /\ Held(r) /\ Waiting(r) /\ Informed(r)
    BY <1>2, LinkedStays, HeldStays, WaitingStays, InformedStays DEF Good, SameWaits
  <1>7. Taken(s, r, t, {o})
    <2>1. /\ \A e \in Event : e \notin {o} \/ e \in ManualReset => r.state[e] = s.state[e]
          /\ \A e \in Event \ ManualReset : e \in {o} => ~r.state[e]
      BY <1>3
    <2>2. \A x \in Mutex \cup Semaphore : x \notin {o}
      OBVIOUS
    <2>. QED  BY ONLY <1>2, <2>1, <2>2 DEF Taken, SameLocks, SameNews
  <1>. QED  BY <1>1, <1>5, <1>6, <1>7 DEF Good

\* What is waited for, kind by kind.
LEMMA SignaledKinds ==
    ASSUME NEW s, NEW o \in Object
    PROVE  /\ o \in Mutex => (is_signaled(s, o) <=> s.owner[o] = Free)
           /\ o \in Semaphore => (is_signaled(s, o) <=> s.count[o] > 0)
           /\ o \in Event => (is_signaled(s, o) <=> s.state[o])
           /\ o \in Thread => (is_signaled(s, o) <=> o \in s.finished)
  BY KindAssumption DEF is_signaled

Granted(s, t, m) == [s EXCEPT !.owner[m] = t, !.recursion[m] = 1]

\* What a take does, kind by kind.
LEMMA TakeKinds ==
    ASSUME NEW s, NEW t, NEW o \in Object
    PROVE  /\ o \in Mutex => Take(s, t, o) = Took(acquire(Granted(s, t, o), t, o), t, o)
           /\ o \in Semaphore => Take(s, t, o) =
                  Took(acq_rel([s EXCEPT !.count[o] = @ - 1], t, o), t, o)
           /\ o \in ManualReset => Take(s, t, o) = Took(acquire(s, t, o), t, o)
           /\ o \in Event \ ManualReset => Take(s, t, o) =
                  Took(acq_rel([s EXCEPT !.state[o] = FALSE], t, o), t, o)
           /\ o \in Thread => Take(s, t, o) = Took(acquire(s, t, o), t, o)
  BY KindAssumption DEF Take, Granted

\* News that follow a take change nothing of it.
LEMMA TakenNews ==
    ASSUME NEW s, NEW q, NEW r, NEW t, NEW O, Taken(s, q, t, O), NewsOnly(q, r)
    PROVE  Taken(s, r, t, O)
  BY DEF Taken, NewsOnly, SameWaits

\* A manual-reset event or a thread is as it was when it has been taken.
LEMMA TakenNothing ==
    ASSUME NEW s, NEW t, NEW o, o \notin Mutex, o \notin Semaphore,
           o \in ManualReset \/ o \notin Event
    PROVE  Taken(s, s, t, {o})
  BY DEF Taken, SameWaits

\* A signaled object is taken, and the taker knows the signal.
LEMMA TakeGood ==
    ASSUME NEW s, Good(s), NEW t \in Thread, NEW o \in Object \ CondVar, is_signaled(s, o),
           s.wait[t] = Idle
    PROVE  Good(Take(s, t, o)) /\ Taken(s, Take(s, t, o), t, {o})
  <1>1. ASSUME NEW q, Good(q), Taken(s, q, t, {o}), NEW r,
               \/ r = Took(acquire(q, t, o), t, o)
               \/ r = Took(acq_rel(q, t, o), t, o)
        PROVE  Good(r) /\ Taken(s, r, t, {o})
    <2>1. o \in Thread => o \in q.finished
      BY <1>1, SignaledKinds DEF Taken, SameWaits
    <2>2. q.last = o => o \in q.order
      BY <1>1, <2>1, SignaledIsCovered
    <2>3. NewsOnly(q, r)
      BY <1>1, <2>2, TookNews DEF Good
    <2>. QED  BY <1>1, <2>3, NewsOnlyGood, TakenNews
  <1>2. CASE o \in Mutex
    <2>. DEFINE q == Granted(s, t, o)
    <2>1. s.owner[o] = Free
      BY <1>2, SignaledKinds
    <2>2. Good(q) /\ Taken(s, q, t, {o})
      BY <1>2, <2>1, TakeMutex DEF Granted
    <2>3. Take(s, t, o) = Took(acquire(q, t, o), t, o)
      BY <1>2, TakeKinds
    <2>. HIDE DEF q
    <2>. QED  BY <1>1, <2>2, <2>3
  <1>3. CASE o \in Semaphore
    <2>. DEFINE q == [s EXCEPT !.count[o] = @ - 1]
    <2>1. s.count[o] > 0
      BY <1>3, SignaledKinds
    <2>2. Good(q) /\ Taken(s, q, t, {o})
      BY <1>3, <2>1, TakeUnit
    <2>3. Take(s, t, o) = Took(acq_rel(q, t, o), t, o)
      BY <1>3, TakeKinds
    <2>. HIDE DEF q
    <2>. QED  BY <1>1, <2>2, <2>3
  <1>4. CASE o \in Event \ ManualReset
    <2>. DEFINE q == [s EXCEPT !.state[o] = FALSE]
    <2>2. Good(q) /\ Taken(s, q, t, {o})
      BY <1>4, TakeEvent
    <2>3. Take(s, t, o) = Took(acq_rel(q, t, o), t, o)
      BY <1>4, TakeKinds
    <2>. HIDE DEF q
    <2>. QED  BY <1>1, <2>2, <2>3
  <1>5. CASE o \in ManualReset \cup Thread
    <2>1. o \notin Mutex /\ o \notin Semaphore /\ (o \in ManualReset \/ o \notin Event)
      BY <1>5, KindAssumption
    <2>2. Taken(s, s, t, {o})
      BY <2>1, TakenNothing
    <2>3. Take(s, t, o) = Took(acquire(s, t, o), t, o)
      BY <1>5, TakeKinds
    <2>. QED  BY <1>1, <2>2, <2>3
  <1>. QED  BY <1>2, <1>3, <1>4, <1>5 DEF Object

-----------------------------------------------------------------------------
(* Takes of several objects                                                *)

\* What may be waited for together.
IsArray(on) == on \in Seq(Object \ CondVar) /\ IsInjective(on)

\* The assumption on the arrays, in one word.
LEMMA ArraysAre == ASSUME NEW on \in WaitArrays PROVE IsArray(on)
  BY KindAssumption DEF IsArray, Object

\* One take after others, of another object.
LEMMA TakenMore ==
    ASSUME NEW s, NEW q, NEW r, NEW t, NEW O, NEW o, o \notin O,
           Taken(s, q, t, O), Taken(q, r, t, {o})
    PROVE  Taken(s, r, t, O \cup {o})
  BY DEF Taken, SameWaits

\* What t has not taken is still signaled.
LEMMA SignaledStays ==
    ASSUME NEW s, NEW r, NEW t, NEW O, Taken(s, r, t, O), NEW o \in Object \ CondVar, o \notin O
    PROVE  is_signaled(r, o) <=> is_signaled(s, o)
  <1>1. CASE o \in Mutex
    BY <1>1, SignaledKinds DEF Taken
  <1>2. CASE o \in Semaphore
    BY <1>2, SignaledKinds DEF Taken
  <1>3. CASE o \in Event
    BY <1>3, SignaledKinds DEF Taken
  <1>4. CASE o \in Thread
    BY <1>4, SignaledKinds DEF Taken, SameWaits
  <1>. QED  BY <1>1, <1>2, <1>3, <1>4 DEF Object

Takes(s, t, on, m, g) == g = [n \in 0 .. m |-> IF n = 0 THEN s ELSE Take(g[n - 1], t, on[n])]

\* The table of the takes exists, and TakeAll is its last entry.
LEMMA TakesExist ==
    ASSUME NEW s, NEW t, NEW on, NEW m \in Nat
    PROVE  \E g : Takes(s, t, on, m, g)
  <1>. DEFINE T == {k \in 0 .. m : \E g : Takes(s, t, on, k, g)}
  <1>1. 0 \in T
    <2>. DEFINE g == [n \in 0 .. 0 |-> s]
    <2>1. Takes(s, t, on, 0, g)
      BY DEF Takes
    <2>. QED  BY <2>1
  <1>2. ASSUME NEW k \in 0 .. m, k \in T, k < m PROVE k + 1 \in T
    <2>1. PICK g : Takes(s, t, on, k, g)
      BY <1>2
    <2>. DEFINE h == [n \in 0 .. k + 1 |-> IF n <= k THEN g[n] ELSE Take(g[k], t, on[k + 1])]
    <2>2. \A n \in 0 .. k + 1 : h[n] = IF n = 0 THEN s ELSE Take(h[n - 1], t, on[n])
      <3>. SUFFICES ASSUME NEW n \in 0 .. k + 1
                    PROVE  h[n] = IF n = 0 THEN s ELSE Take(h[n - 1], t, on[n])
        OBVIOUS
      <3>1. CASE n <= k
        BY <2>1, <3>1 DEF Takes
      <3>2. CASE n = k + 1
        BY <3>2
      <3>. QED  BY <3>1, <3>2
    <2>3. Takes(s, t, on, k + 1, h)
      <3>1. h = [n \in 0 .. k + 1 |-> h[n]]
        OBVIOUS
      <3>. HIDE DEF h
      <3>. QED  BY <2>2, <3>1 DEF Takes
    <2>. QED  BY <1>2, <2>3
  <1>. HIDE DEF T
  <1>3. m \in T
    BY <1>1, <1>2, UpTo
  <1>. QED  BY <1>3 DEF T

\* TakeAll is the last entry of the table.
LEMMA TakeAllTakes ==
    ASSUME NEW s, NEW t, NEW on, Len(on) \in Nat
    PROVE  \E g : /\ TakeAll(s, t, on) = g[Len(on)]
                  /\ g[0] = s
                  /\ \A n \in 1 .. Len(on) : g[n] = Take(g[n - 1], t, on[n])
  <1>. DEFINE g == CHOOSE f : Takes(s, t, on, Len(on), f)
  <1>1. Takes(s, t, on, Len(on), g)
    BY TakesExist
  <1>2. TakeAll(s, t, on) = (CHOOSE f : Takes(s, t, on, Len(on), f))[Len(on)]
    BY Zenon DEF TakeAll, Takes
  <1>. HIDE DEF g
  <1>3. g[0] = s /\ \A n \in 1 .. Len(on) : g[n] = Take(g[n - 1], t, on[n])
    BY <1>1 DEF Takes
  <1>. QED  BY <1>2, <1>3 DEF g

\* All objects of an array are taken, when all are signaled.
LEMMA TakeAllGood ==
    ASSUME NEW s, Good(s), NEW t \in Thread, s.wait[t] = Idle, NEW on, IsArray(on),
           AllSignaled(s, on)
    PROVE  Good(TakeAll(s, t, on)) /\ Taken(s, TakeAll(s, t, on), t, ToSet(on))
  <1>. DEFINE m == Len(on)
  <1>0. m \in Nat /\ DOMAIN on = 1 .. m
    BY DEF IsArray
  <1>1. PICK g : /\ TakeAll(s, t, on) = g[m]
                 /\ g[0] = s
                 /\ \A n \in 1 .. m : g[n] = Take(g[n - 1], t, on[n])
    BY <1>0, TakeAllTakes
  <1>. DEFINE First(n) == {on[j] : j \in 1 .. n}
              T == {n \in 0 .. m : Good(g[n]) /\ Taken(s, g[n], t, First(n))}
  <1>2. 0 \in T
    <2>1. Taken(s, s, t, {}) /\ First(0) = {}
      BY DEF Taken, SameWaits
    <2>. QED  BY <1>0, <1>1, <2>1
  <1>3. ASSUME NEW n \in 0 .. m, n \in T, n < m PROVE n + 1 \in T
    <2>. DEFINE o == on[n + 1]
    <2>0. n + 1 \in 1 .. m /\ n + 1 - 1 = n
      BY <1>0, <1>3
    <2>1. o \in Object \ CondVar /\ o \notin First(n)
      BY <1>0, <2>0 DEF IsArray, IsInjective
    <2>2. First(n + 1) = First(n) \cup {o}
      BY <1>0, <2>0
    <2>3. is_signaled(s, o)
      BY <1>0, <2>0 DEF AllSignaled
    <2>. HIDE DEF First, o
    <2>4. Good(g[n]) /\ Taken(s, g[n], t, First(n))
      BY <1>3
    <2>5. is_signaled(g[n], o)
      BY <2>1, <2>3, <2>4, SignaledStays
    <2>9. g[n].wait[t] = Idle
      BY <2>4 DEF Taken, SameWaits
    <2>6. g[n + 1] = Take(g[n], t, o)
      BY <1>1, <2>0 DEF o
    <2>7. Good(g[n + 1]) /\ Taken(g[n], g[n + 1], t, {o})
      BY <2>1, <2>4, <2>5, <2>6, <2>9, TakeGood
    <2>8. Taken(s, g[n + 1], t, First(n + 1))
      BY <2>1, <2>2, <2>4, <2>7, TakenMore
    <2>. QED  BY <1>0, <2>0, <2>7, <2>8
  <1>4. m \in T
    <2>. HIDE DEF T
    <2>1. 0 .. m \subseteq T
      BY <1>0, <1>2, <1>3, UpTo
    <2>. QED  BY <1>0, <2>1
  <1>5. First(m) = ToSet(on)
    BY <1>0 DEF ToSet
  <1>. QED  BY <1>1, <1>4, <1>5

-----------------------------------------------------------------------------
(* Takes of what a thread has waited for                                   *)

\* The objects a wait takes: all of them, or one, before which none is signaled.
MeetsWith(s, op, on, O) ==
    \/ op = "wait_all" /\ O = ToSet(on)
    \/ /\ op # "wait_all"
       /\ \E i \in DOMAIN on : /\ O = {on[i]} /\ is_signaled(s, on[i])
                               /\ \A j \in 1 .. i - 1 : ~is_signaled(s, on[j])

\* A wait that may take its objects takes them.
LEMMA TakeThemGood ==
    ASSUME NEW s, Good(s), NEW t \in Thread, s.wait[t] = Idle, NEW on, IsArray(on), NEW op,
           MayTake(s, op, on)
    PROVE  /\ Good(TakeThem(s, t, op, on))
           /\ \E O : Taken(s, TakeThem(s, t, op, on), t, O) /\ MeetsWith(s, op, on, O)
  <1>1. CASE op = "wait_all"
    BY <1>1, TakeAllGood DEF TakeThem, MayTake, MeetsWith
  <1>2. CASE op # "wait_all"
    <2>. DEFINE R == {i \in DOMAIN on : is_signaled(s, on[i])}
    <2>0. DOMAIN on \subseteq Nat
      BY DEF IsArray
    <2>1. R # {}
      BY <1>2 DEF MayTake
    <2>2. PICK i \in R : \A j \in R : i <= j
      <3>. HIDE DEF R
      <3>1. R \subseteq Nat
        BY <2>0 DEF R
      <3>. QED  BY <2>1, <3>1, LeastNatural
    <2>3. \A j \in 1 .. i - 1 : ~is_signaled(s, on[j])
      <3>. SUFFICES ASSUME NEW j \in 1 .. i - 1, is_signaled(s, on[j]) PROVE FALSE
        OBVIOUS
      <3>1. i \in DOMAIN on /\ DOMAIN on = 1 .. Len(on) /\ Len(on) \in Nat
        BY DEF IsArray
      <3>2. j \in R /\ ~(i <= j)
        BY <3>1
      <3>. QED  BY <2>2, <3>2
    <2>. DEFINE c == CHOOSE k \in DOMAIN on :
                         is_signaled(s, on[k]) /\ \A j \in 1 .. k - 1 : ~is_signaled(s, on[j])
    <2>4. c \in DOMAIN on /\ is_signaled(s, on[c]) /\ \A j \in 1 .. c - 1 : ~is_signaled(s, on[j])
      BY <2>2, <2>3
    <2>5. FirstSignaled(s, on) = on[c]
      BY DEF FirstSignaled
    <2>. HIDE DEF c
    <2>6. on[c] \in Object \ CondVar
      BY <2>4 DEF IsArray
    <2>7. TakeThem(s, t, op, on) = Take(s, t, on[c])
      BY <1>2, <2>5 DEF TakeThem
    <2>8. MeetsWith(s, op, on, {on[c]})
      BY <1>2, <2>4 DEF MeetsWith
    <2>. QED  BY <2>4, <2>6, <2>7, <2>8, TakeGood
  <1>. QED  BY <1>1, <1>2

-----------------------------------------------------------------------------
(* Who is left alone                                                       *)

\* The threads that share each lock.
ReadersIn(s) == [m \in Mutex |-> {t \in Thread : s.shared_owner[m][t] > 0}]

\* From s to r threads have taken locks and units that were free, and nobody has given
\* back anything.
Grants(s, r) ==
    /\ ReadersIn(r) = ReadersIn(s)
    /\ \A m \in Mutex : \/ r.owner[m] = s.owner[m]
                        \/ s.owner[m] = Free /\ r.owner[m] \in Thread
    /\ \A p \in Semaphore : \A n \in Nat : s.count[p] <= n => r.count[p] <= n

\* What two steps grant was free before both.
LEMMA GrantsTransitive ==
    ASSUME NEW s, NEW q, NEW r, Grants(s, q), Grants(q, r)
    PROVE  Grants(s, r)
  <1>1. ASSUME NEW m \in Mutex
        PROVE  r.owner[m] = s.owner[m] \/ (s.owner[m] = Free /\ r.owner[m] \in Thread)
    BY KindAssumption DEF Grants
  <1>2. ASSUME NEW p \in Semaphore, NEW n \in Nat, s.count[p] <= n PROVE r.count[p] <= n
    BY <1>2 DEF Grants
  <1>. QED  BY <1>1, <1>2 DEF Grants

\* From s to r only what the threads T wait for and own may have changed, and what
\* is set for good stays set.
Spares(T, s, r) ==
    /\ \A u \in Thread \ T : r.wait[u] = s.wait[u]
    /\ \A u \in Thread \ T, m \in Mutex :
           r.owner[m] = u => s.owner[m] = u /\ r.recursion[m] = s.recursion[m]
    /\ Grants(s, r) /\ r.finished = s.finished
    /\ \A e \in ManualReset : s.state[e] => r.state[e]

\* Who is left alone by two steps is left alone by both.
LEMMA SparesTransitive ==
    ASSUME NEW s, NEW q, NEW r, NEW T, NEW U, Spares(T, s, q), Spares(U, q, r)
    PROVE  Spares(T \cup U, s, r)
  <1>1. Grants(s, r)
    BY GrantsTransitive DEF Spares
  <1>. QED  BY <1>1 DEF Spares

\* Fewer may be left alone.
LEMMA SparesMore ==
    ASSUME NEW s, NEW r, NEW T, NEW U, Spares(T, s, r), T \subseteq U
    PROVE  Spares(U, s, r)
  BY DEF Spares

\* Nothing disturbs nobody.
LEMMA SparesItself == ASSUME NEW s, NEW T PROVE Spares(T, s, s)
  BY DEF Spares, Grants

\* A take takes what was free.
LEMMA TakenGrants ==
    ASSUME NEW s \in State, NEW r, NEW t \in Thread, NEW O, Taken(s, r, t, O)
    PROVE  Grants(s, r)
  <1>1. \A p \in Semaphore : s.count[p] \in Nat
    BY DEF State
  <1>2. ASSUME NEW p \in Semaphore, NEW n \in Nat, s.count[p] <= n PROVE r.count[p] <= n
    BY <1>1, <1>2 DEF Taken
  <1>3. /\ ReadersIn(r) = ReadersIn(s)
        /\ \A m \in Mutex : \/ r.owner[m] = s.owner[m]
                            \/ s.owner[m] = Free /\ r.owner[m] \in Thread
    BY DEF Taken, ReadersIn
  <1>. QED  BY <1>2, <1>3 DEF Grants

\* A take disturbs its taker only.
LEMMA TakenSpares ==
    ASSUME NEW s \in State, NEW r, NEW t \in Thread, NEW O, Taken(s, r, t, O)
    PROVE  Spares({t}, s, r)
  <1>1. Grants(s, r)
    BY TakenGrants
  <1>. QED  BY <1>1, KindAssumption DEF Taken, Spares, SameWaits

\* Where the locks and the counts are as before nothing was granted.
LEMMA GrantsNothing ==
    ASSUME NEW s, NEW r, r.owner = s.owner, r.shared_owner = s.shared_owner, r.count = s.count
    PROVE  Grants(s, r)
  BY DEF Grants, ReadersIn

\* News disturb nobody.
LEMMA NewsOnlySpares ==
    ASSUME NEW s, NEW r, NewsOnly(s, r)
    PROVE  Spares({}, s, r)
  BY GrantsNothing DEF NewsOnly, Spares

\* No semaphore has lost more than one unit.
CountsLeft(s, r) == \A p \in Semaphore : r.count[p] >= s.count[p] - 1

\* A take takes one unit at most of each semaphore.
LEMMA TakenLeaves ==
    ASSUME NEW s, s \in State, NEW r, NEW t, NEW O, Taken(s, r, t, O)
    PROVE  CountsLeft(s, r)
  <1>1. \A p \in Semaphore : s.count[p] \in Nat
    BY DEF State
  <1>. QED  BY <1>1 DEF Taken, CountsLeft

-----------------------------------------------------------------------------
(* waitset                                                                 *)

\* A thread is unlinked from a list it is in.
LEMMA UnlinkFacts ==
    ASSUME NEW q \in Seq(Thread), IsInjective(q), NEW t \in ToSet(q)
    PROVE  /\ unlink(q, t) \in Seq(Thread)
           /\ IsInjective(unlink(q, t))
           /\ ToSet(unlink(q, t)) = ToSet(q) \ {t}
  <1>. DEFINE i == CHOOSE j \in DOMAIN q : q[j] = t
              r == RemoveAt(q, i)
  <1>1. i \in 1 .. Len(q) /\ q[i] = t /\ Len(q) \in Nat /\ DOMAIN q = 1 .. Len(q)
    BY DEF ToSet
  <1>. HIDE DEF i
  <1>2. /\ r \in Seq(Thread) /\ Len(r) = Len(q) - 1
        /\ \A j \in 1 .. Len(q) - 1 : r[j] = IF j < i THEN q[j] ELSE q[j + 1]
    <2>. DEFINE a == SubSeq(q, 1, i - 1)
                b == SubSeq(q, i + 1, Len(q))
    <2>1. /\ a \in Seq(Thread) /\ Len(a) = i - 1 /\ \A j \in 1 .. i - 1 : a[j] = q[j]
      BY <1>1
    <2>2. /\ b \in Seq(Thread) /\ Len(b) = Len(q) - i
          /\ \A j \in 1 .. Len(q) - i : b[j] = q[i + j]
      <3>1. b \in Seq(Thread)
        BY <1>1
      <3>2. b = [j \in 1 .. Len(q) - (i + 1) + 1 |-> q[i + 1 + j - 1]]
        BY <1>1 DEF SubSeq
      <3>. HIDE DEF b
      <3>3. Len(q) - (i + 1) + 1 = Len(q) - i /\ Len(q) - i \in Nat
        BY <1>1
      <3>4. \A j \in 1 .. Len(q) - i : i + 1 + j - 1 = i + j
        BY <1>1
      <3>. QED  BY <3>1, <3>2, <3>3, <3>4
    <2>. HIDE DEF a, b
    <2>3. r = a \o b
      BY DEF RemoveAt, a, b
    <2>4. r \in Seq(Thread) /\ Len(r) = Len(a) + Len(b)
      BY <2>1, <2>2, <2>3
    <2>5. \A j \in 1 .. Len(a) + Len(b) : r[j] = IF j <= Len(a) THEN a[j] ELSE b[j - Len(a)]
      BY <2>1, <2>2, <2>3
    <2>. HIDE DEF r
    <2>6. ASSUME NEW j \in 1 .. Len(q) - 1 PROVE r[j] = IF j < i THEN q[j] ELSE q[j + 1]
      <3>1. CASE j < i
        <4>1. j \in 1 .. i - 1 /\ j \in 1 .. Len(a) + Len(b) /\ j <= Len(a)
          BY <1>1, <2>1, <2>2, <3>1
        <4>. QED  BY <2>1, <2>5, <3>1, <4>1
      <3>2. CASE ~(j < i)
        <4>1. /\ j \in 1 .. Len(a) + Len(b) /\ ~(j <= Len(a)) /\ j - Len(a) = j - i + 1
              /\ j - i + 1 \in 1 .. Len(q) - i /\ i + (j - i + 1) = j + 1
          BY <1>1, <2>1, <2>2, <3>2
        <4>2. r[j] = b[j - i + 1]
          BY <2>5, <4>1
        <4>3. b[j - i + 1] = q[j + 1]
          BY <2>2, <4>1
        <4>. QED  BY <3>2, <4>2, <4>3
      <3>. QED  BY <3>1, <3>2
    <2>. QED  BY <1>1, <2>1, <2>2, <2>4, <2>6
  <1>3. unlink(q, t) = r
    BY DEF unlink, i
  <1>. HIDE DEF r
  <1>4. DOMAIN r = 1 .. Len(q) - 1
    BY <1>2
  <1>5. IsInjective(r)
    <2>. SUFFICES ASSUME NEW j \in DOMAIN r, NEW k \in DOMAIN r, r[j] = r[k] PROVE j = k
      BY DEF IsInjective
    <2>. DEFINE at(n) == IF n < i THEN n ELSE n + 1
    <2>1. /\ at(j) \in DOMAIN q /\ at(k) \in DOMAIN q
          /\ r[j] = q[at(j)] /\ r[k] = q[at(k)]
      BY <1>1, <1>2, <1>4
    <2>2. at(j) = at(k)
      <3>. HIDE DEF at
      <3>. QED  BY <2>1 DEF IsInjective
    <2>. QED  BY <1>1, <1>4, <2>2
  <1>6. ASSUME NEW u \in ToSet(r) PROVE u \in ToSet(q) \ {t}
    <2>1. PICK j \in 1 .. Len(q) - 1 : r[j] = u
      BY <1>4 DEF ToSet
    <2>. DEFINE k == IF j < i THEN j ELSE j + 1
    <2>2. k \in DOMAIN q /\ k # i /\ q[k] = u
      BY <1>1, <1>2, <2>1
    <2>. HIDE DEF k
    <2>. QED  BY <1>1, <2>2 DEF IsInjective, ToSet
  <1>7. ASSUME NEW u \in ToSet(q), u # t PROVE u \in ToSet(r)
    <2>1. PICK k \in 1 .. Len(q) : q[k] = u
      BY <1>1 DEF ToSet
    <2>. DEFINE j == IF k < i THEN k ELSE k - 1
    <2>2. j \in 1 .. Len(q) - 1 /\ r[j] = u
      BY <1>1, <1>2, <1>7, <2>1
    <2>. HIDE DEF j
    <2>. QED  BY <1>4, <2>2 DEF ToSet
  <1>. QED  BY <1>2, <1>3, <1>5, <1>6, <1>7

\* A thread is appended to a list it is not in.
LEMMA AppendFacts ==
    ASSUME NEW q \in Seq(Thread), IsInjective(q), NEW t \in Thread, t \notin ToSet(q)
    PROVE  /\ Append(q, t) \in Seq(Thread)
           /\ IsInjective(Append(q, t))
           /\ ToSet(Append(q, t)) = ToSet(q) \cup {t}
  <1>. DEFINE r == Append(q, t)
  <1>1. /\ r \in Seq(Thread) /\ DOMAIN r = 1 .. Len(q) + 1 /\ Len(q) \in Nat
        /\ DOMAIN q = 1 .. Len(q)
        /\ \A j \in 1 .. Len(q) : r[j] = q[j]
        /\ r[Len(q) + 1] = t
    OBVIOUS
  <1>. HIDE DEF r
  <1>2. IsInjective(r)
    <2>. SUFFICES ASSUME NEW j \in DOMAIN r, NEW k \in DOMAIN r, r[j] = r[k] PROVE j = k
      BY DEF IsInjective
    <2>1. CASE j \in 1 .. Len(q) /\ k \in 1 .. Len(q)
      BY <1>1, <2>1 DEF IsInjective
    <2>2. \A n \in 1 .. Len(q) : r[n] # t
      BY <1>1 DEF ToSet
    <2>. QED  BY <1>1, <2>1, <2>2
  <1>3. ToSet(r) = ToSet(q) \cup {t}
    <2>1. \A n \in 1 .. Len(q) + 1 : n \in 1 .. Len(q) \/ n = Len(q) + 1
      BY <1>1
    <2>2. \A n \in 1 .. Len(q) : n \in 1 .. Len(q) + 1
      BY <1>1
    <2>3. Len(q) + 1 \in 1 .. Len(q) + 1
      BY <1>1
    <2>. QED  BY <1>1, <2>1, <2>2, <2>3 DEF ToSet
  <1>. QED  BY <1>1, <1>2, <1>3 DEF r

\* From s to r nothing but what t waits for has changed, which is now w.
NowWaits(s, r, t, w) ==
    /\ SameLocks(s, r) /\ SameCounts(s, r) /\ SameNews(s, r)
    /\ r.finished = s.finished /\ r.outcome = s.outcome
    /\ \A u \in Thread : r.wait[u] = IF u = t THEN w ELSE s.wait[u]

\* A change of what one thread waits for is right when the waitsets follow it.
LEMMA NowWaitsGood ==
    ASSUME NEW s, Good(s), NEW t \in Thread, NEW w, MayWait(s, t, w), NEW r \in State, Linked(r),
           NowWaits(s, r, t, w)
    PROVE  Good(r)
  <1>1. Bounded(r) /\ Held(r) /\ Informed(r)
    BY BoundedStays, HeldStays, InformedStays DEF Good, NowWaits
  <1>2. Waiting(r)
    BY DEF Good, NowWaits, Waiting, MayWait, SameLocks
  <1>. QED  BY <1>1, <1>2 DEF Good

\* It disturbs that thread only.
LEMMA NowWaitsSpares ==
    ASSUME NEW s, NEW t, NEW w, NEW r, NowWaits(s, r, t, w)
    PROVE  Spares({t}, s, r)
  <1>1. \A e \in ManualReset : s.state[e] => r.state[e]
    BY DEF NowWaits, SameCounts
  <1>2. Grants(s, r)
    BY GrantsNothing DEF NowWaits, SameLocks, SameCounts
  <1>. QED  BY <1>1, <1>2 DEF NowWaits, Spares, SameLocks

\* What is signaled depends on neither.
LEMMA SignaledAlike ==
    ASSUME NEW s, NEW r, NEW t, NEW w, NowWaits(s, r, t, w), NEW o
    PROVE  is_signaled(r, o) = is_signaled(s, o)
  BY DEF NowWaits, is_signaled, SameLocks, SameCounts

\* To wait for nothing is always right.
LEMMA IdleFacts ==
    /\ Idle \in Waits /\ ~Idle.parked
    /\ \A s, t : MayWait(s, t, Idle)
  <1>1. Idle \in [op : Ops, on : Seq(Object), spurious : BOOLEAN, parked : BOOLEAN]
    <2>1. <<>> \in Seq(Object)
      OBVIOUS
    <2>. QED  BY <2>1 DEF Idle, Ops
  <1>2. Idle.op = "none" /\ ~Idle.parked /\ ~Idle.spurious
    BY DEF Idle
  <1>. QED  BY <1>1, <1>2 DEF Waits, Sensible, MayWait

\* A thread that has parked leaves all the waitsets it is in.
LEMMA LeaveGood ==
    ASSUME NEW s, Good(s), NEW t \in Thread, s.wait[t].parked, NEW w \in Waits, ~w.parked,
           MayWait(s, t, w), NEW r, r = [remove(s, t) EXCEPT !.wait[t] = w]
    PROVE  Good(r) /\ NowWaits(s, r, t, w)
  <1>. s \in State
    BY DEF Good
  <1>. DEFINE ids == Waitsets(s.wait[t])
              list == [id \in WaitsetId |-> IF id \in ids THEN unlink(s.ws[id], t) ELSE s.ws[id]]
  <1>1. \A id \in WaitsetId : /\ s.ws[id] \in Seq(Thread) /\ IsInjective(s.ws[id])
                              /\ id \in ids <=> t \in ToSet(s.ws[id])
    <2>1. \A id \in WaitsetId : s.ws[id] \in Seq(Thread)
      BY DEF State
    <2>. QED  BY <2>1 DEF Good, Linked, WaitsIn
  <1>2. \A id \in WaitsetId : /\ list[id] \in Seq(Thread) /\ IsInjective(list[id])
                              /\ ToSet(list[id]) = ToSet(s.ws[id]) \ {t}
    <2>. SUFFICES ASSUME NEW id \in WaitsetId
                  PROVE  /\ list[id] \in Seq(Thread) /\ IsInjective(list[id])
                         /\ ToSet(list[id]) = ToSet(s.ws[id]) \ {t}
      OBVIOUS
    <2>. HIDE DEF ids
    <2>1. CASE id \in ids
      BY <1>1, <2>1, UnlinkFacts
    <2>2. CASE id \notin ids
      BY <1>1, <2>2
    <2>. QED  BY <2>1, <2>2
  <1>3. list \in [WaitsetId -> Seq(Thread)]
    BY <1>2
  <1>4. remove(s, t) = [s EXCEPT !.ws = list]
    BY DEF remove
  <1>. HIDE DEF list
  <1>5. /\ r \in State /\ r.ws = list /\ NowWaits(s, r, t, w)
    BY <1>3, <1>4 DEF State, NowWaits, SameLocks, SameCounts, SameNews
  <1>6. Linked(r)
    <2>. SUFFICES ASSUME NEW id \in WaitsetId
                  PROVE  /\ IsInjective(r.ws[id])
                         /\ \A u \in Thread : u \in ToSet(r.ws[id]) <=> WaitsIn(r.wait[u], id)
      BY DEF Linked
    <2>1. \A u \in Thread : u \in ToSet(s.ws[id]) <=> WaitsIn(s.wait[u], id)
      BY DEF Good, Linked
    <2>2. ~WaitsIn(w, id)
      BY DEF WaitsIn
    <2>3. \A u \in Thread : r.wait[u] = IF u = t THEN w ELSE s.wait[u]
      BY <1>5 DEF NowWaits
    <2>. QED  BY <1>2, <1>5, <2>1, <2>2, <2>3
  <1>. QED  BY <1>5, <1>6, NowWaitsGood

\* A thread that parks enters them.
LEMMA ParkGood ==
    ASSUME NEW s, Good(s), NEW t \in Thread, s.wait[t] = Idle, NEW w \in Waits, w.parked,
           MayWait(s, t, w)
    PROVE  Good(Park(s, t, w)) /\ NowWaits(s, Park(s, t, w), t, w)
  <1>. s \in State
    BY DEF Good
  <1>. DEFINE r == Park(s, t, w)
              ids == Waitsets(w)
              list == [id \in WaitsetId |-> IF id \in ids THEN Append(s.ws[id], t) ELSE s.ws[id]]
  <1>1. \A id \in WaitsetId : /\ s.ws[id] \in Seq(Thread) /\ IsInjective(s.ws[id])
                              /\ t \notin ToSet(s.ws[id])
    <2>1. \A id \in WaitsetId : s.ws[id] \in Seq(Thread)
      BY DEF State
    <2>. QED  BY <2>1, IdleFacts DEF Good, Linked, WaitsIn
  <1>2. \A id \in WaitsetId :
            /\ list[id] \in Seq(Thread) /\ IsInjective(list[id])
            /\ ToSet(list[id]) = IF id \in ids THEN ToSet(s.ws[id]) \cup {t} ELSE ToSet(s.ws[id])
    <2>. SUFFICES ASSUME NEW id \in WaitsetId
                  PROVE  /\ list[id] \in Seq(Thread) /\ IsInjective(list[id])
                         /\ ToSet(list[id]) =
                                IF id \in ids THEN ToSet(s.ws[id]) \cup {t} ELSE ToSet(s.ws[id])
      OBVIOUS
    <2>. HIDE DEF ids
    <2>1. CASE id \in ids
      <3>1. list[id] = Append(s.ws[id], t)
        BY <2>1
      <3>. HIDE DEF list
      <3>. QED  BY <1>1, <2>1, <3>1, AppendFacts
    <2>2. CASE id \notin ids
      BY <1>1, <2>2
    <2>. QED  BY <2>1, <2>2
  <1>3. list \in [WaitsetId -> Seq(Thread)]
    BY <1>2
  <1>4. r = [s EXCEPT !.wait[t] = w, !.ws = list]
    BY DEF Park
  <1>. HIDE DEF list, r
  <1>5. /\ r \in State /\ r.ws = list /\ NowWaits(s, r, t, w)
    BY <1>3, <1>4 DEF State, NowWaits, SameLocks, SameCounts, SameNews
  <1>6. Linked(r)
    <2>. SUFFICES ASSUME NEW id \in WaitsetId
                  PROVE  /\ IsInjective(r.ws[id])
                         /\ \A u \in Thread : u \in ToSet(r.ws[id]) <=> WaitsIn(r.wait[u], id)
      BY DEF Linked
    <2>1. \A u \in Thread : u \in ToSet(s.ws[id]) <=> WaitsIn(s.wait[u], id)
      BY DEF Good, Linked
    <2>2. WaitsIn(w, id) <=> id \in ids
      BY DEF WaitsIn
    <2>3. \A u \in Thread : r.wait[u] = IF u = t THEN w ELSE s.wait[u]
      BY <1>5 DEF NowWaits
    <2>. QED  BY <1>1, <1>2, <1>5, <2>1, <2>2, <2>3
  <1>. QED  BY <1>5, <1>6, NowWaitsGood DEF r

-----------------------------------------------------------------------------
(* Who is unparked                                                         *)

\* The verdict on the test is apart from all else.
LEMMA OutcomeGood ==
    ASSUME NEW s, Good(s), NEW x \in Outcomes, NEW r, r = [s EXCEPT !.outcome = x]
    PROVE  Good(r) /\ Spares({}, s, r) /\ CountsLeft(s, r) /\ r.outcome = x
  <1>. s \in State
    BY DEF Good
  <1>1. /\ r \in State /\ SameWaits(s, r) /\ SameLocks(s, r) /\ SameCounts(s, r)
        /\ SameNews(s, r) /\ r.outcome = x
    BY DEF State, SameWaits, SameLocks, SameCounts, SameNews
  <1>2. Good(r)
    BY <1>1, LinkedStays, HeldStays, BoundedStays, WaitingStays, InformedStays
       DEF Good, SameWaits
  <1>3. Spares({}, s, r)
    BY <1>1, GrantsNothing DEF Spares, SameWaits, SameLocks, SameCounts
  <1>4. CountsLeft(s, r)
    <2>1. \A p \in Semaphore : s.count[p] \in Nat
      BY DEF State
    <2>. QED  BY <1>1, <2>1 DEF CountsLeft, SameCounts
  <1>. QED  BY <1>1, <1>2, <1>3, <1>4

\* Who is handed the processor finds what it waits for.
Met(s, t) == HandsOver(s.wait[t]) => MayTake(s, s.wait[t].op, s.wait[t].on)

\* t has left its waitsets, and no check fails if what it waits for is there.
Woken(s, r, t) ==
    Good(r) /\ Spares({t}, s, r) /\ CountsLeft(s, r) /\ (Met(s, t) => r.outcome = s.outcome)

\* What a thread waits for that is handed the processor is an array of objects.
LEMMA HandedOver ==
    ASSUME NEW w \in Waits, HandsOver(w)
    PROVE  IsArray(w.on)
  <1>1. CASE w.op = "wait"
    <2>1. PICK o \in Semaphore \cup Event : w.on = <<o>>
      BY <1>1, IdleFacts DEF Waits, Sensible, Idle
    <2>2. o \in Object \ CondVar
      BY KindAssumption DEF Object
    <2>3. <<o>> \in Seq(Object \ CondVar) /\ DOMAIN <<o>> = {1}
      BY <2>2
    <2>. QED  BY <2>1, <2>3 DEF IsArray, IsInjective
  <1>2. CASE w.op \in {"wait_all", "wait_any"}
    <2>1. w.on \in WaitArrays
      BY <1>2 DEF Waits, Sensible, Idle
    <2>. QED  BY <2>1, ArraysAre
  <1>. QED  BY <1>1, <1>2 DEF HandsOver

\* A thread is handed the processor and takes what it waits for.
LEMMA HandOverGood ==
    ASSUME NEW s, Good(s), NEW t \in Thread, s.wait[t] = Idle, NEW w \in Waits, HandsOver(w),
           NEW r, r = HandOver(s, t, w)
    PROVE  /\ Good(r) /\ Spares({t}, s, r) /\ CountsLeft(s, r)
           /\ MayTake(s, w.op, w.on) => r.outcome = s.outcome
  <1>1. CASE MayTake(s, w.op, w.on)
    <2>1. r = TakeThem(s, t, w.op, w.on)
      BY <1>1 DEF HandOver
    <2>2. IsArray(w.on)
      BY HandedOver
    <2>3. Good(r) /\ \E O : Taken(s, r, t, O)
      BY <1>1, <2>1, <2>2, TakeThemGood
    <2>4. r.outcome = s.outcome
      BY <2>3 DEF Taken
    <2>. QED  BY <2>3, <2>4, TakenSpares, TakenLeaves DEF Good
  <1>2. CASE ~MayTake(s, w.op, w.on)
    <2>1. r = [s EXCEPT !.outcome = "verify"]
      BY <1>2 DEF HandOver
    <2>2. "verify" \in Outcomes
      BY DEF Outcomes
    <2>3. Good(r) /\ Spares({}, s, r) /\ CountsLeft(s, r)
      BY <2>1, <2>2, OutcomeGood
    <2>. QED  BY <1>2, <2>3, SparesMore
  <1>. QED  BY <1>1, <1>2

\* What an unpark does: t leaves its waitsets, and is handed the processor or will
\* go on.
UnparkIs(s, r, t, w) ==
    IF HandsOver(w)
      THEN \E q : Good(q) /\ NowWaits(s, q, t, Idle) /\ r = HandOver(q, t, w)
      ELSE \E v : NowWaits(s, r, t, v) /\ v.op = w.op /\ v.on = w.on /\ ~v.parked

\* It does so to any thread that is parked.
LEMMA UnparkIsSo ==
    ASSUME NEW s, Good(s), NEW t \in Thread, s.wait[t].parked,
           s.wait[t].op = "join" => s.wait[t].on[1] \in s.finished
    PROVE  /\ UnparkIs(s, Unpark(s, t), t, s.wait[t])
           /\ ~HandsOver(s.wait[t]) => Good(Unpark(s, t))
  <1>. DEFINE w == s.wait[t]
              r == Unpark(s, t)
  <1>0. w \in Waits /\ DOMAIN s.wait = Thread /\ s \in State
    BY DEF Good, State
  <1>. HIDE DEF w
  <1>1. CASE HandsOver(w)
    <2>. DEFINE q == [remove(s, t) EXCEPT !.wait[t] = Idle]
    <2>1. Good(q) /\ NowWaits(s, q, t, Idle)
      BY IdleFacts, LeaveGood
    <2>2. r = HandOver(q, t, w)
      BY <1>1 DEF Unpark, w
    <2>. HIDE DEF q, r
    <2>. QED  BY <1>1, <2>1, <2>2 DEF UnparkIs, w, r
  <1>2. CASE ~HandsOver(w)
    <2>. DEFINE v == [w EXCEPT !.parked = FALSE]
    <2>1. /\ v.op = w.op /\ v.on = w.on /\ v.spurious = w.spurious /\ ~v.parked
          /\ v \in [op : Ops, on : Seq(Object), spurious : BOOLEAN, parked : BOOLEAN]
      BY <1>0 DEF Waits
    <2>. HIDE DEF v
    <2>2. Sensible(v)
      <3>1. w # Idle
        BY IdleFacts DEF w
      <3>. QED  BY <1>0, <1>2, <2>1, <3>1 DEF Waits, Sensible, HandsOver
    <2>3. v \in Waits
      BY <2>1, <2>2 DEF Waits
    <2>4. MayWait(s, t, v)
      <3>1. MayWait(s, t, w)
        BY DEF Good, Waiting, w
      <3>. QED  BY <2>1, <3>1 DEF MayWait, w
    <2>5. r = [remove(s, t) EXCEPT !.wait[t] = v]
      <3>1. remove(s, t).wait = s.wait
        BY <1>0 DEF remove, State
      <3>2. r = [remove(s, t) EXCEPT !.wait[t].parked = FALSE]
        BY <1>2 DEF Unpark, w
      <3>. QED  BY <1>0, <3>1, <3>2 DEF v, w
    <2>. HIDE DEF r
    <2>6. Good(r) /\ NowWaits(s, r, t, v)
      BY <2>1, <2>3, <2>4, <2>5, LeaveGood
    <2>. QED  BY <1>2, <2>1, <2>6 DEF UnparkIs, w, r
  <1>. QED  BY <1>1, <1>2

\* A parked thread leaves its waitsets, and goes on or will.
LEMMA UnparkGood ==
    ASSUME NEW s, Good(s), NEW t \in Thread, s.wait[t].parked,
           s.wait[t].op = "join" => s.wait[t].on[1] \in s.finished
    PROVE  Woken(s, Unpark(s, t), t)
  <1>. DEFINE w == s.wait[t]
              r == Unpark(s, t)
  <1>0. w \in Waits /\ s \in State
    BY DEF Good, State
  <1>. HIDE DEF w, r
  <1>1. CASE HandsOver(w)
    <2>1. PICK q : Good(q) /\ NowWaits(s, q, t, Idle) /\ r = HandOver(q, t, w)
      BY <1>1, UnparkIsSo DEF UnparkIs, w, r
    <2>3. q.wait[t] = Idle
      BY <2>1 DEF NowWaits
    <2>4. MayTake(q, w.op, w.on) <=> MayTake(s, w.op, w.on)
      BY <2>1, SignaledAlike DEF MayTake, AllSignaled
    <2>5. /\ Good(r) /\ Spares({t}, q, r) /\ CountsLeft(q, r)
          /\ MayTake(q, w.op, w.on) => r.outcome = q.outcome
      BY <1>0, <1>1, <2>1, <2>3, HandOverGood
    <2>6. Spares({t}, s, r)
      <3>1. Spares({t}, s, q)
        BY <2>1, NowWaitsSpares
      <3>2. Spares({t} \cup {t}, s, r)
        BY <2>5, <3>1, SparesTransitive
      <3>. QED  BY <3>2
    <2>7. CountsLeft(s, r)
      BY <2>1, <2>5 DEF CountsLeft, NowWaits, SameCounts
    <2>8. Met(s, t) => r.outcome = s.outcome
      BY <1>1, <2>1, <2>4, <2>5 DEF Met, w, NowWaits
    <2>. QED  BY <2>5, <2>6, <2>7, <2>8 DEF Woken, r
  <1>2. CASE ~HandsOver(w)
    <2>1. Good(r) /\ \E v : NowWaits(s, r, t, v)
      BY <1>2, UnparkIsSo DEF UnparkIs, w, r
    <2>2. Spares({t}, s, r) /\ r.outcome = s.outcome
      BY <2>1, NowWaitsSpares DEF NowWaits
    <2>3. CountsLeft(s, r)
      <3>1. \A p \in Semaphore : s.count[p] \in Nat
        BY <1>0 DEF State
      <3>. QED  BY <2>1, <3>1 DEF CountsLeft, NowWaits, SameCounts
    <2>. QED  BY <2>1, <2>2, <2>3 DEF Woken, r
  <1>. QED  BY <1>1, <1>2

\* Who is in a waitset waits there.
LEMMA Waiters ==
    ASSUME NEW s, Good(s), NEW id \in WaitsetId, NEW u \in ToSet(s.ws[id])
    PROVE  /\ u \in Thread /\ s.wait[u].parked /\ id \in Waitsets(s.wait[u])
           /\ s.wait[u] \in Waits
  <1>1. s.ws[id] \in Seq(Thread)
    BY DEF Good, State
  <1>2. u \in Thread
    BY <1>1 DEF ToSet
  <1>. QED  BY <1>2 DEF Good, State, Linked, WaitsIn

\* Who is in the waitset for readers waits for a reader's lock.
LEMMA ReadersWait ==
    ASSUME NEW w \in Waits, w.parked, NEW m \in RwLock, Readers(m) \in Waitsets(w)
    PROVE  w.op = "lock_shared"
  BY DEF Waitsets, Readers, Main

\* Who is in the waitset of an object waits for it.
LEMMA MainWait ==
    ASSUME NEW w \in Waits, w.parked, NEW o \in Object, Main(o) \in Waitsets(w)
    PROVE  \/ w.op = "condvar" /\ o \in CondVar
           \/ o \notin CondVar /\ w.op # "condvar" /\ \E i \in DOMAIN w.on : w.on[i] = o
  <1>1. CASE w.op = "lock_shared"
    BY <1>1 DEF Waitsets, Readers, Main
  <1>2. CASE w.op = "condvar"
    <2>1. PICK c \in CondVar, m \in Mutex : w.on = <<c, m>>
      BY <1>2, IdleFacts DEF Waits, Sensible
    <2>2. Main(o) = Main(c)
      BY <1>2, <2>1 DEF Waitsets
    <2>. QED  BY <1>2, <2>2 DEF Main
  <1>3. CASE w.op \notin {"lock_shared", "condvar"}
    <2>1. \E p \in ToSet(w.on) : Main(o) = Main(p)
      BY <1>3 DEF Waitsets
    <2>2. \E i \in DOMAIN w.on : w.on[i] = o
      BY <2>1 DEF Main, ToSet
    <2>3. ASSUME NEW i \in DOMAIN w.on PROVE w.on[i] \notin CondVar
      <3>1. CASE HandsOver(w)
        BY <3>1, HandedOver DEF IsArray
      <3>2. CASE w.op \in {"lock", "join"}
        <4>1. \E p \in Mutex \cup Thread : w.on = <<p>>
          BY <3>2, IdleFacts DEF Waits, Sensible
        <4>2. PICK p \in Mutex \cup Thread : w.on = <<p>>
          BY <4>1
        <4>3. w.on[i] = p
          BY <4>2
        <4>. QED  BY <4>3, KindAssumption
      <3>. QED  BY <1>3, <3>1, <3>2, IdleFacts DEF Waits, Sensible, HandsOver
    <2>. QED  BY <1>3, <2>2, <2>3
  <1>. QED  BY <1>1, <1>2, <1>3

\* The joins of a waitset are over.
Endable(s, id) == \A u \in Thread : id = Main(u) => u \in s.finished

\* Who waits in id is not handed the processor, or o, which is signaled.
Meets(s, id) ==
    \/ id \in {Readers(m) : m \in RwLock} \cup {Main(c) : c \in CondVar}
    \/ \E o \in Object \ CondVar : id = Main(o) /\ is_signaled(s, o)

\* Who is removed from a waitset goes on.
LEMMA UnparkFrom ==
    ASSUME NEW s, Good(s), NEW id \in WaitsetId, Endable(s, id), NEW u \in ToSet(s.ws[id]),
           Removable(s, u)
    PROVE  Woken(s, Unpark(s, u), u) /\ (Meets(s, id) => Met(s, u))
  <1>. DEFINE w == s.wait[u]
  <1>0. u \in Thread /\ w.parked /\ id \in Waitsets(w) /\ w \in Waits
    BY Waiters
  <1>. HIDE DEF w
  <1>1. CASE id \in {Readers(m) : m \in RwLock}
    <2>1. w.op = "lock_shared"
      BY <1>0, <1>1, ReadersWait
    <2>2. Woken(s, Unpark(s, u), u)
      BY <1>0, <2>1, UnparkGood DEF w
    <2>. QED  BY <2>1, <2>2 DEF Met, HandsOver, w
  <1>2. CASE id \notin {Readers(m) : m \in RwLock}
    <2>1. PICK o \in Object : id = Main(o)
      BY <1>2 DEF WaitsetId
    <2>2. CASE w.op = "condvar" /\ o \in CondVar
      <3>1. Woken(s, Unpark(s, u), u)
        BY <1>0, <2>2, UnparkGood DEF w
      <3>. QED  BY <2>2, <3>1 DEF Met, HandsOver, w
    <2>3. CASE o \notin CondVar /\ w.op # "condvar" /\ \E i \in DOMAIN w.on : w.on[i] = o
      <3>1. w.op = "join" => w.on[1] \in s.finished
        <4>. SUFFICES ASSUME w.op = "join" PROVE w.on[1] \in s.finished
          OBVIOUS
        <4>1. PICK p \in Thread : w.on = <<p>>
          BY <1>0, IdleFacts DEF Waits, Sensible
        <4>2. p = o /\ w.on[1] = p
          BY <2>3, <4>1
        <4>. QED  BY <2>1, <4>2 DEF Endable
      <3>2. Woken(s, Unpark(s, u), u)
        BY <1>0, <3>1, UnparkGood DEF w
      <3>3. ASSUME Meets(s, id), HandsOver(w) PROVE MayTake(s, w.op, w.on)
        <4>1. is_signaled(s, o)
          <5>1. \A p : Main(p) = Main(o) => p = o
            BY DEF Main
          <5>2. id \notin {Main(c) : c \in CondVar}
            BY <2>1, <2>3, <5>1
          <5>3. PICK p \in Object \ CondVar : id = Main(p) /\ is_signaled(s, p)
            BY <1>2, <3>3, <5>2 DEF Meets
          <5>. QED  BY <2>1, <5>1, <5>3
        <4>2. CASE w.op = "wait_all"
          BY <4>2 DEF Removable, MayTake, w
        <4>3. CASE w.op # "wait_all"
          BY <2>3, <4>1, <4>3 DEF MayTake
        <4>. QED  BY <4>2, <4>3
      <3>. QED  BY <3>2, <3>3 DEF Met, w
    <2>. QED  BY <1>0, <2>1, <2>2, <2>3, MainWait
  <1>. QED  BY <1>1, <1>2

\* A thread that waits for nothing is left alone.
IdleSpared(s, r) == \A t \in Thread : s.wait[t] = Idle => Spares(Thread \ {t}, s, r)

\* As SparesTransitive, for all idle threads.
LEMMA IdleSparedTransitive ==
    ASSUME NEW s, NEW q, NEW r, IdleSpared(s, q), IdleSpared(q, r)
    PROVE  IdleSpared(s, r)
  <1>. SUFFICES ASSUME NEW t \in Thread, s.wait[t] = Idle PROVE Spares(Thread \ {t}, s, r)
    BY DEF IdleSpared
  <1>. DEFINE T == Thread \ {t}
  <1>1. Spares(T, s, q)
    BY DEF IdleSpared
  <1>2. q.wait[t] = Idle
    BY <1>1 DEF Spares
  <1>3. Spares(T, q, r)
    BY <1>2 DEF IdleSpared
  <1>. HIDE DEF T
  <1>4. Spares(T \cup T, s, r)
    BY <1>1, <1>3, SparesTransitive
  <1>5. T \cup T = T
    OBVIOUS
  <1>. QED  BY <1>4, <1>5 DEF T

\* One who waits goes on, or nobody.
LEMMA UnparkOneGood ==
    ASSUME NEW s, Good(s), NEW id \in WaitsetId, Endable(s, id), NEW r \in TryUnparkOne(s, id)
    PROVE  /\ Good(r) /\ CountsLeft(s, r)
           /\ IdleSpared(s, r)
           /\ Meets(s, id) => r.outcome = s.outcome
  <1>1. CASE r \in UnparkOne(s, id)
    <2>1. PICK u \in ToSet(s.ws[id]) : Removable(s, u) /\ r = Unpark(s, u)
      BY <1>1 DEF UnparkOne
    <2>2. Woken(s, r, u) /\ (Meets(s, id) => Met(s, u))
      BY <2>1, UnparkFrom
    <2>3. u \in Thread /\ s.wait[u] # Idle
      BY <2>1, Waiters, IdleFacts
    <2>4. ASSUME NEW t \in Thread, s.wait[t] = Idle PROVE Spares(Thread \ {t}, s, r)
      <3>1. {u} \subseteq Thread \ {t}
        BY <2>3, <2>4
      <3>2. Spares({u}, s, r)
        BY <2>2 DEF Woken
      <3>. QED  BY <3>1, <3>2, SparesMore
    <2>. QED  BY <2>2, <2>4 DEF Woken, IdleSpared
  <1>2. CASE r = s
    <2>1. \A p \in Semaphore : s.count[p] \in Nat
      BY DEF Good, State
    <2>2. CountsLeft(s, s)
      BY <2>1 DEF CountsLeft
    <2>. QED  BY <1>2, <2>2, SparesItself DEF IdleSpared
  <1>. QED  BY <1>1, <1>2 DEF TryUnparkOne

\* What stays signaled whoever takes it.
Steady(s, id) ==
    \/ id \in {Readers(m) : m \in RwLock} \cup {Main(c) : c \in CondVar}
    \/ \E e \in ManualReset : id = Main(e) /\ s.state[e]
    \/ \E u \in Thread : id = Main(u) /\ u \in s.finished

\* What stays signaled is signaled.
LEMMA SteadyMeets ==
    ASSUME NEW s, NEW id, Steady(s, id)
    PROVE  Meets(s, id)
  <1>1. CASE \E e \in ManualReset : id = Main(e) /\ s.state[e]
    <2>1. PICK e \in ManualReset : id = Main(e) /\ s.state[e]
      BY <1>1
    <2>2. e \in Object \ CondVar /\ e \in Event
      BY KindAssumption DEF Object
    <2>. QED  BY <2>1, <2>2, SignaledKinds DEF Meets
  <1>2. CASE \E u \in Thread : id = Main(u) /\ u \in s.finished
    <2>1. PICK u \in Thread : id = Main(u) /\ u \in s.finished
      BY <1>2
    <2>2. u \in Object \ CondVar
      BY KindAssumption DEF Object
    <2>. QED  BY <2>1, <2>2, SignaledKinds DEF Meets
  <1>. QED  BY <1>1, <1>2 DEF Steady, Meets

\* It stays so when others are woken.
LEMMA SteadyStays ==
    ASSUME NEW s, NEW r, NEW T, Spares(T, s, r), NEW id
    PROVE  /\ Steady(s, id) => Steady(r, id)
           /\ Endable(s, id) => Endable(r, id)
  BY DEF Spares, Steady, Endable

Unparks(s, q, m, g) ==
    g = [n \in 0 .. m |-> IF n = 0 THEN s ELSE TryUnpark(g[n - 1], q[n])]

\* The table of the states of unpark_all exists, and it returns the last entry.
LEMMA UnparksExist ==
    ASSUME NEW s, NEW q, NEW m \in Nat
    PROVE  \E g : Unparks(s, q, m, g)
  <1>. DEFINE T == {k \in 0 .. m : \E g : Unparks(s, q, k, g)}
  <1>1. 0 \in T
    <2>. DEFINE g == [n \in 0 .. 0 |-> s]
    <2>1. Unparks(s, q, 0, g)
      BY DEF Unparks
    <2>. QED  BY <2>1
  <1>2. ASSUME NEW k \in 0 .. m, k \in T, k < m PROVE k + 1 \in T
    <2>1. PICK g : Unparks(s, q, k, g)
      BY <1>2
    <2>. DEFINE h == [n \in 0 .. k + 1 |-> IF n <= k THEN g[n] ELSE TryUnpark(g[k], q[k + 1])]
    <2>2. \A n \in 0 .. k + 1 : h[n] = IF n = 0 THEN s ELSE TryUnpark(h[n - 1], q[n])
      <3>. SUFFICES ASSUME NEW n \in 0 .. k + 1
                    PROVE  h[n] = IF n = 0 THEN s ELSE TryUnpark(h[n - 1], q[n])
        OBVIOUS
      <3>1. CASE n <= k
        BY <2>1, <3>1 DEF Unparks
      <3>2. CASE n = k + 1
        BY <3>2
      <3>. QED  BY <3>1, <3>2
    <2>3. Unparks(s, q, k + 1, h)
      <3>1. h = [n \in 0 .. k + 1 |-> h[n]]
        OBVIOUS
      <3>. HIDE DEF h
      <3>. QED  BY <2>2, <3>1 DEF Unparks
    <2>. QED  BY <1>2, <2>3
  <1>. HIDE DEF T
  <1>3. m \in T
    BY <1>1, <1>2, UpTo
  <1>. QED  BY <1>3 DEF T

\* unpark_all is the last entry of the table.
LEMMA UnparkAllUnparks ==
    ASSUME NEW s, NEW id, NEW q, q = s.ws[id], Len(q) \in Nat
    PROVE  \E g : /\ unpark_all(s, id) = g[Len(q)]
                  /\ g[0] = s
                  /\ \A n \in 1 .. Len(q) : g[n] = TryUnpark(g[n - 1], q[n])
  <1>. DEFINE g == CHOOSE f : Unparks(s, s.ws[id], Len(s.ws[id]), f)
  <1>1. Unparks(s, s.ws[id], Len(s.ws[id]), g)
    BY UnparksExist
  <1>2. unpark_all(s, id) =
            (CHOOSE f : Unparks(s, s.ws[id], Len(s.ws[id]), f))[Len(s.ws[id])]
    BY Zenon DEF unpark_all, Unparks
  <1>. HIDE DEF g
  <1>3. g[0] = s /\ \A n \in 1 .. Len(q) : g[n] = TryUnpark(g[n - 1], q[n])
    <2>. DEFINE m == Len(q)
    <2>1. Unparks(s, q, m, g) /\ m \in Nat
      BY <1>1
    <2>. HIDE DEF m
    <2>2. g[0] = s /\ \A n \in 1 .. m : g[n] = TryUnpark(g[n - 1], q[n])
      BY ONLY <2>1 DEF Unparks
    <2>. QED  BY <2>2 DEF m
  <1>. QED  BY <1>2, <1>3 DEF g

\* All who wait somewhere are unparked, but for those that wait for more.
LEMMA UnparkAllGood ==
    ASSUME NEW s, Good(s), NEW id \in WaitsetId, Endable(s, id), NEW r, r = unpark_all(s, id)
    PROVE  /\ Good(r)
           /\ IdleSpared(s, r)
           /\ Steady(s, id) => r.outcome = s.outcome
  <1>. DEFINE q == s.ws[id]
              m == Len(q)
  <1>0. m \in Nat /\ DOMAIN q = 1 .. m /\ q \in Seq(Thread) /\ IsInjective(q)
    <2>1. q \in Seq(Thread)
      BY DEF Good, State
    <2>. QED  BY <2>1 DEF Good, Linked
  <1>1. PICK g : /\ r = g[m]
                 /\ g[0] = s
                 /\ \A n \in 1 .. m : g[n] = TryUnpark(g[n - 1], q[n])
    BY <1>0, UnparkAllUnparks
  <1>2. \A j \in 1 .. m : q[j] \in Thread /\ WaitsIn(s.wait[q[j]], id)
    <2>1. \A j \in 1 .. m : q[j] \in ToSet(q)
      BY <1>0 DEF ToSet
    <2>. QED  BY <2>1, Waiters DEF WaitsIn
  <1>. HIDE DEF q
  <1>. DEFINE First(n) == {q[j] : j \in 1 .. n}
              T == {n \in 0 .. m : /\ Good(g[n]) /\ Spares(First(n), s, g[n])
                                   /\ Steady(s, id) => g[n].outcome = s.outcome}
  <1>3. 0 \in T
    BY <1>0, <1>1, SparesItself
  <1>4. ASSUME NEW n \in 0 .. m, n \in T, n < m PROVE n + 1 \in T
    <2>. DEFINE u == q[n + 1]
                a == g[n]
                b == g[n + 1]
    <2>0. n + 1 \in 1 .. m /\ n + 1 - 1 = n
      BY <1>0, <1>4
    <2>1. u \in Thread /\ WaitsIn(s.wait[u], id) /\ u \notin First(n)
      BY <1>0, <1>2, <2>0 DEF IsInjective
    <2>2. First(n + 1) = First(n) \cup {u}
      BY <1>0, <2>0
    <2>3. b = TryUnpark(a, u)
      BY <1>1, <2>0
    <2>4. /\ Good(a) /\ Spares(First(n), s, a)
          /\ Steady(s, id) => a.outcome = s.outcome
      BY <1>4
    <2>. HIDE DEF First, u, a, b
    <2>5. u \in ToSet(a.ws[id])
      <3>1. a.wait[u] = s.wait[u]
        BY <2>1, <2>4 DEF Spares
      <3>. QED  BY <2>1, <2>4, <3>1 DEF Good, Linked
    <2>6. Endable(a, id) /\ (Steady(s, id) => Meets(a, id))
      BY <2>4, SteadyStays, SteadyMeets
    <2>7. /\ Good(b) /\ Spares({u}, a, b)
          /\ Steady(s, id) => b.outcome = a.outcome
      <3>1. CASE Removable(a, u)
        <4>1. b = Unpark(a, u)
          BY <2>3, <3>1 DEF TryUnpark
        <4>. QED  BY <2>4, <2>5, <2>6, <3>1, <4>1, UnparkFrom DEF Woken
      <3>2. CASE ~Removable(a, u)
        BY <2>3, <2>4, <3>2, SparesItself DEF TryUnpark
      <3>. QED  BY <3>1, <3>2
    <2>8. Spares(First(n + 1), s, b)
      BY <2>2, <2>4, <2>7, SparesTransitive
    <2>9. n + 1 \in 0 .. m
      BY <1>0, <2>0
    <2>. QED  BY <2>4, <2>7, <2>8, <2>9 DEF b
  <1>5. m \in T
    <2>. HIDE DEF T
    <2>1. 0 .. m \subseteq T
      BY <1>0, <1>3, <1>4, UpTo
    <2>. QED  BY <1>0, <2>1
  <1>6. ASSUME NEW t \in Thread, s.wait[t] = Idle PROVE Spares(Thread \ {t}, s, r)
    <2>1. First(m) \subseteq Thread \ {t}
      BY <1>2, <1>6, IdleFacts DEF WaitsIn
    <2>2. Spares(First(m), s, r)
      BY <1>1, <1>5
    <2>. HIDE DEF First
    <2>. QED  BY <2>1, <2>2, SparesMore
  <1>. QED  BY <1>1, <1>5, <1>6 DEF IdleSpared

UnparksUpTo(s, id, m, g) ==
    g = [i \in 0 .. m |-> IF i = 0 THEN {s} ELSE UNION {TryUnparkOne(r, id) : r \in g[i - 1]}]

\* The table of the states after each unit posted, as for unpark_all.
LEMMA UnparksUpToExist ==
    ASSUME NEW s, NEW id, NEW m \in Nat
    PROVE  \E g : UnparksUpTo(s, id, m, g)
  <1>. DEFINE T == {k \in 0 .. m : \E g : UnparksUpTo(s, id, k, g)}
              More(S) == UNION {TryUnparkOne(r, id) : r \in S}
  <1>1. 0 \in T
    <2>. DEFINE g == [n \in 0 .. 0 |-> {s}]
    <2>1. UnparksUpTo(s, id, 0, g)
      BY DEF UnparksUpTo
    <2>. QED  BY <2>1
  <1>2. ASSUME NEW k \in 0 .. m, k \in T, k < m PROVE k + 1 \in T
    <2>1. PICK g : UnparksUpTo(s, id, k, g)
      BY <1>2
    <2>. DEFINE h == [n \in 0 .. k + 1 |-> IF n <= k THEN g[n] ELSE More(g[k])]
    <2>2. g = [n \in 0 .. k |-> IF n = 0 THEN {s} ELSE More(g[n - 1])]
      BY <2>1 DEF UnparksUpTo
    <2>. HIDE DEF More
    <2>3. \A n \in 0 .. k + 1 : h[n] = IF n = 0 THEN {s} ELSE More(h[n - 1])
      <3>. SUFFICES ASSUME NEW n \in 0 .. k + 1
                    PROVE  h[n] = IF n = 0 THEN {s} ELSE More(h[n - 1])
        OBVIOUS
      <3>1. CASE n <= k
        <4>1. g[n] = IF n = 0 THEN {s} ELSE More(g[n - 1])
          <5>1. n \in 0 .. k
            BY <3>1
          <5>2. ASSUME NEW S, NEW D, NEW f, f = [x \in D |-> IF x = 0 THEN S ELSE More(f[x - 1])],
                       NEW y \in D
                PROVE  f[y] = IF y = 0 THEN S ELSE More(f[y - 1])
            BY <5>2
          <5>. QED  BY <2>2, <5>1, <5>2
        <4>2. h[n] = g[n] /\ (n # 0 => h[n - 1] = g[n - 1])
          BY <3>1
        <4>. HIDE DEF h
        <4>. QED  BY <4>1, <4>2
      <3>2. CASE n = k + 1
        BY <3>2
      <3>. QED  BY <3>1, <3>2
    <2>4. h = [n \in 0 .. k + 1 |-> IF n = 0 THEN {s} ELSE More(h[n - 1])]
      <3>1. h = [n \in 0 .. k + 1 |-> h[n]]
        OBVIOUS
      <3>. HIDE DEF h
      <3>. QED  BY <2>3, <3>1
    <2>. HIDE DEF h
    <2>5. UnparksUpTo(s, id, k + 1, h)
      BY <2>4 DEF UnparksUpTo, More
    <2>. QED  BY <1>2, <2>5
  <1>. HIDE DEF T
  <1>3. m \in T
    BY <1>1, <1>2, UpTo
  <1>. QED  BY <1>3 DEF T

UnparkTable(s, id, m, g) ==
    /\ g[0] = {s}
    /\ \A i \in 1 .. m : \A r \in g[i] : \E a \in g[i - 1] : r \in TryUnparkOne(a, id)

\* UnparkUpTo is the last entry of the table.
LEMMA UnparkUpToUnparks ==
    ASSUME NEW s, NEW id, NEW m \in Nat
    PROVE  \E g : UnparkUpTo(s, id, m) = g[m] /\ UnparkTable(s, id, m, g)
  <1>. DEFINE g == CHOOSE f : UnparksUpTo(s, id, m, f)
  <1>1. UnparksUpTo(s, id, m, g)
    BY UnparksUpToExist
  <1>2. UnparkUpTo(s, id, m) = (CHOOSE f : UnparksUpTo(s, id, m, f))[m]
    BY Zenon DEF UnparkUpTo, UnparksUpTo
  <1>. HIDE DEF g
  <1>3. g[0] = {s}
    BY <1>1 DEF UnparksUpTo
  <1>4. \A i \in 1 .. m : g[i] = UNION {TryUnparkOne(r, id) : r \in g[i - 1]}
    BY <1>1 DEF UnparksUpTo
  <1>5. UnparkTable(s, id, m, g)
    BY <1>3, <1>4 DEF UnparkTable
  <1>. QED  BY <1>2, <1>5 DEF g

\* Each of the n threads that n units wake finds one of them.
LEMMA UnparkUpToGood ==
    ASSUME NEW s, Good(s), NEW o \in Semaphore, NEW m \in Nat, s.count[o] >= m,
           NEW r \in UnparkUpTo(s, Main(o), m)
    PROVE  Good(r) /\ IdleSpared(s, r) /\ r.outcome = s.outcome
  <1>. DEFINE id == Main(o)
  <1>0. o \in Object \ CondVar /\ o \notin Thread /\ id \in WaitsetId
    BY KindAssumption DEF Object, WaitsetId
  <1>1. PICK g : UnparkUpTo(s, id, m) = g[m] /\ UnparkTable(s, id, m, g)
    BY UnparkUpToUnparks
  <1>. DEFINE Left(a, i) == /\ Good(a) /\ IdleSpared(s, a) /\ a.outcome = s.outcome
                            /\ a.count[o] >= m - i
              T == {i \in 0 .. m : \A a \in g[i] : Left(a, i)}
  <1>2. 0 \in T
    <2>1. IdleSpared(s, s)
      BY SparesItself DEF IdleSpared
    <2>2. s.count[o] \in Nat
      BY DEF Good, State
    <2>3. g[0] = {s}
      BY <1>1 DEF UnparkTable
    <2>. QED  BY <2>1, <2>2, <2>3
  <1>3. ASSUME NEW i \in 0 .. m, i \in T, i < m PROVE i + 1 \in T
    <2>0. i + 1 \in 1 .. m /\ i + 1 - 1 = i
      BY <1>3
    <2>1. ASSUME NEW a \in g[i + 1] PROVE Left(a, i + 1)
      <3>1. PICK b \in g[i] : a \in TryUnparkOne(b, id)
        BY <1>1, <2>0 DEF UnparkTable
      <3>2. Left(b, i)
        BY <1>3
      <3>3. b.count[o] \in Nat /\ a.count[o] >= b.count[o] - 1 /\ a.count[o] \in Nat /\ Good(a)
            /\ IdleSpared(b, a) /\ a.outcome = b.outcome
        <4>1. b.count[o] \in Nat
          BY <3>2 DEF Good, State
        <4>2. is_signaled(b, o)
          <5>1. b.count[o] > 0
            BY <1>3, <3>2, <4>1
          <5>. QED  BY <1>0, <5>1, SignaledKinds
        <4>3. Meets(b, id)
          BY <1>0, <4>2 DEF Meets
        <4>4. Endable(b, id)
          BY <1>0 DEF Endable, Main
        <4>. HIDE DEF id
        <4>5. Good(a) /\ CountsLeft(b, a) /\ IdleSpared(b, a) /\ a.outcome = b.outcome
          BY <1>0, <3>1, <3>2, <4>3, <4>4, UnparkOneGood
        <4>6. a.count[o] \in Nat
          BY <4>5 DEF Good, State
        <4>. QED  BY <4>1, <4>5, <4>6 DEF CountsLeft
      <3>4. IdleSpared(s, a)
        BY <3>2, <3>3, IdleSparedTransitive
      <3>5. a.count[o] >= m - (i + 1)
        BY <3>2, <3>3
      <3>. QED  BY <3>2, <3>3, <3>4, <3>5
    <2>. QED  BY <2>0, <2>1
  <1>4. m \in T
    <2>. HIDE DEF T
    <2>1. 0 .. m \subseteq T
      BY <1>2, <1>3, UpTo
    <2>. QED  BY <2>1
  <1>. QED  BY <1>1, <1>4

-----------------------------------------------------------------------------
(* generic_mutex_data                                                      *)

\* The lock m is now held so: by whom, how often, and by how many readers.
NowHeld(s, r, m, owner, recursion, readers, count) ==
    /\ r \in State /\ SameWaits(s, r) /\ SameCounts(s, r) /\ SameNews(s, r)
    /\ r.outcome = s.outcome
    /\ \A x \in Mutex :
           /\ r.owner[x] = IF x = m THEN owner ELSE s.owner[x]
           /\ r.recursion[x] = IF x = m THEN recursion ELSE s.recursion[x]
           /\ r.shared_owner[x] = IF x = m THEN readers ELSE s.shared_owner[x]
           /\ r.shared_lock_count[x] = IF x = m THEN count ELSE s.shared_lock_count[x]

HeldWell(m, owner, recursion, readers, count) ==
    /\ count = SumFunction(readers)
    /\ owner = Shared <=> \E t \in Thread : readers[t] > 0
    /\ recursion > 0 <=> owner \in Thread
    /\ recursion <= MaxRecursion[m]
    /\ \A t \in Thread : readers[t] <= MaxRecursion[m]

\* How locks are held, lock by lock.
LEMMA HeldIsWell ==
    ASSUME NEW s
    PROVE  Held(s) <=> \A m \in Mutex : HeldWell(m, s.owner[m], s.recursion[m], s.shared_owner[m],
                                                 s.shared_lock_count[m])
  BY DEF Held, HeldWell

\* What an operation of a thread that waits for nothing makes of a lock is right
\* if it is for the lock alone.
LEMMA NowHeldGood ==
    ASSUME NEW s, Good(s), NEW t \in Thread, s.wait[t] = Idle, NEW m \in Mutex, NEW r,
           NEW owner, NEW recursion, NEW readers, NEW count,
           NowHeld(s, r, m, owner, recursion, readers, count),
           HeldWell(m, owner, recursion, readers, count),
           owner \in {t, Free, Shared}, \A u \in Thread \ {t} : readers[u] = s.shared_owner[m][u]
    PROVE  Good(r)
  <1>1. r \in State /\ Bounded(r) /\ Linked(r) /\ Informed(r)
    BY BoundedStays, LinkedStays, InformedStays DEF Good, NowHeld, SameWaits
  <1>2. Held(r)
    <2>1. \A x \in Mutex : HeldWell(x, s.owner[x], s.recursion[x], s.shared_owner[x],
                                    s.shared_lock_count[x])
      BY HeldIsWell DEF Good
    <2>2. \A x \in Mutex : HeldWell(x, r.owner[x], r.recursion[x], r.shared_owner[x],
                                    r.shared_lock_count[x])
      <3>. SUFFICES ASSUME NEW x \in Mutex
                    PROVE  HeldWell(x, r.owner[x], r.recursion[x], r.shared_owner[x],
                                    r.shared_lock_count[x])
        OBVIOUS
      <3>1. CASE x = m
        BY <3>1 DEF NowHeld
      <3>2. CASE x # m
        BY <2>1, <3>2 DEF NowHeld
      <3>. QED  BY <3>1, <3>2
    <2>. QED  BY <2>2, HeldIsWell
  <1>3. Waiting(r)
    <2>. SUFFICES ASSUME NEW u \in Thread PROVE MayWait(r, u, r.wait[u])
      BY DEF Waiting
    <2>. DEFINE w == s.wait[u]
    <2>1. r.wait[u] = w
      BY DEF NowHeld, SameWaits
    <2>2. MayWait(s, u, w) /\ w \in Waits
      BY DEF Good, Waiting, State
    <2>. HIDE DEF w
    <2>3. CASE w = Idle
      BY <2>1, <2>3, IdleFacts
    <2>4. CASE w # Idle
      <3>1. u # t
        BY <2>4 DEF w
      <3>2. w.op = "lock_shared" => w.on[1] \in Mutex
        BY <2>2, <2>4, KindAssumption DEF Waits, Sensible
      <3>3. w.op = "condvar" => w.on[2] \in Mutex
        BY <2>2, <2>4 DEF Waits, Sensible
      <3>4. owner # u
        BY <3>1, KindAssumption
      <3>5. w.op = "lock_shared" => r.shared_owner[w.on[1]][u] = 0
        BY <2>2, <3>1, <3>2 DEF NowHeld, MayWait
      <3>6. w.op = "condvar" /\ r.owner[w.on[2]] = u => r.recursion[w.on[2]] < MaxRecursion[w.on[2]]
        BY <2>2, <3>3, <3>4 DEF NowHeld, MayWait
      <3>7. w.op = "join" /\ ~w.parked => w.on[1] \in r.finished
        BY <2>2 DEF NowHeld, MayWait, SameWaits
      <3>. QED  BY <2>1, <3>5, <3>6, <3>7 DEF MayWait
    <2>. QED  BY <2>3, <2>4
  <1>. QED  BY <1>1, <1>2, <1>3 DEF Good

\* How the lock m is held.
LEMMA HeldFacts ==
    ASSUME NEW s, Good(s), NEW m \in Mutex
    PROVE  /\ HeldWell(m, s.owner[m], s.recursion[m], s.shared_owner[m], s.shared_lock_count[m])
           /\ s.owner[m] \in Thread \cup {Free, Shared} /\ s.recursion[m] \in Nat
           /\ s.shared_owner[m] \in [Thread -> Nat] /\ s.shared_lock_count[m] \in Nat
           /\ MaxRecursion[m] \in Nat \ {0} /\ s \in State
  <1>1. MaxRecursion[m] \in Nat \ {0}
    BY BoundAssumption
  <1>2. HeldWell(m, s.owner[m], s.recursion[m], s.shared_owner[m], s.shared_lock_count[m])
    BY HeldIsWell DEF Good
  <1>. QED  BY <1>1, <1>2 DEF Good, State

\* The owner locks it once more, or unlocks it once.
LEMMA RecurGood ==
    ASSUME NEW s, Good(s), NEW t \in Thread, s.wait[t] = Idle, NEW m \in Mutex, s.owner[m] = t,
           NEW n \in 1 .. MaxRecursion[m], NEW r, r = [s EXCEPT !.recursion[m] = n]
    PROVE  Good(r) /\ NowHeld(s, r, m, t, n, s.shared_owner[m], s.shared_lock_count[m])
  <1>1. n \in Nat /\ s \in State
    BY HeldFacts DEF Good
  <1>2. r \in State
    BY <1>1 DEF State
  <1>3. NowHeld(s, r, m, t, n, s.shared_owner[m], s.shared_lock_count[m])
    BY <1>1, <1>2 DEF NowHeld, State, SameWaits, SameCounts, SameNews
  <1>4. HeldWell(m, t, n, s.shared_owner[m], s.shared_lock_count[m])
    BY HeldFacts DEF HeldWell
  <1>. QED  BY <1>3, <1>4, NowHeldGood

\* The owner gives it back.
LEMMA FreeGood ==
    ASSUME NEW s, Good(s), NEW t \in Thread, s.wait[t] = Idle, NEW m \in Mutex, s.owner[m] = t,
           NEW r, r = [s EXCEPT !.recursion[m] = 0, !.owner[m] = Free]
    PROVE  Good(r) /\ NowHeld(s, r, m, Free, 0, s.shared_owner[m], s.shared_lock_count[m])
  <1>1. s \in State
    BY DEF Good
  <1>2. r \in State
    BY <1>1 DEF State
  <1>3. NowHeld(s, r, m, Free, 0, s.shared_owner[m], s.shared_lock_count[m])
    BY <1>1, <1>2 DEF NowHeld, State, SameWaits, SameCounts, SameNews
  <1>4. HeldWell(m, Free, 0, s.shared_owner[m], s.shared_lock_count[m])
    BY HeldFacts, KindAssumption DEF HeldWell
  <1>. QED  BY <1>3, <1>4, NowHeldGood

\* The sum of the readers' counts follows the count of one.
LEMMA ReadersSum ==
    ASSUME NEW f \in [Thread -> Nat], NEW t \in Thread, NEW n \in Nat
    PROVE  /\ SumFunction([f EXCEPT ![t] = n]) = SumFunction(f) - f[t] + n
           /\ SumFunction(f) \in Nat
           /\ SumFunction(f) = 0 <=> \A u \in Thread : f[u] = 0
  <1>. DEFINE h == [f EXCEPT ![t] = n]
  <1>1. h \in [Thread -> Nat] /\ h[t] = n /\ \A x \in Thread \ {t} : h[x] = f[x]
    OBVIOUS
  <1>2. IsFiniteSet(Thread)
    BY KindAssumption
  <1>. HIDE DEF h
  <1>3. SumFunction(h) = SumFunction(f) - f[t] + n
    BY <1>1, <1>2, SumChanges
  <1>4. SumFunction(f) \in Nat /\ (SumFunction(f) = 0 <=> \A u \in Thread : f[u] = 0)
    BY <1>2, SumOfNaturals
  <1>. QED  BY <1>3, <1>4 DEF h

\* t becomes a reader, is one once more, and is one once less.
Shares(s, t, m) ==
    [s EXCEPT !.owner[m] = Shared, !.shared_owner[m][t] = @ + 1, !.shared_lock_count[m] = @ + 1]
SharesMore(s, t, m) == [s EXCEPT !.shared_owner[m][t] = @ + 1, !.shared_lock_count[m] = @ + 1]
SharesLess(s, t, m) == [s EXCEPT !.shared_owner[m][t] = @ - 1, !.shared_lock_count[m] = @ - 1]
Freed(s, m) == [s EXCEPT !.owner[m] = Free]

\* t becomes a reader, or once more.
LEMMA ReadGood ==
    ASSUME NEW s, Good(s), NEW t \in Thread, s.wait[t] = Idle, NEW m \in Mutex,
           s.owner[m] \in {Free, Shared}, s.shared_owner[m][t] < MaxRecursion[m],
           NEW r, r = Shares(s, t, m) \/ (s.owner[m] = Shared /\ r = SharesMore(s, t, m))
    PROVE  Good(r) /\ r.outcome = s.outcome
  <1>. DEFINE f == s.shared_owner[m]
              n == f[t] + 1
              h == [f EXCEPT ![t] = n]
              c == s.shared_lock_count[m] + 1
  <1>1. /\ s \in State /\ f \in [Thread -> Nat] /\ n \in Nat /\ h \in [Thread -> Nat]
        /\ h[t] = n /\ \A u \in Thread \ {t} : h[u] = f[u]
        /\ s.shared_lock_count[m] \in Nat /\ c \in Nat
    BY HeldFacts
  <1>. DEFINE H == [s.shared_owner EXCEPT ![m] = h]
              C == [s.shared_lock_count EXCEPT ![m] = c]
              O == [s.owner EXCEPT ![m] = Shared]
  <1>2. r = [s EXCEPT !.owner = O, !.shared_owner = H, !.shared_lock_count = C]
    <2>1. CASE r = Shares(s, t, m)
      BY <1>1, <2>1 DEF State, Shares
    <2>2. CASE s.owner[m] = Shared /\ r = SharesMore(s, t, m)
      <3>1. r = [s EXCEPT !.shared_owner = H, !.shared_lock_count = C]
        BY <1>1, <2>2 DEF State, SharesMore
      <3>2. O = s.owner
        BY <1>1, <2>2 DEF State
      <3>. HIDE DEF O, H, C
      <3>3. s = [s EXCEPT !.owner = O]
        BY <1>1, <3>2 DEF State
      <3>4. [s EXCEPT !.shared_owner = H, !.shared_lock_count = C] =
                [[s EXCEPT !.owner = O] EXCEPT !.shared_owner = H, !.shared_lock_count = C]
        BY <3>3
      <3>. QED  BY <3>1, <3>4
    <2>. QED  BY <2>1, <2>2
  <1>3. /\ H \in [Mutex -> [Thread -> Nat]] /\ C \in [Mutex -> Nat]
        /\ O \in [Mutex -> Thread \cup {Free, Shared}]
        /\ \A x \in Mutex : /\ H[x] = IF x = m THEN h ELSE s.shared_owner[x]
                            /\ C[x] = IF x = m THEN c ELSE s.shared_lock_count[x]
                            /\ O[x] = IF x = m THEN Shared ELSE s.owner[x]
    <2>. HIDE DEF h, c
    <2>. QED  BY <1>1 DEF State
  <1>. HIDE DEF H, C, O
  <1>4. /\ r \in State /\ r.owner = O /\ r.shared_owner = H /\ r.shared_lock_count = C
        /\ r.recursion = s.recursion /\ SameWaits(s, r) /\ SameCounts(s, r) /\ SameNews(s, r)
        /\ r.outcome = s.outcome
    BY <1>1, <1>2, <1>3 DEF State, SameWaits, SameCounts, SameNews
  <1>5. NowHeld(s, r, m, Shared, s.recursion[m], h, c)
    BY <1>3, <1>4 DEF NowHeld
  <1>6. HeldWell(m, Shared, s.recursion[m], h, c)
    <2>1. HeldWell(m, s.owner[m], s.recursion[m], f, s.shared_lock_count[m])
      BY HeldFacts
    <2>2. SumFunction(h) = SumFunction(f) - f[t] + n
      BY <1>1, ReadersSum
    <2>3. c = SumFunction(h)
      <3>1. SumFunction(f) \in Nat
        BY <1>1, ReadersSum
      <3>2. s.shared_lock_count[m] = SumFunction(f)
        BY <2>1 DEF HeldWell
      <3>3. f[t] \in Nat
        BY <1>1
      <3>. HIDE DEF f, h
      <3>. QED  BY <2>2, <3>1, <3>2, <3>3
    <2>4. h[t] > 0 /\ h[t] <= MaxRecursion[m]
      BY <1>1, HeldFacts
    <2>5. \A u \in Thread : h[u] <= MaxRecursion[m]
      BY <1>1, <2>1, <2>4 DEF HeldWell
    <2>6. Shared \notin Thread /\ (s.recursion[m] > 0 <=> s.owner[m] \in Thread)
          /\ s.owner[m] \notin Thread /\ s.recursion[m] <= MaxRecursion[m]
      BY <2>1, KindAssumption DEF HeldWell
    <2>. HIDE DEF h, c
    <2>. QED  BY <2>3, <2>4, <2>5, <2>6 DEF HeldWell
  <1>. HIDE DEF h, c, n
  <1>. QED  BY <1>1, <1>4, <1>5, <1>6, NowHeldGood

\* t is a reader once less; the last of all frees the lock.
LEMMA UnreadGood ==
    ASSUME NEW s, Good(s), NEW t \in Thread, s.wait[t] = Idle, NEW m \in Mutex,
           s.owner[m] = Shared, s.shared_owner[m][t] > 0,
           NEW q, q = SharesLess(s, t, m), NEW r, r = Freed(q, m)
    PROVE  /\ q \in State /\ q.outcome = s.outcome /\ q.wait = s.wait
           /\ IF q.shared_lock_count[m] = 0 THEN Good(r) ELSE Good(q)
  <1>. DEFINE f == s.shared_owner[m]
              n == f[t] - 1
              h == [f EXCEPT ![t] = n]
              c == s.shared_lock_count[m] - 1
  <1>1. /\ s \in State /\ f \in [Thread -> Nat] /\ n \in Nat /\ h \in [Thread -> Nat]
        /\ h[t] = n /\ \A u \in Thread \ {t} : h[u] = f[u]
        /\ s.shared_lock_count[m] \in Nat
    BY HeldFacts
  <1>2. HeldWell(m, s.owner[m], s.recursion[m], f, s.shared_lock_count[m])
    BY HeldFacts
  <1>3. c = SumFunction(h) /\ c \in Nat /\ (c = 0 <=> \A u \in Thread : h[u] = 0)
    <2>1. SumFunction(h) = SumFunction(f) - f[t] + n
      BY <1>1, ReadersSum
    <2>2. SumFunction(h) \in Nat /\ (SumFunction(h) = 0 <=> \A u \in Thread : h[u] = 0)
      <3>. HIDE DEF h, n
      <3>. QED  BY <1>1, ReadersSum
    <2>3. SumFunction(f) \in Nat
      BY <1>1, ReadersSum
    <2>4. s.shared_lock_count[m] = SumFunction(f)
      BY <1>2 DEF HeldWell
    <2>5. f[t] \in Nat
      BY <1>1
    <2>. HIDE DEF f, h
    <2>6. c = SumFunction(h)
      BY <2>1, <2>3, <2>4, <2>5
    <2>. HIDE DEF c
    <2>. QED  BY <2>2, <2>6
  <1>. DEFINE H == [s.shared_owner EXCEPT ![m] = h]
              C == [s.shared_lock_count EXCEPT ![m] = c]
  <1>4. q = [s EXCEPT !.shared_owner = H, !.shared_lock_count = C]
    BY <1>1 DEF State, SharesLess
  <1>5. /\ H \in [Mutex -> [Thread -> Nat]] /\ C \in [Mutex -> Nat]
        /\ \A x \in Mutex : /\ H[x] = IF x = m THEN h ELSE s.shared_owner[x]
                            /\ C[x] = IF x = m THEN c ELSE s.shared_lock_count[x]
    <2>1. h \in [Thread -> Nat] /\ c \in Nat
      BY <1>1, <1>3
    <2>. HIDE DEF h, c
    <2>. QED  BY <1>1, <2>1 DEF State
  <1>. HIDE DEF H, C
  <1>6. /\ q \in State /\ q.shared_owner = H /\ q.shared_lock_count = C /\ q.owner = s.owner
        /\ q.recursion = s.recursion /\ SameWaits(s, q) /\ SameCounts(s, q) /\ SameNews(s, q)
        /\ q.outcome = s.outcome
    <2>1. s \in State /\ H \in [Mutex -> [Thread -> Nat]] /\ C \in [Mutex -> Nat]
      BY <1>1, <1>5
    <2>. HIDE DEF f, n, h, c
    <2>. QED  BY ONLY <1>4, <2>1 DEF State, SameWaits, SameCounts, SameNews
  <1>7. /\ r \in State /\ r.shared_owner = H /\ r.shared_lock_count = C
        /\ \A x \in Mutex : r.owner[x] = IF x = m THEN Free ELSE s.owner[x]
        /\ r.recursion = s.recursion /\ SameWaits(s, r) /\ SameCounts(s, r) /\ SameNews(s, r)
        /\ r.outcome = s.outcome
    <2>. DEFINE O == [q.owner EXCEPT ![m] = Free]
    <2>1. r = [q EXCEPT !.owner = O]
      BY DEF Freed
    <2>2. /\ O \in [Mutex -> Thread \cup {Free, Shared}]
          /\ \A x \in Mutex : O[x] = IF x = m THEN Free ELSE q.owner[x]
      BY <1>6 DEF State
    <2>. HIDE DEF O
    <2>3. /\ r \in State /\ r.shared_owner = q.shared_owner /\ r.outcome = q.outcome
          /\ r.shared_lock_count = q.shared_lock_count /\ r.owner = O
          /\ r.recursion = q.recursion /\ SameWaits(q, r) /\ SameCounts(q, r) /\ SameNews(q, r)
      <3>1. q \in State
        BY <1>6
      <3>. QED  BY ONLY <2>1, <2>2, <3>1 DEF State, SameWaits, SameCounts, SameNews
    <2>4. SameWaits(s, r) /\ SameCounts(s, r) /\ SameNews(s, r)
      BY ONLY <1>6, <2>3 DEF SameWaits, SameCounts, SameNews
    <2>. QED  BY <1>6, <2>2, <2>3, <2>4
  <1>8. NowHeld(s, q, m, Shared, s.recursion[m], h, c)
    BY <1>5, <1>6 DEF NowHeld
  <1>9. NowHeld(s, r, m, Free, s.recursion[m], h, c)
    BY <1>5, <1>7 DEF NowHeld
  <1>10. /\ Shared \notin Thread /\ Free \notin Thread /\ Free # Shared
         /\ (s.recursion[m] > 0 <=> s.owner[m] \in Thread) /\ s.recursion[m] <= MaxRecursion[m]
         /\ \A u \in Thread : h[u] <= MaxRecursion[m]
    <2>1. f[t] \in Nat /\ MaxRecursion[m] \in Nat /\ \A u \in Thread : f[u] <= MaxRecursion[m]
      BY <1>1, <1>2, HeldFacts DEF HeldWell
    <2>2. n <= MaxRecursion[m]
      BY <2>1
    <2>3. \A u \in Thread : h[u] <= MaxRecursion[m]
      <3>. HIDE DEF n, h, f
      <3>. QED  BY <1>1, <2>1, <2>2
    <2>. QED  BY <1>2, <2>3, KindAssumption DEF HeldWell
  <1>11. q.shared_lock_count[m] = c
    BY <1>5, <1>6
  <1>. HIDE DEF h, c
  <1>12. CASE c = 0
    <2>1. \A u \in Thread : ~(h[u] > 0)
      BY <1>3, <1>12
    <2>2. HeldWell(m, Free, s.recursion[m], h, c)
      BY <1>3, <1>10, <2>1 DEF HeldWell
    <2>3. Good(r)
      BY <1>1, <1>9, <2>2, NowHeldGood
    <2>. QED  BY <1>6, <1>11, <1>12, <2>3 DEF SameWaits
  <1>13. CASE c # 0
    <2>1. \E u \in Thread : h[u] > 0
      <3>1. PICK u \in Thread : h[u] # 0
        BY <1>3, <1>13
      <3>2. h[u] \in Nat
        BY <1>1
      <3>. QED  BY <3>1, <3>2
    <2>2. HeldWell(m, Shared, s.recursion[m], h, c)
      BY <1>3, <1>10, <2>1 DEF HeldWell
    <2>3. Good(q)
      BY <1>1, <1>8, <2>2, NowHeldGood
    <2>. QED  BY <1>6, <1>11, <1>13, <2>3 DEF SameWaits
  <1>. QED  BY <1>12, <1>13

\* The operation has done no harm, and its checks have not failed.
Fine(s, r) == Good(r) /\ (s.outcome = "none" => r.outcome # "verify")

\* The fields of a wait.
LEMMA WaitFields ==
    ASSUME NEW op, NEW on, NEW sp
    PROVE  /\ Wait(op, on, sp).op = op /\ Wait(op, on, sp).on = on
           /\ Wait(op, on, sp).parked /\ Wait(op, on, sp).spurious = sp
  BY DEF Wait

\* A sensible wait is a wait.
LEMMA WaitIsOne ==
    ASSUME NEW op \in Ops, NEW on \in Seq(Object), NEW sp \in BOOLEAN,
           Sensible(Wait(op, on, sp))
    PROVE  Wait(op, on, sp) \in Waits
  BY DEF Wait, Waits

\* The waits of the operations.
LEMMA ParkWaits ==
    ASSUME NEW sp \in BOOLEAN
    PROVE  /\ \A m \in Mutex : Wait("lock", <<m>>, FALSE) \in Waits
           /\ \A m \in RwLock : Wait("lock_shared", <<m>>, FALSE) \in Waits
           /\ \A c \in CondVar, m \in Mutex : Wait("condvar", <<c, m>>, sp) \in Waits
           /\ \A u \in Thread : Wait("join", <<u>>, FALSE) \in Waits
           /\ \A o \in Semaphore \cup Event : Wait("wait", <<o>>, sp) \in Waits
           /\ \A on \in WaitArrays : Wait("wait_all", on, FALSE) \in Waits
           /\ \A on \in WaitArrays : Wait("wait_any", on, FALSE) \in Waits
  <1>1. /\ Mutex \subseteq Object /\ RwLock \subseteq Object /\ CondVar \subseteq Object
        /\ Thread \subseteq Object /\ Semaphore \subseteq Object /\ Event \subseteq Object
    BY KindAssumption DEF Object
  <1>2. ASSUME NEW m \in Mutex PROVE Wait("lock", <<m>>, FALSE) \in Waits
    <2>. DEFINE w == Wait("lock", <<m>>, FALSE)
    <2>1. w.op = "lock" /\ w.on = <<m>> /\ w.parked /\ ~w.spurious
      BY DEF Wait
    <2>2. <<m>> \in Seq(Object) /\ "lock" \in Ops
      BY <1>1 DEF Ops
    <2>. HIDE DEF w
    <2>3. Sensible(w)
      BY <2>1 DEF Sensible
    <2>. QED  BY <2>2, <2>3, WaitIsOne DEF w
  <1>3. ASSUME NEW m \in RwLock PROVE Wait("lock_shared", <<m>>, FALSE) \in Waits
    <2>. DEFINE w == Wait("lock_shared", <<m>>, FALSE)
    <2>1. w.op = "lock_shared" /\ w.on = <<m>> /\ w.parked /\ ~w.spurious
      BY DEF Wait
    <2>2. <<m>> \in Seq(Object) /\ "lock_shared" \in Ops
      BY <1>1 DEF Ops
    <2>. HIDE DEF w
    <2>3. Sensible(w)
      BY <2>1 DEF Sensible
    <2>. QED  BY <2>2, <2>3, WaitIsOne DEF w
  <1>4. ASSUME NEW c \in CondVar, NEW m \in Mutex PROVE Wait("condvar", <<c, m>>, sp) \in Waits
    <2>. DEFINE w == Wait("condvar", <<c, m>>, sp)
    <2>1. w.op = "condvar" /\ w.on = <<c, m>> /\ w.parked
      BY WaitFields
    <2>2. <<c, m>> \in Seq(Object) /\ "condvar" \in Ops
      BY <1>1 DEF Ops
    <2>. HIDE DEF w
    <2>3. Sensible(w)
      BY <2>1 DEF Sensible
    <2>. QED  BY <2>2, <2>3, WaitIsOne DEF w
  <1>5. ASSUME NEW u \in Thread PROVE Wait("join", <<u>>, FALSE) \in Waits
    <2>. DEFINE w == Wait("join", <<u>>, FALSE)
    <2>1. w.op = "join" /\ w.on = <<u>> /\ w.parked /\ ~w.spurious
      BY DEF Wait
    <2>2. <<u>> \in Seq(Object) /\ "join" \in Ops
      BY <1>1 DEF Ops
    <2>. HIDE DEF w
    <2>3. Sensible(w)
      BY <2>1 DEF Sensible
    <2>. QED  BY <2>2, <2>3, WaitIsOne DEF w
  <1>6. ASSUME NEW o \in Semaphore \cup Event PROVE Wait("wait", <<o>>, sp) \in Waits
    <2>. DEFINE w == Wait("wait", <<o>>, sp)
    <2>1. w.op = "wait" /\ w.on = <<o>> /\ w.parked
      BY WaitFields
    <2>2. <<o>> \in Seq(Object) /\ "wait" \in Ops
      BY <1>1 DEF Ops
    <2>. HIDE DEF w
    <2>3. Sensible(w)
      BY <2>1 DEF Sensible
    <2>. QED  BY <2>2, <2>3, WaitIsOne DEF w
  <1>7. ASSUME NEW on \in WaitArrays PROVE Wait("wait_all", on, FALSE) \in Waits
    <2>. DEFINE w == Wait("wait_all", on, FALSE)
    <2>1. w.op = "wait_all" /\ w.on = on /\ w.parked /\ ~w.spurious
      BY DEF Wait
    <2>2. on \in Seq(Object) /\ "wait_all" \in Ops
      BY <1>1, ArraysAre DEF Ops, IsArray
    <2>. HIDE DEF w
    <2>3. Sensible(w)
      BY <2>1 DEF Sensible
    <2>. QED  BY <2>2, <2>3, WaitIsOne DEF w
  <1>8. ASSUME NEW on \in WaitArrays PROVE Wait("wait_any", on, FALSE) \in Waits
    <2>. DEFINE w == Wait("wait_any", on, FALSE)
    <2>1. w.op = "wait_any" /\ w.on = on /\ w.parked /\ ~w.spurious
      BY DEF Wait
    <2>2. on \in Seq(Object) /\ "wait_any" \in Ops
      BY <1>1, ArraysAre DEF Ops, IsArray
    <2>. HIDE DEF w
    <2>3. Sensible(w)
      BY <2>1 DEF Sensible
    <2>. QED  BY <2>2, <2>3, WaitIsOne DEF w
  <1>. QED  BY <1>2, <1>3, <1>4, <1>5, <1>6, <1>7, <1>8

\* A park for anything but a reader's lock or a condition variable.
LEMMA ParkPlain ==
    ASSUME NEW s, Good(s), NEW t \in Thread, s.wait[t] = Idle, NEW op, NEW on, NEW sp,
           Wait(op, on, sp) \in Waits, op \notin {"lock_shared", "condvar"},
           NEW r, r = Park(s, t, Wait(op, on, sp))
    PROVE  Fine(s, r)
  <1>. DEFINE w == Wait(op, on, sp)
  <1>1. w.op = op /\ w.parked
    BY WaitFields
  <1>. HIDE DEF w
  <1>2. MayWait(s, t, w)
    BY <1>1 DEF MayWait
  <1>3. r = Park(s, t, w) /\ w \in Waits
    BY DEF w
  <1>4. Good(r) /\ NowWaits(s, r, t, w)
    BY <1>1, <1>2, <1>3, ParkGood
  <1>. QED  BY <1>4 DEF Fine, NowWaits

\* A lock is taken, or its thread parks.
LEMMA LockOrParkGood ==
    ASSUME NEW s, Good(s), NEW t \in Thread, s.wait[t] = Idle, NEW m \in Mutex,
           NEW r, r = LockOrPark(s, t, m)
    PROVE  Fine(s, r)
  <1>1. CASE s.owner[m] = Free
    <2>1. r = Take(s, t, m)
      BY <1>1 DEF LockOrPark
    <2>2. m \in Object \ CondVar /\ is_signaled(s, m)
      BY <1>1, KindAssumption, SignaledKinds DEF Object
    <2>. QED  BY <2>1, <2>2, TakeGood DEF Fine, Taken
  <1>2. CASE s.owner[m] # Free
    <2>1. r = Park(s, t, Wait("lock", <<m>>, FALSE))
      BY <1>2 DEF LockOrPark
    <2>2. Wait("lock", <<m>>, FALSE) \in Waits
      BY ParkWaits
    <2>. QED  BY <2>1, <2>2, ParkPlain
  <1>. QED  BY <1>1, <1>2

\* An operation that is a misuse leaves its mark only.
LEMMA MisuseFine ==
    ASSUME NEW s, Good(s), NEW x \in Outcomes \ {"verify"}, NEW r, r = [s EXCEPT !.outcome = x]
    PROVE  Fine(s, r) /\ r.outcome = x /\ Spares({}, s, r)
  <1>1. Good(r) /\ r.outcome = x /\ Spares({}, s, r)
    BY OutcomeGood
  <1>. QED  BY <1>1 DEF Fine

\* lock_exclusive, by a thread that may lock once more.
LEMMA LockExclusiveGood ==
    ASSUME NEW s, Good(s), NEW t \in Thread, s.wait[t] = Idle, NEW m \in Mutex,
           s.owner[m] = t => s.recursion[m] < MaxRecursion[m],
           NEW r, r = lock_exclusive(s, t, m)
    PROVE  Fine(s, r)
  <1>1. CASE s.owner[m] = Shared /\ s.shared_owner[m][t] > 0
    <2>1. r = [s EXCEPT !.outcome = "mutex_read_to_write_upgrade"]
      BY <1>1 DEF lock_exclusive
    <2>. QED  BY <2>1, MisuseFine DEF Outcomes
  <1>2. CASE ~(s.owner[m] = Shared /\ s.shared_owner[m][t] > 0) /\ s.owner[m] # t
    BY <1>2, LockOrParkGood DEF lock_exclusive
  <1>3. CASE ~(s.owner[m] = Shared /\ s.shared_owner[m][t] > 0) /\ s.owner[m] = t /\ m \in Recursive
    <2>1. r = [s EXCEPT !.recursion[m] = s.recursion[m] + 1]
      BY <1>3 DEF lock_exclusive
    <2>. DEFINE n == s.recursion[m] + 1
    <2>2. n \in 1 .. MaxRecursion[m]
      BY <1>3, HeldFacts
    <2>. HIDE DEF n
    <2>3. r = [s EXCEPT !.recursion[m] = n]
      BY <2>1 DEF n
    <2>. QED  BY <1>3, <2>2, <2>3, RecurGood DEF Fine, NowHeld
  <1>4. CASE /\ ~(s.owner[m] = Shared /\ s.shared_owner[m][t] > 0)
             /\ s.owner[m] = t /\ m \notin Recursive
    <2>1. r = [s EXCEPT !.outcome = "recursion_on_nonrecursive_mutex"]
      BY <1>4 DEF lock_exclusive
    <2>. QED  BY <2>1, MisuseFine DEF Outcomes
  <1>. QED  BY <1>1, <1>2, <1>3, <1>4

\* A reader's lock is taken, or its thread parks.
LEMMA LockSharedOrParkGood ==
    ASSUME NEW s, Good(s), NEW t \in Thread, s.wait[t] = Idle, NEW m \in RwLock,
           s.shared_owner[m][t] = 0, NEW r, r = LockSharedOrPark(s, t, m)
    PROVE  Fine(s, r)
  <1>0. m \in Mutex /\ m \in Object /\ m \notin Thread
    BY KindAssumption DEF Object
  <1>1. CASE SharedFree(s, m)
    <2>. DEFINE q == Shares(s, t, m)
    <2>1. r = Took(acquire(q, t, m), t, m)
      BY <1>1 DEF LockSharedOrPark, Shares
    <2>2. s.owner[m] \in {Free, Shared} /\ s.shared_owner[m][t] < MaxRecursion[m]
      BY <1>0, <1>1, HeldFacts DEF SharedFree
    <2>3. Good(q) /\ q.outcome = s.outcome
      BY <1>0, <2>2, ReadGood
    <2>. HIDE DEF q
    <2>4. q.last = m => m \in q.order
      BY <1>0, <2>3, SignaledIsCovered
    <2>5. NewsOnly(q, r)
      BY <1>0, <2>1, <2>3, <2>4, TookNews DEF Good
    <2>6. Good(r)
      BY <2>3, <2>5, NewsOnlyGood
    <2>. QED  BY <2>3, <2>5, <2>6 DEF Fine, NewsOnly
  <1>2. CASE ~SharedFree(s, m)
    <2>. DEFINE w == Wait("lock_shared", <<m>>, FALSE)
    <2>1. r = Park(s, t, w)
      BY <1>2 DEF LockSharedOrPark
    <2>2. w \in Waits
      BY ParkWaits
    <2>5. w.parked /\ w.op = "lock_shared" /\ w.on = <<m>>
      BY DEF Wait
    <2>. HIDE DEF w
    <2>3. MayWait(s, t, w)
      BY <2>5 DEF MayWait
    <2>4. Good(r) /\ NowWaits(s, r, t, w)
      BY <2>1, <2>2, <2>3, <2>5, ParkGood
    <2>. QED  BY <2>4 DEF Fine, NowWaits
  <1>. QED  BY <1>1, <1>2

\* lock_shared, by a thread that may lock once more.
LEMMA LockSharedGood ==
    ASSUME NEW s, Good(s), NEW t \in Thread, s.wait[t] = Idle, NEW m \in RwLock,
           s.owner[m] = Shared => s.shared_owner[m][t] < MaxRecursion[m],
           NEW r, r = lock_shared(s, t, m)
    PROVE  Fine(s, r)
  <1>0. /\ m \in Mutex /\ s.shared_owner[m][t] \in Nat
        /\ s.owner[m] # Shared => s.shared_owner[m][t] = 0
    <2>1. m \in Mutex
      BY KindAssumption
    <2>2. s.shared_owner[m][t] \in Nat
      BY <2>1, HeldFacts
    <2>3. s.owner[m] = Shared <=> \E u \in Thread : s.shared_owner[m][u] > 0
      BY <2>1, HeldFacts DEF HeldWell
    <2>. QED  BY <2>1, <2>2, <2>3
  <1>1. CASE s.owner[m] = t
    <2>1. r = [s EXCEPT !.outcome = "mutex_write_to_read_upgrade"]
      BY <1>1 DEF lock_shared
    <2>. QED  BY <2>1, MisuseFine DEF Outcomes
  <1>2. CASE s.owner[m] # t /\ (s.owner[m] # Shared \/ s.shared_owner[m][t] = 0)
    <2>1. r = LockSharedOrPark(s, t, m) /\ s.shared_owner[m][t] = 0
      BY <1>0, <1>2 DEF lock_shared
    <2>. QED  BY <2>1, LockSharedOrParkGood
  <1>3. CASE /\ s.owner[m] # t /\ s.owner[m] = Shared
             /\ s.shared_owner[m][t] # 0 /\ m \in SharedRecursive
    <2>1. r = SharesMore(s, t, m)
      BY <1>3 DEF lock_shared, SharesMore
    <2>2. Good(r) /\ r.outcome = s.outcome
      BY <1>0, <1>3, <2>1, ReadGood
    <2>. QED  BY <2>2 DEF Fine
  <1>4. CASE /\ s.owner[m] # t /\ s.owner[m] = Shared
             /\ s.shared_owner[m][t] # 0 /\ m \notin SharedRecursive
    <2>1. r = [s EXCEPT !.outcome = "recursion_on_nonrecursive_mutex"]
      BY <1>4 DEF lock_shared
    <2>. QED  BY <2>1, MisuseFine DEF Outcomes
  <1>. QED  BY <1>1, <1>2, <1>3, <1>4

\* t has waited for nothing and still does, and m is held once less by it.
Unlocked(s, r, t, m) ==
    /\ r.wait[t] = Idle /\ r.finished = s.finished
    /\ r.outcome = "none" =>
           \A x \in Mutex : r.owner[x] = t =>
               /\ s.owner[x] = t /\ r.recursion[x] <= s.recursion[x]
               /\ x = m => r.recursion[x] < s.recursion[x]

\* The waitsets of a lock.
LEMMA LockWaitsets ==
    ASSUME NEW s, NEW m \in Mutex
    PROVE  /\ Main(m) \in WaitsetId /\ Endable(s, Main(m))
           /\ m \in RwLock => /\ Readers(m) \in WaitsetId /\ Endable(s, Readers(m))
                              /\ Steady(s, Readers(m))
           /\ s.owner[m] = Free => Meets(s, Main(m))
  <1>1. m \in Object \ CondVar /\ m \notin Thread
    BY KindAssumption DEF Object
  <1>2. Main(m) \in WaitsetId /\ (m \in RwLock => Readers(m) \in WaitsetId)
    BY <1>1 DEF WaitsetId
  <1>3. Endable(s, Main(m)) /\ Endable(s, Readers(m))
    BY <1>1 DEF Endable, Main, Readers
  <1>4. m \in RwLock => Steady(s, Readers(m))
    BY DEF Steady
  <1>5. s.owner[m] = Free => Meets(s, Main(m))
    BY <1>1, SignaledKinds DEF Meets
  <1>. QED  BY <1>2, <1>3, <1>4, <1>5

\* unlock_exclusive: the lock is held once less, and who is woken is right.
LEMMA UnlockExclusiveGood ==
    ASSUME NEW s, Good(s), NEW t \in Thread, s.wait[t] = Idle, NEW m \in Mutex,
           NEW r \in unlock_exclusive(s, t, m)
    PROVE  Fine(s, r) /\ Unlocked(s, r, t, m)
  <1>1. CASE s.owner[m] # t
    <2>1. r = [s EXCEPT !.outcome = "unlocking_mutex_wo_ownership"]
      BY <1>1 DEF unlock_exclusive
    <2>2. /\ Fine(s, r) /\ Spares({}, s, r)
          /\ r.outcome = "unlocking_mutex_wo_ownership"
      BY <2>1, MisuseFine DEF Outcomes
    <2>. QED  BY <2>2 DEF Unlocked, Spares
  <1>2. CASE s.owner[m] = t /\ s.recursion[m] > 1
    <2>. DEFINE n == s.recursion[m] - 1
    <2>1. r = [s EXCEPT !.recursion[m] = n]
      BY <1>2 DEF unlock_exclusive
    <2>2. n \in 1 .. MaxRecursion[m] /\ n < s.recursion[m]
      <3>1. s.recursion[m] \in Nat /\ s.recursion[m] <= MaxRecursion[m] /\ MaxRecursion[m] \in Nat
        BY HeldFacts DEF HeldWell
      <3>. QED  BY <1>2, <3>1
    <2>. HIDE DEF n
    <2>3. Good(r) /\ NowHeld(s, r, m, t, n, s.shared_owner[m], s.shared_lock_count[m])
      BY <1>2, <2>1, <2>2, RecurGood
    <2>4. Fine(s, r)
      BY <2>3 DEF Fine, NowHeld
    <2>5. \A x \in Mutex : s.recursion[x] \in Nat
      BY DEF Good, State
    <2>6. Unlocked(s, r, t, m)
      BY <2>2, <2>3, <2>5, <1>2 DEF Unlocked, NowHeld, SameWaits
    <2>. QED  BY <2>4, <2>6
  <1>3. CASE s.owner[m] = t /\ ~(s.recursion[m] > 1)
    <2>. DEFINE q == [s EXCEPT !.recursion[m] = 0, !.owner[m] = Free]
                f == Signal(q, t, m)
                woken == UnparkOne(f, Main(m))
    <2>1. Good(q) /\ NowHeld(s, q, m, Free, 0, s.shared_owner[m], s.shared_lock_count[m])
      BY <1>3, FreeGood
    <2>2. IF woken # {} THEN r \in woken
          ELSE r = IF m \in RwLock THEN unpark_all(f, Readers(m)) ELSE f
      BY <1>3 DEF unlock_exclusive
    <2>. HIDE DEF q
    <2>3. Good(f) /\ NewsOnly(q, f)
      <3>1. m \in Object
        BY DEF Object
      <3>. QED  BY <2>1, <3>1, SyncNews, NewsOnlyGood DEF Good
    <2>. HIDE DEF f
    <2>4. /\ f.owner[m] = Free /\ f.wait[t] = Idle /\ f.outcome = s.outcome
          /\ f.finished = s.finished
          /\ \A x \in Mutex \ {m} : f.owner[x] = s.owner[x] /\ f.recursion[x] = s.recursion[x]
      BY <2>1, <2>3 DEF NowHeld, NewsOnly, SameWaits
    <2>5. Good(r) /\ r.outcome = f.outcome /\ Spares(Thread \ {t}, f, r)
      <3>1. CASE woken # {}
        <4>1. r \in TryUnparkOne(f, Main(m))
          BY <2>2, <3>1 DEF TryUnparkOne
        <4>2. Good(r) /\ r.outcome = f.outcome /\ IdleSpared(f, r)
          BY <2>3, <2>4, <4>1, LockWaitsets, UnparkOneGood
        <4>. QED  BY <2>4, <4>2 DEF IdleSpared
      <3>2. CASE woken = {} /\ m \in RwLock
        <4>1. r = unpark_all(f, Readers(m))
          BY <2>2, <3>2
        <4>2. Good(r) /\ r.outcome = f.outcome /\ IdleSpared(f, r)
          BY <2>3, <3>2, <4>1, LockWaitsets, UnparkAllGood
        <4>. QED  BY <2>4, <4>2 DEF IdleSpared
      <3>3. CASE woken = {} /\ m \notin RwLock
        BY <2>2, <2>3, <3>3, SparesItself
      <3>. QED  BY <3>1, <3>2, <3>3
    <2>6. Fine(s, r)
      BY <2>4, <2>5 DEF Fine
    <2>7. Unlocked(s, r, t, m)
      <3>1. r.wait[t] = Idle /\ r.finished = s.finished
        BY <2>4, <2>5 DEF Spares
      <3>2. ASSUME NEW x \in Mutex, r.owner[x] = t
            PROVE  x # m /\ s.owner[x] = t /\ r.recursion[x] = s.recursion[x]
        <4>1. f.owner[x] = t /\ r.recursion[x] = f.recursion[x]
          BY <2>5, <3>2 DEF Spares
        <4>2. x # m
          BY <2>4, <4>1, KindAssumption
        <4>. QED  BY <2>4, <4>1, <4>2
      <3>3. \A x \in Mutex : s.recursion[x] \in Nat
        BY DEF Good, State
      <3>. QED  BY <3>1, <3>2, <3>3 DEF Unlocked
    <2>. QED  BY <2>6, <2>7
  <1>. QED  BY <1>1, <1>2, <1>3

\* What is left of the readers' lock m when t has unlocked it once and maybe signaled
\* it, and when that was the last of all.
Unread(s, t, m) ==
    LET q == SharesLess(s, t, m) IN IF q.shared_owner[m][t] = 0 THEN Signal(q, t, m) ELSE q

\* Either is a good state, where locks but for m are as before.
LEMMA UnreadSignaled ==
    ASSUME NEW s, Good(s), NEW t \in Thread, s.wait[t] = Idle, NEW m \in RwLock,
           s.owner[m] = Shared, s.shared_owner[m][t] > 0,
           NEW g, g = Unread(s, t, m), NEW f, f = Freed(g, m)
    PROVE  /\ IF SharesLess(s, t, m).shared_lock_count[m] = 0 THEN Good(f) ELSE Good(g)
           /\ SameWaits(s, g) /\ g.owner = s.owner /\ g.count = s.count /\ g.state = s.state
           /\ SameWaits(s, f) /\ \A x \in Mutex \ {m} : f.owner[x] = s.owner[x]
           /\ f.count = s.count /\ f.state = s.state
           /\ f.owner[m] = Free /\ f.outcome = s.outcome /\ g.outcome = s.outcome
  <1>. DEFINE q == SharesLess(s, t, m)
              p == Freed(q, m)
  <1>0. m \in Mutex /\ m \in Object /\ g = IF q.shared_owner[m][t] = 0 THEN Signal(q, t, m) ELSE q
    BY KindAssumption DEF Object, Unread
  <1>1. /\ q \in State /\ q.outcome = s.outcome /\ q.wait = s.wait
        /\ IF q.shared_lock_count[m] = 0 THEN Good(p) ELSE Good(q)
    BY <1>0, UnreadGood
  <1>2. /\ SameWaits(s, q) /\ q.owner = s.owner /\ q.count = s.count /\ q.state = s.state
    BY DEF Good, State, SameWaits, SharesLess
  <1>. HIDE DEF q
  <1>3. NewsOnly(q, g)
    <2>1. NewsOnly(q, q)
      BY <1>1 DEF NewsOnly
    <2>2. NewsOnly(q, Signal(q, t, m))
      BY <1>0, <1>1, SyncNews
    <2>. QED  BY <1>0, <2>1, <2>2
  <1>4. NewsOnly(p, f) /\ f.owner[m] = Free /\ f.owner = [g.owner EXCEPT ![m] = Free]
    <2>1. g \in State /\ q \in State
      BY <1>1, <1>3 DEF NewsOnly
    <2>2. /\ f \in State /\ f.owner = [g.owner EXCEPT ![m] = Free]
          /\ p.owner = [q.owner EXCEPT ![m] = Free]
          /\ f.recursion = g.recursion /\ f.shared_owner = g.shared_owner
          /\ f.shared_lock_count = g.shared_lock_count /\ f.count = g.count
          /\ f.state = g.state /\ f.spurious_limit = g.spurious_limit
          /\ f.finished = g.finished /\ f.ws = g.ws /\ f.wait = g.wait
          /\ f.watched = g.watched /\ f.last = g.last /\ f.order = g.order
          /\ f.unseen = g.unseen /\ f.outcome = g.outcome
      <3>1. f \in State
        BY <1>0, <2>1 DEF State, Freed
      <3>. QED  BY <2>1, <3>1 DEF State, Freed
    <2>3. /\ p.recursion = q.recursion /\ p.shared_owner = q.shared_owner
          /\ p.shared_lock_count = q.shared_lock_count /\ p.count = q.count
          /\ p.state = q.state /\ p.spurious_limit = q.spurious_limit
          /\ p.finished = q.finished /\ p.ws = q.ws /\ p.wait = q.wait
          /\ p.watched = q.watched /\ p.last = q.last /\ p.order = q.order
          /\ p.unseen = q.unseen /\ p.outcome = q.outcome
      BY <2>1 DEF State, Freed
    <2>4. f.owner[m] = Free
      BY <1>0, <2>1, <2>2 DEF State
    <2>. HIDE DEF p
    <2>. QED  BY <1>3, <2>2, <2>3, <2>4 DEF NewsOnly
  <1>5. /\ p.outcome = q.outcome /\ SameWaits(q, p) /\ p.count = q.count /\ p.state = q.state
    BY <1>1 DEF State, Freed, SameWaits
  <1>. HIDE DEF p
  <1>6. IF q.shared_lock_count[m] = 0 THEN Good(f) ELSE Good(g)
    BY <1>1, <1>3, <1>4, NewsOnlyGood
  <1>7. SameWaits(s, g) /\ g.owner = s.owner /\ g.count = s.count /\ g.state = s.state
    BY <1>2, <1>3 DEF NewsOnly, SameWaits
  <1>8. SameWaits(s, f) /\ f.count = s.count /\ f.state = s.state
    BY <1>2, <1>4, <1>5 DEF NewsOnly, SameWaits
  <1>9. f.outcome = s.outcome /\ g.outcome = s.outcome
    BY <1>1, <1>3, <1>4, <1>5 DEF NewsOnly
  <1>10. \A x \in Mutex \ {m} : f.owner[x] = s.owner[x]
    BY <1>4, <1>7 DEF Good, State
  <1>. QED  BY <1>4, <1>6, <1>7, <1>8, <1>9, <1>10 DEF q

\* unlock_shared: so is a reader's.
LEMMA UnlockSharedGood ==
    ASSUME NEW s, Good(s), NEW t \in Thread, s.wait[t] = Idle, NEW m \in RwLock,
           NEW r \in unlock_shared(s, t, m)
    PROVE  Fine(s, r)
  <1>0. m \in Mutex /\ s.shared_owner[m][t] \in Nat
    <2>1. m \in Mutex
      BY KindAssumption
    <2>. QED  BY <2>1, HeldFacts
  <1>1. CASE s.owner[m] # Shared \/ s.shared_owner[m][t] = 0
    <2>1. r = [s EXCEPT !.outcome = "unlocking_mutex_wo_ownership"]
      BY <1>1 DEF unlock_shared
    <2>. QED  BY <2>1, MisuseFine DEF Outcomes
  <1>2. CASE s.owner[m] = Shared /\ s.shared_owner[m][t] # 0
    <2>. DEFINE g == Unread(s, t, m)
                f == Freed(g, m)
                last == SharesLess(s, t, m).shared_lock_count[m] = 0
    <2>1. IF last THEN r \in TryUnparkOne(f, Main(m)) ELSE r = g
      BY <1>2 DEF unlock_shared, SharesLess, Freed, Unread
    <2>2. /\ IF last THEN Good(f) ELSE Good(g)
          /\ f.owner[m] = Free /\ f.outcome = s.outcome /\ g.outcome = s.outcome
      <3>1. s.shared_owner[m][t] > 0
        BY <1>0, <1>2
      <3>. HIDE DEF f, g
      <3>2. g = Unread(s, t, m) /\ f = Freed(g, m)
        BY DEF f, g
      <3>. HIDE DEF last
      <3>3. /\ IF SharesLess(s, t, m).shared_lock_count[m] = 0 THEN Good(f) ELSE Good(g)
            /\ f.owner[m] = Free /\ f.outcome = s.outcome /\ g.outcome = s.outcome
        BY <1>2, <3>1, <3>2, UnreadSignaled
      <3>. QED  BY <3>3 DEF last
    <2>. HIDE DEF f, g, last
    <2>3. CASE last
      <3>1. Good(r) /\ r.outcome = f.outcome
        BY <1>0, <2>1, <2>2, <2>3, LockWaitsets, UnparkOneGood
      <3>. QED  BY <2>2, <3>1 DEF Fine
    <2>4. CASE ~last
      BY <2>1, <2>2, <2>4 DEF Fine
    <2>. QED  BY <2>3, <2>4
  <1>. QED  BY <1>1, <1>2

-----------------------------------------------------------------------------
(* Semaphores, events, and waits for several objects                       *)

\* Waits and signals, kind by kind.
LEMMA WaitKinds ==
    ASSUME NEW s, NEW t, NEW o \in Object \ CondVar
    PROVE  /\ o \in Mutex => WaitFor(s, t, o) = lock_exclusive(s, t, o)
           /\ o \in Semaphore \cup Event => WaitFor(s, t, o) =
                  IF is_signaled(s, o) THEN Take(s, t, o)
                  ELSE Park(s, t, Wait("wait", <<o>>, o \in Interruptible))
           /\ o \in Thread => WaitFor(s, t, o) =
                  IF is_signaled(s, o) THEN Take(s, t, o)
                  ELSE Park(s, t, Wait("join", <<o>>, FALSE))
  BY KindAssumption DEF WaitFor

\* Signals, kind by kind.
LEMMA SignalKinds ==
    ASSUME NEW s, NEW t, NEW o \in Object \ CondVar
    PROVE  /\ o \in Mutex => SignalObject(s, t, o) = unlock_exclusive(s, t, o)
           /\ o \in Semaphore => SignalObject(s, t, o) = post(s, t, o, 1)
           /\ o \in Event => SignalObject(s, t, o) = set(s, t, o)
           /\ o \in Thread => SignalObject(s, t, o) = {[s EXCEPT !.outcome = "thread_signal"]}
  BY KindAssumption DEF SignalObject

\* A take does no harm.
LEMMA TakeFine ==
    ASSUME NEW s, Good(s), NEW t \in Thread, s.wait[t] = Idle, NEW o \in Object \ CondVar,
           is_signaled(s, o), NEW r, r = Take(s, t, o)
    PROVE  Fine(s, r)
  BY TakeGood DEF Fine, Taken

\* A wait for one object.
LEMMA WaitForGood ==
    ASSUME NEW s, Good(s), NEW t \in Thread, s.wait[t] = Idle, NEW o \in Object \ CondVar,
           o \in Mutex /\ s.owner[o] = t => s.recursion[o] < MaxRecursion[o],
           NEW r, r = WaitFor(s, t, o)
    PROVE  Fine(s, r)
  <1>1. CASE o \in Mutex
    <2>1. r = lock_exclusive(s, t, o)
      BY <1>1, WaitKinds
    <2>. QED  BY <1>1, <2>1, LockExclusiveGood
  <1>2. CASE o \notin Mutex /\ is_signaled(s, o)
    <2>1. r = Take(s, t, o)
      BY <1>2, WaitKinds DEF Object
    <2>. QED  BY <1>2, <2>1, TakeFine
  <1>3. CASE o \in Semaphore \cup Event /\ ~is_signaled(s, o)
    <2>. DEFINE sp == o \in Interruptible
    <2>1. r = Park(s, t, Wait("wait", <<o>>, sp))
      BY <1>3, WaitKinds
    <2>2. sp \in BOOLEAN
      OBVIOUS
    <2>. HIDE DEF sp
    <2>3. Wait("wait", <<o>>, sp) \in Waits
      BY <1>3, <2>2, ParkWaits
    <2>. QED  BY <2>1, <2>3, ParkPlain
  <1>4. CASE o \in Thread /\ ~is_signaled(s, o)
    <2>1. r = Park(s, t, Wait("join", <<o>>, FALSE))
      BY <1>4, WaitKinds
    <2>2. Wait("join", <<o>>, FALSE) \in Waits
      BY <1>4, ParkWaits
    <2>. QED  BY <2>1, <2>2, ParkPlain
  <1>. QED  BY <1>1, <1>2, <1>3, <1>4 DEF Object

\* A wait that was not met changes only what its thread knows.
LEMMA GiveUpNews ==
    ASSUME NEW s \in State, NEW t \in Thread, NEW on
    PROVE  NewsOnly(s, GiveUp(s, t, on))
  <1>1. PICK k : k \in SUBSET Thread /\ GiveUp(s, t, on) = [s EXCEPT !.known = k]
    <2>1. CASE ToSet(on) \cap s.order = {}
      <3>1. GiveUp(s, t, on) = [s EXCEPT !.known = s.known]
        BY <2>1 DEF GiveUp
      <3>. QED  BY <3>1 DEF State
    <2>2. CASE ToSet(on) \cap s.order # {}
      <3>1. GiveUp(s, t, on) = [s EXCEPT !.known = s.known \cup {t}]
        BY <2>2 DEF GiveUp
      <3>. QED  BY <3>1 DEF State
    <2>. QED  BY <2>1, <2>2
  <1>. QED  BY <1>1 DEF State, NewsOnly

\* News alone do no harm.
LEMMA NewsFine ==
    ASSUME NEW s, Good(s), NEW r, NewsOnly(s, r)
    PROVE  Fine(s, r)
  BY NewsOnlyGood DEF Fine, NewsOnly

\* A wait for several objects.
LEMMA WaitForSeveralGood ==
    ASSUME NEW s, Good(s), NEW t \in Thread, s.wait[t] = Idle, NEW on \in WaitArrays,
           NEW op \in {"wait_all", "wait_any"}, NEW try \in BOOLEAN,
           NEW r, r = wait_for_multiple_objects(s, t, on, op, try)
    PROVE  Fine(s, r)
  <1>1. CASE MayTake(s, op, on)
    <2>1. r = TakeThem(s, t, op, on)
      BY <1>1 DEF wait_for_multiple_objects
    <2>2. IsArray(on)
      BY ArraysAre
    <2>3. Good(r) /\ \E O : Taken(s, r, t, O)
      BY <1>1, <2>1, <2>2, TakeThemGood
    <2>. QED  BY <2>3 DEF Fine, Taken
  <1>2. CASE ~MayTake(s, op, on) /\ try
    <2>1. r = GiveUp(s, t, on)
      BY <1>2 DEF wait_for_multiple_objects
    <2>2. NewsOnly(s, r)
      BY <2>1, GiveUpNews DEF Good
    <2>. QED  BY <2>2, NewsFine
  <1>3. CASE ~MayTake(s, op, on) /\ ~try
    <2>1. r = Park(s, t, Wait(op, on, FALSE))
      BY <1>3 DEF wait_for_multiple_objects
    <2>2. Wait(op, on, FALSE) \in Waits
      BY ParkWaits
    <2>3. op \notin {"lock_shared", "condvar"}
      OBVIOUS
    <2>. QED  BY <2>1, <2>2, <2>3, ParkPlain
  <1>. QED  BY <1>1, <1>2, <1>3

\* A semaphore or an event has changed, and nothing else.
SameButCounts(s, r) ==
    SameWaits(s, r) /\ SameLocks(s, r) /\ SameNews(s, r) /\ r.outcome = s.outcome

Counted(s, o, c) == [s EXCEPT !.count[o] = c]
Switched(s, o, b) == [s EXCEPT !.state[o] = b]

\* A semaphore's count may be anything up to its bound.
LEMMA CountGood ==
    ASSUME NEW s, Good(s), NEW o \in Semaphore, NEW c \in 0 .. MaxCount[o],
           NEW r, r = Counted(s, o, c)
    PROVE  Good(r) /\ SameButCounts(s, r) /\ r.count[o] = c
  <1>1. s \in State /\ c \in Nat /\ MaxCount \in [Semaphore -> Nat]
    BY BoundAssumption DEF Good
  <1>2. /\ r \in State /\ SameButCounts(s, r) /\ r.spurious_limit = s.spurious_limit
        /\ \A x \in Semaphore : r.count[x] = IF x = o THEN c ELSE s.count[x]
    BY <1>1 DEF State, SameButCounts, SameWaits, SameLocks, SameNews, Counted
  <1>3. Bounded(r)
    BY <1>1, <1>2 DEF Good, Bounded
  <1>4. Linked(r) /\ Held(r) /\ Waiting(r) /\ Informed(r)
    BY <1>2, LinkedStays, HeldStays, WaitingStays, InformedStays DEF Good, SameWaits, SameButCounts
  <1>. QED  BY <1>2, <1>3, <1>4 DEF Good

\* An event may be set or not.
LEMMA StateGood ==
    ASSUME NEW s, Good(s), NEW o \in Event, NEW b \in BOOLEAN,
           NEW r, r = Switched(s, o, b)
    PROVE  Good(r) /\ SameButCounts(s, r) /\ r.state[o] = b
  <1>1. s \in State
    BY DEF Good
  <1>2. /\ r \in State /\ SameButCounts(s, r) /\ r.spurious_limit = s.spurious_limit
        /\ r.count = s.count /\ r.state[o] = b
    BY <1>1 DEF State, SameButCounts, SameWaits, SameLocks, SameNews, Switched
  <1>3. Bounded(r)
    BY <1>2 DEF Good, Bounded
  <1>4. Linked(r) /\ Held(r) /\ Waiting(r) /\ Informed(r)
    BY <1>2, LinkedStays, HeldStays, WaitingStays, InformedStays DEF Good, SameWaits, SameButCounts
  <1>. QED  BY <1>2, <1>3, <1>4 DEF Good

\* Where only news have followed, only who waits is disturbed, and an idle
\* thread holds no more than before.
LEMMA SparedUnlocked ==
    ASSUME NEW s, Good(s), NEW t \in Thread, s.wait[t] = Idle, NEW q, SameButCounts(s, q),
           NEW f, NewsOnly(q, f), NEW r, IdleSpared(f, r), NEW o, o \notin Mutex
    PROVE  Unlocked(s, r, t, o)
  <1>1. /\ f.wait[t] = Idle /\ f.owner = s.owner /\ f.recursion = s.recursion
        /\ f.finished = s.finished
    BY DEF SameButCounts, NewsOnly, SameWaits, SameLocks
  <1>2. Spares(Thread \ {t}, f, r)
    BY <1>1 DEF IdleSpared
  <1>3. \A x \in Mutex : s.recursion[x] \in Nat
    BY DEF Good, State
  <1>4. r.wait[t] = Idle /\ r.finished = s.finished
    BY <1>1, <1>2 DEF Spares
  <1>5. ASSUME NEW x \in Mutex, r.owner[x] = t
        PROVE  s.owner[x] = t /\ r.recursion[x] = s.recursion[x]
    BY <1>1, <1>2, <1>5 DEF Spares
  <1>. QED  BY <1>3, <1>4, <1>5 DEF Unlocked

\* News leave an idle thread as it was.
LEMMA NewsUnlocked ==
    ASSUME NEW s, Good(s), NEW t \in Thread, s.wait[t] = Idle, NEW r, NewsOnly(s, r),
           NEW o, o \notin Mutex
    PROVE  Unlocked(s, r, t, o)
  <1>1. SameButCounts(s, s)
    BY DEF SameButCounts, SameWaits, SameLocks, SameNews
  <1>2. IdleSpared(r, r)
    BY SparesItself DEF IdleSpared
  <1>. QED  BY <1>1, <1>2, SparedUnlocked

\* A post, a set, a reset and a pulse by a thread.
LEMMA PostGood ==
    ASSUME NEW s, Good(s), NEW t \in Thread, s.wait[t] = Idle, NEW o \in Semaphore,
           NEW n \in Nat, NEW r \in post(s, t, o, n)
    PROVE  Fine(s, r) /\ Unlocked(s, r, t, o)
  <1>0. o \in Object /\ o \notin Mutex /\ s \in State /\ s.count[o] \in Nat /\ MaxCount[o] \in Nat
    BY KindAssumption, BoundAssumption DEF Object, Good, State
  <1>1. CASE s.count[o] + n > MaxCount[o]
    <2>1. NewsOnly(s, r)
      BY <1>0, <1>1, SyncNews DEF post
    <2>. QED  BY <1>0, <2>1, NewsFine, NewsUnlocked
  <1>2. CASE ~(s.count[o] + n > MaxCount[o])
    <2>. DEFINE c == s.count[o] + n
                q == Counted(s, o, c)
                a == acquire(q, t, o)
                f == Signal(a, t, o)
    <2>1. r \in UnparkUpTo(f, Main(o), n)
      BY <1>2 DEF post, Counted
    <2>2. c \in 0 .. MaxCount[o] /\ c >= n
      BY <1>0, <1>2
    <2>. HIDE DEF c
    <2>3. Good(q) /\ SameButCounts(s, q) /\ q.count[o] = c
      BY <2>2, CountGood
    <2>. HIDE DEF q
    <2>4. NewsOnly(q, a)
      BY <1>0, <2>3, SyncNews DEF Good
    <2>. HIDE DEF a
    <2>5. NewsOnly(a, f)
      BY <1>0, <2>4, SyncNews DEF NewsOnly
    <2>. HIDE DEF f
    <2>6. NewsOnly(q, f)
      BY <2>4, <2>5, NewsOnlyTransitive
    <2>7. Good(f) /\ f.count[o] >= n /\ f.outcome = s.outcome
      BY <2>2, <2>3, <2>6, NewsOnlyGood DEF NewsOnly, SameButCounts
    <2>8. Good(r) /\ IdleSpared(f, r) /\ r.outcome = f.outcome
      BY <2>1, <2>7, UnparkUpToGood
    <2>9. Unlocked(s, r, t, o)
      BY <1>0, <2>3, <2>6, <2>8, SparedUnlocked
    <2>. QED  BY <2>7, <2>8, <2>9 DEF Fine
  <1>. QED  BY <1>1, <1>2

\* The event o is set by t.
Raised(s, t, o) == Signal(Switched(s, o, TRUE), t, o)

\* What waits for an event that is set is met.
LEMMA RaisedGood ==
    ASSUME NEW s, Good(s), NEW t \in Thread, NEW o \in Event, NEW f, f = Raised(s, t, o)
    PROVE  /\ Good(f) /\ f.state[o] /\ f.outcome = s.outcome
           /\ \E q : SameButCounts(s, q) /\ NewsOnly(q, f)
           /\ Main(o) \in WaitsetId /\ Endable(f, Main(o)) /\ Meets(f, Main(o))
           /\ o \in ManualReset => Steady(f, Main(o))
  <1>0. o \in Object \ CondVar /\ o \notin Thread
    BY KindAssumption DEF Object
  <1>. DEFINE q == Switched(s, o, TRUE)
  <1>1. f = Signal(q, t, o)
    BY DEF Raised
  <1>2. Good(q) /\ SameButCounts(s, q) /\ q.state[o] = TRUE
    BY StateGood
  <1>. HIDE DEF q
  <1>3. NewsOnly(q, f)
    BY <1>0, <1>1, <1>2, SyncNews DEF Good
  <1>4. Good(f) /\ f.state[o] /\ f.outcome = s.outcome
    BY <1>2, <1>3, NewsOnlyGood DEF NewsOnly, SameButCounts
  <1>5. Main(o) \in WaitsetId
    BY <1>0 DEF WaitsetId
  <1>6. Endable(f, Main(o))
    BY <1>0 DEF Endable, Main
  <1>7. is_signaled(f, o)
    BY <1>0, <1>4, SignaledKinds
  <1>8. Meets(f, Main(o))
    BY <1>0, <1>7 DEF Meets
  <1>9. o \in ManualReset => Steady(f, Main(o))
    BY <1>4 DEF Steady
  <1>. QED  BY <1>2, <1>3, <1>4, <1>5, <1>6, <1>8, <1>9

\* set: who waits finds the event set.
LEMMA SetGood ==
    ASSUME NEW s, Good(s), NEW t \in Thread, s.wait[t] = Idle, NEW o \in Event,
           NEW r \in set(s, t, o)
    PROVE  Fine(s, r) /\ Unlocked(s, r, t, o)
  <1>0. o \notin Mutex /\ s \in State
    BY KindAssumption DEF Good
  <1>1. CASE s.state[o]
    <2>1. r = s
      BY <1>1 DEF set
    <2>2. NewsOnly(s, r)
      BY <1>0, <2>1 DEF NewsOnly
    <2>. QED  BY <1>0, <2>2, NewsFine, NewsUnlocked
  <1>2. CASE ~s.state[o]
    <2>. DEFINE f == Raised(s, t, o)
    <2>1. IF o \in ManualReset THEN r = unpark_all(f, Main(o)) ELSE r \in TryUnparkOne(f, Main(o))
      BY <1>2 DEF set, Raised, Switched
    <2>2. /\ Good(f) /\ f.outcome = s.outcome
          /\ Main(o) \in WaitsetId /\ Endable(f, Main(o)) /\ Meets(f, Main(o))
          /\ o \in ManualReset => Steady(f, Main(o))
      BY RaisedGood
    <2>3. PICK q : SameButCounts(s, q) /\ NewsOnly(q, f)
      BY RaisedGood
    <2>. HIDE DEF f
    <2>4. Good(r) /\ IdleSpared(f, r) /\ r.outcome = f.outcome
      <3>1. CASE o \in ManualReset
        BY <2>1, <2>2, <3>1, UnparkAllGood
      <3>2. CASE o \notin ManualReset
        BY <2>1, <2>2, <3>2, UnparkOneGood
      <3>. QED  BY <3>1, <3>2
    <2>5. Unlocked(s, r, t, o)
      BY <1>0, <2>3, <2>4, SparedUnlocked
    <2>. QED  BY <2>2, <2>4, <2>5 DEF Fine
  <1>. QED  BY <1>1, <1>2

\* reset wakes nobody.
LEMMA ResetGood ==
    ASSUME NEW s, Good(s), NEW t \in Thread, NEW o \in Event, NEW r, r = reset(s, t, o)
    PROVE  Fine(s, r)
  <1>0. o \in Object /\ s \in State
    BY DEF Object, Good
  <1>1. CASE s.state[o]
    <2>. DEFINE q == Switched(s, o, FALSE)
    <2>1. r = release(q, t, o)
      BY <1>1 DEF reset, Switched
    <2>2. Good(q) /\ SameButCounts(s, q)
      BY StateGood
    <2>. HIDE DEF q
    <2>3. NewsOnly(q, r)
      BY <1>0, <2>1, <2>2, SyncNews DEF Good
    <2>4. Fine(q, r)
      BY <2>2, <2>3, NewsFine
    <2>. QED  BY <2>2, <2>4 DEF Fine, SameButCounts
  <1>2. CASE ~s.state[o]
    BY <1>2 DEF reset, Fine
  <1>. QED  BY <1>1, <1>2

\* pulse: only who waits for an auto-reset event may find it reset.
LEMMA PulseGood ==
    ASSUME NEW s, Good(s), NEW t \in Thread, NEW o \in Event, NEW r, r = pulse(s, t, o)
    PROVE  Good(r) /\ (o \in ManualReset => Fine(s, r))
  <1>1. CASE s.state[o]
    BY <1>1 DEF pulse, Fine
  <1>2. CASE ~s.state[o]
    <2>. DEFINE f == Raised(s, t, o)
                a == unpark_all(f, Main(o))
    <2>1. r = Switched(a, o, FALSE)
      BY <1>2 DEF pulse, Raised, Switched
    <2>2. /\ Good(f) /\ f.outcome = s.outcome
          /\ Main(o) \in WaitsetId /\ Endable(f, Main(o))
          /\ o \in ManualReset => Steady(f, Main(o))
      BY RaisedGood
    <2>. HIDE DEF f
    <2>3. Good(a) /\ (o \in ManualReset => a.outcome = s.outcome)
      BY <2>2, UnparkAllGood
    <2>. HIDE DEF a
    <2>4. Good(r) /\ SameButCounts(a, r)
      BY <2>1, <2>3, StateGood
    <2>. QED  BY <2>3, <2>4 DEF Fine, SameButCounts
  <1>. QED  BY <1>1, <1>2

\* The signal of any object.
LEMMA SignalObjectGood ==
    ASSUME NEW s, Good(s), NEW t \in Thread, s.wait[t] = Idle, NEW o \in Object \ CondVar,
           NEW r \in SignalObject(s, t, o)
    PROVE  Fine(s, r) /\ Unlocked(s, r, t, o)
  <1>1. CASE o \in Mutex
    <2>1. r \in unlock_exclusive(s, t, o)
      BY <1>1, SignalKinds
    <2>. QED  BY <1>1, <2>1, UnlockExclusiveGood
  <1>2. CASE o \in Semaphore
    <2>1. r \in post(s, t, o, 1)
      BY <1>2, SignalKinds
    <2>. QED  BY <1>2, <2>1, PostGood
  <1>3. CASE o \in Event
    <2>1. r \in set(s, t, o)
      BY <1>3, SignalKinds
    <2>. QED  BY <1>3, <2>1, SetGood
  <1>4. CASE o \in Thread
    <2>1. r = [s EXCEPT !.outcome = "thread_signal"]
      BY <1>4, SignalKinds
    <2>2. Fine(s, r) /\ Spares({}, s, r) /\ r.outcome = "thread_signal"
      BY <2>1, MisuseFine DEF Outcomes
    <2>. QED  BY <2>2 DEF Unlocked, Spares
  <1>. QED  BY <1>1, <1>2, <1>3, <1>4 DEF Object

-----------------------------------------------------------------------------
(* The actions                                                             *)

\* A step keeps the invariant and breaks no check.
FineStep == uses' = uses /\ Fine(sys, sys')

\* A thread that is ready waits for nothing.
LEMMA ReadyFacts ==
    ASSUME IInv, NEW t \in Thread, Ready(t)
    PROVE  Good(sys) /\ sys.wait[t] = Idle /\ t \notin sys.finished /\ uses \subseteq Object
  BY KindAssumption DEF IInv, Ready

\* A step goes to one of its states.
LEMMA StepFacts ==
    ASSUME NEW S, Step(S)
    PROVE  sys' \in S /\ uses' = uses
  BY DEF Step

\* The steps, action by action: locks and tries of them.
LEMMA LockExclusiveStep ==
    ASSUME IInv, NEW t \in Thread, LockExclusive(t) \/ TryLockExclusive(t)
    PROVE  FineStep
  <1>1. PICK m \in Mutex : Ready(t) /\ MayRecur(t, m) /\ Step({lock_exclusive(sys, t, m)})
    BY DEF LockExclusive, TryLockExclusive
  <1>2. sys' = lock_exclusive(sys, t, m) /\ uses' = uses
    BY <1>1, StepFacts
  <1>3. Good(sys) /\ sys.wait[t] = Idle
    BY <1>1, ReadyFacts
  <1>4. sys.owner[m] = t => sys.recursion[m] < MaxRecursion[m]
    BY <1>1 DEF MayRecur
  <1>5. Fine(sys, sys')
    BY <1>2, <1>3, <1>4, LockExclusiveGood
  <1>. QED  BY <1>2, <1>5 DEF FineStep

\* Locks of readers, and tries.
LEMMA LockSharedStep ==
    ASSUME IInv, NEW t \in Thread, LockShared(t) \/ TryLockShared(t)
    PROVE  FineStep
  <1>1. PICK m \in RwLock : Ready(t) /\ MayRecur(t, m) /\ Step({lock_shared(sys, t, m)})
    BY DEF LockShared, TryLockShared
  <1>2. sys' = lock_shared(sys, t, m) /\ uses' = uses
    BY <1>1, StepFacts
  <1>3. Good(sys) /\ sys.wait[t] = Idle
    BY <1>1, ReadyFacts
  <1>4. sys.owner[m] = Shared => sys.shared_owner[m][t] < MaxRecursion[m]
    BY <1>1 DEF MayRecur
  <1>5. Fine(sys, sys')
    BY <1>2, <1>3, <1>4, LockSharedGood
  <1>. QED  BY <1>2, <1>5 DEF FineStep

\* Unlocks of either kind.
LEMMA UnlockStep ==
    ASSUME IInv, NEW t \in Thread, Unlock(t)
    PROVE  FineStep
  <1>1. PICK m \in Mutex : /\ Ready(t)
                           /\ \/ Step(unlock_exclusive(sys, t, m))
                              \/ m \in RwLock /\ Step(unlock_shared(sys, t, m))
    BY DEF Unlock
  <1>2. Good(sys) /\ sys.wait[t] = Idle
    BY <1>1, ReadyFacts
  <1>3. CASE Step(unlock_exclusive(sys, t, m))
    <2>1. sys' \in unlock_exclusive(sys, t, m) /\ uses' = uses
      BY <1>3, StepFacts
    <2>2. Fine(sys, sys')
      BY <1>2, <2>1, UnlockExclusiveGood
    <2>. QED  BY <2>1, <2>2 DEF FineStep
  <1>4. CASE m \in RwLock /\ Step(unlock_shared(sys, t, m))
    <2>1. sys' \in unlock_shared(sys, t, m) /\ uses' = uses
      BY <1>4, StepFacts
    <2>2. Fine(sys, sys')
      BY <1>2, <1>4, <2>1, UnlockSharedGood
    <2>. QED  BY <2>1, <2>2 DEF FineStep
  <1>. QED  BY <1>1, <1>3, <1>4

\* A thread parks for a condition variable once it has unlocked its lock.
LEMMA ParkForCondVar ==
    ASSUME NEW s, Good(s), NEW t \in Thread, NEW c \in CondVar, NEW m \in Mutex, NEW q, Fine(s, q),
           Unlocked(s, q, t, m), q.outcome = "none", NEW sp \in BOOLEAN,
           NEW r, r = Park(q, t, Wait("condvar", <<c, m>>, sp))
    PROVE  /\ Good(r) /\ r.outcome = "none"
           /\ MayWait(q, t, Wait("condvar", <<c, m>>, sp))
  <1>. DEFINE w == Wait("condvar", <<c, m>>, sp)
  <1>1. w.op = "condvar" /\ w.parked /\ w.on = <<c, m>>
    BY WaitFields
  <1>2. w \in Waits
    BY ParkWaits
  <1>. HIDE DEF w
  <1>3. q.owner[m] = t => q.recursion[m] < MaxRecursion[m]
    <2>1. q.owner[m] = t => q.recursion[m] < s.recursion[m]
      BY DEF Unlocked
    <2>2. s.recursion[m] <= MaxRecursion[m] /\ s.recursion[m] \in Nat /\ MaxRecursion[m] \in Nat
      BY HeldFacts DEF HeldWell
    <2>3. q.recursion[m] \in Nat
      BY DEF Fine, Good, State
    <2>. QED  BY <2>1, <2>2, <2>3
  <1>4. MayWait(q, t, w)
    BY <1>1, <1>3 DEF MayWait
  <1>5. Good(q) /\ q.wait[t] = Idle
    BY DEF Fine, Unlocked
  <1>6. r = Park(q, t, w)
    BY DEF w
  <1>7. Good(r) /\ NowWaits(q, r, t, w)
    BY <1>1, <1>2, <1>4, <1>5, <1>6, ParkGood
  <1>. QED  BY <1>4, <1>6, <1>7 DEF NowWaits, w

\* A wait for a condition variable unlocks and parks.
LEMMA CondVarWaitStep ==
    ASSUME IInv, NEW t \in Thread, CondVarWait(t)
    PROVE  FineStep
  <1>1. PICK c \in CondVar, m \in Mutex :
            /\ Ready(t)
            /\ Step({IF r.outcome # "none" THEN r
                     ELSE Park(r, t, Wait("condvar", <<c, m>>, r.spurious_limit[c] > 0)) :
                         r \in unlock_exclusive(sys, t, m)})
    BY DEF CondVarWait
  <1>2. Good(sys) /\ sys.wait[t] = Idle
    BY <1>1, ReadyFacts
  <1>3. PICK q \in unlock_exclusive(sys, t, m) :
            sys' = IF q.outcome # "none" THEN q
                   ELSE Park(q, t, Wait("condvar", <<c, m>>, q.spurious_limit[c] > 0))
    BY <1>1, StepFacts
  <1>4. Fine(sys, q) /\ Unlocked(sys, q, t, m)
    BY <1>2, UnlockExclusiveGood
  <1>5. CASE q.outcome # "none"
    BY <1>1, <1>3, <1>4, <1>5, StepFacts DEF FineStep
  <1>6. CASE q.outcome = "none"
    <2>. DEFINE sp == q.spurious_limit[c] > 0
    <2>1. sp \in BOOLEAN
      OBVIOUS
    <2>2. sys' = Park(q, t, Wait("condvar", <<c, m>>, sp))
      BY <1>3, <1>6
    <2>. HIDE DEF sp
    <2>3. Good(sys') /\ sys'.outcome = "none"
      BY <1>2, <1>4, <1>6, <2>1, <2>2, ParkForCondVar
    <2>4. uses' = uses
      BY <1>1, StepFacts
    <2>. QED  BY <2>3, <2>4 DEF FineStep, Fine
  <1>. QED  BY <1>5, <1>6

\* notify_one and notify_all find those that wait for the lock no more.
LEMMA NotifyStep ==
    ASSUME IInv, NEW t \in Thread, Notify(t)
    PROVE  FineStep
  <1>1. PICK c \in CondVar :
            Ready(t) /\ (Step(TryUnparkOne(sys, Main(c))) \/ Step({unpark_all(sys, Main(c))}))
    BY DEF Notify
  <1>. DEFINE id == Main(c)
  <1>2. Good(sys)
    BY <1>1, ReadyFacts
  <1>3. c \in Object /\ c \notin Thread
    BY KindAssumption DEF Object
  <1>4. id \in WaitsetId
    BY <1>3 DEF WaitsetId
  <1>5. Endable(sys, id)
    BY <1>3 DEF Endable, Main
  <1>6. Steady(sys, id) /\ Meets(sys, id)
    BY DEF Steady, Meets
  <1>. HIDE DEF id
  <1>7. CASE Step(TryUnparkOne(sys, id))
    <2>1. sys' \in TryUnparkOne(sys, id) /\ uses' = uses
      BY <1>7, StepFacts
    <2>2. Good(sys') /\ sys'.outcome = sys.outcome
      BY <1>2, <1>4, <1>5, <1>6, <2>1, UnparkOneGood
    <2>. QED  BY <2>1, <2>2 DEF FineStep, Fine
  <1>8. CASE Step({unpark_all(sys, id)})
    <2>1. sys' = unpark_all(sys, id) /\ uses' = uses
      BY <1>8, StepFacts
    <2>2. Good(sys') /\ sys'.outcome = sys.outcome
      BY <1>2, <1>4, <1>5, <1>6, <2>1, UnparkAllGood
    <2>. QED  BY <2>1, <2>2 DEF FineStep, Fine
  <1>. QED  BY <1>1, <1>7, <1>8 DEF id

\* Waits for one object.
LEMMA WaitForSingleObjectStep ==
    ASSUME IInv, NEW t \in Thread, WaitForSingleObject(t)
    PROVE  FineStep
  <1>1. PICK o \in uses \ CondVar :
            /\ Ready(t)
            /\ o \in Mutex => o \notin RwLock /\ MayRecur(t, o)
            /\ Step({WaitFor(sys, t, o)})
    BY DEF WaitForSingleObject
  <1>2. Good(sys) /\ sys.wait[t] = Idle /\ o \in Object \ CondVar
    BY <1>1, ReadyFacts
  <1>3. sys' = WaitFor(sys, t, o) /\ uses' = uses
    BY <1>1, StepFacts
  <1>4. o \in Mutex /\ sys.owner[o] = t => sys.recursion[o] < MaxRecursion[o]
    BY <1>1 DEF MayRecur
  <1>5. Fine(sys, sys')
    BY <1>2, <1>3, <1>4, WaitForGood
  <1>. QED  BY <1>3, <1>5 DEF FineStep

\* To acquire a sync_var does no harm.
LEMMA AcquireFine ==
    ASSUME NEW s, Good(s), NEW t \in Thread, NEW o
    PROVE  Fine(s, acquire(s, t, o))
  <1>1. s \in State
    BY DEF Good
  <1>2. NewsOnly(s, acquire(s, t, o))
    BY <1>1 DEF State, acquire, NewsOnly
  <1>. QED  BY <1>2, NewsFine

\* Waits with a timeout of 0.
LEMMA TryWaitStep ==
    ASSUME IInv, NEW t \in Thread, TryWait(t)
    PROVE  FineStep
  <1>1. PICK o \in uses \cap (Semaphore \cup Event \cup Thread) :
            /\ Ready(t)
            /\ Step({IF is_signaled(sys, o) THEN Take(sys, t, o) ELSE acquire(sys, t, o)})
    BY DEF TryWait
  <1>2. Good(sys) /\ sys.wait[t] = Idle /\ o \in Object \ CondVar
    BY <1>1, ReadyFacts, KindAssumption
  <1>3. /\ sys' = IF is_signaled(sys, o) THEN Take(sys, t, o) ELSE acquire(sys, t, o)
        /\ uses' = uses
    BY <1>1, StepFacts
  <1>4. Fine(sys, sys')
    BY <1>2, <1>3, TakeFine, AcquireFine
  <1>. QED  BY <1>3, <1>4 DEF FineStep

\* get_value.
LEMMA GetValueStep ==
    ASSUME IInv, NEW t \in Thread, GetValue(t)
    PROVE  FineStep
  <1>1. PICK o \in Semaphore : Ready(t) /\ Step({acquire(sys, t, o)})
    BY DEF GetValue
  <1>2. sys' = acquire(sys, t, o) /\ uses' = uses
    BY <1>1, StepFacts
  <1>. QED  BY <1>1, <1>2, ReadyFacts, AcquireFine DEF FineStep

\* Waits for several objects, and tries.
LEMMA WaitForMultipleObjectsStep ==
    ASSUME IInv, NEW t \in Thread, WaitForMultipleObjects(t)
    PROVE  FineStep
  <1>1. PICK on \in WaitArrays, op \in {"wait_all", "wait_any"}, try \in BOOLEAN :
            Ready(t) /\ Step({wait_for_multiple_objects(sys, t, on, op, try)})
    BY DEF WaitForMultipleObjects
  <1>2. Good(sys) /\ sys.wait[t] = Idle
    BY <1>1, ReadyFacts
  <1>3. sys' = wait_for_multiple_objects(sys, t, on, op, try) /\ uses' = uses
    BY <1>1, StepFacts
  <1>4. Fine(sys, sys')
    BY <1>2, <1>3, WaitForSeveralGood
  <1>. QED  BY <1>3, <1>4 DEF FineStep

\* Posts of one unit or more.
LEMMA PostStep ==
    ASSUME IInv, NEW t \in Thread, Post(t)
    PROVE  FineStep
  <1>1. PICK o \in Semaphore : Ready(t) /\ \E n \in 1 .. MaxCount[o] : Step(post(sys, t, o, n))
    BY DEF Post
  <1>2. PICK n \in 1 .. MaxCount[o] : Step(post(sys, t, o, n))
    BY <1>1
  <1>3. n \in Nat
    BY BoundAssumption
  <1>4. Good(sys) /\ sys.wait[t] = Idle
    BY <1>1, ReadyFacts
  <1>5. sys' \in post(sys, t, o, n) /\ uses' = uses
    BY <1>2, StepFacts
  <1>6. Fine(sys, sys')
    BY <1>3, <1>4, <1>5, PostGood
  <1>. QED  BY <1>5, <1>6 DEF FineStep

\* Sets and resets.
LEMMA SetEventStep ==
    ASSUME IInv, NEW t \in Thread, SetEvent(t) \/ ResetEvent(t)
    PROVE  FineStep
  <1>1. CASE SetEvent(t)
    <2>1. PICK o \in Event : Ready(t) /\ Step(set(sys, t, o))
      BY <1>1 DEF SetEvent
    <2>2. sys' \in set(sys, t, o) /\ uses' = uses
      BY <2>1, StepFacts
    <2>3. Fine(sys, sys')
      BY <2>1, <2>2, ReadyFacts, SetGood
    <2>. QED  BY <2>2, <2>3 DEF FineStep
  <1>2. CASE ResetEvent(t)
    <2>1. PICK o \in Event : Ready(t) /\ Step({reset(sys, t, o)})
      BY <1>2 DEF ResetEvent
    <2>2. sys' = reset(sys, t, o) /\ uses' = uses
      BY <2>1, StepFacts
    <2>3. Fine(sys, sys')
      BY <2>1, <2>2, ReadyFacts, ResetGood
    <2>. QED  BY <2>2, <2>3 DEF FineStep
  <1>. QED  BY <1>1, <1>2

\* Only a pulse may break a check, of an auto-reset event.
LEMMA PulseEventStep ==
    ASSUME IInv, NEW t \in Thread, PulseEvent(t)
    PROVE  /\ uses' = uses /\ Good(sys')
           /\ FineStep \/ \E o \in Event \ ManualReset : sys' = pulse(sys, t, o)
  <1>1. PICK o \in Event : Ready(t) /\ Step({pulse(sys, t, o)})
    BY DEF PulseEvent
  <1>2. sys' = pulse(sys, t, o) /\ uses' = uses
    BY <1>1, StepFacts
  <1>3. Good(sys') /\ (o \in ManualReset => Fine(sys, sys'))
    BY <1>1, <1>2, ReadyFacts, PulseGood
  <1>. QED  BY <1>2, <1>3 DEF FineStep

\* A signal and a wait, of which the signal may free what the wait takes.
LEMMA SignalObjectAndWaitStep ==
    ASSUME IInv, NEW t \in Thread, SignalObjectAndWait(t)
    PROVE  FineStep
  <1>1. PICK o \in uses \ (RwLock \cup CondVar), p \in uses \ (RwLock \cup CondVar) :
            /\ Ready(t)
            /\ p \in Mutex => p = o \/ MayRecur(t, p)
            /\ Step({IF r.outcome # "none" \/ (o \in Semaphore /\ sys.count[o] = MaxCount[o]) THEN r
                     ELSE WaitFor(r, t, p) : r \in SignalObject(sys, t, o)})
    BY DEF SignalObjectAndWait
  <1>2. Good(sys) /\ sys.wait[t] = Idle /\ o \in Object \ CondVar /\ p \in Object \ CondVar
    BY <1>1, ReadyFacts
  <1>3. PICK q \in SignalObject(sys, t, o) :
            \/ sys' = q
            \/ q.outcome = "none" /\ sys' = WaitFor(q, t, p)
    BY <1>1, StepFacts
  <1>4. Fine(sys, q) /\ Unlocked(sys, q, t, o)
    BY <1>2, SignalObjectGood
  <1>5. uses' = uses
    BY <1>1, StepFacts
  <1>6. CASE sys' = q
    BY <1>4, <1>5, <1>6 DEF FineStep
  <1>7. CASE q.outcome = "none" /\ sys' = WaitFor(q, t, p)
    <2>1. Good(q) /\ q.wait[t] = Idle
      BY <1>4 DEF Fine, Unlocked
    <2>2. ASSUME p \in Mutex, q.owner[p] = t
          PROVE  q.recursion[p] < MaxRecursion[p]
      <3>1. /\ sys.owner[p] = t /\ q.recursion[p] <= sys.recursion[p]
            /\ p = o => q.recursion[p] < sys.recursion[p]
        BY <1>4, <1>7, <2>2 DEF Unlocked
      <3>2. /\ sys.recursion[p] <= MaxRecursion[p] /\ sys.recursion[p] \in Nat
            /\ MaxRecursion[p] \in Nat /\ q.recursion[p] \in Nat
        BY <1>2, <2>1, <2>2, HeldFacts DEF HeldWell
      <3>3. p = o \/ sys.recursion[p] < MaxRecursion[p]
        BY <1>1, <2>2, <3>1 DEF MayRecur
      <3>. QED  BY <3>1, <3>2, <3>3
    <2>3. Fine(q, sys')
      BY <1>2, <1>7, <2>1, <2>2, WaitForGood
    <2>. QED  BY <1>5, <1>7, <2>3 DEF FineStep, Fine
  <1>. QED  BY <1>3, <1>6, <1>7

\* The end of t, which is a signal of t.
Ended(s, t) == [s EXCEPT !.finished = @ \cup {t}]

\* The end of a thread covers its last signal.
LEMMA EndedGood ==
    ASSUME NEW s, Good(s), NEW t \in Thread, NEW f, f = Signal(Ended(s, t), t, t)
    PROVE  Good(f) /\ f.outcome = s.outcome /\ t \in f.finished
  <1>. DEFINE q == Ended(s, t)
  <1>1. s \in State /\ t \in Object
    BY DEF Good, Object
  <1>2. /\ q \in State /\ SameLocks(s, q) /\ SameCounts(s, q) /\ SameNews(s, q)
        /\ q.ws = s.ws /\ q.wait = s.wait /\ q.outcome = s.outcome
        /\ q.finished = s.finished \cup {t}
    BY <1>1 DEF State, Ended, SameLocks, SameCounts, SameNews
  <1>. HIDE DEF q
  <1>3. f = Signal(q, t, t)
    BY DEF q
  <1>4. NewsOnly(q, f)
    BY <1>1, <1>2, <1>3, SyncNews
  <1>5. Bounded(f) /\ Held(f)
    <2>1. SameCounts(s, f) /\ SameLocks(s, f)
      BY <1>2, <1>4 DEF NewsOnly, SameCounts, SameLocks
    <2>. QED  BY <2>1, BoundedStays, HeldStays DEF Good
  <1>6. Linked(f)
    BY <1>2, <1>4 DEF NewsOnly, Good, Linked
  <1>7. Waiting(f)
    <2>. SUFFICES ASSUME NEW u \in Thread PROVE MayWait(f, u, f.wait[u])
      BY DEF Waiting
    <2>1. MayWait(s, u, s.wait[u])
      BY DEF Good, Waiting
    <2>. QED  BY <1>2, <1>4, <2>1 DEF NewsOnly, MayWait, SameLocks
  <1>8. Informed(f)
    <2>1. f.unseen = {}
      BY <1>2, <1>4 DEF NewsOnly, SameNews, Good, Informed
    <2>2. CASE t = s.watched
      <3>1. f.last = t /\ f.order = {t}
        BY <1>2, <1>3, <2>2 DEF Signal, SameNews, State
      <3>. QED  BY <2>1, <3>1 DEF Informed
    <2>3. CASE t # s.watched
      <3>1. s.last \in s.order \/ (s.last = s.watched /\ s.watched \notin s.finished)
        BY DEF Good, Informed
      <3>2. f.last \in f.order \/ (f.last = s.last /\ s.order \subseteq f.order)
        BY <1>2, <1>4 DEF NewsOnly, SameNews
      <3>3. f.watched = s.watched /\ f.finished = s.finished \cup {t}
        BY <1>2, <1>4 DEF NewsOnly, SameNews
      <3>. QED  BY <2>1, <2>3, <3>1, <3>2, <3>3 DEF Informed
    <2>. QED  BY <2>2, <2>3
  <1>9. Good(f)
    BY <1>4, <1>5, <1>6, <1>7, <1>8 DEF Good, NewsOnly
  <1>. QED  BY <1>2, <1>4, <1>9 DEF NewsOnly

\* The end of a thread wakes all that join it.
LEMMA FinishStep ==
    ASSUME IInv, NEW t \in Thread, Finish(t)
    PROVE  FineStep
  <1>. DEFINE f == Signal(Ended(sys, t), t, t)
              id == Main(t)
  <1>1. Ready(t) /\ Step({unpark_all(f, id)})
    BY DEF Finish, Ended
  <1>2. Good(f) /\ f.outcome = sys.outcome /\ t \in f.finished
    BY <1>1, ReadyFacts, EndedGood
  <1>3. id \in WaitsetId
    BY DEF WaitsetId, Object
  <1>4. Steady(f, id)
    BY <1>2 DEF Steady
  <1>5. Endable(f, id)
    BY <1>2 DEF Endable, Main
  <1>. HIDE DEF f, id
  <1>6. sys' = unpark_all(f, id) /\ uses' = uses
    BY <1>1, StepFacts
  <1>7. Good(sys') /\ sys'.outcome = f.outcome
    BY <1>2, <1>3, <1>4, <1>5, <1>6, UnparkAllGood
  <1>. QED  BY <1>2, <1>6, <1>7 DEF FineStep, Fine

\* t waits for nothing from now on.
Leaves(s, t) == [s EXCEPT !.wait[t] = Idle]

\* Who is unparked is in no waitset.
LEMMA LeavesGood ==
    ASSUME NEW s, Good(s), NEW t \in Thread, ~s.wait[t].parked, NEW r, r = Leaves(s, t)
    PROVE  Good(r) /\ NowWaits(s, r, t, Idle)
  <1>1. s \in State
    BY DEF Good
  <1>2. r \in State /\ NowWaits(s, r, t, Idle) /\ r.ws = s.ws
    BY <1>1, IdleFacts DEF State, Leaves, NowWaits, SameLocks, SameCounts, SameNews
  <1>3. Linked(r)
    <2>. SUFFICES ASSUME NEW id \in WaitsetId
                  PROVE  /\ IsInjective(r.ws[id])
                         /\ \A u \in Thread : u \in ToSet(r.ws[id]) <=> WaitsIn(r.wait[u], id)
      BY DEF Linked
    <2>1. /\ IsInjective(s.ws[id])
          /\ \A u \in Thread : u \in ToSet(s.ws[id]) <=> WaitsIn(s.wait[u], id)
      BY DEF Good, Linked
    <2>2. ASSUME NEW u \in Thread PROVE WaitsIn(r.wait[u], id) <=> WaitsIn(s.wait[u], id)
      <3>1. CASE u = t
        BY <1>2, <3>1, IdleFacts DEF NowWaits, WaitsIn
      <3>2. CASE u # t
        BY <1>2, <3>2 DEF NowWaits
      <3>. QED  BY <3>1, <3>2
    <2>. QED  BY <1>2, <2>1, <2>2
  <1>4. MayWait(s, t, Idle)
    BY IdleFacts
  <1>. QED  BY <1>2, <1>3, <1>4, NowWaitsGood

\* An unparked thread may still do what it was parked for.
LEMMA ContinueStep ==
    ASSUME IInv, NEW t \in Thread, Continue(t)
    PROVE  FineStep
  <1>. DEFINE w == sys.wait[t]
              r == Leaves(sys, t)
  <1>1. /\ sys.outcome = "none" /\ ~w.parked
        /\ Step(CASE w.op = "lock" -> {LockOrPark(r, t, w.on[1])}
                  [] w.op = "lock_shared" -> {LockSharedOrPark(r, t, w.on[1])}
                  [] w.op = "condvar" -> {lock_exclusive(r, t, w.on[2])}
                  [] w.op = "join" -> {Take(r, t, w.on[1])}
                  [] OTHER -> {})
    BY DEF Continue, Leaves
  <1>2. Good(sys) /\ w \in Waits /\ MayWait(sys, t, w)
    BY DEF IInv, Good, State, Waiting
  <1>. HIDE DEF w
  <1>3. Good(r) /\ NowWaits(sys, r, t, Idle)
    BY <1>1, <1>2, LeavesGood DEF w
  <1>. HIDE DEF r
  <1>4. /\ r.wait[t] = Idle /\ r.outcome = "none" /\ r.finished = sys.finished
        /\ SameLocks(sys, r)
    BY <1>1, <1>3 DEF NowWaits
  <1>5. /\ uses' = uses
        /\ \/ w.op = "lock" /\ sys' = LockOrPark(r, t, w.on[1])
           \/ w.op = "lock_shared" /\ sys' = LockSharedOrPark(r, t, w.on[1])
           \/ w.op = "condvar" /\ sys' = lock_exclusive(r, t, w.on[2])
           \/ w.op = "join" /\ sys' = Take(r, t, w.on[1])
    BY <1>1 DEF Step
  <1>6. Fine(r, sys')
    <2>1. CASE w.op = "lock" /\ sys' = LockOrPark(r, t, w.on[1])
      <3>1. PICK m \in Mutex : w.on = <<m>>
        BY <1>2, <2>1 DEF Waits, Sensible, Idle
      <3>2. sys' = LockOrPark(r, t, m)
        BY <2>1, <3>1
      <3>. QED  BY <1>3, <1>4, <3>2, LockOrParkGood
    <2>2. CASE w.op = "lock_shared" /\ sys' = LockSharedOrPark(r, t, w.on[1])
      <3>1. PICK m \in RwLock : w.on = <<m>>
        BY <1>2, <2>2 DEF Waits, Sensible, Idle
      <3>2. sys' = LockSharedOrPark(r, t, m)
        BY <2>2, <3>1
      <3>3. r.shared_owner[m][t] = 0
        BY <1>2, <1>4, <2>2, <3>1 DEF MayWait, SameLocks
      <3>. QED  BY <1>3, <1>4, <3>2, <3>3, LockSharedOrParkGood
    <2>3. CASE w.op = "condvar" /\ sys' = lock_exclusive(r, t, w.on[2])
      <3>1. PICK c \in CondVar, m \in Mutex : w.on = <<c, m>>
        BY <1>2, <2>3 DEF Waits, Sensible, Idle
      <3>2. sys' = lock_exclusive(r, t, m)
        BY <2>3, <3>1
      <3>3. r.owner[m] = t => r.recursion[m] < MaxRecursion[m]
        BY <1>2, <1>4, <2>3, <3>1 DEF MayWait, SameLocks
      <3>. QED  BY <1>3, <1>4, <3>2, <3>3, LockExclusiveGood
    <2>4. CASE w.op = "join" /\ sys' = Take(r, t, w.on[1])
      <3>1. PICK u \in Thread : w.on = <<u>>
        BY <1>2, <2>4 DEF Waits, Sensible, Idle
      <3>2. sys' = Take(r, t, u)
        BY <2>4, <3>1
      <3>3. u \in Object \ CondVar /\ is_signaled(r, u)
        <4>1. u \in Object \ CondVar
          BY KindAssumption DEF Object
        <4>2. u \in r.finished
          BY <1>1, <1>2, <1>4, <2>4, <3>1 DEF MayWait
        <4>. QED  BY <4>1, <4>2, SignaledKinds
      <3>. QED  BY <1>3, <1>4, <3>2, <3>3, TakeFine
    <2>. QED  BY <1>5, <2>1, <2>2, <2>3, <2>4
  <1>. QED  BY <1>4, <1>5, <1>6 DEF FineStep, Fine

\* A thread leaves its waitsets: for a lock it must take again, or to go on.
Unparked(s, t) == [remove(s, t) EXCEPT !.wait[t].parked = FALSE]
Removed(s, t) == [remove(s, t) EXCEPT !.wait[t] = Idle]

\* A thread leaves its waitsets to go on.
LEMMA RemovedGood ==
    ASSUME NEW s, Good(s), NEW t \in Thread, s.wait[t].parked, NEW r, r = Removed(s, t)
    PROVE  Good(r) /\ r.outcome = s.outcome
  <1>1. Good(r) /\ NowWaits(s, r, t, Idle)
    BY IdleFacts, LeaveGood DEF Removed
  <1>. QED  BY <1>1 DEF NowWaits

\* A thread leaves them for its lock.
LEMMA UnparkedGood ==
    ASSUME NEW s, Good(s), NEW t \in Thread, s.wait[t].parked, s.wait[t].op = "condvar",
           NEW r, r = Unparked(s, t)
    PROVE  Good(r) /\ r.outcome = s.outcome
  <1>1. r = Unpark(s, t)
    BY DEF Unpark, HandsOver, Unparked
  <1>2. Woken(s, r, t)
    BY <1>1, UnparkGood
  <1>3. Met(s, t)
    BY DEF Met, HandsOver
  <1>. QED  BY <1>2, <1>3 DEF Woken

\* Timeouts.
LEMMA TimeoutStep ==
    ASSUME IInv, NEW t \in Thread, Timeout(t)
    PROVE  FineStep
  <1>. DEFINE w == sys.wait[t]
              r == Removed(sys, t)
  <1>1. /\ w.parked
        /\ Step({IF w.op = "condvar" THEN Unparked(sys, t) ELSE GiveUp(r, t, w.on)})
    BY DEF Timeout, Unparked, Removed
  <1>2. Good(sys)
    BY DEF IInv
  <1>. HIDE DEF w
  <1>3. Good(r) /\ r.outcome = sys.outcome
    BY <1>1, <1>2, RemovedGood DEF w
  <1>. HIDE DEF r
  <1>4. /\ uses' = uses
        /\ sys' = IF w.op = "condvar" THEN Unparked(sys, t) ELSE GiveUp(r, t, w.on)
    BY <1>1, StepFacts
  <1>5. CASE w.op = "condvar"
    <2>1. Good(sys') /\ sys'.outcome = sys.outcome
      BY <1>1, <1>2, <1>4, <1>5, UnparkedGood DEF w
    <2>. QED  BY <1>4, <2>1 DEF FineStep, Fine
  <1>6. CASE w.op # "condvar"
    <2>1. NewsOnly(r, sys')
      BY <1>3, <1>4, <1>6, GiveUpNews DEF Good
    <2>2. Fine(r, sys')
      BY <1>3, <2>1, NewsFine
    <2>. QED  BY <1>3, <1>4, <2>2 DEF FineStep, Fine
  <1>. QED  BY <1>5, <1>6

\* One spurious wakeup of a condition variable fewer is left.
OneFewer(s, c) == [s EXCEPT !.spurious_limit[c] = @ - 1]

\* The spurious wakeups left are bounded.
LEMMA OneFewerGood ==
    ASSUME NEW s, Good(s), NEW c \in CondVar, NEW r, r = OneFewer(s, c)
    PROVE  Good(r) /\ r.outcome = s.outcome
  <1>1. s \in State /\ SpuriousLimit \in Nat
    BY BoundAssumption DEF Good
  <1>2. /\ r \in State /\ SameButCounts(s, r) /\ r.count = s.count
        /\ \A x \in CondVar : r.spurious_limit[x] = IF x = c THEN s.spurious_limit[c] - 1
                                                    ELSE s.spurious_limit[x]
    <2>. DEFINE n == s.spurious_limit[c] - 1
                L == [s.spurious_limit EXCEPT ![c] = n]
    <2>1. s.spurious_limit \in [CondVar -> Int] /\ n \in Int
      BY <1>1 DEF State
    <2>. HIDE DEF n
    <2>2. /\ L \in [CondVar -> Int]
          /\ \A x \in CondVar : L[x] = IF x = c THEN n ELSE s.spurious_limit[x]
      BY <2>1
    <2>3. r = [s EXCEPT !.spurious_limit = L]
      BY DEF OneFewer, n
    <2>. HIDE DEF L
    <2>4. r \in State /\ SameButCounts(s, r) /\ r.count = s.count /\ r.spurious_limit = L
      BY <1>1, <2>2, <2>3 DEF State, SameButCounts, SameWaits, SameLocks, SameNews
    <2>. QED  BY <2>2, <2>4 DEF n
  <1>3. Bounded(r)
    <2>1. \A x \in CondVar : s.spurious_limit[x] \in Int
      BY <1>1 DEF State
    <2>. QED  BY <1>1, <1>2, <2>1 DEF Good, Bounded
  <1>4. Linked(r) /\ Held(r) /\ Waiting(r) /\ Informed(r)
    BY <1>2, LinkedStays, HeldStays, WaitingStays, InformedStays DEF Good, SameWaits, SameButCounts
  <1>. QED  BY <1>2, <1>3, <1>4 DEF Good, SameButCounts

\* Spurious wakeups.
LEMMA SpuriousStep ==
    ASSUME IInv, NEW t \in Thread, Spurious(t)
    PROVE  FineStep
  <1>. DEFINE w == sys.wait[t]
              r == Removed(sys, t)
              u == Unparked(sys, t)
  <1>2. Good(sys) /\ w \in Waits
    BY DEF IInv, Good, State
  <1>1. /\ w.parked
        /\ Step({IF w.op = "condvar" THEN OneFewer(u, w.on[1]) ELSE acquire(r, t, w.on[1])})
    BY DEF Spurious, Unparked, Removed, OneFewer
  <1>. HIDE DEF w
  <1>3. Good(r) /\ r.outcome = sys.outcome
    BY <1>1, <1>2, RemovedGood DEF w
  <1>4. w.op = "condvar" => Good(u) /\ u.outcome = sys.outcome
    BY <1>1, <1>2, UnparkedGood DEF w
  <1>. HIDE DEF r, u
  <1>5. /\ uses' = uses
        /\ sys' = IF w.op = "condvar" THEN OneFewer(u, w.on[1]) ELSE acquire(r, t, w.on[1])
    BY <1>1, StepFacts
  <1>6. CASE w.op = "condvar"
    <2>1. PICK c \in CondVar, m \in Mutex : w.on = <<c, m>>
      BY <1>2, <1>6 DEF Waits, Sensible, Idle
    <2>2. sys' = OneFewer(u, c)
      BY <1>5, <1>6, <2>1
    <2>3. Good(sys') /\ sys'.outcome = u.outcome
      BY <1>4, <1>6, <2>2, OneFewerGood
    <2>. QED  BY <1>4, <1>5, <1>6, <2>3 DEF FineStep, Fine
  <1>7. CASE w.op # "condvar"
    <2>1. Fine(r, sys')
      BY <1>3, <1>5, <1>7, AcquireFine
    <2>. QED  BY <1>3, <1>5, <2>1 DEF FineStep, Fine
  <1>. QED  BY <1>6, <1>7

-----------------------------------------------------------------------------
(* The theorems                                                            *)

\* The invariant at first.
LEMMA InitGood == Init => IInv
  <1>. SUFFICES ASSUME Init PROVE IInv
    OBVIOUS
  <1>1. uses \in Tests
    BY DEF Init
  <1>2. PICK first \in SUBSET (Event \cap uses), u \in Thread :
        sys = [owner |-> [m \in Mutex |-> Free], recursion |-> [m \in Mutex |-> 0],
               shared_owner |-> [m \in Mutex |-> [t \in Thread |-> 0]],
               shared_lock_count |-> [m \in Mutex |-> 0],
               count |-> [o \in Semaphore |-> 0], state |-> [o \in Event |-> o \in first],
               spurious_limit |-> [c \in CondVar |-> SpuriousLimit],
               finished |-> {}, ws |-> [id \in WaitsetId |-> <<>>],
               wait |-> [t \in Thread |-> Idle], watched |-> u, last |-> u,
               order |-> {}, known |-> {}, unseen |-> {}, outcome |-> "none"]
    BY DEF Init
  <1>3. /\ sys.owner = [m \in Mutex |-> Free] /\ sys.recursion = [m \in Mutex |-> 0]
        /\ sys.shared_owner = [m \in Mutex |-> [t \in Thread |-> 0]]
        /\ sys.shared_lock_count = [m \in Mutex |-> 0]
        /\ sys.count = [o \in Semaphore |-> 0]
        /\ sys.spurious_limit = [c \in CondVar |-> SpuriousLimit]
        /\ sys.finished = {} /\ sys.ws = [id \in WaitsetId |-> <<>>]
        /\ sys.wait = [t \in Thread |-> Idle] /\ sys.watched = u /\ sys.last = u
        /\ sys.unseen = {}
    BY <1>2
  <1>4. sys \in State
    <2>1. SpuriousLimit \in Int /\ u \in Object /\ Idle \in Waits /\ "none" \in Outcomes
      BY BoundAssumption, IdleFacts DEF Object, Outcomes
    <2>2. [m \in Mutex |-> [t \in Thread |-> 0]] \in [Mutex -> [Thread -> Nat]]
      OBVIOUS
    <2>3. [id \in WaitsetId |-> <<>>] \in [WaitsetId -> Seq(Thread)]
      OBVIOUS
    <2>4. [t \in Thread |-> Idle] \in [Thread -> Waits]
      BY <2>1
    <2>5. /\ [o \in Event |-> o \in first] \in [Event -> BOOLEAN]
          /\ [c \in CondVar |-> SpuriousLimit] \in [CondVar -> Int]
          /\ [o \in Semaphore |-> 0] \in [Semaphore -> Nat]
          /\ [m \in Mutex |-> 0] \in [Mutex -> Nat]
          /\ [m \in Mutex |-> Free] \in [Mutex -> Thread \cup {Free, Shared}]
      BY <2>1
    <2>. QED  BY <1>2, <2>1, <2>2, <2>3, <2>4, <2>5 DEF State
  <1>5. Bounded(sys)
    BY <1>3, BoundAssumption DEF Bounded
  <1>6. Linked(sys)
    <2>1. IsInjective(<<>>) /\ ToSet(<<>>) = {}
      BY DEF IsInjective, ToSet
    <2>2. \A id : ~WaitsIn(Idle, id)
      BY IdleFacts DEF WaitsIn
    <2>. QED  BY <1>3, <2>1, <2>2 DEF Linked
  <1>7. Held(sys)
    <2>. DEFINE z == [t \in Thread |-> 0]
    <2>1. z \in [Thread -> Nat] /\ \A t \in Thread : z[t] = 0
      OBVIOUS
    <2>. HIDE DEF z
    <2>2. SumFunction(z) = 0
      BY <2>1, ReadersSum
    <2>3. \A m \in Mutex : HeldWell(m, Free, 0, z, 0)
      BY <2>1, <2>2, KindAssumption, BoundAssumption DEF HeldWell
    <2>4. \A m \in Mutex : /\ sys.owner[m] = Free /\ sys.recursion[m] = 0
                           /\ sys.shared_owner[m] = z /\ sys.shared_lock_count[m] = 0
      BY <1>3 DEF z
    <2>. QED  BY <2>3, <2>4, HeldIsWell
  <1>8. Waiting(sys)
    BY <1>3, IdleFacts DEF Waiting
  <1>9. Informed(sys)
    BY <1>3 DEF Informed
  <1>. QED  BY <1>1, <1>4, <1>5, <1>6, <1>7, <1>8, <1>9 DEF IInv, Good

\* What every step does.
LEMMA StepGood ==
    ASSUME IInv, Next
    PROVE  /\ IInv'
           /\ sys.outcome = "none"
           /\ FineStep \/ \E t \in Thread, o \in Event \ ManualReset : sys' = pulse(sys, t, o)
  <1>1. PICK t \in Thread :
        \/ LockExclusive(t) \/ TryLockExclusive(t) \/ LockShared(t) \/ TryLockShared(t) \/ Unlock(t)
        \/ CondVarWait(t) \/ Notify(t)
        \/ WaitForSingleObject(t) \/ TryWait(t) \/ GetValue(t) \/ WaitForMultipleObjects(t)
        \/ Post(t) \/ SetEvent(t) \/ ResetEvent(t) \/ PulseEvent(t) \/ SignalObjectAndWait(t)
        \/ Finish(t) \/ Continue(t) \/ Timeout(t) \/ Spurious(t)
    BY DEF Next
  <1>2. sys.outcome = "none"
    BY <1>1 DEF Ready, LockExclusive, TryLockExclusive, LockShared, TryLockShared, Unlock,
                CondVarWait, Notify, WaitForSingleObject, TryWait, GetValue,
                WaitForMultipleObjects, Post, SetEvent, ResetEvent, PulseEvent,
                SignalObjectAndWait, Finish, Continue, Timeout, Spurious
  <1>3. ASSUME FineStep PROVE IInv'
    BY <1>3 DEF FineStep, Fine, IInv
  <1>4. CASE LockExclusive(t) \/ TryLockExclusive(t)
    BY <1>2, <1>3, <1>4, LockExclusiveStep
  <1>5. CASE LockShared(t) \/ TryLockShared(t)
    BY <1>2, <1>3, <1>5, LockSharedStep
  <1>6. CASE Unlock(t)
    BY <1>2, <1>3, <1>6, UnlockStep
  <1>7. CASE CondVarWait(t)
    BY <1>2, <1>3, <1>7, CondVarWaitStep
  <1>8. CASE Notify(t)
    BY <1>2, <1>3, <1>8, NotifyStep
  <1>9. CASE WaitForSingleObject(t)
    BY <1>2, <1>3, <1>9, WaitForSingleObjectStep
  <1>10. CASE TryWait(t)
    BY <1>2, <1>3, <1>10, TryWaitStep
  <1>11. CASE GetValue(t)
    BY <1>2, <1>3, <1>11, GetValueStep
  <1>12. CASE WaitForMultipleObjects(t)
    BY <1>2, <1>3, <1>12, WaitForMultipleObjectsStep
  <1>13. CASE Post(t)
    BY <1>2, <1>3, <1>13, PostStep
  <1>14. CASE SetEvent(t) \/ ResetEvent(t)
    BY <1>2, <1>3, <1>14, SetEventStep
  <1>15. CASE PulseEvent(t)
    <2>1. /\ uses' = uses /\ Good(sys')
          /\ FineStep \/ \E o \in Event \ ManualReset : sys' = pulse(sys, t, o)
      BY <1>15, PulseEventStep
    <2>2. IInv'
      BY <2>1 DEF IInv
    <2>. QED  BY <1>2, <2>1, <2>2
  <1>16. CASE SignalObjectAndWait(t)
    BY <1>2, <1>3, <1>16, SignalObjectAndWaitStep
  <1>17. CASE Finish(t)
    BY <1>2, <1>3, <1>17, FinishStep
  <1>18. CASE Continue(t)
    BY <1>2, <1>3, <1>18, ContinueStep
  <1>19. CASE Timeout(t)
    BY <1>2, <1>3, <1>19, TimeoutStep
  <1>20. CASE Spurious(t)
    BY <1>2, <1>3, <1>20, SpuriousStep
  <1>. QED  BY <1>1, <1>4, <1>5, <1>6, <1>7, <1>8, <1>9, <1>10, <1>11, <1>12, <1>13, <1>14,
                <1>15, <1>16, <1>17, <1>18, <1>19, <1>20

\* The waitsets, the locks, the waits and what is known of the last signal are
\* right in every state, whichever of the operations the threads do in whichever
\* order: the takes, the parks, the wakeups and the hand-overs of
\* generic_mutex_data, condvar_data, sema_data, event_data, thread_sync_object
\* and wait_for_multiple_objects together.
THEOREM BlockingInvariant == Spec => []IInv
  <1>1. Init => IInv
    BY InitGood
  <1>2. IInv /\ [Next]_vars => IInv'
    <2>1. CASE Next
      BY <2>1, StepGood
    <2>2. CASE UNCHANGED vars
      BY <2>2 DEF vars, IInv
    <2>. QED  BY <2>1, <2>2
  <1>. QED  BY <1>1, <1>2, PTL DEF Spec

\* Every variable has its type: among it that no lock is held oftener than it may
\* be, and no semaphore counts more than its max_count_ or less than nothing.
THEOREM TypeCorrect == Spec => []TypeOK
  <1>1. IInv => TypeOK
    <2>. SUFFICES ASSUME IInv PROVE TypeOK
      OBVIOUS
    <2>1. sys \in State /\ Bounded(sys) /\ uses \in Tests
      BY DEF IInv, Good
    <2>2. \A m \in Mutex : sys.recursion[m] \in 0 .. MaxRecursion[m]
      <3>. SUFFICES ASSUME NEW m \in Mutex PROVE sys.recursion[m] \in 0 .. MaxRecursion[m]
        OBVIOUS
      <3>1. /\ sys.recursion[m] \in Nat /\ sys.recursion[m] <= MaxRecursion[m]
            /\ MaxRecursion[m] \in Nat
        BY HeldFacts DEF HeldWell, IInv
      <3>. QED  BY <3>1
    <2>3. \A m \in Mutex : sys.shared_owner[m] \in [Thread -> 0 .. MaxRecursion[m]]
      <3>. SUFFICES ASSUME NEW m \in Mutex
                    PROVE  sys.shared_owner[m] \in [Thread -> 0 .. MaxRecursion[m]]
        OBVIOUS
      <3>1. /\ sys.shared_owner[m] \in [Thread -> Nat] /\ MaxRecursion[m] \in Nat
            /\ \A t \in Thread : sys.shared_owner[m][t] <= MaxRecursion[m]
        BY HeldFacts DEF HeldWell, IInv
      <3>. QED  BY <3>1
    <2>4. \A o \in Semaphore : sys.count[o] \in 0 .. MaxCount[o]
      <3>1. \A o \in Semaphore : /\ sys.count[o] \in Nat /\ MaxCount[o] \in Nat
                                 /\ sys.count[o] <= MaxCount[o]
        BY <2>1, BoundAssumption DEF State, Bounded
      <3>. QED  BY <3>1
    <2>5. \A c \in CondVar : sys.spurious_limit[c] <= SpuriousLimit
      BY <2>1 DEF Bounded
    <2>6. /\ sys.owner \in [Mutex -> Thread \cup {Free, Shared}] /\ sys.state \in [Event -> BOOLEAN]
          /\ sys.finished \subseteq Thread /\ sys.watched \in Thread /\ sys.last \in Object
          /\ sys.known \subseteq Thread /\ sys.order \subseteq Object /\ sys.outcome \in Outcomes
      BY <2>1 DEF State
    <2>. QED  BY <2>1, <2>2, <2>3, <2>4, <2>5, <2>6 DEF TypeOK, Outcomes
  <1>. QED  BY <1>1, BlockingInvariant, PTL

\* A thread is in a waitset once while it is parked there, and otherwise not at
\* all: no timeout, wakeup or wait for several objects leaves it behind in one.
THEOREM WaitsetsRight == Spec => []WaitsetsAreOfParkedThreads
  <1>1. IInv => WaitsetsAreOfParkedThreads
    <2>. SUFFICES ASSUME IInv, NEW id \in WaitsetId, NEW t \in Thread
                  PROVE  Cardinality({i \in DOMAIN sys.ws[id] : sys.ws[id][i] = t}) =
                             IF Parked(t) /\ id \in Waitsets(sys.wait[t]) THEN 1 ELSE 0
      BY DEF WaitsetsAreOfParkedThreads
    <2>. DEFINE q == sys.ws[id]
                places == {i \in DOMAIN q : q[i] = t}
    <2>1. IsInjective(q) /\ (t \in ToSet(q) <=> Parked(t) /\ id \in Waitsets(sys.wait[t]))
      BY DEF IInv, Good, Linked, WaitsIn, Parked
    <2>. HIDE DEF q
    <2>2. CASE t \in ToSet(q)
      <3>1. PICK i \in DOMAIN q : q[i] = t
        BY <2>2 DEF ToSet
      <3>2. places = {i}
        BY <2>1, <3>1 DEF IsInjective
      <3>3. Cardinality(places) = 1
        BY <3>2, FS_Singleton
      <3>. QED  BY <2>1, <2>2, <3>3 DEF q
    <2>3. CASE t \notin ToSet(q)
      <3>1. places = {}
        BY <2>3 DEF ToSet
      <3>2. Cardinality(places) = 0
        BY <3>1, FS_EmptySet
      <3>. QED  BY <2>1, <2>3, <3>2 DEF q
    <2>. QED  BY <2>2, <2>3
  <1>. QED  BY <1>1, BlockingInvariant, PTL

\* A lock is free, its one owner's, or the readers' it counts, through all
\* recursion, upgrades that fail, timeouts and waits for several objects.
THEOREM LocksHeldOnce == Spec => []LocksAreHeldOnce
  <1>1. IInv => LocksAreHeldOnce
    <2>. SUFFICES ASSUME IInv, NEW m \in Mutex
                  PROVE  /\ sys.shared_lock_count[m] = SumFunction(sys.shared_owner[m])
                         /\ sys.owner[m] = Shared <=>
                                {t \in Thread : sys.shared_owner[m][t] > 0} # {}
                         /\ sys.recursion[m] > 0 <=> sys.owner[m] \in Thread
      BY DEF LocksAreHeldOnce
    <2>1. /\ sys.shared_lock_count[m] = SumFunction(sys.shared_owner[m])
          /\ sys.owner[m] = Shared <=> \E t \in Thread : sys.shared_owner[m][t] > 0
          /\ sys.recursion[m] > 0 <=> sys.owner[m] \in Thread
      BY DEF IInv, Good, Held
    <2>. QED  BY <2>1
  <1>. QED  BY <1>1, BlockingInvariant, PTL

\* Who takes what a thread has signaled is ordered after the signal: the sync_var
\* of the object it was signaled through covers it, until another covers more.
THEOREM TakersKnow == Spec => []TakersKnowTheSignals
  <1>1. IInv => TakersKnowTheSignals
    BY DEF IInv, Good, Informed, TakersKnowTheSignals
  <1>. QED  BY <1>1, BlockingInvariant, PTL

\* No RL_VERIFY of the waits fails but in a pulse of an auto-reset event: whoever
\* is handed the processor finds what it was woken for.
THEOREM ChecksBreakByPulse == Spec => OnlyPulsesBreakTheChecks
  <1>. DEFINE ByPulse == sys'.outcome = "verify" =>
                  \E t \in Thread, o \in Event \ ManualReset : sys' = pulse(sys, t, o)
  <1>1. IInv /\ [Next]_vars => [ByPulse]_vars
    <2>1. ASSUME IInv, Next PROVE ByPulse
      BY <2>1, StepGood DEF FineStep, Fine
    <2>. QED  BY <2>1
  <1>2. Spec => [][Next]_vars
    BY PTL DEF Spec
  <1>. QED  BY <1>1, <1>2, BlockingInvariant, PTL DEF OnlyPulsesBreakTheChecks

-----------------------------------------------------------------------------
(* Who waits in vain                                                       *)

\* IsClaimed, has_come and CanGoOn of any state, and with some objects X of which
\* it is not asked yet whether they have come.
Claimed(s, m) == \E u \in Thread : ~s.wait[u].parked /\ s.wait[u].op = "lock" /\ s.wait[u].on = <<m>>
Come(s, o) == is_signaled(s, o) /\ (o \in Mutex => ~Claimed(s, o))
ReadersMay(s, m) == SharedFree(s, m) /\ ~Claimed(s, m)

CanGo(s, w, X) ==
    \/ w.op = "lock_shared" /\ w.on[1] \notin X /\ ReadersMay(s, w.on[1])
    \/ w.op = "wait_all" /\ \A o \in ToSet(w.on) : o \notin X /\ Come(s, o)
    \/ /\ w.op \notin {"lock_shared", "wait_all", "condvar"}
       /\ \E o \in ToSet(w.on) : o \notin X /\ Come(s, o)

\* Nobody waits in vain for other objects than X.
NoneInVain(s, X) == \A t \in Thread : s.wait[t].parked => ~CanGo(s, s.wait[t], X)

\* A wait for a reader-writer lock as a writer, or to be about to take a lock.
Locks(w) == w.op = "lock" /\ (w.parked => w.on[1] \in RwLock)

\* From s to r no thread parks or gives up a lock it is to have, and nothing is
\* signaled that was not.
Fades(s, r) ==
    /\ \A u \in Thread :
           /\ r.wait[u].parked => r.wait[u] = s.wait[u]
           /\ Locks(s.wait[u]) => /\ r.wait[u].op = "lock" /\ r.wait[u].on = s.wait[u].on
                                  /\ ~s.wait[u].parked => ~r.wait[u].parked
    /\ \A o \in Object \ CondVar : is_signaled(r, o) => is_signaled(s, o)
    /\ \A m \in RwLock : r.owner[m] = Shared => s.owner[m] \in {Free, Shared}

\* What is waited for.
LEMMA WaitObjects ==
    ASSUME NEW w \in Waits, w.parked
    PROVE  /\ w.op = "lock_shared" => w.on[1] \in RwLock
           /\ w.op # "condvar" => ToSet(w.on) \subseteq Object \ CondVar
           /\ w.op \notin {"lock", "lock_shared", "condvar"} => ToSet(w.on) \cap RwLock = {}
           /\ w.op = "lock" => w.on[1] \in Mutex /\ w.on = <<w.on[1]>>
  <1>0. w # Idle
    BY IdleFacts
  <1>1. CASE w.op \in {"lock", "lock_shared", "join", "wait"}
    <2>1. PICK o : w.on = <<o>> /\ o \in Mutex \cup Thread \cup Semaphore \cup Event
      BY <1>0, <1>1, KindAssumption DEF Waits, Sensible
    <2>2. ToSet(w.on) = {o} /\ w.on[1] = o
      BY <2>1 DEF ToSet
    <2>3. o \in Object \ CondVar
      BY <2>1, KindAssumption DEF Object
    <2>4. w.op = "lock" => o \in Mutex
      BY <1>0, <2>1 DEF Waits, Sensible
    <2>5. w.op = "lock_shared" => o \in RwLock
      BY <1>0, <2>1 DEF Waits, Sensible
    <2>6. w.op \in {"join", "wait"} => o \notin RwLock
      BY <1>0, <2>1, KindAssumption DEF Waits, Sensible
    <2>. QED  BY <1>1, <2>1, <2>2, <2>3, <2>4, <2>5, <2>6
  <1>2. CASE w.op \in {"wait_all", "wait_any"}
    <2>1. w.on \in WaitArrays
      BY <1>0, <1>2 DEF Waits, Sensible
    <2>2. w.on \in Seq((Mutex \ RwLock) \cup Semaphore \cup Event \cup Thread)
      BY <2>1, KindAssumption
    <2>3. ToSet(w.on) \subseteq (Mutex \ RwLock) \cup Semaphore \cup Event \cup Thread
      BY <2>2 DEF ToSet
    <2>. QED  BY <1>2, <2>3, KindAssumption DEF Object
  <1>. QED  BY <1>0, <1>1, <1>2 DEF Waits, Sensible

\* Only writers wait in the waitset of a reader-writer lock itself.
LEMMA WritersWait ==
    ASSUME NEW w \in Waits, w.parked, NEW m \in RwLock
    PROVE  Main(m) \in Waitsets(w) <=> w.op = "lock" /\ w.on = <<m>>
  <1>0. m \in Object /\ m \notin CondVar
    BY KindAssumption DEF Object
  <1>1. ASSUME Main(m) \in Waitsets(w) PROVE w.op = "lock" /\ w.on = <<m>>
    <2>1. w.op # "condvar" /\ \E i \in DOMAIN w.on : w.on[i] = m
      BY <1>0, <1>1, MainWait
    <2>2. w.op # "lock_shared"
      BY <1>1 DEF Waitsets, Main, Readers
    <2>3. m \in ToSet(w.on)
      BY <2>1 DEF ToSet
    <2>4. w.op = "lock"
      BY <2>1, <2>2, <2>3, WaitObjects
    <2>5. w.on = <<w.on[1]>>
      BY <2>4, WaitObjects
    <2>6. w.on[1] = m
      BY <2>3, <2>5 DEF ToSet
    <2>. QED  BY <2>4, <2>5, <2>6
  <1>2. ASSUME w.op = "lock", w.on = <<m>> PROVE Main(m) \in Waitsets(w)
    <2>1. m \in ToSet(w.on)
      BY <1>2 DEF ToSet
    <2>. QED  BY <1>2, <2>1 DEF Waitsets
  <1>. QED  BY <1>1, <1>2

\* A waitset is empty when nobody waits there.
LEMMA NobodyWaits ==
    ASSUME NEW s, Good(s), NEW id \in WaitsetId
    PROVE  s.ws[id] = <<>> <=> \A t \in Thread : ~WaitsIn(s.wait[t], id)
  <1>1. s.ws[id] \in Seq(Thread)
    BY DEF Good, State
  <1>2. \A t \in Thread : t \in ToSet(s.ws[id]) <=> WaitsIn(s.wait[t], id)
    BY DEF Good, Linked
  <1>. DEFINE q == s.ws[id]
  <1>3. q = <<>> <=> ToSet(q) = {}
    <2>. HIDE DEF q
    <2>1. q \in Seq(Thread)
      BY <1>1 DEF q
    <2>2. ToSet(q) = {} => Len(q) = 0
      <3>1. Len(q) \in Nat /\ DOMAIN q = 1 .. Len(q)
        BY <2>1
      <3>2. Len(q) # 0 => 1 \in DOMAIN q
        BY <3>1
      <3>. QED  BY <3>2 DEF ToSet
    <2>3. q = <<>> => ToSet(q) = {}
      BY DEF ToSet
    <2>. QED  BY <2>1, <2>2, <2>3
  <1>4. ToSet(q) \subseteq Thread
    BY <1>1 DEF ToSet
  <1>. QED  BY <1>2, <1>3, <1>4

\* Whether readers may take a lock, by the threads that wait.
LEMMA SharedFreeIs ==
    ASSUME NEW s, Good(s), NEW m \in RwLock
    PROVE  SharedFree(s, m) <=>
               \/ s.owner[m] = Free
               \/ /\ s.owner[m] = Shared
                  /\ \A t \in Thread : ~(s.wait[t].parked /\ s.wait[t].op = "lock" /\ s.wait[t].on = <<m>>)
  <1>1. Main(m) \in WaitsetId
    BY KindAssumption DEF WaitsetId, Object
  <1>2. \A t \in Thread : s.wait[t] \in Waits
    BY DEF Good, State
  <1>3. \A t \in Thread : WaitsIn(s.wait[t], Main(m)) <=>
            s.wait[t].parked /\ s.wait[t].op = "lock" /\ s.wait[t].on = <<m>>
    BY <1>2, WritersWait DEF WaitsIn
  <1>. QED  BY <1>1, <1>3, NobodyWaits DEF SharedFree

\* What fades twice, fades.
LEMMA FadesTransitive ==
    ASSUME NEW s, Good(s), NEW q, Good(q), NEW r, Good(r), Fades(s, q), Fades(q, r)
    PROVE  Fades(s, r)
  <1>. DEFINE R(x, y, u) ==
           /\ y.wait[u].parked => y.wait[u] = x.wait[u]
           /\ Locks(x.wait[u]) => /\ y.wait[u].op = "lock" /\ y.wait[u].on = x.wait[u].on
                                  /\ ~x.wait[u].parked => ~y.wait[u].parked
  <1>1. ASSUME NEW u \in Thread PROVE R(s, r, u)
    <2>1. R(s, q, u) /\ R(q, r, u)
      BY DEF Fades
    <2>2. s.wait[u].parked \in BOOLEAN /\ q.wait[u].parked \in BOOLEAN
      BY DEF Good, State, Waits
    <2>. QED  BY <2>1, <2>2 DEF Locks
  <1>2. \A o \in Object \ CondVar : is_signaled(r, o) => is_signaled(s, o)
    BY DEF Fades
  <1>3. ASSUME NEW m \in RwLock, r.owner[m] = Shared PROVE s.owner[m] \in {Free, Shared}
    <2>1. q.owner[m] \in {Free, Shared}
      BY <1>3 DEF Fades
    <2>2. m \in Object \ CondVar /\ m \in Mutex
      BY KindAssumption DEF Object
    <2>3. q.owner[m] = Free => s.owner[m] = Free
      BY <2>2, SignaledKinds DEF Fades
    <2>. QED  BY <2>1, <2>3 DEF Fades
  <1>. QED  BY <1>1, <1>2, <1>3 DEF Fades

\* A state fades to itself.
LEMMA FadesItself == ASSUME NEW s PROVE Fades(s, s)
  BY DEF Fades, Locks

\* A claim stays.
LEMMA ClaimStays ==
    ASSUME NEW s, NEW r, Fades(s, r), NEW m, Claimed(s, m)
    PROVE  Claimed(r, m)
  <1>1. PICK u \in Thread : ~s.wait[u].parked /\ s.wait[u].op = "lock" /\ s.wait[u].on = <<m>>
    BY DEF Claimed
  <1>2. Locks(s.wait[u])
    BY <1>1 DEF Locks
  <1>. QED  BY <1>1, <1>2 DEF Fades, Claimed

\* Nothing comes that was not there, neither for readers.
LEMMA ComesLess ==
    ASSUME NEW s, Good(s), NEW r, Good(r), Fades(s, r)
    PROVE  /\ \A o \in Object \ CondVar : Come(r, o) => Come(s, o)
           /\ \A m \in RwLock : ReadersMay(r, m) => ReadersMay(s, m)
  <1>1. \A o \in Object \ CondVar : Come(r, o) => Come(s, o)
    BY ClaimStays DEF Fades, Come
  <1>2. ASSUME NEW m \in RwLock, ReadersMay(r, m) PROVE ReadersMay(s, m)
    <2>1. ~Claimed(r, m) /\ ~Claimed(s, m)
      BY <1>2, ClaimStays DEF ReadersMay
    <2>2. m \in Object \ CondVar /\ m \in Mutex
      BY KindAssumption DEF Object
    <2>3. CASE r.owner[m] = Free
      <3>1. s.owner[m] = Free
        BY <2>2, <2>3, SignaledKinds DEF Fades
      <3>. QED  BY <2>1, <3>1 DEF ReadersMay, SharedFree
    <2>4. CASE r.owner[m] = Shared
      <3>1. s.owner[m] \in {Free, Shared}
        BY <2>4 DEF Fades
      <3>2. ASSUME NEW t \in Thread, s.wait[t].parked, s.wait[t].op = "lock", s.wait[t].on = <<m>>
            PROVE  FALSE
        <4>1. Locks(s.wait[t])
          BY <3>2 DEF Locks
        <4>2. r.wait[t].op = "lock" /\ r.wait[t].on = <<m>>
          BY <3>2, <4>1 DEF Fades
        <4>3. ~r.wait[t].parked
          BY <1>2, <2>4, <4>2, SharedFreeIs, KindAssumption DEF ReadersMay
        <4>. QED  BY <2>1, <4>2, <4>3 DEF Claimed
      <3>3. SharedFree(s, m)
        BY <3>1, <3>2, SharedFreeIs
      <3>. QED  BY <2>1, <3>3 DEF ReadersMay
    <2>. QED  BY <1>2, <2>3, <2>4 DEF ReadersMay, SharedFree
  <1>. QED  BY <1>1, <1>2

\* Who could not go on cannot.
LEMMA CanGoLess ==
    ASSUME NEW s, NEW r, NEW w \in Waits, w.parked, NEW X,
           \A o \in ToSet(w.on) \ X : o \in Object \ CondVar /\ Come(r, o) => Come(s, o),
           \A m \in RwLock \ X : ReadersMay(r, m) => ReadersMay(s, m),
           CanGo(r, w, X)
    PROVE  CanGo(s, w, X)
  <1>1. CASE w.op = "lock_shared"
    BY <1>1, WaitObjects DEF CanGo
  <1>2. CASE w.op # "lock_shared"
    <2>1. w.op # "condvar"
      BY <1>2 DEF CanGo
    <2>2. ToSet(w.on) \subseteq Object \ CondVar
      BY <2>1, WaitObjects
    <2>. QED  BY <1>2, <2>2 DEF CanGo
  <1>. QED  BY <1>1, <1>2

\* What fades keeps everybody waiting.
LEMMA FadesKeeps ==
    ASSUME NEW s, Good(s), NEW r, Good(r), Fades(s, r), NEW X, NoneInVain(s, X)
    PROVE  NoneInVain(r, X)
  <1>. SUFFICES ASSUME NEW t \in Thread, r.wait[t].parked, CanGo(r, r.wait[t], X) PROVE FALSE
    BY DEF NoneInVain
  <1>. DEFINE w == r.wait[t]
  <1>1. w = s.wait[t] /\ w \in Waits
    BY DEF Fades, Good, State
  <1>2. /\ \A o \in ToSet(w.on) \ X : o \in Object \ CondVar /\ Come(r, o) => Come(s, o)
        /\ \A m \in RwLock \ X : ReadersMay(r, m) => ReadersMay(s, m)
    BY ComesLess
  <1>3. CanGo(s, w, X)
    BY <1>1, <1>2, CanGoLess
  <1>. QED  BY <1>1, <1>3 DEF NoneInVain

\* Only the objects X have come lately.
LEMMA FreshKeeps ==
    ASSUME NEW s, Good(s), NEW r, Good(r), NEW X, NEW Y, NoneInVain(s, Y), Y \subseteq X,
           r.wait = s.wait, NEW o, X = {o},
           \A p \in (Object \ CondVar) \ X : is_signaled(r, p) => is_signaled(s, p),
           \A m \in RwLock \ X : r.owner[m] = s.owner[m]
    PROVE  NoneInVain(r, X)
  <1>1. \A p : Claimed(r, p) <=> Claimed(s, p)
    BY DEF Claimed
  <1>2. \A p \in (Object \ CondVar) \ X : Come(r, p) => Come(s, p)
    BY <1>1 DEF Come
  <1>3. \A m \in RwLock \ X : ReadersMay(r, m) => ReadersMay(s, m)
    BY <1>1, SharedFreeIs DEF ReadersMay
  <1>. SUFFICES ASSUME NEW t \in Thread, r.wait[t].parked, CanGo(r, r.wait[t], X) PROVE FALSE
    BY DEF NoneInVain
  <1>. DEFINE w == r.wait[t]
  <1>4. w = s.wait[t] /\ w \in Waits
    BY DEF Good, State
  <1>5. CanGo(s, w, X)
    BY <1>2, <1>3, <1>4, CanGoLess
  <1>6. CanGo(s, w, Y)
    BY <1>5 DEF CanGo
  <1>. QED  BY <1>4, <1>6 DEF NoneInVain

\* What has not come for anybody after all is nothing to wait for.
LEMMA DropFresh ==
    ASSUME NEW s, Good(s), NEW o \in Object \ CondVar, NoneInVain(s, {o}), ~Come(s, o),
           o \in RwLock => ~ReadersMay(s, o)
    PROVE  NoneInVain(s, {})
  <1>. SUFFICES ASSUME NEW t \in Thread, s.wait[t].parked, CanGo(s, s.wait[t], {}) PROVE FALSE
    BY DEF NoneInVain
  <1>. DEFINE w == s.wait[t]
  <1>1. w \in Waits /\ ~CanGo(s, w, {o})
    BY DEF Good, State, NoneInVain
  <1>2. w.op = "lock_shared" => w.on[1] \in RwLock
    BY <1>1, WaitObjects
  <1>. QED  BY <1>1, <1>2 DEF CanGo

\* What has changed but for waits, locks and what is signaled does not matter.
LEMMA AlikeFades ==
    ASSUME NEW s, NEW r, SameWaits(s, r), r.owner = s.owner, r.count = s.count, r.state = s.state
    PROVE  Fades(s, r)
  <1>1. ASSUME NEW o \in Object \ CondVar PROVE is_signaled(r, o) = is_signaled(s, o)
    BY DEF is_signaled, SameWaits
  <1>. QED  BY <1>1 DEF Fades, Locks, SameWaits

\* News do not matter.
LEMMA NewsFades ==
    ASSUME NEW s, NEW r, NewsOnly(s, r)
    PROVE  Fades(s, r)
  BY AlikeFades DEF NewsOnly, SameWaits

\* A take leaves less.
LEMMA TakenFades ==
    ASSUME NEW s, Good(s), NEW r, NEW t \in Thread, NEW O, Taken(s, r, t, O)
    PROVE  Fades(s, r)
  <1>1. t \notin {Free, Shared}
    BY KindAssumption
  <1>2. ASSUME NEW o \in Object \ CondVar, is_signaled(r, o) PROVE is_signaled(s, o)
    <2>1. CASE o \in Mutex
      BY <1>1, <1>2, <2>1, SignaledKinds DEF Taken
    <2>2. CASE o \in Semaphore
      <3>1. s.count[o] \in Nat
        BY <2>2 DEF Good, State
      <3>. QED  BY <1>2, <2>2, <3>1, SignaledKinds DEF Taken
    <2>3. CASE o \in Event
      BY <1>2, <2>3, SignaledKinds DEF Taken
    <2>4. CASE o \in Thread
      BY <1>2, <2>4, SignaledKinds DEF Taken, SameWaits
    <2>. QED  BY <2>1, <2>2, <2>3, <2>4 DEF Object
  <1>3. \A m \in RwLock : r.owner[m] = Shared => s.owner[m] \in {Free, Shared}
    BY <1>1, KindAssumption DEF Taken
  <1>4. \A u \in Thread : r.wait[u] = s.wait[u]
    BY DEF Taken, SameWaits
  <1>. QED  BY <1>2, <1>3, <1>4 DEF Fades, Locks

\* So does who leaves the waitsets, if it claims the lock it waited for or this is
\* not a reader-writer lock.
LEMMA LeaveFades ==
    ASSUME NEW s, NEW t \in Thread, s.wait[t].parked, NEW w, ~w.parked, NEW r, NowWaits(s, r, t, w),
           \/ w.op = s.wait[t].op /\ w.on = s.wait[t].on
           \/ s.wait[t].op = "lock" => s.wait[t].on[1] \notin RwLock
    PROVE  Fades(s, r)
  <1>1. \A o : is_signaled(r, o) = is_signaled(s, o)
    BY SignaledAlike
  <1>2. \A u \in Thread : r.wait[u] = IF u = t THEN w ELSE s.wait[u]
    BY DEF NowWaits
  <1>3. r.owner = s.owner
    BY DEF NowWaits, SameLocks
  <1>. QED  BY <1>1, <1>2, <1>3 DEF Fades, Locks

\* Who is handed the processor takes what it may, and else only the verdict on
\* the test changes.
LEMMA HandOverTakes ==
    ASSUME NEW s, Good(s), NEW t \in Thread, s.wait[t] = Idle, NEW w \in Waits, HandsOver(w),
           NEW r, r = HandOver(s, t, w)
    PROVE  /\ Good(r) /\ Fades(s, r)
           /\ MayTake(s, w.op, w.on) => \E O : Taken(s, r, t, O) /\ MeetsWith(s, w.op, w.on, O)
  <1>0. Good(r)
    BY HandOverGood
  <1>1. CASE MayTake(s, w.op, w.on)
    <2>1. r = TakeThem(s, t, w.op, w.on)
      BY <1>1 DEF HandOver
    <2>2. IsArray(w.on)
      BY HandedOver
    <2>3. \E O : Taken(s, r, t, O) /\ MeetsWith(s, w.op, w.on, O)
      BY <1>1, <2>1, <2>2, TakeThemGood
    <2>. QED  BY <1>0, <2>3, TakenFades
  <1>2. CASE ~MayTake(s, w.op, w.on)
    <2>1. r = [s EXCEPT !.outcome = "verify"]
      BY <1>2 DEF HandOver
    <2>2. SameWaits(s, r) /\ r.owner = s.owner /\ r.count = s.count /\ r.state = s.state
      BY <2>1 DEF SameWaits, Good, State
    <2>. QED  BY <1>0, <1>2, <2>2, AlikeFades
  <1>. QED  BY <1>1, <1>2

\* Whoever is unparked, nothing comes for the others.
LEMMA UnparkFades ==
    ASSUME NEW s, Good(s), NEW t \in Thread, s.wait[t].parked,
           s.wait[t].op = "join" => s.wait[t].on[1] \in s.finished
    PROVE  /\ Good(Unpark(s, t)) /\ Fades(s, Unpark(s, t))
           /\ ~Unpark(s, t).wait[t].parked
  <1>. DEFINE w == s.wait[t]
              r == Unpark(s, t)
  <1>0. w \in Waits /\ w.parked
    BY DEF Good, State
  <1>1. Good(r) /\ UnparkIs(s, r, t, w)
    BY UnparkGood, UnparkIsSo DEF Woken
  <1>. HIDE DEF r
  <1>2. CASE HandsOver(w)
    <2>1. PICK q : Good(q) /\ NowWaits(s, q, t, Idle) /\ r = HandOver(q, t, w)
      BY <1>1, <1>2 DEF UnparkIs
    <2>2. w.op # "lock"
      BY <1>2 DEF HandsOver
    <2>3. Fades(s, q)
      BY <2>1, <2>2, IdleFacts, LeaveFades
    <2>4. q.wait[t] = Idle
      BY <2>1 DEF NowWaits
    <2>5. Good(r) /\ Fades(q, r)
      BY <1>0, <1>2, <2>1, <2>4, HandOverTakes
    <2>6. Fades(s, r)
      BY <2>1, <2>3, <2>5, FadesTransitive
    <2>7. ~r.wait[t].parked
      <3>1. r.wait[t].parked => r.wait[t] = Idle
        BY <2>4, <2>5 DEF Fades
      <3>. QED  BY <3>1, IdleFacts
    <2>. QED  BY <2>5, <2>6, <2>7 DEF r
  <1>3. CASE ~HandsOver(w)
    <2>1. PICK v : NowWaits(s, r, t, v) /\ v.op = w.op /\ v.on = w.on /\ ~v.parked
      BY <1>1, <1>3 DEF UnparkIs
    <2>2. Fades(s, r)
      BY <2>1, LeaveFades
    <2>3. ~r.wait[t].parked
      BY <2>1 DEF NowWaits
    <2>. QED  BY <1>1, <2>2, <2>3 DEF r
  <1>. QED  BY <1>2, <1>3

\* Who waits for what has come just now takes that: nothing before it in the array
\* had come, but for locks others are to have.
LEMMA FirstIsFresh ==
    ASSUME NoLockFirst, NEW w \in Waits, w.parked, HandsOver(w), NEW s, NEW q,
           \A p : is_signaled(q, p) = is_signaled(s, p),
           NEW o \in Mutex \cup Semaphore \cup (Event \ ManualReset), is_signaled(s, o),
           NEW k \in DOMAIN w.on, w.on[k] = o, ~CanGo(s, w, {o}),
           NEW O, MeetsWith(q, w.op, w.on, O)
    PROVE  o \in O
  <1>1. CASE w.op = "wait_all"
    BY <1>1 DEF MeetsWith, ToSet
  <1>2. CASE w.op # "wait_all"
    <2>1. PICK i \in DOMAIN w.on : /\ O = {w.on[i]} /\ is_signaled(q, w.on[i])
                                  /\ \A j \in 1 .. i - 1 : ~is_signaled(q, w.on[j])
      BY <1>2 DEF MeetsWith
    <2>2. /\ DOMAIN w.on = 1 .. Len(w.on) /\ Len(w.on) \in Nat /\ IsInjective(w.on)
          /\ w.on[i] \in ToSet(w.on)
      BY HandedOver DEF IsArray, ToSet
    <2>3. i <= k
      <3>. SUFFICES ASSUME ~(i <= k) PROVE FALSE
        OBVIOUS
      <3>1. k \in 1 .. i - 1
        BY <2>2
      <3>. QED  BY <2>1, <3>1
    <2>4. ASSUME i < k PROVE FALSE
      <3>1. w.on[i] # o
        BY <2>2, <2>4 DEF IsInjective
      <3>2. ~Come(s, w.on[i])
        BY <1>2, <2>2, <3>1 DEF CanGo, HandsOver
      <3>3. w.on[i] \in Mutex
        BY <2>1, <3>2 DEF Come
      <3>4. w.op = "wait_any"
        <4>1. ASSUME w.op = "wait" PROVE FALSE
          <5>1. PICK p : w.on = <<p>>
            BY <4>1, IdleFacts DEF Waits, Sensible
          <5>2. i = 1 /\ k = 1
            BY <5>1
          <5>. QED  BY <2>4, <5>2
        <4>. QED  BY <1>2, <4>1 DEF HandsOver
      <3>5. w.on \in WaitArrays
        BY <3>4, IdleFacts DEF Waits, Sensible
      <3>6. o \in ManualReset \cup Thread
        BY <2>4, <3>3, <3>5 DEF NoLockFirst
      <3>. QED  BY <3>6, KindAssumption
    <2>5. i = k
      BY <2>2, <2>3, <2>4
    <2>. QED  BY <2>1, <2>5
  <1>. QED  BY <1>1, <1>2

\* Whoever of those who wait for a lock, a semaphore or an auto-reset event takes it,
\* or will.
LEMMA UnparkServes ==
    ASSUME NoLockFirst, NEW s, Good(s),
           NEW o \in Mutex \cup Semaphore \cup (Event \ ManualReset), is_signaled(s, o),
           NoneInVain(s, {o}), NEW u \in ToSet(s.ws[Main(o)]),
           Removable(s, u), NEW r, r = Unpark(s, u)
    PROVE  /\ Good(r) /\ Fades(s, r)
           /\ o \in Mutex => ~Come(r, o)
           /\ o \in RwLock => ~ReadersMay(r, o)
           /\ o \in Event => ~r.state[o]
           /\ o \in Semaphore => r.count[o] = s.count[o] - 1
  <1>. DEFINE w == s.wait[u]
  <1>0. o \in Object \ CondVar /\ o \notin Thread /\ Main(o) \in WaitsetId
    BY KindAssumption DEF Object, WaitsetId
  <1>1. u \in Thread /\ w.parked /\ Main(o) \in Waitsets(w) /\ w \in Waits
    BY <1>0, Waiters
  <1>2. w.op # "condvar" /\ \E i \in DOMAIN w.on : w.on[i] = o
    BY <1>0, <1>1, MainWait
  <1>3. PICK k \in DOMAIN w.on : w.on[k] = o
    BY <1>2
  <1>4. w.op # "lock_shared"
    BY <1>1 DEF Waitsets, Main, Readers
  <1>5. w.op # "join"
    BY <1>0, <1>1, <1>3, IdleFacts DEF Waits, Sensible
  <1>6. Good(r) /\ Fades(s, r) /\ UnparkIs(s, r, u, w)
    BY <1>1, <1>5, UnparkFades, UnparkIsSo
  <1>7. ~CanGo(s, w, {o})
    BY <1>1 DEF NoneInVain
  <1>. HIDE DEF w
  <1>10. w.op = "lock" \/ HandsOver(w)
    BY <1>1, <1>2, <1>4, <1>5, IdleFacts DEF Waits, Sensible, HandsOver
  <1>8. CASE w.op = "lock"
    <2>1. PICK v : NowWaits(s, r, u, v) /\ v.op = w.op /\ v.on = w.on /\ ~v.parked
      BY <1>6, <1>8 DEF UnparkIs, HandsOver
    <2>2. w.on = <<o>> /\ o \in Mutex
      <3>1. w.on = <<w.on[1]>> /\ w.on[1] \in Mutex
        BY <1>1, <1>8, WaitObjects
      <3>2. k = 1
        BY <3>1
      <3>. QED  BY <1>3, <3>1, <3>2
    <2>3. Claimed(r, o)
      BY <1>1, <1>8, <2>1, <2>2 DEF Claimed, NowWaits
    <2>4. ~Come(r, o) /\ ~ReadersMay(r, o)
      BY <2>2, <2>3 DEF Come, ReadersMay
    <2>. QED  BY <1>6, <2>2, <2>4, KindAssumption
  <1>9. CASE HandsOver(w)
    <2>1. PICK q : Good(q) /\ NowWaits(s, q, u, Idle) /\ r = HandOver(q, u, w)
      BY <1>6, <1>9 DEF UnparkIs
    <2>2. \A p : is_signaled(q, p) = is_signaled(s, p)
      BY <2>1, SignaledAlike
    <2>3. q.wait[u] = Idle /\ q.count = s.count
      BY <1>1, <2>1 DEF NowWaits, SameCounts
    <2>4. MayTake(q, w.op, w.on) => \E O : Taken(q, r, u, O) /\ MeetsWith(q, w.op, w.on, O)
      BY <1>1, <1>9, <2>1, <2>3, HandOverTakes
    <2>5. MayTake(q, w.op, w.on)
      BY <1>3, <2>2 DEF MayTake, AllSignaled, Removable, w
    <2>6. PICK O : Taken(q, r, u, O) /\ MeetsWith(q, w.op, w.on, O)
      BY <2>4, <2>5
    <2>7. o \in O
      BY <1>0, <1>1, <1>3, <1>7, <1>9, <2>2, <2>6, FirstIsFresh
    <2>8. o \notin RwLock
      BY <1>1, <1>3, <1>9, WaitObjects DEF HandsOver, ToSet
    <2>9. u # Free
      BY <1>1, KindAssumption
    <2>10. o \in Mutex => ~Come(r, o)
      <3>1. o \in Mutex => r.owner[o] = u
        BY <2>6, <2>7 DEF Taken
      <3>. QED  BY <1>0, <2>9, <3>1, SignaledKinds DEF Come
    <2>11. o \in Event => ~r.state[o]
      <3>1. o \in Event => o \in Event \ ManualReset
        BY KindAssumption
      <3>. QED  BY <2>6, <2>7, <3>1 DEF Taken
    <2>12. o \in Semaphore => r.count[o] = s.count[o] - 1
      BY <2>3, <2>6, <2>7 DEF Taken
    <2>. QED  BY <1>6, <2>8, <2>10, <2>11, <2>12
  <1>. QED  BY <1>8, <1>9, <1>10

\* When only threads are left at o that wait for more, and no readers that may
\* go on, it is as if o had not come just now.
LEMMA LeftAlone ==
    ASSUME NEW s, Good(s), NEW o \in Object \ CondVar, NoneInVain(s, {o}),
           \A t \in Thread : WaitsIn(s.wait[t], Main(o)) =>
               s.wait[t].op = "wait_all" /\ ~AllSignaled(s, s.wait[t].on),
           o \in RwLock /\ ReadersMay(s, o) => \A t \in Thread : ~WaitsIn(s.wait[t], Readers(o))
    PROVE  NoneInVain(s, {})
  <1>. SUFFICES ASSUME NEW t \in Thread, s.wait[t].parked, CanGo(s, s.wait[t], {}) PROVE FALSE
    BY DEF NoneInVain
  <1>. DEFINE w == s.wait[t]
  <1>1. w \in Waits /\ ~CanGo(s, w, {o})
    BY DEF Good, State, NoneInVain
  <1>2. CASE w.op = "lock_shared"
    <2>1. w.on[1] = o /\ o \in RwLock /\ ReadersMay(s, o)
      BY <1>1, <1>2, WaitObjects DEF CanGo
    <2>2. WaitsIn(w, Readers(o))
      BY <1>2, <2>1 DEF WaitsIn, Waitsets
    <2>. QED  BY <2>1, <2>2
  <1>3. CASE w.op # "lock_shared"
    <2>1. o \in ToSet(w.on) /\ w.op # "condvar"
      BY <1>1, <1>3 DEF CanGo
    <2>2. WaitsIn(w, Main(o))
      BY <1>3, <2>1 DEF WaitsIn, Waitsets
    <2>3. w.op = "wait_all" /\ ~AllSignaled(s, w.on)
      BY <2>2
    <2>4. AllSignaled(s, w.on)
      BY <2>3 DEF CanGo, Come, AllSignaled, ToSet
    <2>. QED  BY <2>3, <2>4
  <1>. QED  BY <1>2, <1>3

\* Nobody can be removed from a waitset where only such threads are.
LEMMA NobodyRemoved ==
    ASSUME NEW s, Good(s), NEW id \in WaitsetId, UnparkOne(s, id) = {}, NEW t \in Thread,
           WaitsIn(s.wait[t], id)
    PROVE  s.wait[t].op = "wait_all" /\ ~AllSignaled(s, s.wait[t].on)
  <1>1. t \in ToSet(s.ws[id])
    BY DEF Good, Linked
  <1>. QED  BY <1>1 DEF UnparkOne, Removable

\* The joins there are over.
LEMMA JoinsOver ==
    ASSUME NEW s, Good(s), NEW id \in WaitsetId, Endable(s, id), NEW u \in Thread,
           WaitsIn(s.wait[u], id)
    PROVE  s.wait[u].op = "join" => s.wait[u].on[1] \in s.finished
  <1>. DEFINE w == s.wait[u]
  <1>1. w \in Waits /\ w.parked /\ id \in Waitsets(w)
    BY DEF Good, State, WaitsIn
  <1>. HIDE DEF w
  <1>. SUFFICES ASSUME w.op = "join" PROVE w.on[1] \in s.finished
    BY DEF w
  <1>2. PICK p \in Thread : w.on = <<p>>
    BY <1>1, IdleFacts DEF Waits, Sensible
  <1>3. ToSet(w.on) = {p} /\ w.on[1] = p
    BY <1>2 DEF ToSet
  <1>4. id = Main(p)
    BY <1>1, <1>3 DEF Waitsets
  <1>. QED  BY <1>3, <1>4 DEF Endable

\* Whoever is woken, nothing comes for the others.
LEMMA UnparkOneFades ==
    ASSUME NEW s, Good(s), NEW id \in WaitsetId, Endable(s, id), NEW r \in TryUnparkOne(s, id)
    PROVE  Good(r) /\ Fades(s, r)
  <1>1. CASE r \in UnparkOne(s, id)
    <2>1. PICK u \in ToSet(s.ws[id]) : r = Unpark(s, u)
      BY <1>1 DEF UnparkOne
    <2>2. u \in Thread /\ WaitsIn(s.wait[u], id)
      BY Waiters DEF WaitsIn
    <2>3. s.wait[u].op = "join" => s.wait[u].on[1] \in s.finished
      BY <2>2, JoinsOver
    <2>. QED  BY <2>1, <2>2, <2>3, UnparkFades DEF WaitsIn
  <1>2. CASE r = s
    BY <1>2, FadesItself
  <1>. QED  BY <1>1, <1>2 DEF TryUnparkOne

\* Who waits for all of its objects waits on when nothing comes.
LEMMA StillWaits ==
    ASSUME NEW a, Good(a), NEW b, Fades(a, b), NEW u \in Thread, a.wait[u].parked,
           a.wait[u].op = "wait_all", ~AllSignaled(a, a.wait[u].on)
    PROVE  ~AllSignaled(b, a.wait[u].on)
  <1>. DEFINE w == a.wait[u]
  <1>1. w \in Waits /\ ToSet(w.on) \subseteq Object \ CondVar
    <2>1. w \in Waits
      BY DEF Good, State
    <2>. QED  BY <2>1, WaitObjects
  <1>2. PICK i \in DOMAIN w.on : ~is_signaled(a, w.on[i])
    BY DEF AllSignaled
  <1>3. w.on[i] \in Object \ CondVar
    BY <1>1 DEF ToSet
  <1>4. ~is_signaled(b, w.on[i])
    BY <1>2, <1>3 DEF Fades
  <1>. QED  BY <1>4 DEF AllSignaled

\* Who is in a waitset when all there are unparked either goes on or waits for more.
LEMMA UnparkAllServes ==
    ASSUME NEW s, Good(s), NEW id \in WaitsetId, Endable(s, id), NEW r, r = unpark_all(s, id)
    PROVE  /\ Good(r) /\ Fades(s, r)
           /\ \A t \in Thread : WaitsIn(r.wait[t], id) =>
                  r.wait[t].op = "wait_all" /\ ~AllSignaled(r, r.wait[t].on)
  <1>. DEFINE q == s.ws[id]
              m == Len(q)
  <1>0. m \in Nat /\ DOMAIN q = 1 .. m /\ q \in Seq(Thread) /\ IsInjective(q)
    <2>1. q \in Seq(Thread)
      BY DEF Good, State
    <2>. QED  BY <2>1 DEF Good, Linked
  <1>1. PICK g : /\ r = g[m]
                 /\ g[0] = s
                 /\ \A n \in 1 .. m : g[n] = TryUnpark(g[n - 1], q[n])
    BY <1>0, UnparkAllUnparks
  <1>2. \A t \in Thread : WaitsIn(s.wait[t], id) => \E j \in 1 .. m : q[j] = t
    <2>1. \A t \in Thread : WaitsIn(s.wait[t], id) => t \in ToSet(q)
      BY DEF Good, Linked
    <2>. QED  BY <1>0, <2>1 DEF ToSet
  <1>3. \A j \in 1 .. m : q[j] \in Thread /\ WaitsIn(s.wait[q[j]], id)
    <2>1. \A j \in 1 .. m : q[j] \in ToSet(q)
      BY <1>0 DEF ToSet
    <2>. QED  BY <2>1, Waiters DEF WaitsIn
  <1>. HIDE DEF q
  <1>. DEFINE Over(x, u) == WaitsIn(x.wait[u], id) =>
                  x.wait[u].op = "wait_all" /\ ~AllSignaled(x, x.wait[u].on)
              T == {n \in 0 .. m : /\ Good(g[n]) /\ Fades(s, g[n]) /\ Endable(g[n], id)
                                   /\ \A j \in 1 .. n : Over(g[n], q[j])
                                   /\ \A j \in n + 1 .. m : g[n].wait[q[j]] = s.wait[q[j]]}
  <1>4. 0 \in T
    BY <1>0, <1>1, FadesItself
  <1>5. ASSUME NEW n \in 0 .. m, n \in T, n < m PROVE n + 1 \in T
    <2>. DEFINE u == q[n + 1]
                a == g[n]
                b == g[n + 1]
    <2>0. n + 1 \in 1 .. m /\ n + 1 - 1 = n 
      BY <1>0, <1>5
    <2>3. b = TryUnpark(a, u)
      BY <1>1, <2>0
    <2>4. /\ Good(a) /\ Fades(s, a) /\ Endable(a, id)
          /\ \A j \in 1 .. n : Over(a, q[j])
          /\ \A j \in n + 1 .. m : a.wait[q[j]] = s.wait[q[j]]
      BY <1>5
    <2>. HIDE DEF u, a, b
    <2>1. u \in Thread /\ WaitsIn(a.wait[u], id)
      <3>1. n + 1 \in n + 1 .. m
        BY <1>0, <2>0
      <3>. QED  BY <1>3, <2>0, <2>4, <3>1 DEF u
    <2>2. u \in ToSet(a.ws[id])
      BY <2>1, <2>4 DEF Good, Linked
    <2>5. Good(b) /\ Fades(a, b) /\ Spares({u}, a, b) /\ Over(b, u)
      <3>1. CASE Removable(a, u)
        <4>1. b = Unpark(a, u)
          BY <2>3, <3>1 DEF TryUnpark
        <4>2. Good(b) /\ Fades(a, b) /\ ~b.wait[u].parked
          BY <2>1, <2>4, <4>1, JoinsOver, UnparkFades DEF WaitsIn
        <4>3. Spares({u}, a, b)
          BY <2>2, <2>4, <3>1, <4>1, UnparkFrom DEF Woken
        <4>. QED  BY <4>2, <4>3 DEF WaitsIn
      <3>2. CASE ~Removable(a, u)
        <4>1. b = a
          BY <2>3, <3>2 DEF TryUnpark
        <4>. QED  BY <2>4, <3>2, <4>1, FadesItself, SparesItself DEF Removable
      <3>. QED  BY <3>1, <3>2
    <2>6. ASSUME NEW j \in 1 .. n PROVE Over(b, q[j])
      <3>1. q[j] \in Thread
        BY <1>3, <2>0
      <3>2. CASE WaitsIn(b.wait[q[j]], id)
        <4>1. b.wait[q[j]] = a.wait[q[j]]
          BY <2>5, <3>1, <3>2 DEF Fades, WaitsIn
        <4>2. a.wait[q[j]].op = "wait_all" /\ ~AllSignaled(a, a.wait[q[j]].on)
          BY <2>4, <3>2, <4>1
        <4>3. a.wait[q[j]].parked
          BY <3>2, <4>1 DEF WaitsIn
        <4>4. ~AllSignaled(b, a.wait[q[j]].on)
          BY <2>4, <2>5, <3>1, <4>2, <4>3, StillWaits
        <4>. QED  BY <4>1, <4>2, <4>4
      <3>. QED  BY <3>2
    <2>7. \A j \in 1 .. n + 1 : Over(b, q[j])
      <3>. SUFFICES ASSUME NEW j \in 1 .. n + 1 PROVE Over(b, q[j])
        OBVIOUS
      <3>1. j \in 1 .. n \/ j = n + 1
        BY <1>0
      <3>. HIDE DEF Over
      <3>. QED  BY <2>5, <2>6, <3>1 DEF u
    <2>8. Fades(s, b)
      BY <2>4, <2>5, FadesTransitive
    <2>9. n + 1 \in 0 .. m
      BY <1>0, <2>0
    <2>10. Endable(b, id)
      BY <2>4, <2>5, SteadyStays
    <2>11. ASSUME NEW j \in n + 2 .. m PROVE b.wait[q[j]] = s.wait[q[j]]
      <3>1. j \in 1 .. m /\ j \in n + 1 .. m /\ j # n + 1
        BY <1>0, <2>0
      <3>2. q[j] \in Thread /\ q[j] # u
        BY <1>0, <1>3, <2>0, <3>1 DEF IsInjective, u
      <3>. QED  BY <2>4, <2>5, <3>1, <3>2 DEF Spares
    <2>12. n + 1 + 1 = n + 2
      BY <1>0
    <2>. QED  BY <2>5, <2>7, <2>8, <2>9, <2>10, <2>11, <2>12 DEF b
  <1>6. m \in T
    <2>. HIDE DEF T
    <2>1. 0 .. m \subseteq T
      BY <1>0, <1>4, <1>5, UpTo
    <2>. QED  BY <1>0, <2>1
  <1>7. ASSUME NEW t \in Thread, WaitsIn(r.wait[t], id) PROVE Over(r, t)
    <2>1. r.wait[t] = s.wait[t]
      BY <1>1, <1>6, <1>7 DEF Fades, WaitsIn
    <2>2. PICK j \in 1 .. m : q[j] = t
      BY <1>2, <1>7, <2>1
    <2>. QED  BY <1>1, <1>6, <2>2
  <1>. QED  BY <1>1, <1>6, <1>7

\* To wait for less is not to wait for more.
LEMMA MoreFresh ==
    ASSUME NEW s, NEW X, NEW Y, X \subseteq Y, NoneInVain(s, X)
    PROVE  NoneInVain(s, Y)
  BY DEF NoneInVain, CanGo

\* Who takes what has come leaves less to the others.
LEMMA TakeServes ==
    ASSUME NEW s, Good(s), NEW t \in Thread, s.wait[t] = Idle, NEW o \in Object \ CondVar,
           is_signaled(s, o), NEW X, NoneInVain(s, X), NEW r, r = Take(s, t, o)
    PROVE  Good(r) /\ Fades(s, r) /\ NoneInVain(r, X)
  <1>1. Good(r) /\ Taken(s, r, t, {o})
    BY TakeGood
  <1>2. Fades(s, r)
    BY <1>1, TakenFades
  <1>. QED  BY <1>1, <1>2, FadesKeeps

\* Who parks does not wait for what has come, and is no news to the others.
LEMMA ParkServes ==
    ASSUME NEW s, Good(s), NEW t \in Thread, s.wait[t] = Idle, NEW w \in Waits, w.parked,
           MayWait(s, t, w), NEW X, ~CanGo(s, w, X), NoneInVain(s, X), NEW r, r = Park(s, t, w)
    PROVE  Good(r) /\ NoneInVain(r, X) /\ NowWaits(s, r, t, w)
  <1>1. Good(r) /\ NowWaits(s, r, t, w)
    BY ParkGood
  <1>2. \A u \in Thread : r.wait[u] = IF u = t THEN w ELSE s.wait[u]
    BY <1>1 DEF NowWaits
  <1>3. r.owner = s.owner /\ \A o : is_signaled(r, o) = is_signaled(s, o)
    BY <1>1, SignaledAlike DEF NowWaits, SameLocks
  <1>4. \A m : Claimed(r, m) <=> Claimed(s, m)
    BY <1>2 DEF Claimed, Idle
  <1>5. \A o : Come(r, o) => Come(s, o)
    BY <1>3, <1>4 DEF Come
  <1>6. ASSUME NEW m \in RwLock, ReadersMay(r, m) PROVE ReadersMay(s, m)
    <2>1. s.wait[t].op # "lock"
      BY DEF Idle
    <2>2. \A u \in Thread : s.wait[u].op = "lock" => r.wait[u] = s.wait[u]
      BY <1>2, <2>1
    <2>3. SharedFree(r, m)
      BY <1>6 DEF ReadersMay
    <2>4. /\ r.owner[m] = Free \/ r.owner[m] = Shared
          /\ r.owner[m] # Free => \A u \in Thread :
                 ~(r.wait[u].parked /\ r.wait[u].op = "lock" /\ r.wait[u].on = <<m>>)
      BY <1>1, <2>3, SharedFreeIs
    <2>5. s.owner[m] # Free => \A u \in Thread :
              ~(s.wait[u].parked /\ s.wait[u].op = "lock" /\ s.wait[u].on = <<m>>)
      <3>. SUFFICES ASSUME s.owner[m] # Free, NEW u \in Thread, s.wait[u].op = "lock"
                    PROVE  ~(s.wait[u].parked /\ s.wait[u].on = <<m>>)
        OBVIOUS
      <3>1. r.wait[u] = s.wait[u]
        BY <2>2
      <3>. QED  BY <1>3, <2>4, <3>1
    <2>6. SharedFree(s, m)
      BY <1>3, <2>4, <2>5, SharedFreeIs
    <2>. QED  BY <1>4, <1>6, <2>6 DEF ReadersMay
  <1>7. NoneInVain(r, X)
    <2>. SUFFICES ASSUME NEW u \in Thread, r.wait[u].parked, CanGo(r, r.wait[u], X) PROVE FALSE
      BY DEF NoneInVain
    <2>1. r.wait[u] \in Waits
      BY <1>1 DEF Good, State
    <2>2. CanGo(s, r.wait[u], X)
      BY <1>5, <1>6, <2>1, CanGoLess
    <2>. QED  BY <1>2, <2>2 DEF NoneInVain
  <1>. QED  BY <1>1, <1>7

\* LockOrPark serves m, if m has just come for others.
LEMMA LockOrParkServes ==
    ASSUME NEW s, Good(s), NEW t \in Thread, s.wait[t] = Idle, NEW m \in Mutex,
           NoneInVain(s, {m}), NEW r, r = LockOrPark(s, t, m)
    PROVE  NoneInVain(r, {})
  <1>0. m \in Object \ CondVar
    BY KindAssumption DEF Object
  <1>1. CASE s.owner[m] = Free
    <2>1. r = Take(s, t, m) /\ is_signaled(s, m)
      BY <1>0, <1>1, SignaledKinds DEF LockOrPark
    <2>2. Good(r) /\ NoneInVain(r, {m})
      BY <1>0, <2>1, TakeServes
    <2>3. r.owner[m] = t /\ t \notin {Free, Shared}
      <3>1. Taken(s, r, t, {m})
        BY <1>0, <2>1, TakeGood
      <3>. QED  BY <3>1, KindAssumption DEF Taken
    <2>4. ~Come(r, m) /\ ~ReadersMay(r, m)
      BY <1>0, <2>3, SignaledKinds DEF Come, ReadersMay, SharedFree
    <2>. QED  BY <1>0, <2>2, <2>4, DropFresh
  <1>2. CASE s.owner[m] # Free
    <2>. DEFINE w == Wait("lock", <<m>>, FALSE)
    <2>1. r = Park(s, t, w)
      BY <1>2 DEF LockOrPark
    <2>2. w \in Waits
      BY ParkWaits
    <2>3. w.parked /\ w.op = "lock" /\ w.on = <<m>>
      BY DEF Wait
    <2>. HIDE DEF w
    <2>4. MayWait(s, t, w)
      BY <2>3 DEF MayWait
    <2>5. ~CanGo(s, w, {m})
      BY <2>3 DEF CanGo, ToSet
    <2>6. Good(r) /\ NoneInVain(r, {m}) /\ NowWaits(s, r, t, w)
      BY <2>1, <2>2, <2>3, <2>4, <2>5, ParkServes
    <2>7. r.owner[m] # Free /\ r.wait[t] = w
      BY <1>2, <2>6 DEF NowWaits, SameLocks
    <2>8. ~Come(r, m)
      BY <1>0, <2>7, SignaledKinds DEF Come
    <2>9. m \in RwLock => ~ReadersMay(r, m)
      BY <2>3, <2>6, <2>7, SharedFreeIs DEF ReadersMay
    <2>. QED  BY <1>0, <2>6, <2>8, <2>9, DropFresh
  <1>. QED  BY <1>1, <1>2

\* What an operation leaves, if the test goes on.
Serves(r) == r.outcome = "none" => NoneInVain(r, {})

\* lock_exclusive serves all.
LEMMA LockExclusiveServes ==
    ASSUME NEW s, Good(s), NEW t \in Thread, s.wait[t] = Idle, NEW m \in Mutex,
           s.owner[m] = t => s.recursion[m] < MaxRecursion[m],
           NoneInVain(s, {}), NEW r, r = lock_exclusive(s, t, m)
    PROVE  Serves(r)
  <1>0. Good(r) /\ s \in State
    BY LockExclusiveGood DEF Fine, Good
  <1>1. CASE s.owner[m] = Shared /\ s.shared_owner[m][t] > 0
    <2>1. r = [s EXCEPT !.outcome = "mutex_read_to_write_upgrade"]
      BY <1>1 DEF lock_exclusive
    <2>2. r.outcome # "none"
      BY <1>0, <2>1 DEF State
    <2>. QED  BY <2>2 DEF Serves
  <1>2. CASE ~(s.owner[m] = Shared /\ s.shared_owner[m][t] > 0) /\ s.owner[m] # t
    <2>1. NoneInVain(s, {m})
      BY MoreFresh
    <2>2. r = LockOrPark(s, t, m)
      BY <1>2 DEF lock_exclusive
    <2>. QED  BY <2>1, <2>2, LockOrParkServes DEF Serves
  <1>3. CASE ~(s.owner[m] = Shared /\ s.shared_owner[m][t] > 0) /\ s.owner[m] = t /\ m \in Recursive
    <2>1. r = [s EXCEPT !.recursion[m] = s.recursion[m] + 1]
      BY <1>3 DEF lock_exclusive
    <2>2. SameWaits(s, r) /\ r.owner = s.owner /\ r.count = s.count /\ r.state = s.state
      BY <1>0, <2>1 DEF State, SameWaits
    <2>3. Fades(s, r)
      BY <2>2, AlikeFades
    <2>. QED  BY <1>0, <2>3, FadesKeeps DEF Serves
  <1>4. CASE /\ ~(s.owner[m] = Shared /\ s.shared_owner[m][t] > 0)
             /\ s.owner[m] = t /\ m \notin Recursive
    <2>1. r = [s EXCEPT !.outcome = "recursion_on_nonrecursive_mutex"]
      BY <1>4 DEF lock_exclusive
    <2>2. r.outcome # "none"
      BY <1>0, <2>1 DEF State
    <2>. QED  BY <2>2 DEF Serves
  <1>. QED  BY <1>1, <1>2, <1>3, <1>4

\* So does a reader that takes the lock or parks.
LEMMA LockSharedOrParkServes ==
    ASSUME NEW s, Good(s), NEW t \in Thread, s.wait[t] = Idle, NEW m \in RwLock,
           s.shared_owner[m][t] = 0, NoneInVain(s, {}), NEW r, r = LockSharedOrPark(s, t, m)
    PROVE  NoneInVain(r, {})
  <1>0. m \in Mutex /\ m \in Object \ CondVar /\ Good(r) /\ s \in State
    BY KindAssumption, LockSharedOrParkGood DEF Object, Fine, Good
  <1>1. CASE SharedFree(s, m)
    <2>. DEFINE q == Shares(s, t, m)
    <2>1. r = Took(acquire(q, t, m), t, m)
      BY <1>1 DEF LockSharedOrPark, Shares
    <2>2. /\ SameWaits(s, q) /\ q.owner = [s.owner EXCEPT ![m] = Shared]
          /\ q.count = s.count /\ q.state = s.state
      BY <1>0 DEF State, SameWaits, Shares
    <2>. HIDE DEF q
    <2>3. SameWaits(q, r) /\ r.owner = q.owner /\ r.count = q.count /\ r.state = q.state
      BY <2>1 DEF Took, acquire, SameWaits
    <2>4. r.owner[m] = Shared /\ \A x \in Mutex \ {m} : r.owner[x] = s.owner[x]
      BY <1>0, <2>2, <2>3 DEF State
    <2>5. s.owner[m] \in {Free, Shared} /\ Free # Shared
      BY <1>1, KindAssumption DEF SharedFree
    <2>6. ASSUME NEW o \in Object \ CondVar, is_signaled(r, o) PROVE is_signaled(s, o)
      <3>1. CASE o \in Mutex
        BY <2>4, <2>5, <2>6, <3>1, SignaledKinds
      <3>2. CASE o \notin Mutex
        BY <2>2, <2>3, <2>6, <3>2, SignaledKinds DEF Object, SameWaits
      <3>. QED  BY <3>1, <3>2
    <2>7. \A x \in RwLock : r.owner[x] = Shared => s.owner[x] \in {Free, Shared}
      BY <2>4, <2>5, KindAssumption
    <2>8. Fades(s, r)
      BY <2>2, <2>3, <2>6, <2>7 DEF Fades, Locks, SameWaits
    <2>. QED  BY <1>0, <2>8, FadesKeeps
  <1>2. CASE ~SharedFree(s, m)
    <2>. DEFINE w == Wait("lock_shared", <<m>>, FALSE)
    <2>1. r = Park(s, t, w)
      BY <1>2 DEF LockSharedOrPark
    <2>2. w \in Waits
      BY ParkWaits
    <2>3. w.parked /\ w.op = "lock_shared" /\ w.on = <<m>>
      BY DEF Wait
    <2>. HIDE DEF w
    <2>4. MayWait(s, t, w)
      BY <2>3 DEF MayWait
    <2>5. ~CanGo(s, w, {})
      BY <1>2, <2>3 DEF CanGo, ReadersMay
    <2>. QED  BY <2>1, <2>2, <2>3, <2>4, <2>5, ParkServes
  <1>. QED  BY <1>1, <1>2

\* And lock_shared.
LEMMA LockSharedServes ==
    ASSUME NEW s, Good(s), NEW t \in Thread, s.wait[t] = Idle, NEW m \in RwLock,
           s.owner[m] = Shared => s.shared_owner[m][t] < MaxRecursion[m],
           NoneInVain(s, {}), NEW r, r = lock_shared(s, t, m)
    PROVE  Serves(r)
  <1>0. m \in Mutex /\ s \in State /\ Good(r)
    BY KindAssumption, LockSharedGood DEF Good, Fine
  <1>1. CASE s.owner[m] = t
    <2>1. r = [s EXCEPT !.outcome = "mutex_write_to_read_upgrade"]
      BY <1>1 DEF lock_shared
    <2>2. r.outcome # "none"
      BY <1>0, <2>1 DEF State
    <2>. QED  BY <2>2 DEF Serves
  <1>2. CASE s.owner[m] # t /\ (s.owner[m] # Shared \/ s.shared_owner[m][t] = 0)
    <2>1. r = LockSharedOrPark(s, t, m)
      BY <1>2 DEF lock_shared
    <2>2. s.shared_owner[m][t] = 0
      <3>1. s.shared_owner[m][t] \in Nat
        BY <1>0, HeldFacts
      <3>2. s.owner[m] # Shared => ~(s.shared_owner[m][t] > 0)
        BY <1>0 DEF Good, Held
      <3>. QED  BY <1>2, <3>1, <3>2
    <2>. QED  BY <2>1, <2>2, LockSharedOrParkServes DEF Serves
  <1>3. CASE /\ s.owner[m] # t /\ s.owner[m] = Shared /\ s.shared_owner[m][t] # 0
             /\ m \in SharedRecursive
    <2>1. r = SharesMore(s, t, m)
      BY <1>3 DEF lock_shared, SharesMore
    <2>2. SameWaits(s, r) /\ r.owner = s.owner /\ r.count = s.count /\ r.state = s.state
      BY <1>0, <2>1 DEF State, SameWaits, SharesMore
    <2>3. Fades(s, r)
      BY <2>2, AlikeFades
    <2>. QED  BY <1>0, <2>3, FadesKeeps DEF Serves
  <1>4. CASE /\ s.owner[m] # t /\ s.owner[m] = Shared /\ s.shared_owner[m][t] # 0
             /\ m \notin SharedRecursive
    <2>1. r = [s EXCEPT !.outcome = "recursion_on_nonrecursive_mutex"]
      BY <1>4 DEF lock_shared
    <2>2. r.outcome # "none"
      BY <1>0, <2>1 DEF State
    <2>. QED  BY <2>2 DEF Serves
  <1>. QED  BY <1>1, <1>2, <1>3, <1>4

\* A lock that has been freed has come just now.
LEMMA FreedFresh ==
    ASSUME NEW s, Good(s), NoneInVain(s, {}), NEW m \in Mutex, NEW f, Good(f), SameWaits(s, f),
           f.count = s.count, f.state = s.state, \A x \in Mutex \ {m} : f.owner[x] = s.owner[x]
    PROVE  NoneInVain(f, {m})
  <1>1. ASSUME NEW p \in (Object \ CondVar) \ {m}, is_signaled(f, p) PROVE is_signaled(s, p)
    BY <1>1, SignaledKinds DEF Object, SameWaits
  <1>2. \A x \in RwLock \ {m} : f.owner[x] = s.owner[x]
    BY KindAssumption
  <1>3. f.wait = s.wait
    BY DEF SameWaits
  <1>. DEFINE X == {m}
           Y == {}
  <1>4. Y \subseteq X
    OBVIOUS
  <1>. QED  BY <1>1, <1>2, <1>3, <1>4, FreshKeeps

\* Who is woken for a lock, a semaphore or an auto-reset event takes it away from all
\* others; if it was nobody's, nobody waits for it.
LEMMA OneServed ==
    ASSUME NoLockFirst, NEW f, Good(f), NEW o \in Mutex \cup (Event \ ManualReset),
           is_signaled(f, o), NoneInVain(f, {o}), NEW r \in UnparkOne(f, Main(o))
    PROVE  NoneInVain(r, {})
  <1>0. o \in Object \ CondVar
    BY KindAssumption DEF Object
  <1>1. PICK u \in ToSet(f.ws[Main(o)]) : Removable(f, u) /\ r = Unpark(f, u)
    BY DEF UnparkOne
  <1>2. /\ Good(r) /\ Fades(f, r)
        /\ o \in Mutex => ~Come(r, o)
        /\ o \in RwLock => ~ReadersMay(r, o)
        /\ o \in Event => ~r.state[o]
    BY <1>1, UnparkServes
  <1>3. NoneInVain(r, {o})
    BY <1>2, FadesKeeps
  <1>4. ~Come(r, o)
    BY <1>0, <1>2, SignaledKinds DEF Come
  <1>. QED  BY <1>0, <1>2, <1>3, <1>4, DropFresh

\* unlock_exclusive serves all.
LEMMA UnlockExclusiveServes ==
    ASSUME NoLockFirst, NEW s, Good(s), NEW t \in Thread, s.wait[t] = Idle, NEW m \in Mutex,
           NoneInVain(s, {}), NEW r \in unlock_exclusive(s, t, m)
    PROVE  Serves(r)
  <1>0. Good(r) /\ s \in State /\ m \in Object \ CondVar
    BY UnlockExclusiveGood, KindAssumption DEF Fine, Good, Object
  <1>1. CASE s.owner[m] # t
    <2>1. r = [s EXCEPT !.outcome = "unlocking_mutex_wo_ownership"]
      BY <1>1 DEF unlock_exclusive
    <2>2. r.outcome # "none"
      BY <1>0, <2>1 DEF State
    <2>. QED  BY <2>2 DEF Serves
  <1>2. CASE s.owner[m] = t /\ s.recursion[m] > 1
    <2>1. r = [s EXCEPT !.recursion[m] = s.recursion[m] - 1]
      BY <1>2 DEF unlock_exclusive
    <2>2. SameWaits(s, r) /\ r.owner = s.owner /\ r.count = s.count /\ r.state = s.state
      BY <1>0, <2>1 DEF State, SameWaits
    <2>3. Fades(s, r)
      BY <2>2, AlikeFades
    <2>. QED  BY <1>0, <2>3, FadesKeeps DEF Serves
  <1>3. CASE s.owner[m] = t /\ ~(s.recursion[m] > 1)
    <2>. DEFINE q == [s EXCEPT !.recursion[m] = 0, !.owner[m] = Free]
                f == Signal(q, t, m)
                woken == UnparkOne(f, Main(m))
    <2>1. Good(q) /\ NowHeld(s, q, m, Free, 0, s.shared_owner[m], s.shared_lock_count[m])
      BY <1>3, FreeGood
    <2>2. IF woken # {} THEN r \in woken
          ELSE r = IF m \in RwLock THEN unpark_all(f, Readers(m)) ELSE f
      BY <1>3 DEF unlock_exclusive
    <2>. HIDE DEF q
    <2>3. Good(f) /\ NewsOnly(q, f)
      BY <1>0, <2>1, SyncNews, NewsOnlyGood DEF Good
    <2>. HIDE DEF f
    <2>4. /\ f.owner[m] = Free /\ SameWaits(s, f) /\ f.count = s.count /\ f.state = s.state
          /\ \A x \in Mutex \ {m} : f.owner[x] = s.owner[x]
      BY <2>1, <2>3 DEF NowHeld, NewsOnly, SameWaits, SameCounts
    <2>5. NoneInVain(f, {m}) /\ is_signaled(f, m)
      BY <1>0, <2>3, <2>4, FreedFresh, SignaledKinds
    <2>6. Main(m) \in WaitsetId
      BY LockWaitsets
    <2>7. CASE woken # {}
      BY <2>2, <2>3, <2>5, <2>7, OneServed DEF Serves
    <2>8. CASE woken = {} /\ m \notin RwLock
      <3>1. NoneInVain(f, {})
        BY <1>0, <2>3, <2>5, <2>6, <2>8, NobodyRemoved, LeftAlone
      <3>. QED  BY <2>2, <2>8, <3>1 DEF Serves
    <2>9. CASE woken = {} /\ m \in RwLock
      <3>1. r = unpark_all(f, Readers(m))
        BY <2>2, <2>9
      <3>2. /\ Fades(f, r)
            /\ \A u \in Thread : WaitsIn(r.wait[u], Readers(m)) => r.wait[u].op = "wait_all"
        BY <2>3, <2>9, <3>1, LockWaitsets, UnparkAllServes
      <3>3. NoneInVain(r, {m})
        BY <1>0, <2>3, <2>5, <3>2, FadesKeeps
      <3>4. \A u \in Thread : ~WaitsIn(r.wait[u], Readers(m))
        <4>1. \A u \in Thread : r.wait[u] \in Waits
          BY <1>0 DEF Good, State
        <4>. QED  BY <2>9, <3>2, <4>1, ReadersWait DEF WaitsIn
      <3>5. ASSUME NEW u \in Thread, WaitsIn(r.wait[u], Main(m))
            PROVE  r.wait[u].op = "wait_all" /\ ~AllSignaled(r, r.wait[u].on)
        <4>1. r.wait[u] = f.wait[u]
          BY <3>2, <3>5 DEF Fades, WaitsIn
        <4>2. f.wait[u].op = "wait_all" /\ ~AllSignaled(f, f.wait[u].on)
          BY <2>3, <2>6, <2>9, <3>5, <4>1, NobodyRemoved
        <4>. QED  BY <2>3, <3>2, <3>5, <4>1, <4>2, StillWaits DEF WaitsIn
      <3>6. NoneInVain(r, {})
        BY <1>0, <3>3, <3>4, <3>5, LeftAlone
      <3>. QED  BY <3>6 DEF Serves
    <2>. QED  BY <2>7, <2>8, <2>9
  <1>. QED  BY <1>1, <1>2, <1>3

\* unlock_shared: readers that wait do so for a writer, who then is woken.
LEMMA UnlockSharedServes ==
    ASSUME NoLockFirst, NEW s, Good(s), NEW t \in Thread, s.wait[t] = Idle, NEW m \in RwLock,
           NoneInVain(s, {}), NEW r \in unlock_shared(s, t, m)
    PROVE  Serves(r)
  <1>0. m \in Mutex /\ m \in Object \ CondVar /\ s.shared_owner[m][t] \in Nat /\ s \in State
    <2>1. m \in Mutex /\ m \in Object \ CondVar
      BY KindAssumption DEF Object
    <2>. QED  BY <2>1, HeldFacts
  <1>1. CASE s.owner[m] # Shared \/ s.shared_owner[m][t] = 0
    <2>1. r = [s EXCEPT !.outcome = "unlocking_mutex_wo_ownership"]
      BY <1>1 DEF unlock_shared
    <2>2. r.outcome # "none"
      BY <1>0, <2>1 DEF State
    <2>. QED  BY <2>2 DEF Serves
  <1>2. CASE s.owner[m] = Shared /\ s.shared_owner[m][t] # 0
    <2>. DEFINE last == SharesLess(s, t, m).shared_lock_count[m] = 0
                left == Unread(s, t, m)
                freed == Freed(left, m)
    <2>5. IF last THEN r \in TryUnparkOne(freed, Main(m)) ELSE r = left
      BY <1>2 DEF unlock_shared, SharesLess, Freed, Unread
    <2>1. PICK g, f : /\ g = Unread(s, t, m) /\ f = Freed(g, m)
                      /\ IF last THEN r \in TryUnparkOne(f, Main(m)) ELSE r = g
      <3>. HIDE DEF left, freed
      <3>1. left = Unread(s, t, m) /\ freed = Freed(left, m)
        BY DEF left, freed
      <3>. QED  BY <2>5, <3>1
    <2>0. s.shared_owner[m][t] > 0
      BY <1>0, <1>2
    <2>2. /\ IF last THEN Good(f) ELSE Good(g)
          /\ SameWaits(s, g) /\ g.owner = s.owner /\ g.count = s.count /\ g.state = s.state
          /\ SameWaits(s, f) /\ \A x \in Mutex \ {m} : f.owner[x] = s.owner[x]
          /\ f.count = s.count /\ f.state = s.state /\ f.owner[m] = Free
      BY <1>2, <2>0, <2>1, UnreadSignaled
    <2>. HIDE DEF last
    <2>3. CASE ~last
      <3>1. r = g /\ Good(r)
        BY <2>1, <2>2, <2>3
      <3>2. Fades(s, r)
        BY <2>2, <3>1, AlikeFades
      <3>. QED  BY <3>1, <3>2, FadesKeeps DEF Serves
    <2>4. CASE last
      <3>1. Good(f) /\ NoneInVain(f, {m}) /\ is_signaled(f, m)
        BY <1>0, <2>2, <2>4, FreedFresh, SignaledKinds
      <3>2. CASE r \in UnparkOne(f, Main(m))
        BY <1>0, <3>1, <3>2, OneServed DEF Serves
      <3>3. CASE UnparkOne(f, Main(m)) = {} /\ r = f
        <4>1. Main(m) \in WaitsetId
          BY <1>0, LockWaitsets
        <4>2. \A u \in Thread : WaitsIn(f.wait[u], Main(m)) =>
                  f.wait[u].op = "wait_all" /\ ~AllSignaled(f, f.wait[u].on)
          BY <3>1, <3>3, <4>1, NobodyRemoved
        <4>3. \A u \in Thread : s.wait[u] \in Waits /\ f.wait[u] = s.wait[u]
          BY <1>0, <2>2 DEF State, SameWaits
        <4>4. SharedFree(s, m)
          <5>1. \A u \in Thread : ~(s.wait[u].parked /\ s.wait[u].op = "lock" /\ s.wait[u].on = <<m>>)
            BY <4>2, <4>3, WritersWait DEF WaitsIn
          <5>. QED  BY <1>2, <5>1, SharedFreeIs
        <4>5. Claimed(f, m) <=> Claimed(s, m)
          BY <4>3 DEF Claimed
        <4>6. ASSUME ReadersMay(f, m), NEW u \in Thread, WaitsIn(f.wait[u], Readers(m)) PROVE FALSE
          <5>1. s.wait[u].parked /\ s.wait[u].op = "lock_shared"
            BY <4>3, <4>6, ReadersWait DEF WaitsIn
          <5>2. s.wait[u].on[1] = m
            BY <4>3, <4>6, <5>1 DEF WaitsIn, Waitsets, Readers
          <5>3. CanGo(s, s.wait[u], {})
            BY <4>4, <4>5, <4>6, <5>1, <5>2 DEF CanGo, ReadersMay
          <5>. QED  BY <5>1, <5>3 DEF NoneInVain
        <4>7. NoneInVain(f, {})
          BY <1>0, <3>1, <4>2, <4>6, LeftAlone
        <4>. QED  BY <3>3, <4>7 DEF Serves
      <3>. QED  BY <2>1, <2>4, <3>2, <3>3 DEF TryUnparkOne
    <2>. QED  BY <2>3, <2>4
  <1>. QED  BY <1>1, <1>2

\* An object whose count or state has changed may have come just now.
LEMMA ChangedFresh ==
    ASSUME NEW s, Good(s), NoneInVain(s, {}), NEW o \in Semaphore \cup Event, NEW q,
           \/ o \in Semaphore /\ \E c \in 0 .. MaxCount[o] : q = Counted(s, o, c)
           \/ o \in Event /\ \E b \in BOOLEAN : q = Switched(s, o, b),
           NEW f, NewsOnly(q, f)
    PROVE  Good(q) /\ Good(f) /\ NoneInVain(f, {o})
  <1>0. s \in State /\ o \notin Mutex /\ o \in Object \ CondVar
    BY KindAssumption DEF Good, Object
  <1>1. Good(q) /\ SameButCounts(s, q)
    BY CountGood, StateGood
  <1>2. Good(f)
    BY <1>1, NewsOnlyGood
  <1>3. ASSUME NEW p \in Semaphore \cup Event, p # o
        PROVE  /\ p \in Semaphore => q.count[p] = s.count[p]
               /\ p \in Event => q.state[p] = s.state[p]
    <2>1. CASE o \in Semaphore
      <3>1. PICK c \in 0 .. MaxCount[o] : q = Counted(s, o, c)
        BY <2>1, KindAssumption
      <3>2. q.state = s.state
        BY <1>0, <3>1 DEF State, Counted
      <3>3. p \in Semaphore => q.count[p] = s.count[p]
        BY <1>0, <1>3, <3>1 DEF State, Counted
      <3>. QED  BY <3>2, <3>3
    <2>2. CASE o \in Event
      <3>1. PICK b \in BOOLEAN : q = Switched(s, o, b)
        BY <2>2, KindAssumption
      <3>2. q.count = s.count
        BY <1>0, <3>1 DEF State, Switched
      <3>3. p \in Event => q.state[p] = s.state[p]
        BY <1>0, <1>3, <3>1 DEF State, Switched
      <3>. QED  BY <3>2, <3>3
    <2>. QED  BY <2>1, <2>2
  <1>4. /\ f.owner = s.owner /\ f.wait = s.wait /\ f.finished = s.finished
        /\ f.count = q.count /\ f.state = q.state
    BY <1>1 DEF NewsOnly, SameButCounts, SameWaits, SameLocks
  <1>5. ASSUME NEW p \in (Object \ CondVar) \ {o}, is_signaled(f, p) PROVE is_signaled(s, p)
    BY <1>3, <1>4, <1>5, SignaledKinds DEF Object
  <1>. DEFINE X == {o}
              Y == {}
  <1>6. Y \subseteq X
    OBVIOUS
  <1>7. \A m \in RwLock \ X : f.owner[m] = s.owner[m]
    BY <1>4
  <1>. QED  BY <1>1, <1>2, <1>4, <1>5, <1>6, <1>7, FreshKeeps

\* Up to n threads are woken, one for each unit there is.
LEMMA UnparkUpToServes ==
    ASSUME NoLockFirst, NEW s, Good(s), NEW o \in Semaphore, NEW m \in Nat,
           NoneInVain(s, {o}), s.count[o] = m \/ NoneInVain(s, {}),
           NEW r \in UnparkUpTo(s, Main(o), m)
    PROVE  NoneInVain(r, {})
  <1>. DEFINE id == Main(o)
  <1>0. o \in Object \ CondVar /\ o \notin Thread /\ o \notin RwLock /\ o \notin Mutex
        /\ id \in WaitsetId
    BY KindAssumption DEF Object, WaitsetId
  <1>1. PICK g : UnparkUpTo(s, id, m) = g[m] /\ UnparkTable(s, id, m, g)
    BY UnparkUpToUnparks
  <1>. DEFINE Left(a, i) == Good(a) /\ (NoneInVain(a, {}) \/ (NoneInVain(a, {o}) /\ a.count[o] = m - i))
              T == {i \in 0 .. m : \A a \in g[i] : Left(a, i)}
  <1>2. 0 \in T
    <2>1. g[0] = {s} /\ m - 0 = m
      BY <1>1 DEF UnparkTable
    <2>. QED  BY <2>1
  <1>3. ASSUME NEW i \in 0 .. m, i \in T, i < m PROVE i + 1 \in T
    <2>0. i + 1 \in 1 .. m /\ i + 1 - 1 = i
      BY <1>3
    <2>1. ASSUME NEW a \in g[i + 1] PROVE Left(a, i + 1)
      <3>1. PICK b \in g[i] : a \in TryUnparkOne(b, id)
        BY <1>1, <2>0 DEF UnparkTable
      <3>2. Left(b, i)
        BY <1>3
      <3>3. Endable(b, id)
        BY <1>0 DEF Endable, Main
      <3>4. Good(a) /\ Fades(b, a)
        BY <1>0, <3>1, <3>2, <3>3, UnparkOneFades
      <3>5. CASE NoneInVain(b, {})
        BY <3>2, <3>4, <3>5, FadesKeeps
      <3>6. CASE NoneInVain(b, {o}) /\ b.count[o] = m - i
        <4>1. is_signaled(b, o)
          <5>1. b.count[o] > 0
            BY <1>3, <3>6
          <5>. QED  BY <1>0, <5>1, SignaledKinds
        <4>2. CASE a \in UnparkOne(b, id)
          <5>1. PICK u \in ToSet(b.ws[id]) : Removable(b, u) /\ a = Unpark(b, u)
            BY <4>2 DEF UnparkOne
          <5>2. a.count[o] = b.count[o] - 1
            BY <3>2, <3>6, <4>1, <5>1, UnparkServes
          <5>3. a.count[o] = m - (i + 1)
            BY <3>6, <5>2
          <5>4. NoneInVain(a, {o})
            BY <3>2, <3>4, <3>6, FadesKeeps
          <5>. QED  BY <3>4, <5>3, <5>4
        <4>3. CASE UnparkOne(b, id) = {} /\ a = b
          <5>1. NoneInVain(b, {})
            BY <1>0, <3>2, <3>6, <4>3, NobodyRemoved, LeftAlone
          <5>. QED  BY <3>4, <4>3, <5>1
        <4>. QED  BY <3>1, <4>2, <4>3 DEF TryUnparkOne
      <3>. QED  BY <3>2, <3>5, <3>6
    <2>. QED  BY <2>0, <2>1
  <1>4. m \in T
    <2>. HIDE DEF T
    <2>1. 0 .. m \subseteq T
      BY <1>2, <1>3, UpTo
    <2>. QED  BY <2>1
  <1>5. Left(r, m)
    BY <1>1, <1>4
  <1>6. ASSUME NoneInVain(r, {o}), r.count[o] = m - m PROVE NoneInVain(r, {})
    <2>1. ~Come(r, o)
      BY <1>0, <1>6, SignaledKinds DEF Come
    <2>. QED  BY <1>0, <1>5, <1>6, <2>1, DropFresh
  <1>. QED  BY <1>5, <1>6

\* post serves all.
LEMMA PostServes ==
    ASSUME NoLockFirst, NEW s, Good(s), NEW t \in Thread, s.wait[t] = Idle, NEW o \in Semaphore,
           NEW n \in Nat, NoneInVain(s, {}), NEW r \in post(s, t, o, n)
    PROVE  NoneInVain(r, {})
  <1>0. o \in Object \ CondVar /\ s \in State /\ s.count[o] \in Nat /\ MaxCount[o] \in Nat
    BY KindAssumption, BoundAssumption DEF Object, Good, State
  <1>1. CASE s.count[o] + n > MaxCount[o]
    <2>1. NewsOnly(s, r)
      BY <1>0, <1>1, SyncNews DEF post
    <2>. QED  BY <2>1, NewsOnlyGood, NewsFades, FadesKeeps
  <1>2. CASE ~(s.count[o] + n > MaxCount[o])
    <2>. DEFINE c == s.count[o] + n
                q == Counted(s, o, c)
                a == acquire(q, t, o)
                f == Signal(a, t, o)
    <2>1. r \in UnparkUpTo(f, Main(o), n)
      BY <1>2 DEF post, Counted
    <2>2. c \in 0 .. MaxCount[o]
      BY <1>0, <1>2
    <2>. HIDE DEF c
    <2>3. Good(q) /\ SameButCounts(s, q) /\ q.count[o] = c
      BY <2>2, CountGood
    <2>4. q = Counted(s, o, c)
      OBVIOUS
    <2>. HIDE DEF q
    <2>5. NewsOnly(q, a)
      BY <1>0, <2>3, SyncNews DEF Good
    <2>. HIDE DEF a
    <2>6. NewsOnly(a, f)
      BY <1>0, <2>5, SyncNews DEF NewsOnly
    <2>. HIDE DEF f
    <2>7. NewsOnly(q, f)
      BY <2>5, <2>6, NewsOnlyTransitive
    <2>8. Good(f) /\ NoneInVain(f, {o}) /\ f.count[o] = c
      <3>1. Good(f) /\ NoneInVain(f, {o})
        BY <2>2, <2>4, <2>7, ChangedFresh
      <3>. QED  BY <2>3, <2>7, <3>1 DEF NewsOnly
    <2>9. CASE s.count[o] = 0
      <3>1. f.count[o] = n
        BY <2>8, <2>9 DEF c
      <3>. QED  BY <2>1, <2>8, <3>1, UnparkUpToServes
    <2>10. CASE s.count[o] # 0
      \* The semaphore has been there for all before.
      <3>1. \A p \in Semaphore : p # o => f.count[p] = s.count[p]
        BY <1>0, <2>4, <2>7 DEF NewsOnly, Counted, State
      <3>2. SameWaits(s, f) /\ f.owner = s.owner /\ f.state = s.state
        <4>1. q.state = s.state
          BY <1>0, <2>4 DEF Counted, State
        <4>. QED  BY <2>3, <2>7, <4>1 DEF NewsOnly, SameButCounts, SameWaits, SameLocks
      <3>3. ASSUME NEW p \in Object \ CondVar, is_signaled(f, p) PROVE is_signaled(s, p)
        <4>1. CASE p = o
          <5>1. s.count[o] > 0
            BY <1>0, <2>10
          <5>. QED  BY <1>0, <4>1, <5>1, SignaledKinds
        <4>2. CASE p # o
          BY <3>1, <3>2, <3>3, <4>2, SignaledKinds DEF Object, SameWaits
        <4>. QED  BY <4>1, <4>2
      <3>4. Fades(s, f)
        BY <3>2, <3>3 DEF Fades, Locks, SameWaits
      <3>5. NoneInVain(f, {})
        BY <2>8, <3>4, FadesKeeps
      <3>. QED  BY <2>1, <2>8, <3>5, UnparkUpToServes
    <2>. QED  BY <2>9, <2>10
  <1>. QED  BY <1>1, <1>2

\* An event that is set has come just now.
LEMMA RaisedFresh ==
    ASSUME NEW s, Good(s), NoneInVain(s, {}), NEW t \in Thread, NEW o \in Event,
           NEW f, f = Raised(s, t, o)
    PROVE  /\ Good(f) /\ NoneInVain(f, {o}) /\ is_signaled(f, o)
           /\ Main(o) \in WaitsetId /\ Endable(f, Main(o)) /\ o \in Object \ CondVar
           /\ o \notin RwLock
  <1>0. o \in Object \ CondVar /\ o \notin RwLock
    BY KindAssumption DEF Object
  <1>. DEFINE q == Switched(s, o, TRUE)
  <1>1. f = Signal(q, t, o)
    BY DEF Raised
  <1>2. Good(q) /\ o \in Event /\ \E b \in BOOLEAN : q = Switched(s, o, b)
    BY StateGood
  <1>. HIDE DEF q
  <1>3. NewsOnly(q, f)
    BY <1>0, <1>1, <1>2, SyncNews DEF Good
  <1>4. Good(f) /\ NoneInVain(f, {o})
    BY <1>2, <1>3, ChangedFresh
  <1>5. f.state[o] /\ Main(o) \in WaitsetId /\ Endable(f, Main(o))
    BY RaisedGood
  <1>. QED  BY <1>0, <1>4, <1>5, SignaledKinds

\* set serves all.
LEMMA SetServes ==
    ASSUME NoLockFirst, NEW s, Good(s), NEW t \in Thread, s.wait[t] = Idle, NEW o \in Event,
           NoneInVain(s, {}), NEW r \in set(s, t, o)
    PROVE  NoneInVain(r, {})
  <1>1. CASE s.state[o]
    BY <1>1 DEF set
  <1>2. CASE ~s.state[o]
    <2>. DEFINE f == Raised(s, t, o)
    <2>1. IF o \in ManualReset THEN r = unpark_all(f, Main(o)) ELSE r \in TryUnparkOne(f, Main(o))
      BY <1>2 DEF set, Raised, Switched
    <2>2. /\ Good(f) /\ NoneInVain(f, {o}) /\ is_signaled(f, o)
          /\ Main(o) \in WaitsetId /\ Endable(f, Main(o)) /\ o \in Object \ CondVar
          /\ o \notin RwLock
      BY RaisedFresh
    <2>. HIDE DEF f
    <2>3. CASE o \in ManualReset
      <3>1. /\ Good(r) /\ Fades(f, r)
            /\ \A u \in Thread : WaitsIn(r.wait[u], Main(o)) =>
                   r.wait[u].op = "wait_all" /\ ~AllSignaled(r, r.wait[u].on)
        BY <2>1, <2>2, <2>3, UnparkAllServes
      <3>2. NoneInVain(r, {o})
        BY <2>2, <3>1, FadesKeeps
      <3>. QED  BY <2>2, <3>1, <3>2, LeftAlone
    <2>4. CASE o \notin ManualReset
      <3>1. CASE r \in UnparkOne(f, Main(o))
        BY <2>2, <2>4, <3>1, OneServed
      <3>2. CASE UnparkOne(f, Main(o)) = {} /\ r = f
        <4>1. NoneInVain(f, {})
          BY <2>2, <3>2, NobodyRemoved, LeftAlone
        <4>. QED  BY <3>2, <4>1
      <3>. QED  BY <2>1, <2>4, <3>1, <3>2 DEF TryUnparkOne
    <2>. QED  BY <2>3, <2>4
  <1>. QED  BY <1>1, <1>2

\* An event that is reset is signaled to nobody.
LEMMA ResetFades ==
    ASSUME NEW s, Good(s), NEW o \in Event, NEW r, r = Switched(s, o, FALSE)
    PROVE  Good(r) /\ Fades(s, r) /\ ~is_signaled(r, o)
  <1>0. o \in Object \ CondVar
    BY KindAssumption DEF Object
  <1>1. Good(r) /\ SameButCounts(s, r) /\ r.state[o] = FALSE
    BY StateGood
  <1>2. r.count = s.count /\ \A e \in Event : e # o => r.state[e] = s.state[e]
    BY DEF Good, State, Switched
  <1>3. ASSUME NEW p \in Object \ CondVar, is_signaled(r, p) PROVE is_signaled(s, p)
    <2>1. r.owner = s.owner /\ r.finished = s.finished
      BY <1>1 DEF SameButCounts, SameWaits, SameLocks
    <2>2. CASE p \in Event
      <3>1. p # o
        BY <1>1, <1>3, <2>2, SignaledKinds
      <3>. QED  BY <1>2, <1>3, <2>2, <3>1, SignaledKinds
    <2>3. CASE p \in Mutex
      BY <1>3, <2>1, <2>3, SignaledKinds
    <2>4. CASE p \in Semaphore
      BY <1>2, <1>3, <2>4, SignaledKinds
    <2>5. CASE p \in Thread
      BY <1>3, <2>1, <2>5, SignaledKinds
    <2>. QED  BY <2>2, <2>3, <2>4, <2>5 DEF Object
  <1>4. Fades(s, r)
    BY <1>1, <1>3 DEF Fades, Locks, SameButCounts, SameWaits, SameLocks
  <1>. QED  BY <1>0, <1>1, <1>4, SignaledKinds

\* pulse: the event has not come for those who wait on.
LEMMA PulseServes ==
    ASSUME NEW s, Good(s), NEW t \in Thread, NEW o \in Event, NoneInVain(s, {}),
           NEW r, r = pulse(s, t, o)
    PROVE  NoneInVain(r, {})
  <1>1. CASE s.state[o]
    BY <1>1 DEF pulse
  <1>2. CASE ~s.state[o]
    <2>. DEFINE f == Raised(s, t, o)
                a == unpark_all(f, Main(o))
    <2>1. r = Switched(a, o, FALSE)
      BY <1>2 DEF pulse, Raised, Switched
    <2>2. /\ Good(f) /\ NoneInVain(f, {o})
          /\ Main(o) \in WaitsetId /\ Endable(f, Main(o)) /\ o \in Object \ CondVar
          /\ o \notin RwLock
      BY RaisedFresh
    <2>. HIDE DEF f
    <2>3. Good(a) /\ Fades(f, a)
      BY <2>2, UnparkAllServes
    <2>. HIDE DEF a
    <2>4. NoneInVain(a, {o})
      BY <2>2, <2>3, FadesKeeps
    <2>5. Good(r) /\ Fades(a, r) /\ ~is_signaled(r, o)
      BY <2>1, <2>3, ResetFades
    <2>6. NoneInVain(r, {o}) /\ ~Come(r, o)
      BY <2>3, <2>4, <2>5, FadesKeeps DEF Come
    <2>. QED  BY <2>2, <2>5, <2>6, DropFresh
  <1>. QED  BY <1>1, <1>2

\* Operations that leave it so that nobody waits in vain: news alone.
LEMMA NewsServes ==
    ASSUME NEW s, Good(s), NEW X, NoneInVain(s, X), NEW r, NewsOnly(s, r)
    PROVE  Good(r) /\ NoneInVain(r, X)
  <1>1. Good(r) /\ Fades(s, r)
    BY NewsOnlyGood, NewsFades
  <1>. QED  BY <1>1, FadesKeeps

\* To acquire a sync_var.
LEMMA AcquireServes ==
    ASSUME NEW s, Good(s), NEW t \in Thread, NEW o, NoneInVain(s, {}), NEW r, r = acquire(s, t, o)
    PROVE  NoneInVain(r, {})
  <1>1. NewsOnly(s, r)
    BY DEF Good, State, acquire, NewsOnly
  <1>. QED  BY <1>1, NewsServes

\* reset.
LEMMA ResetServes ==
    ASSUME NEW s, Good(s), NEW t \in Thread, NEW o \in Event, NoneInVain(s, {}),
           NEW r, r = reset(s, t, o)
    PROVE  NoneInVain(r, {})
  <1>1. CASE ~s.state[o]
    BY <1>1 DEF reset
  <1>2. CASE s.state[o]
    <2>. DEFINE q == Switched(s, o, FALSE)
    <2>1. r = release(q, t, o)
      BY <1>2 DEF reset, Switched
    <2>2. Good(q) /\ Fades(s, q)
      BY ResetFades
    <2>. HIDE DEF q
    <2>3. o \in Object
      BY DEF Object
    <2>4. NewsOnly(q, r)
      BY <2>1, <2>2, <2>3, SyncNews DEF Good
    <2>5. NoneInVain(q, {})
      BY <2>2, FadesKeeps
    <2>. QED  BY <2>2, <2>4, <2>5, NewsServes
  <1>. QED  BY <1>1, <1>2

\* A wait for one object that has not come, by op.
LEMMA ParkForOneServes ==
    ASSUME NEW s, Good(s), NEW t \in Thread, s.wait[t] = Idle, NEW o \in Object, ~is_signaled(s, o),
           NoneInVain(s, {}), NEW op \in {"wait", "join"}, NEW sp \in BOOLEAN,
           NEW w, w = Wait(op, <<o>>, sp), w \in Waits, NEW r, r = Park(s, t, w)
    PROVE  NoneInVain(r, {})
  <1>1. w.op = op /\ w.on = <<o>> /\ w.parked
    BY WaitFields
  <1>2. MayWait(s, t, w)
    BY <1>1 DEF MayWait
  <1>3. ToSet(w.on) = {o}
    BY <1>1 DEF ToSet
  <1>4. ~CanGo(s, w, {})
    BY <1>1, <1>3 DEF CanGo, Come
  <1>. QED  BY <1>1, <1>2, <1>4, ParkServes

\* A wait for one object.
LEMMA WaitForServes ==
    ASSUME NEW s, Good(s), NEW t \in Thread, s.wait[t] = Idle, NEW o \in Object \ CondVar,
           o \in Mutex /\ s.owner[o] = t => s.recursion[o] < MaxRecursion[o],
           NoneInVain(s, {}), NEW r, r = WaitFor(s, t, o)
    PROVE  Serves(r)
  <1>1. CASE o \in Mutex
    <2>1. r = lock_exclusive(s, t, o)
      BY <1>1, WaitKinds
    <2>. QED  BY <1>1, <2>1, LockExclusiveServes
  <1>2. CASE o \notin Mutex /\ is_signaled(s, o)
    <2>1. r = Take(s, t, o)
      BY <1>2, WaitKinds DEF Object
    <2>. QED  BY <1>2, <2>1, TakeServes DEF Serves
  <1>3. CASE o \in Semaphore \cup Event /\ ~is_signaled(s, o)
    <2>. DEFINE sp == o \in Interruptible
    <2>1. r = Park(s, t, Wait("wait", <<o>>, sp))
      BY <1>3, WaitKinds
    <2>2. sp \in BOOLEAN
      OBVIOUS
    <2>. HIDE DEF sp
    <2>3. Wait("wait", <<o>>, sp) \in Waits
      BY <1>3, <2>2, ParkWaits
    <2>. QED  BY <1>3, <2>1, <2>2, <2>3, ParkForOneServes DEF Serves
  <1>4. CASE o \in Thread /\ ~is_signaled(s, o)
    <2>. DEFINE sp == FALSE
    <2>1. r = Park(s, t, Wait("join", <<o>>, sp))
      BY <1>4, WaitKinds
    <2>2. Wait("join", <<o>>, sp) \in Waits /\ sp \in BOOLEAN
      BY <1>4, ParkWaits
    <2>. HIDE DEF sp
    <2>. QED  BY <1>4, <2>1, <2>2, ParkForOneServes DEF Serves
  <1>. QED  BY <1>1, <1>2, <1>3, <1>4 DEF Object

\* A wait for several objects that may not take them parks, for what has not come.
LEMMA ParkForSeveralServes ==
    ASSUME NEW s, Good(s), NEW t \in Thread, s.wait[t] = Idle, NEW on \in WaitArrays,
           NEW op \in {"wait_all", "wait_any"}, ~MayTake(s, op, on), NoneInVain(s, {}),
           NEW r, r = Park(s, t, Wait(op, on, FALSE))
    PROVE  NoneInVain(r, {})
  <1>. DEFINE w == Wait(op, on, FALSE)
  <1>1. w \in Waits
    BY ParkWaits
  <1>2. w.op = op /\ w.on = on /\ w.parked
    BY DEF Wait
  <1>3. r = Park(s, t, w)
    OBVIOUS
  <1>. HIDE DEF w
  <1>4. MayWait(s, t, w)
    BY <1>2 DEF MayWait
  <1>5. ~CanGo(s, w, {})
    <2>1. CASE op = "wait_all"
      <3>1. PICK i \in DOMAIN on : ~is_signaled(s, on[i])
        BY <2>1 DEF MayTake, AllSignaled
      <3>2. on[i] \in ToSet(w.on)
        BY <1>2, <3>1 DEF ToSet
      <3>. QED  BY <1>2, <2>1, <3>1, <3>2 DEF CanGo, Come
    <2>2. CASE op = "wait_any"
      <3>1. \A i \in DOMAIN on : ~is_signaled(s, on[i])
        BY <2>2 DEF MayTake
      <3>2. \A o \in ToSet(w.on) : ~is_signaled(s, o)
        BY <1>2, <3>1 DEF ToSet
      <3>. QED  BY <1>2, <2>2, <3>2 DEF CanGo, Come
    <2>. QED  BY <2>1, <2>2
  <1>. QED  BY <1>1, <1>2, <1>3, <1>4, <1>5, ParkServes

\* A wait for several objects.
LEMMA WaitForSeveralServes ==
    ASSUME NEW s, Good(s), NEW t \in Thread, s.wait[t] = Idle, NEW on \in WaitArrays,
           NEW op \in {"wait_all", "wait_any"}, NEW try \in BOOLEAN, NoneInVain(s, {}),
           NEW r, r = wait_for_multiple_objects(s, t, on, op, try)
    PROVE  NoneInVain(r, {})
  <1>1. CASE MayTake(s, op, on)
    <2>1. r = TakeThem(s, t, op, on)
      BY <1>1 DEF wait_for_multiple_objects
    <2>2. IsArray(on)
      BY ArraysAre
    <2>3. PICK O : Good(r) /\ Taken(s, r, t, O)
      BY <1>1, <2>1, <2>2, TakeThemGood
    <2>4. Fades(s, r)
      BY <2>3, TakenFades
    <2>. QED  BY <2>3, <2>4, FadesKeeps
  <1>2. CASE ~MayTake(s, op, on) /\ try
    <2>1. r = GiveUp(s, t, on)
      BY <1>2 DEF wait_for_multiple_objects
    <2>2. NewsOnly(s, r)
      BY <2>1, GiveUpNews DEF Good
    <2>. QED  BY <2>2, NewsServes
  <1>3. CASE ~MayTake(s, op, on) /\ ~try
    <2>1. r = Park(s, t, Wait(op, on, FALSE))
      BY <1>3 DEF wait_for_multiple_objects
    <2>. QED  BY <1>3, <2>1, ParkForSeveralServes
  <1>. QED  BY <1>1, <1>2, <1>3

\* The signal of any object.
LEMMA SignalObjectServes ==
    ASSUME NoLockFirst, NEW s, Good(s), NEW t \in Thread, s.wait[t] = Idle,
           NEW o \in Object \ CondVar, NoneInVain(s, {}), NEW r \in SignalObject(s, t, o)
    PROVE  Serves(r)
  <1>1. CASE o \in Mutex
    <2>1. r \in unlock_exclusive(s, t, o)
      BY <1>1, SignalKinds
    <2>. QED  BY <1>1, <2>1, UnlockExclusiveServes
  <1>2. CASE o \in Semaphore
    <2>1. r \in post(s, t, o, 1)
      BY <1>2, SignalKinds
    <2>2. NoneInVain(r, {})
      BY <1>2, <2>1, PostServes
    <2>. QED  BY <2>2 DEF Serves
  <1>3. CASE o \in Event
    <2>1. r \in set(s, t, o)
      BY <1>3, SignalKinds
    <2>2. NoneInVain(r, {})
      BY <1>3, <2>1, SetServes
    <2>. QED  BY <2>2 DEF Serves
  <1>4. CASE o \in Thread
    <2>1. r = [s EXCEPT !.outcome = "thread_signal"]
      BY <1>4, SignalKinds
    <2>2. r.outcome # "none"
      BY <2>1 DEF Good, State
    <2>. QED  BY <2>2 DEF Serves
  <1>. QED  BY <1>1, <1>2, <1>3, <1>4 DEF Object

\* Who claims a lock no longer leaves it as if it had come just now.
LEMMA UnclaimFresh ==
    ASSUME NEW s, Good(s), NEW t \in Thread, ~s.wait[t].parked, NEW m \in Mutex,
           s.wait[t].op = "lock", s.wait[t].on = <<m>>, NoneInVain(s, {}),
           NEW r, Good(r), NowWaits(s, r, t, Idle)
    PROVE  NoneInVain(r, {m})
  <1>1. \A u \in Thread : r.wait[u] = IF u = t THEN Idle ELSE s.wait[u]
    BY DEF NowWaits
  <1>2. r.owner = s.owner /\ \A p : is_signaled(r, p) = is_signaled(s, p)
    BY SignaledAlike DEF NowWaits, SameLocks
  <1>3. ASSUME NEW p, p # m, Claimed(s, p) PROVE Claimed(r, p)
    <2>1. PICK u \in Thread : ~s.wait[u].parked /\ s.wait[u].op = "lock" /\ s.wait[u].on = <<p>>
      BY <1>3 DEF Claimed
    <2>2. <<p>> # <<m>>
      BY <1>3
    <2>3. u # t
      BY <2>1, <2>2
    <2>. QED  BY <1>1, <2>1, <2>3 DEF Claimed
  <1>4. \A p : p # m /\ Come(r, p) => Come(s, p)
    BY <1>2, <1>3 DEF Come
  <1>5. ASSUME NEW x \in RwLock, x # m, ReadersMay(r, x) PROVE ReadersMay(s, x)
    <2>1. ~Claimed(s, x)
      BY <1>3, <1>5 DEF ReadersMay
    <2>2. SharedFree(s, x)
      BY <1>1, <1>2, <1>5, SharedFreeIs DEF ReadersMay
    <2>. QED  BY <2>1, <2>2 DEF ReadersMay
  <1>. SUFFICES ASSUME NEW u \in Thread, r.wait[u].parked, CanGo(r, r.wait[u], {m}) PROVE FALSE
    BY DEF NoneInVain
  <1>. DEFINE w == r.wait[u]
              X == {m}
  <1>6. w = s.wait[u] /\ w \in Waits
    BY <1>1, IdleFacts DEF Good, State
  <1>7. /\ \A o \in ToSet(w.on) \ X : o \in Object \ CondVar /\ Come(r, o) => Come(s, o)
        /\ \A x \in RwLock \ X : ReadersMay(r, x) => ReadersMay(s, x)
    BY <1>4, <1>5
  <1>8. CanGo(s, w, X)
    BY <1>6, <1>7, CanGoLess
  <1>9. CanGo(s, w, {})
    BY <1>8 DEF CanGo
  <1>. QED  BY <1>6, <1>9 DEF NoneInVain

\* The end of a thread has come just now.
LEMMA EndedFresh ==
    ASSUME NEW s, Good(s), NEW t \in Thread, NoneInVain(s, {}), NEW f, f = Signal(Ended(s, t), t, t)
    PROVE  NoneInVain(f, {t})
  <1>. DEFINE q == Ended(s, t)
              X == {t}
              Y == {}
  <1>1. s \in State /\ t \in Object
    BY DEF Good, Object
  <1>2. /\ q \in State /\ q.owner = s.owner /\ q.count = s.count /\ q.state = s.state
        /\ q.wait = s.wait /\ q.finished = s.finished \cup {t}
    BY <1>1 DEF State, Ended
  <1>. HIDE DEF q
  <1>3. f = Signal(q, t, t)
    BY DEF q
  <1>4. NewsOnly(q, f)
    BY <1>1, <1>2, <1>3, SyncNews
  <1>5. Good(f)
    BY EndedGood
  <1>6. /\ f.owner = s.owner /\ f.count = s.count /\ f.state = s.state
        /\ f.wait = s.wait /\ f.finished = s.finished \cup {t}
    BY <1>2, <1>4 DEF NewsOnly
  <1>7. ASSUME NEW p \in (Object \ CondVar) \ X, is_signaled(f, p) PROVE is_signaled(s, p)
    BY <1>6, <1>7, SignaledKinds DEF Object
  <1>8. Y \subseteq X /\ \A m \in RwLock \ X : f.owner[m] = s.owner[m]
    BY <1>6
  <1>. QED  BY <1>5, <1>6, <1>7, <1>8, FreshKeeps

-----------------------------------------------------------------------------
(* Nobody waits in vain after any action                                   *)

\* Locks, tries of them and unlocks.
LEMMA LocksServe ==
    ASSUME NoLockFirst, IInv, NoneInVain(sys, {}), NEW t \in Thread,
           \/ LockExclusive(t) \/ TryLockExclusive(t) \/ LockShared(t) \/ TryLockShared(t)
           \/ Unlock(t)
    PROVE  Serves(sys')
  <1>1. CASE LockExclusive(t) \/ TryLockExclusive(t)
    <2>1. PICK m \in Mutex : Ready(t) /\ MayRecur(t, m) /\ Step({lock_exclusive(sys, t, m)})
      BY <1>1 DEF LockExclusive, TryLockExclusive
    <2>2. sys' = lock_exclusive(sys, t, m) /\ Good(sys) /\ sys.wait[t] = Idle
      BY <2>1, StepFacts, ReadyFacts
    <2>3. sys.owner[m] = t => sys.recursion[m] < MaxRecursion[m]
      BY <2>1 DEF MayRecur
    <2>. QED  BY <2>2, <2>3, LockExclusiveServes
  <1>2. CASE LockShared(t) \/ TryLockShared(t)
    <2>1. PICK m \in RwLock : Ready(t) /\ MayRecur(t, m) /\ Step({lock_shared(sys, t, m)})
      BY <1>2 DEF LockShared, TryLockShared
    <2>2. sys' = lock_shared(sys, t, m) /\ Good(sys) /\ sys.wait[t] = Idle
      BY <2>1, StepFacts, ReadyFacts
    <2>3. sys.owner[m] = Shared => sys.shared_owner[m][t] < MaxRecursion[m]
      BY <2>1 DEF MayRecur
    <2>. QED  BY <2>2, <2>3, LockSharedServes
  <1>3. CASE Unlock(t)
    <2>1. PICK m \in Mutex : /\ Ready(t)
                             /\ \/ Step(unlock_exclusive(sys, t, m))
                                \/ m \in RwLock /\ Step(unlock_shared(sys, t, m))
      BY <1>3 DEF Unlock
    <2>2. Good(sys) /\ sys.wait[t] = Idle
      BY <2>1, ReadyFacts
    <2>3. CASE Step(unlock_exclusive(sys, t, m))
      BY <2>2, <2>3, StepFacts, UnlockExclusiveServes
    <2>4. CASE m \in RwLock /\ Step(unlock_shared(sys, t, m))
      BY <2>2, <2>4, StepFacts, UnlockSharedServes
    <2>. QED  BY <2>1, <2>3, <2>4
  <1>. QED  BY <1>1, <1>2, <1>3

\* Waits for a condition variable: whoever the unlock has not served is there before
\* t parks.
LEMMA CondVarWaitServes ==
    ASSUME NoLockFirst, IInv, NoneInVain(sys, {}), NEW t \in Thread, CondVarWait(t)
    PROVE  Serves(sys')
  <1>1. PICK c \in CondVar, m \in Mutex :
            /\ Ready(t)
            /\ Step({IF r.outcome # "none" THEN r
                     ELSE Park(r, t, Wait("condvar", <<c, m>>, r.spurious_limit[c] > 0)) :
                         r \in unlock_exclusive(sys, t, m)})
    BY DEF CondVarWait
  <1>2. Good(sys) /\ sys.wait[t] = Idle
    BY <1>1, ReadyFacts
  <1>3. PICK q \in unlock_exclusive(sys, t, m) :
            sys' = IF q.outcome # "none" THEN q
                   ELSE Park(q, t, Wait("condvar", <<c, m>>, q.spurious_limit[c] > 0))
    BY <1>1, StepFacts
  <1>4. Fine(sys, q) /\ Unlocked(sys, q, t, m) /\ Serves(q)
    BY <1>2, UnlockExclusiveGood, UnlockExclusiveServes
  <1>5. CASE q.outcome # "none"
    BY <1>3, <1>5 DEF Serves
  <1>6. CASE q.outcome = "none"
    <2>. DEFINE sp == q.spurious_limit[c] > 0
    <2>1. sp \in BOOLEAN
      OBVIOUS
    <2>2. sys' = Park(q, t, Wait("condvar", <<c, m>>, sp))
      BY <1>3, <1>6
    <2>. HIDE DEF sp
    <2>. DEFINE w == Wait("condvar", <<c, m>>, sp)
    <2>3. MayWait(q, t, w)
      BY <1>2, <1>4, <1>6, <2>1, ParkForCondVar
    <2>4. w \in Waits /\ w.op = "condvar" /\ w.parked
      <3>1. w \in Waits
        BY <2>1, ParkWaits
      <3>2. w.op = "condvar" /\ w.parked
        BY WaitFields
      <3>. QED  BY <3>1, <3>2
    <2>5. sys' = Park(q, t, w)
      BY <2>2
    <2>. HIDE DEF w
    <2>6. ~CanGo(q, w, {})
      BY <2>4 DEF CanGo
    <2>7. Good(q) /\ q.wait[t] = Idle /\ NoneInVain(q, {})
      BY <1>4, <1>6 DEF Fine, Unlocked, Serves
    <2>8. NoneInVain(sys', {})
      BY <2>3, <2>4, <2>5, <2>6, <2>7, ParkServes
    <2>. QED  BY <2>8 DEF Serves
  <1>. QED  BY <1>5, <1>6

\* notify_one and notify_all: who is woken claims nothing yet.
LEMMA NotifyServes ==
    ASSUME IInv, NoneInVain(sys, {}), NEW t \in Thread, Notify(t)
    PROVE  Serves(sys')
  <1>1. PICK c \in CondVar :
            Ready(t) /\ (Step(TryUnparkOne(sys, Main(c))) \/ Step({unpark_all(sys, Main(c))}))
    BY DEF Notify
  <1>. DEFINE id == Main(c)
  <1>2. Good(sys)
    BY <1>1, ReadyFacts
  <1>3. c \in Object /\ c \notin Thread
    BY KindAssumption DEF Object
  <1>4. id \in WaitsetId /\ Endable(sys, id)
    BY <1>3 DEF WaitsetId, Endable, Main
  <1>. HIDE DEF id
  <1>5. CASE Step(TryUnparkOne(sys, id))
    <2>1. Good(sys') /\ Fades(sys, sys')
      BY <1>2, <1>4, <1>5, StepFacts, UnparkOneFades
    <2>2. NoneInVain(sys', {})
      BY <1>2, <2>1, FadesKeeps
    <2>. QED  BY <2>2 DEF Serves
  <1>6. CASE Step({unpark_all(sys, id)})
    <2>1. sys' = unpark_all(sys, id)
      BY <1>6, StepFacts
    <2>2. Good(sys') /\ Fades(sys, sys')
      BY <1>2, <1>4, <2>1, UnparkAllServes
    <2>3. NoneInVain(sys', {})
      BY <1>2, <2>2, FadesKeeps
    <2>. QED  BY <2>3 DEF Serves
  <1>. QED  BY <1>1, <1>5, <1>6 DEF id

\* Waits for one object or several, tries and get_value.
LEMMA WaitsServe ==
    ASSUME IInv, NoneInVain(sys, {}), NEW t \in Thread,
           \/ WaitForSingleObject(t) \/ TryWait(t) \/ GetValue(t) \/ WaitForMultipleObjects(t)
    PROVE  Serves(sys')
  <1>1. CASE WaitForSingleObject(t)
    <2>1. PICK o \in uses \ CondVar :
              /\ Ready(t)
              /\ o \in Mutex => o \notin RwLock /\ MayRecur(t, o)
              /\ Step({WaitFor(sys, t, o)})
      BY <1>1 DEF WaitForSingleObject
    <2>2. Good(sys) /\ sys.wait[t] = Idle /\ o \in Object \ CondVar
      BY <2>1, ReadyFacts
    <2>3. sys' = WaitFor(sys, t, o)
      BY <2>1, StepFacts
    <2>4. o \in Mutex /\ sys.owner[o] = t => sys.recursion[o] < MaxRecursion[o]
      BY <2>1 DEF MayRecur
    <2>. QED  BY <2>2, <2>3, <2>4, WaitForServes
  <1>2. CASE TryWait(t)
    <2>1. PICK o \in uses \cap (Semaphore \cup Event \cup Thread) :
              /\ Ready(t)
              /\ Step({IF is_signaled(sys, o) THEN Take(sys, t, o) ELSE acquire(sys, t, o)})
      BY <1>2 DEF TryWait
    <2>2. Good(sys) /\ sys.wait[t] = Idle /\ o \in Object \ CondVar
      BY <2>1, ReadyFacts, KindAssumption
    <2>3. sys' = IF is_signaled(sys, o) THEN Take(sys, t, o) ELSE acquire(sys, t, o)
      BY <2>1, StepFacts
    <2>. QED  BY <2>2, <2>3, TakeServes, AcquireServes DEF Serves
  <1>3. CASE GetValue(t)
    <2>1. PICK o \in Semaphore : Ready(t) /\ Step({acquire(sys, t, o)})
      BY <1>3 DEF GetValue
    <2>2. sys' = acquire(sys, t, o) /\ Good(sys)
      BY <2>1, StepFacts, ReadyFacts
    <2>. QED  BY <2>2, AcquireServes DEF Serves
  <1>4. CASE WaitForMultipleObjects(t)
    <2>1. PICK on \in WaitArrays, op \in {"wait_all", "wait_any"}, try \in BOOLEAN :
              Ready(t) /\ Step({wait_for_multiple_objects(sys, t, on, op, try)})
      BY <1>4 DEF WaitForMultipleObjects
    <2>2. /\ sys' = wait_for_multiple_objects(sys, t, on, op, try)
          /\ Good(sys) /\ sys.wait[t] = Idle
      BY <2>1, StepFacts, ReadyFacts
    <2>3. NoneInVain(sys', {})
      BY <2>2, WaitForSeveralServes
    <2>. QED  BY <2>3 DEF Serves
  <1>. QED  BY <1>1, <1>2, <1>3, <1>4

\* Posts, sets, resets and pulses.
LEMMA SignalsServe ==
    ASSUME NoLockFirst, IInv, NoneInVain(sys, {}), NEW t \in Thread,
           Post(t) \/ SetEvent(t) \/ ResetEvent(t) \/ PulseEvent(t)
    PROVE  Serves(sys')
  <1>1. CASE Post(t)
    <2>1. PICK o \in Semaphore : Ready(t) /\ \E n \in 1 .. MaxCount[o] : Step(post(sys, t, o, n))
      BY <1>1 DEF Post
    <2>2. PICK n \in 1 .. MaxCount[o] : Step(post(sys, t, o, n))
      BY <2>1
    <2>3. n \in Nat /\ Good(sys) /\ sys.wait[t] = Idle /\ sys' \in post(sys, t, o, n)
      BY <2>1, <2>2, BoundAssumption, ReadyFacts, StepFacts
    <2>4. NoneInVain(sys', {})
      BY <2>3, PostServes
    <2>. QED  BY <2>4 DEF Serves
  <1>2. CASE SetEvent(t)
    <2>1. PICK o \in Event : Ready(t) /\ Step(set(sys, t, o))
      BY <1>2 DEF SetEvent
    <2>2. NoneInVain(sys', {})
      BY <2>1, ReadyFacts, StepFacts, SetServes
    <2>. QED  BY <2>2 DEF Serves
  <1>3. CASE ResetEvent(t)
    <2>1. PICK o \in Event : Ready(t) /\ Step({reset(sys, t, o)})
      BY <1>3 DEF ResetEvent
    <2>2. sys' = reset(sys, t, o) /\ Good(sys)
      BY <2>1, ReadyFacts, StepFacts
    <2>. QED  BY <2>2, ResetServes DEF Serves
  <1>4. CASE PulseEvent(t)
    <2>1. PICK o \in Event : Ready(t) /\ Step({pulse(sys, t, o)})
      BY <1>4 DEF PulseEvent
    <2>2. sys' = pulse(sys, t, o) /\ Good(sys)
      BY <2>1, ReadyFacts, StepFacts
    <2>. QED  BY <2>2, PulseServes DEF Serves
  <1>. QED  BY <1>1, <1>2, <1>3, <1>4

\* A signal and a wait after it.
LEMMA SignalObjectAndWaitServes ==
    ASSUME NoLockFirst, IInv, NoneInVain(sys, {}), NEW t \in Thread, SignalObjectAndWait(t)
    PROVE  Serves(sys')
  <1>1. PICK o \in uses \ (RwLock \cup CondVar), p \in uses \ (RwLock \cup CondVar) :
            /\ Ready(t)
            /\ p \in Mutex => p = o \/ MayRecur(t, p)
            /\ Step({IF r.outcome # "none" \/ (o \in Semaphore /\ sys.count[o] = MaxCount[o]) THEN r
                     ELSE WaitFor(r, t, p) : r \in SignalObject(sys, t, o)})
    BY DEF SignalObjectAndWait
  <1>2. Good(sys) /\ sys.wait[t] = Idle /\ o \in Object \ CondVar /\ p \in Object \ CondVar
    BY <1>1, ReadyFacts
  <1>3. PICK q \in SignalObject(sys, t, o) :
            \/ sys' = q
            \/ q.outcome = "none" /\ sys' = WaitFor(q, t, p)
    BY <1>1, StepFacts
  <1>4. Fine(sys, q) /\ Unlocked(sys, q, t, o) /\ Serves(q)
    BY <1>2, SignalObjectGood, SignalObjectServes
  <1>5. CASE sys' = q
    BY <1>4, <1>5
  <1>6. CASE q.outcome = "none" /\ sys' = WaitFor(q, t, p)
    <2>1. Good(q) /\ q.wait[t] = Idle /\ NoneInVain(q, {})
      BY <1>4, <1>6 DEF Fine, Unlocked, Serves
    <2>2. ASSUME p \in Mutex, q.owner[p] = t
          PROVE  q.recursion[p] < MaxRecursion[p]
      <3>1. /\ sys.owner[p] = t /\ q.recursion[p] <= sys.recursion[p]
            /\ p = o => q.recursion[p] < sys.recursion[p]
        BY <1>4, <1>6, <2>2 DEF Unlocked
      <3>2. /\ sys.recursion[p] <= MaxRecursion[p] /\ sys.recursion[p] \in Nat
            /\ MaxRecursion[p] \in Nat /\ q.recursion[p] \in Nat
        BY <1>2, <2>1, <2>2, HeldFacts DEF HeldWell
      <3>3. p = o \/ sys.recursion[p] < MaxRecursion[p]
        BY <1>1, <2>2, <3>1 DEF MayRecur
      <3>. QED  BY <3>1, <3>2, <3>3
    <2>. QED  BY <1>2, <1>6, <2>1, <2>2, WaitForServes
  <1>. QED  BY <1>3, <1>5, <1>6

\* The end of a thread: all that join it go on, and who waits for more waits on.
LEMMA FinishServes ==
    ASSUME IInv, NoneInVain(sys, {}), NEW t \in Thread, Finish(t)
    PROVE  Serves(sys')
  <1>. DEFINE f == Signal(Ended(sys, t), t, t)
              id == Main(t)
  <1>1. Ready(t) /\ Step({unpark_all(f, id)})
    BY DEF Finish, Ended
  <1>2. Good(sys)
    BY <1>1, ReadyFacts
  <1>3. Good(f) /\ t \in f.finished /\ NoneInVain(f, {t})
    BY <1>2, EndedGood, EndedFresh
  <1>4. id \in WaitsetId /\ Endable(f, id)
    BY <1>3 DEF WaitsetId, Object, Endable, Main
  <1>5. t \in Object \ CondVar /\ t \notin RwLock
    BY KindAssumption DEF Object
  <1>6. sys' = unpark_all(f, id)
    BY <1>1, StepFacts
  <1>. HIDE DEF f
  <1>7. /\ Good(sys') /\ Fades(f, sys')
        /\ \A u \in Thread : WaitsIn(sys'.wait[u], id) =>
               sys'.wait[u].op = "wait_all" /\ ~AllSignaled(sys', sys'.wait[u].on)
    BY <1>3, <1>4, <1>6, UnparkAllServes
  <1>8. NoneInVain(sys', {t})
    BY <1>3, <1>7, FadesKeeps
  <1>9. NoneInVain(sys', {})
    BY <1>5, <1>7, <1>8, LeftAlone
  <1>. QED  BY <1>9 DEF Serves

\* An unparked thread goes on: with the lock it claims, or with what was not kept for
\* it alone.
LEMMA ContinueServes ==
    ASSUME IInv, NoneInVain(sys, {}), NEW t \in Thread, Continue(t)
    PROVE  Serves(sys')
  <1>. DEFINE w == sys.wait[t]
              r == Leaves(sys, t)
  <1>1. /\ sys.outcome = "none" /\ ~w.parked
        /\ Step(CASE w.op = "lock" -> {LockOrPark(r, t, w.on[1])}
                  [] w.op = "lock_shared" -> {LockSharedOrPark(r, t, w.on[1])}
                  [] w.op = "condvar" -> {lock_exclusive(r, t, w.on[2])}
                  [] w.op = "join" -> {Take(r, t, w.on[1])}
                  [] OTHER -> {})
    BY DEF Continue, Leaves
  <1>2. Good(sys) /\ w \in Waits /\ MayWait(sys, t, w)
    BY DEF IInv, Good, State, Waiting
  <1>3. Good(r) /\ NowWaits(sys, r, t, Idle)
    BY <1>1, <1>2, LeavesGood
  <1>. HIDE DEF r
  <1>4. r.wait[t] = Idle /\ r.finished = sys.finished /\ SameLocks(sys, r)
    BY <1>3 DEF NowWaits
  <1>5. \/ w.op = "lock" /\ sys' = LockOrPark(r, t, w.on[1])
        \/ w.op = "lock_shared" /\ sys' = LockSharedOrPark(r, t, w.on[1])
        \/ w.op = "condvar" /\ sys' = lock_exclusive(r, t, w.on[2])
        \/ w.op = "join" /\ sys' = Take(r, t, w.on[1])
    <2>. HIDE DEF w
    <2>. QED  BY <1>1 DEF Step
  <1>6. CASE w.op = "lock"
    <2>1. PICK m \in Mutex : w.on = <<m>>
      BY <1>2, <1>6 DEF Waits, Sensible, Idle
    <2>2. sys' = LockOrPark(r, t, m)
      BY <1>5, <1>6, <2>1
    <2>3. NoneInVain(r, {m})
      BY <1>1, <1>2, <1>3, <1>6, <2>1, UnclaimFresh
    <2>4. NoneInVain(sys', {})
      BY <1>3, <1>4, <2>2, <2>3, LockOrParkServes
    <2>. QED  BY <2>4 DEF Serves
  <1>7. CASE w.op # "lock"
    <2>1. Fades(sys, r)
      <3>1. r.owner = sys.owner /\ \A o : is_signaled(r, o) = is_signaled(sys, o)
        BY <1>3, SignaledAlike DEF NowWaits, SameLocks
      <3>2. \A u \in Thread : r.wait[u] = IF u = t THEN Idle ELSE sys.wait[u]
        BY <1>3 DEF NowWaits
      <3>. QED  BY <1>7, <3>1, <3>2, IdleFacts DEF Fades, Locks
    <2>2. NoneInVain(r, {})
      BY <1>2, <1>3, <2>1, FadesKeeps
    <2>3. CASE w.op = "lock_shared"
      <3>1. PICK m \in RwLock : w.on = <<m>>
        BY <1>2, <2>3 DEF Waits, Sensible, Idle
      <3>2. sys' = LockSharedOrPark(r, t, m)
        BY <1>5, <2>3, <3>1
      <3>3. r.shared_owner[m][t] = 0
        BY <1>2, <1>4, <2>3, <3>1 DEF MayWait, SameLocks
      <3>. QED  BY <1>3, <1>4, <2>2, <3>2, <3>3, LockSharedOrParkServes DEF Serves
    <2>4. CASE w.op = "condvar"
      <3>1. PICK c \in CondVar, m \in Mutex : w.on = <<c, m>>
        BY <1>2, <2>4 DEF Waits, Sensible, Idle
      <3>2. sys' = lock_exclusive(r, t, m)
        BY <1>5, <2>4, <3>1
      <3>3. r.owner[m] = t => r.recursion[m] < MaxRecursion[m]
        BY <1>2, <1>4, <2>4, <3>1 DEF MayWait, SameLocks
      <3>. QED  BY <1>3, <1>4, <2>2, <3>2, <3>3, LockExclusiveServes
    <2>5. CASE w.op = "join"
      <3>1. PICK u \in Thread : w.on = <<u>>
        BY <1>2, <2>5 DEF Waits, Sensible, Idle
      <3>2. sys' = Take(r, t, u)
        BY <1>5, <2>5, <3>1
      <3>3. u \in Object \ CondVar /\ u \in r.finished
        BY <1>1, <1>2, <1>4, <2>5, <3>1, KindAssumption DEF MayWait, Object
      <3>4. is_signaled(r, u)
        BY <3>3, SignaledKinds
      <3>. QED  BY <1>3, <1>4, <2>2, <3>2, <3>3, <3>4, TakeServes DEF Serves
    <2>. QED  BY <1>5, <1>7, <2>3, <2>4, <2>5
  <1>. QED  BY <1>6, <1>7

\* A thread leaves its waitsets: it has not waited for a reader-writer lock.
LEMMA RemovedServes ==
    ASSUME NEW s, Good(s), NoneInVain(s, {}), NEW t \in Thread, s.wait[t].parked,
           s.wait[t].op = "lock" => s.wait[t].on[1] \notin RwLock, NEW r, r = Removed(s, t)
    PROVE  Good(r) /\ NoneInVain(r, {})
  <1>1. Good(r) /\ NowWaits(s, r, t, Idle) /\ ~Idle.parked
    BY IdleFacts, LeaveGood DEF Removed
  <1>2. Fades(s, r)
    BY <1>1, LeaveFades
  <1>. QED  BY <1>1, <1>2, FadesKeeps

\* Or it leaves that of a condition variable.
LEMMA UnparkedServes ==
    ASSUME NEW s, Good(s), NoneInVain(s, {}), NEW t \in Thread, s.wait[t].parked,
           s.wait[t].op = "condvar", NEW r, r = Unparked(s, t)
    PROVE  Good(r) /\ NoneInVain(r, {})
  <1>1. r = Unpark(s, t)
    BY DEF Unpark, HandsOver, Unparked
  <1>2. Good(r) /\ Fades(s, r)
    BY <1>1, UnparkFades
  <1>. QED  BY <1>2, FadesKeeps

\* Timeouts.
LEMMA TimeoutServes ==
    ASSUME IInv, NoneInVain(sys, {}), NEW t \in Thread, Timeout(t)
    PROVE  Serves(sys')
  <1>. DEFINE w == sys.wait[t]
              r == Removed(sys, t)
  <1>1. /\ w.parked /\ MayTimeOut(w)
        /\ Step({IF w.op = "condvar" THEN Unparked(sys, t) ELSE GiveUp(r, t, w.on)})
    BY DEF Timeout, Unparked, Removed
  <1>2. Good(sys)
    BY DEF IInv
  <1>3. sys' = IF w.op = "condvar" THEN Unparked(sys, t) ELSE GiveUp(r, t, w.on)
    BY <1>1, StepFacts
  <1>4. CASE w.op = "condvar"
    BY <1>1, <1>2, <1>3, <1>4, UnparkedServes DEF Serves
  <1>5. CASE w.op # "condvar"
    <2>1. w.op = "lock" => w.on[1] \notin RwLock
      BY <1>1 DEF MayTimeOut
    <2>2. Good(r) /\ NoneInVain(r, {})
      BY <1>1, <1>2, <2>1, RemovedServes
    <2>. HIDE DEF r, w
    <2>3. NewsOnly(r, sys')
      BY <1>3, <1>5, <2>2, GiveUpNews DEF Good
    <2>4. NoneInVain(sys', {})
      BY <2>2, <2>3, NewsServes
    <2>. QED  BY <2>4 DEF Serves
  <1>. QED  BY <1>4, <1>5

\* Spurious wakeups.
LEMMA SpuriousServes ==
    ASSUME IInv, NoneInVain(sys, {}), NEW t \in Thread, Spurious(t)
    PROVE  Serves(sys')
  <1>. DEFINE w == sys.wait[t]
              r == Removed(sys, t)
              u == Unparked(sys, t)
  <1>1. /\ w.parked /\ w.spurious
        /\ Step({IF w.op = "condvar" THEN OneFewer(u, w.on[1]) ELSE acquire(r, t, w.on[1])})
    BY DEF Spurious, Unparked, Removed, OneFewer
  <1>2. Good(sys) /\ w \in Waits
    BY DEF IInv, Good, State
  <1>3. w.op \in {"condvar", "wait"}
    BY <1>1, <1>2 DEF Waits, Sensible
  <1>4. sys' = IF w.op = "condvar" THEN OneFewer(u, w.on[1]) ELSE acquire(r, t, w.on[1])
    BY <1>1, StepFacts
  <1>5. CASE w.op = "condvar"
    <2>1. Good(u) /\ NoneInVain(u, {})
      BY <1>1, <1>2, <1>5, UnparkedServes
    <2>. HIDE DEF u
    <2>2. PICK c \in CondVar, m \in Mutex : w.on = <<c, m>>
      BY <1>2, <1>5 DEF Waits, Sensible, Idle
    <2>3. sys' = OneFewer(u, c)
      BY <1>4, <1>5, <2>2
    <2>4. Good(sys')
      BY <2>1, <2>3, OneFewerGood
    <2>5. /\ SameWaits(u, sys') /\ sys'.owner = u.owner /\ sys'.count = u.count
          /\ sys'.state = u.state
      BY <2>1, <2>3 DEF OneFewer, Good, State, SameWaits
    <2>6. Fades(u, sys')
      BY <2>5, AlikeFades
    <2>7. NoneInVain(sys', {})
      BY <2>1, <2>4, <2>6, FadesKeeps
    <2>. QED  BY <2>7 DEF Serves
  <1>6. CASE w.op = "wait"
    <2>1. Good(r) /\ NoneInVain(r, {})
      BY <1>1, <1>2, <1>6, RemovedServes
    <2>. HIDE DEF r
    <2>. QED  BY <1>4, <1>6, <2>1, AcquireServes DEF Serves
  <1>. QED  BY <1>3, <1>5, <1>6

\* So nobody waits in vain after any step.
LEMMA StepServes ==
    ASSUME NoLockFirst, IInv, NoneInVain(sys, {}), Next
    PROVE  Serves(sys')
  <1>1. PICK t \in Thread :
        \/ LockExclusive(t) \/ TryLockExclusive(t) \/ LockShared(t) \/ TryLockShared(t) \/ Unlock(t)
        \/ CondVarWait(t) \/ Notify(t)
        \/ WaitForSingleObject(t) \/ TryWait(t) \/ GetValue(t) \/ WaitForMultipleObjects(t)
        \/ Post(t) \/ SetEvent(t) \/ ResetEvent(t) \/ PulseEvent(t) \/ SignalObjectAndWait(t)
        \/ Finish(t) \/ Continue(t) \/ Timeout(t) \/ Spurious(t)
    BY DEF Next
  <1>. QED  BY <1>1, LocksServe, CondVarWaitServes, NotifyServes, WaitsServe, SignalsServe,
                SignalObjectAndWaitServes, FinishServes, ContinueServes, TimeoutServes,
                SpuriousServes

\* NoneInVain is what it means.
LEMMA NoneInVainIs == NoneInVain(sys, {}) => \A t \in Thread : Parked(t) => ~CanGoOn(t)
  <1>. SUFFICES ASSUME NoneInVain(sys, {}), NEW t \in Thread, Parked(t), CanGoOn(t) PROVE FALSE
    OBVIOUS
  <1>. DEFINE w == sys.wait[t]
  <1>1. ~CanGo(sys, w, {})
    BY DEF NoneInVain, Parked
  <1>2. \A m : IsClaimed(m) <=> Claimed(sys, m)
    BY DEF IsClaimed, Claimed, Parked
  <1>3. CASE w.op = "lock_shared"
    BY <1>1, <1>2, <1>3 DEF CanGoOn, CanGo, ReadersMay
  <1>4. CASE w.op = "wait_all"
    BY <1>1, <1>2, <1>4 DEF CanGoOn, CanGo, Come, On
  <1>5. CASE w.op = "condvar"
    BY <1>5 DEF CanGoOn
  <1>6. CASE w.op \notin {"lock_shared", "wait_all", "condvar"}
    BY <1>1, <1>2, <1>6 DEF CanGoOn, CanGo, Come, On
  <1>. QED  BY <1>3, <1>4, <1>5, <1>6

\* No wakeup is lost, if no array has a lock before another lock, a semaphore or an
\* auto-reset event: whoever is parked waits for something that has not come, or that
\* a thread woken before is about to take.
THEOREM NobodyInVain ==
    ASSUME NoLockFirst
    PROVE  Spec => []NobodyWaitsInVain
  <1>1. Init => IInv /\ Serves(sys)
    <2>. SUFFICES ASSUME Init PROVE IInv /\ Serves(sys)
      OBVIOUS
    <2>1. \A t \in Thread : sys.wait[t] = Idle
      BY DEF Init
    <2>. QED  BY <2>1, InitGood, IdleFacts DEF Serves, NoneInVain
  <1>2. IInv /\ Serves(sys) /\ [Next]_vars => (IInv /\ Serves(sys))'
    <2>. SUFFICES ASSUME IInv, Serves(sys), [Next]_vars PROVE IInv' /\ Serves(sys')
      OBVIOUS
    <2>1. CASE Next
      <3>1. IInv' /\ NoneInVain(sys, {})
        BY <2>1, StepGood DEF Serves
      <3>. QED  BY <2>1, <3>1, StepServes
    <2>2. CASE UNCHANGED vars
      BY <2>2 DEF vars, IInv
    <2>. QED  BY <2>1, <2>2
  <1>3. Serves(sys) => NobodyWaitsInVain
    BY NoneInVainIs DEF Serves, NobodyWaitsInVain
  <1>. QED  BY <1>1, <1>2, <1>3, PTL DEF Spec

-----------------------------------------------------------------------------
(* Blocking implements Holders                                             *)

\* A thread gives a lock back, leaves the readers of one, or posts: from s to q.
Returns(t, s, q) ==
    \E m \in Mutex :
        /\ s.owner[m] = t /\ q.owner = [s.owner EXCEPT ![m] = Free]
        /\ ReadersIn(q) = ReadersIn(s) /\ q.count = s.count
LeavesReaders(t, s, q) ==
    \E m \in Mutex :
        /\ t \in ReadersIn(s)[m]
        /\ ReadersIn(q) = [ReadersIn(s) EXCEPT ![m] = @ \ {t}]
        /\ q.owner = IF ReadersIn(s)[m] = {t} THEN [s.owner EXCEPT ![m] = Free] ELSE s.owner
        /\ q.count = s.count
Posts(s, q) ==
    \E p \in Semaphore : \E n \in 1 .. MaxCount[p] :
        /\ s.count[p] + n <= MaxCount[p] /\ q.count = [s.count EXCEPT ![p] = @ + n]
        /\ q.owner = s.owner /\ ReadersIn(q) = ReadersIn(s)

\* A thread becomes a reader.
EntersReaders(t, s, r) ==
    \E m \in Mutex :
        /\ s.owner[m] \in {Free, Shared} /\ r.owner = [s.owner EXCEPT ![m] = Shared]
        /\ ReadersIn(r) = [ReadersIn(s) EXCEPT ![m] = @ \cup {t}]
        /\ r.count = s.count

\* What an operation of t makes of who holds what.
Deals(t, s, r) ==
    \/ Grants(s, r)
    \/ \E q : Returns(t, s, q) /\ Grants(q, r)
    \/ \E q : LeavesReaders(t, s, q) /\ Grants(q, r)
    \/ \E q : Posts(s, q) /\ Grants(q, r)
    \/ EntersReaders(t, s, r)

\* Once a thread has given something back the rest may be granted later.
Gives(t, s, r) ==
    \/ Grants(s, r)
    \/ \E q : Returns(t, s, q) /\ Grants(q, r)
    \/ \E q : Posts(s, q) /\ Grants(q, r)

\* Grants may follow.
LEMMA GivesThenGrants ==
    ASSUME NEW t, NEW s, NEW q, NEW r, Gives(t, s, q), Grants(q, r)
    PROVE  Gives(t, s, r)
  <1>1. ASSUME NEW p, Grants(p, q) PROVE Grants(p, r)
    BY <1>1, GrantsTransitive
  <1>. QED  BY <1>1 DEF Gives

\* Who gives deals.
LEMMA GivesDeals == ASSUME NEW t, NEW s, NEW r, Gives(t, s, r) PROVE Deals(t, s, r)
  BY DEF Gives, Deals

\* From s to r who holds what has not changed.
SameHeld(s, r) == r.owner = s.owner /\ r.shared_owner = s.shared_owner /\ r.count = s.count

\* A change of anything else grants nothing.
LEMMA ElseGrants ==
    ASSUME NEW s \in State, NEW t \in Thread, NEW o
    PROVE  /\ \A x : Grants(s, [s EXCEPT !.outcome = x])
           /\ \A w : Grants(s, Park(s, t, w))
           /\ \A on : Grants(s, GiveUp(s, t, on))
           /\ \A n, m : Grants(s, [s EXCEPT !.recursion[m] = n])
           /\ \A b, e : Grants(s, Switched(s, e, b))
           /\ Grants(s, acquire(s, t, o)) /\ Grants(s, release(s, t, o))
           /\ Grants(s, Signal(s, t, o))
           /\ Grants(s, Removed(s, t)) /\ Grants(s, Unparked(s, t)) /\ Grants(s, Leaves(s, t))
           /\ \A c : Grants(s, OneFewer(s, c))
           /\ Grants(s, Ended(s, t))
  <1>0. ASSUME NEW r, SameHeld(s, r) PROVE Grants(s, r)
    BY <1>0, GrantsNothing DEF SameHeld
  <1>1. ASSUME NEW x PROVE SameHeld(s, [s EXCEPT !.outcome = x])
    BY DEF State, SameHeld
  <1>2. ASSUME NEW w PROVE SameHeld(s, Park(s, t, w))
    BY DEF State, SameHeld, Park
  <1>3. ASSUME NEW on PROVE SameHeld(s, GiveUp(s, t, on))
    BY DEF State, SameHeld, GiveUp
  <1>4. ASSUME NEW n, NEW m PROVE SameHeld(s, [s EXCEPT !.recursion[m] = n])
    BY DEF State, SameHeld
  <1>5. ASSUME NEW b, NEW e PROVE SameHeld(s, Switched(s, e, b))
    BY DEF State, SameHeld, Switched
  <1>6. SameHeld(s, acquire(s, t, o))
    BY DEF State, SameHeld, acquire
  <1>7. SameHeld(s, release(s, t, o))
    BY DEF State, SameHeld, release
  <1>8. SameHeld(s, Signal(s, t, o))
    BY DEF State, SameHeld, Signal, release
  <1>9. SameHeld(s, Removed(s, t))
    BY DEF State, SameHeld, Removed, remove
  <1>10. SameHeld(s, Unparked(s, t))
    BY DEF State, SameHeld, Unparked, remove
  <1>11. SameHeld(s, Leaves(s, t))
    BY DEF State, SameHeld, Leaves
  <1>12. ASSUME NEW c PROVE SameHeld(s, OneFewer(s, c))
    BY DEF State, SameHeld, OneFewer
  <1>13. SameHeld(s, Ended(s, t))
    BY DEF State, SameHeld, Ended
  <1>. HIDE DEF State
  <1>. QED  BY <1>0, <1>1, <1>2, <1>3, <1>4, <1>5, <1>6, <1>7, <1>8, <1>9, <1>10, <1>11, <1>12, <1>13

\* Nothing at all grants nothing.
LEMMA GrantsItself == ASSUME NEW s PROVE Grants(s, s)
  BY GrantsNothing

\* A take grants what was taken.
LEMMA TakeGrants ==
    ASSUME NEW s, Good(s), NEW t \in Thread, s.wait[t] = Idle, NEW o \in Object \ CondVar,
           is_signaled(s, o)
    PROVE  Grants(s, Take(s, t, o))
  <1>1. \E O : Taken(s, Take(s, t, o), t, O)
    BY TakeGood
  <1>2. s \in State
    BY DEF Good
  <1>. QED  BY <1>1, <1>2, TakenGrants

\* A thread that is idle is granted nothing while others are woken.
LEMMA IdleGrants ==
    ASSUME NEW s, NEW t \in Thread, s.wait[t] = Idle, NEW r, IdleSpared(s, r)
    PROVE  Grants(s, r)
  BY DEF IdleSpared, Spares

\* A lock is taken, or its thread parks.
LEMMA LockOrParkGrants ==
    ASSUME NEW s, Good(s), NEW t \in Thread, s.wait[t] = Idle, NEW m \in Mutex
    PROVE  Grants(s, LockOrPark(s, t, m))
  <1>0. s \in State
    BY DEF Good
  <1>1. CASE s.owner[m] = Free
    <2>1. m \in Object \ CondVar /\ is_signaled(s, m)
      BY <1>1, KindAssumption, SignaledKinds DEF Object
    <2>. QED  BY <1>1, <2>1, TakeGrants DEF LockOrPark
  <1>2. CASE s.owner[m] # Free
    BY <1>0, <1>2, ElseGrants DEF LockOrPark
  <1>. QED  BY <1>1, <1>2

\* lock_exclusive grants a free lock or nothing.
LEMMA LockExclusiveGrants ==
    ASSUME NEW s, Good(s), NEW t \in Thread, s.wait[t] = Idle, NEW m \in Mutex
    PROVE  Grants(s, lock_exclusive(s, t, m))
  <1>. DEFINE r == lock_exclusive(s, t, m)
  <1>0. s \in State
    BY DEF Good
  <1>1. \/ \E x : r = [s EXCEPT !.outcome = x]
        \/ r = LockOrPark(s, t, m)
        \/ \E n : r = [s EXCEPT !.recursion[m] = n]
    BY DEF lock_exclusive
  <1>. HIDE DEF r
  <1>2. CASE \E x : r = [s EXCEPT !.outcome = x]
    BY <1>0, <1>2, ElseGrants DEF r
  <1>3. CASE r = LockOrPark(s, t, m)
    BY <1>3, LockOrParkGrants DEF r
  <1>4. CASE \E n : r = [s EXCEPT !.recursion[m] = n]
    BY <1>0, <1>4, ElseGrants DEF r
  <1>. QED  BY <1>1, <1>2, <1>3, <1>4

\* Who shares a lock once the count of t there is n.
Recounted(s, t, m, n) == [s.shared_owner EXCEPT ![m][t] = n]

\* The readers follow that count.
LEMMA ReadersFollow ==
    ASSUME NEW s \in State, NEW t \in Thread, NEW m \in Mutex, NEW n \in Nat, NEW r,
           r.shared_owner = Recounted(s, t, m, n)
    PROVE  ReadersIn(r) = IF n > 0 THEN [ReadersIn(s) EXCEPT ![m] = @ \cup {t}]
                          ELSE [ReadersIn(s) EXCEPT ![m] = @ \ {t}]
  <1>1. /\ s.shared_owner \in [Mutex -> [Thread -> Nat]]
    BY DEF State
  <1>2. \A x \in Mutex, u \in Thread :
            r.shared_owner[x][u] = IF x = m /\ u = t THEN n ELSE s.shared_owner[x][u]
    BY <1>1 DEF Recounted
  <1>. DEFINE X == IF n > 0 THEN [ReadersIn(s) EXCEPT ![m] = @ \cup {t}]
                   ELSE [ReadersIn(s) EXCEPT ![m] = @ \ {t}]
  <1>3. \A x \in Mutex : ReadersIn(r)[x] = X[x]
    <2>. SUFFICES ASSUME NEW x \in Mutex PROVE ReadersIn(r)[x] = X[x]
      OBVIOUS
    <2>1. ReadersIn(r)[x] = {u \in Thread : r.shared_owner[x][u] > 0}
      BY DEF ReadersIn
    <2>2. ReadersIn(s)[x] = {u \in Thread : s.shared_owner[x][u] > 0}
      BY DEF ReadersIn
    <2>3. X[x] = IF x # m THEN ReadersIn(s)[x]
                 ELSE IF n > 0 THEN ReadersIn(s)[x] \cup {t} ELSE ReadersIn(s)[x] \ {t}
      BY DEF ReadersIn
    <2>. HIDE DEF X
    <2>. QED  BY <1>2, <2>1, <2>2, <2>3
  <1>4. ReadersIn(r) = [x \in Mutex |-> ReadersIn(r)[x]] /\ X = [x \in Mutex |-> X[x]]
    BY DEF ReadersIn
  <1>. HIDE DEF X
  <1>. QED  BY <1>3, <1>4 DEF X

\* t becomes a reader, or parks.
LEMMA LockSharedOrParkDeals ==
    ASSUME NEW s, Good(s), NEW t \in Thread, s.wait[t] = Idle, NEW m \in RwLock,
           s.shared_owner[m][t] = 0
    PROVE  Deals(t, s, LockSharedOrPark(s, t, m))
  <1>0. m \in Mutex /\ m \in Object /\ m \notin Thread /\ s \in State
    BY KindAssumption DEF Object, Good
  <1>1. CASE SharedFree(s, m)
    <2>. DEFINE q == Shares(s, t, m)
                r == Took(acquire(q, t, m), t, m)
    <2>1. LockSharedOrPark(s, t, m) = r
      BY <1>1 DEF LockSharedOrPark, Shares
    <2>2. s.owner[m] \in {Free, Shared} /\ s.shared_owner[m][t] < MaxRecursion[m]
      BY <1>0, <1>1, HeldFacts DEF SharedFree
    <2>3. Good(q)
      BY <1>0, <2>2, ReadGood
    <2>4. q.shared_owner = Recounted(s, t, m, 1) /\ q.count = s.count
          /\ q.owner = [s.owner EXCEPT ![m] = Shared]
      BY <1>0 DEF State, Shares, Recounted
    <2>. HIDE DEF q
    <2>5. q.last = m => m \in q.order
      BY <1>0, <2>3, SignaledIsCovered
    <2>6. NewsOnly(q, r)
      BY <1>0, <2>3, <2>5, TookNews DEF Good
    <2>. HIDE DEF r
    <2>7. r.shared_owner = Recounted(s, t, m, 1) /\ r.owner = q.owner /\ r.count = q.count
      BY <2>4, <2>6 DEF NewsOnly
    <2>8. ReadersIn(r) = [ReadersIn(s) EXCEPT ![m] = @ \cup {t}]
      BY <1>0, <2>7, ReadersFollow
    <2>9. EntersReaders(t, s, r)
      BY <1>0, <2>2, <2>4, <2>7, <2>8 DEF EntersReaders
    <2>. QED  BY <2>1, <2>9 DEF Deals
  <1>2. CASE ~SharedFree(s, m)
    BY <1>0, <1>2, ElseGrants DEF LockSharedOrPark, Deals
  <1>. QED  BY <1>1, <1>2

\* t is a reader once more, or once less and still one.
LEMMA RecountGrants ==
    ASSUME NEW s, Good(s), NEW t \in Thread, NEW m \in Mutex, NEW n \in Nat, n > 0,
           s.shared_owner[m][t] > 0, NEW r, r.shared_owner = Recounted(s, t, m, n),
           r.owner = s.owner, r.count = s.count
    PROVE  Grants(s, r)
  <1>1. s \in State
    BY DEF Good
  <1>2. ReadersIn(r) = [ReadersIn(s) EXCEPT ![m] = @ \cup {t}]
    BY <1>1, ReadersFollow
  <1>3. t \in ReadersIn(s)[m]
    BY DEF ReadersIn
  <1>4. ReadersIn(s)[m] \cup {t} = ReadersIn(s)[m]
    BY <1>3
  <1>5. ReadersIn(s) = [ReadersIn(s) EXCEPT ![m] = ReadersIn(s)[m]]
    BY DEF ReadersIn
  <1>6. ReadersIn(r) = ReadersIn(s)
    BY <1>2, <1>4, <1>5
  <1>. QED  BY <1>6 DEF Grants

\* lock_shared.
LEMMA LockSharedDeals ==
    ASSUME NEW s, Good(s), NEW t \in Thread, s.wait[t] = Idle, NEW m \in RwLock
    PROVE  Deals(t, s, lock_shared(s, t, m))
  <1>0. /\ m \in Mutex /\ s.shared_owner[m][t] \in Nat /\ s \in State
        /\ s.owner[m] # Shared => s.shared_owner[m][t] = 0
    <2>1. m \in Mutex
      BY KindAssumption
    <2>2. s.shared_owner[m][t] \in Nat /\ s \in State
      BY <2>1, HeldFacts
    <2>3. s.owner[m] = Shared <=> \E u \in Thread : s.shared_owner[m][u] > 0
      BY <2>1, HeldFacts DEF HeldWell
    <2>. QED  BY <2>1, <2>2, <2>3
  <1>. DEFINE r == lock_shared(s, t, m)
  <1>1. \/ \E x : r = [s EXCEPT !.outcome = x]
        \/ s.shared_owner[m][t] = 0 /\ r = LockSharedOrPark(s, t, m)
        \/ s.shared_owner[m][t] # 0 /\ r = SharesMore(s, t, m)
    BY <1>0 DEF lock_shared, SharesMore
  <1>. HIDE DEF r
  <1>2. CASE s.shared_owner[m][t] # 0 /\ r = SharesMore(s, t, m)
    <2>. DEFINE n == s.shared_owner[m][t] + 1
    <2>1. n \in Nat /\ n > 0 /\ s.shared_owner[m][t] > 0
      BY <1>0, <1>2
    <2>2. /\ r.shared_owner = Recounted(s, t, m, n) /\ r.owner = s.owner /\ r.count = s.count
      BY <1>0, <1>2 DEF State, SharesMore, Recounted
    <2>. HIDE DEF n
    <2>3. Grants(s, r)
      BY <1>0, <2>1, <2>2, RecountGrants
    <2>. QED  BY <2>3 DEF Deals, r
  <1>3. CASE \E x : r = [s EXCEPT !.outcome = x]
    BY <1>0, <1>3, ElseGrants DEF Deals, r
  <1>. QED  BY <1>1, <1>2, <1>3, LockSharedOrParkDeals DEF r

\* unlock_exclusive gives one lock back, which one thread may be granted.
LEMMA UnlockExclusiveGives ==
    ASSUME NEW s, Good(s), NEW t \in Thread, s.wait[t] = Idle, NEW m \in Mutex,
           NEW r \in unlock_exclusive(s, t, m)
    PROVE  Gives(t, s, r)
  <1>0. s \in State
    BY DEF Good
  <1>1. CASE s.owner[m] # t
    <2>1. r = [s EXCEPT !.outcome = "unlocking_mutex_wo_ownership"]
      BY <1>1 DEF unlock_exclusive
    <2>. QED  BY <1>0, <2>1, ElseGrants DEF Gives
  <1>2. CASE s.owner[m] = t /\ s.recursion[m] > 1
    <2>. DEFINE n == s.recursion[m] - 1
    <2>1. r = [s EXCEPT !.recursion[m] = n]
      BY <1>2 DEF unlock_exclusive
    <2>. HIDE DEF n
    <2>. QED  BY <1>0, <2>1, ElseGrants DEF Gives
  <1>3. CASE s.owner[m] = t /\ ~(s.recursion[m] > 1)
    <2>. DEFINE q == [s EXCEPT !.recursion[m] = 0, !.owner[m] = Free]
                f == Signal(q, t, m)
                woken == UnparkOne(f, Main(m))
    <2>1. Good(q) /\ NowHeld(s, q, m, Free, 0, s.shared_owner[m], s.shared_lock_count[m])
      BY <1>3, FreeGood
    <2>2. Returns(t, s, q)
      <3>1. /\ q.owner = [s.owner EXCEPT ![m] = Free] /\ q.shared_owner = s.shared_owner
            /\ q.count = s.count
        BY <1>0 DEF State
      <3>. HIDE DEF q
      <3>2. ReadersIn(q) = ReadersIn(s)
        BY <3>1 DEF ReadersIn
      <3>. QED  BY <1>3, <3>1, <3>2 DEF Returns
    <2>3. IF woken # {} THEN r \in woken
          ELSE r = IF m \in RwLock THEN unpark_all(f, Readers(m)) ELSE f
      BY <1>3 DEF unlock_exclusive
    <2>. HIDE DEF q
    <2>4. Good(f) /\ NewsOnly(q, f) /\ Grants(q, f)
      <3>1. m \in Object
        BY DEF Object
      <3>. QED  BY <2>1, <3>1, SyncNews, NewsOnlyGood, ElseGrants DEF Good
    <2>. HIDE DEF f
    <2>5. f.wait[t] = Idle
      BY <2>1, <2>4 DEF NowHeld, NewsOnly, SameWaits
    <2>6. Grants(f, r)
      <3>1. CASE woken # {}
        <4>1. r \in TryUnparkOne(f, Main(m))
          BY <2>3, <3>1 DEF TryUnparkOne
        <4>2. IdleSpared(f, r)
          BY <2>4, <4>1, LockWaitsets, UnparkOneGood
        <4>. QED  BY <2>5, <4>2, IdleGrants
      <3>2. CASE woken = {} /\ m \in RwLock
        <4>1. r = unpark_all(f, Readers(m))
          BY <2>3, <3>2
        <4>2. IdleSpared(f, r)
          BY <2>4, <3>2, <4>1, LockWaitsets, UnparkAllGood
        <4>. QED  BY <2>5, <4>2, IdleGrants
      <3>3. CASE woken = {} /\ m \notin RwLock
        BY <2>3, <3>3, GrantsItself
      <3>. QED  BY <3>1, <3>2, <3>3
    <2>7. Grants(q, r)
      BY <2>4, <2>6, GrantsTransitive
    <2>. QED  BY <2>2, <2>7 DEF Gives
  <1>. QED  BY <1>1, <1>2, <1>3

\* What t makes of a readers' lock when it unlocks it once.
LEMMA UnreadLeaves ==
    ASSUME NEW s, Good(s), NEW t \in Thread, s.wait[t] = Idle, NEW m \in RwLock,
           s.owner[m] = Shared, s.shared_owner[m][t] > 0,
           NEW g, g = Unread(s, t, m), NEW f, f = Freed(g, m)
    PROVE  IF SharesLess(s, t, m).shared_lock_count[m] = 0 THEN LeavesReaders(t, s, f)
           ELSE Grants(s, g) \/ LeavesReaders(t, s, g)
  <1>. DEFINE q == SharesLess(s, t, m)
              n == s.shared_owner[m][t] - 1
              last == SharesLess(s, t, m).shared_lock_count[m] = 0
  <1>0. m \in Mutex /\ s \in State /\ n \in Nat /\ Free # Shared
    <2>1. m \in Mutex
      BY KindAssumption
    <2>2. s.shared_owner[m] \in [Thread -> Nat] /\ s \in State
      BY <2>1, HeldFacts
    <2>. QED  BY <2>1, <2>2, KindAssumption
  <1>1. /\ q.shared_owner = Recounted(s, t, m, n) /\ q.owner = s.owner /\ q.count = s.count
    BY <1>0 DEF State, SharesLess, Recounted
  <1>2. IF last THEN Good(f) ELSE Good(g)
    BY UnreadSignaled
  <1>3. q \in State
    BY <1>0, UnreadGood
  <1>. HIDE DEF q, n, last
  <1>4. g = IF q.shared_owner[m][t] = 0 THEN Signal(q, t, m) ELSE q
    BY DEF Unread, q
  <1>5. /\ g.shared_owner = Recounted(s, t, m, n) /\ g.owner = s.owner /\ g.count = s.count
        /\ g \in State
    <2>1. m \in Object
      BY <1>0 DEF Object
    <2>2. NewsOnly(q, Signal(q, t, m))
      BY <1>3, <2>1, SyncNews
    <2>. QED  BY <1>1, <1>3, <1>4, <2>2 DEF NewsOnly
  <1>6. /\ f.shared_owner = Recounted(s, t, m, n) /\ f.owner = [s.owner EXCEPT ![m] = Free]
        /\ f.count = s.count
    <2>1. /\ f.shared_owner = g.shared_owner /\ f.owner = [g.owner EXCEPT ![m] = Free]
          /\ f.count = g.count
      BY <1>5 DEF State, Freed
    <2>. QED  BY <1>5, <2>1
  <1>7. t \in ReadersIn(s)[m]
    BY <1>0 DEF ReadersIn
  <1>8. s.owner \in [Mutex -> Thread \cup {Free, Shared}] /\ DOMAIN s.owner = Mutex
    BY <1>0 DEF State
  <1>9. CASE last
    <2>1. \A u \in Thread : ~(f.shared_owner[m][u] > 0)
      <3>1. f.owner[m] = Free
        BY <1>0, <1>6, <1>8
      <3>2. f.owner[m] = Shared <=> \E u \in Thread : f.shared_owner[m][u] > 0
        BY <1>0, <1>2, <1>9, HeldFacts DEF HeldWell
      <3>. QED  BY <1>0, <3>1, <3>2
    <2>2. ReadersIn(f)[m] = {}
      BY <1>0, <2>1 DEF ReadersIn
    <2>3. ~(n > 0)
      <3>. SUFFICES ASSUME n > 0 PROVE FALSE
        OBVIOUS
      <3>1. ReadersIn(f) = [ReadersIn(s) EXCEPT ![m] = @ \cup {t}]
        BY <1>0, <1>6, ReadersFollow
      <3>2. DOMAIN ReadersIn(s) = Mutex
        BY DEF ReadersIn
      <3>. QED  BY <1>0, <2>2, <3>1, <3>2
    <2>4. ReadersIn(f) = [ReadersIn(s) EXCEPT ![m] = @ \ {t}] /\ DOMAIN ReadersIn(s) = Mutex
      <3>1. ReadersIn(f) = [ReadersIn(s) EXCEPT ![m] = @ \ {t}]
        BY <1>0, <1>6, <2>3, ReadersFollow
      <3>. QED  BY <3>1 DEF ReadersIn
    <2>5. ReadersIn(s)[m] = {t}
      BY <1>0, <1>7, <2>2, <2>4
    <2>6. LeavesReaders(t, s, f)
      BY <1>0, <1>6, <1>7, <2>4, <2>5 DEF LeavesReaders
    <2>. QED  BY <1>9, <2>6 DEF last
  <1>10. CASE ~last /\ n > 0
    <2>1. Grants(s, g)
      BY <1>0, <1>5, <1>10, RecountGrants
    <2>. QED  BY <1>10, <2>1 DEF last
  <1>11. CASE ~last /\ ~(n > 0)
    <2>1. ReadersIn(g) = [ReadersIn(s) EXCEPT ![m] = @ \ {t}] /\ DOMAIN ReadersIn(s) = Mutex
      <3>1. ReadersIn(g) = [ReadersIn(s) EXCEPT ![m] = @ \ {t}]
        BY <1>0, <1>5, <1>11, ReadersFollow
      <3>. QED  BY <3>1 DEF ReadersIn
    <2>2. PICK u \in Thread : g.shared_owner[m][u] > 0
      BY <1>0, <1>2, <1>5, <1>11, HeldFacts DEF HeldWell
    <2>3. u \in ReadersIn(g)[m]
      BY <1>0, <2>2 DEF ReadersIn
    <2>4. ReadersIn(s)[m] # {t}
      BY <1>0, <2>1, <2>3
    <2>5. LeavesReaders(t, s, g)
      BY <1>0, <1>5, <1>7, <2>1, <2>4 DEF LeavesReaders
    <2>. QED  BY <1>11, <2>5 DEF last
  <1>. QED  BY <1>9, <1>10, <1>11

\* unlock_shared: a reader leaves, or is one still.
LEMMA UnlockSharedDeals ==
    ASSUME NEW s, Good(s), NEW t \in Thread, s.wait[t] = Idle, NEW m \in RwLock,
           NEW r \in unlock_shared(s, t, m)
    PROVE  Deals(t, s, r)
  <1>0. m \in Mutex /\ s.shared_owner[m][t] \in Nat /\ s \in State
    <2>1. m \in Mutex
      BY KindAssumption
    <2>. QED  BY <2>1, HeldFacts
  <1>1. CASE s.owner[m] # Shared \/ s.shared_owner[m][t] = 0
    <2>1. r = [s EXCEPT !.outcome = "unlocking_mutex_wo_ownership"]
      BY <1>1 DEF unlock_shared
    <2>. QED  BY <1>0, <2>1, ElseGrants DEF Deals
  <1>2. CASE s.owner[m] = Shared /\ s.shared_owner[m][t] # 0
    <2>. DEFINE g == Unread(s, t, m)
                f == Freed(g, m)
                last == SharesLess(s, t, m).shared_lock_count[m] = 0
    <2>1. IF last THEN r \in TryUnparkOne(f, Main(m)) ELSE r = g
      BY <1>2 DEF unlock_shared, SharesLess, Freed, Unread
    <2>2. /\ IF last THEN Good(f) /\ LeavesReaders(t, s, f)
             ELSE Grants(s, g) \/ LeavesReaders(t, s, g)
          /\ SameWaits(s, f)
      <3>1. s.shared_owner[m][t] > 0
        BY <1>0, <1>2
      <3>. HIDE DEF f, g
      <3>2. g = Unread(s, t, m) /\ f = Freed(g, m)
        BY DEF f, g
      <3>. HIDE DEF last
      <3>3. /\ IF SharesLess(s, t, m).shared_lock_count[m] = 0 THEN Good(f) ELSE Good(g)
            /\ SameWaits(s, f)
        BY <1>2, <3>1, <3>2, UnreadSignaled
      <3>4. IF SharesLess(s, t, m).shared_lock_count[m] = 0 THEN LeavesReaders(t, s, f)
            ELSE Grants(s, g) \/ LeavesReaders(t, s, g)
        BY <1>2, <3>1, <3>2, UnreadLeaves
      <3>. QED  BY <3>3, <3>4 DEF last
    <2>. HIDE DEF f, g, last
    <2>3. CASE last
      <3>1. IdleSpared(f, r)
        BY <1>0, <2>1, <2>2, <2>3, LockWaitsets, UnparkOneGood
      <3>2. f.wait[t] = Idle
        BY <2>2 DEF SameWaits
      <3>3. Grants(f, r)
        BY <3>1, <3>2, IdleGrants
      <3>. QED  BY <2>2, <2>3, <3>3 DEF Deals
    <2>4. CASE ~last
      BY <2>1, <2>2, <2>4, GrantsItself DEF Deals
    <2>. QED  BY <2>3, <2>4
  <1>. QED  BY <1>1, <1>2

\* A wait for one object takes it, or parks.
LEMMA WaitForGrants ==
    ASSUME NEW s, Good(s), NEW t \in Thread, s.wait[t] = Idle, NEW o \in Object \ CondVar
    PROVE  Grants(s, WaitFor(s, t, o))
  <1>0. s \in State
    BY DEF Good
  <1>1. CASE o \in Mutex
    <2>1. WaitFor(s, t, o) = lock_exclusive(s, t, o)
      BY <1>1, WaitKinds
    <2>. QED  BY <1>1, <2>1, LockExclusiveGrants
  <1>2. CASE o \notin Mutex /\ is_signaled(s, o)
    <2>1. WaitFor(s, t, o) = Take(s, t, o)
      BY <1>2, WaitKinds DEF Object
    <2>. QED  BY <1>2, <2>1, TakeGrants
  <1>3. CASE o \notin Mutex /\ ~is_signaled(s, o)
    <2>1. \E w : WaitFor(s, t, o) = Park(s, t, w)
      BY <1>3, WaitKinds DEF Object
    <2>. QED  BY <1>0, <2>1, ElseGrants
  <1>. QED  BY <1>1, <1>2, <1>3

\* So does a wait for several.
LEMMA WaitForSeveralGrants ==
    ASSUME NEW s, Good(s), NEW t \in Thread, s.wait[t] = Idle, NEW on \in WaitArrays,
           NEW op \in {"wait_all", "wait_any"}, NEW try \in BOOLEAN
    PROVE  Grants(s, wait_for_multiple_objects(s, t, on, op, try))
  <1>0. s \in State
    BY DEF Good
  <1>1. CASE MayTake(s, op, on)
    <2>1. IsArray(on)
      BY ArraysAre
    <2>2. \E O : Taken(s, TakeThem(s, t, op, on), t, O)
      BY <1>1, <2>1, TakeThemGood
    <2>. QED  BY <1>0, <1>1, <2>2, TakenGrants DEF wait_for_multiple_objects
  <1>2. CASE ~MayTake(s, op, on)
    BY <1>0, <1>2, ElseGrants DEF wait_for_multiple_objects
  <1>. QED  BY <1>1, <1>2

\* A post gives its units, which those that are woken may have.
LEMMA PostGives ==
    ASSUME NEW s, Good(s), NEW t \in Thread, s.wait[t] = Idle, NEW o \in Semaphore,
           NEW n \in Nat \ {0}, NEW r \in post(s, t, o, n)
    PROVE  Gives(t, s, r)
  <1>0. o \in Object /\ s \in State /\ s.count[o] \in Nat /\ MaxCount[o] \in Nat
    BY BoundAssumption DEF Object, Good, State
  <1>1. CASE s.count[o] + n > MaxCount[o]
    BY <1>0, <1>1, ElseGrants DEF post, Gives
  <1>2. CASE ~(s.count[o] + n > MaxCount[o])
    <2>. DEFINE c == s.count[o] + n
                q == Counted(s, o, c)
                a == acquire(q, t, o)
                f == Signal(a, t, o)
    <2>1. r \in UnparkUpTo(f, Main(o), n)
      BY <1>2 DEF post, Counted
    <2>2. c \in 0 .. MaxCount[o] /\ c >= n /\ n \in 1 .. MaxCount[o] /\ c <= MaxCount[o]
      BY <1>0, <1>2
    <2>3. Posts(s, q)
      <3>1. q.count = [s.count EXCEPT ![o] = c] /\ SameLocks(s, q)
        BY <1>0 DEF Counted, State, SameLocks
      <3>. HIDE DEF q
      <3>2. ReadersIn(q) = ReadersIn(s) /\ q.owner = s.owner
        BY <3>1 DEF ReadersIn, SameLocks
      <3>3. q.count = [s.count EXCEPT ![o] = @ + n]
        BY <3>1
      <3>. QED  BY <2>2, <3>2, <3>3 DEF Posts
    <2>. HIDE DEF c
    <2>4. Good(q) /\ SameButCounts(s, q) /\ q.count[o] = c
      BY <2>2, CountGood
    <2>. HIDE DEF q
    <2>5. NewsOnly(q, a) /\ Grants(q, a)
      BY <1>0, <2>4, SyncNews, ElseGrants DEF Good
    <2>. HIDE DEF a
    <2>6. NewsOnly(a, f) /\ Grants(a, f)
      BY <1>0, <2>5, SyncNews, ElseGrants DEF NewsOnly
    <2>. HIDE DEF f
    <2>7. NewsOnly(q, f) /\ Grants(q, f)
      BY <2>5, <2>6, NewsOnlyTransitive, GrantsTransitive
    <2>8. Good(f) /\ f.count[o] >= n /\ f.wait[t] = Idle
      BY <2>2, <2>4, <2>7, NewsOnlyGood DEF NewsOnly, SameButCounts, SameWaits
    <2>9. IdleSpared(f, r)
      BY <2>1, <2>8, UnparkUpToGood
    <2>10. Grants(q, r)
      BY <2>7, <2>8, <2>9, IdleGrants, GrantsTransitive
    <2>. QED  BY <2>3, <2>10 DEF Gives
  <1>. QED  BY <1>1, <1>2

\* The set of an event grants no lock or unit of itself.
LEMMA RaisedGrants ==
    ASSUME NEW s, Good(s), NEW t \in Thread, s.wait[t] = Idle, NEW o \in Event,
           NEW f, f = Raised(s, t, o)
    PROVE  Grants(s, f) /\ f.wait[t] = Idle
  <1>1. Good(Switched(s, o, TRUE)) /\ SameButCounts(s, Switched(s, o, TRUE)) /\ s \in State
    BY StateGood DEF Good
  <1>2. Grants(s, Switched(s, o, TRUE)) /\ Grants(Switched(s, o, TRUE), f)
    BY <1>1, ElseGrants DEF Good, Raised
  <1>3. PICK q : SameButCounts(s, q) /\ NewsOnly(q, f)
    BY RaisedGood
  <1>4. f.wait = s.wait
    BY <1>3 DEF SameButCounts, NewsOnly, SameWaits
  <1>. QED  BY <1>2, <1>4, GrantsTransitive

\* set.
LEMMA SetGrants ==
    ASSUME NEW s, Good(s), NEW t \in Thread, s.wait[t] = Idle, NEW o \in Event,
           NEW r \in set(s, t, o)
    PROVE  Grants(s, r)
  <1>1. CASE s.state[o]
    BY <1>1, GrantsItself DEF set
  <1>2. CASE ~s.state[o]
    <2>. DEFINE f == Raised(s, t, o)
    <2>1. IF o \in ManualReset THEN r = unpark_all(f, Main(o)) ELSE r \in TryUnparkOne(f, Main(o))
      BY <1>2 DEF set, Raised, Switched
    <2>2. Good(f) /\ Main(o) \in WaitsetId /\ Endable(f, Main(o))
      BY RaisedGood
    <2>3. Grants(s, f) /\ f.wait[t] = Idle
      BY RaisedGrants
    <2>. HIDE DEF f
    <2>4. IdleSpared(f, r)
      <3>1. CASE o \in ManualReset
        BY <2>1, <2>2, <3>1, UnparkAllGood
      <3>2. CASE o \notin ManualReset
        BY <2>1, <2>2, <3>2, UnparkOneGood
      <3>. QED  BY <3>1, <3>2
    <2>. QED  BY <2>3, <2>4, IdleGrants, GrantsTransitive
  <1>. QED  BY <1>1, <1>2

\* reset and pulse.
LEMMA ResetGrants ==
    ASSUME NEW s, Good(s), NEW t \in Thread, NEW o \in Event
    PROVE  Grants(s, reset(s, t, o))
  <1>1. CASE s.state[o]
    <2>. DEFINE q == Switched(s, o, FALSE)
    <2>1. reset(s, t, o) = release(q, t, o)
      BY <1>1 DEF reset, Switched
    <2>2. Good(q) /\ Grants(s, q)
      BY StateGood, ElseGrants DEF Good
    <2>. HIDE DEF q
    <2>3. Grants(q, release(q, t, o))
      BY <2>2, ElseGrants DEF Good
    <2>. QED  BY <2>1, <2>2, <2>3, GrantsTransitive
  <1>2. CASE ~s.state[o]
    BY <1>2, GrantsItself DEF reset
  <1>. QED  BY <1>1, <1>2

\* pulse.
LEMMA PulseGrants ==
    ASSUME NEW s, Good(s), NEW t \in Thread, s.wait[t] = Idle, NEW o \in Event
    PROVE  Grants(s, pulse(s, t, o))
  <1>1. CASE s.state[o]
    BY <1>1, GrantsItself DEF pulse
  <1>2. CASE ~s.state[o]
    <2>. DEFINE f == Raised(s, t, o)
                a == unpark_all(f, Main(o))
    <2>1. pulse(s, t, o) = Switched(a, o, FALSE)
      BY <1>2 DEF pulse, Raised, Switched
    <2>2. Good(f) /\ Main(o) \in WaitsetId /\ Endable(f, Main(o))
      BY RaisedGood
    <2>3. Grants(s, f) /\ f.wait[t] = Idle
      BY RaisedGrants
    <2>. HIDE DEF f
    <2>4. Good(a) /\ IdleSpared(f, a)
      BY <2>2, UnparkAllGood
    <2>. HIDE DEF a
    <2>5. Grants(f, a)
      BY <2>3, <2>4, IdleGrants
    <2>6. Grants(a, Switched(a, o, FALSE))
      BY <2>4, ElseGrants DEF Good
    <2>. QED  BY <2>1, <2>3, <2>5, <2>6, GrantsTransitive
  <1>. QED  BY <1>1, <1>2

\* The signal of any object.
LEMMA SignalObjectGives ==
    ASSUME NEW s, Good(s), NEW t \in Thread, s.wait[t] = Idle, NEW o \in Object \ CondVar,
           NEW r \in SignalObject(s, t, o)
    PROVE  Gives(t, s, r)
  <1>1. CASE o \in Mutex
    BY <1>1, SignalKinds, UnlockExclusiveGives
  <1>2. CASE o \in Semaphore
    <2>1. r \in post(s, t, o, 1) /\ 1 \in Nat \ {0}
      BY <1>2, SignalKinds
    <2>. QED  BY <1>2, <2>1, PostGives
  <1>3. CASE o \in Event
    BY <1>3, SignalKinds, SetGrants DEF Gives
  <1>4. CASE o \in Thread
    <2>1. r = [s EXCEPT !.outcome = "thread_signal"] /\ s \in State
      BY <1>4, SignalKinds DEF Good
    <2>. QED  BY <2>1, ElseGrants DEF Gives
  <1>. QED  BY <1>1, <1>2, <1>3, <1>4 DEF Object

\* A step deals the same from a state where the same is held.
LEMMA DealsAlike ==
    ASSUME NEW t, NEW s, NEW q, NEW r, SameHeld(s, q), Deals(t, q, r)
    PROVE  Deals(t, s, r)
  <1>1. ReadersIn(q) = ReadersIn(s) /\ q.owner = s.owner /\ q.count = s.count
    BY DEF SameHeld, ReadersIn
  <1>2. CASE Grants(q, r)
    BY <1>1, <1>2 DEF Grants, Deals
  <1>3. ASSUME NEW p, Returns(t, q, p), Grants(p, r) PROVE Deals(t, s, r)
    <2>1. Returns(t, s, p)
      BY <1>1, <1>3 DEF Returns
    <2>. QED  BY <1>3, <2>1 DEF Deals
  <1>4. ASSUME NEW p, LeavesReaders(t, q, p), Grants(p, r) PROVE Deals(t, s, r)
    <2>1. LeavesReaders(t, s, p)
      BY <1>1, <1>4 DEF LeavesReaders
    <2>. QED  BY <1>4, <2>1 DEF Deals
  <1>5. ASSUME NEW p, Posts(q, p), Grants(p, r) PROVE Deals(t, s, r)
    <2>1. Posts(s, p)
      BY <1>1, <1>5 DEF Posts
    <2>. QED  BY <1>5, <2>1 DEF Deals
  <1>6. CASE EntersReaders(t, q, r)
    BY <1>1, <1>6 DEF EntersReaders, Deals
  <1>. QED  BY <1>2, <1>3, <1>4, <1>5, <1>6 DEF Deals

-----------------------------------------------------------------------------
(* What each action deals                                                  *)

\* Locks, tries of them and unlocks.
LEMMA LocksDeal ==
    ASSUME IInv, NEW t \in Thread,
           \/ LockExclusive(t) \/ TryLockExclusive(t) \/ LockShared(t) \/ TryLockShared(t)
           \/ Unlock(t)
    PROVE  Deals(t, sys, sys')
  <1>1. CASE LockExclusive(t) \/ TryLockExclusive(t)
    <2>1. PICK m \in Mutex : Ready(t) /\ Step({lock_exclusive(sys, t, m)})
      BY <1>1 DEF LockExclusive, TryLockExclusive
    <2>2. sys' = lock_exclusive(sys, t, m) /\ Good(sys) /\ sys.wait[t] = Idle
      BY <2>1, StepFacts, ReadyFacts
    <2>. QED  BY <2>2, LockExclusiveGrants DEF Deals
  <1>2. CASE LockShared(t) \/ TryLockShared(t)
    <2>1. PICK m \in RwLock : Ready(t) /\ Step({lock_shared(sys, t, m)})
      BY <1>2 DEF LockShared, TryLockShared
    <2>2. sys' = lock_shared(sys, t, m) /\ Good(sys) /\ sys.wait[t] = Idle
      BY <2>1, StepFacts, ReadyFacts
    <2>. QED  BY <2>2, LockSharedDeals
  <1>3. CASE Unlock(t)
    <2>1. PICK m \in Mutex : /\ Ready(t)
                             /\ \/ Step(unlock_exclusive(sys, t, m))
                                \/ m \in RwLock /\ Step(unlock_shared(sys, t, m))
      BY <1>3 DEF Unlock
    <2>2. Good(sys) /\ sys.wait[t] = Idle
      BY <2>1, ReadyFacts
    <2>3. CASE Step(unlock_exclusive(sys, t, m))
      BY <2>2, <2>3, StepFacts, UnlockExclusiveGives, GivesDeals
    <2>4. CASE m \in RwLock /\ Step(unlock_shared(sys, t, m))
      BY <2>2, <2>4, StepFacts, UnlockSharedDeals
    <2>. QED  BY <2>1, <2>3, <2>4
  <1>. QED  BY <1>1, <1>2, <1>3

\* Waits for a condition variable give the lock back.
LEMMA CondVarWaitDeals ==
    ASSUME IInv, NEW t \in Thread, CondVarWait(t)
    PROVE  Deals(t, sys, sys')
  <1>1. PICK c \in CondVar, m \in Mutex :
            /\ Ready(t)
            /\ Step({IF r.outcome # "none" THEN r
                     ELSE Park(r, t, Wait("condvar", <<c, m>>, r.spurious_limit[c] > 0)) :
                         r \in unlock_exclusive(sys, t, m)})
    BY DEF CondVarWait
  <1>2. Good(sys) /\ sys.wait[t] = Idle
    BY <1>1, ReadyFacts
  <1>3. PICK q \in unlock_exclusive(sys, t, m) : sys' = q \/ \E w : sys' = Park(q, t, w)
    BY <1>1, StepFacts
  <1>4. q \in State /\ Gives(t, sys, q)
    BY <1>2, UnlockExclusiveGood, UnlockExclusiveGives DEF Fine, Good
  <1>5. Grants(q, sys')
    BY <1>3, <1>4, GrantsItself, ElseGrants
  <1>. QED  BY <1>4, <1>5, GivesThenGrants, GivesDeals

\* Who is notified is granted nothing yet.
LEMMA NotifyDeals ==
    ASSUME IInv, NEW t \in Thread, Notify(t)
    PROVE  Deals(t, sys, sys')
  <1>1. PICK c \in CondVar :
            Ready(t) /\ (Step(TryUnparkOne(sys, Main(c))) \/ Step({unpark_all(sys, Main(c))}))
    BY DEF Notify
  <1>. DEFINE id == Main(c)
  <1>2. Good(sys) /\ sys.wait[t] = Idle
    BY <1>1, ReadyFacts
  <1>3. c \in Object /\ c \notin Thread
    BY KindAssumption DEF Object
  <1>4. id \in WaitsetId /\ Endable(sys, id)
    BY <1>3 DEF WaitsetId, Endable, Main
  <1>. HIDE DEF id
  <1>5. IdleSpared(sys, sys')
    <2>1. CASE Step(TryUnparkOne(sys, id))
      BY <1>2, <1>4, <2>1, StepFacts, UnparkOneGood
    <2>2. CASE Step({unpark_all(sys, id)})
      <3>1. sys' = unpark_all(sys, id)
        BY <2>2, StepFacts
      <3>. QED  BY <1>2, <1>4, <3>1, UnparkAllGood
    <2>. QED  BY <1>1, <2>1, <2>2 DEF id
  <1>. QED  BY <1>2, <1>5, IdleGrants DEF Deals

\* Waits for one object or several, tries and get_value.
LEMMA WaitsDeal ==
    ASSUME IInv, NEW t \in Thread,
           \/ WaitForSingleObject(t) \/ TryWait(t) \/ GetValue(t) \/ WaitForMultipleObjects(t)
    PROVE  Deals(t, sys, sys')
  <1>1. CASE WaitForSingleObject(t)
    <2>1. PICK o \in uses \ CondVar : Ready(t) /\ Step({WaitFor(sys, t, o)})
      BY <1>1 DEF WaitForSingleObject
    <2>2. Good(sys) /\ sys.wait[t] = Idle /\ o \in Object \ CondVar
      BY <2>1, ReadyFacts
    <2>3. sys' = WaitFor(sys, t, o)
      BY <2>1, StepFacts
    <2>. QED  BY <2>2, <2>3, WaitForGrants DEF Deals
  <1>2. CASE TryWait(t)
    <2>1. PICK o \in uses \cap (Semaphore \cup Event \cup Thread) :
              /\ Ready(t)
              /\ Step({IF is_signaled(sys, o) THEN Take(sys, t, o) ELSE acquire(sys, t, o)})
      BY <1>2 DEF TryWait
    <2>2. Good(sys) /\ sys.wait[t] = Idle /\ o \in Object \ CondVar
      BY <2>1, ReadyFacts, KindAssumption
    <2>3. sys' = IF is_signaled(sys, o) THEN Take(sys, t, o) ELSE acquire(sys, t, o)
      BY <2>1, StepFacts
    <2>. QED  BY <2>2, <2>3, TakeGrants, ElseGrants DEF Deals, Good
  <1>3. CASE GetValue(t)
    <2>1. PICK o \in Semaphore : Ready(t) /\ Step({acquire(sys, t, o)})
      BY <1>3 DEF GetValue
    <2>2. sys' = acquire(sys, t, o) /\ Good(sys)
      BY <2>1, StepFacts, ReadyFacts
    <2>. QED  BY <2>2, ElseGrants DEF Deals, Good
  <1>4. CASE WaitForMultipleObjects(t)
    <2>1. PICK on \in WaitArrays, op \in {"wait_all", "wait_any"}, try \in BOOLEAN :
              Ready(t) /\ Step({wait_for_multiple_objects(sys, t, on, op, try)})
      BY <1>4 DEF WaitForMultipleObjects
    <2>2. /\ sys' = wait_for_multiple_objects(sys, t, on, op, try)
          /\ Good(sys) /\ sys.wait[t] = Idle
      BY <2>1, StepFacts, ReadyFacts
    <2>. QED  BY <2>2, WaitForSeveralGrants DEF Deals
  <1>. QED  BY <1>1, <1>2, <1>3, <1>4

\* Posts, sets, resets and pulses.
LEMMA SignalsDeal ==
    ASSUME IInv, NEW t \in Thread, Post(t) \/ SetEvent(t) \/ ResetEvent(t) \/ PulseEvent(t)
    PROVE  Deals(t, sys, sys')
  <1>1. CASE Post(t)
    <2>1. PICK o \in Semaphore : Ready(t) /\ \E n \in 1 .. MaxCount[o] : Step(post(sys, t, o, n))
      BY <1>1 DEF Post
    <2>2. PICK n \in 1 .. MaxCount[o] : Step(post(sys, t, o, n))
      BY <2>1
    <2>3. n \in Nat \ {0} /\ Good(sys) /\ sys.wait[t] = Idle /\ sys' \in post(sys, t, o, n)
      BY <2>1, <2>2, BoundAssumption, ReadyFacts, StepFacts
    <2>. QED  BY <2>3, PostGives, GivesDeals
  <1>2. CASE SetEvent(t)
    <2>1. PICK o \in Event : Ready(t) /\ Step(set(sys, t, o))
      BY <1>2 DEF SetEvent
    <2>. QED  BY <2>1, ReadyFacts, StepFacts, SetGrants DEF Deals
  <1>3. CASE ResetEvent(t)
    <2>1. PICK o \in Event : Ready(t) /\ Step({reset(sys, t, o)})
      BY <1>3 DEF ResetEvent
    <2>2. sys' = reset(sys, t, o) /\ Good(sys)
      BY <2>1, ReadyFacts, StepFacts
    <2>. QED  BY <2>2, ResetGrants DEF Deals
  <1>4. CASE PulseEvent(t)
    <2>1. PICK o \in Event : Ready(t) /\ Step({pulse(sys, t, o)})
      BY <1>4 DEF PulseEvent
    <2>2. sys' = pulse(sys, t, o) /\ Good(sys) /\ sys.wait[t] = Idle
      BY <2>1, ReadyFacts, StepFacts
    <2>. QED  BY <2>2, PulseGrants DEF Deals
  <1>. QED  BY <1>1, <1>2, <1>3, <1>4

\* A signal gives back, and the wait after it takes.
LEMMA SignalObjectAndWaitDeals ==
    ASSUME IInv, NEW t \in Thread, SignalObjectAndWait(t)
    PROVE  Deals(t, sys, sys')
  <1>1. PICK o \in uses \ (RwLock \cup CondVar), p \in uses \ (RwLock \cup CondVar) :
            /\ Ready(t)
            /\ Step({IF r.outcome # "none" \/ (o \in Semaphore /\ sys.count[o] = MaxCount[o]) THEN r
                     ELSE WaitFor(r, t, p) : r \in SignalObject(sys, t, o)})
    BY DEF SignalObjectAndWait
  <1>2. Good(sys) /\ sys.wait[t] = Idle /\ o \in Object \ CondVar /\ p \in Object \ CondVar
    BY <1>1, ReadyFacts
  <1>3. PICK q \in SignalObject(sys, t, o) : sys' = q \/ sys' = WaitFor(q, t, p)
    BY <1>1, StepFacts
  <1>4. Good(q) /\ q.wait[t] = Idle /\ Gives(t, sys, q)
    BY <1>2, SignalObjectGood, SignalObjectGives DEF Fine, Unlocked
  <1>5. Grants(q, sys')
    BY <1>2, <1>3, <1>4, GrantsItself, WaitForGrants
  <1>. QED  BY <1>4, <1>5, GivesThenGrants, GivesDeals

\* The end of a thread grants what those it hands the processor take.
LEMMA FinishDeals ==
    ASSUME IInv, NEW t \in Thread, Finish(t)
    PROVE  Deals(t, sys, sys')
  <1>. DEFINE q == Ended(sys, t)
              f == Signal(q, t, t)
              id == Main(t)
  <1>1. Ready(t) /\ Step({unpark_all(f, id)})
    BY DEF Finish, Ended
  <1>2. Good(sys) /\ sys.wait[t] = Idle
    BY <1>1, ReadyFacts
  <1>3. Good(f) /\ t \in f.finished
    BY <1>2, EndedGood
  <1>4. id \in WaitsetId /\ Endable(f, id)
    BY <1>3 DEF WaitsetId, Object, Endable, Main
  <1>5. q \in State /\ q.wait = sys.wait /\ Grants(sys, q)
    BY <1>2, ElseGrants DEF Good, State, Ended
  <1>6. sys' = unpark_all(f, id)
    BY <1>1, StepFacts
  <1>. HIDE DEF q, id
  <1>7. NewsOnly(q, f) /\ Grants(q, f)
    <2>1. t \in Object
      BY DEF Object
    <2>. QED  BY <1>5, <2>1, SyncNews, ElseGrants
  <1>. HIDE DEF f
  <1>8. f.wait[t] = Idle
    BY <1>2, <1>5, <1>7 DEF NewsOnly
  <1>9. IdleSpared(f, sys')
    BY <1>3, <1>4, <1>6, UnparkAllGood
  <1>10. Grants(sys, sys')
    BY <1>5, <1>7, <1>8, <1>9, IdleGrants, GrantsTransitive
  <1>. QED  BY <1>10 DEF Deals

\* An unparked thread takes what it was parked for if it is still free.
LEMMA ContinueDeals ==
    ASSUME IInv, NEW t \in Thread, Continue(t)
    PROVE  Deals(t, sys, sys')
  <1>. DEFINE w == sys.wait[t]
              r == Leaves(sys, t)
  <1>1. /\ ~w.parked
        /\ Step(CASE w.op = "lock" -> {LockOrPark(r, t, w.on[1])}
                  [] w.op = "lock_shared" -> {LockSharedOrPark(r, t, w.on[1])}
                  [] w.op = "condvar" -> {lock_exclusive(r, t, w.on[2])}
                  [] w.op = "join" -> {Take(r, t, w.on[1])}
                  [] OTHER -> {})
    BY DEF Continue, Leaves
  <1>2. Good(sys) /\ w \in Waits /\ MayWait(sys, t, w)
    BY DEF IInv, Good, State, Waiting
  <1>3. Good(r) /\ NowWaits(sys, r, t, Idle)
    BY <1>1, <1>2, LeavesGood
  <1>4. SameHeld(sys, r)
    BY <1>2 DEF Good, State, SameHeld, Leaves
  <1>. HIDE DEF r
  <1>5. r.wait[t] = Idle /\ r.finished = sys.finished /\ SameLocks(sys, r)
    BY <1>3 DEF NowWaits
  <1>. HIDE DEF w
  <1>6. \/ w.op = "lock" /\ sys' = LockOrPark(r, t, w.on[1])
        \/ w.op = "lock_shared" /\ sys' = LockSharedOrPark(r, t, w.on[1])
        \/ w.op = "condvar" /\ sys' = lock_exclusive(r, t, w.on[2])
        \/ w.op = "join" /\ sys' = Take(r, t, w.on[1])
    BY <1>1 DEF Step
  <1>7. CASE w.op = "lock" /\ sys' = LockOrPark(r, t, w.on[1])
    <2>1. PICK m \in Mutex : w.on = <<m>>
      BY <1>2, <1>7 DEF Waits, Sensible, Idle
    <2>2. sys' = LockOrPark(r, t, m)
      BY <1>7, <2>1
    <2>3. Deals(t, r, sys')
      BY <1>3, <1>5, <2>2, LockOrParkGrants DEF Deals
    <2>. QED  BY <1>4, <2>3, DealsAlike
  <1>8. CASE w.op = "lock_shared" /\ sys' = LockSharedOrPark(r, t, w.on[1])
    <2>1. PICK m \in RwLock : w.on = <<m>>
      BY <1>2, <1>8 DEF Waits, Sensible, Idle
    <2>2. sys' = LockSharedOrPark(r, t, m)
      BY <1>8, <2>1
    <2>3. r.shared_owner[m][t] = 0
      BY <1>2, <1>5, <1>8, <2>1 DEF MayWait, SameLocks
    <2>4. Deals(t, r, sys')
      BY <1>3, <1>5, <2>2, <2>3, LockSharedOrParkDeals
    <2>. QED  BY <1>4, <2>4, DealsAlike
  <1>9. CASE w.op = "condvar" /\ sys' = lock_exclusive(r, t, w.on[2])
    <2>1. PICK c \in CondVar, m \in Mutex : w.on = <<c, m>>
      BY <1>2, <1>9 DEF Waits, Sensible, Idle
    <2>2. sys' = lock_exclusive(r, t, m)
      BY <1>9, <2>1
    <2>3. Deals(t, r, sys')
      BY <1>3, <1>5, <2>2, LockExclusiveGrants DEF Deals
    <2>. QED  BY <1>4, <2>3, DealsAlike
  <1>10. CASE w.op = "join" /\ sys' = Take(r, t, w.on[1])
    <2>1. PICK u \in Thread : w.on = <<u>>
      BY <1>2, <1>10 DEF Waits, Sensible, Idle
    <2>2. sys' = Take(r, t, u)
      BY <1>10, <2>1
    <2>3. u \in Object \ CondVar /\ u \in r.finished
      BY <1>1, <1>2, <1>5, <1>10, <2>1, KindAssumption DEF MayWait, Object
    <2>4. is_signaled(r, u)
      BY <2>3, SignaledKinds
    <2>5. Deals(t, r, sys')
      BY <1>3, <1>5, <2>2, <2>3, <2>4, TakeGrants DEF Deals
    <2>. QED  BY <1>4, <2>5, DealsAlike
  <1>. QED  BY <1>6, <1>7, <1>8, <1>9, <1>10

\* Timeouts and spurious wakeups.
LEMMA TimeoutsDeal ==
    ASSUME IInv, NEW t \in Thread, Timeout(t) \/ Spurious(t)
    PROVE  Deals(t, sys, sys')
  <1>. DEFINE w == sys.wait[t]
              r == Removed(sys, t)
              u == Unparked(sys, t)
  <1>1. Good(sys) /\ sys \in State /\ w \in Waits
    BY DEF IInv, Good, State
  <1>2. /\ w.parked
        /\ \/ Step({IF w.op = "condvar" THEN u ELSE GiveUp(r, t, w.on)})
           \/ Step({IF w.op = "condvar" THEN OneFewer(u, w.on[1]) ELSE acquire(r, t, w.on[1])})
    BY DEF Timeout, Spurious, Unparked, Removed, OneFewer
  <1>3. Grants(sys, r) /\ Grants(sys, u)
    BY <1>1, ElseGrants
  <1>4. r \in State /\ (w.op = "condvar" => u \in State)
    BY <1>1, <1>2, RemovedGood, UnparkedGood DEF Good
  <1>. HIDE DEF w, r, u
  <1>5. \/ w.op = "condvar" /\ (sys' = u \/ sys' = OneFewer(u, w.on[1]))
        \/ sys' = GiveUp(r, t, w.on) \/ sys' = acquire(r, t, w.on[1])
    BY <1>2, StepFacts
  <1>6. Grants(u, sys') \/ Grants(r, sys')
    <2>1. CASE w.op = "condvar" /\ (sys' = u \/ sys' = OneFewer(u, w.on[1]))
      BY <1>4, <2>1, GrantsItself, ElseGrants
    <2>2. CASE sys' = GiveUp(r, t, w.on) \/ sys' = acquire(r, t, w.on[1])
      BY <1>4, <2>2, ElseGrants
    <2>. QED  BY <1>5, <2>1, <2>2
  <1>. QED  BY <1>3, <1>6, GrantsTransitive DEF Deals

\* So does every step.
LEMMA StepDeals ==
    ASSUME IInv, Next
    PROVE  \E t \in Thread : Deals(t, sys, sys')
  <1>1. PICK t \in Thread :
        \/ LockExclusive(t) \/ TryLockExclusive(t) \/ LockShared(t) \/ TryLockShared(t) \/ Unlock(t)
        \/ CondVarWait(t) \/ Notify(t)
        \/ WaitForSingleObject(t) \/ TryWait(t) \/ GetValue(t) \/ WaitForMultipleObjects(t)
        \/ Post(t) \/ SetEvent(t) \/ ResetEvent(t) \/ PulseEvent(t) \/ SignalObjectAndWait(t)
        \/ Finish(t) \/ Continue(t) \/ Timeout(t) \/ Spurious(t)
    BY DEF Next
  <1>2. Deals(t, sys, sys')
    BY <1>1, LocksDeal, CondVarWaitDeals, NotifyDeals, WaitsDeal, SignalsDeal,
       SignalObjectAndWaitDeals, FinishDeals, ContinueDeals, TimeoutsDeal
  <1>. QED  BY <1>2

-----------------------------------------------------------------------------
(* The mapping                                                             *)

\* What is granted from a state q is granted from its owners and units.
LEMMA GrantsMapped ==
    ASSUME Good(sys'), NEW q, Grants(q, sys'), NEW o, NEW c, q.owner = o, q.count = c,
           \A p \in Semaphore : c[p] \in Nat
    PROVE  HS!Grant(o, c) /\ ReadersIn(sys') = ReadersIn(q)
  <1>1. sys'.owner \in [Mutex -> Thread \cup {Free, Shared}] /\ sys'.count \in [Semaphore -> Nat]
    BY DEF Good, State
  <1>2. \A m \in Mutex : sys'.owner[m] = o[m] \/ (o[m] = Free /\ sys'.owner[m] \in Thread)
    BY DEF Grants
  <1>3. ASSUME NEW p \in Semaphore PROVE sys'.count[p] <= c[p]
    <2>1. c[p] <= c[p]
      OBVIOUS
    <2>. QED  BY <2>1 DEF Grants
  <1>. QED  BY <1>1, <1>2, <1>3 DEF HS!Grant, Grants

\* What t deals is a step of Holders.
LEMMA DealsMapped ==
    ASSUME Good(sys), Good(sys'), NEW t \in Thread, Deals(t, sys, sys')
    PROVE  HS!Next
  <1>. DEFINE R == ReadersIn(sys)
  <1>1. /\ \A p \in Semaphore : sys.count[p] \in Nat /\ MaxCount[p] \in Nat
        /\ sys.count \in [Semaphore -> Nat]
    BY BoundAssumption DEF Good, State
  <1>2. CASE Grants(sys, sys')
    <2>1. HS!Grant(sys.owner, sys.count) /\ ReadersIn(sys') = R
      BY <1>1, <1>2, GrantsMapped
    <2>2. HS!Acquire
      BY <2>1 DEF HS!Acquire, ReadersIn
    <2>. QED  BY <2>2 DEF HS!Next
  <1>3. ASSUME NEW q, Returns(t, sys, q), Grants(q, sys') PROVE HS!Next
    <2>1. PICK m \in Mutex :
              /\ sys.owner[m] = t /\ q.owner = [sys.owner EXCEPT ![m] = Free]
              /\ ReadersIn(q) = R /\ q.count = sys.count
      BY <1>3 DEF Returns
    <2>. DEFINE o == [sys.owner EXCEPT ![m] = Free]
    <2>2. HS!Grant(o, sys.count) /\ ReadersIn(sys') = R
      <3>. HIDE DEF o
      <3>1. q.owner = o
        BY <2>1 DEF o
      <3>. QED  BY <1>1, <1>3, <2>1, <3>1, GrantsMapped
    <2>3. HS!Release(t, m)
      BY <2>1, <2>2 DEF HS!Release, ReadersIn
    <2>. QED  BY <2>3 DEF HS!Next
  <1>4. ASSUME NEW q, LeavesReaders(t, sys, q), Grants(q, sys') PROVE HS!Next
    <2>1. PICK m \in Mutex :
              /\ t \in R[m] /\ ReadersIn(q) = [R EXCEPT ![m] = @ \ {t}]
              /\ q.owner = IF R[m] = {t} THEN [sys.owner EXCEPT ![m] = Free] ELSE sys.owner
              /\ q.count = sys.count
      BY <1>4 DEF LeavesReaders
    <2>. DEFINE o == IF R[m] = {t} THEN [sys.owner EXCEPT ![m] = Free] ELSE sys.owner
    <2>2. HS!Grant(o, sys.count) /\ ReadersIn(sys') = [R EXCEPT ![m] = @ \ {t}]
      <3>. HIDE DEF o, R
      <3>1. q.owner = o
        BY <2>1 DEF o
      <3>2. HS!Grant(o, sys.count) /\ ReadersIn(sys') = ReadersIn(q)
        BY <1>1, <1>4, <2>1, <3>1, GrantsMapped
      <3>. QED  BY <2>1, <3>2
    <2>3. HS!Leave(t, m)
      BY <2>1, <2>2 DEF HS!Leave, ReadersIn
    <2>. QED  BY <2>3 DEF HS!Next
  <1>5. ASSUME NEW q, Posts(sys, q), Grants(q, sys') PROVE HS!Next
    <2>1. PICK p \in Semaphore : \E n \in 1 .. MaxCount[p] :
              /\ sys.count[p] + n <= MaxCount[p] /\ q.count = [sys.count EXCEPT ![p] = @ + n]
              /\ q.owner = sys.owner /\ ReadersIn(q) = R
      BY <1>5 DEF Posts
    <2>2. PICK n \in 1 .. MaxCount[p] :
              /\ sys.count[p] + n <= MaxCount[p] /\ q.count = [sys.count EXCEPT ![p] = @ + n]
              /\ q.owner = sys.owner /\ ReadersIn(q) = R
      BY <2>1
    <2>. DEFINE c == [sys.count EXCEPT ![p] = @ + n]
    <2>3. \A x \in Semaphore : c[x] \in Nat
      <3>1. sys.count[p] + n \in Nat
        BY <1>1
      <3>. QED  BY <1>1, <3>1
    <2>4. HS!Grant(sys.owner, c) /\ ReadersIn(sys') = R
      <3>. HIDE DEF c, R
      <3>1. q.count = c
        BY <2>2 DEF c
      <3>. QED  BY <1>5, <2>2, <2>3, <3>1, GrantsMapped
    <2>5. HS!Post(p, n)
      BY <2>2, <2>4 DEF HS!Post, ReadersIn
    <2>. QED  BY <2>5 DEF HS!Next
  <1>6. CASE EntersReaders(t, sys, sys')
    <2>1. PICK m \in Mutex :
              /\ sys.owner[m] \in {Free, Shared} /\ sys'.owner = [sys.owner EXCEPT ![m] = Shared]
              /\ ReadersIn(sys') = [R EXCEPT ![m] = @ \cup {t}] /\ sys'.count = sys.count
      BY <1>6 DEF EntersReaders
    <2>2. HS!Enter(t, m)
      BY <2>1 DEF HS!Enter, ReadersIn
    <2>. QED  BY <2>2 DEF HS!Next
  <1>. QED  BY <1>2, <1>3, <1>4, <1>5, <1>6 DEF Deals

\* Blocking implements Holders: whatever an operation wakes, its thread gives back one
\* lock or posts to one semaphore at most, and nobody has what another still holds.
THEOREM Refinement == Spec => ImplementsHolders
  <1>1. Init => HS!Init
    BY DEF Init, HS!Init
  <1>2. IInv /\ IInv' /\ [Next]_vars => [HS!Next]_HS!vars
    <2>. SUFFICES ASSUME IInv, IInv', [Next]_vars PROVE [HS!Next]_HS!vars
      OBVIOUS
    <2>1. CASE Next
      <3>1. PICK t \in Thread : Deals(t, sys, sys')
        BY <2>1, StepDeals
      <3>2. HS!Next
        BY <3>1, DealsMapped DEF IInv
      <3>. QED  BY <3>2
    <2>2. CASE UNCHANGED vars
      <3>1. sys' = sys
        BY <2>2 DEF vars
      <3>2. UNCHANGED HS!vars
        BY <3>1 DEF HS!vars
      <3>. QED  BY <3>2
    <2>. QED  BY <2>1, <2>2
  <1>. QED  BY <1>1, <1>2, BlockingInvariant, PTL DEF Spec, ImplementsHolders, HS!Spec
=============================================================================
