------------------------- MODULE MemoryModel_proof -------------------------
(* Proofs about MemoryModel, for every number of threads and objects. *)
EXTENDS MemoryModel, TLAPS

-----------------------------------------------------------------------------
(* Clocks *)

\* assign_max of two clocks is a clock, entry by entry the greater of both.
LEMMA JoinIsClock ==
    ASSUME NEW c \in Clock, NEW d \in Clock
    PROVE  /\ Join(c, d) \in Clock
           /\ \A u \in Thread : /\ c[u] <= Join(c, d)[u] /\ d[u] <= Join(c, d)[u]
                                /\ Join(c, d)[u] = c[u] \/ Join(c, d)[u] = d[u]
  BY BoundAssumption DEF Join, Max2, Clock

\* A thread's step of its own entry leaves the others as they are.
LEMMA TickIsClock ==
    ASSUME NEW c \in Clock, NEW t \in Thread, c[t] < MaxClock
    PROVE  /\ Tick(c, t) \in Clock
           /\ Tick(c, t)[t] = c[t] + 1
           /\ \A u \in Thread \ {t} : Tick(c, t)[u] = c[u]
  BY BoundAssumption DEF Tick, Clock

\* The clock of a thread that knows nothing.
LEMMA ZeroIsClock == Zero \in Clock /\ \A u \in Thread : Zero[u] = 0
  BY BoundAssumption DEF Zero, Clock

\* Positions of the modification order fall in the slots of the ring.
LEMMA SlotOf == \A i \in Int : i % HistorySize \in Slot
  BY DEF HistorySize, Slot

-----------------------------------------------------------------------------
(* Type correctness *)

\* A thread that may still take a step ticks its clock.
LEMMA OwnTick ==
    ASSUME TypeOK, NEW t \in Thread, own(t) < MaxClock
    PROVE  /\ acq_rel_order[t] \in Clock
           /\ own(t) \in 0 .. MaxClock
           /\ Tick(acq_rel_order[t], t) \in Clock
           /\ Tick(acq_rel_order[t], t)[t] = own(t) + 1
           /\ \A u \in Thread \ {t} : Tick(acq_rel_order[t], t)[u] = acq_rel_order[t][u]
  <1>1. acq_rel_order[t] \in Clock
    BY DEF TypeOK
  <1>2. own(t) \in 0 .. MaxClock
    BY <1>1 DEF own, Clock
  <1>. QED  BY <1>1, <1>2, TickIsClock DEF own

\* A record made by a store is well formed.
LEMMA RecordType ==
    ASSUME NEW t \in Thread, NEW mo, NEW c \in Clock, NEW prev \in HistoryRecord,
           NEW rmw \in BOOLEAN, release_fence_order \in [Thread -> Clock]
    PROVE  /\ Released(t, mo, c) \in Clock
           /\ Record(t, mo, c, prev, rmw) \in HistoryRecord
  <1>1. Released(t, mo, c) \in Clock
    BY DEF Released
  <1>2. Join(prev.order, Released(t, mo, c)) \in Clock
    BY <1>1, JoinIsClock DEF HistoryRecord
  <1>3. [[u \in Thread |-> NotSeen] EXCEPT ![t] = c[t]] \in [Thread -> 0 .. NotSeen]
    BY BoundAssumption DEF Clock, NotSeen
  <1>4. c[t] \in 0 .. MaxClock
    BY DEF Clock
  <1>. QED  BY <1>1, <1>2, <1>3, <1>4 DEF Record, HistoryRecord

\* What a thread knows after it has loaded a store, and what it may acquire.
LEMMA LoadType ==
    ASSUME TypeOK, NEW t \in Thread, NEW x \in Atomic, NEW i \in Int, NEW mo,
           own(t) < MaxClock
    PROVE  /\ Rec(x, i) \in HistoryRecord
           /\ Tick(acq_rel_order[t], t) \in Clock
           /\ LoadClock(t, x, i, mo) \in Clock
           /\ LoadFence(t, x, i, mo) \in [Thread -> Clock]
           /\ See(t, x, i, Tick(acq_rel_order[t], t)) \in [Atomic -> [Slot -> HistoryRecord]]
  <1>. DEFINE c == Tick(acq_rel_order[t], t)
  <1>1. Rec(x, i) \in HistoryRecord
    BY SlotOf DEF Rec, TypeOK
  <1>2. c \in Clock
    BY OwnTick
  <1>3. LoadClock(t, x, i, mo) \in Clock
    BY <1>1, <1>2, JoinIsClock DEF LoadClock, HistoryRecord
  <1>4. Join(acquire_fence_order[t], Rec(x, i).order) \in Clock
    BY <1>1, JoinIsClock DEF HistoryRecord, TypeOK
  <1>5. LoadFence(t, x, i, mo) \in [Thread -> Clock]
    BY <1>4 DEF LoadFence, TypeOK
  <1>6. See(t, x, i, c) \in [Atomic -> [Slot -> HistoryRecord]]
    <2>1. c[t] \in 0 .. NotSeen
      BY <1>2, BoundAssumption DEF Clock, NotSeen
    <2>2. [history[x][i % HistorySize] EXCEPT !.last_seen[t] = c[t]] \in HistoryRecord
      BY <2>1, <1>1 DEF HistoryRecord, Rec
    <2>. QED  BY <2>2, SlotOf DEF See, TypeOK
  <1>. QED  BY <1>1, <1>2, <1>3, <1>5, <1>6

\* The initial state is well typed.
LEMMA InitType == Init => TypeOK
  <1>. SUFFICES ASSUME Init PROVE TypeOK
    OBVIOUS
  <1>1. \A t \in Thread : Tick(Zero, t) \in Clock
    BY ZeroIsClock, BoundAssumption DEF Tick, Clock
  <1>2. \A busy \in BOOLEAN : EmptyRecord(busy) \in HistoryRecord
    BY ZeroIsClock, BoundAssumption DEF EmptyRecord, HistoryRecord, Clock, NotSeen
  <1>3. history \in [Atomic -> [Slot -> HistoryRecord]]
    <2>1. PICK garbage \in [Atomic -> BOOLEAN] :
            history = [x \in Atomic |-> [i \in Slot |->
                          EmptyRecord(IF i = 1 THEN garbage[x] ELSE FALSE)]]
      BY DEF Init
    <2>2. \A x \in Atomic, i \in Slot :
            EmptyRecord(IF i = 1 THEN garbage[x] ELSE FALSE) \in HistoryRecord
      <3>1. \A x \in Atomic, i \in Slot : (IF i = 1 THEN garbage[x] ELSE FALSE) \in BOOLEAN
        BY Zenon
      <3>. QED  BY <3>1, <1>2
    <2>. QED  BY <2>1, <2>2
  <1>4. /\ acq_rel_order \in [Thread -> Clock]
        /\ acquire_fence_order \in [Thread -> Clock]
        /\ release_fence_order \in [Thread -> Clock]
        /\ last_yield \in [Thread -> 0 .. MaxClock]
        /\ seq_cst_fence_order \in Clock
    BY <1>1, ZeroIsClock, BoundAssumption DEF Init
  <1>5. /\ current_index \in [Atomic -> Nat]
        /\ order \in [SyncVar -> Clock]
        /\ initialized \in [Var -> BOOLEAN]
        /\ load_timestamp \in [Var -> Clock]
        /\ store_timestamp \in [Var -> Clock]
        /\ test_result = "none"
        /\ accesses = {}
    BY ZeroIsClock DEF Init
  <1>. QED  BY <1>3, <1>4, <1>5 DEF TypeOK, TestResult

\* The log gains a well-formed access.
LEMMA LogType ==
    ASSUME TypeOK, NEW t \in Thread, NEW op \in {"load", "store", "rmw", "plain_load", "plain_store"},
           NEW obj \in Atomic \cup Var, NEW pos \in Int, NEW stamp \in 1 .. MaxClock,
           NEW seq_cst \in BOOLEAN, NEW release \in Clock,
           Log(t, op, obj, pos, stamp, seq_cst, release)
    PROVE  accesses' \subseteq AccessRecord
  <1>. DEFINE a == [thread |-> t, op |-> op, obj |-> obj, pos |-> pos, stamp |-> stamp,
                    seq_cst |-> seq_cst, release |-> release]
  <1>1. a \in AccessRecord
    BY DEF AccessRecord
  <1>2. accesses' = accesses \cup {a}
    BY DEF Log
  <1>. QED  BY <1>1, <1>2 DEF TypeOK

\* atomic_load keeps every variable in its type.
LEMMA LoadAtType ==
    ASSUME TypeOK, NEW t \in Thread, NEW x \in Atomic, NEW i \in Int, NEW mo, LoadAt(t, x, i, mo)
    PROVE  TypeOK'
  <1>. USE DEF LoadAt
  <1>1. own(t) \in 0 .. MaxClock
    BY OwnTick
  <1>2. accesses' \subseteq AccessRecord
    <2>1. own(t) + 1 \in 1 .. MaxClock
      BY <1>1, BoundAssumption
    <2>. QED  BY <2>1, ZeroIsClock, LogType
  <1>3. acq_rel_order' \in [Thread -> Clock]
    BY LoadType DEF TypeOK
  <1>4. /\ acquire_fence_order' \in [Thread -> Clock]
        /\ history' \in [Atomic -> [Slot -> HistoryRecord]]
    BY LoadType
  <1>. QED  BY <1>2, <1>3, <1>4 DEF TypeOK, plainVars

\* So does what atomic_store and atomic_rmw have in common...
LEMMA PublishType ==
    ASSUME TypeOK, NEW t \in Thread, NEW x \in Atomic, NEW mo, NEW c \in Clock, NEW rmw \in BOOLEAN,
           NEW h \in [Atomic -> [Slot -> HistoryRecord]], 0 < c[t],
           Publish(t, x, h, mo, c, rmw), acquire_fence_order' \in [Thread -> Clock]
    PROVE  TypeOK'
  <1>. DEFINE i == current_index[x] + 1
              prev == h[x][current_index[x] % HistorySize]
              rec == Record(t, mo, c, prev, rmw)
  <1>. USE DEF Publish
  <1>1. current_index[x] \in Int /\ i \in Int
    BY DEF TypeOK
  <1>2. prev \in HistoryRecord
    BY <1>1, SlotOf
  <1>3. Released(t, mo, c) \in Clock /\ rec \in HistoryRecord
    BY <1>2, RecordType DEF TypeOK
  <1>4. history' \in [Atomic -> [Slot -> HistoryRecord]]
    BY <1>1, <1>3, SlotOf
  <1>5. current_index' \in [Atomic -> Nat] /\ acq_rel_order' \in [Thread -> Clock]
    BY DEF TypeOK
  <1>6. accesses' \subseteq AccessRecord
    <2>1. c[t] \in 1 .. MaxClock
      BY DEF Clock
    <2>2. CASE rmw
      BY <2>1, <2>2, <1>1, <1>3, LogType
    <2>3. CASE ~rmw
      BY <2>1, <2>3, <1>1, <1>3, LogType
    <2>. QED  BY <2>2, <2>3
  <1>. QED  BY <1>4, <1>5, <1>6 DEF TypeOK, plainVars

\* ... and so atomic_store...
LEMMA StoreType ==
    ASSUME TypeOK, NEW t \in Thread, NEW x \in Atomic, NEW mo, Store(t, x, mo)
    PROVE  TypeOK'
  <1>1. /\ Tick(acq_rel_order[t], t) \in Clock
        /\ Tick(acq_rel_order[t], t)[t] > 0
    BY OwnTick DEF Store
  <1>2. /\ history \in [Atomic -> [Slot -> HistoryRecord]]
        /\ acquire_fence_order' \in [Thread -> Clock]
    BY DEF TypeOK, Store
  <1>3. Publish(t, x, history, mo, Tick(acq_rel_order[t], t), FALSE)
    BY DEF Store
  <1>. QED  BY <1>1, <1>2, <1>3, PublishType

\* ... and atomic_rmw.
LEMMA ReadModifyWriteType ==
    ASSUME TypeOK, NEW t \in Thread, NEW x \in Atomic, NEW mo, ReadModifyWrite(t, x, mo),
           Rec(x, current_index[x]).order[t] <= own(t)
    PROVE  /\ TypeOK'
           /\ LoadClock(t, x, current_index[x], mo)[t] = own(t) + 1
           /\ Tick(LoadClock(t, x, current_index[x], mo), t) \in Clock
           /\ Tick(LoadClock(t, x, current_index[x], mo), t)[t] = own(t) + 2
  <1>. DEFINE i == current_index[x]
              d == Tick(acq_rel_order[t], t)
              c == LoadClock(t, x, i, mo)
  <1>1. /\ own(t) \in 0 .. MaxClock /\ own(t) + 1 < MaxClock /\ own(t) < MaxClock
        /\ i \in Int
    BY OwnTick, BoundAssumption DEF ReadModifyWrite, TypeOK, own, Clock
  <1>2. /\ c \in Clock
        /\ d \in Clock /\ d[t] = own(t) + 1
        /\ Rec(x, i).order \in Clock
        /\ LoadFence(t, x, i, mo) \in [Thread -> Clock]
        /\ See(t, x, i, d) \in [Atomic -> [Slot -> HistoryRecord]]
    BY <1>1, LoadType, OwnTick DEF HistoryRecord
  <1>3. c[t] = own(t) + 1
    <2>1. Join(d, Rec(x, i).order)[t] = own(t) + 1
      <3>1. Rec(x, i).order[t] \in Int
        BY <1>2 DEF Clock
      <3>. QED  BY <3>1, <1>1, <1>2, JoinIsClock
    <2>. QED  BY <2>1, <1>2 DEF LoadClock
  <1>4. Tick(c, t) \in Clock /\ Tick(c, t)[t] = own(t) + 2
    BY <1>1, <1>2, <1>3, TickIsClock
  <1>5. /\ Publish(t, x, See(t, x, i, d), mo, Tick(c, t), TRUE)
        /\ acquire_fence_order' \in [Thread -> Clock]
    BY <1>2 DEF ReadModifyWrite
  <1>6. TypeOK'
    <2>1. 0 < Tick(c, t)[t]
      BY <1>1, <1>4
    <2>. HIDE DEF c, d
    <2>. QED  BY <2>1, <1>2, <1>4, <1>5, PublishType
  <1>. QED  BY <1>3, <1>4, <1>6

\* A fence stores clocks only.
LEMMA FenceType ==
    ASSUME TypeOK, NEW t \in Thread, NEW mo \in FenceOrder, Fence(t, mo)
    PROVE  TypeOK'
  <1>1. /\ acq_rel_order' \in [Thread -> Clock]
        /\ release_fence_order' \in [Thread -> Clock]
        /\ seq_cst_fence_order' \in Clock
    <2>. DEFINE c == Join(acq_rel_order[t], acquire_fence_order[t])
                d == Join(c, seq_cst_fence_order)
    <2>1. c \in Clock
      BY JoinIsClock DEF TypeOK
    <2>2. d \in Clock
      BY <2>1, JoinIsClock DEF TypeOK
    <2>3. CASE mo = "acquire"
      BY <2>1, <2>3 DEF Fence, atomic_thread_fence_acquire, TypeOK
    <2>4. CASE mo = "release"
      BY <2>4 DEF Fence, atomic_thread_fence_release, TypeOK
    <2>5. CASE mo = "acq_rel"
      BY <2>1, <2>5 DEF Fence, atomic_thread_fence_acq_rel, TypeOK
    <2>6. CASE mo = "seq_cst"
      BY <2>2, <2>6 DEF Fence, atomic_thread_fence_seq_cst, TypeOK
    <2>. QED  BY <2>3, <2>4, <2>5, <2>6, OrderAssumption
  <1>. QED  BY <1>1 DEF Fence, TypeOK, atomicVars, plainVars

\* The global fence stores one of the threads' own clocks everywhere.
LEMMA GlobalFenceType ==
    ASSUME TypeOK, rl_global_fence
    PROVE  TypeOK'
  <1>1. acq_rel_order' \in [Thread -> Clock]
    <2>1. PICK u \in Thread : acq_rel_order' = [t \in Thread |-> [v \in Thread |-> own(u)]]
      BY DEF rl_global_fence
    <2>2. own(u) \in 0 .. MaxClock
      BY DEF TypeOK, own, Clock
    <2>. QED  BY <2>1, <2>2 DEF Clock
  <1>. QED  BY <1>1 DEF rl_global_fence, TypeOK, atomicVars, plainVars

\* Neither does a sync_var leave its type...
LEMMA SynchronizeType ==
    ASSUME TypeOK, NEW t \in Thread, NEW s \in SyncVar, Synchronize(t, s)
    PROVE  TypeOK'
  <1>. DEFINE c == Tick(acq_rel_order[t], t)
              d == Join(c, order[s])
  <1>1. c \in Clock /\ order[s] \in Clock
    BY OwnTick DEF Synchronize, TypeOK
  <1>2. d \in Clock /\ Join(order[s], c) \in Clock
    BY <1>1, JoinIsClock
  <1>3. Join(order[s], d) \in Clock
    BY <1>1, <1>2, JoinIsClock
  <1>4. acq_rel_order' \in [Thread -> Clock] /\ order' \in [SyncVar -> Clock]
    BY <1>1, <1>2, <1>3 DEF Synchronize, sync_acquire, sync_release, sync_acq_rel, TypeOK
  <1>. QED  BY <1>4 DEF Synchronize, TypeOK, atomicVars, plainVars

\* ... nor a plain variable.
LEMMA VarType ==
    ASSUME TypeOK, NEW t \in Thread, NEW v \in Var, VarLoad(t, v) \/ VarStore(t, v)
    PROVE  TypeOK'
  <1>. DEFINE c == Tick(acq_rel_order[t], t)
  <1>1. own(t) \in 0 .. MaxClock /\ own(t) < MaxClock
    BY OwnTick, BoundAssumption DEF VarLoad, VarStore, TypeOK, own, Clock
  <1>2. c \in Clock
    BY <1>1, OwnTick
  <1>3. own(t) + 1 \in 0 .. MaxClock /\ own(t) + 1 \in 1 .. MaxClock
    BY <1>1, BoundAssumption
  <1>4. acq_rel_order' \in [Thread -> Clock]
    BY <1>2 DEF VarLoad, VarStore, TypeOK
  <1>5. accesses' \subseteq AccessRecord
    <2>1. CASE VarLoad(t, v)
      <3>1. Log(t, "plain_load", v, 0, own(t) + 1, FALSE, Zero)
        BY <2>1 DEF VarLoad
      <3>2. [thread |-> t, op |-> "plain_load", obj |-> v, pos |-> 0, stamp |-> own(t) + 1,
             seq_cst |-> FALSE, release |-> Zero] \in AccessRecord
        BY <1>3, ZeroIsClock DEF AccessRecord
      <3>. QED  BY <3>1, <3>2 DEF Log, TypeOK
    <2>2. CASE VarStore(t, v)
      <3>1. Log(t, "plain_store", v, 0, own(t) + 1, FALSE, Zero)
        BY <2>2 DEF VarStore
      <3>2. [thread |-> t, op |-> "plain_store", obj |-> v, pos |-> 0, stamp |-> own(t) + 1,
             seq_cst |-> FALSE, release |-> Zero] \in AccessRecord
        BY <1>3, ZeroIsClock DEF AccessRecord
      <3>. QED  BY <3>1, <3>2 DEF Log, TypeOK
    <2>. QED  BY <2>1, <2>2
  <1>6. /\ load_timestamp' \in [Var -> Clock]
        /\ store_timestamp' \in [Var -> Clock]
        /\ initialized' \in [Var -> BOOLEAN]
    <2>1. \A c1 \in Clock : [c1 EXCEPT ![t] = own(t) + 1] \in Clock
      BY <1>3 DEF Clock
    <2>2. [load_timestamp EXCEPT ![v][t] = own(t) + 1] \in [Var -> Clock]
      BY <2>1 DEF TypeOK
    <2>3. [store_timestamp EXCEPT ![v][t] = own(t) + 1] \in [Var -> Clock]
      BY <2>1 DEF TypeOK
    <2>. QED  BY <2>2, <2>3 DEF VarLoad, VarStore, TypeOK
  <1>. QED  BY <1>4, <1>5, <1>6 DEF VarLoad, VarStore, TypeOK, atomicVars, plainVars

-----------------------------------------------------------------------------
(* No clock is ahead of the threads.  This is what keeps the clock of a      *)
(* read-modify-write in bounds, so it and the types are one invariant.       *)

Inv == TypeOK /\ NoKnowledgeOfTheFuture

\* c claims of no thread more than it will have done after the step.
PastNext(c) == \A u \in Thread : c[u] <= own(u)'

\* Initially every thread knows itself only.
LEMMA InitNoKnowledge == Init => NoKnowledgeOfTheFuture
  <1>. SUFFICES ASSUME Init PROVE NoKnowledgeOfTheFuture
    OBVIOUS
  <1>1. \A t \in Thread : own(t) = 1
    <2>1. acq_rel_order = [t \in Thread |-> Tick(Zero, t)]
      BY DEF Init
    <2>. SUFFICES ASSUME NEW t \in Thread PROVE own(t) = 1
      OBVIOUS
    <2>. QED  BY <2>1 DEF own, Tick, Zero
  <1>2. Past(Zero)
    BY <1>1 DEF Past, Zero
  <1>3. \A t \in Thread : Past(Tick(Zero, t))
    BY <1>1 DEF Past, Tick, Zero
  <1>4. \A x \in Atomic, i \in Slot : history[x][i].order = Zero
    BY DEF Init, EmptyRecord
  <1>5. \A t \in Thread : last_yield[t] = 0
    BY DEF Init
  <1>6. \A t \in Thread : Past(acq_rel_order[t])
    BY <1>3 DEF Init
  <1>7. /\ \A t \in Thread : /\ Past(acquire_fence_order[t])
                            /\ Past(release_fence_order[t])
                            /\ last_yield[t] <= own(t)
        /\ Past(seq_cst_fence_order)
        /\ \A s \in SyncVar : Past(order[s])
        /\ \A v \in Var : Past(load_timestamp[v]) /\ Past(store_timestamp[v])
        /\ accesses = {}
    <2>. HIDE DEF Zero
    <2>. QED  BY <1>1, <1>2, <1>5 DEF Init
  <1>. QED  BY <1>2, <1>4, <1>6, <1>7 DEF NoKnowledgeOfTheFuture

\* The join of two clocks of the past is one.
LEMMA PastJoin ==
    ASSUME NEW c \in Clock, NEW d \in Clock
    PROVE  /\ Past(c) /\ Past(d) => Past(Join(c, d))
           /\ PastNext(c) /\ PastNext(d) => PastNext(Join(c, d))
  <1>1. \A u \in Thread : Join(c, d)[u] = c[u] \/ Join(c, d)[u] = d[u]
    BY JoinIsClock
  <1>. QED  BY <1>1, Zenon DEF Past, PastNext

\* When no thread's own clock goes back, what a step does not touch stays
\* in the past.
LEMMA Kept ==
    ASSUME Inv, TypeOK', \A u \in Thread : own(u) <= own(u)'
    PROVE  /\ \A c \in Clock : Past(c) => PastNext(c)
           /\ \A t \in Thread : /\ PastNext(acq_rel_order[t])
                                /\ PastNext(acquire_fence_order[t])
                                /\ PastNext(release_fence_order[t])
                                /\ last_yield[t] <= own(t)'
           /\ PastNext(seq_cst_fence_order)
           /\ \A x \in Atomic, i \in Slot : PastNext(history[x][i].order)
           /\ \A s \in SyncVar : PastNext(order[s])
           /\ \A v \in Var : PastNext(load_timestamp[v]) /\ PastNext(store_timestamp[v])
           /\ \A a \in accesses : a.stamp <= own(a.thread)'
  <1>1. \A t \in Thread : own(t) \in Int /\ own(t)' \in Int
    BY DEF Inv, TypeOK, own, Clock
  <1>2. \A c \in Clock : Past(c) => PastNext(c)
    BY <1>1 DEF Past, PastNext, Clock
  <1>3. \A t \in Thread : last_yield[t] <= own(t)'
    BY <1>1 DEF Inv, TypeOK, NoKnowledgeOfTheFuture
  <1>4. \A a \in accesses : a.stamp <= own(a.thread)'
    <2>1. \A a \in accesses : a.thread \in Thread /\ a.stamp \in Int
      <3>1. accesses \subseteq AccessRecord
        BY DEF Inv, TypeOK
      <3>2. \A a \in accesses : a.thread \in Thread /\ a.stamp \in 1 .. MaxClock
        BY <3>1 DEF AccessRecord
      <3>. QED  BY <3>2
    <2>2. \A a \in accesses : a.stamp <= own(a.thread)
      BY DEF Inv, NoKnowledgeOfTheFuture
    <2>. QED  BY <1>1, <2>1, <2>2
  <1>5. \A x \in Atomic, i \in Slot : history[x][i].order \in Clock
    BY DEF Inv, TypeOK, HistoryRecord
  <1>. QED  BY <1>2, <1>3, <1>4, <1>5 DEF Inv, TypeOK, NoKnowledgeOfTheFuture

\* A thread that ticks its clock n times and leaves the others' alone.
LEMMA OwnGrows ==
    ASSUME Inv, NEW t \in Thread, NEW c \in Clock,
           acq_rel_order' = [acq_rel_order EXCEPT ![t] = c], own(t) <= c[t]
    PROVE  /\ own(t)' = c[t]
           /\ \A u \in Thread : own(u) <= own(u)'
           /\ \A u \in Thread \ {t} : own(u)' = own(u)
  BY DEF Inv, TypeOK, own, Clock

\* A thread that has ticked its clock, and joined to it a clock of the past.
LEMMA JoinedClock ==
    ASSUME Inv, NEW t \in Thread, own(t) < MaxClock, NEW d \in Clock, Past(d)
    PROVE  LET c == Tick(acq_rel_order[t], t)
           IN  /\ c \in Clock /\ c[t] = own(t) + 1
               /\ Join(c, d) \in Clock /\ Join(c, d)[t] = own(t) + 1
               /\ \A u \in Thread \ {t} : c[u] <= own(u) /\ Join(c, d)[u] <= own(u)
  <1>. DEFINE c == Tick(acq_rel_order[t], t)
  <1>1. /\ c \in Clock /\ c[t] = own(t) + 1
        /\ \A u \in Thread \ {t} : c[u] = acq_rel_order[t][u]
        /\ own(t) \in 0 .. MaxClock
    BY OwnTick DEF Inv
  <1>2. \A u \in Thread : acq_rel_order[t][u] <= own(u) /\ d[u] <= own(u)
    BY DEF Inv, NoKnowledgeOfTheFuture, Past
  <1>. HIDE DEF c
  <1>3. Join(c, d) \in Clock /\ \A u \in Thread : /\ c[u] <= Join(c, d)[u]
                                                  /\ Join(c, d)[u] = c[u] \/ Join(c, d)[u] = d[u]
    BY <1>1, JoinIsClock
  <1>4. Join(c, d)[t] = own(t) + 1
    <2>1. d[t] <= own(t) /\ d[t] \in Int
      BY <1>2 DEF Clock
    <2>. QED  BY <2>1, <1>1, <1>3
  <1>5. \A u \in Thread \ {t} : c[u] <= own(u) /\ Join(c, d)[u] <= own(u)
    BY <1>1, <1>2, <1>3
  <1>. QED  BY <1>1, <1>3, <1>4, <1>5 DEF c

\* atomic_load learns of others only what a store has kept.
LEMMA LoadAtNoKnowledge ==
    ASSUME Inv, NEW t \in Thread, NEW x \in Atomic, NEW i \in Int, NEW mo, LoadAt(t, x, i, mo)
    PROVE  Inv'
  <1>. DEFINE c == Tick(acq_rel_order[t], t)
              d == Rec(x, i).order
              e == LoadClock(t, x, i, mo)
  <1>1. TypeOK'
    BY LoadAtType DEF Inv
  <1>2. d \in Clock /\ Past(d)
    <2>1. d \in Clock
      BY LoadType DEF Inv, LoadAt, HistoryRecord
    <2>. QED  BY <2>1, SlotOf DEF Inv, NoKnowledgeOfTheFuture, Rec
  <1>3. /\ e \in Clock /\ e[t] = own(t) + 1 /\ own(t) \in Int
        /\ \A u \in Thread \ {t} : e[u] <= own(u)
    BY <1>2, JoinedClock, OwnTick DEF LoadAt, LoadClock, Inv
  <1>4. /\ own(t)' = own(t) + 1
        /\ \A u \in Thread : own(u) <= own(u)'
        /\ \A u \in Thread \ {t} : own(u)' = own(u)
    <2>1. acq_rel_order' = [acq_rel_order EXCEPT ![t] = e]
      BY DEF LoadAt
    <2>. HIDE DEF e
    <2>2. own(t) <= e[t]
      BY <1>3
    <2>. QED  BY <1>3, <2>1, <2>2, OwnGrows
  <1>5. PastNext(e)
    BY <1>3, <1>4 DEF PastNext
  <1>6. \A u \in Thread : PastNext(acq_rel_order'[u])
    BY <1>1, <1>4, <1>5, Kept DEF LoadAt, Inv, TypeOK
  <1>7. \A u \in Thread : PastNext(acquire_fence_order'[u])
    <2>1. PastNext(d) /\ PastNext(acquire_fence_order[t])
      BY <1>1, <1>2, <1>4, Kept
    <2>2. PastNext(Join(acquire_fence_order[t], d))
      BY <2>1, <1>2, PastJoin DEF Inv, TypeOK
    <2>. QED  BY <2>2, <1>1, <1>4, Kept DEF LoadAt, LoadFence, Inv, TypeOK
  <1>8. \A y \in Atomic, k \in Slot : history'[y][k].order = history[y][k].order
    <2>1. history' = See(t, x, i, c)
      BY DEF LoadAt
    <2>2. history \in [Atomic -> [Slot -> HistoryRecord]]
      BY DEF Inv, TypeOK
    <2>. QED  BY <2>1, <2>2 DEF See, HistoryRecord
  <1>9. \A a \in accesses' : a.stamp <= own(a.thread)'
    <2>1. \A a \in accesses : a.stamp <= own(a.thread)'
      BY <1>1, <1>4, Kept
    <2>. QED  BY <2>1, <1>3, <1>4 DEF LoadAt, Log
  <1>10. NoKnowledgeOfTheFuture'
    <2>1. \A u \in Thread : PastNext(release_fence_order'[u]) /\ last_yield'[u] <= own(u)'
      BY <1>1, <1>4, Kept DEF LoadAt
    <2>2. /\ PastNext(seq_cst_fence_order')
          /\ \A y \in Atomic, k \in Slot : PastNext(history'[y][k].order)
          /\ \A s \in SyncVar : PastNext(order'[s])
          /\ \A v \in Var : PastNext(load_timestamp'[v]) /\ PastNext(store_timestamp'[v])
      BY <1>1, <1>4, <1>8, Kept DEF LoadAt, plainVars
    <2>. QED  BY <2>1, <2>2, <1>6, <1>7, <1>9 DEF NoKnowledgeOfTheFuture, Past, PastNext
  <1>. QED  BY <1>1, <1>10 DEF Inv

\* A new store keeps clocks of the past and of its own thread.
LEMMA PublishNoKnowledge ==
    ASSUME Inv, NEW t \in Thread, NEW x \in Atomic, NEW mo, NEW c \in Clock, NEW rmw \in BOOLEAN,
           own(t) < c[t], \A u \in Thread \ {t} : c[u] <= own(u),
           NEW h \in [Atomic -> [Slot -> HistoryRecord]],
           \A y \in Atomic, k \in Slot : h[y][k].order = history[y][k].order,
           NEW f \in [Thread -> Clock], acquire_fence_order' = f, \A u \in Thread : Past(f[u]),
           Publish(t, x, h, mo, c, rmw)
    PROVE  Inv'
  <1>. DEFINE i == current_index[x]
              prev == h[x][i % HistorySize]
              rec == Record(t, mo, c, prev, rmw)
  <1>0. own(t) \in 0 .. MaxClock /\ c[t] \in 0 .. MaxClock /\ 0 < c[t]
    BY DEF Inv, TypeOK, own, Clock
  <1>1. TypeOK'
    BY <1>0, PublishType DEF Inv
  <1>2. /\ own(t)' = c[t]
        /\ \A u \in Thread : own(u) <= own(u)'
        /\ \A u \in Thread \ {t} : own(u)' = own(u)
    <2>1. own(t) <= c[t]
      BY <1>0
    <2>2. acq_rel_order' = [acq_rel_order EXCEPT ![t] = c]
      BY DEF Publish
    <2>. QED  BY <2>1, <2>2, OwnGrows
  <1>3. PastNext(c)
    BY <1>0, <1>2 DEF PastNext
  <1>4. \A u \in Thread : PastNext(acq_rel_order'[u])
    BY <1>1, <1>2, <1>3, Kept DEF Publish, Inv, TypeOK
  <1>5. i \in Int /\ i % HistorySize \in Slot /\ (i + 1) % HistorySize \in Slot
    BY SlotOf DEF Inv, TypeOK
  <1>6. prev \in HistoryRecord /\ prev.order \in Clock /\ PastNext(prev.order)
    <2>1. prev \in HistoryRecord /\ prev.order = history[x][i % HistorySize].order
      BY <1>5
    <2>. QED  BY <2>1, <1>1, <1>2, <1>5, Kept DEF HistoryRecord
  <1>7. Released(t, mo, c) \in Clock /\ PastNext(Released(t, mo, c))
    BY <1>1, <1>2, <1>3, Kept DEF Released, Inv, TypeOK
  <1>8. PastNext(rec.order)
    <2>1. PastNext(Join(prev.order, Released(t, mo, c)))
      BY <1>6, <1>7, PastJoin
    <2>2. rec.order = Join(prev.order, Released(t, mo, c)) \/ rec.order = c
      BY DEF Record
    <2>. QED  BY <2>1, <2>2, <1>3
  <1>9. \A y \in Atomic, k \in Slot : PastNext(history'[y][k].order)
    <2>1. history' = [h EXCEPT ![x][(i + 1) % HistorySize] = rec]
      BY DEF Publish
    <2>2. \A y \in Atomic, k \in Slot : history'[y][k] = h[y][k] \/ history'[y][k] = rec
      <3>. HIDE DEF rec
      <3>. QED  BY <2>1, <1>5
    <2>3. \A y \in Atomic, k \in Slot : PastNext(h[y][k].order)
      BY <1>1, <1>2, Kept
    <2>. QED  BY <2>2, <2>3, <1>8
  <1>10. \A a \in accesses' : a.stamp <= own(a.thread)'
    <2>1. \A a \in accesses : a.stamp <= own(a.thread)'
      BY <1>1, <1>2, Kept
    <2>. DEFINE a == [thread |-> t, op |-> IF rmw THEN "rmw" ELSE "store", obj |-> x,
                      pos |-> i + 1, stamp |-> c[t], seq_cst |-> mo = "seq_cst",
                      release |-> Released(t, mo, c)]
    <2>2. accesses' = accesses \cup {a}
      BY DEF Publish, Log
    <2>3. a.thread = t /\ a.stamp = c[t]
      OBVIOUS
    <2>. HIDE DEF a
    <2>. QED  BY <2>1, <2>2, <2>3, <1>0, <1>2
  <1>11. \A u \in Thread : PastNext(acquire_fence_order'[u])
    BY <1>1, <1>2, Kept
  <1>12. NoKnowledgeOfTheFuture'
    <2>1. \A u \in Thread : PastNext(release_fence_order'[u]) /\ last_yield'[u] <= own(u)'
      BY <1>1, <1>2, Kept DEF Publish
    <2>2. /\ PastNext(seq_cst_fence_order')
          /\ \A s \in SyncVar : PastNext(order'[s])
          /\ \A v \in Var : PastNext(load_timestamp'[v]) /\ PastNext(store_timestamp'[v])
      BY <1>1, <1>2, Kept DEF Publish, plainVars
    <2>. QED  BY <2>1, <2>2, <1>4, <1>9, <1>10, <1>11 DEF NoKnowledgeOfTheFuture, Past, PastNext
  <1>. QED  BY <1>1, <1>12 DEF Inv

\* atomic_store publishes nothing of the future...
LEMMA StoreNoKnowledge ==
    ASSUME Inv, NEW t \in Thread, NEW x \in Atomic, NEW mo, Store(t, x, mo)
    PROVE  Inv'
  <1>. DEFINE c == Tick(acq_rel_order[t], t)
  <1>1. own(t) < MaxClock /\ own(t) \in Int
    BY OwnTick DEF Store, Inv
  <1>2. Zero \in Clock /\ Past(Zero)
    BY ZeroIsClock DEF Past, Inv, TypeOK, own, Clock
  <1>3. /\ c \in Clock /\ own(t) < c[t]
        /\ \A u \in Thread \ {t} : c[u] <= own(u)
    BY <1>1, <1>2, JoinedClock
  <1>4. /\ history \in [Atomic -> [Slot -> HistoryRecord]]
        /\ acquire_fence_order \in [Thread -> Clock]
        /\ acquire_fence_order' = acquire_fence_order
        /\ \A u \in Thread : Past(acquire_fence_order[u])
    BY DEF Store, Inv, TypeOK, NoKnowledgeOfTheFuture
  <1>5. Publish(t, x, history, mo, c, FALSE)
    BY DEF Store
  <1>. QED  BY <1>3, <1>4, <1>5, PublishNoKnowledge

\* ... nor does atomic_rmw.
LEMMA ReadModifyWriteNoKnowledge ==
    ASSUME Inv, NEW t \in Thread, NEW x \in Atomic, NEW mo, ReadModifyWrite(t, x, mo)
    PROVE  Inv'
  <1>. DEFINE i == current_index[x]
              d == Rec(x, i).order
              b == Tick(acq_rel_order[t], t)
              c == LoadClock(t, x, i, mo)
              h == See(t, x, i, b)
              f == LoadFence(t, x, i, mo)
  <1>1. /\ own(t) \in 0 .. MaxClock /\ own(t) + 1 < MaxClock /\ own(t) < MaxClock
        /\ i \in Int
    BY OwnTick, BoundAssumption DEF ReadModifyWrite, Inv, TypeOK, own, Clock
  <1>2. /\ d \in Clock /\ c \in Clock /\ h \in [Atomic -> [Slot -> HistoryRecord]]
        /\ f \in [Thread -> Clock]
    BY <1>1, LoadType DEF Inv, HistoryRecord
  <1>3. Past(d)
    BY <1>1, SlotOf DEF Inv, NoKnowledgeOfTheFuture, Rec
  <1>4. \A u \in Thread \ {t} : c[u] <= own(u)
    BY <1>1, <1>2, <1>3, JoinedClock DEF LoadClock
  <1>5. /\ Tick(c, t) \in Clock /\ Tick(c, t)[t] = own(t) + 2 /\ c[t] = own(t) + 1
    BY <1>3, ReadModifyWriteType DEF Inv, Past
  <1>6. own(t) < Tick(c, t)[t]
    BY <1>1, <1>5
  <1>7. \A u \in Thread \ {t} : Tick(c, t)[u] <= own(u)
    <2>1. c[t] < MaxClock
      BY <1>1, <1>5
    <2>. HIDE DEF c
    <2>. QED  BY <2>1, <1>2, <1>4, TickIsClock
  <1>8. \A y \in Atomic, k \in Slot : h[y][k].order = history[y][k].order
    BY DEF Inv, TypeOK, See, HistoryRecord
  <1>9. \A u \in Thread : Past(f[u])
    <2>1. Past(Join(acquire_fence_order[t], d))
      BY <1>2, <1>3, PastJoin DEF Inv, TypeOK, NoKnowledgeOfTheFuture
    <2>. QED  BY <2>1 DEF LoadFence, Inv, TypeOK, NoKnowledgeOfTheFuture
  <1>10. Publish(t, x, h, mo, Tick(c, t), TRUE) /\ acquire_fence_order' = f
    BY DEF ReadModifyWrite
  <1>. HIDE DEF b, c, d, f, h
  <1>. QED  BY <1>2, <1>5, <1>6, <1>7, <1>8, <1>9, <1>10, PublishNoKnowledge

\* A fence moves clocks of the past around.
LEMMA FenceNoKnowledge ==
    ASSUME Inv, NEW t \in Thread, NEW mo \in FenceOrder, Fence(t, mo)
    PROVE  Inv'
  <1>. DEFINE c == Join(acq_rel_order[t], acquire_fence_order[t])
              d == Join(c, seq_cst_fence_order)
  <1>1. TypeOK'
    BY FenceType DEF Inv
  <1>2. /\ acq_rel_order \in [Thread -> Clock]
        /\ release_fence_order \in [Thread -> Clock]
        /\ acq_rel_order[t] \in Clock /\ Past(acq_rel_order[t])
        /\ acquire_fence_order[t] \in Clock /\ Past(acquire_fence_order[t])
        /\ seq_cst_fence_order \in Clock /\ Past(seq_cst_fence_order)
    BY DEF Inv, TypeOK, NoKnowledgeOfTheFuture
  <1>3. c \in Clock /\ Past(c)
    BY <1>2, JoinIsClock, PastJoin
  <1>4. d \in Clock /\ Past(d)
    BY <1>2, <1>3, JoinIsClock, PastJoin
  <1>. DEFINE Moved(e, f, g) ==
                /\ acq_rel_order' = [acq_rel_order EXCEPT ![t] = e]
                /\ release_fence_order' = [release_fence_order EXCEPT ![t] = f]
                /\ seq_cst_fence_order' = g
  <1>5. \E e, f, g \in Clock :
            Past(e) /\ Past(f) /\ Past(g) /\ own(t) <= e[t] /\ Moved(e, f, g)
    <2>1. /\ release_fence_order[t] \in Clock /\ Past(release_fence_order[t])
          /\ own(t) <= acq_rel_order[t][t]
      BY <1>2 DEF Inv, NoKnowledgeOfTheFuture, own, Clock
    <2>2. own(t) <= c[t] /\ own(t) <= d[t]
      <3>1. own(t) \in Int /\ c[t] \in Int /\ d[t] \in Int
        <4>. HIDE DEF c, d
        <4>. QED  BY <1>2, <1>3, <1>4 DEF own, Clock
      <3>2. own(t) <= c[t]
        BY <1>2, JoinIsClock DEF own
      <3>3. c[t] <= d[t]
        <4>. HIDE DEF c
        <4>. QED  BY <1>2, <1>3, JoinIsClock
      <3>. HIDE DEF c, d
      <3>. QED  BY <3>1, <3>2, <3>3
    <2>. HIDE DEF c, d
    <2>3. CASE mo = "acquire"
      <3>1. Moved(c, release_fence_order[t], seq_cst_fence_order)
        BY <2>3, <1>2 DEF Fence, atomic_thread_fence_acquire, c
      <3>. QED  BY <3>1, <2>1, <2>2, <1>2, <1>3
    <2>4. CASE mo = "release"
      <3>1. Moved(acq_rel_order[t], acq_rel_order[t], seq_cst_fence_order)
        <4>1. atomic_thread_fence_release(t)
          BY <2>4 DEF Fence
        <4>2. acq_rel_order = [acq_rel_order EXCEPT ![t] = acq_rel_order[t]]
          BY <1>2
        <4>. QED  BY <4>1, <4>2 DEF atomic_thread_fence_release
      <3>. QED  BY <3>1, <2>1, <1>2
    <2>5. CASE mo = "acq_rel"
      <3>1. Moved(c, c, seq_cst_fence_order)
        BY <2>5, <1>2 DEF Fence, atomic_thread_fence_acq_rel, c
      <3>. QED  BY <3>1, <2>2, <1>2, <1>3
    <2>6. CASE mo = "seq_cst"
      <3>1. Moved(d, d, d)
        BY <2>6, <1>2 DEF Fence, atomic_thread_fence_seq_cst, c, d
      <3>. QED  BY <3>1, <2>2, <1>4
    <2>. QED  BY <2>3, <2>4, <2>5, <2>6, OrderAssumption
  <1>6. PICK e, f, g \in Clock :
            Past(e) /\ Past(f) /\ Past(g) /\ own(t) <= e[t] /\ Moved(e, f, g)
    BY <1>5
  <1>7. \A u \in Thread : own(u) <= own(u)'
    BY <1>6, OwnGrows
  <1>8. PastNext(e) /\ PastNext(f) /\ PastNext(g)
    BY <1>1, <1>6, <1>7, Kept
  <1>9. /\ \A u \in Thread : PastNext(acq_rel_order'[u]) /\ PastNext(release_fence_order'[u])
        /\ PastNext(seq_cst_fence_order')
    BY <1>1, <1>2, <1>6, <1>7, <1>8, Kept
  <1>10. NoKnowledgeOfTheFuture'
    <2>1. /\ \A u \in Thread : PastNext(acquire_fence_order'[u]) /\ last_yield'[u] <= own(u)'
          /\ \A y \in Atomic, k \in Slot : PastNext(history'[y][k].order)
          /\ \A s \in SyncVar : PastNext(order'[s])
          /\ \A v \in Var : PastNext(load_timestamp'[v]) /\ PastNext(store_timestamp'[v])
          /\ \A a \in accesses' : a.stamp <= own(a.thread)'
      BY <1>1, <1>7, Kept DEF Fence, atomicVars, plainVars
    <2>. QED  BY <2>1, <1>9 DEF NoKnowledgeOfTheFuture, Past, PastNext
  <1>. QED  BY <1>1, <1>10 DEF Inv

\* The global fence brings every thread to the greatest of their clocks.
LEMMA GlobalFenceNoKnowledge ==
    ASSUME Inv, rl_global_fence
    PROVE  Inv'
  <1>1. TypeOK'
    BY GlobalFenceType DEF Inv
  <1>2. PICK max \in {own(t) : t \in Thread} :
            /\ \A t \in Thread : own(t) <= max
            /\ acq_rel_order' = [t \in Thread |-> [u \in Thread |-> max]]
    BY DEF rl_global_fence
  <1>3. max \in Int
    BY DEF Inv, TypeOK, own, Clock
  <1>4. \A u \in Thread : own(u)' = max
    BY <1>2 DEF own
  <1>5. \A u \in Thread : own(u) <= own(u)'
    BY <1>2, <1>4
  <1>6. \A u \in Thread : PastNext(acq_rel_order'[u])
    BY <1>2, <1>3, <1>4 DEF PastNext
  <1>7. /\ \A u \in Thread : /\ PastNext(acquire_fence_order'[u])
                             /\ PastNext(release_fence_order'[u])
                             /\ last_yield'[u] <= own(u)'
        /\ PastNext(seq_cst_fence_order')
        /\ \A y \in Atomic, k \in Slot : PastNext(history'[y][k].order)
        /\ \A s \in SyncVar : PastNext(order'[s])
        /\ \A v \in Var : PastNext(load_timestamp'[v]) /\ PastNext(store_timestamp'[v])
        /\ \A a \in accesses' : a.stamp <= own(a.thread)'
    BY <1>1, <1>5, Kept DEF rl_global_fence, atomicVars, plainVars
  <1>8. NoKnowledgeOfTheFuture'
    BY <1>6, <1>7 DEF NoKnowledgeOfTheFuture, Past, PastNext
  <1>. QED  BY <1>1, <1>8 DEF Inv

\* A sync_var keeps and hands over clocks of the past.
LEMMA SynchronizeNoKnowledge ==
    ASSUME Inv, NEW t \in Thread, NEW s \in SyncVar, Synchronize(t, s)
    PROVE  Inv'
  <1>. DEFINE c == Tick(acq_rel_order[t], t)
              d == Join(c, order[s])
  <1>1. TypeOK'
    BY SynchronizeType DEF Inv
  <1>2. /\ own(t) < MaxClock /\ own(t) \in Int
        /\ order \in [SyncVar -> Clock]
        /\ order[s] \in Clock /\ Past(order[s])
    BY OwnTick DEF Synchronize, Inv, TypeOK, NoKnowledgeOfTheFuture
  <1>3. /\ c \in Clock /\ c[t] = own(t) + 1 /\ d \in Clock /\ d[t] = own(t) + 1
        /\ \A u \in Thread \ {t} : c[u] <= own(u) /\ d[u] <= own(u)
    BY <1>2, JoinedClock
  <1>4. \E e, g \in Clock :
            /\ acq_rel_order' = [acq_rel_order EXCEPT ![t] = e]
            /\ e[t] = own(t) + 1 /\ \A u \in Thread \ {t} : e[u] <= own(u)
            /\ order' = [order EXCEPT ![s] = g]
            /\ g = order[s] \/ g = Join(order[s], e)
    <2>1. Join(order[s], c) \in Clock /\ Join(order[s], d) \in Clock
      BY <1>2, <1>3, JoinIsClock
    <2>. HIDE DEF c, d
    <2>2. CASE sync_acquire(t, s)
      <3>1. /\ acq_rel_order' = [acq_rel_order EXCEPT ![t] = d]
            /\ order' = [order EXCEPT ![s] = order[s]]
        BY <2>2, <1>2 DEF sync_acquire, c, d
      <3>. QED  BY <3>1, <1>2, <1>3
    <2>3. CASE sync_release(t, s)
      <3>1. /\ acq_rel_order' = [acq_rel_order EXCEPT ![t] = c]
            /\ order' = [order EXCEPT ![s] = Join(order[s], c)]
        BY <2>3 DEF sync_release, c
      <3>. QED  BY <3>1, <2>1, <1>3
    <2>4. CASE sync_acq_rel(t, s)
      <3>1. /\ acq_rel_order' = [acq_rel_order EXCEPT ![t] = d]
            /\ order' = [order EXCEPT ![s] = Join(order[s], d)]
        BY <2>4 DEF sync_acq_rel, c, d
      <3>. QED  BY <3>1, <2>1, <1>3
    <2>. QED  BY <2>2, <2>3, <2>4 DEF Synchronize
  <1>5. PICK e, g \in Clock :
            /\ acq_rel_order' = [acq_rel_order EXCEPT ![t] = e]
            /\ e[t] = own(t) + 1 /\ \A u \in Thread \ {t} : e[u] <= own(u)
            /\ order' = [order EXCEPT ![s] = g]
            /\ g = order[s] \/ g = Join(order[s], e)
    BY <1>4
  <1>6. /\ own(t)' = own(t) + 1
        /\ \A u \in Thread : own(u) <= own(u)'
        /\ \A u \in Thread \ {t} : own(u)' = own(u)
    <2>1. own(t) <= e[t]
      BY <1>2, <1>5
    <2>. QED  BY <2>1, <1>5, OwnGrows
  <1>7. PastNext(e)
    BY <1>2, <1>5, <1>6 DEF PastNext
  <1>8. PastNext(g)
    <2>1. PastNext(order[s])
      BY <1>1, <1>6, Kept
    <2>2. PastNext(Join(order[s], e))
      BY <2>1, <1>2, <1>5, <1>7, PastJoin
    <2>. QED  BY <2>1, <2>2, <1>5
  <1>9. /\ \A u \in Thread : PastNext(acq_rel_order'[u])
        /\ \A r \in SyncVar : PastNext(order'[r])
    BY <1>1, <1>2, <1>5, <1>6, <1>7, <1>8, Kept DEF Inv, TypeOK
  <1>10. NoKnowledgeOfTheFuture'
    <2>1. /\ \A u \in Thread : /\ PastNext(acquire_fence_order'[u])
                               /\ PastNext(release_fence_order'[u])
                               /\ last_yield'[u] <= own(u)'
          /\ PastNext(seq_cst_fence_order')
          /\ \A y \in Atomic, k \in Slot : PastNext(history'[y][k].order)
          /\ \A v \in Var : PastNext(load_timestamp'[v]) /\ PastNext(store_timestamp'[v])
          /\ \A a \in accesses' : a.stamp <= own(a.thread)'
      BY <1>1, <1>6, Kept DEF Synchronize, atomicVars, plainVars
    <2>. QED  BY <2>1, <1>9 DEF NoKnowledgeOfTheFuture, Past, PastNext
  <1>. QED  BY <1>1, <1>10 DEF Inv

\* A plain variable keeps the times of accesses already made.
LEMMA VarNoKnowledge ==
    ASSUME Inv, NEW t \in Thread, NEW v \in Var, VarLoad(t, v) \/ VarStore(t, v)
    PROVE  Inv'
  <1>. DEFINE c == Tick(acq_rel_order[t], t)
  <1>1. TypeOK'
    BY VarType DEF Inv
  <1>2. own(t) < MaxClock /\ own(t) \in Int
    <2>1. own(t) < MaxClock
      BY DEF VarLoad, VarStore
    <2>. QED  BY <2>1, OwnTick DEF Inv
  <1>3. /\ c \in Clock /\ c[t] = own(t) + 1
        /\ \A u \in Thread \ {t} : c[u] <= own(u)
    <2>1. Zero \in Clock /\ Past(Zero)
      BY ZeroIsClock DEF Past, Inv, TypeOK, own, Clock
    <2>. QED  BY <2>1, <1>2, JoinedClock
  <1>4. acq_rel_order' = [acq_rel_order EXCEPT ![t] = c]
    BY DEF VarLoad, VarStore
  <1>5. /\ own(t)' = own(t) + 1
        /\ \A u \in Thread : own(u) <= own(u)'
        /\ \A u \in Thread \ {t} : own(u)' = own(u)
    <2>1. own(t) <= c[t]
      BY <1>2, <1>3
    <2>. HIDE DEF c
    <2>. QED  BY <2>1, <1>3, <1>4, OwnGrows
  <1>6. \A u \in Thread : PastNext(acq_rel_order'[u])
    <2>1. PastNext(c)
      BY <1>2, <1>3, <1>5 DEF PastNext
    <2>. QED  BY <2>1, <1>1, <1>4, <1>5, Kept DEF Inv, TypeOK
  <1>7. \A w \in Var : PastNext(load_timestamp'[w]) /\ PastNext(store_timestamp'[w])
    <2>1. PastNext(load_timestamp[v]) /\ PastNext(store_timestamp[v])
      BY <1>1, <1>5, Kept
    <2>2. \A d \in Clock : PastNext(d) => PastNext([d EXCEPT ![t] = own(t) + 1])
      BY <1>2, <1>5 DEF PastNext, Clock
    <2>3. /\ PastNext([load_timestamp[v] EXCEPT ![t] = own(t) + 1])
          /\ PastNext([store_timestamp[v] EXCEPT ![t] = own(t) + 1])
      BY <2>1, <2>2 DEF Inv, TypeOK
    <2>. QED  BY <2>3, <1>1, <1>5, Kept DEF VarLoad, VarStore, Inv, TypeOK
  <1>8. \A a \in accesses' : a.stamp <= own(a.thread)'
    <2>1. \A a \in accesses : a.stamp <= own(a.thread)'
      BY <1>1, <1>5, Kept
    <2>2. PICK op \in {"plain_load", "plain_store"} :
            accesses' = accesses \cup
                {[thread |-> t, op |-> op, obj |-> v, pos |-> 0, stamp |-> own(t) + 1,
                  seq_cst |-> FALSE, release |-> Zero]}
      BY DEF VarLoad, VarStore, Log
    <2>. DEFINE a == [thread |-> t, op |-> op, obj |-> v, pos |-> 0, stamp |-> own(t) + 1,
                      seq_cst |-> FALSE, release |-> Zero]
    <2>3. a.thread = t /\ a.stamp = own(t) + 1 /\ accesses' = accesses \cup {a}
      BY <2>2
    <2>. HIDE DEF a
    <2>4. a.stamp <= own(t)'
      BY <2>3, <1>2, <1>5
    <2>. QED  BY <2>1, <2>3, <2>4
  <1>9. NoKnowledgeOfTheFuture'
    <2>1. /\ \A u \in Thread : /\ PastNext(acquire_fence_order'[u])
                               /\ PastNext(release_fence_order'[u])
                               /\ last_yield'[u] <= own(u)'
          /\ PastNext(seq_cst_fence_order')
          /\ \A y \in Atomic, k \in Slot : PastNext(history'[y][k].order)
          /\ \A s \in SyncVar : PastNext(order'[s])
      BY <1>1, <1>5, Kept DEF VarLoad, VarStore, atomicVars
    <2>. QED  BY <2>1, <1>6, <1>7, <1>8 DEF NoKnowledgeOfTheFuture, Past, PastNext
  <1>. QED  BY <1>1, <1>9 DEF Inv

\* A yield notes the thread's own clock.
LEMMA YieldNoKnowledge ==
    ASSUME Inv, NEW t \in Thread, Yield(t)
    PROVE  Inv'
  <1>1. own(t) \in 0 .. MaxClock
    BY DEF Inv, TypeOK, own, Clock
  <1>2. TypeOK'
    BY <1>1 DEF Yield, Inv, TypeOK, atomicVars, plainVars
  <1>3. \A u \in Thread : own(u)' = own(u) /\ own(u) \in Int
    BY DEF Yield, own, Inv, TypeOK, Clock
  <1>4. \A u \in Thread : last_yield'[u] <= own(u)'
    BY <1>1, <1>3 DEF Yield, Inv, TypeOK, NoKnowledgeOfTheFuture
  <1>5. NoKnowledgeOfTheFuture'
    <2>1. \A u \in Thread : own(u) <= own(u)'
      BY <1>3
    <2>2. /\ \A u \in Thread : /\ PastNext(acq_rel_order'[u])
                               /\ PastNext(acquire_fence_order'[u])
                               /\ PastNext(release_fence_order'[u])
          /\ PastNext(seq_cst_fence_order')
          /\ \A y \in Atomic, k \in Slot : PastNext(history'[y][k].order)
          /\ \A s \in SyncVar : PastNext(order'[s])
          /\ \A v \in Var : PastNext(load_timestamp'[v]) /\ PastNext(store_timestamp'[v])
          /\ \A a \in accesses' : a.stamp <= own(a.thread)'
      BY <1>2, <2>1, Kept DEF Yield, atomicVars, plainVars
    <2>. QED  BY <2>2, <1>4 DEF NoKnowledgeOfTheFuture, Past, PastNext
  <1>. QED  BY <1>2, <1>5 DEF Inv

\* A failure and a stutter change no clock.
LEMMA FailNoKnowledge ==
    ASSUME Inv, (\E result \in TestResult : Fail(result)) \/ UNCHANGED vars
    PROVE  Inv'
  <1>1. UNCHANGED <<threadVars, seq_cst_fence_order, atomicVars, order, plainVars, accesses>>
    BY DEF Fail, vars
  <1>2. test_result' \in TestResult
    BY DEF Fail, vars, Inv, TypeOK
  <1>3. TypeOK'
    BY <1>1, <1>2 DEF Inv, TypeOK, threadVars, atomicVars, plainVars
  <1>4. NoKnowledgeOfTheFuture'
    BY <1>1 DEF Inv, NoKnowledgeOfTheFuture, Past, own, threadVars, atomicVars, plainVars
  <1>. QED  BY <1>3, <1>4 DEF Inv

\* A load is of a store in the modification order or fails.
LEMMA LoadCases ==
    ASSUME TypeOK, NEW t \in Thread, NEW x \in Atomic, NEW mo,
           Load(t, x, mo) \/ CompareExchangeFails(t, x, mo)
    PROVE  (\E i \in Int : LoadAt(t, x, i, mo)) \/ Fail("uninitialized")
  <1>1. current_index[x] \in Int
    BY DEF TypeOK
  <1>2. CASE CompareExchangeFails(t, x, mo)
    BY <1>1, <1>2 DEF CompareExchangeFails
  <1>3. CASE Load(t, x, mo)
    <2>1. LoadIndices(t, x, mo) \subseteq Int
      BY <1>1 DEF LoadIndices, Limit, HistorySize
    <2>. QED  BY <1>3, <2>1 DEF Load
  <1>. QED  BY <1>2, <1>3

\* What t may do to the memory, with any memory orders; the yields and the
\* waits of a thread of a test are among it.
AnyStep(t) ==
    \/ \E x \in Atomic :
        \/ \E mo : \/ Load(t, x, mo) \/ CompareExchangeFails(t, x, mo)
                  \/ Store(t, x, mo) \/ ReadModifyWrite(t, x, mo)
        \/ ReadModifyWriteFails(x)
    \/ \E mo \in FenceOrder : Fence(t, mo)
    \/ \E s \in SyncVar : Synchronize(t, s)
    \/ \E v \in Var :
           \/ VarLoad(t, v) \/ VarLoadFails(t, v) \/ VarStore(t, v) \/ VarStoreFails(t, v)
    \/ Yield(t)

\* The iteration may fail for reasons of its own.
AnyNext ==
    \/ rl_global_fence
    \/ \E result \in TestResult : Fail(result)
    \/ \E t \in Thread : AnyStep(t)

\* What is proved of it holds of Spec, and of the tests of Iteration.
AnySpec == Init /\ [][AnyNext]_vars

\* The steps of Spec are among these.
LEMMA NextIsAny == [Next]_vars => [AnyNext]_vars
  <1>1. ASSUME NEW t \in Thread, Step(t) PROVE AnyStep(t)
    <2>1. ASSUME NEW x \in Atomic,
                 \/ \E mo \in LoadOrder : Load(t, x, mo) \/ CompareExchangeFails(t, x, mo)
                 \/ \E mo \in StoreOrder : Store(t, x, mo)
                 \/ \E mo \in RmwOrder : ReadModifyWrite(t, x, mo)
                 \/ ReadModifyWriteFails(x)
          PROVE  AnyStep(t)
      BY <2>1 DEF AnyStep
    <2>. QED  BY <1>1, <2>1 DEF Step, AnyStep
  <1>. QED  BY <1>1 DEF Next, AnyNext

\* So is the specification.
LEMMA SpecIsAny == Spec => AnySpec
  BY NextIsAny, PTL DEF Spec, AnySpec

\* Every step of a thread preserves the invariant.
LEMMA StepInv ==
    ASSUME Inv, NEW t \in Thread, AnyStep(t)
    PROVE  Inv'
  <1>1. ASSUME NEW x \in Atomic, NEW mo, Load(t, x, mo) \/ CompareExchangeFails(t, x, mo)
        PROVE  Inv'
    BY <1>1, LoadCases, LoadAtNoKnowledge, FailNoKnowledge DEF Inv, TestResult
  <1>2. ASSUME NEW x \in Atomic, NEW mo, Store(t, x, mo)
        PROVE  Inv'
    BY <1>2, StoreNoKnowledge
  <1>3. ASSUME NEW x \in Atomic, NEW mo, ReadModifyWrite(t, x, mo)
        PROVE  Inv'
    BY <1>3, ReadModifyWriteNoKnowledge
  <1>4. ASSUME NEW mo \in FenceOrder, Fence(t, mo)
        PROVE  Inv'
    BY <1>4, FenceNoKnowledge
  <1>5. ASSUME NEW s \in SyncVar, Synchronize(t, s)
        PROVE  Inv'
    BY <1>5, SynchronizeNoKnowledge
  <1>6. ASSUME NEW v \in Var, VarLoad(t, v) \/ VarStore(t, v)
        PROVE  Inv'
    BY <1>6, VarNoKnowledge
  <1>8. ASSUME \E x \in Atomic : ReadModifyWriteFails(x)
        PROVE  Inv'
    BY <1>8, FailNoKnowledge DEF ReadModifyWriteFails, TestResult
  <1>9. ASSUME NEW v \in Var, VarLoadFails(t, v) \/ VarStoreFails(t, v)
        PROVE  Inv'
    BY <1>9, FailNoKnowledge DEF VarLoadFails, VarStoreFails, TestResult
  <1>10. CASE Yield(t)
    BY <1>10, YieldNoKnowledge
  <1>. QED  BY <1>1, <1>2, <1>3, <1>4, <1>5, <1>6, <1>8, <1>9, <1>10 DEF AnyStep

\* Of every thread, no clock says more than the thread has done: the types and
\* NoKnowledgeOfTheFuture hold in every reachable state.
THEOREM Invariance == Spec => []Inv
  <1>1. Init => Inv
    BY InitType, InitNoKnowledge DEF Inv
  <1>2. Inv /\ [AnyNext]_vars => Inv'
    BY StepInv, GlobalFenceNoKnowledge, FailNoKnowledge DEF AnyNext
  <1>. QED  BY <1>1, <1>2, SpecIsAny, PTL DEF AnySpec

\* The types of the variables of thread_info, atomic_data, sync_var and
\* var_data, and the bound of every clock.
THEOREM TypeCorrect == Spec => []TypeOK
  BY Invariance, PTL DEF Inv

\* The vector clocks of the code never run ahead of the threads they count.
THEOREM ClocksArePast == Spec => []NoKnowledgeOfTheFuture
  BY Invariance, PTL DEF Inv

-----------------------------------------------------------------------------
(* The ring and the timestamps record the accesses *)

\* Plain accesses are of plain variables, the others of atomics.
OpsFitObjects ==
    \A b \in accesses : IF b.op \in {"plain_load", "plain_store"} THEN b.obj \in Var ELSE b.obj \in Atomic

Recorded ==
    RingHoldsTheLastStores /\ TimestampsAreOfTheLastAccesses /\ OpsFitObjects

\* Initially there is nothing to record.
LEMMA InitRecorded == Init => Recorded
  <1>. SUFFICES ASSUME Init PROVE Recorded
    OBVIOUS
  <1>1. /\ accesses = {}
        /\ \A x \in Atomic : current_index[x] = 0
        /\ \A v \in Var, u \in Thread : load_timestamp[v][u] = 0 /\ store_timestamp[v][u] = 0
    BY DEF Init, Zero
  <1>2. \A x \in Atomic : Stores(x) = {}
    BY <1>1 DEF Stores
  <1>3. RingHoldsTheLastStores
    <2>. SUFFICES ASSUME NEW x \in Atomic
                  PROVE  /\ HoldsTheLast({}, 0, history[x])
                         /\ UsedSlots({}, 0, history[x])
      BY <1>1, <1>2 DEF RingHoldsTheLastStores
    <2>0. HoldsTheLast({}, 0, history[x])
      BY DEF HoldsTheLast
    <2>. SUFFICES ASSUME NEW k \in 0 .. HistorySize - 1, 0 - k \in {-1, 0}
                  PROVE  /\ ~history[x][(0 - k) % HistorySize].busy
                         /\ history[x][(0 - k) % HistorySize].thread = NoThread
      BY <2>0 DEF UsedSlots, HistorySize
    <2>1. PICK garbage \in [Atomic -> BOOLEAN] :
            history = [y \in Atomic |-> [i \in Slot |->
                          EmptyRecord(IF i = 1 THEN garbage[y] ELSE FALSE)]]
      BY DEF Init
    <2>2. (0 - k) % HistorySize \in {0, 2}
      BY DEF HistorySize
    <2>3. history[x][0] = EmptyRecord(FALSE) /\ history[x][2] = EmptyRecord(FALSE)
      BY <2>1 DEF Slot, HistorySize
    <2>. QED  BY <2>2, <2>3 DEF EmptyRecord
  <1>4. TimestampsAreOfTheLastAccesses
    <2>1. \A v \in Var : \A op : Accesses(v, op) = {}
      BY <1>1 DEF Accesses
    <2>. QED  BY <1>1, <2>1 DEF TimestampsAreOfTheLastAccesses
  <1>. QED  BY <1>1, <1>3, <1>4 DEF Recorded, OpsFitObjects

\* Fences, sync_vars, yields and failures record nothing.
LEMMA NothingRecorded ==
    ASSUME Recorded, UNCHANGED <<accesses, current_index, history, initialized,
                                 load_timestamp, store_timestamp>>
    PROVE  Recorded'
  <1>1. RingHoldsTheLastStores'
    BY DEF Recorded, RingHoldsTheLastStores, Stores
  <1>2. TimestampsAreOfTheLastAccesses'
    BY DEF Recorded, TimestampsAreOfTheLastAccesses, Accesses
  <1>. QED  BY <1>1, <1>2 DEF Recorded, OpsFitObjects

\* An access of an atomic is none of a plain variable.
LEMMA TimestampsKept ==
    ASSUME Recorded, NEW a, accesses' = accesses \cup {a}, a.obj \in Atomic,
           UNCHANGED plainVars
    PROVE  TimestampsAreOfTheLastAccesses'
  <1>1. \A v \in Var : \A op : Accesses(v, op)' = Accesses(v, op)
    BY ObjectAssumption DEF Accesses
  <1>2. \A v \in Var : ~initialized[v] => \A b \in accesses' : b.obj # v
    BY ObjectAssumption DEF Recorded, TimestampsAreOfTheLastAccesses
  <1>. QED
    BY <1>1, <1>2 DEF Recorded, TimestampsAreOfTheLastAccesses, plainVars

\* A load or a plain access leaves the stores, and what the ring tells of them.
LEMMA RingKept ==
    ASSUME Recorded, TypeOK, NEW a, accesses' = accesses \cup {a}, a.op \notin {"store", "rmw"},
           UNCHANGED current_index,
           \A x \in Atomic, i \in Slot : /\ history'[x][i].busy = history[x][i].busy
                                         /\ history'[x][i].thread = history[x][i].thread
                                         /\ history'[x][i].timestamp = history[x][i].timestamp
    PROVE  RingHoldsTheLastStores'
  <1>1. \A x \in Atomic : Stores(x)' = Stores(x)
    BY DEF Stores
  <1>2. \A x \in Atomic, k \in 0 .. HistorySize - 1 :
            (current_index[x] - k) % HistorySize \in Slot
    BY SlotOf DEF TypeOK, HistorySize
  <1>. SUFFICES ASSUME NEW x \in Atomic
                PROVE  /\ HoldsTheLast(Stores(x), current_index[x], history'[x])
                       /\ UsedSlots(Stores(x), current_index[x], history'[x])
    BY <1>1 DEF RingHoldsTheLastStores
  <1>3. HoldsTheLast(Stores(x), current_index[x], history[x])
    BY DEF Recorded, RingHoldsTheLastStores
  <1>4. UsedSlots(Stores(x), current_index[x], history[x])
    BY DEF Recorded, RingHoldsTheLastStores
  <1>5. HoldsTheLast(Stores(x), current_index[x], history'[x])
    <2>. SUFFICES ASSUME NEW b \in Stores(x), b.pos > current_index[x] - HistorySize
                  PROVE  /\ history'[x][b.pos % HistorySize].thread = b.thread
                         /\ history'[x][b.pos % HistorySize].timestamp = b.stamp
      BY <1>3 DEF HoldsTheLast
    <2>1. b.pos \in Int
      BY <1>3 DEF HoldsTheLast
    <2>. QED  BY <2>1, <1>3, SlotOf DEF HoldsTheLast
  <1>6. UsedSlots(Stores(x), current_index[x], history'[x])
    BY <1>2, <1>4 DEF UsedSlots
  <1>. QED  BY <1>5, <1>6

\* atomic_load records itself only.
LEMMA LoadAtRecorded ==
    ASSUME Inv, Recorded, NEW t \in Thread, NEW x \in Atomic, NEW i \in Int, NEW mo,
           LoadAt(t, x, i, mo)
    PROVE  Recorded'
  <1>. DEFINE a == [thread |-> t, op |-> "load", obj |-> x, pos |-> i, stamp |-> own(t) + 1,
                    seq_cst |-> mo = "seq_cst", release |-> Zero]
  <1>1. accesses' = accesses \cup {a} /\ a.obj = x /\ a.op = "load"
    BY DEF LoadAt, Log
  <1>2. \A y \in Atomic, k \in Slot : /\ history'[y][k].busy = history[y][k].busy
                                      /\ history'[y][k].thread = history[y][k].thread
                                      /\ history'[y][k].timestamp = history[y][k].timestamp
    <2>1. history' = See(t, x, i, Tick(acq_rel_order[t], t))
      BY DEF LoadAt
    <2>2. history \in [Atomic -> [Slot -> HistoryRecord]]
      BY DEF Inv, TypeOK
    <2>. QED  BY <2>1, <2>2 DEF See, HistoryRecord
  <1>3. UNCHANGED <<plainVars, current_index>>
    BY DEF LoadAt
  <1>. HIDE DEF a
  <1>4. RingHoldsTheLastStores'
    BY <1>1, <1>2, <1>3, RingKept DEF Inv
  <1>5. TimestampsAreOfTheLastAccesses'
    BY <1>1, <1>3, TimestampsKept
  <1>6. OpsFitObjects'
    BY <1>1 DEF Recorded, OpsFitObjects
  <1>. QED  BY <1>4, <1>5, <1>6 DEF Recorded

\* Positions less than the size of the ring apart are in different slots.
LEMMA SlotsDiffer ==
    ASSUME NEW n \in Nat
    PROVE  /\ \A k \in 0 .. HistorySize - 1 : k # 0 =>
                /\ k - 1 \in 0 .. HistorySize - 1 /\ n - (k - 1) = n + 1 - k
                /\ n + 1 - k \in Int
                /\ (n + 1 - k) % HistorySize # (n + 1) % HistorySize
           /\ \A i \in 1 .. n : i > (n + 1) - HistorySize =>
                i % HistorySize # (n + 1) % HistorySize /\ i > n - HistorySize
  <1>1. (n - 1) % 3 # (n + 1) % 3 /\ n % 3 # (n + 1) % 3
    OBVIOUS
  <1>2. \A k \in 0 .. 2 : k # 0 => n + 1 - k = n \/ n + 1 - k = n - 1
    OBVIOUS
  <1>3. \A i \in 1 .. n : i > n - 2 => i = n \/ i = n - 1
    OBVIOUS
  <1>. QED  BY <1>1, <1>2, <1>3 DEF HistorySize

\* The new store is the last of its ring, and the third before it is dropped.
LEMMA PublishRecorded ==
    ASSUME Inv, Recorded, NEW t \in Thread, NEW x \in Atomic, NEW mo, NEW c, NEW rmw \in BOOLEAN,
           NEW h \in [Atomic -> [Slot -> HistoryRecord]],
           \A y \in Atomic, k \in Slot : /\ h[y][k].busy = history[y][k].busy
                                         /\ h[y][k].thread = history[y][k].thread
                                         /\ h[y][k].timestamp = history[y][k].timestamp,
           NEW n \in Nat, n = current_index[x],
           Publish(t, x, h, mo, c, rmw)
    PROVE  Recorded'
  <1>. DEFINE rec == Record(t, mo, c, h[x][n % HistorySize], rmw)
              a == [thread |-> t, op |-> IF rmw THEN "rmw" ELSE "store", obj |-> x,
                    pos |-> n + 1, stamp |-> c[t], seq_cst |-> mo = "seq_cst",
                    release |-> Released(t, mo, c)]
  <1>1. /\ accesses' = accesses \cup {a} /\ a.obj = x /\ a.op \in {"store", "rmw"}
        /\ a.pos = n + 1 /\ a.thread = t /\ a.stamp = c[t]
    BY DEF Publish, Log
  <1>2. /\ current_index' = [current_index EXCEPT ![x] = n + 1]
        /\ history' = [h EXCEPT ![x][(n + 1) % HistorySize] = rec]
        /\ UNCHANGED plainVars
    BY DEF Publish
  <1>3. rec.busy /\ rec.thread = t /\ rec.timestamp = c[t]
    BY DEF Record
  <1>4. current_index \in [Atomic -> Nat]
    BY DEF Inv, TypeOK
  <1>. HIDE DEF a, rec
  <1>5. \A y \in Atomic \ {x} : /\ Stores(y)' = Stores(y)
                                /\ current_index'[y] = current_index[y]
                                /\ current_index[y] \in Nat
    BY <1>1, <1>2, <1>4 DEF Stores
  <1>6. Stores(x)' = Stores(x) \cup {a} /\ current_index'[x] = n + 1
    BY <1>1, <1>2, <1>4 DEF Stores
  <1>7. \A y \in Atomic, i \in Int :
            y # x \/ i % HistorySize # (n + 1) % HistorySize =>
                /\ history'[y][i % HistorySize].busy = history[y][i % HistorySize].busy
                /\ history'[y][i % HistorySize].thread = history[y][i % HistorySize].thread
                /\ history'[y][i % HistorySize].timestamp = history[y][i % HistorySize].timestamp
    <2>. SUFFICES ASSUME NEW y \in Atomic, NEW i \in Int,
                         y # x \/ i % HistorySize # (n + 1) % HistorySize
                  PROVE  history'[y][i % HistorySize] = h[y][i % HistorySize]
      BY SlotOf
    <2>. QED  BY <1>2, SlotOf
  <1>8. history'[x][(n + 1) % HistorySize] = rec
    BY <1>2, SlotOf
  <1>9. RingHoldsTheLastStores'
    <2>1. ASSUME NEW y \in Atomic \ {x}
          PROVE  /\ HoldsTheLast(Stores(y), current_index[y], history'[y])
                 /\ UsedSlots(Stores(y), current_index[y], history'[y])
      <3>1. /\ HoldsTheLast(Stores(y), current_index[y], history[y])
            /\ UsedSlots(Stores(y), current_index[y], history[y])
        BY DEF Recorded, RingHoldsTheLastStores
      <3>2. \A b \in Stores(y) : b.pos \in Int
        BY <3>1 DEF HoldsTheLast
      <3>3. HoldsTheLast(Stores(y), current_index[y], history'[y])
        BY <3>1, <3>2, <1>7 DEF HoldsTheLast
      <3>4. \A k \in 0 .. HistorySize - 1 : current_index[y] - k \in Int
        BY <1>5 DEF HistorySize
      <3>5. UsedSlots(Stores(y), current_index[y], history'[y])
        BY <3>1, <3>4, <1>7 DEF UsedSlots
      <3>. QED  BY <3>3, <3>5
    <2>. DEFINE old == history[x]
                new == history'[x]
    <2>2. HoldsTheLast(Stores(x), n, old) /\ UsedSlots(Stores(x), n, old)
      BY DEF Recorded, RingHoldsTheLastStores
    <2>3. HoldsTheLast(Stores(x) \cup {a}, n + 1, new)
      <3>1. ASSUME NEW b \in Stores(x)
            PROVE  /\ b.pos \in 1 .. n + 1
                   /\ b.pos > (n + 1) - HistorySize =>
                          /\ new[b.pos % HistorySize].thread = b.thread
                          /\ new[b.pos % HistorySize].timestamp = b.stamp
        <4>1. /\ b.pos \in 1 .. n
              /\ b.pos > n - HistorySize => /\ old[b.pos % HistorySize].thread = b.thread
                                            /\ old[b.pos % HistorySize].timestamp = b.stamp
          BY <2>2 DEF HoldsTheLast
        <4>2. ASSUME b.pos > (n + 1) - HistorySize
              PROVE  b.pos % HistorySize # (n + 1) % HistorySize /\ b.pos > n - HistorySize
          BY <4>1, <4>2, SlotsDiffer
        <4>. QED  BY <4>1, <4>2, <1>7
      <3>2. a.pos \in 1 .. n + 1
        BY <1>1
      <3>3. /\ new[a.pos % HistorySize].thread = a.thread
            /\ new[a.pos % HistorySize].timestamp = a.stamp
        BY <1>1, <1>3, <1>8
      <3>. SUFFICES ASSUME NEW b \in Stores(x) \cup {a}
                    PROVE  /\ b.pos \in 1 .. n + 1
                           /\ b.pos > (n + 1) - HistorySize =>
                                  /\ new[b.pos % HistorySize].thread = b.thread
                                  /\ new[b.pos % HistorySize].timestamp = b.stamp
        BY DEF HoldsTheLast
      <3>4. CASE b = a
        BY <3>2, <3>3, <3>4
      <3>5. CASE b \in Stores(x)
        BY <3>1, <3>5
      <3>. QED  BY <3>4, <3>5
    <2>4. UsedSlots(Stores(x) \cup {a}, n + 1, new)
      <3>. SUFFICES ASSUME NEW k \in 0 .. HistorySize - 1
                    PROVE  /\ n + 1 - k > 0 =>
                                  /\ new[(n + 1 - k) % HistorySize].busy
                                  /\ \E b \in Stores(x) \cup {a} : b.pos = n + 1 - k
                           /\ n + 1 - k \in {-1, 0} =>
                                  /\ ~new[(n + 1 - k) % HistorySize].busy
                                  /\ new[(n + 1 - k) % HistorySize].thread = NoThread
        BY DEF UsedSlots
      <3>1. CASE k = 0
        BY <3>1, <1>1, <1>3, <1>8
      <3>2. CASE k # 0
        <4>1. /\ k - 1 \in 0 .. HistorySize - 1 /\ n - (k - 1) = n + 1 - k
              /\ n + 1 - k \in Int
              /\ (n + 1 - k) % HistorySize # (n + 1) % HistorySize
          BY <3>2, SlotsDiffer
        <4>2. /\ n - (k - 1) > 0 => /\ old[(n - (k - 1)) % HistorySize].busy
                                    /\ \E b \in Stores(x) : b.pos = n - (k - 1)
              /\ n - (k - 1) \in {-1, 0} => /\ ~old[(n - (k - 1)) % HistorySize].busy
                                            /\ old[(n - (k - 1)) % HistorySize].thread = NoThread
          BY <4>1, <2>2 DEF UsedSlots
        <4>. QED  BY <4>1, <4>2, <1>7
      <3>. QED  BY <3>1, <3>2
    <2>. QED  BY <2>1, <2>3, <2>4, <1>5, <1>6 DEF RingHoldsTheLastStores
  <1>10. TimestampsAreOfTheLastAccesses'
    BY <1>1, <1>2, TimestampsKept
  <1>11. OpsFitObjects'
    BY <1>1 DEF Recorded, OpsFitObjects
  <1>. QED  BY <1>9, <1>10, <1>11 DEF Recorded

\* A plain access is the last of its kind by its thread.
LEMMA VarRecorded ==
    ASSUME Inv, Recorded, NEW t \in Thread, NEW v \in Var, VarLoad(t, v) \/ VarStore(t, v)
    PROVE  Recorded'
  <1>1. PICK op \in {"plain_load", "plain_store"} :
            /\ Log(t, op, v, 0, own(t) + 1, FALSE, Zero)
            /\ op = "plain_load" =>
                   /\ initialized[v]
                   /\ load_timestamp' = [load_timestamp EXCEPT ![v][t] = own(t) + 1]
                   /\ UNCHANGED <<store_timestamp, initialized>>
            /\ op = "plain_store" =>
                   /\ initialized' = [initialized EXCEPT ![v] = TRUE]
                   /\ store_timestamp' = [store_timestamp EXCEPT ![v][t] = own(t) + 1]
                   /\ UNCHANGED load_timestamp
    BY DEF VarLoad, VarStore
  <1>. DEFINE a == [thread |-> t, op |-> op, obj |-> v, pos |-> 0, stamp |-> own(t) + 1,
                    seq_cst |-> FALSE, release |-> Zero]
  <1>2. /\ accesses' = accesses \cup {a} /\ a.op = op /\ a.obj = v /\ a.thread = t
        /\ a.stamp = own(t) + 1
    BY <1>1 DEF Log
  <1>. HIDE DEF a
  <1>3. RingHoldsTheLastStores'
    <2>1. UNCHANGED <<current_index, history>>
      BY DEF VarLoad, VarStore, atomicVars
    <2>. QED  BY <2>1, <1>2, RingKept DEF Inv
  <1>4. /\ \A u \in Thread : own(u) \in Int
        /\ \A w \in Var : load_timestamp[w] \in Clock /\ store_timestamp[w] \in Clock
        /\ load_timestamp \in [Var -> Clock] /\ store_timestamp \in [Var -> Clock]
        /\ initialized \in [Var -> BOOLEAN]
    BY DEF Inv, TypeOK, own, Clock
  <1>5. \A b \in accesses : b.thread \in Thread /\ b.stamp \in Int /\ b.stamp <= own(b.thread)
    <2>1. accesses \subseteq AccessRecord
      BY DEF Inv, TypeOK
    <2>2. \A b \in accesses : b.thread \in Thread /\ b.stamp \in 1 .. MaxClock
      BY <2>1 DEF AccessRecord
    <2>. QED  BY <2>2 DEF Inv, NoKnowledgeOfTheFuture
  <1>. DEFINE Latest(k, S, w) ==
                /\ \A b \in S : b.stamp <= k[w][b.thread]
                /\ \A u \in Thread : k[w][u] > 0 => \E b \in S : b.thread = u /\ b.stamp = k[w][u]
  <1>6. \A w \in Var : /\ Latest(load_timestamp, Accesses(w, "plain_load"), w)
                       /\ Latest(store_timestamp, Accesses(w, "plain_store"), w)
                       /\ ~initialized[w] => \A b \in accesses : b.obj # w
    BY DEF Recorded, TimestampsAreOfTheLastAccesses
  <1>7. \A k \in [Var -> Clock] :
            Latest(k, Accesses(v, op), v) =>
                Latest([k EXCEPT ![v][t] = own(t) + 1], Accesses(v, op) \cup {a}, v)
    <2>. SUFFICES ASSUME NEW k \in [Var -> Clock], Latest(k, Accesses(v, op), v)
                  PROVE  Latest([k EXCEPT ![v][t] = own(t) + 1], Accesses(v, op) \cup {a}, v)
      OBVIOUS
    <2>. DEFINE m == [k EXCEPT ![v][t] = own(t) + 1]
    <2>1. /\ m[v][t] = own(t) + 1
          /\ \A u \in Thread \ {t} : m[v][u] = k[v][u]
          /\ \A u \in Thread : k[v][u] \in Int
      BY DEF Clock
    <2>. HIDE DEF m
    <2>2. \A b \in Accesses(v, op) : b \in accesses
      BY DEF Accesses
    <2>3. \A b \in Accesses(v, op) \cup {a} : b.stamp <= m[v][b.thread]
      BY <2>1, <2>2, <1>2, <1>4, <1>5
    <2>4. \A u \in Thread : m[v][u] > 0 =>
            \E b \in Accesses(v, op) \cup {a} : b.thread = u /\ b.stamp = m[v][u]
      BY <2>1, <1>2
    <2>. QED  BY <2>3, <2>4 DEF m
  <1>8. \A w \in Var, o \in {"plain_load", "plain_store"} :
            Accesses(w, o)' = IF w = v /\ o = op THEN Accesses(v, op) \cup {a} ELSE Accesses(w, o)
    BY <1>2 DEF Accesses
  <1>9. \A w \in Var : /\ Latest(load_timestamp', Accesses(w, "plain_load")', w)
                       /\ Latest(store_timestamp', Accesses(w, "plain_store")', w)
    <2>. TAKE w \in Var
    <2>. DEFINE m(k) == [k EXCEPT ![v][t] = own(t) + 1]
    <2>1. \A k \in [Var -> Clock] : \A S : w # v => (Latest(m(k), S, w) <=> Latest(k, S, w))
      OBVIOUS
    <2>2. CASE op = "plain_load"
      <3>1. load_timestamp' = m(load_timestamp) /\ store_timestamp' = store_timestamp
        BY <2>2, <1>1
      <3>2. Accesses(w, "plain_store")' = Accesses(w, "plain_store")
        BY <2>2, <1>8
      <3>3. Latest(store_timestamp', Accesses(w, "plain_store")', w)
        BY <3>1, <3>2, <1>6
      <3>4. CASE w = v
        <4>1. Accesses(w, "plain_load")' = Accesses(v, op) \cup {a}
          BY <2>2, <3>4, <1>8
        <4>2. Latest(m(load_timestamp), Accesses(v, op) \cup {a}, v)
          BY <2>2, <1>4, <1>6, <1>7
        <4>. QED  BY <3>1, <3>3, <3>4, <4>1, <4>2
      <3>5. CASE w # v
        <4>1. Accesses(w, "plain_load")' = Accesses(w, "plain_load")
          BY <3>5, <1>8
        <4>2. Latest(m(load_timestamp), Accesses(w, "plain_load"), w)
          BY <2>1, <3>5, <1>4, <1>6
        <4>. QED  BY <3>1, <3>3, <4>1, <4>2
      <3>. QED  BY <3>4, <3>5
    <2>3. CASE op = "plain_store"
      <3>1. store_timestamp' = m(store_timestamp) /\ load_timestamp' = load_timestamp
        BY <2>3, <1>1
      <3>2. Accesses(w, "plain_load")' = Accesses(w, "plain_load")
        BY <2>3, <1>8
      <3>3. Latest(load_timestamp', Accesses(w, "plain_load")', w)
        BY <3>1, <3>2, <1>6
      <3>4. CASE w = v
        <4>1. Accesses(w, "plain_store")' = Accesses(v, op) \cup {a}
          BY <2>3, <3>4, <1>8
        <4>2. Latest(m(store_timestamp), Accesses(v, op) \cup {a}, v)
          BY <2>3, <1>4, <1>6, <1>7
        <4>. QED  BY <3>1, <3>3, <3>4, <4>1, <4>2
      <3>5. CASE w # v
        <4>1. Accesses(w, "plain_store")' = Accesses(w, "plain_store")
          BY <3>5, <1>8
        <4>2. Latest(m(store_timestamp), Accesses(w, "plain_store"), w)
          BY <2>1, <3>5, <1>4, <1>6
        <4>. QED  BY <3>1, <3>3, <4>1, <4>2
      <3>. QED  BY <3>4, <3>5
    <2>. QED  BY <2>2, <2>3
  <1>10. \A w \in Var : ~initialized'[w] => \A b \in accesses' : b.obj # w
    BY <1>1, <1>2, <1>4, <1>6
  <1>11. TimestampsAreOfTheLastAccesses'
    BY <1>9, <1>10 DEF TimestampsAreOfTheLastAccesses
  <1>12. OpsFitObjects'
    BY <1>1, <1>2 DEF Recorded, OpsFitObjects
  <1>. QED  BY <1>3, <1>11, <1>12 DEF Recorded

\* Every step records what it does.
LEMMA StepRecorded ==
    ASSUME Inv, Recorded, [AnyNext]_vars
    PROVE  Recorded'
  <1>1. ASSUME NEW t \in Thread, NEW x \in Atomic, NEW mo,
               Load(t, x, mo) \/ CompareExchangeFails(t, x, mo)
        PROVE  Recorded'
    <2>1. CASE \E i \in Int : LoadAt(t, x, i, mo)
      BY <2>1, LoadAtRecorded
    <2>2. CASE Fail("uninitialized")
      BY <2>2, NothingRecorded DEF Fail, atomicVars, plainVars
    <2>. QED  BY <1>1, <2>1, <2>2, LoadCases DEF Inv
  <1>2. ASSUME NEW t \in Thread, NEW x \in Atomic, NEW mo, Store(t, x, mo)
        PROVE  Recorded'
    <2>1. history \in [Atomic -> [Slot -> HistoryRecord]] /\ current_index[x] \in Nat
      BY DEF Inv, TypeOK
    <2>2. Publish(t, x, history, mo, Tick(acq_rel_order[t], t), FALSE)
      BY <1>2 DEF Store
    <2>. QED  BY <2>1, <2>2, PublishRecorded
  <1>3. ASSUME NEW t \in Thread, NEW x \in Atomic, NEW mo, ReadModifyWrite(t, x, mo)
        PROVE  Recorded'
    <2>. DEFINE h == See(t, x, current_index[x], Tick(acq_rel_order[t], t))
    <2>1. history \in [Atomic -> [Slot -> HistoryRecord]] /\ current_index[x] \in Nat
      BY DEF Inv, TypeOK
    <2>2. Publish(t, x, h, mo, Tick(LoadClock(t, x, current_index[x], mo), t), TRUE)
      BY <1>3 DEF ReadModifyWrite
    <2>3. h \in [Atomic -> [Slot -> HistoryRecord]]
      <3>1. own(t) \in Int /\ own(t) + 1 < MaxClock /\ MaxClock \in Int
        BY <1>3, BoundAssumption DEF ReadModifyWrite, Inv, TypeOK, own, Clock
      <3>2. own(t) < MaxClock /\ current_index[x] \in Int
        BY <2>1, <3>1
      <3>. QED  BY <3>2, LoadType DEF Inv
    <2>4. \A y \in Atomic, k \in Slot : /\ h[y][k].busy = history[y][k].busy
                                        /\ h[y][k].thread = history[y][k].thread
                                        /\ h[y][k].timestamp = history[y][k].timestamp
      BY <2>1 DEF See, HistoryRecord
    <2>. HIDE DEF h
    <2>. QED  BY <2>1, <2>2, <2>3, <2>4, PublishRecorded
  <1>4. ASSUME NEW t \in Thread, NEW v \in Var, VarLoad(t, v) \/ VarStore(t, v)
        PROVE  Recorded'
    BY <1>4, VarRecorded
  <1>5. ASSUME NEW t \in Thread,
               \/ \E mo \in FenceOrder : Fence(t, mo)
               \/ \E s \in SyncVar : Synchronize(t, s)
               \/ Yield(t)
               \/ \E x \in Atomic : ReadModifyWriteFails(x)
               \/ \E v \in Var : VarLoadFails(t, v) \/ VarStoreFails(t, v)
        PROVE  Recorded'
    <2>1. UNCHANGED <<accesses, atomicVars, plainVars>>
      BY <1>5 DEF Fence, Synchronize, Yield, ReadModifyWriteFails, VarLoadFails, VarStoreFails, Fail
    <2>. QED  BY <2>1, NothingRecorded DEF atomicVars, plainVars
  <1>6. ASSUME rl_global_fence \/ (\E result \in TestResult : Fail(result)) \/ UNCHANGED vars
        PROVE  Recorded'
    BY <1>6, NothingRecorded DEF rl_global_fence, Fail, vars, atomicVars, plainVars
  <1>7. ASSUME NEW t \in Thread, AnyStep(t)
        PROVE  Recorded'
    BY <1>1, <1>2, <1>3, <1>4, <1>5, <1>7 DEF AnyStep
  <1>. QED  BY <1>6, <1>7 DEF AnyNext

\* The ring and the timestamps record the accesses made, in every reachable state.
THEOREM Recording == Spec => [](Inv /\ Recorded)
  <1>1. Init => Inv /\ Recorded
    BY InitType, InitNoKnowledge, InitRecorded DEF Inv
  <1>2. Inv /\ Recorded /\ [AnyNext]_vars => (Inv /\ Recorded)'
    BY StepRecorded, StepInv, GlobalFenceNoKnowledge, FailNoKnowledge DEF AnyNext
  <1>. QED  BY <1>1, <1>2, SpecIsAny, PTL DEF AnySpec

\* The ring of an atomic holds its last stores and nothing else.
THEOREM RingCorrect == Spec => []RingHoldsTheLastStores
  BY Recording, PTL DEF Recorded

\* The timestamps of a plain variable are those of its last accesses.
THEOREM TimestampsCorrect == Spec => []TimestampsAreOfTheLastAccesses
  BY Recording, PTL DEF Recorded

-----------------------------------------------------------------------------
(* Clocks grow *)

\* A clock that t may get: it has forgotten nothing.
Grown(t, c) == \A u \in Thread : acq_rel_order[t][u] <= c[u]

\* All threads have grown.
ClocksGrow == \A t \in Thread : Grown(t, acq_rel_order'[t])

\* A step of the own entry, and a join, forget nothing.
LEMMA GrownClocks ==
    ASSUME TypeOK, NEW t \in Thread
    PROVE  /\ Grown(t, acq_rel_order[t])
           /\ own(t) < MaxClock => Grown(t, Tick(acq_rel_order[t], t))
           /\ \A c, d \in Clock : Grown(t, c) => Grown(t, Join(c, d))
           /\ \A c \in Clock : Grown(t, c) /\ c[t] < MaxClock => Grown(t, Tick(c, t))
  <1>1. acq_rel_order[t] \in Clock /\ \A c \in Clock : \A u \in Thread : c[u] \in Int
    BY BoundAssumption DEF TypeOK, Clock
  <1>2. Grown(t, acq_rel_order[t])
    BY <1>1 DEF Grown
  <1>3. own(t) < MaxClock => Grown(t, Tick(acq_rel_order[t], t))
    BY <1>1, OwnTick DEF Grown, own
  <1>4. ASSUME NEW c \in Clock, NEW d \in Clock, Grown(t, c)
        PROVE  Grown(t, Join(c, d))
    <2>1. Join(c, d) \in Clock /\ \A u \in Thread : c[u] <= Join(c, d)[u]
      BY JoinIsClock
    <2>. SUFFICES ASSUME NEW u \in Thread PROVE acq_rel_order[t][u] <= Join(c, d)[u]
      BY DEF Grown
    <2>2. acq_rel_order[t][u] \in Int /\ c[u] \in Int /\ Join(c, d)[u] \in Int
      BY <1>1, <2>1
    <2>3. acq_rel_order[t][u] <= c[u] /\ c[u] <= Join(c, d)[u]
      BY <1>4, <2>1 DEF Grown
    <2>. QED  BY <2>2, <2>3
  <1>5. ASSUME NEW c \in Clock, Grown(t, c), c[t] < MaxClock
        PROVE  Grown(t, Tick(c, t))
    <2>1. /\ Tick(c, t) \in Clock /\ Tick(c, t)[t] = c[t] + 1
          /\ \A u \in Thread \ {t} : Tick(c, t)[u] = c[u]
      BY <1>5, TickIsClock
    <2>. SUFFICES ASSUME NEW u \in Thread PROVE acq_rel_order[t][u] <= Tick(c, t)[u]
      BY DEF Grown
    <2>2. acq_rel_order[t][u] \in Int /\ c[u] \in Int /\ acq_rel_order[t][u] <= c[u]
      BY <1>1, <1>5 DEF Grown
    <2>. QED  BY <2>1, <2>2
  <1>. QED  BY <1>2, <1>3, <1>4, <1>5

\* Of one thread only the clock is another.
LEMMA OneGrows ==
    ASSUME TypeOK, NEW t \in Thread, NEW c \in Clock, Grown(t, c),
           acq_rel_order' = [acq_rel_order EXCEPT ![t] = c]
    PROVE  ClocksGrow
  <1>1. \A u \in Thread : Grown(u, acq_rel_order[u])
    BY GrownClocks
  <1>2. \A u \in Thread : acq_rel_order'[u] = IF u = t THEN c ELSE acq_rel_order[u]
    BY DEF TypeOK
  <1>. QED  BY <1>1, <1>2 DEF ClocksGrow

\* What a load and a read-modify-write make of the clock.
LEMMA LoadGrows ==
    ASSUME TypeOK, NEW t \in Thread, NEW x \in Atomic, NEW i \in Int, NEW mo, own(t) < MaxClock
    PROVE  LoadClock(t, x, i, mo) \in Clock /\ Grown(t, LoadClock(t, x, i, mo))
  <1>1. Tick(acq_rel_order[t], t) \in Clock /\ Grown(t, Tick(acq_rel_order[t], t))
    BY OwnTick, GrownClocks
  <1>2. Rec(x, i).order \in Clock
    BY LoadType DEF HistoryRecord
  <1>3. Grown(t, Join(Tick(acq_rel_order[t], t), Rec(x, i).order))
    BY <1>1, <1>2, GrownClocks
  <1>. QED  BY <1>1, <1>3, LoadType DEF LoadClock

\* The clock of a store, and that of a read-modify-write.
LEMMA StoreClocks ==
    ASSUME Inv, NEW t \in Thread, NEW x \in Atomic, NEW mo
    PROVE  /\ Store(t, x, mo) =>
                \E c \in Clock : /\ c = Tick(acq_rel_order[t], t)
                                 /\ Grown(t, c) /\ c[t] = own(t) + 1
                                 /\ Publish(t, x, history, mo, c, FALSE)
           /\ ReadModifyWrite(t, x, mo) =>
                \E c \in Clock : /\ Grown(t, c) /\ c[t] = own(t) + 2
                                 /\ Publish(t, x, See(t, x, current_index[x], Tick(acq_rel_order[t], t)),
                                            mo, c, TRUE)
  <1>1. ASSUME Store(t, x, mo)
        PROVE  \E c \in Clock : /\ c = Tick(acq_rel_order[t], t)
                                /\ Grown(t, c) /\ c[t] = own(t) + 1
                                /\ Publish(t, x, history, mo, c, FALSE)
    BY <1>1, OwnTick, GrownClocks DEF Store, Inv
  <1>2. ASSUME ReadModifyWrite(t, x, mo)
        PROVE  \E c \in Clock : /\ Grown(t, c) /\ c[t] = own(t) + 2
                                /\ Publish(t, x, See(t, x, current_index[x], Tick(acq_rel_order[t], t)),
                                           mo, c, TRUE)
    <2>. DEFINE d == LoadClock(t, x, current_index[x], mo)
    <2>1. /\ own(t) \in 0 .. MaxClock /\ own(t) + 1 < MaxClock /\ own(t) < MaxClock
          /\ current_index[x] \in Int
      BY <1>2, OwnTick, BoundAssumption DEF ReadModifyWrite, Inv, TypeOK, own, Clock
    <2>2. Rec(x, current_index[x]).order[t] <= own(t)
      BY <2>1, SlotOf DEF Inv, NoKnowledgeOfTheFuture, Rec, Past
    <2>3. Tick(d, t) \in Clock /\ Tick(d, t)[t] = own(t) + 2 /\ d[t] = own(t) + 1
      BY <1>2, <2>2, ReadModifyWriteType DEF Inv
    <2>4. d \in Clock /\ Grown(t, d)
      BY <2>1, LoadGrows DEF Inv
    <2>5. Publish(t, x, See(t, x, current_index[x], Tick(acq_rel_order[t], t)), mo, Tick(d, t), TRUE)
      BY <1>2 DEF ReadModifyWrite
    <2>. HIDE DEF d
    <2>6. Grown(t, Tick(d, t))
      BY <2>1, <2>3, <2>4, GrownClocks DEF Inv
    <2>. QED  BY <2>3, <2>5, <2>6
  <1>. QED  BY <1>1, <1>2

\* What a fence makes of the clocks of the thread: the clock is greater, and so
\* is what it releases.
LEMMA FenceClocks ==
    ASSUME TypeOK, NEW t \in Thread, NEW mo \in FenceOrder, Fence(t, mo)
    PROVE  \E c \in Clock :
              /\ Grown(t, c) /\ acq_rel_order' = [acq_rel_order EXCEPT ![t] = c]
              /\ \/ UNCHANGED release_fence_order
                 \/ release_fence_order' = [release_fence_order EXCEPT ![t] = c]
  <1>1. PICK b \in Clock : b = acq_rel_order[t] /\ Grown(t, b)
    BY GrownClocks DEF TypeOK
  <1>2. PICK c \in Clock : c = Join(acq_rel_order[t], acquire_fence_order[t]) /\ Grown(t, c)
    <2>1. acquire_fence_order[t] \in Clock
      BY DEF TypeOK
    <2>. QED  BY <1>1, <2>1, JoinIsClock, GrownClocks
  <1>3. PICK d \in Clock : d = Join(c, seq_cst_fence_order) /\ Grown(t, d)
    <2>1. seq_cst_fence_order \in Clock
      BY DEF TypeOK
    <2>. QED  BY <1>2, <2>1, JoinIsClock, GrownClocks
  <1>4. acq_rel_order = [acq_rel_order EXCEPT ![t] = b]
    BY <1>1 DEF TypeOK
  <1>5. CASE mo = "acquire"
    BY <1>2, <1>5 DEF Fence, atomic_thread_fence_acquire
  <1>6. CASE mo = "release"
    BY <1>1, <1>4, <1>6 DEF Fence, atomic_thread_fence_release
  <1>7. CASE mo = "acq_rel"
    BY <1>2, <1>7 DEF Fence, atomic_thread_fence_acq_rel
  <1>8. CASE mo = "seq_cst"
    BY <1>2, <1>3, <1>8 DEF Fence, atomic_thread_fence_seq_cst
  <1>. QED  BY <1>5, <1>6, <1>7, <1>8, OrderAssumption

\* Nor does a thread forget at a sync_var...
LEMMA SynchronizeGrows ==
    ASSUME TypeOK, NEW t \in Thread, NEW s \in SyncVar, Synchronize(t, s)
    PROVE  ClocksGrow
  <1>1. PICK c \in Clock : c = Tick(acq_rel_order[t], t) /\ Grown(t, c)
    BY OwnTick, GrownClocks DEF Synchronize
  <1>2. PICK d \in Clock : d = Join(c, order[s]) /\ Grown(t, d)
    <2>1. order[s] \in Clock
      BY DEF TypeOK
    <2>. QED  BY <1>1, <2>1, JoinIsClock, GrownClocks
  <1>3. acq_rel_order' = [acq_rel_order EXCEPT ![t] = c] \/ acq_rel_order' = [acq_rel_order EXCEPT ![t] = d]
    BY <1>1, <1>2 DEF Synchronize, sync_acquire, sync_release, sync_acq_rel
  <1>. QED  BY <1>1, <1>2, <1>3, OneGrows

\* ... nor at the global fence.
LEMMA GlobalFenceGrows ==
    ASSUME Inv, rl_global_fence
    PROVE  ClocksGrow
  <1>1. PICK max \in {own(t) : t \in Thread} :
            /\ \A t \in Thread : own(t) <= max
            /\ acq_rel_order' = [t \in Thread |-> [u \in Thread |-> max]]
    BY DEF rl_global_fence
  <1>2. max \in Int /\ \A t, u \in Thread : acq_rel_order[t][u] \in Int /\ own(u) \in Int
    BY DEF Inv, TypeOK, own, Clock
  <1>3. \A t, u \in Thread : acq_rel_order[t][u] <= own(u)
    BY DEF Inv, NoKnowledgeOfTheFuture, Past
  <1>. QED  BY <1>1, <1>2, <1>3 DEF ClocksGrow, Grown

\* No step of any thread makes a thread forget.
LEMMA StepGrows ==
    ASSUME Inv, [AnyNext]_vars
    PROVE  ClocksGrow
  <1>1. ASSUME UNCHANGED acq_rel_order PROVE ClocksGrow
    BY <1>1, GrownClocks DEF ClocksGrow, Inv
  <1>2. ASSUME NEW t \in Thread, NEW x \in Atomic, NEW mo,
               Load(t, x, mo) \/ CompareExchangeFails(t, x, mo)
        PROVE  ClocksGrow
    <2>1. CASE Fail("uninitialized")
      BY <2>1, <1>1 DEF Fail, threadVars
    <2>2. ASSUME NEW i \in Int, LoadAt(t, x, i, mo) PROVE ClocksGrow
      BY <2>2, LoadGrows, OneGrows DEF LoadAt, Inv
    <2>. QED  BY <1>2, <2>1, <2>2, LoadCases DEF Inv
  <1>3. ASSUME NEW t \in Thread, NEW x \in Atomic, NEW mo,
               Store(t, x, mo) \/ ReadModifyWrite(t, x, mo)
        PROVE  ClocksGrow
    <2>1. \A h, c, rmw : Publish(t, x, h, mo, c, rmw) =>
                            acq_rel_order' = [acq_rel_order EXCEPT ![t] = c]
      BY DEF Publish
    <2>2. \E h, rmw : \E c \in Clock : Grown(t, c) /\ Publish(t, x, h, mo, c, rmw)
      BY <1>3, StoreClocks
    <2>. QED  BY <2>1, <2>2, OneGrows DEF Inv
  <1>4. ASSUME NEW t \in Thread, NEW mo \in FenceOrder, Fence(t, mo)
        PROVE  ClocksGrow
    BY <1>4, FenceClocks, OneGrows DEF Inv
  <1>5. ASSUME NEW t \in Thread, NEW s \in SyncVar, Synchronize(t, s)
        PROVE  ClocksGrow
    BY <1>5, SynchronizeGrows DEF Inv
  <1>6. ASSUME NEW t \in Thread, NEW v \in Var, VarLoad(t, v) \/ VarStore(t, v)
        PROVE  ClocksGrow
    <2>1. own(t) < MaxClock /\ acq_rel_order' = [acq_rel_order EXCEPT ![t] = Tick(acq_rel_order[t], t)]
      BY <1>6 DEF VarLoad, VarStore
    <2>. QED  BY <2>1, OwnTick, GrownClocks, OneGrows DEF Inv
  <1>7. ASSUME NEW t \in Thread,
               \/ \E x \in Atomic : ReadModifyWriteFails(x)
               \/ \E v \in Var : VarLoadFails(t, v) \/ VarStoreFails(t, v)
               \/ Yield(t)
        PROVE  ClocksGrow
    BY <1>1, <1>7 DEF ReadModifyWriteFails, VarLoadFails, VarStoreFails, Yield, Fail, threadVars
  <1>8. ASSUME NEW t \in Thread, AnyStep(t) PROVE ClocksGrow
    BY <1>2, <1>3, <1>4, <1>5, <1>6, <1>7, <1>8 DEF AnyStep
  <1>9. ASSUME (\E result \in TestResult : Fail(result)) \/ UNCHANGED vars PROVE ClocksGrow
    BY <1>1, <1>9 DEF Fail, vars, threadVars
  <1>. QED  BY <1>8, <1>9, GlobalFenceGrows DEF AnyNext

-----------------------------------------------------------------------------
(* Release sequences *)

\* d says of no thread more than c.
Within(d, c) == \A u \in Thread : d[u] <= c[u]

\* What a thread has released, by a store or with its last release fence, it
\* knows itself.
ReleasesAreKnown ==
    /\ \A t \in Thread : Within(release_fence_order[t], acq_rel_order[t])
    /\ \A h \in accesses : Within(h.release, acq_rel_order[h.thread])

ReleasesCarried == ReleasesAreKnown /\ ReleaseSequencesAreCarried

\* Clocks are compared entry by entry.
LEMMA WithinClocks ==
    /\ \A c \in Clock : Within(c, c) /\ Within(Zero, c)
    /\ \A c, d, e \in Clock : Within(c, d) /\ Within(d, e) => Within(c, e)
    /\ \A c, d, e \in Clock :
        /\ Within(c, d) => Within(c, Join(d, e)) /\ Within(c, Join(e, d))
        /\ Within(c, Join(c, d)) /\ Within(d, Join(c, d))
  <1>1. \A c \in Clock : \A u \in Thread : c[u] \in Int /\ 0 <= c[u]
    BY BoundAssumption DEF Clock
  <1>2. \A c \in Clock : Within(c, c) /\ Within(Zero, c)
    BY <1>1, ZeroIsClock DEF Within
  <1>3. ASSUME NEW c \in Clock, NEW d \in Clock, NEW e \in Clock, Within(c, d), Within(d, e)
        PROVE  Within(c, e)
    <2>. SUFFICES ASSUME NEW u \in Thread PROVE c[u] <= e[u]
      BY DEF Within
    <2>1. c[u] \in Int /\ d[u] \in Int /\ e[u] \in Int
      BY <1>1
    <2>2. c[u] <= d[u] /\ d[u] <= e[u]
      BY <1>3 DEF Within
    <2>. QED  BY <2>1, <2>2
  <1>4. \A d, e \in Clock : Join(d, e) \in Clock /\ Within(d, Join(d, e)) /\ Within(e, Join(d, e))
    BY JoinIsClock DEF Within
  <1>. QED  BY <1>2, <1>3, <1>4

\* Of a thread that has grown, what it knew is still known.
LEMMA WithinGrown ==
    ASSUME TypeOK, TypeOK', ClocksGrow, NEW t \in Thread, NEW d \in Clock, Within(d, acq_rel_order[t])
    PROVE  Within(d, acq_rel_order'[t])
  <1>1. acq_rel_order[t] \in Clock /\ acq_rel_order'[t] \in Clock
    BY DEF TypeOK
  <1>2. Within(acq_rel_order[t], acq_rel_order'[t])
    BY DEF ClocksGrow, Grown, Within
  <1>. QED  BY <1>1, <1>2, WithinClocks

\* What was released is still known; and so are new releases that are.
LEMMA ReleasesKept ==
    ASSUME TypeOK, TypeOK', ClocksGrow, ReleasesAreKnown,
           \A t \in Thread : \/ release_fence_order'[t] = release_fence_order[t]
                             \/ Within(release_fence_order'[t], acq_rel_order'[t]),
           \A h \in accesses' \ accesses : Within(h.release, acq_rel_order'[h.thread])
    PROVE  ReleasesAreKnown'
  <1>1. \A t \in Thread : release_fence_order[t] \in Clock
    BY DEF TypeOK
  <1>2. \A h \in accesses : h.thread \in Thread /\ h.release \in Clock
    BY DEF TypeOK, AccessRecord
  <1>3. \A t \in Thread : Within(release_fence_order'[t], acq_rel_order'[t])
    BY <1>1, WithinGrown DEF ReleasesAreKnown
  <1>4. \A h \in accesses' : Within(h.release, acq_rel_order'[h.thread])
    BY <1>2, WithinGrown DEF ReleasesAreKnown
  <1>5. ReleasesAreKnown' <=> /\ \A t \in Thread : Within(release_fence_order'[t], acq_rel_order'[t])
                              /\ \A h \in accesses' : Within(h.release, acq_rel_order'[h.thread])
    BY DEF ReleasesAreKnown, Within
  <1>. QED  BY <1>3, <1>4, <1>5

\* A step that makes no store leaves the release sequences as they are.
LEMMA CarriedKept ==
    ASSUME TypeOK, ReleaseSequencesAreCarried, UNCHANGED current_index,
           \A h \in accesses' \ accesses : h.op \notin {"store", "rmw"},
           accesses \subseteq accesses',
           \A x \in Atomic, i \in Slot : history'[x][i].order = history[x][i].order
    PROVE  ReleaseSequencesAreCarried'
  <1>1. \A x \in Atomic : Stores(x)' = Stores(x)
    BY DEF Stores
  <1>2. \A x \in Atomic : Heads(x)' = Heads(x)
    BY <1>1 DEF Heads
  <1>3. \A x \in Atomic : current_index[x] % HistorySize \in Slot
    BY SlotOf DEF TypeOK
  <1>4. \A x \in Atomic : Rec(x, current_index[x])'.order = Rec(x, current_index[x]).order
    BY <1>3 DEF Rec
  <1>. QED  BY <1>2, <1>4 DEF ReleaseSequencesAreCarried

\* The new store carries all that its release sequences have released: those
\* that go on in a read-modify-write or by the thread of the last store are
\* joined; one that only its own thread goes on, after a read-modify-write of
\* another, is known to it.
LEMMA PublishCarries ==
    ASSUME Inv, Inv', Recorded, ReleasesCarried, ClocksGrow,
           NEW t \in Thread, NEW x \in Atomic, NEW mo, NEW c \in Clock, NEW rmw \in BOOLEAN,
           NEW h \in [Atomic -> [Slot -> HistoryRecord]],
           \A y \in Atomic, k \in Slot : /\ h[y][k].busy = history[y][k].busy
                                         /\ h[y][k].thread = history[y][k].thread
                                         /\ h[y][k].order = history[y][k].order,
           Grown(t, c), Publish(t, x, h, mo, c, rmw)
    PROVE  ReleasesCarried'
  <1>0. PICK n \in Nat : n = current_index[x]
    BY DEF Inv, TypeOK
  <1>1. PICK prev \in HistoryRecord : prev = h[x][n % HistorySize]
    BY <1>0, SlotOf
  <1>2. PICK r \in Clock : r = Released(t, mo, c)
    BY <1>1, RecordType DEF Inv, TypeOK
  <1>3. PICK rec \in HistoryRecord : rec = Record(t, mo, c, prev, rmw)
    BY <1>1, RecordType DEF Inv, TypeOK
  <1>4. PICK a : a = [thread |-> t, op |-> IF rmw THEN "rmw" ELSE "store", obj |-> x,
                      pos |-> n + 1, stamp |-> c[t], seq_cst |-> mo = "seq_cst", release |-> r]
    OBVIOUS
  <1>5. /\ accesses' = accesses \cup {a}
        /\ a.obj = x /\ a.pos = n + 1 /\ a.thread = t /\ a.release = r
        /\ a.op = IF rmw THEN "rmw" ELSE "store"
    BY <1>0, <1>2, <1>4 DEF Publish, Log
  <1>6. /\ current_index' = [current_index EXCEPT ![x] = n + 1]
        /\ history' = [h EXCEPT ![x][(n + 1) % HistorySize] = rec]
        /\ acq_rel_order' = [acq_rel_order EXCEPT ![t] = c]
        /\ UNCHANGED release_fence_order
    BY <1>0, <1>1, <1>3 DEF Publish
  <1>7. Within(r, c)
    <2>1. acq_rel_order[t] \in Clock /\ release_fence_order[t] \in Clock
      BY DEF Inv, TypeOK
    <2>2. Within(release_fence_order[t], c)
      BY <2>1, WithinClocks DEF ReleasesCarried, ReleasesAreKnown, Grown, Within
    <2>. QED  BY <1>2, <2>2, WithinClocks DEF Released
  <1>8. ReleasesAreKnown'
    <2>1. acq_rel_order'[t] = c
      BY <1>6 DEF Inv, TypeOK
    <2>. QED  BY <2>1, <1>5, <1>6, <1>7, ReleasesKept DEF Inv, ReleasesCarried
  <1>9. ASSUME NEW y \in Atomic, y # x, NEW g \in Heads(y)'
        PROVE  Within(g.release, Rec(y, current_index[y])'.order)
    <2>1. Stores(y)' = Stores(y) /\ current_index'[y] = current_index[y]
      BY <1>5, <1>6, <1>9 DEF Stores, Inv, TypeOK
    <2>2. g \in Heads(y)
      BY <1>9, <2>1 DEF Heads
    <2>3. current_index[y] % HistorySize \in Slot
      BY SlotOf DEF Inv, TypeOK
    <2>4. history'[y] = h[y]
      BY <1>6, <1>9
    <2>5. Rec(y, current_index[y])'.order = Rec(y, current_index[y]).order
      BY <2>1, <2>3, <2>4 DEF Rec
    <2>6. Within(g.release, Rec(y, current_index[y]).order)
      BY <2>2 DEF ReleasesCarried, ReleaseSequencesAreCarried, Within
    <2>. QED  BY <2>5, <2>6
  <1>10. /\ Stores(x)' = Stores(x) \cup {a} /\ \A b \in Stores(x) : b.pos \in 1 .. n
         /\ n > 0 => history[x][n % HistorySize].busy
    <2>1. Stores(x)' = Stores(x) \cup {a}
      BY <1>5 DEF Stores
    <2>2. \A b \in Stores(x) : b.pos \in 1 .. n
      BY <1>0 DEF Recorded, RingHoldsTheLastStores, HoldsTheLast
    <2>3. 0 \in 0 .. HistorySize - 1 /\ n - 0 = n
      BY DEF HistorySize
    <2>4. UsedSlots(Stores(x), n, history[x])
      BY <1>0 DEF Recorded, RingHoldsTheLastStores
    <2>5. n > 0 => history[x][n % HistorySize].busy
      BY <2>3, <2>4 DEF UsedSlots
    <2>. QED  BY <2>1, <2>2, <2>5
  <1>11. Rec(x, current_index[x])' = rec
    <2>1. current_index'[x] = n + 1
      BY <1>6 DEF Inv, TypeOK
    <2>2. history'[x][(n + 1) % HistorySize] = rec
      BY <1>0, <1>6, SlotOf
    <2>. QED  BY <2>1, <2>2 DEF Rec
  <1>12. rec.order = IF prev.busy /\ (rmw \/ prev.thread = t) THEN Join(prev.order, r) ELSE c
    BY <1>2, <1>3 DEF Record
  <1>13. prev.order \in Clock
    BY <1>1 DEF HistoryRecord
  <1>14. ASSUME NEW g \in Heads(x)'
         PROVE  Within(g.release, rec.order)
    <2>1. CASE g = a
      BY <2>1, <1>5, <1>7, <1>12, <1>13, WithinClocks
    <2>2. CASE g \in Stores(x)
      <3>1. g \in Heads(x) /\ (rmw \/ g.thread = t)
        <4>1. \A b \in Stores(x) \cup {a} : b.pos > g.pos => b.thread = g.thread \/ b.op = "rmw"
          BY <1>10, <1>14 DEF Heads
        <4>2. a.pos > g.pos
          BY <1>5, <1>10, <2>2
        <4>. QED  BY <4>1, <4>2, <2>2, <1>5 DEF Heads
      <3>2. g.release \in Clock /\ g.thread \in Thread /\ g \in accesses
        BY <2>2 DEF Stores, Inv, TypeOK, AccessRecord
      <3>3. prev.busy /\ n % HistorySize \in Slot
        BY <1>0, <1>1, <1>10, <2>2, SlotOf
      <3>4. Within(g.release, prev.order)
        <4>1. prev.order = Rec(x, current_index[x]).order
          BY <1>0, <1>1, <3>3 DEF Rec
        <4>. QED  BY <4>1, <3>1 DEF ReleasesCarried, ReleaseSequencesAreCarried, Within
      <3>5. CASE rmw \/ prev.thread = t
        BY <3>2, <3>3, <3>4, <3>5, <1>12, <1>13, WithinClocks
      <3>6. CASE ~(rmw \/ prev.thread = t)
        <4>1. g.thread = t /\ rec.order = c
          BY <3>1, <3>6, <1>12
        <4>2. Within(g.release, acq_rel_order[t]) /\ Within(acq_rel_order[t], c)
          BY <3>2, <4>1 DEF ReleasesCarried, ReleasesAreKnown, Grown, Within
        <4>3. acq_rel_order[t] \in Clock
          BY DEF Inv, TypeOK
        <4>. QED  BY <3>2, <4>1, <4>2, <4>3, WithinClocks
      <3>. QED  BY <3>5, <3>6
    <2>. QED  BY <2>1, <2>2, <1>10, <1>14 DEF Heads
  <1>15. ReleaseSequencesAreCarried'
    <2>1. \A y \in Atomic : \A g \in Heads(y)' : Within(g.release, Rec(y, current_index[y])'.order)
      BY <1>9, <1>11, <1>14
    <2>. QED  BY <2>1 DEF ReleaseSequencesAreCarried, Within
  <1>. QED  BY <1>8, <1>15 DEF ReleasesCarried

\* The rest of the steps make no store.
LEMMA QuietReleases ==
    ASSUME Inv, Inv', ReleasesCarried, ClocksGrow, UNCHANGED current_index,
           \A h \in accesses' \ accesses : h.op \notin {"store", "rmw"} /\ h.release = Zero,
           accesses \subseteq accesses',
           \A x \in Atomic, i \in Slot : history'[x][i].order = history[x][i].order,
           \A t \in Thread : \/ release_fence_order'[t] = release_fence_order[t]
                             \/ release_fence_order'[t] = acq_rel_order'[t]
    PROVE  ReleasesCarried'
  <1>1. ReleaseSequencesAreCarried'
    BY CarriedKept DEF Inv, ReleasesCarried
  <1>2. \A t \in Thread : acq_rel_order'[t] \in Clock
    BY DEF Inv, TypeOK
  <1>3. \A h \in accesses' : h.thread \in Thread
    BY DEF Inv, TypeOK, AccessRecord
  <1>4. \A h \in accesses' \ accesses : Within(h.release, acq_rel_order'[h.thread])
    BY <1>2, <1>3, WithinClocks
  <1>5. \A t \in Thread : \/ release_fence_order'[t] = release_fence_order[t]
                          \/ Within(release_fence_order'[t], acq_rel_order'[t])
    BY <1>2, WithinClocks
  <1>6. ReleasesAreKnown'
    BY <1>4, <1>5, ReleasesKept DEF Inv, ReleasesCarried
  <1>. QED  BY <1>1, <1>6 DEF ReleasesCarried

\* Every step preserves what is carried.
LEMMA StepReleases ==
    ASSUME Inv, Recorded, ReleasesCarried, [AnyNext]_vars
    PROVE  ReleasesCarried'
  <1>1. Inv'
    BY StepInv, GlobalFenceNoKnowledge, FailNoKnowledge DEF AnyNext
  <1>2. ClocksGrow
    BY StepGrows
  <1>3. ASSUME NEW t \in Thread, NEW x \in Atomic, NEW mo,
               Load(t, x, mo) \/ CompareExchangeFails(t, x, mo)
        PROVE  ReleasesCarried'
    <2>1. CASE Fail("uninitialized")
      BY <2>1, <1>1, <1>2, QuietReleases DEF Fail, atomicVars, threadVars
    <2>2. ASSUME NEW i \in Int, LoadAt(t, x, i, mo) PROVE ReleasesCarried'
      <3>1. history' = See(t, x, i, Tick(acq_rel_order[t], t))
        BY <2>2 DEF LoadAt
      <3>2. \A y \in Atomic, k \in Slot : history'[y][k].order = history[y][k].order
        BY <3>1 DEF See, Inv, TypeOK, HistoryRecord
      <3>3. /\ UNCHANGED <<current_index, release_fence_order>> /\ accesses \subseteq accesses'
            /\ \A h \in accesses' \ accesses : h.op = "load" /\ h.release = Zero
        BY <2>2 DEF LoadAt, Log
      <3>. QED  BY <1>1, <1>2, <3>2, <3>3, QuietReleases
    <2>. QED  BY <1>3, <2>1, <2>2, LoadCases DEF Inv
  <1>4. ASSUME NEW t \in Thread, NEW x \in Atomic, NEW mo, Store(t, x, mo)
        PROVE  ReleasesCarried'
    <2>1. history \in [Atomic -> [Slot -> HistoryRecord]]
      BY DEF Inv, TypeOK
    <2>2. PICK c \in Clock : Grown(t, c) /\ Publish(t, x, history, mo, c, FALSE)
      BY <1>4, StoreClocks
    <2>. QED  BY <1>1, <1>2, <2>1, <2>2, PublishCarries
  <1>5. ASSUME NEW t \in Thread, NEW x \in Atomic, NEW mo, ReadModifyWrite(t, x, mo)
        PROVE  ReleasesCarried'
    <2>. DEFINE h == See(t, x, current_index[x], Tick(acq_rel_order[t], t))
    <2>1. own(t) < MaxClock /\ current_index[x] \in Int
      BY <1>5, BoundAssumption DEF ReadModifyWrite, Inv, TypeOK, own, Clock
    <2>2. h \in [Atomic -> [Slot -> HistoryRecord]]
      BY <2>1, LoadType DEF Inv
    <2>3. \A y \in Atomic, k \in Slot : /\ h[y][k].busy = history[y][k].busy
                                        /\ h[y][k].thread = history[y][k].thread
                                        /\ h[y][k].order = history[y][k].order
      BY DEF See, Inv, TypeOK, HistoryRecord
    <2>4. PICK c \in Clock : Grown(t, c) /\ Publish(t, x, h, mo, c, TRUE)
      BY <1>5, StoreClocks
    <2>. HIDE DEF h
    <2>. QED  BY <1>1, <1>2, <2>2, <2>3, <2>4, PublishCarries
  <1>6. ASSUME NEW t \in Thread, NEW mo \in FenceOrder, Fence(t, mo)
        PROVE  ReleasesCarried'
    <2>1. PICK c \in Clock :
              /\ acq_rel_order' = [acq_rel_order EXCEPT ![t] = c]
              /\ \/ UNCHANGED release_fence_order
                 \/ release_fence_order' = [release_fence_order EXCEPT ![t] = c]
      BY <1>6, FenceClocks DEF Inv
    <2>2. \A u \in Thread : \/ release_fence_order'[u] = release_fence_order[u]
                            \/ release_fence_order'[u] = acq_rel_order'[u]
      BY <2>1 DEF Inv, TypeOK
    <2>3. UNCHANGED <<current_index, history, accesses>>
      BY <1>6 DEF Fence, atomicVars
    <2>. QED  BY <1>1, <1>2, <2>2, <2>3, QuietReleases
  <1>7. ASSUME NEW t \in Thread, NEW v \in Var, VarLoad(t, v) \/ VarStore(t, v)
        PROVE  ReleasesCarried'
    <2>1. /\ UNCHANGED <<current_index, history, release_fence_order>> /\ accesses \subseteq accesses'
          /\ \A h \in accesses' \ accesses : h.op \in {"plain_load", "plain_store"} /\ h.release = Zero
      BY <1>7 DEF VarLoad, VarStore, Log, atomicVars
    <2>. QED  BY <1>1, <1>2, <2>1, QuietReleases
  <1>8. ASSUME UNCHANGED <<current_index, history, release_fence_order, accesses>>
        PROVE  ReleasesCarried'
    BY <1>1, <1>2, <1>8, QuietReleases
  <1>9. ASSUME NEW t \in Thread,
               \/ \E s \in SyncVar : Synchronize(t, s)
               \/ \E x \in Atomic : ReadModifyWriteFails(x)
               \/ \E v \in Var : VarLoadFails(t, v) \/ VarStoreFails(t, v)
               \/ Yield(t)
        PROVE  ReleasesCarried'
    BY <1>8, <1>9 DEF Synchronize, ReadModifyWriteFails, VarLoadFails, VarStoreFails, Yield, Fail,
                      threadVars, atomicVars
  <1>10. ASSUME rl_global_fence \/ (\E result \in TestResult : Fail(result)) \/ UNCHANGED vars
         PROVE  ReleasesCarried'
    BY <1>8, <1>10 DEF rl_global_fence, Fail, vars, threadVars, atomicVars
  <1>11. ASSUME NEW t \in Thread, AnyStep(t) PROVE ReleasesCarried'
    BY <1>3, <1>4, <1>5, <1>6, <1>7, <1>9, <1>11 DEF AnyStep
  <1>. QED  BY <1>10, <1>11 DEF AnyNext

\* In every reachable state the last store of each atomic carries, for whoever
\* acquires it, all that its release sequences have released.
LEMMA AnyReleaseSequences == AnySpec => []ReleaseSequencesAreCarried
  <1>1. Init => Inv /\ Recorded /\ ReleasesCarried
    <2>. SUFFICES ASSUME Init PROVE Inv /\ Recorded /\ ReleasesCarried
      OBVIOUS
    <2>1. Inv /\ Recorded
      BY InitType, InitNoKnowledge, InitRecorded DEF Inv
    <2>2. accesses = {} /\ \A x \in Atomic : Heads(x) = {}
      BY DEF Init, Heads, Stores
    <2>3. \A t \in Thread : release_fence_order[t] = Zero /\ acq_rel_order[t] \in Clock
      BY <2>1 DEF Init, Inv, TypeOK
    <2>4. ReleasesAreKnown
      BY <2>2, <2>3, WithinClocks DEF ReleasesAreKnown
    <2>. QED  BY <2>1, <2>2, <2>4 DEF ReleasesCarried, ReleaseSequencesAreCarried
  <1>2. Inv /\ Recorded /\ ReleasesCarried /\ [AnyNext]_vars => (Inv /\ Recorded /\ ReleasesCarried)'
    BY StepReleases, StepRecorded, StepInv, GlobalFenceNoKnowledge, FailNoKnowledge DEF AnyNext
  <1>3. ReleasesCarried => ReleaseSequencesAreCarried
    BY DEF ReleasesCarried
  <1>. QED  BY <1>1, <1>2, <1>3, PTL DEF AnySpec

\* The same of the steps of Spec.
THEOREM ReleaseSequences == Spec => []ReleaseSequencesAreCarried
  BY SpecIsAny, AnyReleaseSequences, PTL

-----------------------------------------------------------------------------
(* What loads may read *)

\* A load of x may get to its i-th store: nothing later ends the loop.
Reached(t, x, i, mo) ==
    /\ i \in 1 .. current_index[x] /\ i > current_index[x] - HistorySize
    /\ \A p \in i + 1 .. current_index[x] : ~Stops(t, x, p, mo)

\* A load, or a compare-exchange that fails, is of a store it may get to.
LEMMA LoadReaches ==
    ASSUME Inv, Recorded, NEW t \in Thread, NEW x \in Atomic, NEW mo,
           Load(t, x, mo) \/ CompareExchangeFails(t, x, mo)
    PROVE  \/ Fail("uninitialized")
           \/ \E i \in Int : Reached(t, x, i, mo) /\ LoadAt(t, x, i, mo)
  <1>1. PICK n \in Nat : n = current_index[x]
    BY DEF Inv, TypeOK
  <1>2. UsedSlots(Stores(x), n, history[x])
    BY <1>1 DEF Recorded, RingHoldsTheLastStores
  <1>3. CASE CompareExchangeFails(t, x, mo)
    <2>1. n > 0 /\ LoadAt(t, x, n, mo)
      BY <1>1, <1>3 DEF CompareExchangeFails, AtomicInitialized
    <2>2. Reached(t, x, n, mo)
      BY <1>1, <2>1 DEF Reached, HistorySize
    <2>. QED  BY <2>1, <2>2
  <1>4. CASE Load(t, x, mo)
    <2>1. PICK i \in LoadIndices(t, x, mo) :
            IF Rec(x, i).busy THEN LoadAt(t, x, i, mo) ELSE Fail("uninitialized")
      BY <1>4 DEF Load
    <2>2. Limit \in 0 .. 2
      BY DEF Limit, HistorySize
    <2>3. PICK k \in 0 .. 2 :
            /\ i = n - k
            /\ \A j \in 0 .. k - 1 : Rec(x, n - j).busy /\ ~Stops(t, x, n - j, mo)
      BY <1>1, <2>1, <2>2 DEF LoadIndices
    <2>4. ASSUME Rec(x, i).busy
          PROVE  i \in 1 .. n
      <3>1. n - k \notin {-1, 0}
        <4>1. k \in 0 .. HistorySize - 1
          BY DEF HistorySize
        <4>2. n - k \in {-1, 0} => ~Rec(x, n - k).busy
          BY <1>2, <4>1 DEF UsedSlots, Rec
        <4>. QED  BY <2>3, <2>4, <4>2
      <3>2. ~(n = 0 /\ k = 2)
        <4>1. ~Rec(x, n - 0).busy \/ n - 0 \notin {-1, 0}
          BY <1>2 DEF UsedSlots, HistorySize, Rec
        <4>. QED  BY <2>3, <4>1
      <3>. QED  BY <3>1, <3>2, <2>3
    <2>5. ASSUME Rec(x, i).busy
          PROVE  Reached(t, x, i, mo)
      <3>1. \A p \in i + 1 .. n : n - p \in 0 .. k - 1 /\ n - (n - p) = p
        BY <2>3
      <3>2. \A p \in i + 1 .. n : ~Stops(t, x, p, mo)
        BY <2>3, <3>1
      <3>. QED  BY <1>1, <2>3, <2>4, <2>5, <3>2 DEF Reached, HistorySize
    <2>6. i \in Int
      BY <2>3
    <2>. QED  BY <2>1, <2>5, <2>6
  <1>. QED  BY <1>3, <1>4

\* What the ring, in the slot of the position of an access b, tells of b: what
\* was stored with memory_order_seq_cst, and when its thread has last read it.
SlotTells(b) ==
    LET n == current_index[b.obj]
        rec == Rec(b.obj, b.pos)
    IN  /\ b.pos \in 1 .. n
        /\ b.pos > n - HistorySize =>
            /\ b.op # "load" => rec.seq_cst = b.seq_cst
            /\ rec.last_seen[b.thread] <= own(b.thread)
            /\ \/ \E c \in accesses : /\ c.thread = b.thread /\ c.obj = b.obj /\ c.pos = b.pos
                                      /\ c.stamp = rec.last_seen[b.thread]
               \/ \E c \in accesses : c.thread = b.thread /\ c.obj = b.obj /\ c.pos > b.pos

RingTells == \A b \in accesses : b.obj \in Atomic => SlotTells(b)

\* What the ring tells of an access b it still tells if the slot, while it is
\* that of b, is not written by its thread.
LEMMA SlotKept ==
    ASSUME Inv, Inv', ClocksGrow, accesses \subseteq accesses',
           NEW b \in accesses, b.obj \in Atomic, SlotTells(b),
           current_index[b.obj] <= current_index'[b.obj],
           b.pos > current_index'[b.obj] - HistorySize =>
                /\ Rec(b.obj, b.pos)'.seq_cst = Rec(b.obj, b.pos).seq_cst
                /\ Rec(b.obj, b.pos)'.last_seen[b.thread] = Rec(b.obj, b.pos).last_seen[b.thread]
    PROVE  SlotTells(b)'
  <1>1. b.thread \in Thread /\ own(b.thread) <= own(b.thread)'
    BY DEF Inv, TypeOK, AccessRecord, ClocksGrow, Grown, own
  <1>2. own(b.thread) \in Int /\ own(b.thread)' \in Int
    BY <1>1 DEF Inv, TypeOK, own, Clock
  <1>3. current_index[b.obj] \in Nat /\ current_index'[b.obj] \in Nat
    BY DEF Inv, TypeOK
  <1>4. b.pos \in 1 .. current_index[b.obj] /\ b.pos \in 1 .. current_index'[b.obj]
    <2>1. b.pos \in 1 .. current_index[b.obj]
      BY DEF SlotTells
    <2>. QED  BY <1>3, <2>1
  <1>5. CASE ~(b.pos > current_index'[b.obj] - HistorySize)
    BY <1>4, <1>5 DEF SlotTells
  <1>6. CASE b.pos > current_index'[b.obj] - HistorySize
    <2>0. b.pos > current_index[b.obj] - HistorySize
      BY <1>3, <1>4, <1>6 DEF HistorySize
    <2>1. b.pos % HistorySize \in Slot
      BY <1>4, SlotOf
    <2>2. Rec(b.obj, b.pos).last_seen[b.thread] \in Int
      BY <1>1, <2>1, BoundAssumption DEF Rec, Inv, TypeOK, HistoryRecord, NotSeen
    <2>3. PICK s \in Int : s = Rec(b.obj, b.pos).last_seen[b.thread]
      BY <2>2
    <2>4. /\ b.op # "load" => Rec(b.obj, b.pos).seq_cst = b.seq_cst
          /\ s <= own(b.thread)
          /\ \/ \E c \in accesses : /\ c.thread = b.thread /\ c.obj = b.obj /\ c.pos = b.pos
                                    /\ c.stamp = s
             \/ \E c \in accesses : c.thread = b.thread /\ c.obj = b.obj /\ c.pos > b.pos
      BY <2>0, <2>3 DEF SlotTells
    <2>5. s <= own(b.thread)'
      BY <1>1, <1>2, <2>4
    <2>6. \/ \E c \in accesses' : /\ c.thread = b.thread /\ c.obj = b.obj /\ c.pos = b.pos
                                  /\ c.stamp = s
          \/ \E c \in accesses' : c.thread = b.thread /\ c.obj = b.obj /\ c.pos > b.pos
      BY <2>4
    <2>7. /\ Rec(b.obj, b.pos)'.seq_cst = Rec(b.obj, b.pos).seq_cst
          /\ Rec(b.obj, b.pos)'.last_seen[b.thread] = s
      BY <1>6, <2>3
    <2>. QED  BY <1>4, <2>4, <2>5, <2>6, <2>7 DEF SlotTells
  <1>. QED  BY <1>5, <1>6

\* A step that neither makes an access of an atomic nor changes the rings.
LEMMA TellsKept ==
    ASSUME Inv, Inv', RingTells, ClocksGrow, UNCHANGED atomicVars, accesses \subseteq accesses',
           \A b \in accesses' \ accesses : b.obj \notin Atomic
    PROVE  RingTells'
  <1>. SUFFICES ASSUME NEW b \in accesses, b.obj \in Atomic
                PROVE  SlotTells(b)'
    BY DEF RingTells
  <1>1. SlotTells(b) /\ UNCHANGED <<current_index, Rec(b.obj, b.pos)>>
    BY DEF RingTells, atomicVars, Rec
  <1>2. current_index[b.obj] <= current_index'[b.obj]
    BY <1>1 DEF Inv, TypeOK
  <1>. QED  BY <1>1, <1>2, SlotKept

\* Two positions the ring still has are in different slots.
LEMMA SlotsApart ==
    ASSUME NEW n \in Nat, NEW p \in 1 .. n, NEW q \in 1 .. n,
           p > n - HistorySize, q > n - HistorySize,
           p % HistorySize = q % HistorySize
    PROVE  p = q
  <1>1. p \in {n, n - 1, n - 2} /\ q \in {n, n - 1, n - 2}
    BY DEF HistorySize
  <1>2. n % 3 # (n - 1) % 3 /\ n % 3 # (n - 2) % 3 /\ (n - 1) % 3 # (n - 2) % 3
    OBVIOUS
  <1>. QED  BY <1>1, <1>2 DEF HistorySize

\* A load notes when its thread has read the store.
LEMMA LoadAtTells ==
    ASSUME Inv, Inv', RingTells, ClocksGrow,
           NEW t \in Thread, NEW x \in Atomic, NEW i \in Int, NEW mo,
           Reached(t, x, i, mo), LoadAt(t, x, i, mo)
    PROVE  RingTells'
  <1>0. PICK n \in Nat : n = current_index[x] /\ current_index' = current_index
    BY DEF LoadAt, Inv, TypeOK
  <1>1. i \in 1 .. n /\ i > n - HistorySize
    BY <1>0 DEF Reached
  <1>2. PICK a : a = [thread |-> t, op |-> "load", obj |-> x, pos |-> i, stamp |-> own(t) + 1,
                      seq_cst |-> mo = "seq_cst", release |-> Zero]
    OBVIOUS
  <1>3. /\ accesses' = accesses \cup {a} /\ a.thread = t /\ a.op = "load" /\ a.obj = x /\ a.pos = i
        /\ a.stamp = own(t) + 1
    BY <1>2 DEF LoadAt, Log
  <1>4. own(t) + 1 <= own(t)'
    BY <1>3 DEF Inv, NoKnowledgeOfTheFuture
  <1>5. Tick(acq_rel_order[t], t)[t] = own(t) + 1
    BY OwnTick DEF Inv, LoadAt
  <1>6. PICK c : c = Tick(acq_rel_order[t], t)
    OBVIOUS
  <1>7. history' = [history EXCEPT ![x][i % HistorySize].last_seen[t] = c[t]] /\ c[t] = own(t) + 1
    BY <1>5, <1>6 DEF LoadAt, See
  <1>8. \A y \in Atomic, k \in Slot :
            /\ history'[y][k].seq_cst = history[y][k].seq_cst
            /\ \A u \in Thread :
                ~(y = x /\ k = i % HistorySize /\ u = t) =>
                    history'[y][k].last_seen[u] = history[y][k].last_seen[u]
    BY <1>7 DEF Inv, TypeOK, HistoryRecord
  <1>9. history'[x][i % HistorySize].last_seen[t] = own(t) + 1
    BY <1>7, SlotOf DEF Inv, TypeOK, HistoryRecord
  <1>10. SlotTells(a)'
    BY <1>0, <1>1, <1>3, <1>4, <1>9 DEF SlotTells, Rec
  <1>11. ASSUME NEW b \in accesses, b.obj \in Atomic
         PROVE  SlotTells(b)'
    <2>1. SlotTells(b) /\ b.thread \in Thread
      BY <1>11 DEF RingTells, Inv, TypeOK, AccessRecord
    <2>2. current_index[b.obj] \in Nat /\ b.pos \in 1 .. current_index[b.obj]
      BY <1>11, <2>1 DEF SlotTells, Inv, TypeOK
    <2>3. b.pos % HistorySize \in Slot /\ current_index[b.obj] <= current_index'[b.obj]
      BY <1>0, <2>2, SlotOf
    <2>4. CASE /\ b.obj = x /\ b.thread = t /\ b.pos > n - HistorySize
               /\ b.pos % HistorySize = i % HistorySize
      <3>1. b.pos = i
        BY <1>0, <1>1, <2>2, <2>4, SlotsApart
      <3>2. b.op # "load" => Rec(x, i).seq_cst = b.seq_cst
        BY <1>0, <2>1, <2>4, <3>1 DEF SlotTells
      <3>3. Rec(x, i)'.seq_cst = Rec(x, i).seq_cst
        BY <1>8, SlotOf DEF Rec
      <3>. QED  BY <1>0, <1>1, <1>3, <1>4, <1>9, <2>4, <3>1, <3>2, <3>3 DEF SlotTells, Rec
    <2>5. CASE ~(/\ b.obj = x /\ b.thread = t /\ b.pos > n - HistorySize
                 /\ b.pos % HistorySize = i % HistorySize)
      <3>1. b.pos > current_index'[b.obj] - HistorySize =>
                /\ Rec(b.obj, b.pos)'.seq_cst = Rec(b.obj, b.pos).seq_cst
                /\ Rec(b.obj, b.pos)'.last_seen[b.thread] = Rec(b.obj, b.pos).last_seen[b.thread]
        BY <1>0, <1>8, <1>11, <2>1, <2>3, <2>5 DEF Rec
      <3>. QED  BY <1>3, <1>11, <2>1, <2>3, <3>1, SlotKept
    <2>. QED  BY <2>4, <2>5
  <1>. QED  BY <1>3, <1>10, <1>11 DEF RingTells

\* The ring h is that of the state but for a note of t, of at most s, that it
\* has read the n-th store of x.
Noted(h, t, x, n, s) ==
    /\ \A y \in Atomic, k \in Slot :
            /\ h[y][k].seq_cst = history[y][k].seq_cst
            /\ \A u \in Thread : ~(y = x /\ k = n % HistorySize /\ u = t) =>
                    h[y][k].last_seen[u] = history[y][k].last_seen[u]
    /\ \/ h[x][n % HistorySize].last_seen[t] = history[x][n % HistorySize].last_seen[t]
       \/ h[x][n % HistorySize].last_seen[t] <= s

\* The new store, in a slot of its own, tells of itself; a read-modify-write
\* has noted its load in the slot before.
LEMMA PublishTells ==
    ASSUME Inv, Inv', RingTells, ClocksGrow,
           NEW t \in Thread, NEW x \in Atomic, NEW mo, NEW c \in Clock, NEW rmw \in BOOLEAN,
           NEW h \in [Atomic -> [Slot -> HistoryRecord]], NEW n \in Nat, n = current_index[x],
           Noted(h, t, x, n, c[t]), Publish(t, x, h, mo, c, rmw)
    PROVE  RingTells'
  <1>1. PICK prev \in HistoryRecord : prev = h[x][n % HistorySize]
    BY SlotOf
  <1>2. PICK rec : rec = Record(t, mo, c, prev, rmw)
    OBVIOUS
  <1>3. rec.seq_cst = (mo = "seq_cst") /\ rec.last_seen[t] = c[t]
    BY <1>2 DEF Record
  <1>4. PICK a : a = [thread |-> t, op |-> IF rmw THEN "rmw" ELSE "store", obj |-> x, pos |-> n + 1,
                      stamp |-> c[t], seq_cst |-> mo = "seq_cst", release |-> Released(t, mo, c)]
    OBVIOUS
  <1>5. /\ accesses' = accesses \cup {a} /\ a.thread = t /\ a.obj = x /\ a.pos = n + 1
        /\ a.stamp = c[t] /\ a.seq_cst = (mo = "seq_cst")
    BY <1>4 DEF Publish, Log
  <1>6. /\ current_index' = [current_index EXCEPT ![x] = n + 1]
        /\ history' = [h EXCEPT ![x][(n + 1) % HistorySize] = rec]
        /\ acq_rel_order' = [acq_rel_order EXCEPT ![t] = c]
    BY <1>1, <1>2 DEF Publish
  <1>7. own(t)' = c[t] /\ c[t] \in Int
    BY <1>6, BoundAssumption DEF own, Inv, TypeOK, Clock
  <1>8. /\ current_index'[x] = n + 1 /\ \A y \in Atomic \ {x} : current_index'[y] = current_index[y]
        /\ \A y \in Atomic : current_index[y] <= current_index'[y]
    BY <1>6 DEF Inv, TypeOK
  <1>9. (n + 1) % HistorySize \in Slot /\ n % HistorySize \in Slot
    BY SlotOf
  <1>10. /\ history'[x][(n + 1) % HistorySize] = rec
         /\ \A k \in Slot : k # (n + 1) % HistorySize => history'[x][k] = h[x][k]
         /\ \A y \in Atomic \ {x} : history'[y] = h[y]
    BY <1>6, <1>9
  <1>11. SlotTells(a)'
    <2>1. a.pos \in 1 .. current_index'[x] /\ Rec(x, n + 1)' = rec
      BY <1>5, <1>8, <1>10 DEF Rec
    <2>. QED  BY <1>3, <1>5, <1>7, <2>1 DEF SlotTells
  <1>12. ASSUME NEW b \in accesses, b.obj \in Atomic
         PROVE  SlotTells(b)'
    <2>1. SlotTells(b) /\ b.thread \in Thread
      BY <1>12 DEF RingTells, Inv, TypeOK, AccessRecord
    <2>2. PICK m \in Nat : m = current_index[b.obj]
      BY <1>12 DEF Inv, TypeOK
    <2>3. b.pos \in 1 .. m /\ b.pos % HistorySize \in Slot
      BY <2>1, <2>2, SlotOf DEF SlotTells
    <2>4. CASE b.obj # x
      <3>1. Rec(b.obj, b.pos)' = h[b.obj][b.pos % HistorySize]
        BY <1>10, <1>12, <2>4 DEF Rec
      <3>2. /\ Rec(b.obj, b.pos)'.seq_cst = Rec(b.obj, b.pos).seq_cst
            /\ Rec(b.obj, b.pos)'.last_seen[b.thread] = Rec(b.obj, b.pos).last_seen[b.thread]
        BY <1>12, <2>1, <2>3, <2>4, <3>1 DEF Rec, Noted
      <3>. QED  BY <1>5, <1>8, <1>12, <2>1, <3>2, SlotKept
    <2>5. CASE b.obj = x /\ b.pos > n + 1 - HistorySize
      <3>1. b.pos \in 1 .. n /\ m = n
        BY <2>2, <2>3, <2>5
      <3>2. b.pos % HistorySize # (n + 1) % HistorySize
        <4>1. PICK k \in Nat : k = n + 1
          OBVIOUS
        <4>2. b.pos \in 1 .. k /\ k \in 1 .. k /\ b.pos # k
          BY <3>1, <4>1
        <4>3. b.pos > k - HistorySize /\ k > k - HistorySize
          BY <2>5, <4>1 DEF HistorySize
        <4>. QED  BY <4>1, <4>2, <4>3, SlotsApart
      <3>3. Rec(x, b.pos)' = h[x][b.pos % HistorySize]
        BY <1>10, <2>3, <3>2 DEF Rec
      <3>4. Rec(x, b.pos)'.seq_cst = Rec(x, b.pos).seq_cst
        BY <2>3, <3>3 DEF Rec, Noted
      <3>5. CASE Rec(x, b.pos)'.last_seen[b.thread] = Rec(x, b.pos).last_seen[b.thread]
        BY <1>5, <1>8, <1>12, <2>1, <2>5, <3>4, <3>5, SlotKept
      <3>6. CASE ~(Rec(x, b.pos)'.last_seen[b.thread] = Rec(x, b.pos).last_seen[b.thread])
        <4>1. b.pos % HistorySize = n % HistorySize /\ b.thread = t
          BY <2>1, <2>3, <3>3, <3>6 DEF Rec, Noted
        <4>2. Rec(x, b.pos)'.last_seen[t] <= c[t]
          BY <3>3, <3>6, <4>1 DEF Rec, Noted
        <4>3. b.op # "load" => Rec(x, b.pos)'.seq_cst = b.seq_cst
          <5>1. b.pos > m - HistorySize
            BY <2>5, <3>1 DEF HistorySize
          <5>. QED  BY <2>1, <2>2, <2>5, <3>4, <5>1 DEF SlotTells
        <4>4. a \in accesses' /\ a.pos > b.pos /\ b.pos \in 1 .. current_index'[x]
          BY <1>5, <1>8, <3>1
        <4>. QED  BY <1>5, <1>7, <2>5, <4>1, <4>2, <4>3, <4>4 DEF SlotTells
      <3>. QED  BY <3>5, <3>6
    <2>6. CASE b.obj = x /\ ~(b.pos > n + 1 - HistorySize)
      <3>1. ~(b.pos > current_index'[b.obj] - HistorySize)
        <4>1. b.pos \in Int /\ current_index'[b.obj] = n + 1
          BY <1>8, <2>3, <2>6
        <4>. QED  BY <2>6, <4>1 DEF HistorySize
      <3>. QED  BY <1>5, <1>8, <1>12, <2>1, <3>1, SlotKept
    <2>. QED  BY <2>4, <2>5, <2>6
  <1>. QED  BY <1>5, <1>11, <1>12 DEF RingTells

\* Every step preserves what the ring tells.
LEMMA StepTells ==
    ASSUME Inv, Recorded, RingTells, [AnyNext]_vars
    PROVE  RingTells'
  <1>1. Inv'
    BY StepInv, GlobalFenceNoKnowledge, FailNoKnowledge DEF AnyNext
  <1>2. ClocksGrow
    BY StepGrows
  <1>3. ASSUME UNCHANGED <<atomicVars, accesses>>
        PROVE  RingTells'
    BY <1>1, <1>2, <1>3, TellsKept
  <1>4. ASSUME NEW t \in Thread, NEW x \in Atomic, NEW mo,
               Load(t, x, mo) \/ CompareExchangeFails(t, x, mo)
        PROVE  RingTells'
    <2>1. CASE Fail("uninitialized")
      BY <2>1, <1>3 DEF Fail
    <2>2. ASSUME NEW i \in Int, Reached(t, x, i, mo), LoadAt(t, x, i, mo) PROVE RingTells'
      BY <1>1, <1>2, <2>2, LoadAtTells
    <2>. QED  BY <1>4, <2>1, <2>2, LoadReaches
  <1>5. ASSUME NEW t \in Thread, NEW x \in Atomic, NEW mo, Store(t, x, mo)
        PROVE  RingTells'
    <2>1. history \in [Atomic -> [Slot -> HistoryRecord]] /\ current_index[x] \in Nat
      BY DEF Inv, TypeOK
    <2>2. PICK c \in Clock : Grown(t, c) /\ Publish(t, x, history, mo, c, FALSE)
      BY <1>5, StoreClocks
    <2>3. PICK n \in Nat : n = current_index[x]
      BY <2>1
    <2>4. Noted(history, t, x, n, c[t])
      BY DEF Noted
    <2>. QED  BY <1>1, <1>2, <2>1, <2>2, <2>3, <2>4, PublishTells
  <1>6. ASSUME NEW t \in Thread, NEW x \in Atomic, NEW mo, ReadModifyWrite(t, x, mo)
        PROVE  RingTells'
    <2>. DEFINE d == Tick(acq_rel_order[t], t)
                h == See(t, x, current_index[x], d)
    <2>1. own(t) < MaxClock /\ current_index[x] \in Nat /\ current_index[x] \in Int /\ own(t) \in Int
      BY <1>6, BoundAssumption DEF ReadModifyWrite, Inv, TypeOK, own, Clock
    <2>2. h \in [Atomic -> [Slot -> HistoryRecord]]
      BY <2>1, LoadType DEF Inv
    <2>3. \A y \in Atomic, k \in Slot :
                /\ h[y][k].seq_cst = history[y][k].seq_cst
                /\ \A u \in Thread : ~(y = x /\ k = current_index[x] % HistorySize /\ u = t) =>
                        h[y][k].last_seen[u] = history[y][k].last_seen[u]
      BY DEF See, Inv, TypeOK, HistoryRecord
    <2>4. PICK c \in Clock : /\ Grown(t, c) /\ c[t] = own(t) + 2
                             /\ Publish(t, x, h, mo, c, TRUE)
      BY <1>6, StoreClocks
    <2>5. d[t] = own(t) + 1
      BY <2>1, OwnTick DEF Inv
    <2>6. h[x][current_index[x] % HistorySize].last_seen[t] = d[t]
      <3>. HIDE DEF d
      <3>. QED  BY <2>1, SlotOf DEF See, Inv, TypeOK, HistoryRecord
    <2>7. h[x][current_index[x] % HistorySize].last_seen[t] <= c[t]
      BY <2>1, <2>4, <2>5, <2>6
    <2>8. PICK n \in Nat : n = current_index[x]
      BY <2>1
    <2>. HIDE DEF d, h
    <2>9. Noted(h, t, x, n, c[t]) /\ Publish(t, x, h, mo, c, TRUE)
      BY <2>3, <2>4, <2>7, <2>8 DEF Noted
    <2>. QED  BY <1>1, <1>2, <2>2, <2>8, <2>9, PublishTells
  <1>7. ASSUME NEW t \in Thread, NEW v \in Var, VarLoad(t, v) \/ VarStore(t, v)
        PROVE  RingTells'
    <2>1. /\ UNCHANGED atomicVars /\ accesses \subseteq accesses'
          /\ \A b \in accesses' \ accesses : b.obj \in Var
      BY <1>7 DEF VarLoad, VarStore, Log
    <2>. QED  BY <1>1, <1>2, <2>1, ObjectAssumption, TellsKept
  <1>8. ASSUME NEW t \in Thread,
               \/ \E s \in SyncVar : Synchronize(t, s)
               \/ \E mo \in FenceOrder : Fence(t, mo)
               \/ \E x \in Atomic : ReadModifyWriteFails(x)
               \/ \E v \in Var : VarLoadFails(t, v) \/ VarStoreFails(t, v)
               \/ Yield(t)
        PROVE  RingTells'
    BY <1>3, <1>8 DEF Synchronize, Fence, ReadModifyWriteFails, VarLoadFails, VarStoreFails, Yield, Fail
  <1>9. ASSUME rl_global_fence \/ (\E result \in TestResult : Fail(result)) \/ UNCHANGED vars
        PROVE  RingTells'
    BY <1>3, <1>9 DEF rl_global_fence, Fail, vars
  <1>10. ASSUME NEW t \in Thread, AnyStep(t) PROVE RingTells'
    BY <1>4, <1>5, <1>6, <1>7, <1>8, <1>10 DEF AnyStep
  <1>. QED  BY <1>9, <1>10 DEF AnyNext

\* What a load needs of the state.
Legible == Inv /\ Recorded /\ RingTells

\* Every reachable state has it.
THEOREM LegibleAlways == AnySpec => []Legible
  <1>1. Init => Legible
    <2>. SUFFICES ASSUME Init PROVE Legible
      OBVIOUS
    <2>1. Inv /\ Recorded /\ accesses = {}
      BY InitType, InitNoKnowledge, InitRecorded DEF Inv, Init
    <2>. QED  BY <2>1 DEF Legible, RingTells
  <1>2. Legible /\ [AnyNext]_vars => Legible'
    BY StepTells, StepRecorded, StepInv, GlobalFenceNoKnowledge, FailNoKnowledge DEF AnyNext, Legible
  <1>. QED  BY <1>1, <1>2, PTL DEF AnySpec

\* Only loads and compare-exchanges that fail make loads, of a store they
\* may get to.
LEMMA MadeLoad ==
    ASSUME Inv, Recorded, AnyNext, NEW a \in Made, a.op = "load"
    PROVE  /\ a.thread \in Thread /\ a.obj \in Atomic
           /\ Reached(a.thread, a.obj, a.pos, IF a.seq_cst THEN "seq_cst" ELSE "relaxed")
  <1>1. ASSUME accesses' = accesses PROVE FALSE
    BY <1>1 DEF Made
  <1>2. PICK t \in Thread : AnyStep(t)
    BY <1>1 DEF AnyNext, rl_global_fence, Fail
  <1>3. ASSUME NEW x \in Atomic, NEW mo, Store(t, x, mo) \/ ReadModifyWrite(t, x, mo)
        PROVE  FALSE
    <2>1. \A h, c, rmw : Publish(t, x, h, mo, c, rmw) => \A b \in Made : b.op \in {"store", "rmw"}
      BY DEF Publish, Log, Made
    <2>. QED  BY <1>3, <2>1 DEF Store, ReadModifyWrite
  <1>4. ASSUME NEW v \in Var, VarLoad(t, v) \/ VarStore(t, v)
        PROVE  FALSE
    <2>1. \A b \in Made : b.op \in {"plain_load", "plain_store"}
      BY <1>4 DEF VarLoad, VarStore, Log, Made
    <2>. QED  BY <2>1
  <1>5. ~\/ \E s \in SyncVar : Synchronize(t, s)
         \/ \E mo \in FenceOrder : Fence(t, mo)
         \/ \E x \in Atomic : ReadModifyWriteFails(x)
         \/ \E v \in Var : VarLoadFails(t, v) \/ VarStoreFails(t, v)
         \/ Yield(t)
    BY <1>1 DEF Synchronize, Fence, ReadModifyWriteFails, VarLoadFails, VarStoreFails, Yield, Fail
  <1>6a. PICK x \in Atomic : \E mo : Load(t, x, mo) \/ CompareExchangeFails(t, x, mo)
    BY <1>2, <1>3, <1>4, <1>5 DEF AnyStep
  <1>6. PICK mo : Load(t, x, mo) \/ CompareExchangeFails(t, x, mo)
    BY <1>6a
  <1>7. PICK i \in Int : Reached(t, x, i, mo) /\ LoadAt(t, x, i, mo)
    BY <1>1, <1>6, LoadReaches DEF Fail
  <1>8. /\ a.thread = t /\ a.obj = x /\ a.pos = i /\ a.seq_cst = (mo = "seq_cst")
    BY <1>7 DEF LoadAt, Log, Made
  <1>9. Reached(t, x, i, IF mo = "seq_cst" THEN "seq_cst" ELSE "relaxed")
    BY <1>7 DEF Reached, Stops
  <1>. QED  BY <1>8, <1>9

\* What keeps a load from going past a position.
LEMMA NotStopped ==
    ASSUME Legible, NEW t \in Thread, NEW x \in Atomic, NEW i, NEW mo, Reached(t, x, i, mo)
    PROVE  /\ \A b \in Stores(x) : b.pos > i =>
                /\ ~(b.stamp <= acq_rel_order[t][b.thread])
                /\ ~(mo = "seq_cst" /\ b.seq_cst)
           /\ \A b \in accesses : b.thread = t /\ b.obj = x => b.pos <= i
  <1>1. PICK n \in Nat : n = current_index[x]
    BY DEF Legible, Inv, TypeOK
  <1>2. i \in 1 .. n /\ i > n - HistorySize
    BY <1>1 DEF Reached
  <1>3. \A p \in i + 1 .. n : ~Stops(t, x, p, mo) /\ p > n - HistorySize /\ Rec(x, p) \in HistoryRecord
    BY <1>1, <1>2, SlotOf DEF Reached, HistorySize, Rec, Legible, Inv, TypeOK
  <1>4. \A u \in Thread : acq_rel_order[t][u] \in Int
    BY BoundAssumption DEF Legible, Inv, TypeOK, Clock
  <1>5. ASSUME NEW b \in Stores(x), b.pos > i
        PROVE  ~(b.stamp <= acq_rel_order[t][b.thread]) /\ ~(mo = "seq_cst" /\ b.seq_cst)
    <2>1. b \in accesses /\ b.obj = x /\ b.op # "load" /\ b.thread \in Thread /\ b.stamp \in Int
      BY BoundAssumption DEF Stores, Legible, Inv, TypeOK, AccessRecord
    <2>2. HoldsTheLast(Stores(x), n, history[x])
      BY <1>1 DEF Legible, Recorded, RingHoldsTheLastStores
    <2>3. b.pos \in 1 .. n
      BY <2>2 DEF HoldsTheLast
    <2>4. b.pos \in i + 1 .. n
      BY <1>2, <1>5, <2>3
    <2>5. Rec(x, b.pos).thread = b.thread /\ Rec(x, b.pos).timestamp = b.stamp
      BY <1>3, <2>2, <2>4 DEF HoldsTheLast, Rec
    <2>6. Rec(x, b.pos).seq_cst = b.seq_cst
      BY <1>1, <1>3, <2>1, <2>4 DEF Legible, RingTells, SlotTells
    <2>7. /\ ~(mo = "seq_cst" /\ Rec(x, b.pos).seq_cst)
          /\ ~(acq_rel_order[t][Rec(x, b.pos).thread] >= Rec(x, b.pos).timestamp)
      BY <1>3, <2>4 DEF Stops
    <2>. QED  BY <1>4, <2>1, <2>5, <2>6, <2>7
  <1>6. ASSUME NEW b \in accesses, b.thread = t, b.obj = x
        PROVE  b.pos <= i
    <2>1. SlotTells(b)
      BY <1>6 DEF Legible, RingTells
    <2>2. b.pos \in 1 .. n
      BY <1>1, <1>6, <2>1 DEF SlotTells
    <2>. SUFFICES ASSUME b.pos > i PROVE FALSE
      BY <1>2, <2>2
    <2>3. b.pos \in i + 1 .. n
      BY <1>2, <2>2
    <2>4. Rec(x, b.pos).last_seen[t] <= own(t)
      BY <1>1, <1>3, <1>6, <2>1, <2>3 DEF SlotTells
    <2>5. Rec(x, b.pos).last_seen[t] \in Int
      BY <1>3, <2>3, BoundAssumption DEF HistoryRecord, NotSeen
    <2>6. ~(acq_rel_order[t][t] >= Rec(x, b.pos).last_seen[t])
      BY <1>3, <2>3 DEF Stops
    <2>. QED  BY <1>4, <2>4, <2>5, <2>6 DEF own
  <1>. QED  BY <1>5, <1>6

\* Every load reads a store that the ring still holds, in the slot of its
\* position.
LEMMA AnyLoadsReadStores == AnySpec => ReadsAreOfStores
  <1>1. ASSUME Legible, AnyNext, NEW a \in Made, a.op = "load"
        PROVE  \E b \in Stores(a.obj) : /\ b.pos = a.pos
                                        /\ b.thread = Rec(a.obj, a.pos).thread
                                        /\ b.stamp = Rec(a.obj, a.pos).timestamp
    <2>1. PICK x \in Atomic : x = a.obj /\ \E t \in Thread : \E mo : Reached(t, x, a.pos, mo)
      BY <1>1, MadeLoad DEF Legible
    <2>2. PICK n \in Nat : n = current_index[x]
      BY <1>1 DEF Legible, Inv, TypeOK
    <2>3. a.pos \in 1 .. n /\ a.pos > n - HistorySize
      BY <2>1, <2>2 DEF Reached
    <2>4. PICK k \in 0 .. HistorySize - 1 : a.pos = n - k
      <3>1. n - a.pos \in 0 .. HistorySize - 1 /\ a.pos = n - (n - a.pos)
        BY <2>3 DEF HistorySize
      <3>. QED  BY <3>1
    <2>5. /\ HoldsTheLast(Stores(x), n, history[x])
          /\ UsedSlots(Stores(x), n, history[x])
      BY <1>1, <2>2 DEF Legible, Recorded, RingHoldsTheLastStores
    <2>6. PICK b \in Stores(x) : b.pos = a.pos
      BY <2>3, <2>4, <2>5 DEF UsedSlots
    <2>. QED  BY <2>1, <2>3, <2>5, <2>6 DEF HoldsTheLast, Rec
  <1>2. Legible /\ [AnyNext]_vars => 
            [\A a \in Made : a.op = "load" =>
                \E b \in Stores(a.obj) : /\ b.pos = a.pos
                                         /\ b.thread = Rec(a.obj, a.pos).thread
                                         /\ b.stamp = Rec(a.obj, a.pos).timestamp]_vars
    BY <1>1
  <1>. QED  BY <1>2, LegibleAlways, PTL DEF AnySpec, ReadsAreOfStores

\* The same of the steps of Spec.
THEOREM LoadsReadStores == Spec => ReadsAreOfStores
  BY SpecIsAny, AnyLoadsReadStores, PTL

\* No load reads a store older than one its thread knows of, and none that is
\* seq_cst reads one older than a seq_cst store.
LEMMA AnyLoadsAreFresh == AnySpec => NoStaleRead
  <1>1. ASSUME Legible, AnyNext, NEW a \in Made, a.op = "load", NEW b \in Stores(a.obj),
               b \in Upto(acq_rel_order[a.thread]) \/ (a.seq_cst /\ b.seq_cst)
        PROVE  b.pos <= a.pos
    <2>. DEFINE mo == IF a.seq_cst THEN "seq_cst" ELSE "relaxed"
    <2>1. /\ a.thread \in Thread /\ a.obj \in Atomic
          /\ Reached(a.thread, a.obj, a.pos, mo)
      BY <1>1, MadeLoad DEF Legible
    <2>2. b.pos > a.pos => /\ ~(b.stamp <= acq_rel_order[a.thread][b.thread])
                           /\ ~(mo = "seq_cst" /\ b.seq_cst)
      <3>. HIDE DEF mo
      <3>. QED  BY <1>1, <2>1, NotStopped
    <2>3. ~(b.pos > a.pos)
      BY <1>1, <2>2 DEF Upto
    <2>4. a.pos \in Int /\ b.pos \in Int
      BY <1>1, <2>1 DEF Legible, Inv, TypeOK, AccessRecord, Stores, Reached
    <2>. QED  BY <2>3, <2>4
  <1>2. Legible /\ [AnyNext]_vars => 
            [\A a \in Made : a.op = "load" =>
                \A b \in Stores(a.obj) :
                    b \in Upto(acq_rel_order[a.thread]) \/ (a.seq_cst /\ b.seq_cst)
                        => b.pos <= a.pos]_vars
    BY <1>1
  <1>. QED  BY <1>2, LegibleAlways, PTL DEF AnySpec, NoStaleRead

\* The same of the steps of Spec.
THEOREM LoadsAreFresh == Spec => NoStaleRead
  BY SpecIsAny, AnyLoadsAreFresh, PTL

\* A load is of no store older than any its thread has read or made.
LEMMA AnyLoadsAdvance == AnySpec => OwnReadsAdvance
  <1>1. ASSUME Legible, AnyNext, NEW a \in Made, a.op = "load", NEW b \in accesses,
               b.thread = a.thread, b.obj = a.obj
        PROVE  b.pos <= a.pos
    BY <1>1, MadeLoad, NotStopped DEF Legible
  <1>2. Legible /\ [AnyNext]_vars => 
            [\A a \in Made : a.op = "load" =>
                \A b \in accesses :
                    b.thread = a.thread /\ b.obj = a.obj => b.pos <= a.pos]_vars
    BY <1>1
  <1>. QED  BY <1>2, LegibleAlways, PTL DEF AnySpec, OwnReadsAdvance

\* The same of the steps of Spec.
THEOREM LoadsAdvance == Spec => OwnReadsAdvance
  BY SpecIsAny, AnyLoadsAdvance, PTL

\* A thread that has read a store that is not the last one and yielded since
\* reads another.
LEMMA AnyYieldingLoadsAdvance == AnySpec => YieldMakesProgress
  <1>1. ASSUME Legible, AnyNext, NEW a \in Made, a.op = "load", a.pos < current_index[a.obj],
               NEW b \in accesses, b.thread = a.thread, b.obj = a.obj, b.pos = a.pos
        PROVE  \E c \in accesses : /\ c.thread = a.thread /\ c.obj = a.obj
                                   /\ c.pos = a.pos /\ c.stamp > last_yield[a.thread]
    <2>0. PICK t \in Thread, x \in Atomic : t = a.thread /\ x = a.obj /\ \E mo : Reached(t, x, a.pos, mo)
      BY <1>1, MadeLoad DEF Legible
    <2>1. PICK mo : t = a.thread /\ x = a.obj /\ Reached(t, x, a.pos, mo)
      BY <2>0
    <2>2. PICK n \in Nat : n = current_index[x]
      BY <1>1 DEF Legible, Inv, TypeOK
    <2>3. PICK i \in 1 .. n : i = a.pos /\ i > n - HistorySize /\ i < n
      BY <1>1, <2>1, <2>2 DEF Reached
    <2>4. ~Stops(t, x, i + 1, mo) /\ i + 1 - 1 = i
      BY <2>1, <2>2, <2>3 DEF Reached
    <2>5. Rec(x, i).busy
      <3>1. n - i \in 0 .. HistorySize - 1 /\ n - (n - i) = i
        BY <2>3 DEF HistorySize
      <3>2. UsedSlots(Stores(x), n, history[x])
        BY <1>1, <2>2 DEF Legible, Recorded, RingHoldsTheLastStores
      <3>. QED  BY <2>3, <3>1, <3>2 DEF UsedSlots, Rec
    <2>6. ~(Rec(x, i).last_seen[t] <= last_yield[t])
      BY <2>4, <2>5 DEF Stops
    <2>7. Rec(x, i).last_seen[t] \in Int /\ last_yield[t] \in Int
      BY <1>1, SlotOf, BoundAssumption DEF Rec, Legible, Inv, TypeOK, HistoryRecord, NotSeen
    <2>8. \/ \E c \in accesses : /\ c.thread = t /\ c.obj = x /\ c.pos = i
                                 /\ c.stamp = Rec(x, i).last_seen[t]
          \/ \E c \in accesses : c.thread = t /\ c.obj = x /\ c.pos > i
      BY <1>1, <2>1, <2>2, <2>3 DEF Legible, RingTells, SlotTells
    <2>9. \A c \in accesses : c.thread = t /\ c.obj = x => c.pos <= i /\ c.pos \in Int
      BY <1>1, <2>1, <2>3, NotStopped DEF Legible, Inv, TypeOK, AccessRecord
    <2>10. PICK c \in accesses : /\ c.thread = t /\ c.obj = x /\ c.pos = i
                                 /\ c.stamp = Rec(x, i).last_seen[t]
      BY <2>8, <2>9
    <2>. QED  BY <2>1, <2>3, <2>6, <2>7, <2>10
  <1>2. Legible /\ [AnyNext]_vars => 
            [\A a \in Made : a.op = "load" /\ a.pos < current_index[a.obj] =>
                \A b \in accesses :
                    b.thread = a.thread /\ b.obj = a.obj /\ b.pos = a.pos
                        => \E c \in accesses : /\ c.thread = a.thread /\ c.obj = a.obj
                                               /\ c.pos = a.pos /\ c.stamp > last_yield[a.thread]]_vars
    BY <1>1
  <1>. QED  BY <1>2, LegibleAlways, PTL DEF AnySpec, YieldMakesProgress

\* The same of the steps of Spec.
THEOREM YieldingLoadsAdvance == Spec => YieldMakesProgress
  BY SpecIsAny, AnyYieldingLoadsAdvance, PTL

=============================================================================
