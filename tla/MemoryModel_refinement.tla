----------------------- MODULE MemoryModel_refinement -----------------------
(* Proof that the vector clocks of MemoryModel implement HappensBefore. *)
EXTENDS MemoryModel_proof

-----------------------------------------------------------------------------
(* Clocks and the sets of accesses they cover *)

\* The accesses a clock will cover after the step.
UptoNext(c) == {b \in accesses' : b.stamp <= c[b.thread]}

\* What is known of an access made.
LEMMA AccessType ==
    ASSUME Inv
    PROVE  \A b \in accesses : b.thread \in Thread /\ b.stamp \in Int /\ b.stamp <= own(b.thread)
  <1>1. accesses \subseteq AccessRecord
    BY DEF Inv, TypeOK
  <1>2. \A b \in accesses : b.thread \in Thread /\ b.stamp \in 1 .. MaxClock
    BY <1>1 DEF AccessRecord
  <1>. QED  BY <1>2 DEF Inv, NoKnowledgeOfTheFuture

\* A thread's own clock is a number.
LEMMA OwnIsInt ==
    ASSUME Inv
    PROVE  \A u \in Thread : own(u) \in Int
  BY DEF Inv, TypeOK, own, Clock

\* To join two clocks is to unite what they cover.
LEMMA UptoJoin ==
    ASSUME Inv, NEW c \in Clock, NEW d \in Clock
    PROVE  Upto(Join(c, d)) = Upto(c) \cup Upto(d)
  <1>1. \A u \in Thread : /\ c[u] \in Int /\ d[u] \in Int
                          /\ c[u] <= Join(c, d)[u] /\ d[u] <= Join(c, d)[u]
                          /\ Join(c, d)[u] = c[u] \/ Join(c, d)[u] = d[u]
    BY JoinIsClock DEF Clock
  <1>2. \A b \in accesses : b.stamp <= Join(c, d)[b.thread]
                                <=> b.stamp <= c[b.thread] \/ b.stamp <= d[b.thread]
    BY <1>1, AccessType
  <1>. QED  BY <1>2 DEF Upto

\* c and d count the same steps of every thread, of those it has done.
Agree(c, d) == \A u \in Thread : c[u] = d[u] \/ (own(u) <= c[u] /\ own(u) <= d[u])

\* Clocks that differ only beyond what was done cover the same.
LEMMA UptoSame ==
    ASSUME Inv, NEW c \in Clock, NEW d \in Clock, Agree(c, d)
    PROVE  Upto(c) = Upto(d)
  <1>1. \A u \in Thread : c[u] \in Int /\ d[u] \in Int /\ own(u) \in Int
    <2>1. \A u \in Thread : c[u] \in Int /\ d[u] \in Int
      BY DEF Clock
    <2>. QED  BY <2>1, OwnIsInt
  <1>2. \A b \in accesses : b.stamp <= c[b.thread] <=> b.stamp <= d[b.thread]
    BY <1>1, AccessType DEF Agree
  <1>. QED  BY <1>2 DEF Upto

\* A new access is not covered by the clocks of the past, and covered by the
\* clocks that have its time.
LEMMA UptoMade ==
    ASSUME Inv, NEW a, accesses' = accesses \cup {a}, a.thread \in Thread, a.stamp \in Int,
           own(a.thread) < a.stamp, NEW c \in Clock
    PROVE  /\ a \notin accesses
           /\ Past(c) => UptoNext(c) = Upto(c)
           /\ c[a.thread] = a.stamp => UptoNext(c) = Upto(c) \cup {a}
  <1>1. \A u \in Thread : c[u] \in Int /\ own(u) \in Int
    BY DEF Clock, Inv, TypeOK, own
  <1>2. a \notin accesses
    BY <1>1, AccessType
  <1>3. Past(c) => UptoNext(c) = Upto(c)
    BY <1>1 DEF Past, Upto, UptoNext
  <1>4. c[a.thread] = a.stamp => UptoNext(c) = Upto(c) \cup {a}
    BY <1>1 DEF Upto, UptoNext
  <1>. QED  BY <1>2, <1>3, <1>4

-----------------------------------------------------------------------------
(* The abstract variables after a step *)

\* No clock of the past covers an access of the step.
Quiet == \A c \in Clock : Past(c) => UptoNext(c) = Upto(c)

\* A step that makes no access, and one that makes one.
LEMMA QuietSteps ==
    ASSUME Inv
    PROVE  /\ accesses' = accesses => Quiet /\ \A c : UptoNext(c) = Upto(c)
           /\ \A a : /\ accesses' = accesses \cup {a} /\ a.thread \in Thread /\ a.stamp \in Int
                     /\ own(a.thread) < a.stamp
                     => /\ Quiet /\ a \notin accesses
                        /\ \A c \in Clock : c[a.thread] = a.stamp => UptoNext(c) = Upto(c) \cup {a}
  <1>1. accesses' = accesses => Quiet /\ \A c : UptoNext(c) = Upto(c)
    BY DEF Quiet, Upto, UptoNext
  <1>2. ASSUME NEW a, accesses' = accesses \cup {a}, a.thread \in Thread, a.stamp \in Int,
               own(a.thread) < a.stamp
        PROVE  /\ Quiet /\ a \notin accesses
               /\ \A c \in Clock : c[a.thread] = a.stamp => UptoNext(c) = Upto(c) \cup {a}
    <2>1. Zero \in Clock
      BY ZeroIsClock
    <2>. QED  BY <2>1, <1>2, UptoMade DEF Quiet
  <1>. QED  BY <1>1, <1>2

\* How the abstract variables of the threads follow those of the code.
LEMMA ThreadVariables ==
    ASSUME Inv, Quiet, NEW t \in Thread, NEW e
    PROVE  /\ acq_rel_order' = [acq_rel_order EXCEPT ![t] = e]
                  => known' = [known EXCEPT ![t] = UptoNext(e)]
           /\ acquire_fence_order' = [acquire_fence_order EXCEPT ![t] = e]
                  => acquirable' = [acquirable EXCEPT ![t] = UptoNext(e)]
           /\ release_fence_order' = [release_fence_order EXCEPT ![t] = e]
                  => released' = [released EXCEPT ![t] = UptoNext(e)]
  <1>1. /\ \A u \in Thread : UptoNext(acq_rel_order[u]) = Upto(acq_rel_order[u])
        /\ \A u \in Thread : UptoNext(acquire_fence_order[u]) = Upto(acquire_fence_order[u])
        /\ \A u \in Thread : UptoNext(release_fence_order[u]) = Upto(release_fence_order[u])
    BY DEF Quiet, Inv, TypeOK, NoKnowledgeOfTheFuture
  <1>2. /\ known' = [u \in Thread |-> UptoNext(acq_rel_order'[u])]
        /\ acquirable' = [u \in Thread |-> UptoNext(acquire_fence_order'[u])]
        /\ released' = [u \in Thread |-> UptoNext(release_fence_order'[u])]
    BY DEF known, acquirable, released, Upto, UptoNext
  <1>3. /\ acq_rel_order \in [Thread -> Clock]
        /\ acquire_fence_order \in [Thread -> Clock]
        /\ release_fence_order \in [Thread -> Clock]
    BY DEF Inv, TypeOK
  <1>4. ASSUME acq_rel_order' = [acq_rel_order EXCEPT ![t] = e]
        PROVE  known' = [known EXCEPT ![t] = UptoNext(e)]
    BY <1>1, <1>2, <1>3, <1>4 DEF known
  <1>5. ASSUME acquire_fence_order' = [acquire_fence_order EXCEPT ![t] = e]
        PROVE  acquirable' = [acquirable EXCEPT ![t] = UptoNext(e)]
    BY <1>1, <1>2, <1>3, <1>5 DEF acquirable
  <1>6. ASSUME release_fence_order' = [release_fence_order EXCEPT ![t] = e]
        PROVE  released' = [released EXCEPT ![t] = UptoNext(e)]
    BY <1>1, <1>2, <1>3, <1>6 DEF released
  <1>. QED  BY <1>4, <1>5, <1>6

\* What a step leaves alone stays.
LEMMA Unchanged ==
    ASSUME Inv, Quiet
    PROVE  /\ UNCHANGED acq_rel_order => UNCHANGED known
           /\ UNCHANGED acquire_fence_order => UNCHANGED acquirable
           /\ UNCHANGED release_fence_order => UNCHANGED released
           /\ UNCHANGED seq_cst_fence_order => UNCHANGED fenced
           /\ UNCHANGED order => UNCHANGED published
           /\ UNCHANGED current_index => UNCHANGED latest
           /\ (\A x \in Atomic, i \in Slot : /\ history'[x][i].thread = history[x][i].thread
                                             /\ history'[x][i].order = history[x][i].order)
                  => UNCHANGED <<writer, carried>>
           /\ UNCHANGED history => UNCHANGED <<writer, carried>>
  <1>1. /\ \A u \in Thread : /\ UptoNext(acq_rel_order[u]) = Upto(acq_rel_order[u])
                             /\ UptoNext(acquire_fence_order[u]) = Upto(acquire_fence_order[u])
                             /\ UptoNext(release_fence_order[u]) = Upto(release_fence_order[u])
        /\ UptoNext(seq_cst_fence_order) = Upto(seq_cst_fence_order)
        /\ \A s \in SyncVar : UptoNext(order[s]) = Upto(order[s])
    BY DEF Quiet, Inv, TypeOK, NoKnowledgeOfTheFuture
  <1>2. \A x \in Atomic, i \in Slot : UptoNext(history[x][i].order) = Upto(history[x][i].order)
    <2>1. \A x \in Atomic, i \in Slot : history[x][i].order \in Clock
      BY DEF Inv, TypeOK, HistoryRecord
    <2>. QED  BY <2>1 DEF Quiet, Inv, NoKnowledgeOfTheFuture
  <1>3. /\ known' = [u \in Thread |-> UptoNext(acq_rel_order'[u])]
        /\ acquirable' = [u \in Thread |-> UptoNext(acquire_fence_order'[u])]
        /\ released' = [u \in Thread |-> UptoNext(release_fence_order'[u])]
        /\ fenced' = UptoNext(seq_cst_fence_order')
        /\ published' = [s \in SyncVar |-> UptoNext(order'[s])]
    BY DEF known, acquirable, released, fenced, published, Upto, UptoNext
  <1>4. carried' = [x \in Atomic |-> [i \in Slot |-> UptoNext(history'[x][i].order)]]
    BY DEF carried, Upto, UptoNext
  <1>5. writer' = [x \in Atomic |-> [i \in Slot |-> history'[x][i].thread]]
    BY DEF writer
  <1>6. UNCHANGED current_index => UNCHANGED latest
    BY DEF latest
  <1>7. ASSUME \A x \in Atomic, i \in Slot : /\ history'[x][i].thread = history[x][i].thread
                                             /\ history'[x][i].order = history[x][i].order
        PROVE  UNCHANGED <<writer, carried>>
    <2>1. UNCHANGED writer
      BY <1>5, <1>7 DEF writer
    <2>2. UNCHANGED carried
      BY <1>2, <1>4, <1>7 DEF carried
    <2>. QED  BY <2>1, <2>2
  <1>8. /\ UNCHANGED acq_rel_order => UNCHANGED known
        /\ UNCHANGED acquire_fence_order => UNCHANGED acquirable
        /\ UNCHANGED release_fence_order => UNCHANGED released
        /\ UNCHANGED seq_cst_fence_order => UNCHANGED fenced
        /\ UNCHANGED order => UNCHANGED published
    BY <1>1, <1>3 DEF known, acquirable, released, fenced, published
  <1>. QED  BY <1>6, <1>7, <1>8

-----------------------------------------------------------------------------
(* Every step implements one of HappensBefore *)

\* The tick of a thread's own entry adds nothing to what it knows.
LEMMA UptoTick ==
    ASSUME Inv, NEW t \in Thread, own(t) < MaxClock
    PROVE  /\ Tick(acq_rel_order[t], t) \in Clock
           /\ Tick(acq_rel_order[t], t)[t] = own(t) + 1
           /\ Upto(Tick(acq_rel_order[t], t)) = known[t]
  <1>. DEFINE c == Tick(acq_rel_order[t], t)
  <1>1. /\ acq_rel_order[t] \in Clock /\ c \in Clock /\ own(t) \in Int /\ c[t] = own(t) + 1
        /\ \A u \in Thread \ {t} : c[u] = acq_rel_order[t][u]
    BY OwnTick DEF Inv
  <1>2. own(t) <= c[t] /\ own(t) <= acq_rel_order[t][t]
    BY <1>1 DEF own
  <1>3. Agree(c, acq_rel_order[t])
    <2>. HIDE DEF c
    <2>. QED  BY <1>1, <1>2 DEF Agree
  <1>4. known[t] = Upto(acq_rel_order[t])
    BY DEF known
  <1>. HIDE DEF c
  <1>5. Upto(c) = known[t]
    BY <1>1, <1>3, <1>4, UptoSame
  <1>. QED  BY <1>1, <1>5 DEF c

\* What a load makes known to its thread, or to a later acquire fence of it.
LEMMA UptoLoad ==
    ASSUME Inv, NEW t \in Thread, NEW x \in Atomic, NEW i \in Int, NEW mo, own(t) < MaxClock
    PROVE  /\ LoadClock(t, x, i, mo) \in Clock
           /\ LoadClock(t, x, i, mo)[t] = own(t) + 1
           /\ \A u \in Thread \ {t} : LoadClock(t, x, i, mo)[u] <= own(u)
           /\ Upto(LoadClock(t, x, i, mo)) =
                  known[t] \cup (IF Acquires(mo) THEN carried[x][i % HistorySize] ELSE {})
           /\ Join(acquire_fence_order[t], Rec(x, i).order) \in Clock
           /\ Past(Join(acquire_fence_order[t], Rec(x, i).order))
           /\ Upto(Join(acquire_fence_order[t], Rec(x, i).order)) =
                  acquirable[t] \cup carried[x][i % HistorySize]
  <1>. DEFINE c == Tick(acq_rel_order[t], t)
              d == Rec(x, i).order
  <1>1. d \in Clock /\ Past(d) /\ Upto(d) = carried[x][i % HistorySize]
    <2>1. d \in Clock
      BY LoadType DEF Inv, HistoryRecord
    <2>. QED  BY <2>1, SlotOf DEF Inv, NoKnowledgeOfTheFuture, Rec, carried
  <1>2. c \in Clock /\ Upto(c) = known[t]
    BY UptoTick
  <1>3. Upto(Join(c, d)) = known[t] \cup carried[x][i % HistorySize]
    BY <1>1, <1>2, UptoJoin
  <1>4. /\ acquire_fence_order[t] \in Clock /\ Past(acquire_fence_order[t])
        /\ Upto(acquire_fence_order[t]) = acquirable[t]
    BY DEF Inv, TypeOK, NoKnowledgeOfTheFuture, acquirable
  <1>5. /\ Join(acquire_fence_order[t], d) \in Clock
        /\ Past(Join(acquire_fence_order[t], d))
        /\ Upto(Join(acquire_fence_order[t], d)) = acquirable[t] \cup carried[x][i % HistorySize]
    <2>. DEFINE f == acquire_fence_order[t]
    <2>1. f \in Clock /\ Past(f) /\ Upto(f) = acquirable[t]
      BY <1>4
    <2>. HIDE DEF d, f
    <2>2. Join(f, d) \in Clock
      BY <1>1, <2>1, JoinIsClock
    <2>3. Past(Join(f, d))
      BY <1>1, <2>1, PastJoin
    <2>4. Upto(Join(f, d)) = Upto(f) \cup Upto(d)
      BY <1>1, <2>1, UptoJoin
    <2>5. Upto(Join(f, d)) = acquirable[t] \cup carried[x][i % HistorySize]
      BY <1>1, <2>1, <2>4
    <2>. QED  BY <2>2, <2>3, <2>5 DEF f
  <1>6. /\ c[t] = own(t) + 1 /\ Join(c, d) \in Clock /\ Join(c, d)[t] = own(t) + 1
        /\ \A u \in Thread \ {t} : c[u] <= own(u) /\ Join(c, d)[u] <= own(u)
    BY <1>1, JoinedClock
  <1>7. LoadClock(t, x, i, mo) = IF Acquires(mo) THEN Join(c, d) ELSE c
    BY DEF LoadClock
  <1>. HIDE DEF c, d
  <1>8. CASE Acquires(mo)
    BY <1>3, <1>5, <1>6, <1>7, <1>8 DEF d
  <1>9. CASE ~Acquires(mo)
    BY <1>2, <1>5, <1>6, <1>7, <1>9 DEF d
  <1>. QED  BY <1>8, <1>9

\* atomic_load is a Load.
LEMMA LoadAtRefines ==
    ASSUME Inv, NEW t \in Thread, NEW x \in Atomic, NEW i \in Int, NEW mo, LoadAt(t, x, i, mo)
    PROVE  HB!Next
  <1>. DEFINE a == [thread |-> t, op |-> "load", obj |-> x, pos |-> i, stamp |-> own(t) + 1,
                    seq_cst |-> mo = "seq_cst", release |-> Zero]
              c == LoadClock(t, x, i, mo)
              f == Join(acquire_fence_order[t], Rec(x, i).order)
  <1>1. /\ accesses' = accesses \cup {a} /\ a.obj = x /\ a.op = "load" /\ a.thread = t
        /\ a.stamp = own(t) + 1
    BY DEF LoadAt, Log
  <1>. HIDE DEF a
  <1>2. own(t) < MaxClock /\ own(t) \in Int
    BY OwnIsInt DEF LoadAt
  <1>3. Quiet /\ a \notin accesses /\ \A d \in Clock : d[t] = own(t) + 1 => UptoNext(d) = Upto(d) \cup {a}
    BY <1>1, <1>2, QuietSteps
  <1>4. /\ c \in Clock /\ c[t] = own(t) + 1
        /\ Upto(c) = known[t] \cup (IF Acquires(mo) THEN carried[x][i % HistorySize] ELSE {})
        /\ f \in Clock /\ Past(f) /\ Upto(f) = acquirable[t] \cup carried[x][i % HistorySize]
    BY <1>2, UptoLoad
  <1>. HIDE DEF c, f
  <1>5. HB!Make(a, known[t] \cup (IF Acquires(mo) THEN carried[x][i % HistorySize] ELSE {}))
    <2>1. acq_rel_order' = [acq_rel_order EXCEPT ![t] = c]
      BY DEF LoadAt, c
    <2>2. known' = [known EXCEPT ![t] = UptoNext(c)]
      BY <2>1, <1>3, ThreadVariables
    <2>. QED  BY <2>2, <1>1, <1>3, <1>4 DEF HB!Make
  <1>6. acquirable' = IF Acquires(mo) THEN acquirable
                      ELSE [acquirable EXCEPT ![t] = @ \cup carried[x][i % HistorySize]]
    <2>1. CASE Acquires(mo)
      <3>1. UNCHANGED acquire_fence_order
        BY <2>1 DEF LoadAt, LoadFence
      <3>. QED  BY <2>1, <3>1, <1>3, Unchanged
    <2>2. CASE ~Acquires(mo)
      <3>1. acquire_fence_order' = [acquire_fence_order EXCEPT ![t] = f]
        BY <2>2 DEF LoadAt, LoadFence, f
      <3>2. acquirable' = [acquirable EXCEPT ![t] = UptoNext(f)]
        BY <3>1, <1>3, ThreadVariables
      <3>3. UptoNext(f) = acquirable[t] \cup carried[x][i % HistorySize]
        BY <1>3, <1>4 DEF Quiet
      <3>. QED  BY <2>2, <3>2, <3>3
    <2>. QED  BY <2>1, <2>2
  <1>7. UNCHANGED <<released, fenced, latest, writer, carried, published, test_result>>
    <2>1. UNCHANGED <<release_fence_order, seq_cst_fence_order, order, current_index, test_result>>
      BY DEF LoadAt
    <2>2. \A y \in Atomic, k \in Slot : /\ history'[y][k].thread = history[y][k].thread
                                        /\ history'[y][k].order = history[y][k].order
      <3>1. history' = See(t, x, i, Tick(acq_rel_order[t], t))
        BY DEF LoadAt
      <3>2. history \in [Atomic -> [Slot -> HistoryRecord]]
        BY DEF Inv, TypeOK
      <3>. QED  BY <3>1, <3>2 DEF See, HistoryRecord
    <2>. QED  BY <2>1, <2>2, <1>3, Unchanged
  <1>8. HB!Load(a, i % HistorySize, Acquires(mo))
    <2>1. CASE Acquires(mo)
      BY <2>1, <1>1, <1>5, <1>6, <1>7 DEF HB!Load, HB!atomics
    <2>2. CASE ~Acquires(mo)
      BY <2>2, <1>1, <1>5, <1>6, <1>7 DEF HB!Load, HB!atomics
    <2>. QED  BY <2>1, <2>2
  <1>9. a \in accesses' /\ i % HistorySize \in Slot /\ Acquires(mo) \in BOOLEAN
    BY <1>1, SlotOf DEF Acquires
  <1>. QED  BY <1>8, <1>9 DEF HB!Next

\* Of the last store's slot: whether it is in use, and who wrote it.
LEMMA LastSlot ==
    ASSUME Inv, Recorded, NEW x \in Atomic
    PROVE  /\ current_index[x] \in Nat
           /\ Rec(x, current_index[x]).busy <=> current_index[x] > 0
           /\ current_index[x] = 0 => Rec(x, current_index[x]).thread = NoThread
  <1>1. current_index[x] \in Nat
    BY DEF Inv, TypeOK
  <1>2. UsedSlots(Stores(x), current_index[x], history[x])
    BY DEF Recorded, RingHoldsTheLastStores
  <1>3. 0 \in 0 .. HistorySize - 1 /\ current_index[x] - 0 = current_index[x]
    BY <1>1 DEF HistorySize
  <1>4. /\ current_index[x] > 0 => history[x][current_index[x] % HistorySize].busy
        /\ current_index[x] \in {-1, 0} =>
               /\ ~history[x][current_index[x] % HistorySize].busy
               /\ history[x][current_index[x] % HistorySize].thread = NoThread
    BY <1>2, <1>3 DEF UsedSlots
  <1>. QED  BY <1>1, <1>4 DEF Rec

\* t has made a store of x when its clock was c.
Wrote(t, x, mo, c, rmw) ==
    /\ Quiet
    /\ \E a \in accesses' :
        /\ a.op = (IF rmw THEN "rmw" ELSE "store") /\ a.obj = x /\ a.thread = t
        /\ HB!Write(a, (current_index[x] + 1) % HistorySize, Upto(c),
               IF current_index[x] > 0 /\ (rmw \/ writer[x][latest[x]] = t)
                 THEN carried[x][latest[x]] \cup HB!Own(a, Upto(c), Releases(mo))
                 ELSE Upto(c) \cup {a})

\* The record of a store covers what it hands over.
LEMMA PublishRefines ==
    ASSUME Inv, Recorded, NEW t \in Thread, NEW x \in Atomic, NEW mo, NEW c \in Clock,
           NEW rmw \in BOOLEAN, own(t) < c[t],
           NEW h \in [Atomic -> [Slot -> HistoryRecord]],
           \A y \in Atomic, k \in Slot : /\ h[y][k].busy = history[y][k].busy
                                         /\ h[y][k].thread = history[y][k].thread
                                         /\ h[y][k].order = history[y][k].order,
           Publish(t, x, h, mo, c, rmw)
    PROVE  Wrote(t, x, mo, c, rmw)
  <1>. DEFINE n == current_index[x]
              s == (n + 1) % HistorySize
              prev == h[x][n % HistorySize]
              rec == Record(t, mo, c, prev, rmw)
              a == [thread |-> t, op |-> IF rmw THEN "rmw" ELSE "store", obj |-> x,
                    pos |-> n + 1, stamp |-> c[t], seq_cst |-> mo = "seq_cst",
                    release |-> Released(t, mo, c)]
              last == history[x][n % HistorySize]
              handover == IF /\ n > 0
                             /\ rmw \/ writer[x][latest[x]] = t
                            THEN carried[x][latest[x]] \cup HB!Own(a, Upto(c), Releases(mo))
                            ELSE Upto(c) \cup {a}
  <1>1. /\ accesses' = accesses \cup {a} /\ a.obj = x /\ a.thread = t /\ a.stamp = c[t]
        /\ a.op = IF rmw THEN "rmw" ELSE "store"
    BY DEF Publish, Log
  <1>2. /\ current_index' = [current_index EXCEPT ![x] = n + 1]
        /\ history' = [h EXCEPT ![x][s] = rec]
        /\ acq_rel_order' = [acq_rel_order EXCEPT ![t] = c]
        /\ UNCHANGED <<release_fence_order, seq_cst_fence_order, order, test_result>>
    BY DEF Publish
  <1>3. /\ n \in Nat /\ n % HistorySize \in Slot /\ s \in Slot
        /\ current_index \in [Atomic -> Nat]
        /\ history \in [Atomic -> [Slot -> HistoryRecord]]
    BY SlotOf DEF Inv, TypeOK
  <1>4. /\ last.busy <=> n > 0
        /\ n = 0 => last.thread = NoThread
    BY LastSlot DEF Rec
  <1>5. /\ prev.busy = last.busy /\ prev.thread = last.thread /\ prev.order = last.order
        /\ last.order \in Clock /\ Past(last.order)
    BY <1>3 DEF HistoryRecord, Inv, NoKnowledgeOfTheFuture
  <1>. HIDE DEF a
  <1>6. c[t] \in Int /\ own(t) \in Int
    BY OwnIsInt DEF Clock
  <1>7. Quiet /\ a \notin accesses /\ \A d \in Clock : d[t] = c[t] => UptoNext(d) = Upto(d) \cup {a}
    BY <1>1, <1>6, QuietSteps
  <1>8. UptoNext(c) = Upto(c) \cup {a}
    BY <1>7
  <1>9. writer[x][latest[x]] = last.thread /\ carried[x][latest[x]] = Upto(last.order)
    BY <1>3 DEF writer, carried, latest
  <1>10. UptoNext(Join(last.order, Released(t, mo, c))) =
             carried[x][latest[x]] \cup HB!Own(a, Upto(c), Releases(mo))
    <2>1. CASE Releases(mo)
      <3>1. Released(t, mo, c) = c
        BY <2>1 DEF Released
      <3>2. Join(last.order, c) \in Clock /\ Upto(Join(last.order, c)) = Upto(last.order) \cup Upto(c)
        BY <1>5, JoinIsClock, UptoJoin
      <3>3. Join(last.order, c)[t] = c[t]
        <4>1. last.order[t] <= own(t) /\ last.order[t] \in Int
          BY <1>5 DEF Past, Clock
        <4>2. /\ Join(last.order, c)[t] = last.order[t] \/ Join(last.order, c)[t] = c[t]
              /\ c[t] <= Join(last.order, c)[t]
          BY <1>5, JoinIsClock
        <4>. QED  BY <4>1, <4>2, <1>6
      <3>4. UptoNext(Join(last.order, c)) = Upto(last.order) \cup (Upto(c) \cup {a})
        BY <3>2, <3>3, <1>7
      <3>. QED  BY <2>1, <3>1, <3>4, <1>9 DEF HB!Own
    <2>2. CASE ~Releases(mo)
      <3>. DEFINE f == release_fence_order[t]
      <3>1. Released(t, mo, c) = f /\ f \in Clock /\ Past(f) /\ Upto(f) = released[t]
        BY <2>2 DEF Released, Inv, TypeOK, NoKnowledgeOfTheFuture, released
      <3>2. Join(last.order, f) \in Clock /\ Past(Join(last.order, f))
        BY <3>1, <1>5, JoinIsClock, PastJoin
      <3>3. UptoNext(Join(last.order, f)) = Upto(last.order) \cup Upto(f)
        BY <3>1, <3>2, <1>5, <1>7, UptoJoin DEF Quiet
      <3>. QED  BY <2>2, <3>1, <3>3, <1>1, <1>9 DEF HB!Own
    <2>. QED  BY <2>1, <2>2
  <1>11. UptoNext(rec.order) = handover
    <2>1. prev.busy /\ (rmw \/ prev.thread = t) <=> n > 0 /\ (rmw \/ writer[x][latest[x]] = t)
      BY <1>4, <1>5, <1>9
    <2>2. rec.order = IF prev.busy /\ (rmw \/ prev.thread = t)
                        THEN Join(last.order, Released(t, mo, c)) ELSE c
      BY <1>5 DEF Record
    <2>. HIDE DEF n, prev, last, rec
    <2>. QED  BY <2>1, <2>2, <1>8, <1>10
  <1>12. rec.thread = t
    BY DEF Record
  <1>. HIDE DEF rec, handover
  <1>13. latest' = [latest EXCEPT ![x] = s]
    BY <1>2, <1>3 DEF latest
  <1>14. \A y \in Atomic, k \in Slot :
             history'[y][k] = IF y = x /\ k = s THEN rec ELSE h[y][k]
    BY <1>2, <1>3
  <1>15. writer' = [writer EXCEPT ![x][s] = t]
    <2>1. writer' = [y \in Atomic |-> [k \in Slot |-> history'[y][k].thread]]
      BY DEF writer
    <2>. DEFINE g == [y \in Atomic |-> [k \in Slot |->
                         IF y = x /\ k = s THEN t ELSE history[y][k].thread]]
    <2>2. \A y \in Atomic, k \in Slot :
            history'[y][k].thread = IF y = x /\ k = s THEN t ELSE history[y][k].thread
      BY <1>12, <1>14
    <2>3. writer' = g
      BY <2>1, <2>2
    <2>4. [writer EXCEPT ![x][s] = t] = g
      <3>1. [writer[x] EXCEPT ![s] = t] =
                [k \in Slot |-> IF k = s THEN t ELSE history[x][k].thread]
        BY <1>3 DEF writer
      <3>. QED  BY <3>1, <1>3 DEF writer
    <2>. QED  BY <2>3, <2>4
  <1>16. carried' = [carried EXCEPT ![x][s] = handover]
    <2>1. carried' = [y \in Atomic |-> [k \in Slot |-> UptoNext(history'[y][k].order)]]
      BY DEF carried, Upto, UptoNext
    <2>2. \A y \in Atomic, k \in Slot : UptoNext(h[y][k].order) = Upto(history[y][k].order)
      <3>1. \A y \in Atomic, k \in Slot : history[y][k].order \in Clock
        BY <1>3 DEF HistoryRecord
      <3>. QED  BY <3>1, <1>7 DEF Quiet, Inv, NoKnowledgeOfTheFuture
    <2>3. \A y \in Atomic, k \in Slot : UptoNext(history'[y][k].order) =
              IF y = x /\ k = s THEN handover ELSE Upto(history[y][k].order)
      BY <2>2, <1>11, <1>14
    <2>. DEFINE g == [y \in Atomic |-> [k \in Slot |->
                         IF y = x /\ k = s THEN handover ELSE Upto(history[y][k].order)]]
    <2>4. carried' = g
      BY <2>1, <2>3
    <2>5. [carried EXCEPT ![x][s] = handover] = g
      <3>1. [carried[x] EXCEPT ![s] = handover] =
                [k \in Slot |-> IF k = s THEN handover ELSE Upto(history[x][k].order)]
        BY <1>3 DEF carried
      <3>. QED  BY <3>1, <1>3 DEF carried
    <2>. QED  BY <2>4, <2>5
  <1>17. HB!Make(a, Upto(c))
    <2>1. known' = [known EXCEPT ![t] = UptoNext(c)]
      BY <1>2, <1>7, ThreadVariables
    <2>. QED  BY <2>1, <1>1, <1>7, <1>8 DEF HB!Make
  <1>18. UNCHANGED <<released, fenced, published, test_result>>
    BY <1>2, <1>7, Unchanged
  <1>19. HB!Write(a, s, Upto(c), handover)
    BY <1>1, <1>13, <1>15, <1>16, <1>17, <1>18 DEF HB!Write
  <1>20. a \in accesses'
    BY <1>1
  <1>. QED  BY <1>1, <1>7, <1>19, <1>20 DEF handover, Wrote

\* atomic_store is a Store.
LEMMA StoreRefines ==
    ASSUME Inv, Recorded, NEW t \in Thread, NEW x \in Atomic, NEW mo, Store(t, x, mo)
    PROVE  HB!Next
  <1>. DEFINE c == Tick(acq_rel_order[t], t)
              n == current_index[x]
              s == (n + 1) % HistorySize
  <1>1. own(t) < MaxClock /\ own(t) \in Int /\ UNCHANGED acquire_fence_order
    BY OwnIsInt DEF Store
  <1>2. c \in Clock /\ c[t] = own(t) + 1 /\ Upto(c) = known[t]
    BY <1>1, UptoTick
  <1>3. own(t) < c[t] /\ history \in [Atomic -> [Slot -> HistoryRecord]]
    BY <1>1, <1>2 DEF Inv, TypeOK
  <1>4. Publish(t, x, history, mo, c, FALSE)
    BY DEF Store
  <1>. HIDE DEF c
  <1>5. /\ Quiet
        /\ \E a \in accesses' :
            /\ a.op = "store" /\ a.obj = x /\ a.thread = t
            /\ HB!Write(a, s, Upto(c),
                   IF n > 0 /\ writer[x][latest[x]] = t
                     THEN carried[x][latest[x]] \cup HB!Own(a, Upto(c), Releases(mo))
                     ELSE Upto(c) \cup {a})
    <2>1. Wrote(t, x, mo, c, FALSE)
      BY <1>2, <1>3, <1>4, PublishRefines
    <2>. QED  BY <2>1 DEF Wrote
  <1>6. writer[x][latest[x]] = t => n > 0
    <2>1. n \in Nat /\ (n = 0 => Rec(x, n).thread = NoThread)
      BY LastSlot
    <2>2. writer[x][latest[x]] = Rec(x, n).thread
      BY <2>1, SlotOf DEF writer, latest, Rec
    <2>. QED  BY <2>1, <2>2, ThreadAssumption
  <1>7. PICK a \in accesses' :
            /\ a.op = "store" /\ a.obj = x /\ a.thread = t
            /\ HB!Write(a, s, known[t],
                   IF writer[x][latest[x]] = t
                     THEN carried[x][latest[x]] \cup HB!Own(a, known[t], Releases(mo))
                     ELSE known[t] \cup {a})
    BY <1>2, <1>5, <1>6
  <1>8. UNCHANGED acquirable
    BY <1>1, <1>5, Unchanged
  <1>9. HB!Store(a, s, Releases(mo))
    BY <1>7, <1>8 DEF HB!Store
  <1>10. s \in Slot /\ Releases(mo) \in BOOLEAN
    BY SlotOf DEF Releases, Inv, TypeOK
  <1>. QED  BY <1>9, <1>10 DEF HB!Next

\* atomic_rmw is a ReadModifyWrite.
LEMMA ReadModifyWriteRefines ==
    ASSUME Inv, Recorded, NEW t \in Thread, NEW x \in Atomic, NEW mo, ReadModifyWrite(t, x, mo)
    PROVE  HB!Next
  <1>. DEFINE n == current_index[x]
              s == (n + 1) % HistorySize
              b == LoadClock(t, x, n, mo)
              c == Tick(b, t)
              h == See(t, x, n, Tick(acq_rel_order[t], t))
              prev == carried[x][latest[x]]
              k == known[t] \cup (IF Acquires(mo) THEN prev ELSE {})
  <1>1. /\ n \in Int /\ n > 0 /\ own(t) \in Int /\ own(t) < MaxClock /\ own(t) + 1 < MaxClock
        /\ s \in Slot
    <2>1. n \in Nat /\ own(t) \in Int /\ MaxClock \in Int
      BY OwnIsInt, BoundAssumption DEF Inv, TypeOK
    <2>. QED  BY <2>1, SlotOf DEF ReadModifyWrite, AtomicInitialized
  <1>2. prev = carried[x][n % HistorySize]
    BY DEF latest
  <1>3. b \in Clock /\ b[t] = own(t) + 1 /\ Upto(b) = k
    BY <1>1, <1>2, UptoLoad
  <1>4. /\ history \in [Atomic -> [Slot -> HistoryRecord]]
        /\ h \in [Atomic -> [Slot -> HistoryRecord]]
        /\ \A y \in Atomic, i \in Slot : /\ h[y][i].busy = history[y][i].busy
                                         /\ h[y][i].thread = history[y][i].thread
                                         /\ h[y][i].order = history[y][i].order
    <2>1. history \in [Atomic -> [Slot -> HistoryRecord]]
      BY DEF Inv, TypeOK
    <2>2. h \in [Atomic -> [Slot -> HistoryRecord]]
      BY <1>1, LoadType DEF Inv
    <2>3. \A y \in Atomic, i \in Slot : /\ h[y][i].busy = history[y][i].busy
                                        /\ h[y][i].thread = history[y][i].thread
                                        /\ h[y][i].order = history[y][i].order
      BY <2>1 DEF See, HistoryRecord
    <2>. HIDE DEF h
    <2>. QED  BY <2>1, <2>2, <2>3
  <1>5. Publish(t, x, h, mo, c, TRUE)
    BY DEF ReadModifyWrite
  <1>. HIDE DEF b, h
  <1>6. /\ c \in Clock /\ c[t] = own(t) + 2 /\ own(t) < c[t]
        /\ \A u \in Thread \ {t} : c[u] = b[u]
    <2>1. b[t] < MaxClock
      BY <1>1, <1>3
    <2>. QED  BY <2>1, <1>1, <1>3, TickIsClock
  <1>7. Upto(c) = k
    <2>1. own(t) <= c[t] /\ own(t) <= b[t]
      BY <1>1, <1>3, <1>6
    <2>. HIDE DEF c, k
    <2>2. Agree(c, b)
      BY <2>1, <1>6 DEF Agree
    <2>. QED  BY <2>2, <1>3, <1>6, UptoSame
  <1>. HIDE DEF c, k, prev
  <1>8. /\ Quiet
        /\ \E a \in accesses' :
            /\ a.op = "rmw" /\ a.obj = x /\ a.thread = t
            /\ HB!Write(a, s, Upto(c),
                   IF n > 0 /\ (TRUE \/ writer[x][latest[x]] = t)
                     THEN prev \cup HB!Own(a, Upto(c), Releases(mo))
                     ELSE Upto(c) \cup {a})
    <2>1. Wrote(t, x, mo, c, TRUE)
      BY <1>4, <1>5, <1>6, PublishRefines
    <2>. QED  BY <2>1 DEF Wrote, prev
  <1>9. PICK a \in accesses' :
            /\ a.op = "rmw" /\ a.obj = x /\ a.thread = t
            /\ HB!Write(a, s, k, prev \cup HB!Own(a, k, Releases(mo)))
    BY <1>1, <1>7, <1>8
  <1>10. acquirable' = IF Acquires(mo) THEN acquirable
                       ELSE [acquirable EXCEPT ![t] = @ \cup prev]
    <2>1. CASE Acquires(mo)
      <3>1. UNCHANGED acquire_fence_order
        BY <2>1 DEF ReadModifyWrite, LoadFence
      <3>. QED  BY <2>1, <3>1, <1>8, Unchanged
    <2>2. CASE ~Acquires(mo)
      <3>. DEFINE f == Join(acquire_fence_order[t], Rec(x, n).order)
      <3>1. acquire_fence_order' = [acquire_fence_order EXCEPT ![t] = f]
        BY <2>2 DEF ReadModifyWrite, LoadFence
      <3>2. f \in Clock /\ Past(f) /\ Upto(f) = acquirable[t] \cup prev
        BY <1>1, <1>2, UptoLoad
      <3>. HIDE DEF f
      <3>3. acquirable' = [acquirable EXCEPT ![t] = UptoNext(f)]
        BY <3>1, <1>8, ThreadVariables
      <3>4. UptoNext(f) = acquirable[t] \cup prev
        BY <3>2, <1>8 DEF Quiet
      <3>. QED  BY <2>2, <3>3, <3>4
    <2>. QED  BY <2>1, <2>2
  <1>11. HB!ReadModifyWrite(a, s, Acquires(mo), Releases(mo))
    BY <1>9, <1>10 DEF HB!ReadModifyWrite, k, prev
  <1>12. Acquires(mo) \in BOOLEAN /\ Releases(mo) \in BOOLEAN
    BY DEF Acquires, Releases
  <1>. QED  BY <1>1, <1>11, <1>12 DEF HB!Next

\* The atomic_thread_fences are Fences.
LEMMA FenceRefines ==
    ASSUME Inv, NEW t \in Thread, NEW mo \in FenceOrder, Fence(t, mo)
    PROVE  HB!Next
  <1>. DEFINE c == Join(acq_rel_order[t], acquire_fence_order[t])
              d == Join(c, seq_cst_fence_order)
  <1>1. accesses' = accesses /\ Quiet /\ \A e : UptoNext(e) = Upto(e)
    BY QuietSteps DEF Fence
  <1>2. /\ acq_rel_order[t] \in Clock /\ Upto(acq_rel_order[t]) = known[t]
        /\ acquire_fence_order[t] \in Clock /\ Upto(acquire_fence_order[t]) = acquirable[t]
        /\ seq_cst_fence_order \in Clock /\ Upto(seq_cst_fence_order) = fenced
        /\ known = [u \in Thread |-> Upto(acq_rel_order[u])]
    BY DEF Inv, TypeOK, known, acquirable, fenced
  <1>3. c \in Clock /\ Upto(c) = known[t] \cup acquirable[t]
    <2>1. c \in Clock
      BY <1>2, JoinIsClock
    <2>2. Upto(c) = Upto(acq_rel_order[t]) \cup Upto(acquire_fence_order[t])
      BY <1>2, UptoJoin
    <2>. HIDE DEF c
    <2>. QED  BY <1>2, <2>1, <2>2
  <1>4. d \in Clock /\ Upto(d) = known[t] \cup acquirable[t] \cup fenced
    <2>. HIDE DEF c
    <2>1. d \in Clock
      BY <1>2, <1>3, JoinIsClock
    <2>2. Upto(d) = Upto(c) \cup Upto(seq_cst_fence_order)
      BY <1>2, <1>3, UptoJoin
    <2>. HIDE DEF d
    <2>. QED  BY <1>2, <1>3, <2>1, <2>2
  <1>5. UNCHANGED <<acquirable, latest, writer, carried, published, test_result>>
    <2>1. UNCHANGED <<acquire_fence_order, current_index, history, order, test_result>>
      BY DEF Fence, atomicVars
    <2>. QED  BY <2>1, <1>1, Unchanged
  <1>6. fenced' = UptoNext(seq_cst_fence_order')
    BY DEF fenced, Upto, UptoNext
  <1>. HIDE DEF c, d
  <1>7. CASE mo = "acquire"
    <2>1. /\ acq_rel_order' = [acq_rel_order EXCEPT ![t] = c]
          /\ UNCHANGED <<release_fence_order, seq_cst_fence_order>>
      BY <1>7 DEF Fence, atomic_thread_fence_acquire, c
    <2>2. known' = [known EXCEPT ![t] = Upto(c)] /\ UNCHANGED <<released, fenced>>
      BY <2>1, <1>1, ThreadVariables, Unchanged
    <2>3. HB!Fence(t, TRUE, FALSE, FALSE)
      BY <2>2, <1>1, <1>3, <1>5 DEF HB!Fence, HB!atomics
    <2>. QED  BY <2>3 DEF HB!Next
  <1>8. CASE mo = "release"
    <2>1. /\ release_fence_order' = [release_fence_order EXCEPT ![t] = acq_rel_order[t]]
          /\ UNCHANGED <<acq_rel_order, seq_cst_fence_order>>
      BY <1>8 DEF Fence, atomic_thread_fence_release
    <2>2. released' = [released EXCEPT ![t] = known[t]] /\ UNCHANGED <<known, fenced>>
      BY <2>1, <1>1, <1>2, ThreadVariables, Unchanged
    <2>3. known' = [known EXCEPT ![t] = known[t]]
      BY <2>2, <1>2
    <2>4. HB!Fence(t, FALSE, FALSE, TRUE)
      BY <2>2, <2>3, <1>1, <1>5 DEF HB!Fence, HB!atomics
    <2>. QED  BY <2>4 DEF HB!Next
  <1>9. CASE mo = "acq_rel"
    <2>1. /\ acq_rel_order' = [acq_rel_order EXCEPT ![t] = c]
          /\ release_fence_order' = [release_fence_order EXCEPT ![t] = c]
          /\ UNCHANGED seq_cst_fence_order
      BY <1>9 DEF Fence, atomic_thread_fence_acq_rel, c
    <2>2. /\ known' = [known EXCEPT ![t] = Upto(c)]
          /\ released' = [released EXCEPT ![t] = Upto(c)]
          /\ UNCHANGED fenced
      BY <2>1, <1>1, ThreadVariables, Unchanged
    <2>3. HB!Fence(t, TRUE, FALSE, TRUE)
      BY <2>2, <1>1, <1>3, <1>5 DEF HB!Fence, HB!atomics
    <2>. QED  BY <2>3 DEF HB!Next
  <1>10. CASE mo = "seq_cst"
    <2>1. /\ acq_rel_order' = [acq_rel_order EXCEPT ![t] = d]
          /\ release_fence_order' = [release_fence_order EXCEPT ![t] = d]
          /\ seq_cst_fence_order' = d
      BY <1>10 DEF Fence, atomic_thread_fence_seq_cst, c, d
    <2>2. /\ known' = [known EXCEPT ![t] = Upto(d)]
          /\ released' = [released EXCEPT ![t] = Upto(d)]
          /\ fenced' = Upto(d)
      BY <2>1, <1>1, <1>6, ThreadVariables
    <2>3. HB!Fence(t, TRUE, TRUE, TRUE)
      BY <2>2, <1>1, <1>4, <1>5 DEF HB!Fence, HB!atomics
    <2>. QED  BY <2>3 DEF HB!Next
  <1>. QED  BY <1>7, <1>8, <1>9, <1>10, OrderAssumption

\* rl_global_fence is a GlobalFence.
LEMMA GlobalFenceRefines ==
    ASSUME Inv, rl_global_fence
    PROVE  HB!Next
  <1>1. accesses' = accesses /\ Quiet /\ \A e : UptoNext(e) = Upto(e)
    BY QuietSteps DEF rl_global_fence
  <1>2. PICK max \in {own(t) : t \in Thread} :
            /\ \A t \in Thread : own(t) <= max
            /\ acq_rel_order' = [t \in Thread |-> [u \in Thread |-> max]]
    BY DEF rl_global_fence
  <1>3. max \in Int
    BY OwnIsInt
  <1>4. Upto([u \in Thread |-> max]) = accesses
    <2>1. \A b \in accesses : b.thread \in Thread /\ b.stamp <= max
      BY <1>2, <1>3, AccessType, OwnIsInt
    <2>. QED  BY <2>1 DEF Upto
  <1>5. known' = [t \in Thread |-> accesses]
    <2>1. known' = [t \in Thread |-> UptoNext(acq_rel_order'[t])]
      BY DEF known, Upto, UptoNext
    <2>. QED  BY <2>1, <1>1, <1>2, <1>4
  <1>6. UNCHANGED <<acquirable, released, fenced, latest, writer, carried, published, test_result>>
    <2>1. UNCHANGED <<acquire_fence_order, release_fence_order, seq_cst_fence_order,
                      current_index, history, order, test_result>>
      BY DEF rl_global_fence, atomicVars
    <2>. QED  BY <2>1, <1>1, Unchanged
  <1>. QED  BY <1>1, <1>5, <1>6 DEF HB!Next, HB!GlobalFence, HB!atomics

\* sync_var::acquire, release and acq_rel are Synchronize.
LEMMA SynchronizeRefines ==
    ASSUME Inv, NEW t \in Thread, NEW s \in SyncVar, Synchronize(t, s)
    PROVE  HB!Next
  <1>. DEFINE c == Tick(acq_rel_order[t], t)
              d == Join(c, order[s])
  <1>1. accesses' = accesses /\ Quiet /\ \A e : UptoNext(e) = Upto(e)
    BY QuietSteps DEF Synchronize
  <1>2. c \in Clock /\ Upto(c) = known[t]
    BY UptoTick DEF Synchronize
  <1>3. /\ order \in [SyncVar -> Clock] /\ order[s] \in Clock /\ Upto(order[s]) = published[s]
        /\ published = [r \in SyncVar |-> Upto(order[r])]
        /\ known = [u \in Thread |-> Upto(acq_rel_order[u])]
    BY DEF Inv, TypeOK, published, known
  <1>. HIDE DEF c
  <1>4. d \in Clock /\ Upto(d) = known[t] \cup published[s]
    BY <1>2, <1>3, JoinIsClock, UptoJoin
  <1>5. \A e : order' = [order EXCEPT ![s] = e]
                => published' = [published EXCEPT ![s] = Upto(e)]
    <2>. SUFFICES ASSUME NEW e, order' = [order EXCEPT ![s] = e]
                  PROVE  published' = [published EXCEPT ![s] = Upto(e)]
      OBVIOUS
    <2>1. published' = [r \in SyncVar |-> UptoNext(order'[r])]
      BY DEF published, Upto, UptoNext
    <2>2. published' = [r \in SyncVar |-> Upto(order'[r])]
      BY <2>1, <1>1
    <2>3. \A r \in SyncVar : order'[r] = IF r = s THEN e ELSE order[r]
      BY <1>3
    <2>. QED  BY <2>2, <2>3, <1>3
  <1>6. UNCHANGED <<acquirable, released, fenced, latest, writer, carried, test_result>>
    <2>1. UNCHANGED <<acquire_fence_order, release_fence_order, seq_cst_fence_order,
                      current_index, history, test_result>>
      BY DEF Synchronize, atomicVars
    <2>. QED  BY <2>1, <1>1, Unchanged
  <1>. HIDE DEF d
  <1>7. CASE sync_acquire(t, s)
    <2>1. acq_rel_order' = [acq_rel_order EXCEPT ![t] = d] /\ UNCHANGED order
      BY <1>7 DEF sync_acquire, c, d
    <2>2. known' = [known EXCEPT ![t] = Upto(d)] /\ UNCHANGED published
      BY <2>1, <1>1, ThreadVariables, Unchanged
    <2>3. HB!Synchronize(t, s, TRUE, FALSE)
      BY <2>2, <1>1, <1>4, <1>6 DEF HB!Synchronize, HB!atomics
    <2>. QED  BY <2>3 DEF HB!Next
  <1>8. CASE sync_release(t, s)
    <2>1. /\ acq_rel_order' = [acq_rel_order EXCEPT ![t] = c]
          /\ order' = [order EXCEPT ![s] = Join(order[s], c)]
      BY <1>8 DEF sync_release, c
    <2>2. known' = [known EXCEPT ![t] = known[t]]
      <3>1. known' = [known EXCEPT ![t] = UptoNext(c)]
        BY <2>1, <1>1, ThreadVariables
      <3>2. UptoNext(c) = known[t]
        BY <1>1, <1>2
      <3>. QED  BY <3>1, <3>2
    <2>3. published' = [published EXCEPT ![s] = published[s] \cup known[t]]
      <3>1. Upto(Join(order[s], c)) = published[s] \cup known[t]
        BY <1>2, <1>3, UptoJoin
      <3>. QED  BY <2>1, <3>1, <1>5
    <2>4. HB!Synchronize(t, s, FALSE, TRUE)
      BY <2>2, <2>3, <1>1, <1>6 DEF HB!Synchronize, HB!atomics
    <2>. QED  BY <2>4 DEF HB!Next
  <1>9. CASE sync_acq_rel(t, s)
    <2>1. /\ acq_rel_order' = [acq_rel_order EXCEPT ![t] = d]
          /\ order' = [order EXCEPT ![s] = Join(order[s], d)]
      BY <1>9 DEF sync_acq_rel, c, d
    <2>2. known' = [known EXCEPT ![t] = Upto(d)]
      BY <2>1, <1>1, ThreadVariables
    <2>3. published' = [published EXCEPT ![s] = published[s] \cup Upto(d)]
      <3>1. Upto(Join(order[s], d)) = published[s] \cup Upto(d)
        BY <1>3, <1>4, UptoJoin
      <3>. QED  BY <2>1, <3>1, <1>5
    <2>4. HB!Synchronize(t, s, TRUE, TRUE)
      BY <2>2, <2>3, <1>1, <1>4, <1>6 DEF HB!Synchronize, HB!atomics
    <2>. QED  BY <2>4 DEF HB!Next
  <1>. QED  BY <1>7, <1>8, <1>9 DEF Synchronize

-----------------------------------------------------------------------------
(* The race check *)

\* var_data finds the last accesses of every thread: to know the timestamps
\* is to know the accesses.
LEMMA KnowsAll ==
    ASSUME Inv, Recorded, NEW t \in Thread, NEW v \in Var
    PROVE  /\ Knows(t, store_timestamp[v]) <=>
                  \A b \in accesses : b.obj = v /\ b.op = "plain_store" => b \in known[t]
           /\ Knows(t, load_timestamp[v]) <=>
                  \A b \in accesses : b.obj = v /\ b.op = "plain_load" => b \in known[t]
  <1>1. /\ \A u \in Thread : acq_rel_order[t][u] \in Nat
        /\ \A u \in Thread : load_timestamp[v][u] \in Nat /\ store_timestamp[v][u] \in Nat
    <2>1. acq_rel_order[t] \in Clock /\ load_timestamp[v] \in Clock /\ store_timestamp[v] \in Clock
      BY DEF Inv, TypeOK
    <2>. QED  BY <2>1, BoundAssumption DEF Clock
  <1>2. \A b \in accesses : b \in known[t] <=> b.stamp <= acq_rel_order[t][b.thread]
    BY DEF known, Upto
  <1>3. \A b \in accesses : b.thread \in Thread /\ b.stamp \in Int
    BY AccessType
  <1>4. ASSUME NEW m, NEW op, \A u \in Thread : m[u] \in Nat,
               \A b \in Accesses(v, op) : b.stamp <= m[b.thread],
               \A u \in Thread : m[u] > 0 =>
                   \E b \in Accesses(v, op) : b.thread = u /\ b.stamp = m[u]
        PROVE  Knows(t, m) <=> \A b \in accesses : b.obj = v /\ b.op = op => b \in known[t]
    <2>1. ASSUME Knows(t, m), NEW b \in accesses, b.obj = v, b.op = op
          PROVE  b \in known[t]
      <3>1. b.stamp <= m[b.thread] /\ m[b.thread] <= acq_rel_order[t][b.thread]
        BY <2>1, <1>1, <1>3, <1>4 DEF Knows, Accesses
      <3>. QED  BY <3>1, <1>1, <1>2, <1>3, <1>4
    <2>2. ASSUME \A b \in accesses : b.obj = v /\ b.op = op => b \in known[t], NEW u \in Thread
          PROVE  acq_rel_order[t][u] >= m[u]
      <3>1. CASE m[u] = 0
        BY <3>1, <1>1
      <3>2. CASE m[u] > 0
        <4>1. PICK b \in Accesses(v, op) : b.thread = u /\ b.stamp = m[u]
          BY <3>2, <1>4
        <4>2. b \in accesses /\ b \in known[t]
          BY <2>2 DEF Accesses
        <4>. QED  BY <4>1, <4>2, <1>1, <1>2, <1>4
      <3>. QED  BY <3>1, <3>2, <1>4
    <2>. QED  BY <2>1, <2>2 DEF Knows
  <1>5. /\ \A b \in Accesses(v, "plain_load") : b.stamp <= load_timestamp[v][b.thread]
        /\ \A b \in Accesses(v, "plain_store") : b.stamp <= store_timestamp[v][b.thread]
        /\ \A u \in Thread :
            /\ load_timestamp[v][u] > 0 => \E b \in Accesses(v, "plain_load") :
                   b.thread = u /\ b.stamp = load_timestamp[v][u]
            /\ store_timestamp[v][u] > 0 => \E b \in Accesses(v, "plain_store") :
                   b.thread = u /\ b.stamp = store_timestamp[v][u]
    BY DEF Recorded, TimestampsAreOfTheLastAccesses
  <1>. QED  BY <1>1, <1>4, <1>5

\* A variable without a store has not been accessed.
LEMMA NotAccessed ==
    ASSUME Recorded, NEW v \in Var, ~initialized[v]
    PROVE  \A b \in accesses : b.obj # v
  BY DEF Recorded, TimestampsAreOfTheLastAccesses

\* var_data::load, store and init are Plain.
LEMMA VarRefines ==
    ASSUME Inv, Recorded, NEW t \in Thread, NEW v \in Var, VarLoad(t, v) \/ VarStore(t, v)
    PROVE  HB!Next
  <1>. DEFINE c == Tick(acq_rel_order[t], t)
  <1>1. PICK op \in {"plain_load", "plain_store"} :
            /\ Log(t, op, v, 0, own(t) + 1, FALSE, Zero)
            /\ op = "plain_load" => Knows(t, store_timestamp[v])
            /\ op = "plain_store" /\ initialized[v] =>
                   Knows(t, store_timestamp[v]) /\ Knows(t, load_timestamp[v])
    BY DEF VarLoad, VarStore
  <1>. DEFINE a == [thread |-> t, op |-> op, obj |-> v, pos |-> 0, stamp |-> own(t) + 1,
                    seq_cst |-> FALSE, release |-> Zero]
  <1>2. /\ accesses' = accesses \cup {a} /\ a.op = op /\ a.obj = v /\ a.thread = t
        /\ a.stamp = own(t) + 1
    BY <1>1 DEF Log
  <1>. HIDE DEF a
  <1>3. ~HB!Racy(t, op, v)
    <2>1. CASE op = "plain_load"
      BY <2>1, <1>1, KnowsAll DEF HB!Racy, HB!Conflicting
    <2>2. CASE op = "plain_store" /\ initialized[v]
      BY <2>2, <1>1, KnowsAll DEF HB!Racy, HB!Conflicting
    <2>3. CASE ~initialized[v]
      BY <2>3, NotAccessed DEF HB!Racy
    <2>. QED  BY <2>1, <2>2, <2>3
  <1>4. own(t) < MaxClock /\ own(t) \in Int /\ acq_rel_order' = [acq_rel_order EXCEPT ![t] = c]
    BY OwnIsInt DEF VarLoad, VarStore
  <1>5. c \in Clock /\ c[t] = own(t) + 1 /\ Upto(c) = known[t]
    BY <1>4, UptoTick
  <1>. HIDE DEF c
  <1>6. Quiet /\ a \notin accesses /\ UptoNext(c) = Upto(c) \cup {a}
    <2>1. a.thread \in Thread /\ a.stamp \in Int /\ own(a.thread) < a.stamp /\ c[a.thread] = a.stamp
      BY <1>2, <1>4, <1>5
    <2>. QED  BY <2>1, <1>2, <1>5, QuietSteps
  <1>7. HB!Make(a, known[t])
    <2>1. known' = [known EXCEPT ![t] = UptoNext(c)]
      BY <1>4, <1>6, ThreadVariables
    <2>. QED  BY <2>1, <1>2, <1>5, <1>6 DEF HB!Make
  <1>8. UNCHANGED <<acquirable, released, fenced, latest, writer, carried, published, test_result>>
    <2>1. UNCHANGED <<acquire_fence_order, release_fence_order, seq_cst_fence_order,
                      current_index, history, order, test_result>>
      BY DEF VarLoad, VarStore, atomicVars
    <2>. QED  BY <2>1, <1>6, Unchanged
  <1>9. HB!Plain(a)
    BY <1>2, <1>3, <1>7, <1>8 DEF HB!Plain, HB!atomics
  <1>10. a \in accesses'
    BY <1>2
  <1>. QED  BY <1>9, <1>10 DEF HB!Next

\* A step that ends the iteration changes nothing else.
LEMMA FailUnchanged ==
    ASSUME Inv, NEW result, Fail(result)
    PROVE  /\ test_result' = result
           /\ UNCHANGED <<accesses, known, acquirable, released, fenced, latest, writer,
                          carried, published>>
  <1>1. UNCHANGED <<accesses, acq_rel_order, acquire_fence_order, release_fence_order,
                    seq_cst_fence_order, current_index, history, order>>
    BY DEF Fail, threadVars, atomicVars
  <1>2. Quiet
    BY <1>1, QuietSteps
  <1>. QED  BY <1>1, <1>2, Unchanged DEF Fail

\* The failures of var_data are races, or loads before the first store.
LEMMA VarFailsRefines ==
    ASSUME Inv, Recorded, NEW t \in Thread, NEW v \in Var, VarLoadFails(t, v) \/ VarStoreFails(t, v)
    PROVE  HB!Next
  <1>1. CASE ~initialized[v] /\ Fail("uninitialized")
    <2>1. \A b \in known[t] : b.obj # v
      BY <1>1, NotAccessed DEF known, Upto
    <2>2. HB!Uninitialized(t, v)
      BY <2>1, <1>1, FailUnchanged DEF HB!Uninitialized, HB!atomics
    <2>. QED  BY <2>2 DEF HB!Next
  <1>2. CASE ~Knows(t, store_timestamp[v]) /\ Fail("race")
    <2>1. HB!Racy(t, "plain_load", v)
      BY <1>2, KnowsAll DEF HB!Racy, HB!Conflicting
    <2>2. HB!Race(t, v)
      BY <2>1, <1>2, FailUnchanged DEF HB!Race, HB!atomics
    <2>. QED  BY <2>2 DEF HB!Next
  <1>3. CASE ~Knows(t, load_timestamp[v]) /\ Fail("race")
    <2>1. HB!Racy(t, "plain_store", v)
      BY <1>3, KnowsAll DEF HB!Racy, HB!Conflicting
    <2>2. HB!Race(t, v)
      BY <2>1, <1>3, FailUnchanged DEF HB!Race, HB!atomics
    <2>. QED  BY <2>2 DEF HB!Next
  <1>. QED  BY <1>1, <1>2, <1>3 DEF VarLoadFails, VarStoreFails

\* A load that may look past every store of an atomic is of a thread that
\* knows none of them.
LEMMA LoadFailsRefines ==
    ASSUME Inv, Recorded, NEW t \in Thread, NEW x \in Atomic, Fail("uninitialized"),
           \A b \in Stores(x) : b \notin known[t]
    PROVE  HB!Next
  <1>1. \A b \in known[t] : ~(b.obj = x /\ b.op \in {"plain_store", "store", "rmw"})
    <2>1. \A b \in accesses : b.op = "plain_store" => b.obj # x
      BY ObjectAssumption DEF Recorded, OpsFitObjects
    <2>2. \A b \in known[t] : b \in accesses
      BY DEF known, Upto
    <2>. QED  BY <2>1, <2>2 DEF Stores
  <1>2. HB!Uninitialized(t, x)
    BY <1>1, FailUnchanged DEF HB!Uninitialized, HB!atomics
  <1>. QED  BY <1>2 DEF HB!Next

\* Before its first store an atomic has no stores.
LEMMA NoStores ==
    ASSUME Inv, Recorded, NEW x \in Atomic, ~AtomicInitialized(x)
    PROVE  Stores(x) = {}
  <1>1. current_index[x] = 0
    BY DEF Inv, TypeOK, AtomicInitialized
  <1>2. HoldsTheLast(Stores(x), 0, history[x])
    BY <1>1 DEF Recorded, RingHoldsTheLastStores
  <1>. QED  BY <1>2 DEF HoldsTheLast

\* The loop of get_load_index runs off the stores of x only past stores that
\* the thread does not know.
LEMMA LoadOfNothing ==
    ASSUME Inv, Recorded, NEW t \in Thread, NEW x \in Atomic, NEW mo,
           NEW i \in LoadIndices(t, x, mo), ~Rec(x, i).busy
    PROVE  \A b \in Stores(x) : b \notin known[t]
  <1>. DEFINE n == current_index[x]
  <1>1. n \in Nat
    BY DEF Inv, TypeOK
  <1>2. /\ HoldsTheLast(Stores(x), n, history[x])
        /\ UsedSlots(Stores(x), n, history[x])
    BY DEF Recorded, RingHoldsTheLastStores
  <1>3. PICK back \in 0 .. Limit :
            /\ i = n - back
            /\ \A j \in 0 .. back - 1 : ~Stops(t, x, n - j, mo)
    BY DEF LoadIndices
  <1>4. back \in 0 .. HistorySize - 1
    BY <1>3 DEF Limit, HistorySize
  <1>5. n <= back
    <2>. SUFFICES ASSUME n - back > 0 PROVE FALSE
      BY <1>1, <1>4 DEF HistorySize
    <2>1. history[x][(n - back) % HistorySize].busy
      BY <1>2, <1>4 DEF UsedSlots
    <2>. QED  BY <2>1, <1>3 DEF Rec
  <1>. SUFFICES ASSUME NEW b \in Stores(x) PROVE b \notin known[t]
    OBVIOUS
  <1>6. /\ b.pos \in 1 .. n
        /\ b.pos > n - HistorySize => /\ history[x][b.pos % HistorySize].thread = b.thread
                                      /\ history[x][b.pos % HistorySize].timestamp = b.stamp
    BY <1>2 DEF HoldsTheLast
  <1>7. /\ b.pos > n - HistorySize
        /\ n - b.pos \in 0 .. back - 1
        /\ n - (n - b.pos) = b.pos
    BY <1>1, <1>4, <1>5, <1>6 DEF HistorySize
  <1>8. ~(acq_rel_order[t][Rec(x, b.pos).thread] >= Rec(x, b.pos).timestamp)
    BY <1>3, <1>7 DEF Stops
  <1>9. ~(acq_rel_order[t][b.thread] >= b.stamp)
    BY <1>6, <1>7, <1>8 DEF Rec
  <1>10. b \in accesses /\ b.thread \in Thread /\ b.stamp \in Int
    BY AccessType DEF Stores
  <1>11. acq_rel_order[t][b.thread] \in Int
    BY <1>10 DEF Inv, TypeOK, Clock
  <1>12. ~(b.stamp <= acq_rel_order[t][b.thread])
    BY <1>9, <1>10, <1>11
  <1>. QED  BY <1>12 DEF known, Upto

-----------------------------------------------------------------------------
(* The refinement *)

\* The iteration starts with nothing known.
LEMMA InitRefines == Init => HB!Init
  <1>. SUFFICES ASSUME Init PROVE HB!Init
    OBVIOUS
  <1>1. accesses = {} /\ test_result = "none" /\ \A c : Upto(c) = {}
    BY DEF Init, Upto
  <1>2. /\ known = [t \in Thread |-> {}]
        /\ acquirable = [t \in Thread |-> {}]
        /\ released = [t \in Thread |-> {}]
        /\ fenced = {}
        /\ published = [s \in SyncVar |-> {}]
    BY <1>1 DEF known, acquirable, released, fenced, published
  <1>3. latest = [x \in Atomic |-> 0]
    BY DEF Init, latest, HistorySize
  <1>4. carried = [x \in Atomic |-> [i \in Slot |-> {}]]
    BY <1>1 DEF carried
  <1>5. writer = [x \in Atomic |-> [i \in Slot |-> NoThread]]
    BY DEF Init, writer, EmptyRecord
  <1>. QED  BY <1>1, <1>2, <1>3, <1>4, <1>5 DEF HB!Init

\* Every step of the memory model is a step of HappensBefore or changes
\* nothing it tells of.
LEMMA StepRefines ==
    ASSUME Inv, Recorded, [Next]_vars
    PROVE  [test_result = "none" /\ HB!Next]_(HB!vars)
  <1>1. ASSUME NEW t \in Thread, NEW x \in Atomic, NEW mo, Load(t, x, mo)
        PROVE  HB!Next
    <2>1. PICK i \in LoadIndices(t, x, mo) :
              IF Rec(x, i).busy THEN LoadAt(t, x, i, mo) ELSE Fail("uninitialized")
      BY <1>1 DEF Load
    <2>2. CASE Rec(x, i).busy
      <3>1. current_index[x] \in Int
        BY DEF Inv, TypeOK
      <3>2. i \in Int
        BY <3>1 DEF LoadIndices, Limit, HistorySize
      <3>. QED  BY <2>1, <2>2, <3>2, LoadAtRefines
    <2>3. CASE ~Rec(x, i).busy
      <3>1. \A b \in Stores(x) : b \notin known[t]
        BY <2>3, LoadOfNothing
      <3>. QED  BY <2>1, <2>3, <3>1, LoadFailsRefines
    <2>. QED  BY <2>2, <2>3
  <1>2. ASSUME NEW t \in Thread, NEW x \in Atomic, NEW mo, CompareExchangeFails(t, x, mo)
        PROVE  HB!Next
    <2>1. current_index[x] \in Int
      BY DEF Inv, TypeOK
    <2>. QED  BY <1>2, <2>1, LoadAtRefines DEF CompareExchangeFails
  <1>3. ASSUME NEW t \in Thread, NEW x \in Atomic, ReadModifyWriteFails(x)
        PROVE  HB!Next
    <2>1. \A b \in Stores(x) : b \notin known[t]
      BY <1>3, NoStores DEF ReadModifyWriteFails
    <2>. QED  BY <1>3, <2>1, LoadFailsRefines DEF ReadModifyWriteFails
  <1>4. ASSUME NEW t \in Thread, Yield(t)
        PROVE  UNCHANGED HB!vars
    <2>1. UNCHANGED <<accesses, acq_rel_order, acquire_fence_order, release_fence_order,
                      seq_cst_fence_order, current_index, history, order, test_result>>
      BY <1>4 DEF Yield, atomicVars
    <2>2. Quiet
      BY <2>1, QuietSteps
    <2>. QED  BY <2>1, <2>2, Unchanged DEF HB!vars, HB!atomics
  <1>5. CASE UNCHANGED vars
    <2>1. UNCHANGED <<accesses, acq_rel_order, acquire_fence_order, release_fence_order,
                      seq_cst_fence_order, current_index, history, order, test_result>>
      BY <1>5 DEF vars, threadVars, atomicVars
    <2>2. Quiet
      BY <2>1, QuietSteps
    <2>. QED  BY <2>1, <2>2, Unchanged DEF HB!vars, HB!atomics
  <1>6. ASSUME NEW t \in Thread, Step(t)
        PROVE  HB!Next \/ UNCHANGED HB!vars
    BY <1>1, <1>2, <1>3, <1>4, <1>6, StoreRefines, ReadModifyWriteRefines, FenceRefines,
       SynchronizeRefines, VarRefines, VarFailsRefines DEF Step
  <1>. QED  BY <1>5, <1>6, GlobalFenceRefines DEF Next

\* The vector clocks implement the sets of accesses that happen before: the
\* race check of var_data is sound and complete for the happens-before of the
\* model, whatever the number of threads, objects and steps.
THEOREM Refinement == Spec => ImplementsHappensBefore
  <1>1. Init => HB!Init
    BY InitRefines
  <1>2. Inv /\ Recorded /\ [Next]_vars => [test_result = "none" /\ HB!Next]_(HB!vars)
    BY StepRefines
  <1>. QED  BY <1>1, <1>2, Recording, PTL DEF Spec, ImplementsHappensBefore, HB!Spec

=============================================================================
