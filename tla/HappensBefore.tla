--------------------------- MODULE HappensBefore ---------------------------
(***************************************************************************)
(* What the memory model promises, without timestamps: every thread knows  *)
(* the set of accesses that happen before its next step.  A release hands  *)
(* the set over to the object it writes, an acquire takes it from the      *)
(* object it reads, a fence does the same for the relaxed operations on    *)
(* the other side of it.  A plain access that conflicts with an access its *)
(* thread does not know is a data race, and nothing else is; a load that   *)
(* finds its object uninitialized is of a thread that knows no store to it.*)
(*                                                                         *)
(* MemoryModel implements this specification with vector clocks.           *)
(***************************************************************************)
CONSTANTS
    Thread,     \* the threads of the test
    NoThread,   \* the writer of a slot that was never written
    Atomic,     \* the atomics
    Index,      \* the slots in which an atomic keeps its last stores
    FirstIndex, \* the one that is the latest before any store
    Var,        \* the plain variables
    SyncVar     \* the sync_vars of mutexes, semaphores, events, threads

VARIABLES
    accesses,   \* the accesses made so far: [thread, op, obj, ...]
    known,      \* known[t]: those that happen before t's next step
    acquirable, \* acquirable[t]: what an acquire fence of t would add
    released,   \* released[t]: what t's last release fence hands over
    fenced,     \* what the seq_cst fences have handed over
    latest,     \* latest[x]: the slot of x's last store
    writer,     \* writer[x][s]: who stored in slot s of x
    carried,    \* carried[x][s]: what a reader of slot s synchronises with
    published,  \* published[v]: what an acquire of sync_var v adds
    verdict     \* "none", "race" or "uninitialized"

atomics == <<latest, writer, carried>>
vars == <<accesses, known, acquirable, released, fenced, atomics, published, verdict>>

Init ==
    /\ accesses = {}
    /\ known = [t \in Thread |-> {}]
    /\ acquirable = [t \in Thread |-> {}]
    /\ released = [t \in Thread |-> {}]
    /\ fenced = {}
    /\ latest = [x \in Atomic |-> FirstIndex]
    /\ writer = [x \in Atomic |-> [s \in Index |-> NoThread]]
    /\ carried = [x \in Atomic |-> [s \in Index |-> {}]]
    /\ published = [v \in SyncVar |-> {}]
    /\ verdict = "none"

\* a is made now, by a thread that knows k: it is in that thread's past only.
Make(a, k) ==
    /\ a \notin accesses
    /\ a.thread \in Thread
    /\ accesses' = accesses \cup {a}
    /\ known' = [known EXCEPT ![a.thread] = k \cup {a}]

-----------------------------------------------------------------------------
(* Plain variables *)

\* A plain load conflicts with the plain stores of its variable, a plain
\* store with the plain loads too.
Conflicting(op) ==
    IF op = "plain_load" THEN {"plain_store"} ELSE {"plain_load", "plain_store"}

Racy(t, op, v) ==
    \E b \in accesses : b.obj = v /\ b.op \in Conflicting(op) /\ b \notin known[t]

Plain(a) ==
    /\ a.op \in {"plain_load", "plain_store"}
    /\ a.obj \in Var
    /\ ~Racy(a.thread, a.op, a.obj)
    /\ Make(a, known[a.thread])
    /\ UNCHANGED <<acquirable, released, fenced, atomics, published, verdict>>

Race(t, v) ==
    /\ \E op \in {"plain_load", "plain_store"} : Racy(t, op, v)
    /\ verdict' = "race"
    /\ UNCHANGED <<accesses, known, acquirable, released, fenced, atomics, published>>

Uninitialized(t, obj) ==
    /\ \A b \in known[t] : ~(b.obj = obj /\ b.op \in {"plain_store", "store", "rmw"})
    /\ verdict' = "uninitialized"
    /\ UNCHANGED <<accesses, known, acquirable, released, fenced, atomics, published>>

-----------------------------------------------------------------------------
(* Atomics *)

Load(a, s, acquire) ==
    /\ a.op = "load" /\ a.obj \in Atomic
    /\ IF acquire
         THEN /\ Make(a, known[a.thread] \cup carried[a.obj][s])
              /\ UNCHANGED acquirable
         ELSE /\ Make(a, known[a.thread])
              /\ acquirable' = [acquirable EXCEPT ![a.thread] = @ \cup carried[a.obj][s]]
    /\ UNCHANGED <<released, fenced, atomics, published, verdict>>

\* The store a goes to slot s and carries the set handover.
Write(a, s, k, handover) ==
    /\ a.obj \in Atomic
    /\ Make(a, k)
    /\ latest' = [latest EXCEPT ![a.obj] = s]
    /\ writer' = [writer EXCEPT ![a.obj][s] = a.thread]
    /\ carried' = [carried EXCEPT ![a.obj][s] = handover]
    /\ UNCHANGED <<released, fenced, published, verdict>>

\* What the store a hands over itself: all its thread knows, or what the
\* thread's last release fence has released.
Own(a, k, release) == IF release THEN k \cup {a} ELSE released[a.thread]

\* A store that follows a store of its own thread continues its release
\* sequence.  Any other starts one, which hands over all its thread knows
\* even if the store is relaxed: more than ISO C++ allows it to.
Store(a, s, release) ==
    LET prev == latest[a.obj]
        k == known[a.thread]
    IN  /\ a.op = "store"
        /\ Write(a, s, k, IF writer[a.obj][prev] = a.thread
                            THEN carried[a.obj][prev] \cup Own(a, k, release)
                            ELSE k \cup {a})
        /\ UNCHANGED acquirable

\* A read-modify-write reads the last store and continues its sequence.
ReadModifyWrite(a, s, acquire, release) ==
    LET prev == carried[a.obj][latest[a.obj]]
        k == known[a.thread] \cup (IF acquire THEN prev ELSE {})
    IN  /\ a.op = "rmw"
        /\ Write(a, s, k, prev \cup Own(a, k, release))
        /\ acquirable' = IF acquire THEN acquirable
                         ELSE [acquirable EXCEPT ![a.thread] = @ \cup prev]

-----------------------------------------------------------------------------
(* Fences and sync_vars *)

\* A fence of t that acquires, joins the order of the seq_cst fences, and
\* releases, or does some of the three.
Fence(t, acquire, seq_cst, release) ==
    LET k == known[t] \cup (IF acquire THEN acquirable[t] ELSE {})
                      \cup (IF seq_cst THEN fenced ELSE {})
    IN  /\ known' = [known EXCEPT ![t] = k]
        /\ fenced' = IF seq_cst THEN k ELSE fenced
        /\ released' = IF release THEN [released EXCEPT ![t] = k] ELSE released
        /\ UNCHANGED <<accesses, acquirable, atomics, published, verdict>>

\* A mutex, semaphore, event or thread is acquired, released, or both.
Synchronize(t, v, acquire, release) ==
    LET k == known[t] \cup (IF acquire THEN published[v] ELSE {})
    IN  /\ known' = [known EXCEPT ![t] = k]
        /\ published' = IF release THEN [published EXCEPT ![v] = @ \cup k] ELSE published
        /\ UNCHANGED <<accesses, acquirable, released, fenced, atomics, verdict>>

\* Between the phases of a test everything is known to everyone.
GlobalFence ==
    /\ known' = [t \in Thread |-> accesses]
    /\ UNCHANGED <<accesses, acquirable, released, fenced, atomics, published, verdict>>

\* The access of a step is the one accesses' has and accesses has not.
Next ==
    \/ \E a \in accesses' :
        \/ Plain(a)
        \/ \E s \in Index, acquire, release \in BOOLEAN :
            \/ Load(a, s, acquire)
            \/ Store(a, s, release)
            \/ ReadModifyWrite(a, s, acquire, release)
    \/ \E t \in Thread :
        \/ \E v \in Var : Race(t, v)
        \/ \E obj \in Atomic \cup Var : Uninitialized(t, obj)
        \/ \E acquire, seq_cst, release \in BOOLEAN : Fence(t, acquire, seq_cst, release)
        \/ \E v \in SyncVar, acquire, release \in BOOLEAN : Synchronize(t, v, acquire, release)
    \/ GlobalFence

Spec == Init /\ [][verdict = "none" /\ Next]_vars
============================================================================
