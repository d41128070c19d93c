------------------------------ MODULE Holders ------------------------------
(***************************************************************************)
(* What locks and semaphores promise of one step of a thread, whoever it   *)
(* wakes: it gives back one lock of its own or posts to one semaphore, at  *)
(* most, and the locks and units that are free by then, and no others, go  *)
(* to threads.  There is nothing here of waitsets, recursion, waits for    *)
(* several objects or the processor handed over.                           *)
(*                                                                         *)
(* Blocking implements this specification.                                 *)
(***************************************************************************)
EXTENDS Naturals

CONSTANTS
    Thread,         \* the threads
    Lock,           \* the locks
    Semaphore,      \* the semaphores
    MaxCount,       \* the units a semaphore has at most
    Free, Shared    \* owners of a lock that no thread owns, or its readers

VARIABLES
    owner,          \* who owns each lock
    readers,        \* the threads that share it
    count           \* the units of each semaphore

vars == <<owner, readers, count>>

Init ==
    /\ owner = [m \in Lock |-> Free]
    /\ readers = [m \in Lock |-> {}]
    /\ count = [p \in Semaphore |-> 0]

\* Where o are the owners and c the units, threads have what is free, or some of
\* it.
Grant(o, c) ==
    /\ owner' \in [Lock -> Thread \cup {Free, Shared}]
    /\ \A m \in Lock : owner'[m] = o[m] \/ (o[m] = Free /\ owner'[m] \in Thread)
    /\ count' \in [Semaphore -> Nat]
    /\ \A p \in Semaphore : count'[p] <= c[p]

\* Threads take something, or nothing.
Acquire == Grant(owner, count) /\ UNCHANGED readers

\* The owner gives a lock back.
Release(t, m) ==
    /\ owner[m] = t
    /\ Grant([owner EXCEPT ![m] = Free], count)
    /\ UNCHANGED readers

\* A reader joins those that have the lock, or is the first.
Enter(t, m) ==
    /\ owner[m] \in {Free, Shared}
    /\ owner' = [owner EXCEPT ![m] = Shared]
    /\ readers' = [readers EXCEPT ![m] = @ \cup {t}]
    /\ UNCHANGED count

\* A reader leaves; the last of them gives the lock back.
Leave(t, m) ==
    /\ t \in readers[m]
    /\ readers' = [readers EXCEPT ![m] = @ \ {t}]
    /\ Grant(IF readers[m] = {t} THEN [owner EXCEPT ![m] = Free] ELSE owner, count)

\* A semaphore has n units more, if it can.
Post(p, n) ==
    /\ count[p] + n <= MaxCount[p]
    /\ Grant(owner, [count EXCEPT ![p] = @ + n])
    /\ UNCHANGED readers

Next ==
    \/ Acquire
    \/ \E t \in Thread, m \in Lock : Release(t, m) \/ Enter(t, m) \/ Leave(t, m)
    \/ \E p \in Semaphore : \E n \in 1 .. MaxCount[p] : Post(p, n)

Spec == Init /\ [][Next]_vars
=============================================================================
