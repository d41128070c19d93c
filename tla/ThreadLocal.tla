---------------------------- MODULE ThreadLocal ----------------------------
(***************************************************************************)
(* Thread local storage: the table of a context (thread_local_contxt_impl) *)
(* with a value for each thread, and the variables of the test that have   *)
(* an entry of it (thread_local_var).  A global variable outlives the      *)
(* iteration and even the context in which it has got its entry; a member  *)
(* of the test or a slot of TlsAlloc is made anew, and gets a new one.     *)
(***************************************************************************)
EXTENDS Integers, SequencesExt

CONSTANT
    Thread      \* the threads

\* A thread_local_var: the context it has an entry in, and its index there.
NewVariable == [ctx_seq |-> 0, index |-> -1]

\* thread_local_alloc: an entry is the value of each thread.
NewEntry == [t \in Thread |-> 0]
thread_local_alloc(entries) == Append(entries, NewEntry)

\* What set and get insist on.  Every entry stays alive: there is no call of
\* thread_local_free.
IsEntry(entries, index) == index + 1 \in DOMAIN entries

thread_local_set(entries, index, t, x) == [entries EXCEPT ![index + 1][t] = x]

\* thread_local_contxt_impl::iteration_begin
ZeroValues(entries) == [i \in DOMAIN entries |-> NewEntry]

\* Mutant: an index is good in every context.
NeedsAnyEntry(v, ctx_seq) == v.ctx_seq = 0

\* Whether a variable has yet to get its entry in this context.
NeedsEntry(v, ctx_seq) == v.ctx_seq # ctx_seq

\* What set and get of a variable v do first, to the table and to v.
WithEntry(entries, v, ctx_seq) ==
    IF NeedsEntry(v, ctx_seq) THEN thread_local_alloc(entries) ELSE entries
Entered(entries, v, ctx_seq) ==
    IF NeedsEntry(v, ctx_seq) THEN [ctx_seq |-> ctx_seq, index |-> Len(entries)] ELSE v

\* What get returns to the thread t, when the checks hold.
Got(entries, v, ctx_seq, t) ==
    LET e == WithEntry(entries, v, ctx_seq)
        index == Entered(entries, v, ctx_seq).index
    IN  IF IsEntry(e, index) THEN e[index + 1][t] ELSE -1
=============================================================================
