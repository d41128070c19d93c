---------------------------- MODULE TreeSearch ----------------------------
(***************************************************************************)
(* How simulate searches the executions of a test: the depth-first search  *)
(* of tree_search_scheduler over everything that is left to chance, with   *)
(* one iteration for each execution, and the second run that repeats the   *)
(* iteration in which the first has failed, to collect its history.        *)
(*                                                                         *)
(* A deterministic test is the tree of its choices: a node is a call of    *)
(* rand, with a subtree for each of the results, a leaf is the end of an   *)
(* execution and its test_result.                                          *)
(***************************************************************************)
EXTENDS Integers, SequencesExt

CONSTANTS
    MaxDepth,   \* bound on the choices of an execution
    MaxLimit    \* bound on the argument of rand

ASSUME BoundAssumption == MaxDepth \in Nat /\ MaxLimit \in Nat \ {0}

Leaf == {[result |-> r, children |-> <<>>] : r \in {"success", "failure"}}

Trees[d \in 0 .. MaxDepth] ==
    IF d = 0 THEN Leaf
    ELSE Leaf \cup {[result |-> "none", children |-> c] :
                        c \in UNION {[1 .. n -> Trees[d - 1]] : n \in 1 .. MaxLimit}}

VARIABLES
    test,               \* the test: its tree
    here,               \* the node its execution has reached
    stree_,             \* the path of the search: [count_, index_] of each choice
    stree_depth_,       \* how many of them the execution has made
    current_iter_,
    second,             \* the run that collects the history
    final_state,        \* the stop_iteration and stree_ the first run has left
    outcome,            \* "none", "success", "failure", or "verify"
    explored            \* auxiliary: the executions of the first run

vars == <<test, here, stree_, stree_depth_, current_iter_, second, final_state,
          outcome, explored>>

Path(stree) == [i \in 1 .. Len(stree) |-> stree[i].index_]

Init ==
    /\ test \in Trees[MaxDepth]
    /\ here = test
    /\ stree_ = <<>>
    /\ stree_depth_ = 0
    /\ current_iter_ = 1
    /\ second = FALSE
    /\ final_state = [stop_iteration |-> 0, stree |-> <<>>]
    /\ outcome = "none"
    /\ explored = <<>>

Stop(result) ==
    /\ outcome' = result
    /\ UNCHANGED <<test, here, stree_, stree_depth_, current_iter_, second, final_state>>

\* rand_impl: a choice not made before starts with 0, one made before is made
\* again.
Chosen(limit) ==
    IF stree_depth_ = Len(stree_) THEN [count_ |-> limit, index_ |-> 0]
                                  ELSE stree_[stree_depth_ + 1]

Rand ==
    LET limit == Len(here.children)
        n == Chosen(limit)
    IN  /\ limit > 0
        /\ IF n.count_ = limit /\ n.index_ < n.count_
             THEN /\ stree_' = IF stree_depth_ = Len(stree_) THEN Append(stree_, n) ELSE stree_
                  /\ stree_depth_' = stree_depth_ + 1
                  /\ here' = here.children[n.index_ + 1]
                  /\ UNCHANGED <<test, current_iter_, second, final_state, outcome>>
             ELSE Stop("verify")
        /\ UNCHANGED explored

\* Mutants: the choices after it are kept; the last result is passed over; one
\* more is expected than there is.
AdvancedOnly(i) == [stree_ EXCEPT ![i].index_ = @ + 1]
HasTwoMore(i) == stree_[i].index_ + 1 < stree_[i].count_ - 1
HasOneTooMany(i) == stree_[i].index_ # stree_[i].count_

\* iteration_end_impl: the last choice that has a next result takes it, and
\* those after it are forgotten.
Advanced(i) == [SubSeq(stree_, 1, i) EXCEPT ![i].index_ = @ + 1]
HasNext(i) == stree_[i].index_ # stree_[i].count_ - 1

\* The execution succeeds.  The second run must not; the first goes on.
IterationEnd ==
    /\ here.result = "success"
    /\ IF second \/ stree_depth_ # Len(stree_) THEN Stop("verify")
       ELSE IF \A i \in 1 .. Len(stree_) : ~HasNext(i) THEN Stop("success")
       ELSE \E i \in 1 .. Len(stree_) :
                /\ HasNext(i)
                /\ \A j \in i + 1 .. Len(stree_) : ~HasNext(j)
                /\ stree_' = Advanced(i)
                /\ stree_depth_' = 0
                /\ here' = test
                /\ current_iter_' = current_iter_ + 1
                /\ UNCHANGED <<test, second, final_state, outcome>>
    /\ explored' = Append(explored, Path(stree_))

\* Mutant: saves the number of the iterations that have succeeded.
FirstRunMiscounts ==
    /\ here.result = "failure" /\ ~second
    /\ final_state' = [stop_iteration |-> current_iter_ - 1, stree |-> stree_]
    /\ second' = TRUE
    /\ stree_' = final_state'.stree
    /\ current_iter_' = final_state'.stop_iteration
    /\ stree_depth_' = 0
    /\ here' = test
    /\ explored' = Append(explored, Path(stree_))
    /\ UNCHANGED <<test, outcome>>

\* Mutant: reads the number of the iteration, and none of the choices.
FirstRunForgets ==
    /\ here.result = "failure" /\ ~second
    /\ final_state' = [stop_iteration |-> current_iter_, stree |-> stree_]
    /\ second' = TRUE
    /\ stree_' = <<>>
    /\ current_iter_' = final_state'.stop_iteration
    /\ stree_depth_' = 0
    /\ here' = test
    /\ explored' = Append(explored, Path(stree_))
    /\ UNCHANGED <<test, outcome>>

\* The first run fails: simulate saves the state of the search and starts the
\* second run, which reads it.
FirstRunFails ==
    /\ here.result = "failure" /\ ~second
    /\ final_state' = [stop_iteration |-> current_iter_, stree |-> stree_]
    /\ second' = TRUE
    /\ stree_' = final_state'.stree
    /\ current_iter_' = final_state'.stop_iteration
    /\ stree_depth_' = 0
    /\ here' = test
    /\ explored' = Append(explored, Path(stree_))
    /\ UNCHANGED <<test, outcome>>

\* Mutant: waits for a failure in another iteration.
SecondRunWaits ==
    /\ here.result = "failure" /\ second
    /\ current_iter_ # final_state.stop_iteration
    /\ Stop("verify")
    /\ UNCHANGED explored

\* simulate compares the results and the iterations of the two runs.
SecondRunFails ==
    /\ here.result = "failure" /\ second
    /\ Stop(IF current_iter_ = final_state.stop_iteration THEN "failure" ELSE "verify")
    /\ UNCHANGED explored

Next == outcome = "none" /\ (Rand \/ IterationEnd \/ FirstRunFails \/ SecondRunFails)

\* A test whose executions end goes on until its search ends.
Spec == Init /\ [][Next]_vars /\ WF_vars(Next)

-----------------------------------------------------------------------------
(* Properties *)

\* Every variable has its type, and the execution is within its path.
TypeOK ==
    /\ stree_ \in Seq([count_ : 1 .. MaxLimit, index_ : 0 .. MaxLimit - 1])
    /\ stree_depth_ \in 0 .. Len(stree_)
    /\ current_iter_ \in Nat \ {0}
    /\ second \in BOOLEAN
    /\ outcome \in {"none", "success", "failure", "verify"}

\* The node at the end of a path in a tree, and the executions of the test with
\* that tree: the paths to its leaves.
Nowhere == [result |-> "none", children |-> <<>>]
Down(node, i) == IF i + 1 \in DOMAIN node.children THEN node.children[i + 1] ELSE Nowhere
End(root, path) ==
    LET node[n \in 0 .. Len(path)] == IF n = 0 THEN root ELSE Down(node[n - 1], path[n])
    IN  node[Len(path)]
Executions(root) ==
    {p \in BoundedSeq(0 .. MaxLimit - 1, MaxDepth) : End(root, p).result # "none"}

Earlier(p, q) ==
    \E k \in DOMAIN p \cap DOMAIN q :
        p[k] < q[k] /\ \A i \in 1 .. k - 1 : p[i] = q[i]

\* No execution is explored twice, and none is passed over: those explored are
\* the first ones of the test.
ExploresInOrder ==
    /\ IsInjective(explored)
    /\ \A i \in DOMAIN explored :
        /\ explored[i] \in Executions(test)
        /\ \A p \in Executions(test) : Earlier(p, explored[i]) => p \in ToSet(explored)

\* The test is said to be correct only after each of its executions has been
\* explored and has succeeded.
SuccessIsExhaustive ==
    outcome = "success" =>
        /\ ToSet(explored) = Executions(test)
        /\ \A p \in Executions(test) : End(test, p).result = "success"
        /\ current_iter_ = Len(explored)

\* The run that collects the history repeats the execution that has failed,
\* the first one that does, under its number.
HistoryIsOfTheFailure ==
    outcome = "failure" =>
        /\ Path(stree_) = Last(explored)
        /\ End(test, Last(explored)).result = "failure"
        /\ \A p \in Executions(test) : Earlier(p, Last(explored)) => End(test, p).result = "success"
        /\ current_iter_ = Len(explored)

\* The checks of simulate, of rand_impl and of iteration_end_impl fail for no
\* deterministic test.
NoCheckFails == outcome # "verify"

\* The search of a test whose executions end comes to its end.
SearchEnds == <>(outcome # "none")
============================================================================
