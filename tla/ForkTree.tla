------------------------------ MODULE ForkTree -------------------------------
(***************************************************************************)
(* fork.py: processes that fork and exit, and who inherits the children of *)
(* one that exits.  The order of a list of children is only printed: the   *)
(* children of a process are a set.                                        *)
(***************************************************************************)
EXTENDS Integers, FiniteSets

CONSTANTS MaxNames    \* a run forks at most MaxNames - 1 times

ASSUME TreeAssumption == MaxNames \in Nat \ {0}

VARIABLES
    rules,           \* -R and -L
    process_list,    \* processes that have not exited
    children, parents,
    curr_index       \* the next name

treeVars == <<rules, process_list, children, parents, curr_index>>

root_name == 0
Names     == 0 .. MaxNames - 1
Gone      == -1    \* "should never be used again"

TreeInit ==
    /\ rules \in [local_reparent : BOOLEAN, leaf_only : BOOLEAN]
    /\ process_list = {root_name}
    /\ children = [p \in Names |-> {}]
    /\ parents = [p \in Names |-> Gone]
    /\ curr_index = 1

\* fork and get_name.
do_fork(p) ==
    /\ p \in process_list
    /\ curr_index < MaxNames
    /\ process_list' = process_list \cup {curr_index}
    /\ children' = [children EXCEPT ![curr_index] = {}, ![p] = @ \cup {curr_index}]
    /\ parents' = [parents EXCEPT ![curr_index] = p]
    /\ curr_index' = curr_index + 1
    /\ UNCHANGED rules

\* Mutant: only the children are collected.
collect_children_one(p) == {p} \cup children[p]

\* p and all that descend from it.
collect_children(p) ==
    LET tree[q \in Names] == {q} \cup UNION {tree[c] : c \in children[q]}
    IN  tree[p]

\* do_exit.  The root cannot exit, and with -L only a leaf does.
do_exit(p) ==
    LET heir    == IF rules.local_reparent THEN parents[p] ELSE root_name
        orphans == IF rules.local_reparent THEN children[p] ELSE collect_children(p) \ {p}
        emptied == {p} \cup IF rules.local_reparent THEN {} ELSE orphans
        left    == [q \in Names |-> IF q \in emptied THEN {} ELSE children[q]]
        given   == [left EXCEPT ![heir] = @ \cup orphans]
    IN  /\ p \in process_list \ {root_name}
        /\ rules.leaf_only => children[p] = {}
        /\ process_list' = process_list \ {p}
        /\ children' = [given EXCEPT ![parents[p]] = @ \ {p}]
        /\ parents' = [q \in Names |-> CASE q = p -> Gone
                                         [] q \in orphans -> heir
                                         [] OTHER -> parents[q]]
        /\ UNCHANGED <<rules, curr_index>>

TreeStep == \E p \in process_list : do_fork(p) \/ do_exit(p)

TreeFinished == process_list = {root_name} /\ curr_index = MaxNames /\ UNCHANGED treeVars

-----------------------------------------------------------------------------
\* The processes that live, and they alone, form a tree under the root in which
\* the two tables agree: nobody is left behind by an exit, whichever rule holds.
TreeOK ==
    /\ collect_children(root_name) = process_list
    /\ \A p, q \in Names : q \in children[p] <=> parents[q] = p
    /\ parents[root_name] = Gone

=============================================================================
