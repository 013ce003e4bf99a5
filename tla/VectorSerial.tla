---------------------------- MODULE VectorSerial -----------------------------
(***************************************************************************)
(* What vector_add promises: each call adds the whole source to the whole  *)
(* destination at one instant between its call and its return.             *)
(***************************************************************************)
EXTENDS Integers

CONSTANTS Threads, Vectors, Index, loops

VARIABLES
    vectors,    \* the values of each vector
    pair,       \* destination and source of each thread
    left        \* calls each thread has still to make

vars == <<vectors, pair, left>>

Init ==
    /\ vectors = [v \in Vectors |-> [k \in Index |-> v]]
    /\ pair \in [Threads -> Vectors \X Vectors]
    /\ left = [t \in Threads |-> loops]

vector_add(t) ==
    LET dst == pair[t][1]
        src == pair[t][2]
    IN  /\ left[t] > 0
        /\ left' = [left EXCEPT ![t] = @ - 1]
        /\ vectors' = [vectors EXCEPT ![dst] =
                         [k \in Index |-> vectors[dst][k] + vectors[src][k]]]
        /\ UNCHANGED pair

Spec == Init /\ [][\E t \in Threads : vector_add(t)]_vars

=============================================================================
