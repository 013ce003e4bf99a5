------------------------------- MODULE PCQueue -------------------------------
(***************************************************************************)
(* What the producer/consumer programs promise: a bounded FIFO queue.      *)
(* Every producer puts its items in order, one END_OF_STREAM per consumer  *)
(* follows the last item, and each consumer takes from the head until it   *)
(* takes an END_OF_STREAM.                                                 *)
(***************************************************************************)
EXTENDS Integers, Sequences

CONSTANTS producers, consumers, loops, max

Producers == 0 .. producers - 1
Consumers == producers .. producers + consumers - 1
EOS       == -1

VARIABLES
    queue,
    sent,      \* items each producer has put
    eos,       \* END_OF_STREAMs put
    taken,     \* items each consumer has taken
    stopped    \* consumers that have taken their END_OF_STREAM

vars == <<queue, sent, eos, taken, stopped>>

Init ==
    /\ queue = << >>
    /\ sent = [p \in Producers |-> 0]
    /\ eos = 0
    /\ taken = [c \in Consumers |-> 0]
    /\ stopped = {}

Put(p) ==
    /\ sent[p] < loops
    /\ Len(queue) < max
    /\ queue' = Append(queue, p * loops + sent[p])
    /\ sent' = [sent EXCEPT ![p] = @ + 1]
    /\ UNCHANGED <<eos, taken, stopped>>

PutEOS ==
    /\ \A p \in Producers : sent[p] = loops
    /\ eos < consumers
    /\ Len(queue) < max
    /\ queue' = Append(queue, EOS)
    /\ eos' = eos + 1
    /\ UNCHANGED <<sent, taken, stopped>>

Get(c) ==
    /\ c \notin stopped
    /\ queue # << >>
    /\ queue' = Tail(queue)
    /\ IF Head(queue) = EOS
         THEN stopped' = stopped \cup {c} /\ UNCHANGED taken
         ELSE taken' = [taken EXCEPT ![c] = @ + 1] /\ UNCHANGED stopped
    /\ UNCHANGED <<sent, eos>>

Next ==
    \/ \E p \in Producers : Put(p)
    \/ PutEOS
    \/ \E c \in Consumers : Get(c)

\* What may happen to the queue, ...
Safe == Init /\ [][Next]_vars

\* ... and that some operation that can happen does: it never stops moving early.
Spec == Safe /\ WF_vars(Next)

=============================================================================
