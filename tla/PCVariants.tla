------------------------------ MODULE PCVariants -----------------------------
(***************************************************************************)
(* For TLC and the proofs: the three producer/consumer programs that lack  *)
(* something of main-two-cvs-while.c.  A behaviour is one of TwoCvsIf,     *)
(* with any number of threads, or one of ExtraUnlock or OneCvWhile, with   *)
(* one thread of each kind and a single slot.                              *)
(***************************************************************************)
EXTENDS Integers

CONSTANTS
    producers, consumers, loops, max,   \* the arguments of the program with if
    items,                              \* -l of the two other programs
    MaxSpurious                         \* bound: spurious wakeups per behaviour

ASSUME VariantAssumption ==
    /\ producers \in Nat /\ consumers \in Nat
    /\ {loops, max, items} \subseteq Nat \ {0}
    /\ MaxSpurious \in Nat

VARIABLES
    prog, buffer, use_ptr, fill_ptr, num_full, mutex, waiting, spurious,
    pc, i, tmp, consumed_count, counts, exited, reg

vars == <<prog, buffer, use_ptr, fill_ptr, num_full, mutex, waiting, spurious,
          pc, i, tmp, consumed_count, counts, exited, reg>>

If == INSTANCE TwoCvsIf

Extra == INSTANCE ExtraUnlock
           WITH producers <- 1, consumers <- 1, loops <- items, max <- 1

OneCv == INSTANCE OneCvWhile
           WITH producers <- 1, consumers <- 1, loops <- items, max <- 1

Init ==
    \/ prog = "if" /\ If!Init /\ reg = 0
    \/ prog = "extra-unlock" /\ Extra!RacyInit
    \/ prog = "one-cv" /\ OneCv!Init /\ reg = 0

Step ==
    \/ prog = "if" /\ If!Step /\ UNCHANGED <<prog, reg>>
    \/ prog = "extra-unlock" /\ Extra!Step /\ UNCHANGED prog
    \/ prog = "one-cv" /\ OneCv!Step /\ UNCHANGED <<prog, reg>>

Next ==
    \/ prog = "if" /\ If!Next /\ UNCHANGED <<prog, reg>>
    \/ prog = "extra-unlock" /\ Extra!Next /\ UNCHANGED prog
    \/ prog = "one-cv" /\ OneCv!Next /\ UNCHANGED <<prog, reg>>

FairSpec == Init /\ [][Next]_vars /\ WF_vars(Step)

\* The checks of do_fill and do_get of main-two-cvs-if.c fail in time: whatever
\* ran before the exit, the items put and taken are those of a bounded FIFO
\* queue, and none was lost, doubled or overtaken.
FailStop ==
    /\ prog = "if" => If!W!Q!Init
    /\ [][prog = "if" => [If!W!Q!Next]_(If!W!Q!vars)]_vars

\* Without the lock a producer and a consumer still take turns at one slot, and the
\* checks of main-two-cvs-while-extra-unlock.c:22, 30 never fail.
TakeTurns == prog = "extra-unlock" => Extra!TakeTurns /\ Extra!EnsureHolds

\* With one slot and one thread of each kind the programs end.  The program with one
\* condition variable sends every signal to the other side then (answer.md:57), in
\* the last turns too, when main sleeps where the producer slept; with a second
\* consumer it may sleep for ever (answer.md:61).
Termination ==
    /\ prog = "extra-unlock" => <>Extra!Ended
    /\ prog = "one-cv" => <>OneCv!Ended

=============================================================================
