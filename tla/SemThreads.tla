----------------------------- MODULE SemThreads ------------------------------
(***************************************************************************)
(* What the programs of "31-Semaphores" share: common_threads.h (the       *)
(* semaphore wrappers) and a main that creates its threads one after the   *)
(* other and joins them all.  A program extends this module with the body  *)
(* of its threads and its own shared variables.                            *)
(***************************************************************************)
EXTENDS Integers, FiniteSets

CONSTANT num_threads     \* threads main creates, in the order of their number

ASSUME NumThreadsAssumption == num_threads \in Nat

Threads == 1 .. num_threads

VARIABLES
    sem,        \* value of each semaphore
    pc,         \* next statement of each thread
    created     \* threads main has created

semVars == <<sem, pc, created>>

Go(t, from, to) ==
    /\ t <= created
    /\ pc[t] = from
    /\ pc' = [pc EXCEPT ![t] = to]
    /\ UNCHANGED created

Sem_wait(t, from, to, s) ==
    /\ Go(t, from, to)
    /\ sem[s] > 0
    /\ sem' = [sem EXCEPT ![s] = @ - 1]

Sem_post(t, from, to, s) ==
    /\ Go(t, from, to)
    /\ sem' = [sem EXCEPT ![s] = @ + 1]

\* A statement of thread t that uses no semaphore.
Local(t, from, to) == Go(t, from, to) /\ UNCHANGED sem

\* Pthread_create of the next thread.
Create ==
    /\ created < num_threads
    /\ created' = created + 1
    /\ UNCHANGED <<sem, pc>>

\* Every thread has returned: the joins of main end, and so does the program.
AllDone == created = num_threads /\ \A t \in Threads : pc[t] = "done"

=============================================================================
