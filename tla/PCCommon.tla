------------------------------ MODULE PCCommon ------------------------------
(***************************************************************************)
(* What the four producer/consumer programs of "30-Condition Variables"    *)
(* share: pc-header.h (the ring buffer), mythreads.h (the pthread          *)
(* wrappers) and main-common.c (main, which starts the threads, joins the  *)
(* producers, queues one END_OF_STREAM per consumer and joins the          *)
(* consumers).  A program extends this module with its own producer and    *)
(* consumer.                                                               *)
(*                                                                         *)
(* pc[t] is the place where thread t pauses.  For producers and consumers  *)
(* it is the name the source gives it (p0..p6, c0..c6); "wait" is inside   *)
(* Cond_wait, and "fill" and "get" are between the test that leaves the    *)
(* wait loop and the call of do_fill or do_get.                            *)
(***************************************************************************)
EXTENDS Integers, FiniteSets

CONSTANTS
    producers,    \* -p: number of producers
    consumers,    \* -c: number of consumers
    loops,        \* -l: items each producer produces
    max,          \* -m: slots of the buffer
    MaxSpurious   \* bound: spurious wakeups per behaviour

ASSUME ArgsAssumption ==
    /\ producers \in Nat /\ consumers \in Nat
    /\ loops \in Nat \ {0} /\ max \in Nat \ {0}

ASSUME SpuriousAssumption == MaxSpurious \in Nat

Producers == 0 .. producers - 1
Consumers == producers .. producers + consumers - 1
Main      == -1
Threads   == {Main} \cup Producers \cup Consumers

EMPTY         == -2
END_OF_STREAM == -1
Item(id, k)   == id * loops + k
Items         == {Item(id, k) : id \in Producers, k \in 0 .. loops - 1}

Slots  == 0 .. max - 1
Nobody == -2         \* the mutex is free
Awake  == "awake"    \* the thread is in no wait set

VARIABLES
    buffer, use_ptr, fill_ptr, num_full,
    mutex,           \* holder of m, or Nobody
    waiting,         \* condition variable a thread sleeps on, or Awake
    spurious,        \* spurious wakeups so far
    pc,
    i,               \* loop index of main and of each producer
    tmp,             \* what each consumer got last
    consumed_count,
    counts,          \* consumption reported to main by Pthread_join
    exited           \* ensure() has called exit(1)

bufferVars == <<buffer, use_ptr, fill_ptr, num_full>>
threadVars == <<i, tmp, consumed_count, counts>>
syncVars   == <<mutex, waiting, spurious>>
vars       == <<bufferVars, syncVars, pc, threadVars, exited>>

-----------------------------------------------------------------------------
(* pthread wrappers.                                                       *)

Mutex_lock(t)   == mutex = Nobody /\ mutex' = t /\ UNCHANGED <<waiting, spurious>>
Mutex_unlock(t) == mutex = t /\ mutex' = Nobody /\ UNCHANGED <<waiting, spurious>>

\* The first half of Cond_wait: sleep and release m in one step.
Cond_wait(cv, t) ==
    /\ mutex = t
    /\ mutex' = Nobody
    /\ waiting' = [waiting EXCEPT ![t] = cv]
    /\ UNCHANGED spurious

Sleeping(cv) == {t \in Threads : waiting[t] = cv}

\* Cond_signal wakes one of the sleepers, whichever the library chooses.
Cond_signal(cv) ==
    /\ waiting' \in IF Sleeping(cv) = {} THEN {waiting}
                    ELSE {[waiting EXCEPT ![t] = Awake] : t \in Sleeping(cv)}
    /\ UNCHANGED <<mutex, spurious>>

\* The second half of Cond_wait: a woken thread takes m again and returns.
WaitReturns(t) == waiting[t] = Awake /\ Mutex_lock(t)

\* POSIX lets a condition wait end with no signal.
SpuriousWakeup(t) ==
    /\ waiting[t] # Awake
    /\ spurious < MaxSpurious
    /\ spurious' = spurious + 1
    /\ waiting' = [waiting EXCEPT ![t] = Awake]
    /\ UNCHANGED <<bufferVars, mutex, pc, threadVars, exited>>

Go(t, from, to) == pc[t] = from /\ pc' = [pc EXCEPT ![t] = to]

\* Go on unless the step has ended the process.
GoUnlessExit(t, from, to) ==
    /\ pc[t] \in from
    /\ pc' = IF exited' THEN pc ELSE [pc EXCEPT ![t] = to]

-----------------------------------------------------------------------------
(* The ring buffer.                                                        *)

do_fill(value) ==
    LET ok == buffer[fill_ptr] = EMPTY IN
    /\ exited'   = ~ok
    /\ buffer'   = IF ok THEN [buffer EXCEPT ![fill_ptr] = value] ELSE buffer
    /\ fill_ptr' = IF ok THEN (fill_ptr + 1) % max ELSE fill_ptr
    /\ num_full' = IF ok THEN num_full + 1 ELSE num_full
    /\ UNCHANGED use_ptr

\* Mutant: the slot is not emptied.
do_get_keeps(t) ==
    /\ exited'   = (buffer[use_ptr] = EMPTY)
    /\ tmp'      = [tmp EXCEPT ![t] = buffer[use_ptr]]
    /\ use_ptr'  = (use_ptr + 1) % max
    /\ num_full' = num_full - 1
    /\ UNCHANGED <<buffer, fill_ptr>>

\* Mutant: the result is not checked.
do_get_unchecked(t) ==
    /\ exited'   = FALSE
    /\ tmp'      = [tmp EXCEPT ![t] = buffer[use_ptr]]
    /\ buffer'   = [buffer EXCEPT ![use_ptr] = EMPTY]
    /\ use_ptr'  = (use_ptr + 1) % max
    /\ num_full' = num_full - 1
    /\ UNCHANGED fill_ptr

\* do_get() by consumer t, which assigns the result to its tmp.
do_get(t) ==
    LET ok == buffer[use_ptr] # EMPTY IN
    /\ exited'   = ~ok
    /\ tmp'      = IF ok THEN [tmp EXCEPT ![t] = buffer[use_ptr]] ELSE tmp
    /\ buffer'   = IF ok THEN [buffer EXCEPT ![use_ptr] = EMPTY] ELSE buffer
    /\ use_ptr'  = IF ok THEN (use_ptr + 1) % max ELSE use_ptr
    /\ num_full' = IF ok THEN num_full - 1 ELSE num_full
    /\ UNCHANGED fill_ptr

-----------------------------------------------------------------------------
(* main.                                                                   *)

Init ==
    /\ buffer = [s \in Slots |-> EMPTY]
    /\ use_ptr = 0 /\ fill_ptr = 0 /\ num_full = 0
    /\ mutex = Nobody
    /\ waiting = [t \in Threads |-> Awake]
    /\ spurious = 0
    /\ pc = [t \in Threads |-> IF t = Main THEN "create" ELSE "unborn"]
    /\ i = [t \in {Main} \cup Producers |-> 0]
    /\ tmp = [t \in Consumers |-> 0]
    /\ consumed_count = [t \in Consumers |-> 0]
    /\ counts = [t \in Consumers |-> 0]
    /\ exited = FALSE

\* Threads are created in thread_id order, producers first.
Create ==
    LET id == i[Main] IN
    /\ pc[Main] = "create"
    /\ id < producers + consumers
    /\ pc' = [pc EXCEPT ![id] = IF id \in Producers THEN "p0" ELSE "c0"]
    /\ i' = [i EXCEPT ![Main] = id + 1]
    /\ UNCHANGED <<bufferVars, syncVars, tmp, consumed_count, counts, exited>>

Created ==
    /\ i[Main] = producers + consumers
    /\ Go(Main, "create", "join_producers")
    /\ i' = [i EXCEPT ![Main] = 0]
    /\ UNCHANGED <<bufferVars, syncVars, tmp, consumed_count, counts, exited>>

\* Mutant: main queues END_OF_STREAM while producers are still at work.
JoinProducers_early ==
    /\ Go(Main, "join_producers", "eos_lock")
    /\ UNCHANGED <<bufferVars, syncVars, threadVars, exited>>

\* The joins of the producers, one after the other, end when all have returned.
JoinProducers ==
    /\ \A p \in Producers : pc[p] = "done"
    /\ Go(Main, "join_producers", IF consumers = 0 THEN "done" ELSE "eos_lock")
    /\ UNCHANGED <<bufferVars, syncVars, threadVars, exited>>

EosLock ==
    /\ Go(Main, "eos_lock", "eos_test")
    /\ Mutex_lock(Main)
    /\ UNCHANGED <<bufferVars, threadVars, exited>>

\* Mutant: main does not test for a free slot.
EosTest_always ==
    /\ Go(Main, "eos_test", "eos_fill")
    /\ UNCHANGED <<bufferVars, syncVars, threadVars, exited>>

EosTest ==
    /\ Go(Main, "eos_test", IF num_full = max THEN "eos_wait" ELSE "eos_fill")
    /\ UNCHANGED <<bufferVars, syncVars, threadVars, exited>>

EosWait(empty_cv) ==
    /\ Go(Main, "eos_wait", "wait")
    /\ Cond_wait(empty_cv, Main)
    /\ UNCHANGED <<bufferVars, threadVars, exited>>

EosWoken ==
    /\ Go(Main, "wait", "eos_test")
    /\ WaitReturns(Main)
    /\ UNCHANGED <<bufferVars, threadVars, exited>>

EosFill ==
    /\ do_fill(END_OF_STREAM)
    /\ GoUnlessExit(Main, {"eos_fill"}, "eos_signal")
    /\ UNCHANGED <<syncVars, threadVars>>

\* Mutant: no consumer is told of the END_OF_STREAM.
EosSignal_missing(fill_cv) ==
    /\ Go(Main, "eos_signal", "eos_unlock")
    /\ UNCHANGED <<bufferVars, syncVars, threadVars, exited>>

EosSignal(fill_cv) ==
    /\ Go(Main, "eos_signal", "eos_unlock")
    /\ Cond_signal(fill_cv)
    /\ UNCHANGED <<bufferVars, threadVars, exited>>

EosUnlock ==
    /\ Go(Main, "eos_unlock",
          IF i[Main] + 1 < consumers THEN "eos_lock" ELSE "join_consumers")
    /\ Mutex_unlock(Main)
    /\ i' = [i EXCEPT ![Main] = @ + 1]
    /\ UNCHANGED <<bufferVars, tmp, consumed_count, counts, exited>>

\* A consumer returns consumed_count - 1: END_OF_STREAM does not count.
JoinConsumers ==
    /\ \A c \in Consumers : pc[c] = "done"
    /\ Go(Main, "join_consumers", "done")
    /\ counts' = [c \in Consumers |-> consumed_count[c] - 1]
    /\ UNCHANGED <<bufferVars, syncVars, i, tmp, consumed_count, exited>>

MainNext(fill_cv, empty_cv) ==
    \/ Create \/ Created \/ JoinProducers
    \/ EosLock \/ EosTest \/ EosWait(empty_cv) \/ EosWoken
    \/ EosFill \/ EosSignal(fill_cv) \/ EosUnlock
    \/ JoinConsumers

\* The process is over: main has returned, or a check has failed.
Finished == (exited \/ pc[Main] = "done") /\ UNCHANGED vars

=============================================================================
