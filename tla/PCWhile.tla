------------------------------- MODULE PCWhile -------------------------------
(***************************************************************************)
(* main-two-cvs-while.c: producers wait on empty_cv and consumers on       *)
(* fill_cv, and each tests its condition again when it wakes.  With one    *)
(* condition variable for both it is main-one-cv-while.c (OneCvWhile).     *)
(***************************************************************************)
EXTENDS PCCommon, Sequences, Functions

CONSTANTS empty_cv, fill_cv   \* the condition variables

ASSUME CvAssumption == Awake \notin {empty_cv, fill_cv}

-----------------------------------------------------------------------------
(* producer                                                                *)

ProducerLock(id) ==
    /\ Go(id, "p0", "p1")
    /\ Mutex_lock(id)
    /\ UNCHANGED <<bufferVars, threadVars, exited>>

\* Mutant: a woken producer does not test again.
ProducerTest_if(id) ==
    /\ pc[id] \in {"p1", "p3"}
    /\ pc' = [pc EXCEPT ![id] = IF pc[id] = "p1" /\ num_full = max THEN "p2" ELSE "fill"]
    /\ UNCHANGED <<bufferVars, syncVars, threadVars, exited>>

\* p1 is after Mutex_lock and p3 after Cond_wait: both go on to the test.
ProducerTest(id) ==
    /\ pc[id] \in {"p1", "p3"}
    /\ pc' = [pc EXCEPT ![id] = IF num_full = max THEN "p2" ELSE "fill"]
    /\ UNCHANGED <<bufferVars, syncVars, threadVars, exited>>

ProducerWait(id) ==
    /\ Go(id, "p2", "wait")
    /\ Cond_wait(empty_cv, id)
    /\ UNCHANGED <<bufferVars, threadVars, exited>>

ProducerWoken(id) ==
    /\ Go(id, "wait", "p3")
    /\ WaitReturns(id)
    /\ UNCHANGED <<bufferVars, threadVars, exited>>

ProducerFill(id) ==
    /\ do_fill(Item(id, i[id]))
    /\ GoUnlessExit(id, {"fill"}, "p4")
    /\ UNCHANGED <<syncVars, threadVars>>

ProducerSignal(id) ==
    /\ Go(id, "p4", "p5")
    /\ Cond_signal(fill_cv)
    /\ UNCHANGED <<bufferVars, threadVars, exited>>

ProducerUnlock(id) ==
    /\ Go(id, "p5", IF i[id] + 1 < loops THEN "p0" ELSE "done")
    /\ Mutex_unlock(id)
    /\ i' = [i EXCEPT ![id] = @ + 1]
    /\ UNCHANGED <<bufferVars, tmp, consumed_count, counts, exited>>

producer(id) ==
    \/ ProducerLock(id) \/ ProducerTest(id) \/ ProducerWait(id)
    \/ ProducerWoken(id) \/ ProducerFill(id) \/ ProducerSignal(id)
    \/ ProducerUnlock(id)

-----------------------------------------------------------------------------
(* consumer                                                                *)

ConsumerLock(id) ==
    /\ Go(id, "c0", "c1")
    /\ Mutex_lock(id)
    /\ UNCHANGED <<bufferVars, threadVars, exited>>

ConsumerTest(id) ==
    /\ pc[id] \in {"c1", "c3"}
    /\ pc' = [pc EXCEPT ![id] = IF num_full = 0 THEN "c2" ELSE "get"]
    /\ UNCHANGED <<bufferVars, syncVars, threadVars, exited>>

ConsumerWait(id) ==
    /\ Go(id, "c2", "wait")
    /\ Cond_wait(fill_cv, id)
    /\ UNCHANGED <<bufferVars, threadVars, exited>>

ConsumerWoken(id) ==
    /\ Go(id, "wait", "c3")
    /\ WaitReturns(id)
    /\ UNCHANGED <<bufferVars, threadVars, exited>>

ConsumerGet(id) ==
    /\ do_get(id)
    /\ GoUnlessExit(id, {"get"}, "c4")
    /\ UNCHANGED <<syncVars, i, consumed_count, counts>>

\* Mutant: the consumer signals the other consumers.
ConsumerSignal_swapped(id) ==
    /\ Go(id, "c4", "c5")
    /\ Cond_signal(fill_cv)
    /\ UNCHANGED <<bufferVars, threadVars, exited>>

ConsumerSignal(id) ==
    /\ Go(id, "c4", "c5")
    /\ Cond_signal(empty_cv)
    /\ UNCHANGED <<bufferVars, threadVars, exited>>

ConsumerUnlock(id) ==
    /\ Go(id, "c5", IF tmp[id] = END_OF_STREAM THEN "done" ELSE "c0")
    /\ Mutex_unlock(id)
    /\ consumed_count' = [consumed_count EXCEPT ![id] = @ + 1]
    /\ UNCHANGED <<bufferVars, i, tmp, counts, exited>>

consumer(id) ==
    \/ ConsumerLock(id) \/ ConsumerTest(id) \/ ConsumerWait(id)
    \/ ConsumerWoken(id) \/ ConsumerGet(id) \/ ConsumerSignal(id)
    \/ ConsumerUnlock(id)

-----------------------------------------------------------------------------
Step ==
    /\ ~exited
    /\ \/ MainNext(fill_cv, empty_cv)
       \/ \E id \in Producers : producer(id)
       \/ \E id \in Consumers : consumer(id)

Next ==
    \/ Step
    \/ ~exited /\ \E t \in Threads : SpuriousWakeup(t)
    \/ Finished

Spec == Init /\ [][Next]_vars

\* Some thread that can run runs.  A run is finite but for Finished: loops are
\* bounded, and every turn of a wait loop uses up a signal or a spurious wakeup.
FairSpec == Spec /\ WF_vars(Step)

-----------------------------------------------------------------------------
TypeOK ==
    /\ buffer \in [Slots -> Items \cup {EMPTY, END_OF_STREAM}]
    /\ use_ptr \in Slots /\ fill_ptr \in Slots
    /\ num_full \in 0 .. max
    /\ mutex \in Threads \cup {Nobody}
    /\ waiting \in [Threads -> {Awake, empty_cv, fill_cv}]
    /\ spurious \in 0 .. MaxSpurious
    /\ pc \in [Threads -> {"unborn", "create", "join_producers", "eos_lock",
                           "eos_test", "eos_wait", "eos_fill", "eos_signal",
                           "eos_unlock", "join_consumers", "done", "wait",
                           "p0", "p1", "p2", "p3", "fill", "p4", "p5",
                           "c0", "c1", "c2", "c3", "get", "c4", "c5"}]
    /\ i \in [{Main} \cup Producers -> Nat]
    /\ tmp \in [Consumers -> Items \cup {0, END_OF_STREAM}]
    /\ consumed_count \in [Consumers -> Nat]
    /\ counts \in [Consumers -> Int]
    /\ exited \in BOOLEAN

\* Places between Mutex_lock (or the return of Cond_wait) and Mutex_unlock.
Critical == {"p1", "p2", "p3", "fill", "p4", "p5", "c1", "c2", "c3", "get",
             "c4", "c5", "eos_test", "eos_wait", "eos_fill", "eos_signal", "eos_unlock"}

\* At most one thread is between a lock and the unlock that matches it, and it
\* is the holder of m, through every wait that gives m up and takes it again.
MutualExclusion == \A t \in Threads : pc[t] \in Critical <=> mutex = t

\* No check of do_fill or do_get ever fails: no filled slot is filled again
\* and no empty one is taken (main-two-cvs-while.c:23, 31).
EnsureHolds == ~exited

\* The num_full slots from use_ptr on, round the end of the ring.
InRing(s) ==
    IF use_ptr + num_full <= max
      THEN use_ptr <= s /\ s < use_ptr + num_full
      ELSE use_ptr <= s \/ s < use_ptr + num_full - max

\* num_full counts the filled slots, which are the num_full slots that start
\* at use_ptr and end before fill_ptr, at every step of every thread.
Ring ==
    /\ fill_ptr = IF use_ptr + num_full < max THEN use_ptr + num_full
                  ELSE use_ptr + num_full - max
    /\ \A s \in Slots : buffer[s] # EMPTY <=> InRing(s)

-----------------------------------------------------------------------------
(* The inductive invariant that EnsureHolds needs.                         *)

\* Each kind of thread stays in its own code.
Roles ==
    /\ pc[Main] \in {"create", "join_producers", "eos_lock", "eos_test", "eos_wait",
                    "wait", "eos_fill", "eos_signal", "eos_unlock",
                    "join_consumers", "done"}
    /\ \A p \in Producers :
         pc[p] \in {"unborn", "p0", "p1", "p2", "wait", "p3", "fill", "p4", "p5", "done"}
    /\ \A c \in Consumers :
         pc[c] \in {"unborn", "c0", "c1", "c2", "wait", "c3", "get", "c4", "c5", "done"}

\* A thread that main has yet to create has not run, and one that has not
\* returned has an item to produce.
NotCreated ==
    pc[Main] = "create" =>
        \A t \in Producers \cup Consumers : t >= i[Main] => pc[t] = "unborn"

ItemsLeft == \A p \in Producers : pc[p] # "done" => i[p] < loops

\* What a thread has tested still holds when it uses it.
TestHolds ==
    \A t \in Threads : /\ pc[t] \in {"fill", "eos_fill"} => num_full # max
                       /\ pc[t] = "get" => num_full # 0

IInv ==
    /\ TypeOK /\ Roles /\ NotCreated /\ ItemsLeft
    /\ MutualExclusion /\ TestHolds /\ Ring /\ EnsureHolds

-----------------------------------------------------------------------------
\* The program ends, whatever the order of the threads and of the wakeups; and then
\* the counts main prints add up to what was produced, and the buffer is empty.
Termination ==
    <>(/\ pc[Main] = "done"
       /\ consumers > 0 => SumFunction(counts) = producers * loops /\ num_full = 0)

-----------------------------------------------------------------------------
(* The queue the program implements.                                       *)

\* A put takes effect in do_fill; i counts it only after the unlock.
Sent(t, filled) == i[t] + IF pc[t] \in filled THEN 1 ELSE 0

PutBy == [p \in Producers |-> Sent(p, {"p4", "p5"})]
Queue == [k \in 1 .. num_full |-> buffer[(use_ptr + k - 1) % max]]
Eos   == IF pc[Main] \in {"create", "join_producers"} THEN 0
         ELSE Sent(Main, {"eos_signal", "eos_unlock"})
Stopped == {c \in Consumers : tmp[c] = END_OF_STREAM}
Taken == [c \in Consumers |->
            consumed_count[c] + (IF pc[c] \in {"c4", "c5"} THEN 1 ELSE 0)
                              - (IF c \in Stopped THEN 1 ELSE 0)]

Q == INSTANCE PCQueue WITH
       queue <- Queue, sent <- PutBy, eos <- Eos, taken <- Taken, stopped <- Stopped

\* The program is a bounded FIFO queue that keeps moving: no item is lost,
\* doubled or overtaken, and the END_OF_STREAMs come after every item.
ImplementsQueue == Q!Spec

=============================================================================
