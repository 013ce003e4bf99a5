------------------------------ MODULE TwoCvsIf ------------------------------
(***************************************************************************)
(* main-two-cvs-if.c: as main-two-cvs-while.c, but a thread that returns   *)
(* from Cond_wait does not test its condition again.  The statements the   *)
(* two programs share are those of PCWhile.                                *)
(***************************************************************************)
EXTENDS PCCommon

empty_cv == "empty"
fill_cv  == "fill"

W == INSTANCE PCWhile

ProducerTest(id) == pc[id] = "p1" /\ W!ProducerTest(id)

ProducerFill(id) ==
    /\ do_fill(Item(id, i[id]))
    /\ GoUnlessExit(id, {"fill", "p3"}, "p4")
    /\ UNCHANGED <<syncVars, threadVars>>

producer(id) ==
    \/ W!ProducerLock(id) \/ ProducerTest(id) \/ W!ProducerWait(id)
    \/ W!ProducerWoken(id) \/ ProducerFill(id) \/ W!ProducerSignal(id)
    \/ W!ProducerUnlock(id)

ConsumerTest(id) == pc[id] = "c1" /\ W!ConsumerTest(id)

ConsumerGet(id) ==
    /\ do_get(id)
    /\ GoUnlessExit(id, {"get", "c3"}, "c4")
    /\ UNCHANGED <<syncVars, i, consumed_count, counts>>

consumer(id) ==
    \/ W!ConsumerLock(id) \/ ConsumerTest(id) \/ W!ConsumerWait(id)
    \/ W!ConsumerWoken(id) \/ ConsumerGet(id) \/ W!ConsumerSignal(id)
    \/ W!ConsumerUnlock(id)

Step ==
    /\ ~exited
    /\ \/ MainNext(fill_cv, empty_cv)
       \/ \E id \in Producers : producer(id)
       \/ \E id \in Consumers : consumer(id)

Next ==
    \/ Step
    \/ ~exited /\ \E t \in Threads : SpuriousWakeup(t)
    \/ Finished

=============================================================================
