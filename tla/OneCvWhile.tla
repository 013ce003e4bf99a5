----------------------------- MODULE OneCvWhile -----------------------------
(***************************************************************************)
(* main-one-cv-while.c: the program of PCWhile with the single condition   *)
(* variable cv, on which producers, consumers and main all sleep.          *)
(***************************************************************************)
EXTENDS PCCommon

cv == "cv"

W == INSTANCE PCWhile WITH empty_cv <- cv, fill_cv <- cv

producer(id) == W!producer(id)
consumer(id) == W!consumer(id)

Step ==
    /\ ~exited
    /\ \/ MainNext(cv, cv)
       \/ \E id \in Producers : producer(id)
       \/ \E id \in Consumers : consumer(id)

Next ==
    \/ Step
    \/ ~exited /\ \E t \in Threads : SpuriousWakeup(t)
    \/ Finished

Ended == pc[Main] = "done"

=============================================================================
