----------------------------- MODULE ExtraUnlock -----------------------------
(***************************************************************************)
(* main-two-cvs-while-extra-unlock.c: the lock is released around do_fill  *)
(* and do_get, so the accesses of several threads to buffer, fill_ptr,     *)
(* use_ptr and num_full race.  The Makefile compiles with no optimisation: *)
(* a global is loaded and stored where the source names it, so a behaviour *)
(* of the program is an interleaving of these loads and stores.            *)
(***************************************************************************)
EXTENDS PCCommon

empty_cv == "empty"
fill_cv  == "fill"

VARIABLE reg     \* the global a thread has just loaded

W == INSTANCE PCWhile

raceVars == <<vars, reg>>

\* A load of a global, and a store that touches no variable but its own.
Load(t, from, to, x) ==
    /\ Go(t, from, to)
    /\ reg' = [reg EXCEPT ![t] = x]
    /\ UNCHANGED <<bufferVars, syncVars, threadVars, exited>>

Store(t, from, to) == Go(t, from, to) /\ UNCHANGED <<syncVars, threadVars, exited, reg>>

-----------------------------------------------------------------------------
(* do_fill, from f0 to its return, by a producer or by main.               *)

FillValue(t) == IF t = Main THEN END_OF_STREAM ELSE Item(t, i[t])

FillCheck(t) ==
    /\ Go(t, "f1", "f2")
    /\ exited' = (buffer[reg[t]] # EMPTY)
    /\ UNCHANGED <<bufferVars, syncVars, threadVars, reg>>

do_fill_steps(t) ==
    \/ Load(t, "f0", "f1", fill_ptr)
    \/ FillCheck(t)
    \/ Load(t, "f2", "f3", fill_ptr)
    \/ /\ Store(t, "f3", "f4")
       /\ buffer' = [buffer EXCEPT ![reg[t]] = FillValue(t)]
       /\ UNCHANGED <<use_ptr, fill_ptr, num_full>>
    \/ Load(t, "f4", "f5", fill_ptr)
    \/ /\ Store(t, "f5", "f6")
       /\ fill_ptr' = (reg[t] + 1) % max
       /\ UNCHANGED <<buffer, use_ptr, num_full>>
    \/ Load(t, "f6", "f7", num_full)
    \/ /\ Store(t, "f7", IF t = Main THEN "eos_signal" ELSE "p4")
       /\ num_full' = reg[t] + 1
       /\ UNCHANGED <<buffer, use_ptr, fill_ptr>>

(* do_get, from g0 to its return.                                          *)

GetCheck(t) ==
    /\ Go(t, "g1", "g2")
    /\ exited' = (buffer[reg[t]] = EMPTY)
    /\ tmp' = [tmp EXCEPT ![t] = IF buffer[reg[t]] = EMPTY THEN @ ELSE buffer[reg[t]]]
    /\ UNCHANGED <<bufferVars, syncVars, i, consumed_count, counts, reg>>

do_get_steps(t) ==
    \/ Load(t, "g0", "g1", use_ptr)
    \/ GetCheck(t)
    \/ Load(t, "g2", "g3", use_ptr)
    \/ /\ Store(t, "g3", "g4")
       /\ buffer' = [buffer EXCEPT ![reg[t]] = EMPTY]
       /\ UNCHANGED <<use_ptr, fill_ptr, num_full>>
    \/ Load(t, "g4", "g5", use_ptr)
    \/ /\ Store(t, "g5", "g6")
       /\ use_ptr' = (reg[t] + 1) % max
       /\ UNCHANGED <<buffer, fill_ptr, num_full>>
    \/ Load(t, "g6", "g7", num_full)
    \/ /\ Store(t, "g7", "c4")
       /\ num_full' = reg[t] - 1
       /\ UNCHANGED <<buffer, use_ptr, fill_ptr>>

-----------------------------------------------------------------------------
(* The loops of the producers, the consumers and main.                     *)

UnlockEarly(t, from, to) ==
    /\ Go(t, from, to)
    /\ Mutex_unlock(t)
    /\ UNCHANGED <<bufferVars, threadVars, exited, reg>>

Relock(t, from, to) ==
    /\ Go(t, from, to)
    /\ Mutex_lock(t)
    /\ UNCHANGED <<bufferVars, threadVars, exited, reg>>

Signal(t, from, to, cv) ==
    /\ Go(t, from, to)
    /\ Cond_signal(cv)
    /\ UNCHANGED <<bufferVars, threadVars, exited, reg>>

producer(id) ==
    \/ /\ \/ W!ProducerLock(id) \/ W!ProducerTest(id) \/ W!ProducerWait(id)
          \/ W!ProducerWoken(id) \/ W!ProducerUnlock(id)
       /\ UNCHANGED reg
    \/ UnlockEarly(id, "fill", "f0")
    \/ do_fill_steps(id)
    \/ Relock(id, "p4", "p4_signal")
    \/ Signal(id, "p4_signal", "p5", fill_cv)

consumer(id) ==
    \/ /\ \/ W!ConsumerLock(id) \/ W!ConsumerTest(id) \/ W!ConsumerWait(id)
          \/ W!ConsumerWoken(id) \/ W!ConsumerUnlock(id)
       /\ UNCHANGED reg
    \/ UnlockEarly(id, "get", "g0")
    \/ do_get_steps(id)
    \/ Relock(id, "c4", "c4_signal")
    \/ Signal(id, "c4_signal", "c5", empty_cv)

\* main holds m while it fills, which the threads that get do not.
EosFillCall ==
    /\ Go(Main, "eos_fill", "f0")
    /\ UNCHANGED <<bufferVars, syncVars, threadVars, exited, reg>>

RacyMain ==
    \/ /\ \/ Create \/ Created \/ JoinProducers \/ EosLock \/ EosTest
          \/ EosWait(empty_cv) \/ EosWoken \/ EosSignal(fill_cv) \/ EosUnlock
          \/ JoinConsumers
       /\ UNCHANGED reg
    \/ EosFillCall
    \/ do_fill_steps(Main)

Step ==
    /\ ~exited
    /\ \/ RacyMain
       \/ \E id \in Producers : producer(id)
       \/ \E id \in Consumers : consumer(id)

Next ==
    \/ Step
    \/ ~exited /\ (\E t \in Threads : SpuriousWakeup(t)) /\ UNCHANGED reg
    \/ Finished /\ UNCHANGED reg

RacyInit == Init /\ reg = [t \in Threads |-> 0]

\* No check has failed.
EnsureHolds == ~exited

\* With a single slot and one thread of each kind the two sides still take
\* turns: each waits until the last store of the other, to num_full, is done.
TakeTurns ==
    \A t \in Threads, u \in Threads :
        ~ /\ pc[t] \in {"f0", "f1", "f2", "f3", "f4", "f5", "f6", "f7"}
          /\ pc[u] \in {"g0", "g1", "g2", "g3", "g4", "g5", "g6", "g7"}

Ended == pc[Main] = "done"

=============================================================================
