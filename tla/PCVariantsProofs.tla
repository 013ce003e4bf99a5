--------------------------- MODULE PCVariantsProofs ---------------------------
(***************************************************************************)
(* The checks of the two unsafe producer/consumer programs, for any number *)
(* of items and spurious wakeups.  With if, whatever runs before a check   *)
(* ends the process is a bounded FIFO queue (from the lemmas about loose   *)
(* steps in PCWhileProofs).  With the extra unlock, one thread of each     *)
(* kind and one slot, the threads take turns and no check fails.           *)
(***************************************************************************)
EXTENDS PCVariants, TLAPS

Spec == Init /\ [][Next]_vars

-----------------------------------------------------------------------------
(* The extra unlock.                                                       *)

Main     == -1
Producer == 0
Consumer == 1
Three    == {Main, Producer, Consumer}

FillPlaces == {"f0", "f1", "f2", "f3", "f4", "f5", "f6", "f7"}
GetPlaces  == {"g0", "g1", "g2", "g3", "g4", "g5", "g6", "g7"}

MainPlaces == {"create", "join_producers", "eos_lock", "eos_test", "eos_wait", "wait", "eos_fill",
               "eos_signal", "eos_unlock", "join_consumers", "done"} \cup FillPlaces
ProducerPlaces == {"unborn", "p0", "p1", "p2", "wait", "p3", "fill", "p4", "p4_signal", "p5", "done"}
                    \cup FillPlaces
ConsumerPlaces == {"unborn", "c0", "c1", "c2", "wait", "c3", "get", "c4", "c4_signal", "c5", "done"}
                    \cup GetPlaces

\* Both indices stay at the only slot.
TurnTypes ==
    /\ pc \in [Three -> MainPlaces \cup ProducerPlaces \cup ConsumerPlaces]
    /\ pc[Main] \in MainPlaces /\ pc[Producer] \in ProducerPlaces /\ pc[Consumer] \in ConsumerPlaces
    /\ buffer \in [{0} -> Int] /\ use_ptr = 0 /\ fill_ptr = 0 /\ num_full \in {0, 1}
    /\ i \in [{Main, Producer} -> Nat]
    /\ reg \in [Three -> Int]

\* main fills only when the producer has returned.
MainLast ==
    /\ pc[Main] = "create" =>
         /\ pc[Consumer] = "unborn" \/ i[Main] > Consumer
         /\ pc[Producer] = "unborn" \/ i[Main] > Producer
    /\ pc[Main] \notin {"create", "join_producers"} => pc[Producer] = "done"

\* From its test to its last store a thread is the only one that changes num_full.
Filling(t) == pc[t] \in FillPlaces \cup {"fill", "eos_fill"}
Getting    == pc[Consumer] \in GetPlaces \cup {"get"}

TestHolds ==
    /\ Filling(Main) \/ Filling(Producer) => num_full = 0
    /\ Getting => num_full = 1

\* The slot is filled in the fourth of the eight steps of do_fill, and emptied in
\* the fourth of do_get.
Stored(t) == pc[t] \in {"f4", "f5", "f6", "f7"}
Slot ==
    buffer[0] # -2 <=> IF num_full = 1 THEN pc[Consumer] \notin {"g4", "g5", "g6", "g7"}
                       ELSE Stored(Main) \/ Stored(Producer)

\* What a thread has loaded is still what the global holds.
Loaded ==
    \A t \in Three : /\ pc[t] \in {"f1", "f3", "f5", "f7", "g1", "g3", "g5"} => reg[t] = 0
                     /\ pc[t] = "g7" => reg[t] = 1

TurnInv == TurnTypes /\ MainLast /\ TestHolds /\ Slot /\ Loaded /\ exited = FALSE

LEMMA OneEach ==
    /\ Extra!Main = Main /\ Extra!Producers = {Producer} /\ Extra!Consumers = {Consumer}
    /\ Extra!Threads = Three /\ Extra!Slots = {0}
    /\ Extra!W!Main = Main /\ Extra!W!Producers = {Producer} /\ Extra!W!Consumers = {Consumer}
    /\ Extra!W!Threads = Three
BY DEF Extra!Main, Extra!Producers, Extra!Consumers, Extra!Threads, Extra!Slots, Main, Producer, Consumer, Three,
       Extra!W!Main, Extra!W!Producers, Extra!W!Consumers, Extra!W!Threads

\* A step of one thread between places that neither fill nor get.
LEMMA QuietTurn ==
    ASSUME TurnInv, NEW t \in Three, NEW to, pc' = [pc EXCEPT ![t] = to],
           t = Main => to \in MainPlaces, t = Producer => to \in ProducerPlaces,
           t = Consumer => to \in ConsumerPlaces,
           pc[t] \notin FillPlaces \cup GetPlaces, to \notin FillPlaces \cup GetPlaces,
           to \in {"fill", "eos_fill"} => num_full = 0, to = "get" => num_full = 1,
           UNCHANGED <<buffer, use_ptr, fill_ptr, num_full, reg, exited>>,
           i' \in [{Main, Producer} -> Nat], MainLast'
    PROVE  TurnInv'
<1> USE DEF Three, Main, Producer, Consumer
<1>1. TurnTypes'
  BY DEF TurnInv, TurnTypes
<1>2. TestHolds'
  BY DEF TurnInv, TurnTypes, TestHolds, Filling, Getting
<1>3. Slot'
  BY DEF TurnInv, TurnTypes, Slot, Stored, FillPlaces, GetPlaces
<1>4. Loaded'
  BY DEF TurnInv, TurnTypes, Loaded, FillPlaces, GetPlaces
<1> QED
  BY <1>1, <1>2, <1>3, <1>4 DEF TurnInv

LEMMA OneSlot == \A x \in {0, 1} : (x + 1) % 1 = 0
BY SMT

\* What a filler loads is what is there, it finds its slot empty, and its store to
\* num_full ends its turn.
LEMMA FillTurn ==
    ASSUME TurnInv, NEW t \in {Main, Producer}, Extra!do_fill_steps(t)
    PROVE  TurnInv'
<1> USE DEF Three, Main, Producer, Consumer
<1> USE DEF Extra!Go, Extra!Load, Extra!Store, Extra!bufferVars, Extra!syncVars, Extra!threadVars
<1>1. /\ pc[t] \in FillPlaces /\ num_full = 0 /\ pc[Consumer] \notin GetPlaces \cup {"get"}
      /\ \A u \in {Main, Producer} \ {t} : ~Filling(u)
      /\ UNCHANGED <<i, use_ptr>>
  BY DEF Extra!do_fill_steps, Extra!FillCheck, TurnInv, TurnTypes, TestHolds, Filling, Getting, MainLast, FillPlaces
<1>2. PICK to \in FillPlaces \cup {"p4", "eos_signal"} :
        /\ pc' = [pc EXCEPT ![t] = to]
        /\ t = Main => to \in MainPlaces
        /\ t = Producer => to \in ProducerPlaces
  BY <1>1 DEF Extra!do_fill_steps, Extra!FillCheck, Extra!Main, FillPlaces, MainPlaces, ProducerPlaces
<1>8. /\ pc' \in [Three -> MainPlaces \cup ProducerPlaces \cup ConsumerPlaces]
      /\ pc'[Main] \in MainPlaces /\ pc'[Producer] \in ProducerPlaces /\ pc'[Consumer] \in ConsumerPlaces
      /\ i' \in [{Main, Producer} -> Nat]
  <2>1. /\ pc \in [Three -> MainPlaces \cup ProducerPlaces \cup ConsumerPlaces]
        /\ pc[Main] \in MainPlaces /\ pc[Producer] \in ProducerPlaces /\ pc[Consumer] \in ConsumerPlaces
    BY DEF TurnInv, TurnTypes
  <2>2. to \in MainPlaces \cup ProducerPlaces
    BY <1>2
  <2>3. pc' \in [Three -> MainPlaces \cup ProducerPlaces \cup ConsumerPlaces]
    BY <1>2, <2>1, <2>2
  <2>4. \A u \in Three : pc'[u] = IF u = t THEN to ELSE pc[u]
    BY <1>2, <2>1
  <2>5. i' \in [{Main, Producer} -> Nat]
    BY <1>1 DEF TurnInv, TurnTypes
  <2> QED BY <1>2, <2>1, <2>3, <2>4, <2>5
<1>3. MainLast'
  BY <1>1, <1>2 DEF TurnInv, TurnTypes, MainLast, FillPlaces
<1>4. CASE Extra!Load(t, "f0", "f1", fill_ptr) \/ Extra!FillCheck(t) \/ Extra!Load(t, "f2", "f3", fill_ptr)
           \/ Extra!Load(t, "f4", "f5", fill_ptr) \/ Extra!Load(t, "f6", "f7", num_full)
  <2>1. exited' = FALSE
    <3>1. CASE Extra!FillCheck(t)
      <4>1. reg[t] = 0 /\ pc[t] = "f1"
        BY <3>1 DEF Extra!FillCheck, TurnInv, Loaded
      <4>2. ~Stored(Main) /\ ~Stored(Producer)
        BY <1>1, <4>1 DEF Stored, Filling, FillPlaces
      <4>3. buffer[0] = -2
        BY <1>1, <4>2 DEF TurnInv, Slot
      <4> QED BY <3>1, <4>1, <4>3 DEF Extra!FillCheck, Extra!EMPTY
    <3> QED BY <1>4, <3>1 DEF TurnInv
  <2>2. TurnTypes'
    BY <1>1, <1>4, <1>8 DEF Extra!FillCheck, TurnInv, TurnTypes
  <2>3. TestHolds' /\ Slot' /\ Loaded'
    BY <1>1, <1>4, <1>2 DEF Extra!FillCheck, TurnInv, TurnTypes, TestHolds, Filling, Getting, Slot, Stored, Loaded,
                      FillPlaces, GetPlaces
  <2> QED BY <1>3, <2>1, <2>2, <2>3 DEF TurnInv
<1>5. CASE /\ Extra!Store(t, "f3", "f4")
           /\ buffer' = [buffer EXCEPT ![reg[t]] = Extra!FillValue(t)]
           /\ UNCHANGED <<use_ptr, fill_ptr, num_full>>
  <2>1. Extra!FillValue(t) \in Int \ {-2}
    <3>1. CASE t = Main
      BY <3>1 DEF Extra!FillValue, Extra!Main, Extra!END_OF_STREAM
    <3>2. CASE t = Producer
      <4>1. Extra!FillValue(t) = 0 * items + i[0] /\ i[0] \in Nat /\ items \in Nat
        BY <3>2, VariantAssumption DEF Extra!FillValue, Extra!Main, Extra!Item, TurnInv, TurnTypes
      <4> QED BY <4>1
    <3> QED BY <3>1, <3>2
  <2>2. reg[t] = 0
    BY <1>5 DEF TurnInv, Loaded
  <2>3. buffer' \in [{0} -> Int] /\ buffer'[0] # -2
    BY <1>5, <2>1, <2>2 DEF TurnInv, TurnTypes
  <2>4. TurnTypes' /\ exited' = FALSE
    BY <1>1, <1>5, <1>8, <2>3 DEF TurnInv, TurnTypes
  <2>5. TestHolds' /\ Slot' /\ Loaded'
    BY <1>1, <1>5, <2>3 DEF TurnInv, TurnTypes, TestHolds, Filling, Getting, Slot, Stored, Loaded,
                      FillPlaces, GetPlaces
  <2> QED BY <1>3, <2>4, <2>5 DEF TurnInv
<1>6. CASE /\ Extra!Store(t, "f5", "f6")
           /\ fill_ptr' = (reg[t] + 1) % 1
           /\ UNCHANGED <<buffer, use_ptr, num_full>>
  <2>1. fill_ptr' = 0
    BY <1>6, OneSlot DEF TurnInv, Loaded
  <2>2. TurnTypes' /\ exited' = FALSE
    BY <1>1, <1>6, <1>8, <2>1 DEF TurnInv, TurnTypes
  <2>3. TestHolds' /\ Slot' /\ Loaded'
    BY <1>1, <1>6 DEF TurnInv, TurnTypes, TestHolds, Filling, Getting, Slot, Stored, Loaded,
                      FillPlaces, GetPlaces
  <2> QED BY <1>3, <2>2, <2>3 DEF TurnInv
<1>7. CASE /\ Extra!Store(t, "f7", IF t = Extra!Main THEN "eos_signal" ELSE "p4")
           /\ num_full' = reg[t] + 1
           /\ UNCHANGED <<buffer, use_ptr, fill_ptr>>
  <2>1. num_full' = 1
    BY <1>7 DEF TurnInv, Loaded
  <2>2. TurnTypes' /\ exited' = FALSE
    BY <1>1, <1>7, <1>8, <2>1 DEF TurnInv, TurnTypes
  <2>3. pc'[t] \in {"eos_signal", "p4"}
    BY <1>7 DEF TurnInv, TurnTypes
  <2>4. TestHolds' /\ Slot' /\ Loaded'
    BY <1>1, <1>7, <2>1, <2>3 DEF TurnInv, TurnTypes, TestHolds, Filling, Getting, Slot, Stored, Loaded,
                      FillPlaces, GetPlaces
  <2> QED BY <1>3, <2>2, <2>4 DEF TurnInv
<1> QED
  BY <1>4, <1>5, <1>6, <1>7 DEF Extra!do_fill_steps

\* The same for the consumer, which finds its slot filled.
LEMMA GetTurn ==
    ASSUME TurnInv, Extra!do_get_steps(Consumer)
    PROVE  TurnInv'
<1> USE DEF Three, Main, Producer, Consumer
<1> USE DEF Extra!Go, Extra!Load, Extra!Store, Extra!bufferVars, Extra!syncVars, Extra!threadVars
<1>1. /\ pc[Consumer] \in GetPlaces /\ num_full = 1 /\ ~Filling(Main) /\ ~Filling(Producer)
      /\ UNCHANGED <<i, fill_ptr>>
  BY DEF Extra!do_get_steps, Extra!GetCheck, TurnInv, TurnTypes, TestHolds, Filling, Getting, GetPlaces
<1>2. PICK to \in GetPlaces \cup {"c4"} : pc' = [pc EXCEPT ![Consumer] = to]
  BY DEF Extra!do_get_steps, Extra!GetCheck, GetPlaces
<1>3. MainLast'
  BY <1>1, <1>2 DEF TurnInv, TurnTypes, MainLast, GetPlaces
<1>4. CASE Extra!Load(Consumer, "g0", "g1", use_ptr) \/ Extra!GetCheck(Consumer)
           \/ Extra!Load(Consumer, "g2", "g3", use_ptr) \/ Extra!Load(Consumer, "g4", "g5", use_ptr)
           \/ Extra!Load(Consumer, "g6", "g7", num_full)
  <2>1. exited' = FALSE
    BY <1>1, <1>4 DEF Extra!GetCheck, Extra!EMPTY, TurnInv, TurnTypes, Slot, Loaded
  <2>2. TurnTypes'
    BY <1>1, <1>2, <1>4 DEF Extra!GetCheck, TurnInv, TurnTypes, ConsumerPlaces
  <2>3. TestHolds' /\ Slot' /\ Loaded'
    BY <1>1, <1>2, <1>4 DEF Extra!GetCheck, TurnInv, TurnTypes, TestHolds, Filling, Getting, Slot, Stored, Loaded,
                      FillPlaces, GetPlaces
  <2> QED BY <1>3, <2>1, <2>2, <2>3 DEF TurnInv
<1>5. CASE /\ Extra!Store(Consumer, "g3", "g4")
           /\ buffer' = [buffer EXCEPT ![reg[Consumer]] = Extra!EMPTY]
           /\ UNCHANGED <<use_ptr, fill_ptr, num_full>>
  <2>1. reg[Consumer] = 0
    BY <1>5 DEF TurnInv, Loaded
  <2>2. buffer' \in [{0} -> Int] /\ buffer'[0] = -2
    BY <1>5, <2>1 DEF TurnInv, TurnTypes, Extra!EMPTY
  <2>3. TurnTypes' /\ exited' = FALSE
    BY <1>1, <1>2, <1>5, <2>2 DEF TurnInv, TurnTypes, ConsumerPlaces
  <2>4. TestHolds' /\ Slot' /\ Loaded'
    BY <1>1, <1>5, <2>2 DEF TurnInv, TurnTypes, TestHolds, Filling, Getting, Slot, Stored, Loaded,
                      FillPlaces, GetPlaces
  <2> QED BY <1>3, <2>3, <2>4 DEF TurnInv
<1>6. CASE /\ Extra!Store(Consumer, "g5", "g6")
           /\ use_ptr' = (reg[Consumer] + 1) % 1
           /\ UNCHANGED <<buffer, fill_ptr, num_full>>
  <2>1. use_ptr' = 0
    BY <1>6, OneSlot DEF TurnInv, Loaded
  <2>2. TurnTypes' /\ exited' = FALSE
    BY <1>1, <1>2, <1>6, <2>1 DEF TurnInv, TurnTypes, ConsumerPlaces
  <2>3. TestHolds' /\ Slot' /\ Loaded'
    BY <1>1, <1>6 DEF TurnInv, TurnTypes, TestHolds, Filling, Getting, Slot, Stored, Loaded,
                      FillPlaces, GetPlaces
  <2> QED BY <1>3, <2>2, <2>3 DEF TurnInv
<1>7. CASE /\ Extra!Store(Consumer, "g7", "c4")
           /\ num_full' = reg[Consumer] - 1
           /\ UNCHANGED <<buffer, use_ptr, fill_ptr>>
  <2>1. num_full' = 0
    BY <1>7 DEF TurnInv, Loaded
  <2>2. TurnTypes' /\ exited' = FALSE
    BY <1>1, <1>2, <1>7, <2>1 DEF TurnInv, TurnTypes, ConsumerPlaces
  <2>3. pc'[Consumer] = "c4"
    BY <1>7 DEF TurnInv, TurnTypes
  <2>4. TestHolds' /\ Slot' /\ Loaded'
    BY <1>1, <1>7, <2>1, <2>3 DEF TurnInv, TurnTypes, TestHolds, Filling, Getting, Slot, Stored, Loaded,
                      FillPlaces, GetPlaces
  <2> QED BY <1>3, <2>2, <2>4 DEF TurnInv
<1> QED
  BY <1>4, <1>5, <1>6, <1>7 DEF Extra!do_get_steps

\* The producer, outside do_fill.
LEMMA ProducerQuiet ==
    ASSUME TurnInv, pc[Producer] \notin {"unborn", "done"} \cup FillPlaces,
           NEW to \in ProducerPlaces \ FillPlaces, pc' = [pc EXCEPT ![Producer] = to],
           to = "fill" => num_full = 0,
           UNCHANGED <<buffer, use_ptr, fill_ptr, num_full, reg, exited>>,
           i' \in [{Main, Producer} -> Nat], i'[Main] = i[Main]
    PROVE  TurnInv'
<1>1. MainLast'
  BY DEF TurnInv, TurnTypes, MainLast, Three, Main, Producer, Consumer
<1>2. pc[Producer] \notin GetPlaces /\ to \notin GetPlaces \cup {"get", "eos_fill"}
  BY DEF TurnInv, TurnTypes, ProducerPlaces, GetPlaces, FillPlaces
<1>3. Producer \in Three /\ Producer # Main /\ Producer # Consumer
  BY DEF Three, Main, Producer, Consumer
<1> QED
  BY <1>1, <1>2, <1>3, QuietTurn

LEMMA ProducerTurn ==
    ASSUME TurnInv, Extra!producer(Producer)
    PROVE  TurnInv'
<1> USE DEF Extra!Go, Extra!W!Go, Extra!bufferVars, Extra!syncVars, Extra!threadVars, Extra!W!bufferVars,
            Extra!W!syncVars, Extra!W!threadVars
<1>1. CASE Extra!do_fill_steps(Producer)
  BY <1>1, FillTurn
<1>2. CASE Extra!W!ProducerUnlock(Producer) /\ UNCHANGED reg
  <2>1. /\ pc[Producer] = "p5" /\ pc' = [pc EXCEPT ![Producer] = IF i[Producer] + 1 < items THEN "p0" ELSE "done"]
        /\ UNCHANGED <<buffer, use_ptr, fill_ptr, num_full, reg, exited>>
        /\ i' = [i EXCEPT ![Producer] = i[Producer] + 1]
    BY <1>2 DEF Extra!W!ProducerUnlock
  <2>2. i \in [{Main, Producer} -> Nat] /\ i[Producer] \in Nat
    BY DEF TurnInv, TurnTypes
  <2>3. i' \in [{Main, Producer} -> Nat] /\ i'[Main] = i[Main]
    BY <2>1, <2>2 DEF Main, Producer
  <2>4. {"p0", "done"} \subseteq ProducerPlaces \ FillPlaces
    BY DEF ProducerPlaces, FillPlaces
  <2> QED BY <2>1, <2>3, <2>4, ProducerQuiet DEF FillPlaces
<1>3. ASSUME NEW from \in ProducerPlaces \ ({"unborn", "done"} \cup FillPlaces), NEW to \in ProducerPlaces \ FillPlaces,
             pc[Producer] = from, pc' = [pc EXCEPT ![Producer] = to], to = "fill" => num_full = 0,
             UNCHANGED <<buffer, use_ptr, fill_ptr, num_full, reg, exited, i>>
      PROVE  TurnInv'
  <2>1. i' \in [{Main, Producer} -> Nat] /\ i'[Main] = i[Main]
    BY <1>3 DEF TurnInv, TurnTypes
  <2> QED BY <1>3, <2>1, ProducerQuiet
<1> USE DEF ProducerPlaces, FillPlaces
<1>4. CASE /\ UNCHANGED reg
           /\ \/ Extra!W!ProducerLock(Producer) \/ Extra!W!ProducerWait(Producer) \/ Extra!W!ProducerWoken(Producer)
  BY <1>3, <1>4 DEF Extra!W!ProducerLock, Extra!W!ProducerWait, Extra!W!ProducerWoken
<1>5. CASE Extra!W!ProducerTest(Producer) /\ UNCHANGED reg
  <2>1. num_full # 1 => num_full = 0
    BY DEF TurnInv, TurnTypes
  <2> QED BY <1>3, <1>5, <2>1 DEF Extra!W!ProducerTest
<1>6. CASE Extra!Relock(Producer, "p4", "p4_signal") \/ Extra!Signal(Producer, "p4_signal", "p5", Extra!fill_cv)
  BY <1>3, <1>6 DEF Extra!Relock, Extra!Signal
<1>7. CASE Extra!UnlockEarly(Producer, "fill", "f0")
  <2>1. TurnTypes'
    BY <1>7 DEF Extra!UnlockEarly, TurnInv, TurnTypes, Three, Main, Producer, Consumer
  <2>2. MainLast'
    BY <1>7 DEF Extra!UnlockEarly, TurnInv, TurnTypes, MainLast, Three, Main, Producer, Consumer
  <2>3. TestHolds' /\ Slot' /\ Loaded'
    BY <1>7 DEF Extra!UnlockEarly, TurnInv, TurnTypes, TestHolds, Filling, Getting, Slot, Stored, Loaded, Three,
          Main, Producer, Consumer
  <2> QED BY <1>7, <2>1, <2>2, <2>3 DEF Extra!UnlockEarly, TurnInv
<1> QED
  BY <1>1, <1>2, <1>4, <1>5, <1>6, <1>7 DEF Extra!producer

\* The consumer, outside do_get.
LEMMA ConsumerQuiet ==
    ASSUME TurnInv, NEW from \in ConsumerPlaces \ ({"unborn", "done"} \cup GetPlaces),
           NEW to \in ConsumerPlaces \ GetPlaces, pc[Consumer] = from, pc' = [pc EXCEPT ![Consumer] = to],
           to = "get" => num_full = 1,
           UNCHANGED <<buffer, use_ptr, fill_ptr, num_full, reg, exited, i>>
    PROVE  TurnInv'
<1>1. MainLast'
  BY DEF TurnInv, TurnTypes, MainLast, Three, Main, Producer, Consumer
<1>2. pc[Consumer] \notin FillPlaces /\ to \notin FillPlaces \cup {"fill", "eos_fill"}
  BY DEF TurnInv, TurnTypes, ConsumerPlaces, GetPlaces, FillPlaces
<1>3. Consumer \in Three /\ Consumer # Main /\ Producer # Consumer
  BY DEF Three, Main, Producer, Consumer
<1>4. i' \in [{Main, Producer} -> Nat]
  BY DEF TurnInv, TurnTypes
<1> QED
  BY <1>1, <1>2, <1>3, <1>4, QuietTurn

LEMMA ConsumerTurn ==
    ASSUME TurnInv, Extra!consumer(Consumer)
    PROVE  TurnInv'
<1> USE DEF Extra!Go, Extra!W!Go, Extra!bufferVars, Extra!syncVars, Extra!threadVars, Extra!W!bufferVars,
            Extra!W!syncVars, Extra!W!threadVars
<1>1. CASE Extra!do_get_steps(Consumer)
  BY <1>1, GetTurn
<1> USE DEF ConsumerPlaces, GetPlaces
<1>2. CASE /\ UNCHANGED reg
           /\ \/ Extra!W!ConsumerLock(Consumer) \/ Extra!W!ConsumerWait(Consumer) \/ Extra!W!ConsumerWoken(Consumer)
  BY <1>2, ConsumerQuiet DEF Extra!W!ConsumerLock, Extra!W!ConsumerWait, Extra!W!ConsumerWoken
<1>3. CASE Extra!W!ConsumerTest(Consumer) /\ UNCHANGED reg
  <2>1. num_full # 0 => num_full = 1
    BY DEF TurnInv, TurnTypes
  <2> QED BY <1>3, <2>1, ConsumerQuiet DEF Extra!W!ConsumerTest
<1>4. CASE Extra!W!ConsumerUnlock(Consumer) /\ UNCHANGED reg
  <2>1. /\ pc[Consumer] = "c5"
        /\ pc' = [pc EXCEPT ![Consumer] = IF tmp[Consumer] = Extra!W!END_OF_STREAM THEN "done" ELSE "c0"]
        /\ UNCHANGED <<buffer, use_ptr, fill_ptr, num_full, reg, exited, i>>
    BY <1>4 DEF Extra!W!ConsumerUnlock
  <2> QED BY <2>1, ConsumerQuiet
<1>5. CASE Extra!Relock(Consumer, "c4", "c4_signal") \/ Extra!Signal(Consumer, "c4_signal", "c5", Extra!empty_cv)
  BY <1>5, ConsumerQuiet DEF Extra!Relock, Extra!Signal
<1>6. CASE Extra!UnlockEarly(Consumer, "get", "g0")
  <2>1. TurnTypes'
    BY <1>6 DEF Extra!UnlockEarly, TurnInv, TurnTypes, Three, Main, Producer, Consumer
  <2>2. MainLast'
    BY <1>6 DEF Extra!UnlockEarly, TurnInv, TurnTypes, MainLast, Three, Main, Producer, Consumer
  <2>3. TestHolds' /\ Slot' /\ Loaded'
    BY <1>6 DEF Extra!UnlockEarly, TurnInv, TurnTypes, TestHolds, Filling, Getting, Slot, Stored, Loaded, Three,
          Main, Producer, Consumer
  <2> QED BY <1>6, <2>1, <2>2, <2>3 DEF Extra!UnlockEarly, TurnInv
<1> QED
  BY <1>1, <1>2, <1>3, <1>4, <1>5, <1>6 DEF Extra!consumer

\* main, outside do_fill and past the creation of the threads.
LEMMA MainQuiet ==
    ASSUME TurnInv, NEW from \in MainPlaces \ FillPlaces, NEW to \in MainPlaces \ FillPlaces,
           pc[Main] = from, pc' = [pc EXCEPT ![Main] = to],
           to # "create",
           to # "join_producers" => pc[Producer] = "done",
           to = "eos_fill" => num_full = 0,
           UNCHANGED <<buffer, use_ptr, fill_ptr, num_full, reg, exited>>,
           i' \in [{Main, Producer} -> Nat]
    PROVE  TurnInv'
<1>1. MainLast'
  BY DEF TurnInv, TurnTypes, MainLast, Three, Main, Producer, Consumer
<1>2. from \notin GetPlaces /\ to \notin GetPlaces \cup {"fill", "get"}
  BY DEF TurnInv, TurnTypes, MainPlaces, GetPlaces, FillPlaces
<1>3. Main \in Three /\ Consumer # Main /\ Producer # Main
  BY DEF Three, Main, Producer, Consumer
<1> QED
  BY <1>1, <1>2, <1>3, QuietTurn

LEMMA CreateTurn ==
    ASSUME TurnInv, Extra!Create, UNCHANGED reg
    PROVE  TurnInv'
<1> DEFINE id == i[Main]
<1> USE DEF Extra!bufferVars, Extra!syncVars
<1>1. /\ pc[Main] = "create" /\ id \in {Producer, Consumer} /\ pc[id] = "unborn"
      /\ pc' = [pc EXCEPT ![id] = IF id = Producer THEN "p0" ELSE "c0"]
      /\ i' = [i EXCEPT ![Main] = id + 1]
      /\ UNCHANGED <<buffer, use_ptr, fill_ptr, num_full, reg, exited>>
  <2>1. id \in Nat /\ id < 2 /\ pc[Main] = "create" /\ Extra!Main = Main /\ Extra!Producers = {Producer}
    BY OneEach DEF Extra!Create, TurnInv, TurnTypes
  <2>2. id \in {Producer, Consumer}
    BY <2>1 DEF Producer, Consumer
  <2>3. pc[id] = "unborn"
    BY <2>1, <2>2 DEF TurnInv, MainLast, Producer, Consumer
  <2> QED BY <2>1, <2>2, <2>3 DEF Extra!Create
<1>2. i' \in [{Main, Producer} -> Nat] /\ i'[Main] = id + 1 /\ id \in Nat
  BY <1>1 DEF TurnInv, TurnTypes, Main, Producer, Consumer
<1>3. MainLast'
  BY <1>1, <1>2 DEF TurnInv, TurnTypes, MainLast, Three, Main, Producer, Consumer
<1>4. /\ id \in Three /\ id # Main /\ pc[id] \notin FillPlaces \cup GetPlaces
      /\ {"p0", "c0"} \cap (FillPlaces \cup GetPlaces) = {}
      /\ id = Producer => "p0" \in ProducerPlaces
      /\ "c0" \in ConsumerPlaces
  BY <1>1 DEF FillPlaces, GetPlaces, ProducerPlaces, ConsumerPlaces, Three, Main, Producer, Consumer
<1> HIDE DEF id
<1> QED
  <2>1. CASE id = Producer
    <3>1. pc' = [pc EXCEPT ![id] = "p0"] /\ Producer # Consumer
      BY <1>1, <2>1 DEF Producer, Consumer
    <3> QED BY <1>1, <1>2, <1>3, <1>4, <2>1, <3>1, QuietTurn
  <2>2. CASE id = Consumer
    <3>1. pc' = [pc EXCEPT ![id] = "c0"] /\ Producer # Consumer
      BY <1>1, <2>2 DEF Producer, Consumer
    <3> QED BY <1>1, <1>2, <1>3, <1>4, <2>2, <3>1, QuietTurn
  <2> QED BY <1>1, <2>1, <2>2

LEMMA MainTurn ==
    ASSUME TurnInv, Extra!RacyMain
    PROVE  TurnInv'
<1> USE DEF Extra!Go, Extra!bufferVars, Extra!syncVars, Extra!threadVars
<1>i. i \in [{Main, Producer} -> Nat] /\ Extra!Main = Main /\ Extra!Producers = {Producer}
  BY OneEach DEF TurnInv, TurnTypes
<1>d. pc[Main] \notin {"create", "join_producers"} => pc[Producer] = "done"
  BY DEF TurnInv, MainLast
<1>1. CASE Extra!do_fill_steps(Main)
  BY <1>1, FillTurn
<1>2. CASE Extra!Create /\ UNCHANGED reg
  BY <1>2, CreateTurn
<1>p. /\ {"create", "join_producers", "eos_lock", "eos_test", "eos_wait", "wait", "eos_fill", "eos_signal",
          "eos_unlock", "join_consumers", "done"} \subseteq MainPlaces \ FillPlaces
  BY DEF MainPlaces, FillPlaces
<1>3. CASE Extra!Created /\ UNCHANGED reg
  <2>1. i' \in [{Main, Producer} -> Nat]
    BY <1>3, <1>i DEF Extra!Created
  <2>2. /\ pc[Main] = "create" /\ pc' = [pc EXCEPT ![Main] = "join_producers"]
        /\ UNCHANGED <<buffer, use_ptr, fill_ptr, num_full, reg, exited>>
    BY <1>3, <1>i DEF Extra!Created
  <2> QED BY <1>p, <2>1, <2>2, MainQuiet
<1>4. CASE Extra!JoinProducers /\ UNCHANGED reg
  <2> DEFINE to == IF 1 = 0 THEN "done" ELSE "eos_lock"
  <2>1. /\ pc[Main] = "join_producers" /\ pc[Producer] = "done" /\ pc' = [pc EXCEPT ![Main] = to]
        /\ UNCHANGED <<buffer, use_ptr, fill_ptr, num_full, reg, exited, i>>
    BY <1>4, <1>i DEF Extra!JoinProducers
  <2>2. to = "eos_lock"
    OBVIOUS
  <2> HIDE DEF to
  <2> QED BY <1>i, <1>p, <2>1, <2>2, MainQuiet
<1>5. CASE UNCHANGED reg /\ (Extra!EosLock \/ Extra!EosWait(Extra!empty_cv) \/ Extra!EosWoken \/ Extra!EosSignal(Extra!fill_cv))
  BY <1>5, <1>i, <1>p, <1>d, MainQuiet DEF Extra!EosLock, Extra!EosWait, Extra!EosWoken, Extra!EosSignal
<1>6. CASE UNCHANGED reg /\ Extra!EosTest
  <2>1. num_full # 1 => num_full = 0
    BY DEF TurnInv, TurnTypes
  <2>2. /\ pc[Main] = "eos_test"
        /\ pc' = [pc EXCEPT ![Main] = IF num_full = 1 THEN "eos_wait" ELSE "eos_fill"]
        /\ UNCHANGED <<buffer, use_ptr, fill_ptr, num_full, reg, exited, i>>
    BY <1>6, <1>i DEF Extra!EosTest
  <2>3. CASE num_full = 1
    BY <1>i, <1>p, <1>d, <2>2, <2>3, MainQuiet
  <2>4. CASE num_full # 1
    BY <1>i, <1>p, <1>d, <2>1, <2>2, <2>4, MainQuiet
  <2> QED BY <2>3, <2>4
<1>7. CASE UNCHANGED reg /\ Extra!EosUnlock
  <2>1. /\ pc[Main] = "eos_unlock" /\ i' = [i EXCEPT ![Main] = i[Main] + 1]
        /\ UNCHANGED <<buffer, use_ptr, fill_ptr, num_full, reg, exited>>
        /\ pc' = [pc EXCEPT ![Main] = IF i[Main] + 1 < 1 THEN "eos_lock" ELSE "join_consumers"]
    BY <1>7, <1>i DEF Extra!EosUnlock
  <2>2. i' \in [{Main, Producer} -> Nat]
    BY <1>i, <1>p, <2>1 DEF Main, Producer
  <2>3. CASE i[Main] + 1 < 1
    BY <1>d, <1>p, <2>1, <2>2, <2>3, MainQuiet
  <2>4. CASE ~(i[Main] + 1 < 1)
    BY <1>d, <1>p, <2>1, <2>2, <2>4, MainQuiet
  <2> QED BY <2>3, <2>4
<1>8. CASE UNCHANGED reg /\ Extra!JoinConsumers
  BY <1>8, <1>i, <1>p, <1>d, MainQuiet DEF Extra!JoinConsumers
<1>9. CASE Extra!EosFillCall
  <2>1. TurnTypes'
    BY <1>9, <1>i DEF Extra!EosFillCall, TurnInv, TurnTypes, MainPlaces, FillPlaces, Three, Main, Producer, Consumer
  <2>2. MainLast'
    BY <1>9, <1>i, <1>p, <1>d DEF Extra!EosFillCall, TurnInv, TurnTypes, MainLast, FillPlaces, Three, Main, Producer, Consumer
  <2>3. TestHolds' /\ Slot' /\ Loaded'
    BY <1>9, <1>i DEF Extra!EosFillCall, TurnInv, TurnTypes, TestHolds, Filling, Getting, Slot, Stored, Loaded, FillPlaces, Three,
          Main, Producer, Consumer
  <2> QED BY <1>9, <2>1, <2>2, <2>3 DEF Extra!EosFillCall, TurnInv
<1> QED
  BY <1>1, <1>2, <1>3, <1>4, <1>5, <1>6, <1>7, <1>8, <1>9, <1>i DEF Extra!RacyMain

LEMMA TurnStep ==
    ASSUME TurnInv, Extra!Next
    PROVE  TurnInv'
<1>1. CASE Extra!Step
  BY <1>1, MainTurn, ProducerTurn, ConsumerTurn, OneEach DEF Extra!Step
<1>2. CASE (\E t \in Extra!Threads : Extra!SpuriousWakeup(t)) /\ UNCHANGED reg
  BY <1>2 DEF Extra!SpuriousWakeup, Extra!bufferVars, Extra!threadVars, TurnInv, TurnTypes, MainLast, TestHolds,
        Filling, Getting, Slot, Stored, Loaded
<1>3. CASE Extra!Finished /\ UNCHANGED reg
  BY <1>3 DEF Extra!Finished, Extra!vars, Extra!bufferVars, Extra!syncVars, Extra!threadVars, TurnInv, TurnTypes,
        MainLast, TestHolds, Filling, Getting, Slot, Stored, Loaded
<1> QED
  BY <1>1, <1>2, <1>3 DEF Extra!Next

LEMMA TurnInit ==
    ASSUME Extra!RacyInit
    PROVE  TurnInv
<1>1. /\ buffer = [s \in {0} |-> -2] /\ use_ptr = 0 /\ fill_ptr = 0 /\ num_full = 0 /\ exited = FALSE
      /\ pc = [t \in Three |-> IF t = Main THEN "create" ELSE "unborn"]
      /\ i = [t \in {Main} \cup {Producer} |-> 0]
      /\ reg = [t \in Three |-> 0]
  BY OneEach DEF Extra!RacyInit, Extra!Init, Extra!EMPTY
<1>2. TurnTypes
  BY <1>1 DEF TurnTypes, MainPlaces, ProducerPlaces, ConsumerPlaces, Three, Main, Producer, Consumer
<1>3. MainLast /\ TestHolds /\ Slot /\ Loaded
  BY <1>1 DEF MainLast, TestHolds, Filling, Getting, Slot, Stored, Loaded, FillPlaces, GetPlaces, Three, Main,
        Producer, Consumer
<1> QED
  BY <1>1, <1>2, <1>3 DEF TurnInv

\* Two threads in do_fill and do_get would need num_full to be 0 and 1.
LEMMA TurnsTaken == TurnInv => Extra!TakeTurns /\ Extra!EnsureHolds
<1> SUFFICES ASSUME TurnInv, NEW t \in Three, NEW u \in Three, pc[t] \in FillPlaces, pc[u] \in GetPlaces
             PROVE  FALSE
  BY OneEach DEF Extra!TakeTurns, Extra!EnsureHolds, TurnInv, FillPlaces, GetPlaces
<1>1. t \in {Main, Producer} /\ u = Consumer
  BY DEF TurnInv, TurnTypes, Three, Main, Producer, Consumer, MainPlaces, ProducerPlaces, ConsumerPlaces,
         FillPlaces, GetPlaces
<1> QED
  BY <1>1 DEF TurnInv, TestHolds, Filling, Getting

VariantInv == prog = "extra-unlock" => TurnInv

THEOREM TurnInvariance == Spec => []VariantInv
<1>1. Init => VariantInv
  BY TurnInit DEF Init, VariantInv
<1>2. VariantInv /\ [Next]_vars => VariantInv'
  <2> SUFFICES ASSUME VariantInv, [Next]_vars PROVE VariantInv'
    OBVIOUS
  <2>1. CASE Next
    BY <2>1, TurnStep DEF Next, VariantInv
  <2>2. CASE UNCHANGED vars
    BY <2>2 DEF vars, VariantInv, TurnInv, TurnTypes, MainLast, TestHolds, Filling, Getting, Slot, Stored, Loaded
  <2> QED BY <2>1, <2>2
<1> QED
  BY <1>1, <1>2, PTL DEF Spec

\* main-two-cvs-while-extra-unlock.c with -p 1 -c 1 -m 1: filling and getting, which
\* run without the lock, are never under way at once, and no check fails, for
\* any number of items and spurious wakeups.
THEOREM TurnsAreTaken == Spec => []TakeTurns
<1>1. VariantInv => TakeTurns
  BY TurnsTaken DEF VariantInv, TakeTurns
<1> QED
  BY <1>1, TurnInvariance, PTL

-----------------------------------------------------------------------------
(* The checks with if: each step of TwoCvsIf is a loose step of PCWhile.   *)
(* The names of P! and If! stand for the same definitions; the lemmas say  *)
(* so part by part.                                                        *)

P == INSTANCE PCWhileProofs WITH empty_cv <- "empty", fill_cv <- "fill"

LEMMA SameArgs == P!ArgsAssumption /\ P!SpuriousAssumption /\ P!CvAssumption
BY VariantAssumption DEF P!ArgsAssumption, P!SpuriousAssumption, P!CvAssumption, P!Awake

LEMMA SameThreads ==
    /\ P!Main = If!Main /\ P!Producers = If!Producers /\ P!Consumers = If!Consumers
    /\ P!Threads = If!Threads
BY DEF If!Main, P!Main, If!Producers, P!Producers, If!Consumers, P!Consumers, If!Threads,
   P!Threads

LEMMA SameInit == If!Init => P!Init
BY SameThreads DEF If!Init, P!Init, If!EMPTY, P!EMPTY, If!Nobody, P!Nobody, If!Awake, P!Awake,
   If!Slots, P!Slots

\* The queue of the two instances is the same state function, and moves alike.
LEMMA SameQueue ==
    /\ UNCHANGED P!Q!vars => UNCHANGED If!W!Q!vars
    /\ P!Q!Init => If!W!Q!Init
    /\ P!Q!Next => If!W!Q!Next
<1> USE DEF P!Queue, If!W!Queue, P!PutBy, If!W!PutBy, P!Eos, If!W!Eos, P!Taken, If!W!Taken,
       P!Stopped, If!W!Stopped, P!Sent, If!W!Sent, P!Producers, If!W!Producers, P!Consumers,
       If!W!Consumers, P!Main, If!W!Main, P!END_OF_STREAM, If!W!END_OF_STREAM, P!Q!Producers,
       If!W!Q!Producers, P!Q!Consumers, If!W!Q!Consumers
<1>1. (UNCHANGED P!Q!vars => UNCHANGED If!W!Q!vars) /\ (P!Q!Init => If!W!Q!Init)
  BY DEF P!Q!vars, If!W!Q!vars, P!Q!Init, If!W!Q!Init
<1>2. ASSUME NEW p \in P!Q!Producers, P!Q!Put(p) PROVE If!W!Q!Put(p)
  BY <1>2 DEF P!Q!Put, If!W!Q!Put
<1>3. P!Q!PutEOS => If!W!Q!PutEOS
  BY DEF P!Q!PutEOS, If!W!Q!PutEOS, P!Q!EOS, If!W!Q!EOS
<1>4. ASSUME NEW c \in P!Q!Consumers, P!Q!Get(c) PROVE If!W!Q!Get(c)
  BY <1>4 DEF P!Q!Get, If!W!Q!Get, P!Q!EOS, If!W!Q!EOS
<1> QED
  BY <1>1, <1>2, <1>3, <1>4 DEF P!Q!Next, If!W!Q!Next

\* A producer that has woken fills from p3, without the second test.
LEMMA SameProducer ==
    ASSUME NEW id \in If!Producers, If!producer(id)
    PROVE  P!LooseProducer(id)
<1> USE DEF If!bufferVars, If!W!bufferVars, P!bufferVars, If!syncVars, If!W!syncVars, P!syncVars,
       If!threadVars, If!W!threadVars, P!threadVars, If!W!Go, P!Go, If!W!Nobody, P!Nobody,
       If!W!Awake, P!Awake, If!W!END_OF_STREAM, P!END_OF_STREAM, If!empty_cv, If!fill_cv
<1>1. If!W!ProducerLock(id) => P!ProducerLock(id)
  BY DEF If!W!ProducerLock, P!ProducerLock, If!W!Mutex_lock, P!Mutex_lock
<1>2. If!W!ProducerWait(id) => P!ProducerWait(id)
  BY DEF If!W!ProducerWait, P!ProducerWait, If!W!Cond_wait, P!Cond_wait
<1>3. If!W!ProducerWoken(id) => P!ProducerWoken(id)
  BY DEF If!W!ProducerWoken, P!ProducerWoken, If!W!WaitReturns, P!WaitReturns, If!W!Mutex_lock,
     P!Mutex_lock
<1>4. If!W!ProducerSignal(id) => P!ProducerSignal(id)
  BY DEF If!W!ProducerSignal, P!ProducerSignal, If!W!Cond_signal, P!Cond_signal, If!W!Sleeping,
     P!Sleeping, If!W!Threads, P!Threads, If!W!Main, P!Main, If!W!Producers, P!Producers,
     If!W!Consumers, P!Consumers
<1>5. If!W!ProducerUnlock(id) => P!ProducerUnlock(id)
  BY DEF If!W!ProducerUnlock, P!ProducerUnlock, If!W!Mutex_unlock, P!Mutex_unlock
<1>6. If!ProducerTest(id) => P!ProducerTest(id)
  BY DEF If!ProducerTest, If!W!ProducerTest, P!ProducerTest
<1>7. If!ProducerFill(id) => P!LooseFill(id)
  BY DEF If!ProducerFill, P!LooseFill, If!do_fill, P!do_fill, If!Item, P!Item, If!EMPTY, P!EMPTY,
     If!GoUnlessExit, P!GoUnlessExit
<1> QED
  BY <1>1, <1>2, <1>3, <1>4, <1>5, <1>6, <1>7 DEF If!producer, P!LooseProducer

\* A consumer that has woken gets from c3.
LEMMA SameConsumer ==
    ASSUME NEW id \in If!Consumers, If!consumer(id)
    PROVE  P!LooseConsumer(id)
<1> USE DEF If!bufferVars, If!W!bufferVars, P!bufferVars, If!syncVars, If!W!syncVars, P!syncVars,
       If!threadVars, If!W!threadVars, P!threadVars, If!W!Go, P!Go, If!W!Nobody, P!Nobody,
       If!W!Awake, P!Awake, If!W!END_OF_STREAM, P!END_OF_STREAM, If!empty_cv, If!fill_cv
<1>1. If!W!ConsumerLock(id) => P!ConsumerLock(id)
  BY DEF If!W!ConsumerLock, P!ConsumerLock, If!W!Mutex_lock, P!Mutex_lock
<1>2. If!W!ConsumerWait(id) => P!ConsumerWait(id)
  BY DEF If!W!ConsumerWait, P!ConsumerWait, If!W!Cond_wait, P!Cond_wait
<1>3. If!W!ConsumerWoken(id) => P!ConsumerWoken(id)
  BY DEF If!W!ConsumerWoken, P!ConsumerWoken, If!W!WaitReturns, P!WaitReturns, If!W!Mutex_lock,
     P!Mutex_lock
<1>4. If!W!ConsumerSignal(id) => P!ConsumerSignal(id)
  BY DEF If!W!ConsumerSignal, P!ConsumerSignal, If!W!Cond_signal, P!Cond_signal, If!W!Sleeping,
     P!Sleeping, If!W!Threads, P!Threads, If!W!Main, P!Main, If!W!Producers, P!Producers,
     If!W!Consumers, P!Consumers
<1>5. If!W!ConsumerUnlock(id) => P!ConsumerUnlock(id)
  BY DEF If!W!ConsumerUnlock, P!ConsumerUnlock, If!W!Mutex_unlock, P!Mutex_unlock
<1>6. If!ConsumerTest(id) => P!ConsumerTest(id)
  BY DEF If!ConsumerTest, If!W!ConsumerTest, P!ConsumerTest
<1>7. If!ConsumerGet(id) => P!LooseGet(id)
  BY DEF If!ConsumerGet, P!LooseGet, If!do_get, P!do_get, If!EMPTY, P!EMPTY, If!GoUnlessExit,
     P!GoUnlessExit
<1> QED
  BY <1>1, <1>2, <1>3, <1>4, <1>5, <1>6, <1>7 DEF If!consumer, P!LooseConsumer

\* main is the same program.
LEMMA SameMain ==
    ASSUME If!MainNext(If!fill_cv, If!empty_cv)
    PROVE  P!MainNext("fill", "empty")
<1> USE DEF If!bufferVars, P!bufferVars, If!syncVars, P!syncVars, If!threadVars, P!threadVars,
       If!Go, P!Go, If!Main, P!Main, If!Nobody, P!Nobody, If!Awake, P!Awake, If!Producers,
       P!Producers, If!Consumers, P!Consumers, If!empty_cv, If!fill_cv
<1>1. If!Create => P!Create
  BY DEF If!Create, P!Create
<1>2. If!Created => P!Created
  BY DEF If!Created, P!Created
<1>3. If!JoinProducers => P!JoinProducers
  BY DEF If!JoinProducers, P!JoinProducers
<1>4. If!EosLock => P!EosLock
  BY DEF If!EosLock, P!EosLock, If!Mutex_lock, P!Mutex_lock
<1>5. If!EosTest => P!EosTest
  BY DEF If!EosTest, P!EosTest
<1>6. If!EosWait(If!empty_cv) => P!EosWait("empty")
  BY DEF If!EosWait, P!EosWait, If!Cond_wait, P!Cond_wait
<1>7. If!EosWoken => P!EosWoken
  BY DEF If!EosWoken, P!EosWoken, If!WaitReturns, P!WaitReturns, If!Mutex_lock, P!Mutex_lock
<1>8. If!EosFill => P!EosFill
  BY DEF If!EosFill, P!EosFill, If!do_fill, P!do_fill, If!EMPTY, P!EMPTY, If!END_OF_STREAM,
     P!END_OF_STREAM, If!GoUnlessExit, P!GoUnlessExit
<1>9. If!EosSignal(If!fill_cv) => P!EosSignal("fill")
  BY DEF If!EosSignal, P!EosSignal, If!Cond_signal, P!Cond_signal, If!Sleeping, P!Sleeping,
     If!Threads, P!Threads
<1>10. If!EosUnlock => P!EosUnlock
  BY DEF If!EosUnlock, P!EosUnlock, If!Mutex_unlock, P!Mutex_unlock
<1>11. If!JoinConsumers => P!JoinConsumers
  BY DEF If!JoinConsumers, P!JoinConsumers
<1> QED
  BY <1>1, <1>2, <1>3, <1>4, <1>5, <1>6, <1>7, <1>8, <1>9, <1>10, <1>11 DEF If!MainNext,
     P!MainNext

LEMMA SameNext == If!Next => P!LooseNext
<1> SUFFICES ASSUME If!Next PROVE P!LooseNext
  OBVIOUS
<1>1. CASE If!Step
  BY <1>1, SameMain, SameProducer, SameConsumer, SameThreads DEF If!Step, P!LooseNext, P!LooseStep
<1>2. ASSUME NEW t \in If!Threads, If!SpuriousWakeup(t) PROVE P!SpuriousWakeup(t)
  BY <1>2 DEF If!SpuriousWakeup, P!SpuriousWakeup, If!Awake, P!Awake, If!bufferVars, P!bufferVars,
     If!threadVars, P!threadVars
<1>3. If!Finished => P!Finished
  BY DEF If!Finished, P!Finished, If!Main, P!Main, If!vars, P!vars, If!bufferVars, P!bufferVars,
     If!threadVars, P!threadVars, If!syncVars, P!syncVars
<1> QED
  BY <1>1, <1>2, <1>3, SameThreads DEF If!Next, P!LooseNext

LEMMA SameVars == UNCHANGED vars => UNCHANGED P!vars
BY DEF vars, P!vars, P!bufferVars, P!syncVars, P!threadVars

LooseInv == prog = "if" => P!CoreInv /\ P!Progress

\* main-two-cvs-if.c, for any number of producers, consumers, items, slots and
\* spurious wakeups: whatever runs before a check of do_fill or do_get ends the
\* process is a bounded FIFO queue, so nothing was lost, doubled or overtaken.
THEOREM FailsInTime == Spec => FailStop
<1>1. Init => LooseInv /\ (prog = "if" => If!W!Q!Init)
  BY SameArgs, SameInit, SameQueue, P!InitInv, P!InitProgress, P!InitQueue DEF Init, LooseInv
<1>2. ASSUME LooseInv, [Next]_vars
      PROVE  LooseInv' /\ [prog = "if" => [If!W!Q!Next]_(If!W!Q!vars)]_vars
  <2>1. CASE prog # "if"
    BY <1>2, <2>1 DEF Next, vars, LooseInv
  <2>2. CASE prog = "if"
    <3>1. P!CoreInv /\ P!Progress
      BY <2>2, <1>2 DEF LooseInv
    <3>2. [P!LooseNext]_(P!vars)
      BY <1>2, <2>2, SameNext, SameVars DEF Next
    <3>3. P!CoreInv'
      BY <3>1, <3>2, P!LooseCore, SameArgs
    <3>4. P!Progress'
      BY <3>1, <3>2, P!LooseProgress, SameArgs
    <3>5. [P!Q!Next]_(P!Q!vars)
      BY <3>1, <3>2, <3>3, P!LooseQueue, SameArgs
    <3>6. [If!W!Q!Next]_(If!W!Q!vars)
      BY <3>5, SameQueue
    <3> QED BY <3>3, <3>4, <3>6 DEF LooseInv
  <2> QED BY <2>1, <2>2
<1> QED
  BY <1>1, <1>2, PTL DEF Spec, FailStop

=============================================================================
