---------------------------- MODULE PCWhileProofs ----------------------------
(***************************************************************************)
(* For any number of producers, consumers, items and slots, and with one   *)
(* condition variable or two: m excludes, the ring and its count agree, no *)
(* check of do_fill or do_get fails, and the program is a bounded queue.   *)
(***************************************************************************)
EXTENDS PCWhile, SequenceTheorems, TLAPS

USE ArgsAssumption, SpuriousAssumption

\* An index that runs past the last slot of the ring starts again at 0.
LEMMA NextSlot ==
    \A s \in Slots : /\ (s + 1) % max = IF s + 1 < max THEN s + 1 ELSE 0
                     /\ (s + 1) % max \in Slots
BY SMT DEF Slots

\* No item has the value of EMPTY or of END_OF_STREAM.
LEMMA ItemRange ==
    \A id \in Producers, k \in 0 .. loops - 1 :
        Item(id, k) \in Items /\ Item(id, k) \in Nat
<1> SUFFICES ASSUME NEW id \in Producers, NEW k \in 0 .. loops - 1
             PROVE  Item(id, k) \in Items /\ Item(id, k) \in Nat
  OBVIOUS
<1>1. Item(id, k) \in Items
  BY DEF Items
<1>2. id * loops \in Nat
  BY DEF Producers
<1>3. Item(id, k) \in Nat
  BY <1>2 DEF Item
<1> QED BY <1>1, <1>3

LEMMA ItemsAreNat == Items \subseteq Nat
BY ItemRange DEF Items

\* do_fill into a ring with a free slot passes its check and keeps the ring.
LEMMA FillKeepsRing ==
    ASSUME TypeOK, Ring, num_full # max,
           NEW value \in Items \cup {END_OF_STREAM}, do_fill(value)
    PROVE  /\ Ring' /\ exited' = FALSE
           /\ buffer' \in [Slots -> Items \cup {EMPTY, END_OF_STREAM}]
           /\ use_ptr' \in Slots /\ fill_ptr' \in Slots /\ num_full' \in 0 .. max
<1>1. buffer[fill_ptr] = EMPTY
  BY SMT DEF TypeOK, Ring, InRing, Slots
<1>2. value # EMPTY
  BY ItemsAreNat DEF EMPTY, END_OF_STREAM
<1>3. /\ exited' = FALSE
      /\ buffer' = [buffer EXCEPT ![fill_ptr] = value]
      /\ fill_ptr' = (fill_ptr + 1) % max
      /\ num_full' = num_full + 1
      /\ use_ptr' = use_ptr
  BY <1>1 DEF do_fill
<1>4. /\ buffer' \in [Slots -> Items \cup {EMPTY, END_OF_STREAM}]
      /\ use_ptr' \in Slots /\ num_full' \in 0 .. max
  BY <1>3 DEF TypeOK
<1>5. fill_ptr' \in Slots /\ fill_ptr' = IF fill_ptr + 1 < max THEN fill_ptr + 1 ELSE 0
  BY <1>3, NextSlot DEF TypeOK
<1>6. \A s \in Slots : buffer'[s] # EMPTY <=> (buffer[s] # EMPTY \/ s = fill_ptr)
  BY <1>1, <1>2, <1>3 DEF TypeOK
<1>7. use_ptr \in 0 .. max - 1 /\ num_full \in 0 .. max - 1
  BY DEF TypeOK, Slots
<1>8. fill_ptr' = IF use_ptr' + num_full' < max THEN use_ptr' + num_full'
                  ELSE use_ptr' + num_full' - max
  BY <1>3, <1>5, <1>7, SMT DEF Ring
<1>9. ASSUME NEW s \in Slots
      PROVE  buffer'[s] # EMPTY <=> InRing(s)'
  <2>1. buffer'[s] # EMPTY <=> InRing(s) \/ s = fill_ptr
    BY <1>6, <1>9 DEF Ring
  <2>2. InRing(s)' <=> InRing(s) \/ s = fill_ptr
    BY <1>3, <1>7, <1>9, SMT DEF InRing, Ring, Slots
  <2> QED BY <2>1, <2>2
<1>10. Ring'
  BY <1>8, <1>9 DEF Ring
<1> QED BY <1>3, <1>4, <1>5, <1>10

\* do_get from a ring with a filled slot passes its check and keeps the ring.
LEMMA GetKeepsRing ==
    ASSUME TypeOK, Ring, num_full # 0, NEW t \in Consumers, do_get(t)
    PROVE  /\ Ring' /\ exited' = FALSE
           /\ buffer' \in [Slots -> Items \cup {EMPTY, END_OF_STREAM}]
           /\ use_ptr' \in Slots /\ fill_ptr' \in Slots /\ num_full' \in 0 .. max
           /\ tmp' \in [Consumers -> Items \cup {0, END_OF_STREAM}]
<1>1. buffer[use_ptr] # EMPTY
  BY SMT DEF TypeOK, Ring, InRing, Slots
<1>2. /\ exited' = FALSE
      /\ tmp' = [tmp EXCEPT ![t] = buffer[use_ptr]]
      /\ buffer' = [buffer EXCEPT ![use_ptr] = EMPTY]
      /\ use_ptr' = (use_ptr + 1) % max
      /\ num_full' = num_full - 1
      /\ fill_ptr' = fill_ptr
  BY <1>1 DEF do_get
<1>3. /\ buffer' \in [Slots -> Items \cup {EMPTY, END_OF_STREAM}]
      /\ fill_ptr' \in Slots /\ num_full' \in 0 .. max
      /\ tmp' \in [Consumers -> Items \cup {0, END_OF_STREAM}]
  BY <1>1, <1>2 DEF TypeOK
<1>4. use_ptr' \in Slots /\ use_ptr' = IF use_ptr + 1 < max THEN use_ptr + 1 ELSE 0
  BY <1>2, NextSlot DEF TypeOK
<1>5. \A s \in Slots : buffer'[s] # EMPTY <=> (buffer[s] # EMPTY /\ s # use_ptr)
  BY <1>2 DEF TypeOK
<1>6. use_ptr \in 0 .. max - 1 /\ num_full \in 1 .. max
  BY DEF TypeOK, Slots
<1>7. fill_ptr' = IF use_ptr' + num_full' < max THEN use_ptr' + num_full'
                  ELSE use_ptr' + num_full' - max
  BY <1>2, <1>4, <1>6, SMT DEF Ring
<1>8. ASSUME NEW s \in Slots
      PROVE  buffer'[s] # EMPTY <=> InRing(s)'
  <2>1. buffer'[s] # EMPTY <=> InRing(s) /\ s # use_ptr
    BY <1>5, <1>8 DEF Ring
  <2>2. s \in 0 .. max - 1
    BY <1>8 DEF Slots
  <2>3. InRing(s)' <=> InRing(s) /\ s # use_ptr
    <3>1. CASE use_ptr + 1 < max
      BY <1>2, <1>4, <1>6, <2>2, <3>1, SMT DEF InRing
    <3>2. CASE use_ptr + 1 = max
      BY <1>2, <1>4, <1>6, <2>2, <3>2, SMT DEF InRing
    <3> QED BY <1>6, <3>1, <3>2
  <2> QED BY <2>1, <2>3
<1>9. Ring'
  BY <1>7, <1>8 DEF Ring
<1> QED BY <1>2, <1>3, <1>4, <1>9

\* do_fill, whether its check passes or not.
LEMMA FillOutcome ==
    ASSUME TypeOK, Ring, NEW value \in Items \cup {END_OF_STREAM}, do_fill(value)
    PROVE  /\ Ring' /\ exited' \in BOOLEAN
           /\ buffer' \in [Slots -> Items \cup {EMPTY, END_OF_STREAM}]
           /\ use_ptr' \in Slots /\ fill_ptr' \in Slots /\ num_full' \in 0 .. max
           /\ ~exited' => num_full # max
           /\ exited' => UNCHANGED bufferVars
<1>1. CASE num_full # max
  BY <1>1, FillKeepsRing
<1>2. CASE num_full = max
  <2>1. fill_ptr \in Slots /\ InRing(fill_ptr)
    BY <1>2, SMT DEF TypeOK, Ring, InRing, Slots
  <2>2. buffer[fill_ptr] # EMPTY
    BY <2>1 DEF Ring
  <2>3. exited' = TRUE /\ UNCHANGED bufferVars
    BY <2>2 DEF do_fill, bufferVars
  <2> QED
    BY <2>3 DEF bufferVars, TypeOK, Ring, InRing
<1> QED
  BY <1>1, <1>2

\* do_get, whether its check passes or not.
LEMMA GetOutcome ==
    ASSUME TypeOK, Ring, NEW t \in Consumers, do_get(t)
    PROVE  /\ Ring' /\ exited' \in BOOLEAN
           /\ buffer' \in [Slots -> Items \cup {EMPTY, END_OF_STREAM}]
           /\ use_ptr' \in Slots /\ fill_ptr' \in Slots /\ num_full' \in 0 .. max
           /\ tmp' \in [Consumers -> Items \cup {0, END_OF_STREAM}]
           /\ ~exited' => num_full # 0
           /\ exited' => UNCHANGED <<bufferVars, tmp>>
<1>1. CASE num_full # 0
  BY <1>1, GetKeepsRing
<1>2. CASE num_full = 0
  <2>1. use_ptr \in Slots /\ ~InRing(use_ptr)
    BY <1>2, SMT DEF TypeOK, Ring, InRing, Slots
  <2>2. buffer[use_ptr] = EMPTY
    BY <2>1 DEF Ring
  <2>3. exited' = TRUE /\ UNCHANGED <<bufferVars, tmp>>
    BY <2>2 DEF do_get, bufferVars
  <2> QED
    BY <2>3 DEF bufferVars, TypeOK, Ring, InRing
<1> QED
  BY <1>1, <1>2

\* A check passes when there is a free or a filled slot.
LEMMA FillIfFree ==
    ASSUME TypeOK, Ring, num_full # max, NEW value, do_fill(value)
    PROVE  exited' = FALSE
<1>1. buffer[fill_ptr] = EMPTY
  BY SMT DEF TypeOK, Ring, InRing, Slots
<1> QED BY <1>1 DEF do_fill

LEMMA GetIfFilled ==
    ASSUME TypeOK, Ring, num_full # 0, NEW t, do_get(t)
    PROVE  exited' = FALSE
<1>1. buffer[use_ptr] # EMPTY
  BY SMT DEF TypeOK, Ring, InRing, Slots
<1> QED BY <1>1 DEF do_get

-----------------------------------------------------------------------------
(* A step of a thread of this program, or of main-two-cvs-if.c, whose       *)
(* threads fill and get when they have woken, without a second test.       *)

LooseFill(id) ==
    /\ do_fill(Item(id, i[id]))
    /\ GoUnlessExit(id, {"fill", "p3"}, "p4")
    /\ UNCHANGED <<syncVars, threadVars>>

LooseGet(id) ==
    /\ do_get(id)
    /\ GoUnlessExit(id, {"get", "c3"}, "c4")
    /\ UNCHANGED <<syncVars, i, consumed_count, counts>>

LooseProducer(id) ==
    \/ ProducerLock(id) \/ ProducerTest(id) \/ ProducerWait(id) \/ ProducerWoken(id)
    \/ LooseFill(id) \/ ProducerSignal(id) \/ ProducerUnlock(id)

LooseConsumer(id) ==
    \/ ConsumerLock(id) \/ ConsumerTest(id) \/ ConsumerWait(id) \/ ConsumerWoken(id)
    \/ LooseGet(id) \/ ConsumerSignal(id) \/ ConsumerUnlock(id)

LooseStep ==
    \/ MainNext(fill_cv, empty_cv)
    \/ \E id \in Producers : LooseProducer(id)
    \/ \E id \in Consumers : LooseConsumer(id)

LooseNext ==
    \/ LooseStep
    \/ \E t \in Threads : SpuriousWakeup(t)
    \/ Finished

\* The steps of this program are some of them.
LEMMA StepsAreLoose ==
    /\ \A id \in Producers : producer(id) => LooseProducer(id)
    /\ \A id \in Consumers : consumer(id) => LooseConsumer(id)
    /\ Next => LooseNext
BY DEF producer, ProducerFill, LooseProducer, LooseFill, consumer, ConsumerGet, LooseConsumer, LooseGet,
       GoUnlessExit, Next, Step, LooseNext, LooseStep

-----------------------------------------------------------------------------
(* What they all keep: one lemma for each kind of thread, one step for each *)
(* of its actions.                                                          *)

CoreInv == TypeOK /\ Roles /\ NotCreated /\ ItemsLeft /\ Ring

\* The initial states.
LEMMA InitInv == Init => IInv /\ CoreInv
<1> SUFFICES ASSUME Init PROVE IInv /\ CoreInv
  OBVIOUS
<1> USE DEF Init
<1>1. TypeOK
  <2>1. 0 \in Slots /\ 0 \in 0 .. max
    BY DEF Slots
  <2>2. /\ buffer \in [Slots -> Items \cup {EMPTY, END_OF_STREAM}]
        /\ use_ptr \in Slots /\ fill_ptr \in Slots /\ num_full \in 0 .. max
    BY <2>1
  <2>3. /\ mutex \in Threads \cup {Nobody}
        /\ waiting \in [Threads -> {Awake, empty_cv, fill_cv}]
        /\ spurious \in 0 .. MaxSpurious
    OBVIOUS
  <2>4. /\ i \in [{Main} \cup Producers -> Nat]
        /\ tmp \in [Consumers -> Items \cup {0, END_OF_STREAM}]
    OBVIOUS
  <2>5. /\ consumed_count \in [Consumers -> Nat]
        /\ counts \in [Consumers -> Int]
    OBVIOUS
  <2>6. exited \in BOOLEAN
    BY Zenon
  <2> QED BY <2>2, <2>3, <2>4, <2>5, <2>6 DEF TypeOK
<1>2. Roles /\ NotCreated /\ ItemsLeft
  BY DEF Roles, NotCreated, ItemsLeft, Threads, Main, Producers, Consumers
<1>3. MutualExclusion /\ TestHolds
  BY DEF MutualExclusion, TestHolds, Critical, Threads, Main, Nobody, Producers, Consumers
<1>4. Ring
  BY SMT DEF Ring, InRing, Slots
<1> QED BY <1>1, <1>2, <1>3, <1>4 DEF IInv, CoreInv, EnsureHolds

\* A signal wakes a thread or nobody.
LEMMA WokenType ==
    ASSUME waiting \in [Threads -> {Awake, empty_cv, fill_cv}], NEW cv, Cond_signal(cv)
    PROVE  waiting' \in [Threads -> {Awake, empty_cv, fill_cv}]
BY DEF Cond_signal, Sleeping

\* What an action that leaves the buffer alone has to show.
LEMMA QuietRing ==
    ASSUME Ring, UNCHANGED bufferVars
    PROVE  Ring'
BY DEF Ring, InRing, bufferVars

\* A step of a producer.
LEMMA ProducerCore ==
    ASSUME CoreInv, NEW id \in Producers, LooseProducer(id)
    PROVE  CoreInv'
<1> USE DEF Threads, Producers, Consumers, Main, Nobody, Awake, Go
<1> USE DEF bufferVars, syncVars, threadVars
<1>1. CASE ProducerLock(id)
  <2>1. Ring'
    BY <1>1, QuietRing DEF CoreInv, ProducerLock
  <2>2. TypeOK'
    BY <1>1 DEF ProducerLock, CoreInv, TypeOK,
                  Mutex_lock
  <2>3. Roles' /\ NotCreated' /\ ItemsLeft'
    BY <1>1 DEF ProducerLock, CoreInv, TypeOK, Roles, NotCreated, ItemsLeft
  <2> QED BY <2>1, <2>2, <2>3 DEF CoreInv
<1>2. CASE ProducerTest(id)
  <2>1. Ring'
    BY <1>2, QuietRing DEF CoreInv, ProducerTest
  <2>2. TypeOK'
    BY <1>2 DEF ProducerTest, CoreInv, TypeOK
  <2>3. Roles' /\ NotCreated' /\ ItemsLeft'
    BY <1>2 DEF ProducerTest, CoreInv, TypeOK, Roles, NotCreated, ItemsLeft
  <2> QED BY <2>1, <2>2, <2>3 DEF CoreInv
<1>3. CASE ProducerWait(id)
  <2>1. Ring'
    BY <1>3, QuietRing DEF CoreInv, ProducerWait
  <2>2. TypeOK'
    BY <1>3 DEF ProducerWait, CoreInv, TypeOK,
                  Cond_wait
  <2>3. Roles' /\ NotCreated' /\ ItemsLeft'
    BY <1>3 DEF ProducerWait, CoreInv, TypeOK, Roles, NotCreated, ItemsLeft
  <2> QED BY <2>1, <2>2, <2>3 DEF CoreInv
<1>4. CASE ProducerWoken(id)
  <2>1. Ring'
    BY <1>4, QuietRing DEF CoreInv, ProducerWoken
  <2>2. TypeOK'
    BY <1>4 DEF ProducerWoken, CoreInv, TypeOK,
                  WaitReturns, Mutex_lock
  <2>3. Roles' /\ NotCreated' /\ ItemsLeft'
    BY <1>4 DEF ProducerWoken, CoreInv, TypeOK, Roles, NotCreated, ItemsLeft
  <2> QED BY <2>1, <2>2, <2>3 DEF CoreInv
<1>5. CASE ProducerSignal(id)
  <2>1. Ring'
    BY <1>5, QuietRing DEF CoreInv, ProducerSignal
  <2>2. TypeOK'
    <3>1. waiting' \in [Threads -> {Awake, empty_cv, fill_cv}]
      <4> HIDE DEF Threads, Awake
      <4> QED BY <1>5, WokenType DEF ProducerSignal, CoreInv, TypeOK
    <3> QED BY <1>5, <3>1 DEF ProducerSignal, CoreInv, TypeOK, Cond_signal
  <2>3. Roles' /\ NotCreated' /\ ItemsLeft'
    BY <1>5 DEF ProducerSignal, CoreInv, TypeOK, Roles, NotCreated, ItemsLeft
  <2> QED BY <2>1, <2>2, <2>3 DEF CoreInv
<1>6. CASE ProducerUnlock(id)
  <2>1. Ring'
    BY <1>6, QuietRing DEF CoreInv, ProducerUnlock
  <2>2. TypeOK'
    BY <1>6 DEF ProducerUnlock, CoreInv, TypeOK,
                  Mutex_unlock
  <2>3. Roles' /\ NotCreated' /\ ItemsLeft'
    BY <1>6 DEF ProducerUnlock, CoreInv, TypeOK, Roles, NotCreated, ItemsLeft
  <2> QED BY <2>1, <2>2, <2>3 DEF CoreInv
<1>7. CASE LooseFill(id)
  <2>1. /\ pc[id] \in {"fill", "p3"} /\ pc' = IF exited' THEN pc ELSE [pc EXCEPT ![id] = "p4"]
        /\ do_fill(Item(id, i[id]))
    BY <1>7 DEF LooseFill, GoUnlessExit
  <2>2. i[id] \in 0 .. loops - 1
    <3>1. i[id] \in Nat /\ i[id] < loops
      BY <2>1 DEF CoreInv, TypeOK, ItemsLeft
    <3> QED BY <3>1
  <2>3. Item(id, i[id]) \in Items \cup {END_OF_STREAM}
    BY <2>2, ItemRange
  <2>4. /\ Ring' /\ exited' \in BOOLEAN
        /\ buffer' \in [Slots -> Items \cup {EMPTY, END_OF_STREAM}]
        /\ use_ptr' \in Slots /\ fill_ptr' \in Slots /\ num_full' \in 0 .. max
    BY <2>1, <2>3, FillOutcome DEF CoreInv
  <2>5. TypeOK'
    BY <1>7, <2>1, <2>4 DEF LooseFill, CoreInv, TypeOK
  <2>6. Roles' /\ NotCreated' /\ ItemsLeft'
    BY <1>7, <2>1 DEF LooseFill, CoreInv, TypeOK, Roles, NotCreated, ItemsLeft
  <2> QED BY <2>4, <2>5, <2>6 DEF CoreInv
<1> QED
  BY <1>1, <1>2, <1>3, <1>4, <1>5, <1>6, <1>7 DEF LooseProducer

\* A step of a consumer.
LEMMA ConsumerCore ==
    ASSUME CoreInv, NEW id \in Consumers, LooseConsumer(id)
    PROVE  CoreInv'
<1> USE DEF Threads, Producers, Consumers, Main, Nobody, Awake, Go
<1> USE DEF bufferVars, syncVars, threadVars
<1>1. CASE ConsumerLock(id)
  <2>1. Ring'
    BY <1>1, QuietRing DEF CoreInv, ConsumerLock
  <2>2. TypeOK'
    BY <1>1 DEF ConsumerLock, CoreInv, TypeOK,
                  Mutex_lock
  <2>3. Roles' /\ NotCreated' /\ ItemsLeft'
    BY <1>1 DEF ConsumerLock, CoreInv, TypeOK, Roles, NotCreated, ItemsLeft
  <2> QED BY <2>1, <2>2, <2>3 DEF CoreInv
<1>2. CASE ConsumerTest(id)
  <2>1. Ring'
    BY <1>2, QuietRing DEF CoreInv, ConsumerTest
  <2>2. TypeOK'
    BY <1>2 DEF ConsumerTest, CoreInv, TypeOK
  <2>3. Roles' /\ NotCreated' /\ ItemsLeft'
    BY <1>2 DEF ConsumerTest, CoreInv, TypeOK, Roles, NotCreated, ItemsLeft
  <2> QED BY <2>1, <2>2, <2>3 DEF CoreInv
<1>3. CASE ConsumerWait(id)
  <2>1. Ring'
    BY <1>3, QuietRing DEF CoreInv, ConsumerWait
  <2>2. TypeOK'
    BY <1>3 DEF ConsumerWait, CoreInv, TypeOK,
                  Cond_wait
  <2>3. Roles' /\ NotCreated' /\ ItemsLeft'
    BY <1>3 DEF ConsumerWait, CoreInv, TypeOK, Roles, NotCreated, ItemsLeft
  <2> QED BY <2>1, <2>2, <2>3 DEF CoreInv
<1>4. CASE ConsumerWoken(id)
  <2>1. Ring'
    BY <1>4, QuietRing DEF CoreInv, ConsumerWoken
  <2>2. TypeOK'
    BY <1>4 DEF ConsumerWoken, CoreInv, TypeOK,
                  WaitReturns, Mutex_lock
  <2>3. Roles' /\ NotCreated' /\ ItemsLeft'
    BY <1>4 DEF ConsumerWoken, CoreInv, TypeOK, Roles, NotCreated, ItemsLeft
  <2> QED BY <2>1, <2>2, <2>3 DEF CoreInv
<1>5. CASE ConsumerSignal(id)
  <2>1. Ring'
    BY <1>5, QuietRing DEF CoreInv, ConsumerSignal
  <2>2. TypeOK'
    <3>1. waiting' \in [Threads -> {Awake, empty_cv, fill_cv}]
      <4> HIDE DEF Threads, Awake
      <4> QED BY <1>5, WokenType DEF ConsumerSignal, CoreInv, TypeOK
    <3> QED BY <1>5, <3>1 DEF ConsumerSignal, CoreInv, TypeOK, Cond_signal
  <2>3. Roles' /\ NotCreated' /\ ItemsLeft'
    BY <1>5 DEF ConsumerSignal, CoreInv, TypeOK, Roles, NotCreated, ItemsLeft
  <2> QED BY <2>1, <2>2, <2>3 DEF CoreInv
<1>6. CASE ConsumerUnlock(id)
  <2>1. Ring'
    BY <1>6, QuietRing DEF CoreInv, ConsumerUnlock
  <2>2. TypeOK'
    BY <1>6 DEF ConsumerUnlock, CoreInv, TypeOK,
                  Mutex_unlock
  <2>3. Roles' /\ NotCreated' /\ ItemsLeft'
    BY <1>6 DEF ConsumerUnlock, CoreInv, TypeOK, Roles, NotCreated, ItemsLeft
  <2> QED BY <2>1, <2>2, <2>3 DEF CoreInv
<1>7. CASE LooseGet(id)
  <2>1. /\ pc[id] \in {"get", "c3"} /\ pc' = IF exited' THEN pc ELSE [pc EXCEPT ![id] = "c4"]
        /\ do_get(id)
    BY <1>7 DEF LooseGet, GoUnlessExit
  <2>2. /\ Ring' /\ exited' \in BOOLEAN
        /\ buffer' \in [Slots -> Items \cup {EMPTY, END_OF_STREAM}]
        /\ use_ptr' \in Slots /\ fill_ptr' \in Slots /\ num_full' \in 0 .. max
        /\ tmp' \in [Consumers -> Items \cup {0, END_OF_STREAM}]
    BY <2>1, GetOutcome DEF CoreInv
  <2>3. TypeOK'
    BY <1>7, <2>1, <2>2 DEF LooseGet, CoreInv, TypeOK
  <2>4. Roles' /\ NotCreated' /\ ItemsLeft'
    BY <1>7, <2>1 DEF LooseGet, CoreInv, TypeOK, Roles, NotCreated, ItemsLeft
  <2> QED BY <2>2, <2>3, <2>4 DEF CoreInv
<1> QED
  BY <1>1, <1>2, <1>3, <1>4, <1>5, <1>6, <1>7 DEF LooseConsumer

\* A step of main.
LEMMA MainCore ==
    ASSUME CoreInv, MainNext(fill_cv, empty_cv)
    PROVE  CoreInv'
<1> USE DEF Threads, Producers, Consumers, Main, Nobody, Awake, Go
<1> USE DEF bufferVars, syncVars, threadVars
<1>1. CASE Create
  <2>1. Ring'
    BY <1>1, QuietRing DEF CoreInv, Create
  <2> DEFINE id == i[Main]
  <2>2. /\ id \in Producers \cup Consumers /\ id \in Threads /\ id # Main
        /\ pc[Main] = "create" /\ pc[id] = "unborn"
    BY <1>1 DEF Create, CoreInv, TypeOK, NotCreated
  <2>3. TypeOK'
    <3>1. pc' = [pc EXCEPT ![id] = IF id \in Producers THEN "p0" ELSE "c0"]
      BY <1>1 DEF Create
    <3>2. i' = [i EXCEPT ![Main] = id + 1] /\ id + 1 \in Nat
      BY <1>1, <2>2 DEF Create
    <3> QED BY <1>1, <2>2, <3>1, <3>2 DEF Create, CoreInv, TypeOK
  <2>4. Roles' /\ NotCreated' /\ ItemsLeft'
    <3>1. /\ pc' = [pc EXCEPT ![id] = IF id \in Producers THEN "p0" ELSE "c0"]
          /\ i' = [i EXCEPT ![Main] = id + 1]
      BY <1>1 DEF Create
    <3>2. Roles'
      BY <2>2, <3>1 DEF CoreInv, TypeOK, Roles
    <3>3. NotCreated'
      BY <2>2, <3>1 DEF CoreInv, TypeOK, NotCreated
    <3>4. ItemsLeft'
      BY <2>2, <3>1 DEF CoreInv, TypeOK, ItemsLeft
    <3> QED BY <3>2, <3>3, <3>4
  <2> QED BY <2>1, <2>3, <2>4 DEF CoreInv
<1>2. CASE Created
  <2>1. Ring'
    BY <1>2, QuietRing DEF CoreInv, Created
  <2>2. TypeOK'
    BY <1>2 DEF Created, CoreInv, TypeOK
  <2>3. Roles' /\ NotCreated' /\ ItemsLeft'
    BY <1>2 DEF Created, CoreInv, TypeOK, Roles, NotCreated, ItemsLeft
  <2> QED BY <2>1, <2>2, <2>3 DEF CoreInv
<1>3. CASE JoinProducers
  <2>1. Ring'
    BY <1>3, QuietRing DEF CoreInv, JoinProducers
  <2>2. TypeOK'
    BY <1>3 DEF JoinProducers, CoreInv, TypeOK
  <2>3. Roles' /\ NotCreated' /\ ItemsLeft'
    BY <1>3 DEF JoinProducers, CoreInv, TypeOK, Roles, NotCreated, ItemsLeft
  <2> QED BY <2>1, <2>2, <2>3 DEF CoreInv
<1>4. CASE EosLock
  <2>1. Ring'
    BY <1>4, QuietRing DEF CoreInv, EosLock
  <2>2. TypeOK'
    BY <1>4 DEF EosLock, CoreInv, TypeOK,
                  Mutex_lock
  <2>3. Roles' /\ NotCreated' /\ ItemsLeft'
    BY <1>4 DEF EosLock, CoreInv, TypeOK, Roles, NotCreated, ItemsLeft
  <2> QED BY <2>1, <2>2, <2>3 DEF CoreInv
<1>5. CASE EosTest
  <2>1. Ring'
    BY <1>5, QuietRing DEF CoreInv, EosTest
  <2>2. TypeOK'
    BY <1>5 DEF EosTest, CoreInv, TypeOK
  <2>3. Roles' /\ NotCreated' /\ ItemsLeft'
    BY <1>5 DEF EosTest, CoreInv, TypeOK, Roles, NotCreated, ItemsLeft
  <2> QED BY <2>1, <2>2, <2>3 DEF CoreInv
<1>6. CASE EosWait(empty_cv)
  <2>1. Ring'
    BY <1>6, QuietRing DEF CoreInv, EosWait
  <2>2. TypeOK'
    BY <1>6 DEF EosWait, CoreInv, TypeOK,
                  Cond_wait
  <2>3. Roles' /\ NotCreated' /\ ItemsLeft'
    BY <1>6 DEF EosWait, CoreInv, TypeOK, Roles, NotCreated, ItemsLeft
  <2> QED BY <2>1, <2>2, <2>3 DEF CoreInv
<1>7. CASE EosWoken
  <2>1. Ring'
    BY <1>7, QuietRing DEF CoreInv, EosWoken
  <2>2. TypeOK'
    BY <1>7 DEF EosWoken, CoreInv, TypeOK,
                  WaitReturns, Mutex_lock
  <2>3. Roles' /\ NotCreated' /\ ItemsLeft'
    BY <1>7 DEF EosWoken, CoreInv, TypeOK, Roles, NotCreated, ItemsLeft
  <2> QED BY <2>1, <2>2, <2>3 DEF CoreInv
<1>8. CASE EosSignal(fill_cv)
  <2>1. Ring'
    BY <1>8, QuietRing DEF CoreInv, EosSignal
  <2>2. TypeOK'
    <3>1. waiting' \in [Threads -> {Awake, empty_cv, fill_cv}]
      <4> HIDE DEF Threads, Awake
      <4> QED BY <1>8, WokenType DEF EosSignal, CoreInv, TypeOK
    <3> QED BY <1>8, <3>1 DEF EosSignal, CoreInv, TypeOK, Cond_signal
  <2>3. Roles' /\ NotCreated' /\ ItemsLeft'
    BY <1>8 DEF EosSignal, CoreInv, TypeOK, Roles, NotCreated, ItemsLeft
  <2> QED BY <2>1, <2>2, <2>3 DEF CoreInv
<1>9. CASE EosUnlock
  <2>1. Ring'
    BY <1>9, QuietRing DEF CoreInv, EosUnlock
  <2>2. TypeOK'
    BY <1>9 DEF EosUnlock, CoreInv, TypeOK,
                  Mutex_unlock
  <2>3. Roles' /\ NotCreated' /\ ItemsLeft'
    BY <1>9 DEF EosUnlock, CoreInv, TypeOK, Roles, NotCreated, ItemsLeft
  <2> QED BY <2>1, <2>2, <2>3 DEF CoreInv
<1>10. CASE JoinConsumers
  <2>1. Ring'
    BY <1>10, QuietRing DEF CoreInv, JoinConsumers
  <2>2. TypeOK'
    BY <1>10 DEF JoinConsumers, CoreInv, TypeOK
  <2>3. Roles' /\ NotCreated' /\ ItemsLeft'
    BY <1>10 DEF JoinConsumers, CoreInv, TypeOK, Roles, NotCreated, ItemsLeft
  <2> QED BY <2>1, <2>2, <2>3 DEF CoreInv
<1>11. CASE EosFill
  <2>1. /\ pc[Main] = "eos_fill" /\ pc' = IF exited' THEN pc ELSE [pc EXCEPT ![Main] = "eos_signal"]
        /\ do_fill(END_OF_STREAM)
    BY <1>11 DEF EosFill, GoUnlessExit
  <2>2. /\ Ring' /\ exited' \in BOOLEAN
        /\ buffer' \in [Slots -> Items \cup {EMPTY, END_OF_STREAM}]
        /\ use_ptr' \in Slots /\ fill_ptr' \in Slots /\ num_full' \in 0 .. max
    BY <2>1, FillOutcome DEF CoreInv
  <2>3. TypeOK'
    BY <1>11, <2>1, <2>2 DEF EosFill, CoreInv, TypeOK
  <2>4. Roles' /\ NotCreated' /\ ItemsLeft'
    BY <1>11, <2>1 DEF EosFill, CoreInv, TypeOK, Roles, NotCreated, ItemsLeft
  <2> QED BY <2>2, <2>3, <2>4 DEF CoreInv
<1> QED
  BY <1>1, <1>2, <1>3, <1>4, <1>5, <1>6, <1>7, <1>8, <1>9, <1>10, <1>11 DEF MainNext

\* Any step.
LEMMA LooseCore == CoreInv /\ [LooseNext]_vars => CoreInv'
<1> SUFFICES ASSUME CoreInv, [LooseNext]_vars PROVE CoreInv'
  OBVIOUS
<1>1. CASE LooseStep
  BY <1>1, MainCore, ProducerCore, ConsumerCore DEF LooseStep
<1>2. CASE \E t \in Threads : SpuriousWakeup(t)
  <2> PICK t \in Threads : SpuriousWakeup(t)
    BY <1>2
  <2>1. Ring'
    BY QuietRing DEF CoreInv, SpuriousWakeup
  <2>2. TypeOK'
    BY DEF CoreInv, TypeOK, SpuriousWakeup, bufferVars, threadVars
  <2>3. Roles' /\ NotCreated' /\ ItemsLeft'
    BY DEF CoreInv, Roles, NotCreated, ItemsLeft, SpuriousWakeup, bufferVars, threadVars
  <2> QED BY <2>1, <2>2, <2>3 DEF CoreInv
<1>3. CASE UNCHANGED vars
  BY <1>3 DEF CoreInv, TypeOK, Roles, NotCreated, ItemsLeft, Ring, InRing, vars, bufferVars, syncVars, threadVars
<1> QED BY <1>1, <1>2, <1>3 DEF LooseNext, Finished

-----------------------------------------------------------------------------
(* With the second test: m excludes, and what is tested still holds.       *)

\* A step of a producer.
LEMMA ProducerStep ==
    ASSUME IInv, CoreInv', NEW id \in Producers, producer(id)
    PROVE  (MutualExclusion /\ TestHolds /\ EnsureHolds)'
<1> USE DEF Threads, Producers, Consumers, Main, Nobody, Awake, Go
<1> USE DEF bufferVars, syncVars, threadVars
<1>c. CoreInv /\ MutualExclusion /\ TestHolds /\ EnsureHolds
  BY DEF IInv, CoreInv
<1>1. CASE ProducerLock(id)
  BY <1>c, <1>1 DEF ProducerLock, CoreInv, TypeOK, Roles, MutualExclusion, TestHolds, EnsureHolds, Critical,
                  Mutex_lock
<1>2. CASE ProducerTest(id)
  BY <1>c, <1>2 DEF ProducerTest, CoreInv, TypeOK, Roles, MutualExclusion, TestHolds, EnsureHolds, Critical
<1>3. CASE ProducerWait(id)
  BY <1>c, <1>3 DEF ProducerWait, CoreInv, TypeOK, Roles, MutualExclusion, TestHolds, EnsureHolds, Critical,
                  Cond_wait
<1>4. CASE ProducerWoken(id)
  BY <1>c, <1>4 DEF ProducerWoken, CoreInv, TypeOK, Roles, MutualExclusion, TestHolds, EnsureHolds, Critical,
                  WaitReturns, Mutex_lock
<1>5. CASE ProducerSignal(id)
  BY <1>c, <1>5 DEF ProducerSignal, CoreInv, TypeOK, Roles, MutualExclusion, TestHolds, EnsureHolds, Critical,
                  Cond_signal
<1>6. CASE ProducerUnlock(id)
  BY <1>c, <1>6 DEF ProducerUnlock, CoreInv, TypeOK, Roles, MutualExclusion, TestHolds, EnsureHolds, Critical,
                  Mutex_unlock
<1>7. CASE ProducerFill(id)
  <2>1. pc[id] = "fill" /\ num_full # max
    BY <1>c, <1>7 DEF ProducerFill, GoUnlessExit, CoreInv, TypeOK, TestHolds
  <2>2. exited' = FALSE
    BY <1>c, <1>7, <2>1, FillIfFree DEF ProducerFill, CoreInv
  <2>3. pc' = [pc EXCEPT ![id] = "p4"]
    BY <1>7, <2>2 DEF ProducerFill, GoUnlessExit
  <2> QED
    BY <1>c, <1>7, <2>1, <2>2, <2>3 DEF ProducerFill, CoreInv, TypeOK, Roles, MutualExclusion, TestHolds,
                EnsureHolds, Critical
<1> QED
  BY <1>1, <1>2, <1>3, <1>4, <1>5, <1>6, <1>7 DEF producer

\* A step of a consumer.
LEMMA ConsumerStep ==
    ASSUME IInv, CoreInv', NEW id \in Consumers, consumer(id)
    PROVE  (MutualExclusion /\ TestHolds /\ EnsureHolds)'
<1> USE DEF Threads, Producers, Consumers, Main, Nobody, Awake, Go
<1> USE DEF bufferVars, syncVars, threadVars
<1>c. CoreInv /\ MutualExclusion /\ TestHolds /\ EnsureHolds
  BY DEF IInv, CoreInv
<1>1. CASE ConsumerLock(id)
  BY <1>c, <1>1 DEF ConsumerLock, CoreInv, TypeOK, Roles, MutualExclusion, TestHolds, EnsureHolds, Critical,
                  Mutex_lock
<1>2. CASE ConsumerTest(id)
  BY <1>c, <1>2 DEF ConsumerTest, CoreInv, TypeOK, Roles, MutualExclusion, TestHolds, EnsureHolds, Critical
<1>3. CASE ConsumerWait(id)
  BY <1>c, <1>3 DEF ConsumerWait, CoreInv, TypeOK, Roles, MutualExclusion, TestHolds, EnsureHolds, Critical,
                  Cond_wait
<1>4. CASE ConsumerWoken(id)
  BY <1>c, <1>4 DEF ConsumerWoken, CoreInv, TypeOK, Roles, MutualExclusion, TestHolds, EnsureHolds, Critical,
                  WaitReturns, Mutex_lock
<1>5. CASE ConsumerSignal(id)
  BY <1>c, <1>5 DEF ConsumerSignal, CoreInv, TypeOK, Roles, MutualExclusion, TestHolds, EnsureHolds, Critical,
                  Cond_signal
<1>6. CASE ConsumerUnlock(id)
  BY <1>c, <1>6 DEF ConsumerUnlock, CoreInv, TypeOK, Roles, MutualExclusion, TestHolds, EnsureHolds, Critical,
                  Mutex_unlock
<1>7. CASE ConsumerGet(id)
  <2>1. pc[id] = "get" /\ num_full # 0
    BY <1>c, <1>7 DEF ConsumerGet, GoUnlessExit, CoreInv, TypeOK, TestHolds
  <2>2. exited' = FALSE
    BY <1>c, <1>7, <2>1, GetIfFilled DEF ConsumerGet, CoreInv
  <2>3. pc' = [pc EXCEPT ![id] = "c4"]
    BY <1>7, <2>2 DEF ConsumerGet, GoUnlessExit
  <2> QED
    BY <1>c, <1>7, <2>1, <2>2, <2>3 DEF ConsumerGet, CoreInv, TypeOK, Roles, MutualExclusion, TestHolds,
                EnsureHolds, Critical
<1> QED
  BY <1>1, <1>2, <1>3, <1>4, <1>5, <1>6, <1>7 DEF consumer

\* A step of main.
LEMMA MainStep ==
    ASSUME IInv, CoreInv', MainNext(fill_cv, empty_cv)
    PROVE  (MutualExclusion /\ TestHolds /\ EnsureHolds)'
<1> USE DEF Threads, Producers, Consumers, Main, Nobody, Awake, Go
<1> USE DEF bufferVars, syncVars, threadVars
<1>c. CoreInv /\ MutualExclusion /\ TestHolds /\ EnsureHolds
  BY DEF IInv, CoreInv
<1>1. CASE Create
  <2> DEFINE id == i[Main]
  <2>1. id \in Producers \cup Consumers /\ id \in Threads /\ id # Main /\ pc[id] = "unborn"
    BY <1>c, <1>1 DEF Create, CoreInv, TypeOK, NotCreated
  <2>2. /\ pc' = [pc EXCEPT ![id] = IF id \in Producers THEN "p0" ELSE "c0"]
        /\ mutex' = mutex /\ num_full' = num_full /\ exited' = exited
    BY <1>1 DEF Create
  <2> HIDE DEF Threads, Producers, Consumers, Main
  <2> QED BY <1>c, <2>1, <2>2 DEF CoreInv, TypeOK, MutualExclusion, TestHolds, EnsureHolds, Critical
<1>2. CASE Created
  BY <1>c, <1>2 DEF Created, CoreInv, TypeOK, Roles, MutualExclusion, TestHolds, EnsureHolds, Critical
<1>3. CASE JoinProducers
  BY <1>c, <1>3 DEF JoinProducers, CoreInv, TypeOK, Roles, MutualExclusion, TestHolds, EnsureHolds, Critical
<1>4. CASE EosLock
  BY <1>c, <1>4 DEF EosLock, CoreInv, TypeOK, Roles, MutualExclusion, TestHolds, EnsureHolds, Critical,
                  Mutex_lock
<1>5. CASE EosTest
  BY <1>c, <1>5 DEF EosTest, CoreInv, TypeOK, Roles, MutualExclusion, TestHolds, EnsureHolds, Critical
<1>6. CASE EosWait(empty_cv)
  BY <1>c, <1>6 DEF EosWait, CoreInv, TypeOK, Roles, MutualExclusion, TestHolds, EnsureHolds, Critical,
                  Cond_wait
<1>7. CASE EosWoken
  BY <1>c, <1>7 DEF EosWoken, CoreInv, TypeOK, Roles, MutualExclusion, TestHolds, EnsureHolds, Critical,
                  WaitReturns, Mutex_lock
<1>8. CASE EosSignal(fill_cv)
  BY <1>c, <1>8 DEF EosSignal, CoreInv, TypeOK, Roles, MutualExclusion, TestHolds, EnsureHolds, Critical,
                  Cond_signal
<1>9. CASE EosUnlock
  BY <1>c, <1>9 DEF EosUnlock, CoreInv, TypeOK, Roles, MutualExclusion, TestHolds, EnsureHolds, Critical,
                  Mutex_unlock
<1>10. CASE JoinConsumers
  BY <1>c, <1>10 DEF JoinConsumers, CoreInv, TypeOK, Roles, MutualExclusion, TestHolds, EnsureHolds, Critical
<1>11. CASE EosFill
  <2>1. pc[Main] = "eos_fill" /\ num_full # max
    BY <1>c, <1>11 DEF EosFill, GoUnlessExit, CoreInv, TypeOK, TestHolds
  <2>2. exited' = FALSE
    BY <1>c, <1>11, <2>1, FillIfFree DEF EosFill, CoreInv
  <2>3. pc' = [pc EXCEPT ![Main] = "eos_signal"]
    BY <1>11, <2>2 DEF EosFill, GoUnlessExit
  <2> QED
    BY <1>c, <1>11, <2>1, <2>2, <2>3 DEF EosFill, CoreInv, TypeOK, Roles, MutualExclusion, TestHolds,
                EnsureHolds, Critical
<1> QED
  BY <1>1, <1>2, <1>3, <1>4, <1>5, <1>6, <1>7, <1>8, <1>9, <1>10, <1>11 DEF MainNext

\* No step of any thread breaks the invariant, for any number of threads,
\* items, slots and spurious wakeups.
THEOREM Invariance == Spec => []IInv
<1>1. IInv /\ [Next]_vars => IInv'
  <2> SUFFICES ASSUME IInv, [Next]_vars PROVE IInv'
    OBVIOUS
  <2>1. CoreInv'
    BY LooseCore, StepsAreLoose DEF IInv, CoreInv
  <2>2. (MutualExclusion /\ TestHolds /\ EnsureHolds)'
    <3>1. CASE Step
      BY <2>1, <3>1, MainStep, ProducerStep, ConsumerStep DEF Step
    <3>2. CASE \E t \in Threads : SpuriousWakeup(t)
      BY <3>2 DEF IInv, MutualExclusion, TestHolds, EnsureHolds, SpuriousWakeup, bufferVars
    <3>3. CASE UNCHANGED vars
      BY <3>3 DEF IInv, MutualExclusion, TestHolds, EnsureHolds, vars, bufferVars, syncVars
    <3> QED BY <3>1, <3>2, <3>3 DEF Next, Finished
  <2> QED BY <2>1, <2>2 DEF IInv, CoreInv
<1> QED BY InitInv, <1>1, PTL DEF Spec

\* Every variable keeps to its type: in particular the two indices stay in the
\* buffer and num_full between 0 and max.
THEOREM TypeCorrect == Spec => []TypeOK
BY Invariance, PTL DEF IInv

\* m excludes, through every wait and wakeup.
THEOREM Exclusion == Spec => []MutualExclusion
BY Invariance, PTL DEF IInv

\* The ring and its count agree after every step.
THEOREM RingCorrect == Spec => []Ring
BY Invariance, PTL DEF IInv

\* No check of do_fill or do_get fails: the program never exits with
\* "error: tried to fill a non-empty buffer" or "... get an empty buffer".
THEOREM ChecksHold == Spec => []EnsureHolds
BY Invariance, PTL DEF IInv

-----------------------------------------------------------------------------
(* The program is a queue: how far each thread has got, ...                *)

\* A consumer that has taken END_OF_STREAM takes nothing more, a producer returns
\* when it has put all its items, and main puts END_OF_STREAMs only then, one for
\* each consumer.
Progress ==
    /\ \A c \in Consumers : tmp[c] = END_OF_STREAM => pc[c] \in {"c4", "c5", "done"}
    /\ \A p \in Producers : pc[p] = "done" => i[p] = loops
    /\ pc[Main] = "join_producers" => i[Main] = 0
    /\ pc[Main] \notin {"create", "join_producers"} => \A p \in Producers : pc[p] = "done"
    /\ pc[Main] \in {"eos_lock", "eos_test", "eos_wait", "wait", "eos_fill", "eos_signal",
                     "eos_unlock"} => i[Main] < consumers

LEMMA ProducerProgress ==
    ASSUME CoreInv, Progress, NEW id \in Producers, LooseProducer(id)
    PROVE  Progress'
<1> USE DEF Threads, Producers, Consumers, Main, Go, GoUnlessExit
<1> USE DEF bufferVars, syncVars, threadVars, CoreInv, TypeOK, Roles, ItemsLeft, Progress
<1>1. pc[Main] \in {"create", "join_producers"}
  BY DEF LooseProducer, ProducerLock, ProducerTest, ProducerWait, ProducerWoken, LooseFill,
         ProducerSignal, ProducerUnlock
<1>2. CASE ProducerLock(id) \/ ProducerTest(id) \/ ProducerWait(id) \/ ProducerWoken(id)
           \/ LooseFill(id) \/ ProducerSignal(id)
  <2>1. UNCHANGED <<i, tmp>> /\ pc'[id] # "done" /\ \A t \in Threads \ {id} : pc'[t] = pc[t]
    BY <1>2 DEF ProducerLock, ProducerTest, ProducerWait, ProducerWoken, LooseFill, ProducerSignal
  <2>2. Main \in Threads \ {id} /\ Consumers \subseteq Threads \ {id} /\ Producers \subseteq Threads
    OBVIOUS
  <2> QED
    <3> HIDE DEF Threads, Producers, Consumers, Main
    <3> QED BY <1>1, <2>1, <2>2
<1>4. CASE ProducerUnlock(id)
  <2>1. /\ pc[id] = "p5" /\ pc' = [pc EXCEPT ![id] = IF i[id] + 1 < loops THEN "p0" ELSE "done"]
        /\ i' = [i EXCEPT ![id] = i[id] + 1] /\ UNCHANGED tmp
    BY <1>4 DEF ProducerUnlock
  <2>2. i[id] \in Nat /\ i[id] < loops /\ id # Main /\ id \notin Consumers
    BY <2>1
  <2>3. \A p \in Producers : pc'[p] = "done" => i'[p] = loops
    BY <2>1, <2>2
  <2>4. i'[Main] = i[Main] /\ pc'[Main] = pc[Main] /\ \A c \in Consumers : pc'[c] = pc[c]
    BY <2>1, <2>2
  <2> QED BY <1>1, <2>1, <2>3, <2>4
<1> QED
  BY <1>2, <1>4 DEF LooseProducer

LEMMA ConsumerProgress ==
    ASSUME CoreInv, Progress, NEW id \in Consumers, LooseConsumer(id)
    PROVE  Progress'
<1> USE DEF Threads, Producers, Consumers, Main, Go, GoUnlessExit
<1> USE DEF bufferVars, syncVars, threadVars, CoreInv, TypeOK, Roles, Progress
<1>1. CASE ConsumerLock(id) \/ ConsumerTest(id) \/ ConsumerWait(id) \/ ConsumerWoken(id)
  <2>1. /\ UNCHANGED <<i, tmp>> /\ pc[id] \notin {"c4", "c5", "done"}
        /\ \A t \in Threads \ {id} : pc'[t] = pc[t]
    BY <1>1 DEF ConsumerLock, ConsumerTest, ConsumerWait, ConsumerWoken
  <2>2. Main \in Threads \ {id} /\ Producers \subseteq Threads \ {id} /\ Consumers \subseteq Threads
    OBVIOUS
  <2> QED
    <3> HIDE DEF Threads, Producers, Consumers, Main
    <3> QED BY <2>1, <2>2
<1>2. CASE LooseGet(id)
  <2>1. /\ pc[id] \in {"get", "c3"} /\ do_get(id) /\ i' = i
        /\ pc' = IF exited' THEN pc ELSE [pc EXCEPT ![id] = "c4"]
    BY <1>2 DEF LooseGet
  <2>2. CASE exited'
    BY <2>1, <2>2, GetOutcome
  <2>3. CASE ~exited'
    <3>1. \A c \in Consumers \ {id} : tmp'[c] = tmp[c]
      BY <2>1 DEF do_get
    <3> QED BY <2>1, <2>3, <3>1
  <2> QED BY <2>2, <2>3
<1>3. CASE ConsumerSignal(id)
  BY <1>3 DEF ConsumerSignal
<1>4. CASE ConsumerUnlock(id)
  BY <1>4 DEF ConsumerUnlock
<1> QED
  BY <1>1, <1>2, <1>3, <1>4 DEF LooseConsumer

LEMMA MainProgress ==
    ASSUME CoreInv, Progress, MainNext(fill_cv, empty_cv)
    PROVE  Progress'
<1> USE DEF Threads, Producers, Consumers, Main, Go, GoUnlessExit
<1> USE DEF bufferVars, syncVars, threadVars, CoreInv, TypeOK, Roles, Progress
<1>1. CASE Create
  <2> DEFINE id == i[Main]
  <2>1. /\ id \in Producers \cup Consumers /\ pc[Main] = "create" /\ pc[id] = "unborn"
        /\ pc' = [pc EXCEPT ![id] = IF id \in Producers THEN "p0" ELSE "c0"]
        /\ i' = [i EXCEPT ![Main] = id + 1] /\ tmp' = tmp
    BY <1>1 DEF Create, NotCreated
  <2> QED BY <2>1
<1>2. CASE Created
  BY <1>2 DEF Created
<1>3. CASE JoinProducers
  BY <1>3 DEF JoinProducers
<1>4. CASE EosLock \/ EosTest \/ EosWait(empty_cv) \/ EosWoken \/ EosFill \/ EosSignal(fill_cv)
  BY <1>4 DEF EosLock, EosTest, EosWait, EosWoken, EosFill, EosSignal
<1>5. CASE EosUnlock
  BY <1>5 DEF EosUnlock
<1>6. CASE JoinConsumers
  BY <1>6 DEF JoinConsumers
<1> QED
  BY <1>1, <1>2, <1>3, <1>4, <1>5, <1>6 DEF MainNext

LEMMA LooseProgress == CoreInv /\ Progress /\ [LooseNext]_vars => Progress'
<1> SUFFICES ASSUME CoreInv, Progress, [LooseNext]_vars PROVE Progress'
  OBVIOUS
<1>1. CASE LooseStep
  BY <1>1, MainProgress, ProducerProgress, ConsumerProgress DEF LooseStep
<1>2. CASE \E t \in Threads : SpuriousWakeup(t)
  BY <1>2 DEF SpuriousWakeup, threadVars, Progress
<1>3. CASE UNCHANGED vars
  BY <1>3 DEF vars, threadVars, Progress
<1> QED BY <1>1, <1>2, <1>3 DEF LooseNext, Finished

LEMMA InitProgress == Init => Progress
BY DEF Init, Progress, Threads, Main, Producers, Consumers, END_OF_STREAM

-----------------------------------------------------------------------------
(* ... and what each does to the queue.                                    *)

Values == Items \cup {EMPTY, END_OF_STREAM}

\* The slot of the kth value in the queue.
LEMMA QueueSlot ==
    \A x \in 0 .. 2 * max - 1 : x % max = IF x < max THEN x ELSE x - max
BY SMT

QueueShape ==
    /\ Queue \in Seq(Values) /\ Len(Queue) = num_full
    /\ \A k \in 1 .. num_full : Queue[k] = buffer[(use_ptr + k - 1) % max]

LEMMA QueueIsSeq == TypeOK => QueueShape
<1> SUFFICES ASSUME TypeOK PROVE QueueShape
  OBVIOUS
<1>1. num_full \in Nat
  BY DEF TypeOK
<1>2. ASSUME NEW k \in 1 .. num_full PROVE (use_ptr + k - 1) % max \in Slots
  BY QueueSlot DEF TypeOK, Slots
<1>3. Queue \in [1 .. num_full -> Values]
  BY <1>2 DEF Queue, TypeOK, Values
<1>4. Queue \in Seq(Values)
  BY <1>1, <1>3, SeqDef
<1> QED
  BY <1>1, <1>3, <1>4, LenProperties DEF Queue, QueueShape

\* do_fill appends.
LEMMA FillAppends ==
    ASSUME TypeOK, Ring, num_full # max, TypeOK',
           NEW value \in Items \cup {END_OF_STREAM}, do_fill(value)
    PROVE  Queue' = Append(Queue, value)
<1>1. /\ buffer' = [buffer EXCEPT ![fill_ptr] = value]
      /\ num_full' = num_full + 1 /\ use_ptr' = use_ptr
  BY FillKeepsRing, SMT DEF do_fill, TypeOK, Ring, InRing, Slots
<1>2. use_ptr \in 0 .. max - 1 /\ num_full \in 0 .. max - 1 /\ fill_ptr \in Slots
  BY DEF TypeOK, Slots
<1>3. ASSUME NEW k \in 1 .. num_full + 1
      PROVE  /\ (use_ptr + k - 1) % max \in Slots
             /\ (use_ptr + k - 1) % max = fill_ptr <=> k = num_full + 1
  <2> DEFINE x == use_ptr + k - 1
             y == use_ptr + num_full
  <2>1. max \in Nat \ {0} /\ x \in 0 .. y /\ y \in 0 .. 2 * max - 1 /\ y - x < max /\ (x = y <=> k = num_full + 1)
    BY <1>2
  <2>2. fill_ptr = IF y < max THEN y ELSE y - max
    BY <1>2 DEF Ring, Slots
  <2> HIDE DEF x, y
  <2>3. x % max = IF x < max THEN x ELSE x - max
    BY <2>1, QueueSlot
  <2>4. x % max \in Slots /\ (x % max = fill_ptr <=> x = y)
    BY <2>1, <2>2, <2>3 DEF Slots
  <2> QED BY <2>1, <2>2, <2>4 DEF x
<1>s. QueueShape /\ QueueShape'
  BY QueueIsSeq, PTL
<1>4. /\ Queue \in Seq(Values) /\ value \in Values /\ Queue' \in Seq(Values)
      /\ Len(Queue) = num_full /\ Len(Queue') = num_full + 1
  BY <1>1, <1>s DEF QueueShape, Values
<1>5. /\ Append(Queue, value) \in Seq(Values)
      /\ Len(Append(Queue, value)) = num_full + 1
      /\ \A k \in 1 .. num_full : Append(Queue, value)[k] = Queue[k]
      /\ Append(Queue, value)[num_full + 1] = value
  BY <1>4, AppendProperties
<1>6. ASSUME NEW k \in 1 .. num_full + 1 PROVE Queue'[k] = Append(Queue, value)[k]
  <2>1. Queue'[k] = buffer'[(use_ptr + k - 1) % max]
    BY <1>1, <1>6, <1>s DEF QueueShape
  <2>2. CASE k = num_full + 1
    <3>1. (use_ptr + k - 1) % max = fill_ptr
      BY <1>3, <1>6, <2>2
    <3>2. buffer'[fill_ptr] = value
      BY <1>1, <1>2 DEF TypeOK
    <3> QED BY <1>5, <2>1, <2>2, <3>1, <3>2
  <2>3. CASE k \in 1 .. num_full
    <3>0. k # num_full + 1
      BY <1>2, <2>3
    <3>1. (use_ptr + k - 1) % max \in Slots \ {fill_ptr}
      BY <1>3, <3>0
    <3>2. buffer'[(use_ptr + k - 1) % max] = buffer[(use_ptr + k - 1) % max]
      BY <1>1, <3>1 DEF TypeOK
    <3> QED BY <1>5, <1>s, <2>1, <2>3, <3>2 DEF QueueShape
  <2>4. k \in 1 .. num_full \/ k = num_full + 1
    BY <1>2
  <2> QED BY <2>2, <2>3, <2>4
<1> QED
  BY <1>4, <1>5, <1>6, SeqEqual

\* do_get takes the head.
LEMMA GetTakesHead ==
    ASSUME TypeOK, Ring, num_full # 0, TypeOK', NEW t \in Consumers, do_get(t)
    PROVE  /\ Queue # << >> /\ Queue' = Tail(Queue)
           /\ tmp' = [tmp EXCEPT ![t] = Head(Queue)]
<1>1. /\ tmp' = [tmp EXCEPT ![t] = buffer[use_ptr]]
      /\ buffer' = [buffer EXCEPT ![use_ptr] = EMPTY]
      /\ num_full' = num_full - 1 /\ use_ptr' = (use_ptr + 1) % max
  BY GetKeepsRing DEF do_get
<1>2. use_ptr \in 0 .. max - 1 /\ num_full \in 1 .. max /\ use_ptr \in Slots
  BY DEF TypeOK, Slots
<1>s. QueueShape /\ QueueShape'
  BY QueueIsSeq, PTL
<1>3. /\ Queue \in Seq(Values) /\ Len(Queue) = num_full /\ Queue # << >>
      /\ Queue[1] = buffer[use_ptr]
  <2>1. (use_ptr + 1 - 1) % max = use_ptr
    BY <1>2, QueueSlot
  <2>2. Queue \in Seq(Values) /\ Len(Queue) = num_full
    BY <1>s DEF QueueShape
  <2>3. Queue # << >>
    BY <1>2, <2>2, EmptySeq
  <2>4. 1 \in 1 .. num_full /\ use_ptr + 1 - 1 = use_ptr
    BY <1>2
  <2>5. Queue[1] = buffer[(use_ptr + 1 - 1) % max]
    BY <1>s, <2>4 DEF QueueShape
  <2> QED BY <2>1, <2>2, <2>3, <2>5
<1>4. /\ Tail(Queue) \in Seq(Values) /\ Len(Tail(Queue)) = num_full - 1
      /\ \A k \in 1 .. num_full - 1 : Tail(Queue)[k] = Queue[k + 1]
  BY <1>3, HeadTailProperties
<1>5. Queue' \in Seq(Values) /\ Len(Queue') = num_full - 1
  BY <1>1, <1>s DEF QueueShape
<1>6. ASSUME NEW k \in 1 .. num_full - 1 PROVE Queue'[k] = Tail(Queue)[k]
  <2>1. Queue'[k] = buffer'[(use_ptr' + k - 1) % max]
    BY <1>1, <1>6, <1>s DEF QueueShape
  <2>2. (use_ptr' + k - 1) % max = (use_ptr + k) % max
    BY <1>1, <1>2, QueueSlot
  <2>3. (use_ptr + k) % max \in Slots /\ (use_ptr + k) % max # use_ptr
    BY <1>2, QueueSlot DEF Slots
  <2>4. Queue[k + 1] = buffer[(use_ptr + k) % max]
    <3>1. k + 1 \in 1 .. num_full /\ use_ptr + (k + 1) - 1 = use_ptr + k
      BY <1>2
    <3> QED BY <1>s, <3>1 DEF QueueShape
  <2> QED
    BY <1>1, <1>2, <1>4, <2>1, <2>2, <2>3, <2>4 DEF TypeOK
<1>7. Queue' = Tail(Queue)
  BY <1>4, <1>5, <1>6, SeqEqual
<1>8. Head(Queue) = buffer[use_ptr]
  BY <1>3
<1> QED
  BY <1>1, <1>3, <1>7, <1>8

qVars == <<Queue, PutBy, Eos, Taken, Stopped>>

\* A step of a producer puts an item or leaves the queue alone.
LEMMA ProducerPuts ==
    ASSUME CoreInv, CoreInv', Progress, NEW id \in Producers, LooseProducer(id)
    PROVE  Q!Put(id) \/ UNCHANGED qVars
<1> USE DEF Main, Go
<1> USE DEF bufferVars, syncVars, threadVars, CoreInv
<1>a. /\ TypeOK /\ pc[Main] \in {"create", "join_producers"} /\ id \in Threads /\ id # Main
      /\ \A c \in Consumers : c # id
  BY DEF LooseProducer, ProducerLock, ProducerTest, ProducerWait, ProducerWoken, LooseFill,
         ProducerSignal, ProducerUnlock, Progress, GoUnlessExit, Threads, Producers, Consumers
<1>b. pc'[Main] = pc[Main] /\ UNCHANGED <<tmp, consumed_count>> /\ \A c \in Consumers : pc'[c] = pc[c]
  <2>1. UNCHANGED <<tmp, consumed_count>> /\ \A t \in Threads \ {id} : pc'[t] = pc[t]
    BY <1>a DEF LooseProducer, ProducerLock, ProducerTest, ProducerWait, ProducerWoken, LooseFill,
           ProducerSignal, ProducerUnlock, GoUnlessExit, TypeOK
  <2> QED BY <1>a, <2>1 DEF Threads
<1>c. UNCHANGED <<Eos, Taken, Stopped>>
  BY <1>a, <1>b DEF Eos, Taken, Stopped, Sent
<1>1. CASE ProducerLock(id) \/ ProducerTest(id) \/ ProducerWait(id) \/ ProducerWoken(id) \/ ProducerSignal(id)
  <2>1. UNCHANGED Queue
    BY <1>1 DEF ProducerLock, ProducerTest, ProducerWait, ProducerWoken, ProducerSignal, Queue
  <2>2. /\ i' = i /\ \A p \in Producers \ {id} : pc'[p] = pc[p]
        /\ pc[id] \in {"p4", "p5"} <=> pc'[id] \in {"p4", "p5"}
    BY <1>1, <1>a DEF ProducerLock, ProducerTest, ProducerWait, ProducerWoken, ProducerSignal,
                TypeOK, Threads
  <2>3. UNCHANGED PutBy
    BY <2>2 DEF PutBy, Sent
  <2> QED BY <1>c, <2>1, <2>3 DEF qVars
<1>2. CASE ProducerUnlock(id)
  <2>1. UNCHANGED Queue
    BY <1>2 DEF ProducerUnlock, Queue
  <2>2. ASSUME NEW p \in Producers PROVE Sent(p, {"p4", "p5"})' = Sent(p, {"p4", "p5"})
    BY <1>2, <1>a DEF ProducerUnlock, Sent, TypeOK, Producers, Threads
  <2>3. UNCHANGED PutBy
    BY <2>2 DEF PutBy
  <2> QED BY <1>c, <2>1, <2>3 DEF qVars
<1>3. CASE LooseFill(id) /\ exited'
  <2>1. pc' = pc /\ i' = i /\ do_fill(Item(id, i[id])) /\ pc[id] \in {"fill", "p3"}
    BY <1>3 DEF LooseFill, GoUnlessExit
  <2>2. UNCHANGED Queue
    BY <1>3, <2>1 DEF do_fill, Queue
  <2>3. UNCHANGED PutBy
    BY <2>1 DEF PutBy, Sent
  <2> QED BY <1>c, <2>2, <2>3 DEF qVars
<1>4. CASE LooseFill(id) /\ ~exited'
  <2>0. pc[id] \in {"fill", "p3"} /\ i[id] \in 0 .. loops - 1
    BY <1>4, <1>a DEF LooseFill, GoUnlessExit, TypeOK, ItemsLeft, Producers
  <2>2. do_fill(Item(id, i[id])) /\ Item(id, i[id]) \in Items
    BY <1>4, <2>0, ItemRange DEF LooseFill
  <2>1. num_full # max
    BY <1>4, <2>2, FillOutcome
  <2>3. Queue' = Append(Queue, Item(id, i[id]))
    BY <2>1, <2>2, FillAppends
  <2>4. pc' = [pc EXCEPT ![id] = "p4"] /\ i' = i
    BY <1>4 DEF LooseFill, GoUnlessExit
  <2>5. PutBy[id] = i[id] /\ PutBy' = [PutBy EXCEPT ![id] = @ + 1]
    <3>1. /\ pc'[id] = "p4" /\ \A p \in Producers \ {id} : pc'[p] = pc[p]
          /\ i[id] \in Int
      BY <1>a, <2>0, <2>4 DEF TypeOK, Threads
    <3>2. \A p \in Producers : PutBy'[p] = IF p = id THEN PutBy[p] + 1 ELSE PutBy[p]
      BY <2>0, <2>4, <3>1 DEF PutBy, Sent
    <3>3. PutBy = [p \in Producers |-> PutBy[p]] /\ PutBy' = [p \in Producers |-> PutBy'[p]]
      BY DEF PutBy
    <3>4. PutBy[id] = i[id]
      BY <2>0 DEF PutBy, Sent
    <3>5. [PutBy EXCEPT ![id] = @ + 1]
            = [p \in Producers |-> IF p = id THEN PutBy[p] + 1 ELSE PutBy[p]]
      BY <3>3
    <3> QED BY <3>2, <3>3, <3>4, <3>5
  <2>6. Len(Queue) < max
    BY <1>a, <2>1, QueueIsSeq DEF QueueShape, TypeOK
  <2> QED
    BY <1>c, <2>0, <2>3, <2>5, <2>6 DEF Q!Put, Item
<1> QED
  BY <1>1, <1>2, <1>3, <1>4 DEF LooseProducer

\* A step of a consumer takes the head or leaves the queue alone.
LEMMA ConsumerGets ==
    ASSUME CoreInv, CoreInv', Progress, NEW id \in Consumers, LooseConsumer(id)
    PROVE  Q!Get(id) \/ UNCHANGED qVars
<1> USE DEF Main, Go
<1> USE DEF bufferVars, syncVars, threadVars, CoreInv
<1>a. TypeOK /\ id \in Threads /\ id # Main /\ Main \in Threads /\ \A p \in Producers : p # id /\ p \in Threads
  BY DEF Threads, Producers, Consumers
<1>b. UNCHANGED i /\ pc'[Main] = pc[Main] /\ \A p \in Producers : pc'[p] = pc[p]
  BY <1>a DEF LooseConsumer, ConsumerLock, ConsumerTest, ConsumerWait, ConsumerWoken, LooseGet,
         ConsumerSignal, ConsumerUnlock, GoUnlessExit, TypeOK
<1>c. UNCHANGED <<PutBy, Eos>>
  BY <1>b DEF PutBy, Eos, Sent
<1>1. CASE ConsumerLock(id) \/ ConsumerTest(id) \/ ConsumerWait(id) \/ ConsumerWoken(id) \/ ConsumerSignal(id)
  <2>1. UNCHANGED <<Queue, Stopped>>
    BY <1>1 DEF ConsumerLock, ConsumerTest, ConsumerWait, ConsumerWoken, ConsumerSignal, Queue, Stopped
  <2>2. UNCHANGED Taken
    BY <1>1, <1>a, <2>1 DEF ConsumerLock, ConsumerTest, ConsumerWait, ConsumerWoken, ConsumerSignal,
                Taken, TypeOK, Threads
  <2> QED BY <1>c, <2>1, <2>2 DEF qVars
<1>2. CASE ConsumerUnlock(id)
  <2>1. UNCHANGED <<Queue, Stopped>>
    BY <1>2 DEF ConsumerUnlock, Queue, Stopped
  <2>2. UNCHANGED Taken
    BY <1>2, <1>a, <2>1 DEF ConsumerUnlock, Taken, TypeOK, Threads
  <2> QED BY <1>c, <2>1, <2>2 DEF qVars
<1>3. CASE LooseGet(id) /\ exited'
  <2>1. pc' = pc /\ UNCHANGED consumed_count /\ do_get(id)
    BY <1>3 DEF LooseGet, GoUnlessExit
  <2>2. UNCHANGED <<bufferVars, tmp>>
    BY <1>3, <2>1 DEF do_get
  <2>3. UNCHANGED <<Queue, Stopped>>
    BY <2>2 DEF Queue, Stopped
  <2>4. UNCHANGED Taken
    BY <2>1, <2>3 DEF Taken
  <2> QED BY <1>c, <2>3, <2>4 DEF qVars
<1>4. CASE LooseGet(id) /\ ~exited'
  <2>0. pc[id] \in {"get", "c3"} /\ do_get(id)
    BY <1>4 DEF LooseGet, GoUnlessExit
  <2>1. num_full # 0
    BY <1>4, <2>0, GetOutcome
  <2>2. /\ Queue # << >> /\ Queue' = Tail(Queue)
        /\ tmp' = [tmp EXCEPT ![id] = Head(Queue)]
    BY <2>0, <2>1, GetTakesHead
  <2>3. pc' = [pc EXCEPT ![id] = "c4"] /\ consumed_count' = consumed_count
    BY <1>4 DEF LooseGet, GoUnlessExit
  <2>4. id \notin Stopped
    BY <2>0 DEF Progress, Stopped
  <2>5. Stopped' = IF Head(Queue) = END_OF_STREAM THEN Stopped \cup {id} ELSE Stopped
    BY <1>a, <2>2, <2>4 DEF Stopped, TypeOK
  <2>6. /\ Taken \in [Consumers -> Int]
        /\ Taken' = IF Head(Queue) = END_OF_STREAM THEN Taken ELSE [Taken EXCEPT ![id] = @ + 1]
    <3>1. Taken \in [Consumers -> Int] /\ Taken' = [c \in Consumers |-> Taken'[c]]
      BY <1>a DEF Taken, TypeOK
    <3>2. pc'[id] = "c4" /\ \A c \in Consumers \ {id} : pc'[c] = pc[c]
      BY <1>a, <2>3 DEF TypeOK, Threads
    <3>3. ASSUME NEW c \in Consumers \ {id} PROVE Taken'[c] = Taken[c]
      BY <2>3, <2>5, <3>2 DEF Taken
    <3>4. Taken'[id] = IF Head(Queue) = END_OF_STREAM THEN Taken[id] ELSE Taken[id] + 1
      BY <1>a, <2>0, <2>3, <2>4, <2>5, <3>2 DEF Taken, TypeOK
    <3> QED BY <3>1, <3>3, <3>4
  <2> QED
    BY <1>c, <2>2, <2>4, <2>5, <2>6 DEF Q!Get, Q!EOS, END_OF_STREAM
<1> QED
  BY <1>1, <1>2, <1>3, <1>4 DEF LooseConsumer

\* A step of main puts an END_OF_STREAM or leaves the queue alone.
LEMMA MainPuts ==
    ASSUME CoreInv, CoreInv', Progress, MainNext(fill_cv, empty_cv)
    PROVE  Q!PutEOS \/ UNCHANGED qVars
<1> USE DEF Main, Go
<1> USE DEF bufferVars, syncVars, threadVars, CoreInv
<1>a. TypeOK /\ Main \in Threads /\ \A t \in Producers \cup Consumers : t # Main /\ t \in Threads
  BY DEF Threads, Producers, Consumers
<1>b. UNCHANGED <<tmp, consumed_count>> /\ \A p \in Producers : i'[p] = i[p]
  BY <1>a DEF MainNext, Create, Created, JoinProducers, EosLock, EosTest, EosWait, EosWoken, EosFill,
         EosSignal, EosUnlock, JoinConsumers, TypeOK
<1>c. ASSUME NEW t \in Producers \cup Consumers
      PROVE  pc'[t] = pc[t] \/ (pc[t] = "unborn" /\ pc'[t] \in {"p0", "c0"})
  <2>1. CASE Create
    <3>1. i[Main] \in Producers \cup Consumers /\ pc[i[Main]] = "unborn"
      BY <2>1, <1>a DEF Create, NotCreated, TypeOK, Producers, Consumers
    <3> QED BY <2>1, <1>a, <3>1 DEF Create, TypeOK
  <2>2. CASE ~Create
    BY <2>2, <1>a DEF MainNext, Created, JoinProducers, EosLock, EosTest, EosWait, EosWoken, EosFill,
         EosSignal, EosUnlock, JoinConsumers, GoUnlessExit, TypeOK
  <2> QED BY <2>1, <2>2
<1>d. UNCHANGED <<PutBy, Stopped, Taken>>
  <2>1. UNCHANGED PutBy
    BY <1>b, <1>c DEF PutBy, Sent
  <2>2. UNCHANGED Stopped
    BY <1>b DEF Stopped
  <2>3. UNCHANGED Taken
    BY <1>b, <1>c, <2>2 DEF Taken
  <2> QED BY <2>1, <2>2, <2>3
<1>1. CASE Create
  <2>1. i[Main] # Main /\ pc[Main] = "create" /\ pc'[Main] = "create" /\ UNCHANGED Queue
    BY <1>1, <1>a DEF Create, TypeOK, Queue
  <2> QED BY <1>d, <2>1 DEF qVars, Eos
<1>2. CASE Created \/ JoinProducers
  <2>1. UNCHANGED <<Queue, Eos>>
    BY <1>2, <1>a DEF Created, JoinProducers, Queue, Eos, Sent, Progress, TypeOK
  <2> QED BY <1>d, <2>1 DEF qVars
<1>3. CASE EosLock \/ EosTest \/ EosWait(empty_cv) \/ EosWoken \/ EosSignal(fill_cv) \/ JoinConsumers
  <2>1. UNCHANGED Queue
    BY <1>3 DEF EosLock, EosTest, EosWait, EosWoken, EosSignal, JoinConsumers, Queue
  <2>2. UNCHANGED Eos
    BY <1>3, <1>a DEF EosLock, EosTest, EosWait, EosWoken, EosSignal, JoinConsumers, Eos, Sent, TypeOK
  <2> QED BY <1>d, <2>1, <2>2 DEF qVars
<1>4. CASE EosUnlock
  <2>1. UNCHANGED Queue
    BY <1>4 DEF EosUnlock, Queue
  <2>2. UNCHANGED Eos
    BY <1>4, <1>a DEF EosUnlock, Eos, Sent, TypeOK
  <2> QED BY <1>d, <2>1, <2>2 DEF qVars
<1>5. CASE EosFill /\ exited'
  <2>1. pc' = pc /\ i' = i /\ do_fill(END_OF_STREAM)
    BY <1>5 DEF EosFill, GoUnlessExit
  <2>2. UNCHANGED Queue
    BY <1>5, <2>1 DEF do_fill, Queue
  <2>3. UNCHANGED Eos
    BY <2>1 DEF Eos, Sent
  <2> QED BY <1>d, <2>2, <2>3 DEF qVars
<1>6. CASE EosFill /\ ~exited'
  <2>0. pc[Main] = "eos_fill" /\ do_fill(END_OF_STREAM)
    BY <1>6 DEF EosFill, GoUnlessExit
  <2>1. num_full # max
    BY <1>6, <2>0, FillOutcome
  <2>2. Queue' = Append(Queue, END_OF_STREAM)
    BY <2>0, <2>1, FillAppends
  <2>3. pc' = [pc EXCEPT ![Main] = "eos_signal"] /\ i' = i
    BY <1>6 DEF EosFill, GoUnlessExit
  <2>4. Eos = i[Main] /\ Eos' = Eos + 1 /\ Eos < consumers
    BY <1>a, <2>0, <2>3 DEF Eos, Sent, TypeOK, Progress
  <2>5. \A p \in Producers : PutBy[p] = loops
    BY <2>0 DEF PutBy, Sent, Progress
  <2>6. Len(Queue) < max
    BY <1>a, <2>1, QueueIsSeq DEF QueueShape, TypeOK
  <2> QED
    BY <1>d, <2>2, <2>4, <2>5, <2>6 DEF Q!PutEOS, Q!Producers, Producers, Q!EOS, END_OF_STREAM
<1> QED
  BY <1>1, <1>2, <1>3, <1>4, <1>5, <1>6 DEF MainNext

\* What any step does to the queue is an operation of a bounded queue, or nothing.
LEMMA LooseQueue == CoreInv /\ CoreInv' /\ Progress /\ [LooseNext]_vars => [Q!Next]_(Q!vars)
<1> SUFFICES ASSUME CoreInv, CoreInv', Progress, [LooseNext]_vars PROVE Q!Next \/ UNCHANGED qVars
  BY DEF Q!vars, qVars
<1>1. CASE LooseStep
  BY <1>1, MainPuts, ProducerPuts, ConsumerGets
     DEF LooseStep, Q!Next, Q!Producers, Q!Consumers, Producers, Consumers
<1>2. CASE \E t \in Threads : SpuriousWakeup(t)
  BY <1>2 DEF SpuriousWakeup, bufferVars, threadVars, qVars, Queue, PutBy, Eos, Taken, Stopped, Sent
<1>3. CASE UNCHANGED vars
  BY <1>3 DEF vars, bufferVars, threadVars, qVars, Queue, PutBy, Eos, Taken, Stopped, Sent
<1> QED BY <1>1, <1>2, <1>3 DEF LooseNext, Finished

LEMMA InitQueue == Init => Q!Init
<1> SUFFICES ASSUME Init PROVE Q!Init
  OBVIOUS
<1>1. Queue = << >>
  BY DEF Init, Queue
<1>2. PutBy = [p \in Producers |-> 0]
  BY DEF Init, PutBy, Sent, Threads, Producers, Main
<1>3. Eos = 0
  BY DEF Init, Eos, Threads
<1>4. Stopped = {}
  BY DEF Init, Stopped, END_OF_STREAM
<1>5. Taken = [c \in Consumers |-> 0]
  BY <1>4 DEF Init, Taken, Threads, Consumers, Main
<1> QED
  BY <1>1, <1>2, <1>3, <1>4, <1>5 DEF Q!Init, Q!Producers, Q!Consumers, Producers, Consumers

\* A program of such steps, whatever it tests and whatever makes it exit, is a
\* bounded FIFO queue.
THEOREM LooseIsQueue == Init /\ [][LooseNext]_vars => Q!Safe
<1>1. CoreInv /\ Progress /\ [LooseNext]_vars => CoreInv' /\ Progress'
  BY LooseCore, LooseProgress
<1> QED
  BY <1>1, InitInv, InitProgress, InitQueue, LooseQueue, PTL DEF Q!Safe

\* The program with while is a bounded FIFO queue, for any number of producers,
\* consumers, items and slots, and for one condition variable or two: no item is
\* lost, doubled or overtaken, and the END_OF_STREAMs come after every item.
THEOREM IsQueue == Spec => Q!Safe
<1>1. [Next]_vars => [LooseNext]_vars
  BY StepsAreLoose
<1> QED
  BY <1>1, LooseIsQueue, PTL DEF Spec

=============================================================================
