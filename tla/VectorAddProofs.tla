--------------------------- MODULE VectorAddProofs ---------------------------
(***************************************************************************)
(* For any number of threads, calls and elements, and for every program    *)
(* with every flag: the locks a thread holds are those its place in        *)
(* vector_add says, hence no two additions touch the same vector.          *)
(***************************************************************************)
EXTENDS VectorAdd, FiniteSetTheorems, TLAPS

USE ArgsAssumption DEF ArgsAssumption

\* Where a thread holds its first lock, and where it holds its second.
WithFirst  == {"lock second", "back off", "unlock global", "add", "store", "unlock"}
WithSecond == {"unlock global", "add", "store", "unlock"}

\* The lock that UnlockOne leaves for UnlockOther.
Other(t) == IF is("vector-global-order") THEN dst(t) ELSE src(t)

\* Only vector-try-wait.c, which locks the destination first, backs off.
BacksOff == \A t \in Threads : pc[t] = "back off" => is("vector-try-wait")

Holds(t) ==
    /\ pc[t] \in WithFirst => lock[First(t)] = t
    /\ pc[t] \in WithSecond => lock[Second(t)] = t
    /\ pc[t] = "unlock other" => lock[Other(t)] = t

LocksHeld == ~is("vector-nolock") => \A t \in Threads : Holds(t)

\* A thread that has not returned has a call to make.
CallsLeft == \A t \in Threads : pc[t] # "done" => calls[t] < loops

IInv == TypeOK /\ CallsLeft /\ BacksOff /\ LocksHeld

-----------------------------------------------------------------------------
\* The two vectors of a call are vectors, and they differ: the case of one
\* vector in vector-global-order.c:19 never comes.
LEMMA Pair ==
    ASSUME TypeOK, NEW t \in Threads
    PROVE  /\ dst(t) \in Vectors /\ src(t) \in Vectors /\ dst(t) # src(t)
           /\ First(t) \in Vectors /\ Second(t) \in Vectors
           /\ {First(t), Second(t)} = {dst(t), src(t)}
           /\ First(t) # Second(t)
           /\ Nobody \notin Threads
<1>1. vector_0(t) \in Vectors /\ vector_1(t) \in Vectors /\ vector_0(t) # vector_1(t)
  BY DEF Threads, Vectors, vector_0, vector_1
<1>2. dst(t) \in Vectors /\ src(t) \in Vectors /\ dst(t) # src(t)
  BY <1>1 DEF dst, src
<1>3. First(t) \in {dst(t), src(t)}
  BY DEF First, Smaller
<1>4. {First(t), Second(t)} = {dst(t), src(t)} /\ First(t) # Second(t)
  BY <1>2, <1>3 DEF Second
<1>5. Nobody \notin Threads
  BY DEF Nobody, Threads
<1> QED
  BY <1>2, <1>3, <1>4, <1>5

\* The place where a call starts is not one that holds a lock.
LEMMA BeginPlace ==
    ASSUME TypeOK
    PROVE  /\ Begin(options.program) \in {"add", "lock global", "lock first"}
           /\ ~is("vector-nolock") => Begin(options.program) \in {"lock global", "lock first"}
BY DEF TypeOK, Begin, is

\* A step leaves the vectors of every thread alone.
LEMMA SamePairs ==
    ASSUME UNCHANGED options
    PROVE  /\ \A t : /\ dst(t)' = dst(t) /\ src(t)' = src(t)
                     /\ First(t)' = First(t) /\ Second(t)' = Second(t)
                     /\ Other(t)' = Other(t)
           /\ \A p : is(p)' = is(p)
BY DEF dst, src, First, Second, Other, Smaller, is, vector_add_order, vector_0, vector_1

\* Every step leaves the options alone.
LEMMA OptionsStay == [Next]_vars => UNCHANGED options
BY DEF Next, Step, Finished, Create, vector_add, LockGlobal, LockFirst, LockSecond,
       UnlockGlobal, TryFails, BackOff, LoadElement, StoreElement, UnlockOne,
       UnlockOther, Return, Go, vars

-----------------------------------------------------------------------------
Places == {"lock global", "lock first", "lock second", "unlock global", "back off",
           "add", "store", "unlock", "unlock other", "done"}

\* Going to a place keeps the types of pc and of what Go leaves alone.
LEMMA GoType ==
    ASSUME TypeOK, NEW t \in Threads, NEW from, NEW to \in Places, Go(t, from, to)
    PROVE  /\ pc' \in [Threads -> Places]
           /\ options' \in Options
           /\ created' \in 0 .. num_threads
BY DEF TypeOK, Go, Places

\* The end of a call keeps the types: a thread that calls has calls to make.
LEMMA ReturnType ==
    ASSUME TypeOK, NEW t \in Threads, NEW from, Return(t, from), calls[t] < loops
    PROVE  /\ pc' \in [Threads -> Places]
           /\ options' \in Options
           /\ created' \in 0 .. num_threads
           /\ calls' \in [Threads -> 0 .. loops]
           /\ i' \in [Threads -> Index]
<1>1. pc' \in [Threads -> Places] /\ options' \in Options /\ created' \in 0 .. num_threads
  BY BeginPlace, GoType DEF Return, Places
<1>2. calls' \in [Threads -> 0 .. loops]
  <2>1. calls \in [Threads -> 0 .. loops] /\ calls' = [calls EXCEPT ![t] = @ + 1]
    BY DEF TypeOK, Return
  <2>2. calls[t] + 1 \in 0 .. loops
    BY <2>1
  <2> QED
    BY <2>1, <2>2
<1>3. i' \in [Threads -> Index]
  <2>1. i \in [Threads -> Index] /\ i' = [i EXCEPT ![t] = 0]
    BY DEF TypeOK, Return
  <2>2. 0 \in Index
    BY DEF Index
  <2> QED
    BY <2>1, <2>2
<1> QED
  BY <1>1, <1>2, <1>3

\* The load and the store of an element keep the values natural numbers.
LEMMA ElementType ==
    ASSUME TypeOK, NEW t \in Threads
    PROVE  /\ LoadElement(t) => reg' \in [Threads -> Nat]
           /\ StoreElement(t) => v' \in [Vectors -> [Index -> Nat]]
<1>1. v[src(t)][i[t]] \in Nat /\ v[dst(t)][i[t]] \in Nat
  <2>1. dst(t) \in Vectors /\ src(t) \in Vectors
    BY Pair
  <2> QED
    BY <2>1 DEF TypeOK
<1>2. ASSUME LoadElement(t) PROVE reg' \in [Threads -> Nat]
  <2> DEFINE n == v[src(t)][i[t]] + IF is("vector-nolock") THEN 0 ELSE v[dst(t)][i[t]]
  <2>1. n \in Nat
    BY <1>1
  <2>2. reg' = [reg EXCEPT ![t] = n]
    BY <1>2 DEF LoadElement
  <2>3. reg \in [Threads -> Nat]
    BY DEF TypeOK
  <2> HIDE DEF n
  <2> QED
    BY <2>1, <2>2, <2>3
<1>3. ASSUME StoreElement(t) PROVE v' \in [Vectors -> [Index -> Nat]]
  <2>1. NewElement(t) \in Nat
    <3>1. reg[t] \in Nat
      BY DEF TypeOK
    <3> QED
      BY <1>1, <3>1 DEF NewElement, is
  <2>2. v' = [v EXCEPT ![dst(t)][i[t]] = NewElement(t)]
    BY <1>3 DEF StoreElement
  <2>3. v \in [Vectors -> [Index -> Nat]] /\ dst(t) \in Vectors /\ i[t] \in Index
    BY Pair DEF TypeOK
  <2>4. [v[dst(t)] EXCEPT ![i[t]] = NewElement(t)] \in [Index -> Nat]
    BY <2>1, <2>3
  <2> QED
    BY <2>2, <2>3, <2>4
<1> QED
  BY <1>2, <1>3

LEMMA TypeStep == TypeOK /\ CallsLeft /\ [Next]_vars => TypeOK'
<1> SUFFICES ASSUME TypeOK, CallsLeft, [Next]_vars PROVE TypeOK'
  OBVIOUS
<1> USE DEF Places
<1>1. CASE Create
  <2>1. created' \in 0 .. num_threads
    <3>1. created \in 0 .. num_threads /\ created < num_threads /\ created' = created + 1
      BY <1>1 DEF Create, TypeOK
    <3> QED
      BY <3>1
  <2> QED
    BY <1>1, <2>1 DEF TypeOK, Create, lockVars
<1>2. ASSUME NEW t \in Threads, vector_add(t) PROVE TypeOK'
  <2>1. CASE LockGlobal(t)
    BY <2>1, GoType DEF TypeOK, LockGlobal
  <2>2. CASE LockFirst(t)
    BY <2>2, GoType DEF TypeOK, LockFirst, Lock
  <2>3. CASE LockSecond(t)
    BY <2>3, GoType DEF TypeOK, LockSecond, Lock, Locked
  <2>4. CASE UnlockGlobal(t)
    BY <2>4, GoType DEF TypeOK, UnlockGlobal
  <2>5. CASE TryFails(t)
    BY <2>5, GoType DEF TypeOK, TryFails, lockVars
  <2>6. CASE BackOff(t)
    BY <2>6, GoType DEF TypeOK, BackOff, Unlock
  <2>7. CASE LoadElement(t)
    BY <2>7, GoType, ElementType DEF TypeOK, LoadElement, lockVars
  <2>8. CASE StoreElement(t)
    <3>1. CASE i[t] + 1 < VECTOR_SIZE
      <4>1. i' = [i EXCEPT ![t] = i[t] + 1] /\ i[t] + 1 \in Index
        <5>1. i' = [i EXCEPT ![t] = i[t] + 1] /\ i[t] \in Index
          BY <2>8, <3>1 DEF StoreElement, TypeOK
        <5> QED
          BY <3>1, <5>1 DEF Index
      <4>2. i' \in [Threads -> Index]
        BY <4>1 DEF TypeOK
      <4> QED
        <5>1. Go(t, "store", "add") /\ UNCHANGED <<calls, lock, global, reg>>
          BY <2>8, <3>1 DEF StoreElement, lockVars
        <5> QED
          BY <2>8, <4>2, <5>1, GoType, ElementType DEF TypeOK
    <3>2. CASE ~(i[t] + 1 < VECTOR_SIZE) /\ is("vector-nolock")
      <4>1. Return(t, "store") /\ pc[t] = "store"
        BY <2>8, <3>2 DEF StoreElement, Return, Go
      <4>2. calls[t] < loops
        BY <4>1 DEF CallsLeft
      <4> QED
        BY <2>8, <4>1, <4>2, ReturnType, ElementType DEF TypeOK, StoreElement, lockVars
    <3>3. CASE ~(i[t] + 1 < VECTOR_SIZE) /\ ~is("vector-nolock")
      BY <2>8, <3>3, GoType, ElementType DEF TypeOK, StoreElement, lockVars
    <3> QED
      BY <3>1, <3>2, <3>3
  <2>9. CASE UnlockOne(t)
    BY <2>9, GoType DEF TypeOK, UnlockOne, Unlock
  <2>10. CASE UnlockOther(t)
    <3>1. calls[t] < loops
      BY <2>10 DEF CallsLeft, UnlockOther, Return, Go
    <3> QED
      BY <2>10, <3>1, ReturnType DEF TypeOK, UnlockOther, Unlock
  <2> QED
    BY <1>2, <2>1, <2>2, <2>3, <2>4, <2>5, <2>6, <2>7, <2>8, <2>9, <2>10 DEF vector_add
<1>3. CASE Finished \/ UNCHANGED vars
  BY <1>3 DEF TypeOK, Finished, vars, lockVars
<1> QED
  BY <1>1, <1>2, <1>3 DEF Next, Step

-----------------------------------------------------------------------------
\* A step of vector_add starts from some place other than "done", and what a
\* thread does next it does with calls left.
LEMMA CallsStep == TypeOK /\ CallsLeft /\ [Next]_vars => CallsLeft'
<1> SUFFICES ASSUME TypeOK, CallsLeft, [Next]_vars PROVE CallsLeft'
  OBVIOUS
<1>1. CASE Create \/ Finished \/ UNCHANGED vars
  BY <1>1 DEF CallsLeft, Create, Finished, vars
<1>2. ASSUME NEW t \in Threads, vector_add(t) PROVE CallsLeft'
  <2>1. ASSUME NEW from, NEW to, from # "done", Go(t, from, to), UNCHANGED calls
        PROVE  CallsLeft'
    BY <2>1 DEF CallsLeft, Go, TypeOK
  <2>2. ASSUME NEW from, Return(t, from) PROVE CallsLeft'
    <3>1. calls[t] \in Nat /\ loops \in Nat
      <4>1. calls[t] \in 0 .. loops
        BY DEF TypeOK
      <4> QED
        BY <4>1
    <3> QED
      BY <2>2, <3>1 DEF CallsLeft, Return, Go, TypeOK
  <2>3. CASE StoreElement(t)
    <3>1. \/ Go(t, "store", "add") /\ UNCHANGED calls
          \/ Return(t, "store")
          \/ Go(t, "store", "unlock") /\ UNCHANGED calls
      BY <2>3 DEF StoreElement
    <3> QED
      BY <2>1, <2>2, <3>1
  <2>4. CASE UnlockOther(t)
    BY <2>2, <2>4 DEF UnlockOther
  <2>5. CASE \/ LockGlobal(t) \/ LockFirst(t) \/ LockSecond(t) \/ UnlockGlobal(t)
             \/ TryFails(t) \/ BackOff(t) \/ LoadElement(t) \/ UnlockOne(t)
    BY <2>1, <2>5 DEF LockGlobal, LockFirst, LockSecond, UnlockGlobal, TryFails,
       BackOff, LoadElement, UnlockOne
  <2> QED
    BY <1>2, <2>3, <2>4, <2>5 DEF vector_add
<1> QED
  BY <1>1, <1>2 DEF Next, Step

-----------------------------------------------------------------------------
\* A thread keeps what it holds when another leaves its locks alone.
LEMMA OthersHold ==
    ASSUME TypeOK, NEW t \in Threads, NEW from, NEW to, Go(t, from, to),
           NEW u \in Threads, u # t, Holds(u),
           \A w \in Vectors : lock[w] = u => lock'[w] = u
    PROVE  Holds(u)'
<1>1. pc[u]' = pc[u] /\ UNCHANGED options
  BY DEF Go, TypeOK
<1>2. First(u)' = First(u) /\ Second(u)' = Second(u) /\ Other(u)' = Other(u)
  BY <1>1, SamePairs
<1>3. First(u) \in Vectors /\ Second(u) \in Vectors /\ Other(u) \in Vectors
  BY Pair DEF Other
<1> QED
  BY <1>1, <1>2, <1>3 DEF Holds

\* Every step of a program with locks keeps the locks where they belong.
LEMMA LocksStep ==
    TypeOK /\ BacksOff /\ LocksHeld /\ [Next]_vars => BacksOff' /\ LocksHeld'
<1> SUFFICES ASSUME TypeOK, BacksOff, LocksHeld, [Next]_vars PROVE BacksOff' /\ LocksHeld'
  OBVIOUS
<1>0. UNCHANGED options /\ \A p : is(p)' = is(p)
  BY OptionsStay, SamePairs
<1>1. CASE Create \/ Finished \/ UNCHANGED vars
  <2>1. pc' = pc /\ lock' = lock
    BY <1>1 DEF Create, Finished, vars, lockVars
  <2> QED
    BY <1>0, <2>1, SamePairs DEF BacksOff, LocksHeld, Holds
<1>2. ASSUME NEW t \in Threads, vector_add(t) PROVE BacksOff' /\ LocksHeld'
  <2>1. BacksOff'
    <3>1. ASSUME NEW from, NEW to, to # "back off" \/ is("vector-try-wait"), Go(t, from, to)
          PROVE  BacksOff'
      BY <1>0, <3>1 DEF BacksOff, Go, TypeOK
    <3>2. ASSUME NEW from, Return(t, from) PROVE BacksOff'
      BY <3>1, <3>2, BeginPlace DEF Return
    <3>3. CASE StoreElement(t)
      <4>1. \/ Go(t, "store", "add") \/ Return(t, "store") \/ Go(t, "store", "unlock")
        BY <3>3 DEF StoreElement
      <4> QED
        BY <3>1, <3>2, <4>1
    <3> QED
      BY <1>2, <3>1, <3>2, <3>3 DEF vector_add, LockGlobal, LockFirst, LockSecond, Locked,
         UnlockGlobal, TryFails, BackOff, LoadElement, UnlockOne, UnlockOther
  <2>2. ASSUME ~is("vector-nolock") PROVE LocksHeld'
    <3> USE <2>2 DEF WithFirst, WithSecond
    <3>1. \A u \in Threads : Holds(u)
      BY DEF LocksHeld
    <3>2. First(t)' = First(t) /\ Second(t)' = Second(t) /\ Other(t)' = Other(t)
      BY <1>0, SamePairs
    <3>3. LocksHeld' <=> \A u \in Threads : Holds(u)'
      BY <1>0 DEF LocksHeld
    <3>4. First(t) \in Vectors /\ Second(t) \in Vectors /\ First(t) # Second(t)
      BY Pair
    <3>5. lock \in [Vectors -> Threads \cup {Nobody}] /\ pc \in [Threads -> Places]
      BY DEF TypeOK, Places
    <3>6. ASSUME NEW from, NEW to, Go(t, from, to), UNCHANGED lock, Holds(t)'
          PROVE  LocksHeld'
      <4>1. ASSUME NEW u \in Threads, u # t PROVE Holds(u)'
        BY <3>1, <3>6, <4>1, OthersHold
      <4> QED
        BY <3>3, <3>6, <4>1
    <3>7. ASSUME NEW from, NEW to, Go(t, from, to), Holds(t)',
                 NEW x \in Vectors, lock[x] = Nobody \/ lock[x] = t,
                 \A w \in Vectors \ {x} : lock'[w] = lock[w]
          PROVE  LocksHeld'
      <4>1. ASSUME NEW u \in Threads, u # t PROVE Holds(u)'
        <5>1. \A w \in Vectors : lock[w] = u => lock'[w] = u
          BY <3>7, <4>1, Pair
        <5> QED
          BY <3>1, <3>7, <4>1, <5>1, OthersHold
      <4> QED
        BY <3>3, <3>7, <4>1
    <3>8. CASE LockGlobal(t)
      <4>1. Holds(t)'
        BY <3>5, <3>8 DEF LockGlobal, Go, Holds
      <4> QED
        BY <3>6, <3>8, <4>1 DEF LockGlobal
    <3>9. CASE LockFirst(t)
      <4>1. Holds(t)'
        BY <3>2, <3>4, <3>5, <3>9 DEF LockFirst, Lock, Go, Holds
      <4>2. lock[First(t)] = Nobody /\ \A w \in Vectors \ {First(t)} : lock'[w] = lock[w]
        BY <3>5, <3>9 DEF LockFirst, Lock
      <4> QED
        BY <3>4, <3>7, <3>9, <4>1, <4>2 DEF LockFirst
    <3>10. CASE LockSecond(t)
      <4>1. lock[First(t)] = t
        BY <3>1, <3>10 DEF LockSecond, Go, Holds
      <4>2. Holds(t)'
        BY <3>2, <3>4, <3>5, <3>10, <4>1 DEF LockSecond, Lock, Locked, Go, Holds
      <4>3. lock[Second(t)] = Nobody /\ \A w \in Vectors \ {Second(t)} : lock'[w] = lock[w]
        BY <3>5, <3>10 DEF LockSecond, Lock
      <4> QED
        BY <3>4, <3>7, <3>10, <4>2, <4>3 DEF LockSecond
    <3>11. CASE UnlockGlobal(t) \/ TryFails(t) \/ LoadElement(t)
      <4>1. Holds(t)'
        BY <3>1, <3>2, <3>5, <3>11 DEF UnlockGlobal, TryFails, LoadElement, lockVars, Go, Holds
      <4> QED
        BY <3>6, <3>11, <4>1 DEF UnlockGlobal, TryFails, LoadElement, lockVars
    <3>12. CASE StoreElement(t)
      <4>1. UNCHANGED lock
        BY <3>12 DEF StoreElement, lockVars
      <4>2. Go(t, "store", "add") \/ Go(t, "store", "unlock")
        BY <3>12 DEF StoreElement
      <4>3. Holds(t)'
        BY <3>1, <3>2, <3>5, <4>1, <4>2 DEF Go, Holds
      <4> QED
        BY <3>6, <4>1, <4>2, <4>3
    <3>13. CASE BackOff(t)
      <4>1. First(t) = dst(t)
        BY <3>13 DEF BackOff, Go, BacksOff, First, is
      <4>2. lock[dst(t)] = t
        BY <3>1, <3>13, <4>1 DEF BackOff, Go, Holds
      <4>3. Holds(t)'
        BY <3>5, <3>13 DEF BackOff, Go, Holds
      <4>4. \A w \in Vectors \ {dst(t)} : lock'[w] = lock[w]
        BY <3>5, <3>13 DEF BackOff, Unlock
      <4> QED
        BY <3>7, <3>13, <4>2, <4>3, <4>4, Pair DEF BackOff
    <3>14. CASE UnlockOne(t)
      <4> DEFINE x == IF is("vector-global-order") THEN src(t) ELSE dst(t)
      <4>1. x # Other(t) /\ x \in Vectors /\ Other(t) \in Vectors
        BY Pair DEF Other
      <4>2. {x, Other(t)} = {First(t), Second(t)}
        BY Pair DEF Other
      <4>3. lock[x] = t /\ lock[Other(t)] = t
        BY <3>1, <3>14, <4>2 DEF UnlockOne, Go, Holds
      <4>4. Go(t, "unlock", "unlock other") /\ lock' = [lock EXCEPT ![x] = Nobody]
        BY <3>14 DEF UnlockOne, Unlock
      <4> HIDE DEF x
      <4>5. Holds(t)'
        BY <3>2, <3>5, <4>1, <4>3, <4>4 DEF Go, Holds
      <4>6. \A w \in Vectors \ {x} : lock'[w] = lock[w]
        BY <3>5, <4>4
      <4> QED
        BY <3>7, <4>1, <4>3, <4>4, <4>5, <4>6
    <3>15. CASE UnlockOther(t)
      <4>1. lock[Other(t)] = t /\ lock' = [lock EXCEPT ![Other(t)] = Nobody]
        BY <3>1, <3>15 DEF UnlockOther, Return, Go, Unlock, Holds, Other
      <4>2. PICK to \in {"lock global", "lock first", "done"} : Go(t, "unlock other", to)
        BY <3>15, BeginPlace DEF UnlockOther, Return
      <4>3. Holds(t)'
        BY <3>5, <4>2 DEF Go, Holds
      <4>4. Other(t) \in Vectors /\ \A w \in Vectors \ {Other(t)} : lock'[w] = lock[w]
        BY <3>5, <4>1, Pair DEF Other
      <4> QED
        BY <3>7, <4>1, <4>2, <4>3, <4>4
    <3> QED
      BY <1>2, <3>8, <3>9, <3>10, <3>11, <3>12, <3>13, <3>14, <3>15 DEF vector_add
  <2>3. CASE is("vector-nolock")
    <3>1. is("vector-nolock")'
      BY <1>0, <2>3
    <3> QED
      BY <2>1, <3>1 DEF LocksHeld
  <2> QED
    BY <2>1, <2>2, <2>3
<1> QED
  BY <1>1, <1>2 DEF Next, Step

-----------------------------------------------------------------------------
LEMMA InitIInv == Init => IInv
<1> SUFFICES ASSUME Init PROVE IInv
  OBVIOUS
<1>1. Begin(options.program) \in {"add", "lock global", "lock first"}
  BY DEF Begin
<1>2. TypeOK
  <2>1. 0 \in Index /\ 0 \in 0 .. loops /\ 0 \in 0 .. num_threads
    BY DEF Index
  <2>2. vector_init \in [Vectors -> [Index -> Nat]]
    BY DEF vector_init, Vectors
  <2> QED
    BY <1>1, <2>1, <2>2 DEF Init, TypeOK
<1>3. ~is("vector-nolock") => Begin(options.program) # "add"
  BY <1>2, BeginPlace
<1>4. BacksOff /\ LocksHeld
  BY <1>1, <1>3 DEF Init, BacksOff, LocksHeld, Holds, WithFirst, WithSecond
<1>5. CallsLeft
  BY DEF Init, CallsLeft
<1> QED
  BY <1>2, <1>4, <1>5 DEF IInv

LEMMA StepIInv == IInv /\ [Next]_vars => IInv'
BY TypeStep, CallsStep, LocksStep DEF IInv

\* The inductive invariant of the five programs, for any number of threads,
\* calls and elements and for all flags.
THEOREM VectorInvariance == Spec => []IInv
BY InitIInv, StepIInv, PTL DEF Spec

\* The vectors and the threads' places stay what they are meant to be.
THEOREM VectorTypeCorrect == Spec => []TypeOK
<1>1. IInv => TypeOK
  BY DEF IInv
<1> QED
  BY <1>1, VectorInvariance, PTL

\* Two threads that add hold the locks of both their vectors.
LEMMA Disjointness == IInv => Disjoint
<1> SUFFICES ASSUME IInv, ~is("vector-nolock"),
                    NEW t \in Threads, NEW u \in Threads,
                    Adding(t), Adding(u), t # u
             PROVE  dst(t) \notin {dst(u), src(u)}
  BY DEF Disjoint
<1>1. TypeOK /\ Holds(t) /\ Holds(u)
  BY DEF IInv, LocksHeld
<1>2. ASSUME NEW w \in Threads, Holds(w), Adding(w)
      PROVE  \A x \in {First(w), Second(w)} : lock[x] = w
  BY <1>2 DEF Holds, Adding, WithFirst, WithSecond
<1>3. \A x \in {dst(t), src(t)} : lock[x] = t
  BY <1>1, <1>2, Pair
<1>4. \A x \in {dst(u), src(u)} : lock[x] = u
  BY <1>1, <1>2, Pair
<1> QED
  BY <1>3, <1>4

\* In the four programs with locks no addition touches a vector that another
\* reads or writes, whatever the flags and the number of threads.
THEOREM VectorDisjoint == Spec => []Disjoint
BY Disjointness, VectorInvariance, PTL

-----------------------------------------------------------------------------
(* The programs with locks, and vector-nolock.c when all threads add in    *)
(* the same direction, implement VectorSerial.                             *)

\* Some thread of vector-nolock.c may write what another reads when they add
\* two vectors they share in opposite orders; no other program lets them.
OneWay == is("vector-nolock") => ~options.d \/ options.p

\* A call starts at element 0.
FromZero ==
    \A t \in Threads :
        /\ pc[t] \notin {"add", "store", "unlock", "unlock other"} => i[t] = 0
        /\ ~(t < created) => i[t] = 0 /\ pc[t] # "store"

\* What a thread has loaded still is what the vectors hold.
RegIsFresh ==
    \A t \in Threads :
        Adding(t) /\ pc[t] = "store" =>
            reg[t] = v[src(t)][i[t]] + IF is("vector-nolock") THEN 0 ELSE v[dst(t)][i[t]]

SInv == IInv /\ OneWay /\ FromZero /\ RegIsFresh

\* The threads share a pair of vectors or have nothing in common.
LEMMA Partners ==
    ASSUME TypeOK, NEW t \in Threads
    PROVE  /\ Partner(dst(t)) = src(t) /\ Partner(src(t)) = dst(t)
           /\ \A u \in Vectors : /\ Partner(u) \in Vectors
                                 /\ Partner(u) # u
                                 /\ Partner(u) = dst(t) => u = src(t)
<1>1. vector_0(t) \in Vectors /\ vector_0(t) % 2 = 0 /\ vector_1(t) = vector_0(t) + 1
  BY DEF Threads, Vectors, vector_0, vector_1
<1>2. vector_1(t) % 2 = 1
  BY <1>1 DEF Vectors
<1>3. Partner(vector_0(t)) = vector_1(t) /\ Partner(vector_1(t)) = vector_0(t)
  BY <1>1, <1>2 DEF Partner, Vectors
<1>4. Partner(dst(t)) = src(t) /\ Partner(src(t)) = dst(t)
  BY <1>3 DEF dst, src
<1>5. ASSUME NEW u \in Vectors PROVE Partner(u) \in Vectors /\ Partner(u) # u /\ Partner(Partner(u)) = u
  BY DEF Partner, Vectors
<1> QED
  BY <1>4, <1>5

\* No thread that adds reads what another writes.
LEMMA NoClash ==
    ASSUME IInv, OneWay, NEW t \in Threads, NEW u \in Threads, Adding(t), Adding(u)
    PROVE  src(t) # dst(u)
<1>1. TypeOK
  BY DEF IInv
<1>2. CASE ~is("vector-nolock") /\ t # u
  BY <1>2, Disjointness DEF Disjoint
<1>3. CASE is("vector-nolock")
  <2>1. t \in Int /\ u \in Int
    BY DEF Threads
  <2> QED
    BY <1>3, <2>1 DEF OneWay, dst, src, vector_add_order, vector_0, vector_1
<1>4. CASE t = u
  BY <1>1, <1>4, Pair
<1> QED
  BY <1>2, <1>3, <1>4

-----------------------------------------------------------------------------
LEMMA FromZeroStep == IInv /\ FromZero /\ [Next]_vars => FromZero'
<1> SUFFICES ASSUME TypeOK, FromZero, [Next]_vars PROVE FromZero'
  BY DEF IInv
<1>1. CASE Create \/ Finished \/ UNCHANGED vars
  <2>1. UNCHANGED <<pc, i>> /\ (created' = created \/ created' = created + 1)
    BY <1>1 DEF Create, Finished, vars
  <2>2. created \in Nat /\ \A t \in Threads : t \in Nat
    <3>1. created \in 0 .. num_threads
      BY DEF TypeOK
    <3> QED
      BY <3>1 DEF Threads
  <2>3. \A t \in Threads : t < created => t < created'
    BY <2>1, <2>2
  <2> QED
    BY <2>1, <2>3 DEF FromZero
<1>2. ASSUME NEW t \in Threads, vector_add(t) PROVE FromZero'
  <2>1. ASSUME NEW from, NEW to, from \in {"add", "store", "unlock"} \/ i[t] = 0,
               to \in {"add", "store", "unlock", "unlock other"} \/ i[t] = 0,
               Go(t, from, to), UNCHANGED i
        PROVE  FromZero'
    BY <2>1 DEF FromZero, Go, TypeOK
  <2>2. ASSUME NEW from, Return(t, from) PROVE FromZero'
    BY <2>2 DEF FromZero, Return, Go, TypeOK
  <2>3. CASE StoreElement(t)
    <3>1. CASE Go(t, "store", "add") /\ i' = [i EXCEPT ![t] = @ + 1]
      <4>1. t < created /\ created' = created
        BY <3>1 DEF Go
      <4>2. /\ pc'[t] = "add"
            /\ \A w \in Threads \ {t} : pc'[w] = pc[w] /\ i'[w] = i[w]
        BY <3>1 DEF Go, TypeOK
      <4> QED
        BY <4>1, <4>2 DEF FromZero
    <3> QED
      BY <2>1, <2>2, <2>3, <3>1 DEF StoreElement
  <2>4. CASE UnlockOther(t)
    BY <2>2, <2>4 DEF UnlockOther
  <2>5. CASE \/ LockGlobal(t) \/ LockFirst(t) \/ LockSecond(t) \/ UnlockGlobal(t)
             \/ TryFails(t) \/ BackOff(t) \/ LoadElement(t) \/ UnlockOne(t)
    <3>1. PICK from, to : Go(t, from, to) /\ UNCHANGED i
                          /\ (from \in {"add", "unlock"} \/ i[t] = 0)
                          /\ (to \in {"store", "unlock other"} \/ i[t] = 0)
      BY <2>5 DEF LockGlobal, LockFirst, LockSecond, UnlockGlobal, TryFails, BackOff,
         LoadElement, UnlockOne, FromZero, Go
    <3> QED
      BY <2>1, <3>1
  <2> QED
    BY <1>2, <2>3, <2>4, <2>5 DEF vector_add
<1> QED
  BY <1>1, <1>2 DEF Next, Step

\* The store of an element leaves every other element alone.
LEMMA StoreElementEffect ==
    ASSUME SInv, NEW t \in Threads, StoreElement(t)
    PROVE  /\ Adding(t)
           /\ \A u \in Vectors, k \in Index :
                v'[u][k] = IF u = dst(t) /\ k = i[t]
                             THEN v[dst(t)][i[t]] + v[src(t)][i[t]] ELSE v[u][k]
<1>1. TypeOK /\ dst(t) \in Vectors /\ src(t) \in Vectors /\ i[t] \in Index
  BY Pair DEF SInv, IInv, TypeOK
<1>2. pc[t] = "store" /\ t < created
  BY DEF StoreElement, Return, Go
<1>3. reg[t] = v[src(t)][i[t]] + IF is("vector-nolock") THEN 0 ELSE v[dst(t)][i[t]]
  BY <1>2 DEF SInv, RegIsFresh, Adding
<1>4. v[dst(t)][i[t]] \in Nat /\ v[src(t)][i[t]] \in Nat
  BY <1>1 DEF TypeOK
<1>5. NewElement(t) = v[dst(t)][i[t]] + v[src(t)][i[t]]
  BY <1>3, <1>4 DEF NewElement, is
<1>6. v' = [v EXCEPT ![dst(t)][i[t]] = NewElement(t)]
  BY DEF StoreElement
<1> QED
  BY <1>1, <1>2, <1>5, <1>6 DEF TypeOK, Adding

LEMMA RegStep == SInv /\ [Next]_vars => RegIsFresh'
<1> SUFFICES ASSUME SInv, [Next]_vars PROVE RegIsFresh'
  OBVIOUS
<1>0. /\ TypeOK /\ RegIsFresh /\ FromZero
      /\ UNCHANGED options /\ \A p : is(p)' = is(p)
      /\ \A w : dst(w)' = dst(w) /\ src(w)' = src(w)
      /\ \A w \in Threads : dst(w) \in Vectors /\ src(w) \in Vectors /\ dst(w) # src(w)
  BY OptionsStay, SamePairs, Pair DEF SInv, IInv
<1> DEFINE Fresh(w) ==
      Adding(w) /\ pc[w] = "store" =>
          reg[w] = v[src(w)][i[w]] + IF is("vector-nolock") THEN 0 ELSE v[dst(w)][i[w]]
<1>1. CASE Create \/ Finished \/ UNCHANGED vars
  <2>1. UNCHANGED <<pc, reg, i, v>> /\ (created' = created \/ created' = created + 1)
    BY <1>1 DEF Create, Finished, vars
  <2>2. ASSUME NEW w \in Threads PROVE Fresh(w)'
    <3>1. pc[w] = "store" => w < created
      BY <1>0 DEF FromZero
    <3> QED
      BY <1>0, <2>1, <3>1 DEF RegIsFresh, Adding
  <2> QED
    BY <2>2 DEF RegIsFresh
<1>2. ASSUME NEW t \in Threads, vector_add(t) PROVE RegIsFresh'
  <2>1. \A w \in Threads \ {t} :
           pc'[w] = pc[w] /\ reg'[w] = reg[w] /\ i'[w] = i[w] /\ created' = created
    BY <1>0, <1>2 DEF TypeOK, vector_add, LockGlobal, LockFirst, LockSecond, UnlockGlobal,
       TryFails, BackOff, LoadElement, StoreElement, UnlockOne, UnlockOther, Return, Go
  <2>2. CASE StoreElement(t)
    <3>1. ASSUME NEW w \in Threads, w # t, Adding(w), pc[w] = "store"
          PROVE  /\ v'[src(w)][i[w]] = v[src(w)][i[w]]
                 /\ ~is("vector-nolock") => v'[dst(w)][i[w]] = v[dst(w)][i[w]]
      <4>1. Adding(t) /\ i[w] \in Index
        BY <1>0, <2>2, StoreElementEffect DEF TypeOK
      <4>2. src(w) # dst(t) /\ (~is("vector-nolock") => dst(t) # dst(w))
        BY <3>1, <4>1, NoClash, Disjointness DEF SInv, Disjoint
      <4> QED
        BY <1>0, <2>2, <4>1, <4>2, StoreElementEffect
    <3>2. pc'[t] # "store"
      <4>1. pc'[t] \in {"add", "unlock", Begin(options.program), "done"}
        BY <1>0, <2>2 DEF StoreElement, Return, Go, TypeOK
      <4> QED
        BY <1>0, <4>1, BeginPlace
    <3>3. ASSUME NEW w \in Threads PROVE Fresh(w)'
      BY <1>0, <2>1, <3>1, <3>2 DEF RegIsFresh, Adding
    <3> QED
      BY <3>3 DEF RegIsFresh
  <2>3. CASE LoadElement(t)
    <3>1. v' = v /\ i' = i
      BY <2>3 DEF LoadElement
    <3>2. reg'[t] = v[src(t)][i[t]] + IF is("vector-nolock") THEN 0 ELSE v[dst(t)][i[t]]
      BY <1>0, <2>3 DEF LoadElement, TypeOK
    <3>3. ASSUME NEW w \in Threads PROVE Fresh(w)'
      BY <1>0, <2>1, <3>1, <3>2 DEF RegIsFresh, Adding
    <3> QED
      BY <3>3 DEF RegIsFresh
  <2>4. CASE ~StoreElement(t) /\ ~LoadElement(t)
    <3>1. v' = v
      BY <1>2, <2>4 DEF vector_add, LockGlobal, LockFirst, LockSecond, UnlockGlobal,
         TryFails, BackOff, UnlockOne, UnlockOther
    <3>2. pc'[t] # "store"
      BY <1>0, <1>2, <2>4, BeginPlace DEF TypeOK, vector_add, LockGlobal, LockFirst, LockSecond, Locked,
         UnlockGlobal, TryFails, BackOff, UnlockOne, UnlockOther, Return, Go
    <3>3. ASSUME NEW w \in Threads PROVE Fresh(w)'
      BY <1>0, <2>1, <3>1, <3>2 DEF RegIsFresh, Adding
    <3> QED
      BY <3>3 DEF RegIsFresh
  <2> QED
    BY <2>2, <2>3, <2>4
<1> QED
  BY <1>1, <1>2 DEF Next, Step

LEMMA SerialInvariance == OneWay /\ Spec => []SInv
<1>1. Init /\ OneWay => SInv
  <2>1. Init => FromZero /\ RegIsFresh
    <3>1. Init => \A t \in Threads : pc[t] \in {"add", "lock global", "lock first"} /\ i[t] = 0
      BY DEF Init, Begin
    <3> QED
      BY <3>1 DEF FromZero, RegIsFresh
  <2> QED
    BY <2>1, InitIInv DEF SInv
<1>2. SInv /\ [Next]_vars => SInv'
  <2>1. OneWay /\ [Next]_vars => OneWay'
    BY OptionsStay DEF OneWay, is
  <2> QED
    BY <2>1, StepIInv, FromZeroStep, RegStep DEF SInv
<1> QED
  BY <1>1, <1>2, PTL DEF Spec

-----------------------------------------------------------------------------
\* An element without what the calls under way have added to it.
Element(u, k) == v[u][k] - Cardinality(Added(u, k)) * v[Partner(u)][k]

LEMMA AddedFinite ==
    ASSUME NEW u, NEW k
    PROVE  IsFiniteSet(Added(u, k)) /\ Cardinality(Added(u, k)) \in Nat
<1>1. IsFiniteSet(Threads)
  BY FS_Interval DEF Threads
<1>2. Added(u, k) \subseteq Threads
  BY DEF Added
<1> QED
  BY <1>1, <1>2, FS_Subset, FS_CardinalityType

LEMMA Values ==
    ASSUME TypeOK
    PROVE  \A u \in Vectors, k \in Index : v[u][k] \in Int
<1>1. v \in [Vectors -> [Index -> Nat]]
  BY DEF TypeOK
<1> QED
  BY <1>1

LEMMA Distribute ==
    \A n, s \in Int : (n + 1) * s = n * s + s /\ n * s \in Int /\ 0 * s = 0
OBVIOUS

\* The source of a call under way is as the calls that have returned left it.
LEMMA SourceCommitted ==
    ASSUME SInv, NEW t \in Threads, Adding(t), NEW k \in Index
    PROVE  Added(src(t), k) = {} /\ Element(src(t), k) = v[src(t)][k]
<1>1. Added(src(t), k) = {}
  BY NoClash DEF Added, SInv
<1>2. TypeOK /\ src(t) \in Vectors /\ Partner(src(t)) \in Vectors
  BY Pair, Partners DEF SInv, IInv
<1>3. v[src(t)][k] \in Int /\ v[Partner(src(t))][k] \in Int
  BY <1>2, Values
<1>4. Cardinality(Added(src(t), k)) = 0
  BY <1>1, FS_EmptySet
<1>5. Element(src(t), k) = v[src(t)][k] - 0 * v[Partner(src(t))][k]
  BY <1>4 DEF Element
<1>6. 0 * v[Partner(src(t))][k] = 0
  BY <1>3, Distribute
<1>7. v[src(t)][k] - 0 = v[src(t)][k]
  BY <1>3
<1> QED
  BY <1>1, <1>5, <1>6, <1>7

\* A step that changes neither a vector nor what a call has added to one.
LEMMA QuietStep ==
    ASSUME UNCHANGED <<options, v>>, Left' = Left,
           \A u \in Vectors, k \in Index : Added(u, k)' = Added(u, k)
    PROVE  UNCHANGED Serial!vars
<1>1. Committed' = Committed
  BY DEF Committed, Partner
<1>2. [t \in Threads |-> <<dst(t), src(t)>>]' = [t \in Threads |-> <<dst(t), src(t)>>]
  BY SamePairs
<1> QED
  BY <1>1, <1>2 DEF Serial!vars

\* A thread that stores adds to no other vector than its destination, and what
\* the others have added stays.
LEMMA AddedByStore ==
    ASSUME SInv, NEW t \in Threads, StoreElement(t), NEW u \in Vectors, NEW k \in Index
    PROVE  /\ u # dst(t) => Added(u, k)' = Added(u, k)
           /\ u = dst(t) /\ i[t] + 1 < VECTOR_SIZE =>
                Added(u, k)' = IF k = i[t] THEN Added(u, k) \cup {t} ELSE Added(u, k)
           /\ u = dst(t) /\ ~(i[t] + 1 < VECTOR_SIZE) => Added(u, k)' = Added(u, k) \ {t}
<1>1. TypeOK /\ i[t] \in Index
  BY DEF SInv, IInv, TypeOK
<1>8. i[t] \in Int /\ k \in Int
  BY <1>1 DEF Index
<1>2. UNCHANGED options /\ \A w : dst(w)' = dst(w)
  <2>1. UNCHANGED options
    BY DEF StoreElement, Return, Go
  <2> QED
    BY <2>1, SamePairs
<1>3. \A w \in Threads \ {t} : Adding(w)' = Adding(w) /\ i'[w] = i[w]
  BY <1>1 DEF StoreElement, Return, Go, Adding, TypeOK
<1>4. Adding(t)
  BY StoreElementEffect
<1>5. u # dst(t) => Added(u, k)' = Added(u, k)
  BY <1>2, <1>3 DEF Added
<1>6. ASSUME u = dst(t), i[t] + 1 < VECTOR_SIZE
      PROVE  Added(u, k)' = IF k = i[t] THEN Added(u, k) \cup {t} ELSE Added(u, k)
  <2>1. Adding(t)' /\ i'[t] = i[t] + 1
    BY <1>1, <1>6 DEF StoreElement, Go, Adding, TypeOK
  <2>2. k < i'[t] <=> k < i[t] \/ k = i[t]
    BY <1>8, <2>1
  <2>3. t \in Added(u, k)' <=> k < i[t] \/ k = i[t]
    BY <1>2, <1>6, <2>1, <2>2 DEF Added
  <2>4. t \in Added(u, k) <=> k < i[t]
    BY <1>4, <1>6 DEF Added
  <2>5. \A w : w # t => (w \in Added(u, k)' <=> w \in Added(u, k))
    BY <1>2, <1>3 DEF Added
  <2> QED
    BY <2>3, <2>4, <2>5
<1>7. ASSUME u = dst(t), ~(i[t] + 1 < VECTOR_SIZE)
      PROVE  Added(u, k)' = Added(u, k) \ {t}
  <2>1. Adding(t)' => i'[t] = 0
    BY <1>1, <1>7 DEF StoreElement, Return, Go, Adding, TypeOK
  <2>2. ~(k < 0)
    BY DEF Index
  <2>3. t \notin Added(u, k)'
    BY <2>1, <2>2 DEF Added
  <2> QED
    BY <1>2, <1>3, <2>3 DEF Added
<1> QED
  BY <1>5, <1>6, <1>7

\* Storing an element that is not the last commits nothing; storing the last
\* adds the whole source.
LEMMA ElementByStore ==
    ASSUME SInv, NEW t \in Threads, StoreElement(t), NEW u \in Vectors, NEW k \in Index
    PROVE  Element(u, k)' = IF u = dst(t) /\ ~(i[t] + 1 < VECTOR_SIZE)
                              THEN Element(u, k) + v[src(t)][k] ELSE Element(u, k)
<1> DEFINE n == Cardinality(Added(u, k))
<1>0. /\ TypeOK /\ dst(t) \in Vectors /\ src(t) \in Vectors /\ dst(t) # src(t)
      /\ Partner(u) \in Vectors /\ Partner(u)' = Partner(u) /\ i[t] \in Index
      /\ Partner(dst(t)) = src(t)
      /\ Partner(u) = dst(t) => u = src(t)
      /\ Adding(t)
  BY Pair, Partners, StoreElementEffect DEF SInv, IInv, TypeOK, Partner
<1>1. v[u][k] \in Int /\ v[Partner(u)][k] \in Int /\ n \in Nat /\ IsFiniteSet(Added(u, k))
      /\ v[src(t)][k] \in Int /\ v[src(t)][i[t]] \in Int
  BY <1>0, AddedFinite, Values
<1>2. Element(u, k)' = v'[u][k] - Cardinality(Added(u, k)') * v'[Partner(u)][k]
  BY <1>0 DEF Element
<1>3. CASE u # dst(t)
  <2>1. Added(u, k)' = Added(u, k) /\ v'[u][k] = v[u][k]
    BY <1>3, AddedByStore, StoreElementEffect
  <2>2. CASE u # src(t)
    <3>1. v'[Partner(u)][k] = v[Partner(u)][k]
      BY <1>0, <2>2, StoreElementEffect
    <3> QED
      BY <1>2, <1>3, <2>1, <3>1 DEF Element
  <2>3. CASE u = src(t)
    <3>1. n = 0
      BY <1>0, <2>3, SourceCommitted, FS_EmptySet
    <3>2. v'[Partner(u)][k] \in Int
      <4>1. v'[Partner(u)][k] \in {v[Partner(u)][k], v[dst(t)][i[t]] + v[src(t)][i[t]]}
        BY <1>0, StoreElementEffect
      <4>2. v[dst(t)][i[t]] \in Int
        BY <1>0, Values
      <4> QED
        BY <1>1, <4>1, <4>2
    <3> QED
      BY <1>1, <1>2, <1>3, <2>1, <3>1, <3>2, Distribute DEF Element
  <2> QED
    BY <2>2, <2>3
<1>4. CASE u = dst(t)
  <2> DEFINE s == v[src(t)][k]
  <2>1. v'[Partner(u)][k] = s /\ Partner(u) = src(t) /\ s \in Int
    BY <1>0, <1>1, <1>4, StoreElementEffect
  <2>2. Element(u, k) = v[u][k] - n * s
    BY <2>1 DEF Element
  <2>3. Element(u, k)' = v'[u][k] - Cardinality(Added(u, k)') * s
    BY <1>2, <2>1
  <2>4. v'[u][k] = IF k = i[t] THEN v[u][k] + s ELSE v[u][k]
    BY <1>4, StoreElementEffect
  <2>5. CASE i[t] + 1 < VECTOR_SIZE
    <3>1. CASE k = i[t]
      <4>1. Added(u, k)' = Added(u, k) \cup {t} /\ t \notin Added(u, k)
        BY <1>4, <2>5, <3>1, AddedByStore DEF Added, Index
      <4>2. Cardinality(Added(u, k)') = n + 1
        BY <1>1, <4>1, FS_AddElement
      <4> HIDE DEF n, s
      <4> QED
        BY <1>1, <1>4, <2>1, <2>2, <2>3, <2>4, <2>5, <3>1, <4>2, Distribute
    <3>2. CASE k # i[t]
      <4>1. Added(u, k)' = Added(u, k)
        BY <1>4, <2>5, <3>2, AddedByStore
      <4> QED
        BY <1>4, <2>2, <2>3, <2>4, <2>5, <3>2, <4>1
    <3> QED
      BY <3>1, <3>2
  <2>6. CASE ~(i[t] + 1 < VECTOR_SIZE)
    <3>1. Added(u, k)' = Added(u, k) \ {t}
      BY <1>4, <2>6, AddedByStore
    <3>2. k \in Int /\ i[t] \in Int /\ i[t] < VECTOR_SIZE /\ k < VECTOR_SIZE
      BY <1>0 DEF Index
    <3>3. CASE k = i[t]
      <4>1. t \notin Added(u, k)
        BY <3>2, <3>3 DEF Added
      <4>2. Added(u, k)' = Added(u, k)
        BY <3>1, <4>1
      <4>3. v[u][k] \in Int /\ n * s \in Int
        BY <1>1, <2>1, Distribute
      <4> HIDE DEF n, s
      <4> QED
        BY <1>4, <2>1, <2>2, <2>3, <2>4, <2>6, <3>3, <4>2, <4>3 DEF n, s
    <3>4. CASE k # i[t]
      <4>1. k < i[t]
        BY <2>6, <3>2, <3>4
      <4>2. t \in Added(u, k)
        BY <1>0, <1>4, <4>1 DEF Added
      <4>3. Cardinality(Added(u, k)') = n - 1
        BY <1>1, <3>1, <4>2, FS_RemoveElement
      <4>4. n * s = (n - 1) * s + s /\ (n - 1) * s \in Int
        <5>1. n - 1 \in Int /\ n = (n - 1) + 1
          BY <1>1
        <5> HIDE DEF n, s
        <5> QED
          BY <2>1, <5>1, Distribute
      <4>5. v'[u][k] = v[u][k]
        BY <2>4, <3>4
      <4> HIDE DEF n, s
      <4> QED
        BY <1>1, <1>4, <2>1, <2>2, <2>3, <2>6, <4>3, <4>4, <4>5 DEF s
    <3> QED
      BY <3>3, <3>4
  <2> QED
    BY <2>5, <2>6
<1> QED
  BY <1>3, <1>4

\* Only the store of the last element is a step of VectorSerial, the call that
\* is being made.
LEMMA LastStore ==
    ASSUME SInv, NEW t \in Threads, StoreElement(t), ~(i[t] + 1 < VECTOR_SIZE)
    PROVE  Serial!vector_add(t)
<1>1. /\ TypeOK /\ dst(t) \in Vectors /\ src(t) \in Vectors /\ dst(t) # src(t)
      /\ Adding(t) /\ pc[t] = "store"
      /\ UNCHANGED options
  BY Pair, StoreElementEffect DEF SInv, IInv, StoreElement, Return, Go
<1>2. Left' = [Left EXCEPT ![t] = @ - 1] /\ Left[t] > 0
  <2>1. calls[t] \in Int /\ loops \in Int /\ calls[t] < loops
    <3>1. calls[t] \in 0 .. loops
      BY <1>1 DEF TypeOK
    <3>2. calls[t] < loops
      BY <1>1 DEF SInv, IInv, CallsLeft
    <3> QED
      BY <3>1, <3>2
  <2>2. Left[t] = loops - calls[t] - 0
    BY <1>1 DEF Left
  <2>3. Left'[t] = Left[t] - 1
    <3>1. CASE is("vector-nolock")
      <4>1. Return(t, "store")
        BY <3>1 DEF StoreElement
      <4>2. calls'[t] = calls[t] + 1 /\ pc'[t] \notin {"unlock", "unlock other"}
        BY <1>1, <4>1, BeginPlace DEF Return, Go, TypeOK
      <4>3. Left'[t] = loops - (calls[t] + 1) - 0
        BY <4>2 DEF Left
      <4> QED
        BY <2>1, <2>2, <4>3
    <3>2. CASE ~is("vector-nolock")
      <4>1. calls' = calls /\ pc'[t] = "unlock"
        BY <1>1, <3>2 DEF StoreElement, Go, TypeOK
      <4>2. Left'[t] = loops - calls[t] - 1
        BY <4>1 DEF Left
      <4> QED
        BY <2>1, <2>2, <4>2
    <3> QED
      BY <3>1, <3>2
  <2>4. \A w \in Threads \ {t} : pc'[w] = pc[w] /\ calls'[w] = calls[w]
    BY <1>1 DEF StoreElement, Return, Go, TypeOK
  <2>5. Left'[t] = Left[t] - 1 /\ \A w \in Threads \ {t} : Left'[w] = Left[w]
    BY <2>3, <2>4 DEF Left
  <2>6. DOMAIN Left = Threads /\ DOMAIN Left' = Threads
        /\ Left = [w \in Threads |-> Left[w]] /\ Left' = [w \in Threads |-> Left'[w]]
    BY DEF Left
  <2> QED
    BY <2>1, <2>2, <2>5, <2>6
<1>3. Committed' = [Committed EXCEPT ![dst(t)] =
                      [k \in Index |-> Committed[dst(t)][k] + Committed[src(t)][k]]]
  <2>1. /\ Committed  = [u \in Vectors |-> [k \in Index |-> Element(u, k)]]
        /\ Committed' = [u \in Vectors |-> [k \in Index |-> Element(u, k)']]
    BY DEF Committed, Element
  <2>2. \A k \in Index : Element(src(t), k) = v[src(t)][k]
    BY <1>1, SourceCommitted
  <2>3. \A u \in Vectors, k \in Index :
          Element(u, k)' = IF u = dst(t) THEN Element(u, k) + Element(src(t), k) ELSE Element(u, k)
    BY <2>2, ElementByStore
  <2> HIDE DEF Element
  <2>4. \A k \in Index : /\ Committed[dst(t)][k] = Element(dst(t), k)
                         /\ Committed[src(t)][k] = Element(src(t), k)
    BY <1>1, <2>1
  <2>5. [k \in Index |-> Committed[dst(t)][k] + Committed[src(t)][k]]
          = [k \in Index |-> Element(dst(t), k) + Element(src(t), k)]
    BY <2>4
  <2>6. Committed' = [u \in Vectors |->
                        IF u = dst(t) THEN [k \in Index |-> Element(dst(t), k) + Element(src(t), k)]
                                      ELSE [k \in Index |-> Element(u, k)]]
    BY <2>1, <2>3
  <2> QED
    BY <1>1, <2>1, <2>5, <2>6
<1>4. UNCHANGED [w \in Threads |-> <<dst(w), src(w)>>]
  BY <1>1, SamePairs
<1> QED
  BY <1>1, <1>2, <1>3, <1>4 DEF Serial!vector_add

\* Every step makes one call of VectorSerial, or none.
LEMMA SerialStep == SInv /\ [Next]_vars => [\E t \in Threads : Serial!vector_add(t)]_(Serial!vars)
<1> SUFFICES ASSUME SInv, [Next]_vars
             PROVE  (\E t \in Threads : Serial!vector_add(t)) \/ UNCHANGED Serial!vars
  OBVIOUS
<1>0. TypeOK /\ FromZero /\ UNCHANGED options /\ \A w : dst(w)' = dst(w)
  BY OptionsStay, SamePairs DEF SInv, IInv
<1>1. CASE Create \/ Finished \/ UNCHANGED vars
  <2>1. UNCHANGED <<pc, calls, i, v>> /\ (created' = created \/ created' = created + 1)
    BY <1>1 DEF Create, Finished, vars
  <2>2. Left' = Left
    BY <2>1 DEF Left
  <2>3. ASSUME NEW u \in Vectors, NEW k \in Index PROVE Added(u, k)' = Added(u, k)
    <3>1. ~(k < 0)
      BY DEF Index
    <3>2. created \in Int /\ \A w \in Threads : w \in Int
      <4>1. created \in 0 .. num_threads
        BY <1>0 DEF TypeOK
      <4> QED
        BY <4>1 DEF Threads
    <3>3. \A w \in Threads : k < i[w] => w < created
      BY <1>0, <3>1 DEF FromZero
    <3>4. \A w \in Threads : k < i[w] => (Adding(w)' <=> Adding(w))
      BY <2>1, <3>2, <3>3 DEF Adding
    <3> QED
      BY <1>0, <2>1, <3>4 DEF Added
  <2> QED
    BY <1>0, <2>1, <2>2, <2>3, QuietStep
<1>2. ASSUME NEW t \in Threads, vector_add(t), ~StoreElement(t)
      PROVE  UNCHANGED Serial!vars
  <2>1. v' = v /\ created' = created
    BY <1>2 DEF vector_add, LockGlobal, LockFirst, LockSecond, UnlockGlobal, TryFails,
       BackOff, LoadElement, UnlockOne, UnlockOther, Return, Go
  <2>2. \A w \in Threads \ {t} : pc'[w] = pc[w] /\ calls'[w] = calls[w] /\ i'[w] = i[w]
    BY <1>0, <1>2 DEF TypeOK, vector_add, LockGlobal, LockFirst, LockSecond, UnlockGlobal,
       TryFails, BackOff, LoadElement, UnlockOne, UnlockOther, Return, Go
  <2>3. CASE UnlockOther(t)
    <3>1. pc[t] = "unlock other" /\ pc'[t] \notin {"unlock", "unlock other"} /\ i'[t] = 0
          /\ calls'[t] = calls[t] + 1
      BY <1>0, <2>3, BeginPlace DEF UnlockOther, Return, Go, TypeOK
    <3>2. calls[t] \in Int /\ loops \in Int
      <4>1. calls[t] \in 0 .. loops
        BY <1>0 DEF TypeOK
      <4> QED
        BY <4>1
    <3>3. loops - calls'[t] - 0 = loops - calls[t] - 1
      <4>1. calls'[t] = calls[t] + 1
        BY <3>1
      <4> QED
        BY <3>2, <4>1
    <3>4. Left' = Left
      BY <2>2, <3>1, <3>3 DEF Left
    <3>5. ASSUME NEW u \in Vectors, NEW k \in Index PROVE Added(u, k)' = Added(u, k)
      <4>1. ~(k < 0)
        BY DEF Index
      <4> QED
        BY <1>0, <2>1, <2>2, <3>1, <4>1 DEF Added, Adding
    <3> QED
      BY <1>0, <2>1, <3>4, <3>5, QuietStep
  <2>4. CASE ~UnlockOther(t)
    <3>1. i' = i /\ calls' = calls
      BY <1>2, <2>4 DEF vector_add, LockGlobal, LockFirst, LockSecond, UnlockGlobal, TryFails,
         BackOff, LoadElement, UnlockOne
    <3>2. pc[t] \in {"unlock", "unlock other"} <=> pc'[t] \in {"unlock", "unlock other"}
      BY <1>0, <1>2, <2>4 DEF TypeOK, vector_add, LockGlobal, LockFirst, LockSecond, Locked,
         UnlockGlobal, TryFails, BackOff, LoadElement, UnlockOne, Go
    <3>3. Left' = Left
      BY <2>2, <3>1, <3>2 DEF Left
    <3>4. ASSUME NEW u \in Vectors, NEW k \in Index PROVE Added(u, k)' = Added(u, k)
      <4>1. ~(k < 0)
        BY DEF Index
      <4>2. k < i[t] => pc[t] \in {"add", "store", "unlock", "unlock other"}
        BY <1>0, <4>1 DEF FromZero
      <4>3. k < i[t] => (Adding(t)' <=> Adding(t))
        BY <1>0, <1>2, <2>1, <2>4, <4>2 DEF Adding, TypeOK, vector_add, LockGlobal, LockFirst,
           LockSecond, UnlockGlobal, TryFails, BackOff, LoadElement, UnlockOne, Go
      <4> QED
        BY <1>0, <2>1, <2>2, <3>1, <4>3 DEF Added, Adding
    <3> QED
      BY <1>0, <2>1, <3>3, <3>4, QuietStep
  <2> QED
    BY <2>3, <2>4
<1>3. ASSUME NEW t \in Threads, StoreElement(t), i[t] + 1 < VECTOR_SIZE
      PROVE  UNCHANGED Serial!vars
  <2>1. Committed' = Committed
    <3>1. /\ Committed  = [u \in Vectors |-> [k \in Index |-> Element(u, k)]]
          /\ Committed' = [u \in Vectors |-> [k \in Index |-> Element(u, k)']]
      BY DEF Committed, Element
    <3>2. \A u \in Vectors, k \in Index : Element(u, k)' = Element(u, k)
      BY <1>3, ElementByStore
    <3> QED
      BY <3>1, <3>2
  <2>2. Left' = Left
    <3>1. calls' = calls /\ pc' = [pc EXCEPT ![t] = "add"] /\ pc[t] = "store"
      BY <1>3 DEF StoreElement, Go
    <3> QED
      BY <1>0, <3>1 DEF Left, TypeOK
  <2>3. UNCHANGED [w \in Threads |-> <<dst(w), src(w)>>]
    BY <1>0, SamePairs
  <2> QED
    BY <2>1, <2>2, <2>3 DEF Serial!vars
<1> QED
  BY <1>1, <1>2, <1>3, LastStore DEF Next, Step

\* Each call of vector_add appears to happen at one instant, for any number of
\* threads, calls and elements, in every program whose threads do not add two
\* vectors to each other without locks.
THEOREM VectorSerializable == OneWay /\ Spec => ImplementsSerial
<1>1. Init => Serial!Init
  <2> SUFFICES ASSUME Init PROVE Serial!Init
    OBVIOUS
  <2>1. TypeOK
    BY InitIInv DEF IInv
  <2>2. Left = [t \in Threads |-> loops]
    <3>1. Begin(options.program) \notin {"unlock", "unlock other"}
      BY <2>1, BeginPlace
    <3>2. \A t \in Threads : loops - calls[t] - 0 = loops
      BY DEF Init
    <3> QED
      BY <3>1, <3>2 DEF Init, Left
  <2>3. [t \in Threads |-> <<dst(t), src(t)>>] \in [Threads -> Vectors \X Vectors]
    BY <2>1, Pair
  <2>4. Committed = [u \in Vectors |-> [k \in Index |-> u]]
    <3>1. ASSUME NEW u \in Vectors, NEW k \in Index
          PROVE  v[u][k] - Cardinality(Added(u, k)) * v[Partner(u)][k] = u
      <4>1. Added(u, k) = {}
        BY DEF Added, Init, Index
      <4>2. u \in Int /\ Partner(u) \in Vectors /\ Partner(u) \in Int
        BY DEF Partner, Vectors
      <4>3. v[u][k] = u /\ v[Partner(u)][k] = Partner(u)
        BY <4>2 DEF Init, vector_init
      <4> QED
        BY <4>1, <4>2, <4>3, FS_EmptySet, Distribute
    <3> QED
      BY <3>1 DEF Committed
  <2> QED
    BY <2>2, <2>3, <2>4 DEF Serial!Init
<1>2. Spec => Init /\ [][Next]_vars
  BY DEF Spec
<1> QED
  BY <1>1, <1>2, SerialStep, SerialInvariance, PTL DEF ImplementsSerial, Serial!Spec

=============================================================================
