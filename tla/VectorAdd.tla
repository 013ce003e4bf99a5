------------------------------ MODULE VectorAdd ------------------------------
(***************************************************************************)
(* The five programs of "32-Common_Concurrency_Problems": main-common.c    *)
(* and the vector_add of each.  Threads call vector_add(dst, src) loops    *)
(* times on two vectors they share, or with -p each on a pair of its own;  *)
(* with -d every second thread has its pair the other way round.           *)
(*                                                                         *)
(* options is the program and its flags; it never changes.  An element is  *)
(* added by a load and a store, since nothing but the locks makes it one   *)
(* step; fetch_and_add of vector-nolock.c is a load of the source and an   *)
(* atomic addition.                                                        *)
(***************************************************************************)
EXTENDS Integers, FiniteSets

CONSTANTS
    num_threads,    \* -n
    loops,          \* -l
    VECTOR_SIZE,
    Options         \* the programs, with their flags, that are considered

Programs == {"vector-deadlock", "vector-global-order", "vector-try-wait",
             "vector-avoid-hold-and-wait", "vector-nolock"}

ASSUME ArgsAssumption ==
    /\ num_threads \in Nat /\ loops \in Nat \ {0} /\ VECTOR_SIZE \in Nat \ {0}

ASSUME OptionsAssumption ==
    Options \subseteq [program : Programs, d : BOOLEAN, p : BOOLEAN]

Threads == 0 .. num_threads - 1
Vectors == 0 .. 2 * num_threads - 1
Index   == 0 .. VECTOR_SIZE - 1
Nobody  == -1

VARIABLES
    options,
    v,          \* values of each vector
    lock,       \* holder of the lock of each vector, or Nobody
    global,     \* holder of the lock of vector-avoid-hold-and-wait.c
    pc,
    i,          \* index in the loop of vector_add
    reg,        \* what each thread has loaded
    calls,      \* calls each thread has completed
    created     \* threads main has created

lockVars == <<lock, global>>
vars == <<options, v, lockVars, pc, i, reg, calls, created>>

-----------------------------------------------------------------------------
(* main and worker.                                                        *)

vector_0(t) == IF options.p THEN 2 * t ELSE 0
vector_1(t) == vector_0(t) + 1

vector_add_order(t) == options.d /\ t % 2 = 1

\* The arguments of vector_add.
dst(t) == IF vector_add_order(t) THEN vector_1(t) ELSE vector_0(t)
src(t) == IF vector_add_order(t) THEN vector_0(t) ELSE vector_1(t)

is(program) == options.program = program

\* Where vector_add starts.
Begin(program) ==
    CASE program = "vector-nolock" -> "add"
      [] program = "vector-avoid-hold-and-wait" -> "lock global"
      [] OTHER -> "lock first"

vector_init == [u \in Vectors |-> [k \in Index |-> u]]

Init ==
    /\ options \in Options
    /\ v = vector_init
    /\ lock = [u \in Vectors |-> Nobody]
    /\ global = Nobody
    /\ pc = [t \in Threads |-> Begin(options.program)]
    /\ i = [t \in Threads |-> 0]
    /\ reg = [t \in Threads |-> 0]
    /\ calls = [t \in Threads |-> 0]
    /\ created = 0

Create ==
    /\ created < num_threads
    /\ created' = created + 1
    /\ UNCHANGED <<options, v, lockVars, pc, i, reg, calls>>

Go(t, from, to) ==
    /\ t < created
    /\ pc[t] = from
    /\ pc' = [pc EXCEPT ![t] = to]
    /\ UNCHANGED <<options, created>>

\* Mutant: the index starts where the last call left it.
Return_keepsIndex(t, from) ==
    /\ Go(t, from, IF calls[t] + 1 < loops THEN Begin(options.program) ELSE "done")
    /\ calls' = [calls EXCEPT ![t] = @ + 1]
    /\ UNCHANGED i

\* The end of a call, and of a turn of the loop of worker.
Return(t, from) ==
    /\ Go(t, from, IF calls[t] + 1 < loops THEN Begin(options.program) ELSE "done")
    /\ calls' = [calls EXCEPT ![t] = @ + 1]
    /\ i' = [i EXCEPT ![t] = 0]

-----------------------------------------------------------------------------
(* The locks.                                                              *)

Smaller(t) == IF dst(t) < src(t) THEN dst(t) ELSE src(t)
Greater(t) == IF dst(t) < src(t) THEN src(t) ELSE dst(t)

\* Mutant: the destination first, whatever its address.
First_dst(t) == dst(t)

First(t)  == IF is("vector-global-order") THEN Smaller(t) ELSE dst(t)

Second(t) == IF First(t) = dst(t) THEN src(t) ELSE dst(t)

Lock(t, u) == lock[u] = Nobody /\ lock' = [lock EXCEPT ![u] = t]
Unlock(u)  == lock' = [lock EXCEPT ![u] = Nobody]

LockGlobal(t) ==
    /\ Go(t, "lock global", "lock first")
    /\ global = Nobody
    /\ global' = t
    /\ UNCHANGED <<v, lock, i, reg, calls>>

\* In vector-try-wait.c a trylock that fails goes back to the top, where it was.
LockFirst(t) ==
    /\ Go(t, "lock first", "lock second")
    /\ Lock(t, First(t))
    /\ UNCHANGED <<v, global, i, reg, calls>>

Locked == IF is("vector-avoid-hold-and-wait") THEN "unlock global" ELSE "add"

\* Mutant: the second lock is not taken.
LockSecond_missing(t) ==
    Go(t, "lock second", Locked) /\ UNCHANGED <<v, lockVars, i, reg, calls>>

LockSecond(t) ==
    /\ Go(t, "lock second", Locked)
    /\ Lock(t, Second(t))
    /\ UNCHANGED <<v, global, i, reg, calls>>

\* vector-try-wait.c: the second trylock fails.  retry, which is only printed,
\* is left out.
TryFails(t) ==
    /\ is("vector-try-wait")
    /\ lock[Second(t)] # Nobody
    /\ Go(t, "lock second", "back off")
    /\ UNCHANGED <<v, lockVars, i, reg, calls>>

BackOff(t) ==
    /\ Go(t, "back off", "lock first")
    /\ Unlock(dst(t))
    /\ UNCHANGED <<v, global, i, reg, calls>>

UnlockGlobal(t) ==
    /\ Go(t, "unlock global", "add")
    /\ global' = Nobody
    /\ UNCHANGED <<v, lock, i, reg, calls>>

\* All unlock the destination first but vector-global-order.c.
UnlockOne(t) ==
    /\ Go(t, "unlock", "unlock other")
    /\ Unlock(IF is("vector-global-order") THEN src(t) ELSE dst(t))
    /\ UNCHANGED <<v, global, i, reg, calls>>

UnlockOther(t) ==
    /\ Return(t, "unlock other")
    /\ Unlock(IF is("vector-global-order") THEN dst(t) ELSE src(t))
    /\ UNCHANGED <<v, global, reg>>

-----------------------------------------------------------------------------
(* The addition.                                                           *)

LoadElement(t) ==
    /\ Go(t, "add", "store")
    /\ reg' = [reg EXCEPT ![t] = v[src(t)][i[t]] + IF is("vector-nolock") THEN 0 ELSE v[dst(t)][i[t]]]
    /\ UNCHANGED <<v, lockVars, i, calls>>

\* What the store leaves in the element of the destination.
NewElement(t) == reg[t] + IF is("vector-nolock") THEN v[dst(t)][i[t]] ELSE 0

StoreElement(t) ==
    /\ v' = [v EXCEPT ![dst(t)][i[t]] = NewElement(t)]
    /\ IF i[t] + 1 < VECTOR_SIZE
         THEN /\ Go(t, "store", "add")
              /\ i' = [i EXCEPT ![t] = @ + 1]
              /\ UNCHANGED calls
         ELSE IF is("vector-nolock")
                THEN Return(t, "store")
                ELSE Go(t, "store", "unlock") /\ UNCHANGED <<i, calls>>
    /\ UNCHANGED <<lockVars, reg>>

-----------------------------------------------------------------------------
vector_add(t) ==
    \/ LockGlobal(t) \/ LockFirst(t) \/ LockSecond(t) \/ UnlockGlobal(t)
    \/ TryFails(t) \/ BackOff(t)
    \/ LoadElement(t) \/ StoreElement(t)
    \/ UnlockOne(t) \/ UnlockOther(t)

Step == Create \/ \E t \in Threads : vector_add(t)

AllDone == created = num_threads /\ \A t \in Threads : pc[t] = "done"

\* The joins of main end, and so does the program.
Finished == AllDone /\ UNCHANGED vars

Next == Step \/ Finished

Spec == Init /\ [][Next]_vars

\* The scheduler runs every thread that can always run.
FairSpec ==
    /\ Spec
    /\ WF_vars(Create)
    /\ \A t \in Threads : WF_vars(vector_add(t))

-----------------------------------------------------------------------------
TypeOK ==
    /\ options \in Options
    /\ v \in [Vectors -> [Index -> Nat]]
    /\ lock \in [Vectors -> Threads \cup {Nobody}]
    /\ global \in Threads \cup {Nobody}
    /\ pc \in [Threads -> {"lock global", "lock first", "lock second", "unlock global",
                           "back off", "add", "store", "unlock", "unlock other", "done"}]
    /\ i \in [Threads -> Index]
    /\ reg \in [Threads -> Nat]
    /\ calls \in [Threads -> 0 .. loops]
    /\ created \in 0 .. num_threads

Adding(t) == t < created /\ pc[t] \in {"add", "store"}

\* No thread adds into a vector that another reads or writes.
Disjoint ==
    ~is("vector-nolock") =>
        \A t, u \in Threads :
            Adding(t) /\ Adding(u) /\ t # u => dst(t) \notin {dst(u), src(u)}

\* The vector that is added to u: vector_0 and vector_1 of a thread are a pair.
Partner(u) == IF u % 2 = 0 THEN u + 1 ELSE u - 1

\* The calls under way that have added element k to vector u.
Added(u, k) == {t \in Threads : Adding(t) /\ dst(t) = u /\ k < i[t]}

\* The vectors without the elements that the calls under way have added.
Committed ==
    [u \in Vectors |-> [k \in Index |->
        v[u][k] - Cardinality(Added(u, k)) * v[Partner(u)][k]]]

\* A locked call counts as made when its addition is complete.
Left == [t \in Threads |-> loops - calls[t] - IF pc[t] \in {"unlock", "unlock other"} THEN 1 ELSE 0]

Serial == INSTANCE VectorSerial
            WITH vectors <- Committed, left <- Left,
                 pair <- [t \in Threads |-> <<dst(t), src(t)>>]

\* Each call of vector_add appears to happen at one instant, with the old
\* values of the source and of the destination, and none is lost
\* (vector-global-order.c:12 and its variants).
ImplementsSerial == Serial!Spec

\* With -d the threads of vector-try-wait.c may back off for ever, each when
\* another holds its second lock.
MayLivelock == is("vector-try-wait") /\ options.d /\ ~options.p

\* The program ends, unless it is one that may back off for ever and does: no
\* order of the locks leaves the threads waiting for each other.
Termination ==
    <>AllDone \/ (MayLivelock /\ []<>(\E t \in Threads : pc[t] = "back off"))

=============================================================================
