------------------------------- MODULE NSMutex -------------------------------
(***************************************************************************)
(* mutex-nostarve.c: a mutex made of semaphores that starves no thread,    *)
(* however unfair the semaphores are.  Threads gather in room 2, one at a  *)
(* time through turnstile t1; when room 1 is empty, t1 stays shut and they *)
(* leave room 2 one at a time through t2, which is the lock.               *)
(***************************************************************************)
EXTENDS SemThreads

VARIABLES
    room1, room2,
    reg,        \* what each thread has loaded of room2 for room2--
    passed      \* history: how often each thread has had the lock since
                \* thread 1 entered room 1

roomVars == <<room1, room2>>
vars     == <<semVars, roomVars, reg, passed>>

MaxPassed == 3   \* cap of the history

Init ==
    /\ sem = [s \in {"mutex", "t1", "t2"} |-> IF s = "t2" THEN 0 ELSE 1]
    /\ pc = [t \in Threads |-> "begin"]
    /\ created = 0
    /\ room1 = 0
    /\ room2 = 0
    /\ reg = [t \in Threads |-> 0]
    /\ passed = [t \in Threads |-> 0]

-----------------------------------------------------------------------------
EnterRoom1(t) ==
    /\ Local(t, "enter1", "counted")
    /\ room1' = room1 + 1
    /\ passed' = IF t = 1 THEN [u \in Threads |-> 0] ELSE passed
    /\ UNCHANGED <<room2, reg>>

\* One step: OneToken shows that no room2-- runs meanwhile.
EnterRoom2(t) ==
    /\ Local(t, "enter2", "test")
    /\ room2' = room2 + 1
    /\ room1' = room1 - 1
    /\ UNCHANGED <<reg, passed>>

\* Mutant: t1 is opened again even when room 1 is empty.
TestRoom1_always(t) == Local(t, "test", "open t1")

TestRoom1(t) == Local(t, "test", IF room1 = 0 THEN "open t2" ELSE "open t1")

LoadRoom2(t) ==
    /\ Local(t, "load room2", "store room2")
    /\ reg' = [reg EXCEPT ![t] = room2]
    /\ UNCHANGED <<roomVars, passed>>

StoreRoom2(t) ==
    /\ Local(t, "store room2", "working")
    /\ room2' = reg[t] - 1
    /\ passed' = [passed EXCEPT ![t] = IF @ < MaxPassed THEN @ + 1 ELSE @]
    /\ UNCHANGED <<room1, reg>>

LockRoom1(t) == Sem_wait(t, "begin", "enter1", "mutex")

\* Mutant: the else is missing.
OpenTurnstile_both(t) ==
    \/ Sem_post(t, "open t1", "post t1", "mutex")
    \/ Sem_post(t, "post t1", "leave", "t1")
    \/ Sem_post(t, "open t2", "post t2", "mutex")
    \/ Sem_post(t, "post t2", "post t1", "t2")

\* The posts of mutex and of the turnstile that the test has chosen.
OpenTurnstile(t) ==
    \/ Sem_post(t, "open t1", "post t1", "mutex")
    \/ Sem_post(t, "post t1", "leave", "t1")
    \/ Sem_post(t, "open t2", "post t2", "mutex")
    \/ Sem_post(t, "post t2", "leave", "t2")

ns_mutex_acquire(t) ==
    \/ /\ \/ LockRoom1(t)
          \/ Sem_post(t, "counted", "gather", "mutex")
          \/ Sem_wait(t, "gather", "lock", "t1")
          \/ Sem_wait(t, "lock", "enter2", "mutex")
          \/ TestRoom1(t)
          \/ OpenTurnstile(t)
          \/ Sem_wait(t, "leave", "load room2", "t2")
       /\ UNCHANGED <<roomVars, reg, passed>>
    \/ EnterRoom1(t) \/ EnterRoom2(t)
    \/ LoadRoom2(t) \/ StoreRoom2(t)

-----------------------------------------------------------------------------
\* The worker of the program then returns (argv[2], loops, is read and never
\* used); a client of the mutex may also come back for another turn.
PostTurnstile(t) ==
    \E n \in {"t1", "t2"}, next \in {"done", "begin"} :
        Sem_post(t, IF n = "t1" THEN "release t1" ELSE "release t2", next, n)

\* Mutant: the lock passes through t1 each time.
Release_t1(t) ==
    \/ Local(t, "working", "release t1")
    \/ PostTurnstile(t)

\* The test of room2, and the post of the turnstile it chooses.
Release(t) ==
    \/ Local(t, "working", IF room2 = 0 THEN "release t1" ELSE "release t2")
    \/ PostTurnstile(t)

ns_mutex_release(t) == Release(t) /\ UNCHANGED <<roomVars, reg, passed>>

worker(t) == ns_mutex_acquire(t) \/ ns_mutex_release(t)

MainStep == Create /\ UNCHANGED <<roomVars, reg, passed>>

Finished == AllDone /\ UNCHANGED vars

Next == MainStep \/ (\E t \in Threads : worker(t)) \/ Finished

Spec == Init /\ [][Next]_vars

-----------------------------------------------------------------------------
At(S) == {t \in Threads : pc[t] \in S}

HasLock == At({"load room2", "store room2", "working", "release t1", "release t2"})

Gathering == At({"lock", "enter2", "test", "open t1", "post t1", "open t2", "post t2"})

\* The turnstiles are one token: at most one thread has the lock, and it never
\* meets one that gathers, so that room2 needs no lock in ns_mutex_acquire:93 and
\* ns_mutex_release:96.
OneToken == sem["t1"] + sem["t2"] + Cardinality(Gathering) + Cardinality(HasLock) = 1

\* While a thread waits in either room no other thread has the lock more than
\* twice: once with those already in room 2, once with its own group.
BoundedBypass ==
    1 \in At({"counted", "gather", "lock", "enter2", "test", "open t1", "post t1",
              "open t2", "post t2", "leave"})
      => \A t \in Threads \ {1} : passed[t] <= 2

\* A client of the mutex comes back, as the workers of the program do not.
Comes_back == \E t \in Threads : pc[t] \in {"release t1", "release t2"} /\ pc'[t] = "begin"

=============================================================================
