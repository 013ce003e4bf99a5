------------------------------- MODULE RWLock --------------------------------
(***************************************************************************)
(* reader-writer.c: the readers/writers lock that lets readers overtake    *)
(* writers.  The first reader to come takes w for all, the last to leave   *)
(* gives it back.                                                          *)
(***************************************************************************)
EXTENDS SemThreads

CONSTANTS
    num_readers,   \* argv[1]; the other threads are writers
    loops          \* argv[3]

ASSUME ReadersAssumption == num_readers \in 0 .. num_threads
ASSUME LoopsAssumption   == loops \in Nat \ {0}

Readers == 1 .. num_readers
Writers == num_readers + 1 .. num_threads

VARIABLES
    reader_count,
    value,         \* the shared variable the lock protects
    reg,           \* what a writer has loaded from it
    i              \* loop index of each thread

dataVars == <<reader_count, value, reg, i>>
vars     == <<semVars, dataVars>>

Init ==
    /\ sem = [s \in {"mutex", "w"} |-> 1]
    /\ pc = [t \in Threads |-> "idle"]
    /\ created = 0
    /\ reader_count = 0
    /\ value = 0
    /\ reg = [t \in Writers |-> 0]
    /\ i = [t \in Threads |-> 0]

-----------------------------------------------------------------------------
\* Mutant: no reader takes w.
CountIn_noLock(t) ==
    /\ Local(t, "r_count", "r_post")
    /\ reader_count' = reader_count + 1
    /\ UNCHANGED <<value, reg, i>>

\* reader_count++ and the test that follows it.
CountIn(t) ==
    /\ Local(t, "r_count", IF reader_count = 0 THEN "r_first" ELSE "r_post")
    /\ reader_count' = reader_count + 1
    /\ UNCHANGED <<value, reg, i>>

rwlock_acquire_readlock(t) ==
    \/ /\ \/ Sem_wait(t, "idle", "r_count", "mutex")
          \/ Sem_wait(t, "r_first", "r_post", "w")
          \/ Sem_post(t, "r_post", "reading", "mutex")
       /\ UNCHANGED dataVars
    \/ CountIn(t)

\* Mutant: the last reader keeps w.
CountOut_keepsW(t) ==
    /\ Local(t, "r_uncount", "r_unpost")
    /\ reader_count' = reader_count - 1
    /\ UNCHANGED <<value, reg, i>>

\* Mutant: each reader gives w back.
CountOut_always(t) ==
    /\ Local(t, "r_uncount", "r_last")
    /\ reader_count' = reader_count - 1
    /\ UNCHANGED <<value, reg, i>>

\* reader_count-- and the test that follows it.
CountOut(t) ==
    /\ Local(t, "r_uncount", IF reader_count = 1 THEN "r_last" ELSE "r_unpost")
    /\ reader_count' = reader_count - 1
    /\ UNCHANGED <<value, reg, i>>

\* The end of a turn of a thread's loop.
EndTurn(t) == i' = [i EXCEPT ![t] = @ + 1] /\ UNCHANGED <<reader_count, value, reg>>
Next_idle(t) == IF i[t] + 1 < loops THEN "idle" ELSE "done"

rwlock_release_readlock(t) ==
    \/ /\ \/ Sem_wait(t, "reading", "r_uncount", "mutex")
          \/ Sem_post(t, "r_last", "r_unpost", "w")
       /\ UNCHANGED dataVars
    \/ CountOut(t)
    \/ Sem_post(t, "r_unpost", Next_idle(t), "mutex") /\ EndTurn(t)

reader(t) == rwlock_acquire_readlock(t) \/ rwlock_release_readlock(t)

-----------------------------------------------------------------------------
rwlock_acquire_writelock(t) ==
    Sem_wait(t, "idle", "writing", "w") /\ UNCHANGED dataVars

\* value++ is a load and a store.
Load(t) ==
    /\ Local(t, "writing", "storing")
    /\ reg' = [reg EXCEPT ![t] = value]
    /\ UNCHANGED <<reader_count, value, i>>

Store(t) ==
    /\ Local(t, "storing", "written")
    /\ value' = reg[t] + 1
    /\ UNCHANGED <<reader_count, reg, i>>

rwlock_release_writelock(t) ==
    Sem_post(t, "written", Next_idle(t), "w") /\ EndTurn(t)

writer(t) ==
    \/ rwlock_acquire_writelock(t)
    \/ Load(t) \/ Store(t)
    \/ rwlock_release_writelock(t)

-----------------------------------------------------------------------------
Step ==
    \/ Create /\ UNCHANGED dataVars
    \/ \E t \in Readers : reader(t)
    \/ \E t \in Writers : writer(t)

Finished == AllDone /\ UNCHANGED vars

Next == Step \/ Finished

Spec == Init /\ [][Next]_vars

\* Some thread that can run does.  Every run is finite, loops being bounded.
FairSpec == Spec /\ WF_vars(Step)

-----------------------------------------------------------------------------
TypeOK ==
    /\ sem \in [{"mutex", "w"} -> 0 .. 1]
    /\ pc \in [Threads -> {"idle", "r_count", "r_first", "r_post", "reading",
                           "r_uncount", "r_last", "r_unpost",
                           "writing", "storing", "written", "done"}]
    /\ created \in 0 .. num_threads
    /\ reader_count \in 0 .. num_readers
    /\ value \in Nat
    /\ reg \in [Writers -> Nat]
    /\ i \in [Threads -> 0 .. loops]

Reading == {t \in Readers : pc[t] \in {"reading", "r_uncount"}}
Writing == {t \in Writers : pc[t] \in {"writing", "storing", "written"}}

\* No reader reads while a writer writes, and at most one writer writes.
Exclusion ==
    /\ Reading = {} \/ Writing = {}
    /\ \A t, u \in Writing : t = u

\* What a reader prints does not change under it: no step of a writer changes
\* value while a reader is between its acquire and its release.
StableRead == [][value' # value => Reading = {}]_vars

\* The program ends: no order of waits and posts leaves a thread behind.
Termination == <>AllDone

=============================================================================
