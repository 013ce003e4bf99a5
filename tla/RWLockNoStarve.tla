--------------------------- MODULE RWLockNoStarve ----------------------------
(***************************************************************************)
(* reader-writer-nostarve.c: the lock of RWLock behind a queue.  A thread  *)
(* holds queue until it has the lock, so that one that waits for rw_lock   *)
(* (here w, as in RWLock) keeps later ones out.  What both programs share, *)
(* the release of the locks, the increment and main, is that of RWLock.    *)
(***************************************************************************)
EXTENDS RWLock

QInit ==
    /\ sem = [s \in {"queue", "mutex", "w"} |-> 1]
    /\ pc = [t \in Threads |-> "idle"]
    /\ created = 0
    /\ reader_count = 0
    /\ value = 0
    /\ reg = [t \in Writers |-> 0]
    /\ i = [t \in Threads |-> 0]

q_CountIn(t) ==
    /\ Local(t, "r_count", "r_post")
    /\ reader_count' = reader_count + 1
    /\ UNCHANGED <<value, reg, i>>

\* Mutant: the queue is left before the lock is held.
q_acquire_readlock_early(t) ==
    \/ /\ \/ Sem_wait(t, "idle", "r_leave", "queue")
          \/ Sem_post(t, "r_leave", "r_enter", "queue")
          \/ Sem_wait(t, "r_enter", "r_test", "mutex")
          \/ Local(t, "r_test", IF reader_count = 0 THEN "r_first" ELSE "r_count")
          \/ Sem_wait(t, "r_first", "r_count", "w")
          \/ Sem_post(t, "r_post", "reading", "mutex")
       /\ UNCHANGED dataVars
    \/ q_CountIn(t)

q_acquire_readlock(t) ==
    \/ /\ \/ Sem_wait(t, "idle", "r_enter", "queue")
          \/ Sem_wait(t, "r_enter", "r_test", "mutex")
          \/ Local(t, "r_test", IF reader_count = 0 THEN "r_first" ELSE "r_count")
          \/ Sem_wait(t, "r_first", "r_count", "w")
          \/ Sem_post(t, "r_post", "r_leave", "mutex")
          \/ Sem_post(t, "r_leave", "reading", "queue")
       /\ UNCHANGED dataVars
    \/ q_CountIn(t)

q_acquire_writelock(t) ==
    /\ \/ Sem_wait(t, "idle", "w_first", "queue")
       \/ Sem_wait(t, "w_first", "w_leave", "w")
       \/ Sem_post(t, "w_leave", "writing", "queue")
    /\ UNCHANGED dataVars

q_reader(t) == q_acquire_readlock(t) \/ rwlock_release_readlock(t)

q_writer(t) ==
    \/ q_acquire_writelock(t)
    \/ Load(t) \/ Store(t)
    \/ rwlock_release_writelock(t)

QStep ==
    \/ Create /\ UNCHANGED dataVars
    \/ \E t \in Readers : q_reader(t)
    \/ \E t \in Writers : q_writer(t)

QSpec == QInit /\ [][QStep \/ Finished]_vars

QFairSpec == QSpec /\ WF_vars(QStep)

\* Threads that have the lock and have not begun to give it back.
Holding == {t \in Threads : pc[t] \in {"r_count", "r_post", "r_leave", "reading",
                                       "w_leave", "writing", "storing", "written"}}

\* A writer that waits for the lock gets it before any thread that comes after
\* it: while it waits, no thread but itself begins to hold the lock
\* ("nostarve").
WriterIsNext ==
    [][\A w \in Writers :
         pc[w] = "w_first" => Holding' \subseteq Holding \cup {w}]_vars

=============================================================================
