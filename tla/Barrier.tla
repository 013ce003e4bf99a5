------------------------------- MODULE Barrier -------------------------------
(***************************************************************************)
(* barrier.c: a barrier of a mutex m, a counter and a semaphore s.  The    *)
(* thread that completes the count posts s once for each thread.           *)
(***************************************************************************)
EXTENDS SemThreads

VARIABLES
    count,
    posts      \* posts of s that the loop of a thread has done

dataVars == <<count, posts>>
vars     == <<semVars, dataVars>>

\* barrier_init, called before any thread exists.
Init ==
    /\ sem = [x \in {"m", "s"} |-> IF x = "m" THEN 1 ELSE 0]
    /\ pc = [t \in Threads |-> "start"]
    /\ created = 0
    /\ count = 0
    /\ posts = [t \in Threads |-> 0]

-----------------------------------------------------------------------------
\* Mutant: the loop runs as soon as one thread is there.
CountIn_first(t) ==
    /\ Local(t, "counting", IF count + 1 <= num_threads THEN "posting" ELSE "leaving")
    /\ count' = count + 1
    /\ UNCHANGED posts

\* count++ and the test that follows it.
CountIn(t) ==
    /\ Local(t, "counting", IF count + 1 = num_threads THEN "posting" ELSE "leaving")
    /\ count' = count + 1
    /\ UNCHANGED posts

\* Mutant: one post too few.
PostLoop_short(t) ==
    /\ IF posts[t] + 1 < num_threads
         THEN /\ Sem_post(t, "posting", "posting", "s")
              /\ posts' = [posts EXCEPT ![t] = @ + 1]
         ELSE Local(t, "posting", "leaving") /\ UNCHANGED posts
    /\ UNCHANGED count

\* for (i = 0; i < num_threads; i++) Sem_post(s)
PostLoop(t) ==
    /\ IF posts[t] < num_threads
         THEN /\ Sem_post(t, "posting", "posting", "s")
              /\ posts' = [posts EXCEPT ![t] = @ + 1]
         ELSE Local(t, "posting", "leaving") /\ UNCHANGED posts
    /\ UNCHANGED count

barrier(t) ==
    \/ /\ \/ Sem_wait(t, "before", "counting", "m")
          \/ Sem_post(t, "leaving", "waiting", "m")
          \/ Sem_wait(t, "waiting", "passed", "s")
       /\ UNCHANGED dataVars
    \/ CountIn(t)
    \/ PostLoop(t)

\* child: a message, the barrier, a message.
child(t) ==
    \/ (Local(t, "start", "before") \/ Local(t, "passed", "done")) /\ UNCHANGED dataVars
    \/ barrier(t)

Step ==
    \/ Create /\ UNCHANGED dataVars
    \/ \E t \in Threads : child(t)

Finished == AllDone /\ UNCHANGED vars

Spec == Init /\ [][Step \/ Finished]_vars

-----------------------------------------------------------------------------
Labels == {"start", "before", "counting", "posting", "leaving", "waiting", "passed", "done"}

TypeOK ==
    /\ sem \in [{"m", "s"} -> Nat]
    /\ pc \in [Threads -> Labels]
    /\ created \in Nat
    /\ count \in Nat
    /\ posts \in [Threads -> 0 .. num_threads]

\* The threads that have come to the barrier and are counted.
Counted == {t \in Threads : pc[t] \in {"posting", "leaving", "waiting", "passed", "done"}}

\* Each child prints its "before" before any prints its "after"
\* (barrier.c:9): no thread is past the barrier while another, created or not,
\* has still to print.
BeforeFirst ==
    \A t, u \in Threads : pc[t] \in {"passed", "done"} => pc[u] \notin {"start", "before"}

=============================================================================
