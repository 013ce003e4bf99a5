------------------------------ MODULE X86Locks -------------------------------
(***************************************************************************)
(* The programs of the directory on the machine of X86, and what they owe  *)
(* their threads.  The lock programs increment count in a critical section *)
(* loops times; a waiter of wait-for-me.s waits for a signal.              *)
(***************************************************************************)
EXTENDS X86, X86Programs

CONSTANT loops    \* -a bx=loops for the lock programs, dx=loops for loop.s

Locks == {"test-and-set", "test-and-test-and-set", "ticket", "yield"}

Source ==
    [p \in Locks \cup {"wait-for-me", "loop"} |->
        CASE p = "test-and-set" -> test_and_set_s
          [] p = "test-and-test-and-set" -> test_and_test_and_set_s
          [] p = "ticket" -> ticket_s
          [] p = "yield" -> yield_s
          [] p = "wait-for-me" -> wait_for_me_s
          [] p = "loop" -> loop_s]

\* A thread of wait-for-me.s signals if ax is 1, and else waits.
ASSUME LocksAssumption ==
    /\ loops \in Nat \ {0}
    /\ \A p \in DOMAIN program :
         /\ p \in DOMAIN Source
         /\ program[p] = load(Source[p])
         /\ reginit[p] \in [0 .. numthreads[p] - 1 ->
                CASE p \in Locks -> [bx : {loops}]
                  [] p = "wait-for-me" -> [ax : {0, 1}]
                  [] p = "loop" -> [dx : {loops}]]

-----------------------------------------------------------------------------
\* The critical section: from the load of the counter to its store.
CounterRef == getarg(Source[prog], V("count"))
CritFirst  == CHOOSE a \in DOMAIN program[prog] : program[prog][a].src = CounterRef
CritLast   == CHOOSE a \in DOMAIN program[prog] : program[prog][a].dst = CounterRef

InCritical(t) == ~done[t] /\ context[t].PC \in CritFirst .. CritLast

\* At most one thread is in the critical section, wherever the interrupts fall, and
\* no increment is lost.
MutualExclusion ==
    prog \in Locks =>
        /\ \A t, u \in Threads : InCritical(t) /\ InCritical(u) => t = u
        /\ active = 0 => Read(memory, CounterRef.n) = numthreads[prog] * loops

\* ticket.s: the threads that have a ticket are those the turn has not passed,
\* no two wait with the same one, and who is served is the one whose turn it is.
At(lo, hi) == {t \in Threads : ~done[t] /\ context[t].PC \in loadaddr + lo .. loadaddr + hi}

TicketOrder ==
    LET next    == Read(memory, 100)
        turn    == Read(memory, 104)
        waiting == At(2, 4)
        served  == At(5, 9)
        mine(t) == context[t].registers["ax"]
    IN  /\ next - turn = Cardinality(waiting \cup served)
        /\ \A t \in waiting : /\ mine(t) \in turn .. next - 1
                              /\ served # {} => mine(t) # turn
        /\ \A t, u \in waiting : mine(t) = mine(u) => t = u

\* wait-for-me.s: a waiter halts only when the signal has been given.
SignalFirst == \A t \in Threads : done[t] => Read(memory, 2000) = 1

\* Each thread goes on in its turn: tickets are distinct and served in order, and a
\* waiter of wait-for-me.s halts only when the signal has been given.
InTurn ==
    /\ prog = "ticket" => TicketOrder
    /\ prog = "wait-for-me" => SignalFirst

\* loop.s ends when dx has come down to 0: "the last test ... finds dx and 0 to be
\* equal, and thus the subsequent jump does NOT take place" (README-race:153).
LoopEndsAtZero == prog = "loop" /\ active = 0 => cpu.registers["dx"] = 0

=============================================================================
