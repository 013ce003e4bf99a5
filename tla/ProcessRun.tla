----------------------------- MODULE ProcessRun ------------------------------
(***************************************************************************)
(* process-run.py: one cpu, processes that compute or wait for an I/O, and *)
(* the policies for switching between them.  An action is one tick of the  *)
(* loop of scheduler.run.                                                  *)
(***************************************************************************)
EXTENDS Integers, Sequences, SequencesExt, FiniteSets

CONSTANTS NumProcs, MaxCode, MaxIO

ASSUME ProcAssumption == NumProcs \in Nat \ {0} /\ MaxCode \in Nat /\ MaxIO \in Nat

VARIABLES
    mode,     \* -S, -I and -L
    code,     \* instructions each process still has to execute
    sched,    \* state of each process, the current one, and whether the assertions held
    due       \* ticks until each I/O of each process finishes

procVars == <<mode, code, sched, due>>

Procs == 0 .. NumProcs - 1

Modes == [switch : {"ON_IO", "ON_END"}, iodone : {"LATER", "IMMEDIATE"}, io_length : 0 .. MaxIO]

\* The first process is made RUNNING before the first tick.
ProcInit ==
    /\ mode \in Modes
    /\ code \in [Procs -> SeqOf({"cpu", "io"}, MaxCode)]
    /\ sched = [state |-> [p \in Procs |-> IF p = 0 THEN "RUNNING" ELSE "READY"],
                curr  |-> 0,
                ok    |-> TRUE]
    /\ due = [p \in Procs |-> {}]

-----------------------------------------------------------------------------
(* The methods that move processes, from one value of sched to the next.   *)

\* move_to_ready, move_to_wait, move_to_running, move_to_done.
move(s, pid, expected, state) ==
    [s EXCEPT !.ok = @ /\ s.state[pid] = expected, !.state[pid] = state]

\* next_proc(pid).
run_proc(s, pid) == [move(s, pid, "READY", "RUNNING") EXCEPT !.curr = pid]

Ready(s) == {p \in Procs : s.state[p] = "READY"}

\* next_proc(): the first READY process after the current one, cyclically.
next_proc(s) ==
    LET distance(p) == (p - s.curr - 1) % NumProcs
    IN  IF Ready(s) = {} THEN s
        ELSE run_proc(s, CHOOSE p \in Ready(s) : \A q \in Ready(s) : distance(p) <= distance(q))

num_runnable(s) == Cardinality({p \in Procs : s.state[p] \in {"READY", "RUNNING"}})

check_if_done(s, c) ==
    IF c[s.curr] = <<>> /\ s.state[s.curr] = "RUNNING"
    THEN next_proc(move(s, s.curr, "RUNNING", "DONE")) ELSE s

\* Mutant: the process that runs is not preempted.
RunImmediately_both(s, pid) == run_proc(s, pid)

RunImmediately(s, pid) ==
    run_proc(IF s.curr # pid /\ s.state[s.curr] = "RUNNING"
             THEN move(s, s.curr, "RUNNING", "READY") ELSE s,
             pid)

\* Mutant: a process is run again only when it is alone.
RunLater_alone(s, pid) == IF num_runnable(s) = 1 THEN run_proc(s, pid) ELSE s

RunLater(s, pid) ==
    LET issuer == IF mode.switch = "ON_END" /\ num_runnable(s) > 1 THEN run_proc(s, pid) ELSE s
    IN  IF num_runnable(issuer) = 1 THEN run_proc(issuer, pid) ELSE issuer

io_done(s, pid) ==
    LET ready == move(s, pid, "WAIT", "READY")
    IN  check_if_done(IF mode.iodone = "IMMEDIATE" THEN RunImmediately(ready, pid)
                      ELSE RunLater(ready, pid), code)

-----------------------------------------------------------------------------
(* A tick: the I/Os that finish, then an instruction of the current        *)
(* process if it runs and has one.                                         *)

num_active == Cardinality({p \in Procs : sched.state[p] # "DONE"})

Finishing(p) == 1 \in due[p]

\* The loop over the processes, in order.
Woken ==
    LET after[n \in 0 .. NumProcs] ==
            IF n = 0 THEN sched
            ELSE IF Finishing(n - 1) THEN io_done(after[n - 1], n - 1) ELSE after[n - 1]
    IN  after[NumProcs]

\* The I/Os that are still to come: one of length 0 is due at a tick that has
\* passed and is never looked for.
Aged == [p \in Procs |-> {t - 1 : t \in {u \in due[p] : u > 1}}]

Tick(s) == num_active > 0 /\ sched.ok /\ sched' = s /\ UNCHANGED mode

Executes(s) == s.state[s.curr] = "RUNNING" /\ code[s.curr] # <<>>

pop(s) == [code EXCEPT ![s.curr] = Tail(@)]

NothingRuns(s) ==
    /\ ~Executes(s)
    /\ Tick(check_if_done(s, code))
    /\ due' = Aged
    /\ UNCHANGED code

Compute(s) ==
    /\ Executes(s)
    /\ Head(code[s.curr]) = "cpu"
    /\ Tick(check_if_done(s, pop(s)))
    /\ code' = pop(s)
    /\ due' = Aged

\* Mutant: the cpu is given away whatever the policy.
IssueIO_always(s) ==
    /\ Executes(s)
    /\ Head(code[s.curr]) = "io"
    /\ Tick(check_if_done(next_proc(move(s, s.curr, "RUNNING", "WAIT")), pop(s)))
    /\ code' = pop(s)
    /\ due' = [Aged EXCEPT ![s.curr] = @ \cup {mode.io_length}]

IssueIO(s) ==
    /\ Executes(s)
    /\ Head(code[s.curr]) = "io"
    /\ LET waits == move(s, s.curr, "RUNNING", "WAIT")
       IN  Tick(check_if_done(IF mode.switch = "ON_IO" THEN next_proc(waits) ELSE waits, pop(s)))
    /\ code' = pop(s)
    /\ due' = [Aged EXCEPT ![s.curr] = @ \cup {mode.io_length}]

ProcTick == \E s \in {Woken} : NothingRuns(s) \/ Compute(s) \/ IssueIO(s)

ProcFinished == num_active = 0 /\ UNCHANGED procVars

-----------------------------------------------------------------------------
\* No assertion has failed; only the current process runs; a process waits as
\* long as it has an I/O in flight, and no two I/Os finish at one tick.
TableConsistent ==
    /\ sched.ok
    /\ \A p \in Procs : sched.state[p] = "RUNNING" => p = sched.curr
    /\ mode.io_length > 0 => \A p \in Procs : (sched.state[p] = "WAIT") <=> due[p] # {}
    /\ \A p, q \in Procs : Finishing(p) /\ Finishing(q) => p = q

\* With SWITCH_ON_IO the cpu is never left idle while a process is ready.
NeverIdle ==
    mode.switch = "ON_IO" /\ Ready(sched) # {} => sched.state[sched.curr] = "RUNNING"

\* README:198-208.  With SWITCH_ON_END a process keeps the cpu until it is done;
\* with IO_RUN_IMMEDIATE a process executes in the tick in which its I/O finishes;
\* with IO_RUN_LATER that does not keep the one that runs from executing.
SwitchesAsAsked ==
    LET executes(p) == code[p] # <<>> => code'[p] = Tail(code[p])
    IN  /\ mode.switch = "ON_END" /\ sched'.curr # sched.curr => sched'.state[sched.curr] = "DONE"
        /\ mode.iodone = "IMMEDIATE" => \A p \in Procs : Finishing(p) => executes(p)
        /\ mode.iodone = "LATER" /\ sched.state[sched.curr] = "RUNNING" => executes(sched.curr)

AllDone == num_active = 0

\* An I/O of length 0 is never seen to finish.  Who has issued one waits for ever,
\* and so does, with SWITCH_ON_END, everybody else.
LeftWaiting ==
    /\ mode.io_length = 0
    /\ IF mode.switch = "ON_END" THEN sched.state[sched.curr] = "WAIT"
       ELSE \A p \in Procs : sched.state[p] \in {"WAIT", "DONE"}

=============================================================================
