----------------------------- MODULE X86Threads ------------------------------
(***************************************************************************)
(* What x86.py simulates: threads that each have a cpu of their own and    *)
(* share a memory ("multiple threads", README-race).  At each step some    *)
(* thread that has not halted executes one instruction.                    *)
(***************************************************************************)
EXTENDS X86Isa

CONSTANTS        \* for each program that -p may name:
    program,     \* the instruction at each address
    numthreads,  \* -t
    reginit      \* the registers -a sets, for each thread

StackTop == 128000     \* memsize (128) * 1000

VARIABLES
    prog,       \* the program that runs
    context,    \* cpu of each thread
    memory,
    done        \* threads that have halted

Threads == 0 .. numthreads[prog] - 1

\* Registers are 0 unless -a sets them; each stack is 1000 below the last.
InitContext(t) ==
    [PC |-> loadaddr, conditions |-> no_conditions,
     registers |-> [r \in Regs |-> IF r = "sp" THEN StackTop - 1000 * t
                                   ELSE IF r \in DOMAIN reginit[prog][t] THEN reginit[prog][t][r]
                                   ELSE 0]]

TInit ==
    /\ prog \in DOMAIN program
    /\ context = [t \in Threads |-> InitContext(t)]
    /\ memory = <<>>
    /\ done = [t \in Threads |-> FALSE]

\* What executing the next instruction of a cpu gives.
Fetch(c)      == program[prog][c.PC]
Result(c, m)  == Exec(Fetch(c), [c EXCEPT !.PC = @ + 1], m)
Halts(c)      == Fetch(c).op = "halt"

\* A thread that has halted has no context.
Halted == [PC |-> -1]

TStep(t) ==
    /\ ~done[t]
    /\ memory' = Result(context[t], memory).memory
    /\ context' = [context EXCEPT ![t] = IF Halts(@) THEN Halted
                                          ELSE Result(@, memory).cpu]
    /\ done' = [done EXCEPT ![t] = Halts(context[t])]
    /\ UNCHANGED prog

TSpec == TInit /\ [][\E t \in Threads : TStep(t)]_<<prog, context, memory, done>>

=============================================================================
