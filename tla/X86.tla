--------------------------------- MODULE X86 ---------------------------------
(***************************************************************************)
(* x86.py: one cpu that runs numthreads threads in turn.  An action is one *)
(* turn of the loop of cpu.run: an instruction, and the switch to another  *)
(* thread that a halt, a yield or the interrupt calls for.                 *)
(***************************************************************************)
EXTENDS X86Isa

CONSTANTS
    program, numthreads, reginit,    \* as in X86Threads
    intfreq,     \* instructions between interrupts
    intrand      \* TRUE: their number is random, at most intfreq

ASSUME NumThreadsAssumption == \A p \in DOMAIN program : numthreads[p] \in Nat \ {0}
ASSUME IntAssumption == intfreq \in Nat \ {0} /\ intrand \in BOOLEAN

VARIABLES
    prog,        \* the program that runs
    cpu,         \* PC, registers and conditions
    memory,
    saved,       \* what each process object holds of the cpu
    done,        \* processes that have halted
    active,      \* number of the others
    curr,        \* index of the current process
    interrupt    \* instructions left until the interrupt

vars == <<prog, cpu, memory, saved, done, active, curr, interrupt>>

\* The threads as they appear to the programs: the context of the current one
\* is in the cpu, those of the others are saved.
context == [t \in 0 .. numthreads[prog] - 1 |-> IF done[t] THEN [PC |-> -1]
                                                ELSE IF t = curr THEN cpu ELSE saved[t]]

T == INSTANCE X86Threads

Threads == T!Threads

setint == IF intrand THEN 1 .. intfreq ELSE {intfreq}

\* process.__init__ for each thread, restore of the first, setint.
Init ==
    /\ prog \in DOMAIN program
    /\ saved = [t \in Threads |-> T!InitContext(t)]
    /\ cpu = saved[0]
    /\ memory = <<>>
    /\ done = [t \in Threads |-> FALSE]
    /\ active = numthreads[prog]
    /\ curr = 0
    /\ interrupt \in setint

-----------------------------------------------------------------------------
\* proclist.__next__: q is the first process after p, cyclically, that is not
\* in d; p itself comes last.
Distance(p, q) == IF q > p THEN q - p ELSE q - p + numthreads[prog]

\* Mutant: the current process stays until it halts.
IsNext_stays(d, p, q) ==
    ~d[q] /\ \A u \in Threads : ~d[u] => Distance(p, q) % numthreads[prog] <= Distance(p, u) % numthreads[prog]

IsNext(d, p, q) ==
    ~d[q] /\ \A u \in Threads : ~d[u] => Distance(p, q) <= Distance(p, u)

op     == T!Fetch(cpu).op
result == T!Result(cpu, memory)

Execute ==
    /\ active > 0
    /\ cpu.PC \in DOMAIN program[prog]
    /\ UNCHANGED prog
    /\ memory' = result.memory

\* Mutant: the condition codes are not saved.
save_noConditions(table, p, c) ==
    [table EXCEPT ![p] = [c EXCEPT !.conditions = table[p].conditions]]

\* process.save, in a process table.
save(table, p, c) == [table EXCEPT ![p] = c]

\* An instruction that no switch follows.
Continue ==
    /\ Execute
    /\ op \notin {"halt", "yield"}
    /\ interrupt > 1
    /\ cpu' = result.cpu
    /\ interrupt' = interrupt - 1
    /\ UNCHANGED <<saved, done, active, curr>>

\* A yield, or the interrupt.
Interrupt ==
    /\ Execute
    /\ op # "halt"
    /\ op = "yield" \/ interrupt = 1
    /\ \E q \in Threads :
         LET table == save(saved, curr, result.cpu)
         IN  /\ IsNext(done, curr, q)
             /\ curr' = q
             /\ saved' = table
             /\ cpu' = table[q]
    /\ interrupt' \in setint
    /\ UNCHANGED <<done, active>>

\* halt: the next process is restored; the interrupt may come at once and
\* switch again.
HaltSwitch ==
    /\ Execute
    /\ op = "halt"
    /\ active > 1
    /\ active' = active - 1
    /\ \E q, r \in Threads :
         LET halted == [done EXCEPT ![curr] = TRUE]
             table  == save(saved, q, saved[q])
         IN  /\ done' = halted
             /\ IsNext(halted, curr, q)
             /\ \/ /\ interrupt > 1
                   /\ r = q
                   /\ interrupt' = interrupt - 1
                   /\ UNCHANGED saved
                \/ /\ interrupt = 1
                   /\ IsNext(halted, q, r)
                   /\ saved' = table
                   /\ interrupt' \in setint
             /\ curr' = r
             /\ cpu' = saved[r]

\* halt of the last process: run returns.
HaltLast ==
    /\ Execute
    /\ op = "halt"
    /\ active = 1
    /\ done' = [done EXCEPT ![curr] = TRUE]
    /\ active' = 0
    /\ cpu' = result.cpu
    /\ UNCHANGED <<saved, curr, interrupt>>

Step == Continue \/ Interrupt \/ HaltSwitch \/ HaltLast

\* The simulation has ended.
Finished == active = 0 /\ UNCHANGED vars

Next == Step \/ Finished

Spec == Init /\ [][Next]_vars

FairSpec == Spec /\ WF_vars(Step)

-----------------------------------------------------------------------------
\* One cpu and its switches are threads that share nothing but memory: a
\* context switch loses no register, condition or PC (cpu.run:748-767).
ImplementsThreads == T!TSpec

\* Every thread halts, and the simulation ends.
Termination == <>(active = 0)

=============================================================================
