------------------------------ MODULE X86Proofs ------------------------------
(***************************************************************************)
(* The machine of x86.py and the lock programs of X86Locks, proved for any *)
(* number of threads and loops and for interrupts that fall anywhere.      *)
(*                                                                         *)
(*  1. For any program the one cpu, with its saves and restores,           *)
(*     implements threads that have a cpu each, and active is the number   *)
(*     of those that have not halted.                                      *)
(*  2. load: which instruction is at which address (LoadIs, ...Code).      *)
(*  3. A step of the machine is the step of one thread (by 1), and what    *)
(*     each instruction does to it (Exec..., RunsTo, MovReg ...).          *)
(*  4. The steps of each program, as its lock and its count see them       *)
(*     (ExStep, CountStep, TicketStep, WaitStep).                          *)
(*  5. The invariants those steps keep (ExInv, CountInv, TicketInv,        *)
(*     WaitInv), and the properties that follow.                           *)
(***************************************************************************)
EXTENDS X86Locks, FiniteSetTheorems, NaturalsInduction, WellFoundedInduction, TLAPS

-----------------------------------------------------------------------------
(* The machine implements its threads.                                     *)

\* The saved contexts are a table of the threads, and the one that runs has
\* not halted; active counts those that have not.
Alive(d) == {t \in Threads : ~d[t]}

IInv ==
    /\ prog \in DOMAIN program
    /\ saved = [t \in Threads |-> saved[t]]
    /\ done \in [Threads -> BOOLEAN]
    /\ curr \in Threads
    /\ active > 0 => ~done[curr]
    /\ active = Cardinality(Alive(done))

LEMMA AliveFinite ==
    ASSUME prog \in DOMAIN program, NEW d
    PROVE  /\ IsFiniteSet(Threads) /\ Cardinality(Threads) = numthreads[prog] /\ 0 \in Threads
           /\ IsFiniteSet(Alive(d)) /\ Cardinality(Alive(d)) \in Nat
<1>1. Threads = 0 .. numthreads[prog] - 1 /\ numthreads[prog] \in Nat \ {0}
  BY NumThreadsAssumption DEF Threads, T!Threads
<1>2. IsFiniteSet(Threads) /\ Cardinality(Threads) = numthreads[prog]
  <2> DEFINE n == numthreads[prog]
             m == n - 1
  <2>1. m \in Int /\ 0 \in Int /\ ~ 0 > m /\ m - 0 + 1 = n
    BY <1>1
  <2>2. Threads = 0 .. m
    BY <1>1
  <2> HIDE DEF m, n
  <2>3. IsFiniteSet(0 .. m) /\ Cardinality(0 .. m) = IF 0 > m THEN 0 ELSE m - 0 + 1
    BY ONLY <2>1, FS_Interval
  <2>4. IsFiniteSet(Threads) /\ Cardinality(Threads) = n
    BY ONLY <2>1, <2>2, <2>3
  <2> QED BY <2>4 DEF n
<1> QED
  BY <1>1, <1>2, FS_Subset, FS_CardinalityType DEF Alive

\* A halt leaves one thread fewer.
LEMMA HaltCounts ==
    ASSUME prog \in DOMAIN program, done \in [Threads -> BOOLEAN], curr \in Threads, ~done[curr]
    PROVE  Cardinality(Alive([done EXCEPT ![curr] = TRUE])) = Cardinality(Alive(done)) - 1
<1> DEFINE d == [done EXCEPT ![curr] = TRUE]
<1>1. Alive(d) = Alive(done) \ {curr} /\ curr \in Alive(done)
  BY DEF Alive
<1>2. IsFiniteSet(Alive(done))
  BY AliveFinite
<1>3. Cardinality(Alive(done) \ {curr}) = Cardinality(Alive(done)) - 1
  <2> HIDE DEF d
  <2> QED BY <1>1, <1>2, FS_RemoveElement
<1> QED
  BY <1>1, <1>3

\* A table of contexts is a function on the threads, and so is one with an
\* entry changed.
LEMMA SavedTable ==
    ASSUME saved = [t \in Threads |-> saved[t]], NEW p \in Threads, NEW c
    PROVE  /\ save(saved, p, c) = [t \in Threads |-> IF t = p THEN c ELSE saved[t]]
           /\ save(saved, p, c) = [t \in Threads |-> save(saved, p, c)[t]]
<1>1. save(saved, p, c) = [t \in Threads |-> IF t = p THEN c ELSE saved[t]]
  BY DEF save
<1> QED BY <1>1

\* An instruction other than halt leaves its thread active.
LEMMA StaysActive ==
    ASSUME done \in [Threads -> BOOLEAN], ~done[curr], curr \in Threads, op # "halt"
    PROVE  done = [done EXCEPT ![curr] = T!Halts(cpu)]
<1>1. T!Halts(cpu) = FALSE
  BY DEF T!Halts, op
<1>2. done[curr] = FALSE
  OBVIOUS
<1> QED BY <1>1, <1>2

\* The program stays, and with it the threads.
LEMMA Kept ==
    ASSUME prog' = prog
    PROVE  /\ Threads' = Threads /\ T!Threads' = Threads
           /\ context' = [t \in Threads |-> IF done'[t] THEN T!Halted
                                            ELSE IF t = curr' THEN cpu' ELSE saved'[t]]
           /\ /\ prog \in DOMAIN program
              /\ saved' = [t \in Threads |-> saved'[t]]
              /\ done' \in [Threads -> BOOLEAN]
              /\ curr' \in Threads
              /\ active' > 0 => ~done'[curr']
              /\ active' = Cardinality(Alive(done'))
              => IInv'
<1>1. Threads' = Threads /\ T!Threads' = Threads
  BY DEF Threads, T!Threads
<1>2. context' = [t \in Threads |-> IF done'[t] THEN T!Halted
                                   ELSE IF t = curr' THEN cpu' ELSE saved'[t]]
  BY DEF context, Threads, T!Threads, T!Halted
<1>3. Alive(done)' = Alive(done')
  BY <1>1 DEF Alive
<1> QED
  BY <1>1, <1>2, <1>3 DEF IInv

-----------------------------------------------------------------------------
\* The initial state is that of the threads, and satisfies the invariant.
LEMMA InitRefines == Init => T!TInit /\ IInv
<1> SUFFICES ASSUME Init PROVE T!TInit /\ IInv
  OBVIOUS
<1>1. prog \in DOMAIN program /\ 0 \in Threads /\ Cardinality(Threads) = numthreads[prog]
  BY AliveFinite DEF Init
<1>2. saved = [t \in Threads |-> T!InitContext(t)] /\ done = [t \in Threads |-> FALSE]
  BY DEF Init
<1>3. IInv
  <2>1. Alive(done) = Threads
    BY <1>2 DEF Alive
  <2> QED
    BY <1>1, <1>2, <2>1 DEF Init, IInv
<1>4. context = [t \in Threads |-> T!InitContext(t)]
  BY <1>1, <1>2 DEF Init, context, Threads, T!Threads
<1> QED
  BY <1>1, <1>2, <1>3, <1>4 DEF Init, T!TInit, Threads

\* Every step is a step of the current thread and keeps the invariant.
LEMMA StepRefines == IInv /\ Step => T!TStep(curr) /\ IInv'
<1> SUFFICES ASSUME IInv, Step PROVE T!TStep(curr) /\ IInv'
  OBVIOUS
<1> DEFINE r == T!Result(cpu, memory)
<1>1. /\ ~done[curr] /\ curr \in Threads
      /\ context[curr] = cpu
      /\ memory' = r.memory
      /\ T!Halts(cpu) <=> op = "halt"
      /\ prog' = prog
  BY DEF IInv, Step, Continue, Interrupt, HaltSwitch, HaltLast, Execute, context, result,
         Threads, T!Threads, T!Halts, op
<1>10. Cardinality(Alive([done EXCEPT ![curr] = TRUE])) = Cardinality(Alive(done)) - 1
  BY <1>1, HaltCounts DEF IInv
<1>2. ASSUME /\ context' = [t \in Threads |-> IF t = curr
                              THEN IF T!Halts(cpu) THEN T!Halted ELSE r.cpu
                              ELSE context[t]],
             done' = [done EXCEPT ![curr] = T!Halts(cpu)]
      PROVE  T!TStep(curr)
  <2>1. context' = [context EXCEPT ![curr] = IF T!Halts(cpu) THEN T!Halted ELSE r.cpu]
    BY <1>2, <1>1 DEF context, Threads, T!Threads
  <2> QED
    BY <1>1, <1>2, <2>1 DEF T!TStep
<1>3. CASE Continue
  <2>1. ~T!Halts(cpu) /\ done' = [done EXCEPT ![curr] = T!Halts(cpu)]
    BY <1>1, <1>3, StaysActive DEF Continue, IInv
  <2>2. context' = [t \in Threads |-> IF t = curr THEN r.cpu ELSE context[t]]
    BY <1>1, <1>3 DEF Continue, context, Threads, T!Threads, result
  <2>3. IInv'
    BY <1>1, <1>3, Kept DEF Continue, IInv
  <2> QED
    BY <1>2, <2>1, <2>2, <2>3
<1>4. CASE Interrupt
  <2>1. ~T!Halts(cpu) /\ done' = [done EXCEPT ![curr] = T!Halts(cpu)] /\ done' = done
    BY <1>1, <1>4, StaysActive DEF Interrupt, IInv
  <2>2. PICK q \in Threads : /\ ~done[q]
                             /\ curr' = q
                             /\ saved' = save(saved, curr, r.cpu)
                             /\ cpu' = saved'[q]
    BY <1>4 DEF Interrupt, IsNext, result
  <2>3. saved' = [t \in Threads |-> IF t = curr THEN r.cpu ELSE saved[t]]
    BY <2>2, <1>1, SavedTable DEF IInv
  <2>4. context' = [t \in Threads |-> IF done[t] THEN T!Halted ELSE saved'[t]]
    BY <1>1, <2>1, <2>2, Kept
  <2>5. context' = [t \in Threads |-> IF t = curr THEN r.cpu ELSE context[t]]
    BY <1>1, <2>3, <2>4 DEF context, Threads, T!Threads, T!Halted
  <2>6. IInv'
    BY <1>1, <1>4, <2>1, <2>2, <2>3, Kept DEF IInv, Interrupt
  <2> QED
    BY <1>2, <2>1, <2>5, <2>6
<1>5. CASE HaltSwitch
  <2>1. T!Halts(cpu) /\ done' = [done EXCEPT ![curr] = TRUE]
    BY <1>1, <1>5 DEF HaltSwitch
  <2>2. PICK p \in Threads : /\ ~done'[p]
                             /\ curr' = p
                             /\ cpu' = saved[p]
                             /\ saved' = saved
    <3>1. PICK q \in Threads, p \in Threads :
             LET halted == [done EXCEPT ![curr] = TRUE]
             IN  /\ IsNext(halted, curr, q)
                 /\ \/ p = q /\ UNCHANGED saved
                    \/ IsNext(halted, q, p) /\ saved' = save(saved, q, saved[q])
                 /\ curr' = p
                 /\ cpu' = saved[p]
      BY <1>5 DEF HaltSwitch
    <3>2. save(saved, q, saved[q]) = saved
      BY DEF save, IInv
    <3>3. ~done'[p]
      BY <2>1, <3>1 DEF IsNext
    <3> QED BY <3>1, <3>2, <3>3
  <2>3. context' = [t \in Threads |-> IF done'[t] THEN T!Halted ELSE saved[t]]
    BY <1>1, <2>2, Kept
  <2>4. \A t \in Threads : done'[t] = (IF t = curr THEN TRUE ELSE done[t])
    BY <2>1 DEF IInv
  <2>5. context' = [t \in Threads |-> IF t = curr THEN T!Halted ELSE context[t]]
    BY <1>1, <2>3, <2>4 DEF context, Threads, T!Threads, T!Halted
  <2>6. IInv'
    BY <1>1, <1>5, <1>10, <2>1, <2>2, Kept DEF IInv, HaltSwitch
  <2> QED
    BY <1>2, <2>1, <2>5, <2>6
<1>6. CASE HaltLast
  <2>1. T!Halts(cpu) /\ done' = [done EXCEPT ![curr] = TRUE] /\ curr' = curr /\ saved' = saved
    BY <1>1, <1>6 DEF HaltLast
  <2>2. \A t \in Threads : done'[t] = (IF t = curr THEN TRUE ELSE done[t])
    BY <2>1 DEF IInv
  <2>3. context' = [t \in Threads |-> IF t = curr THEN T!Halted ELSE context[t]]
    BY <1>1, <2>1, <2>2 DEF context, Threads, T!Threads, T!Halted
  <2>4. IInv'
    BY <1>1, <1>6, <1>10, <2>1, Kept DEF IInv, HaltLast
  <2> QED
    BY <1>2, <2>1, <2>3, <2>4
<1> QED
  BY <1>3, <1>4, <1>5, <1>6 DEF Step

-----------------------------------------------------------------------------
\* The invariant of the machine, for any program.
THEOREM MachineInvariance == Spec => []IInv
<1>1. Init => IInv
  BY InitRefines
<1>2. IInv /\ [Next]_vars => IInv'
  <2>1. IInv /\ UNCHANGED vars => IInv'
    BY Kept DEF IInv, vars
  <2> QED
    BY <2>1, StepRefines DEF Next, Finished
<1> QED
  BY <1>1, <1>2, PTL DEF Spec

\* One cpu and its context switches implement threads that share nothing but
\* memory (cpu.run:719-774, process.save and restore:859-871): whatever the
\* program, the threads, the interrupts and their randomness.
THEOREM MachineImplementsThreads == Spec => ImplementsThreads
<1>1. Init => T!TInit
  BY InitRefines
<1>2. IInv /\ [Next]_vars
        => [\E t \in T!Threads : T!TStep(t)]_<<prog, context, memory, done>>
  <2>1. CASE Step
    BY <2>1, StepRefines DEF IInv, Threads
  <2>2. CASE UNCHANGED vars
    BY <2>2 DEF vars, context
  <2> QED
    BY <2>1, <2>2 DEF Next, Finished
<1> QED
  BY <1>1, <1>2, MachineInvariance, PTL DEF Spec, ImplementsThreads, T!TSpec

-----------------------------------------------------------------------------
(* What load makes of a program.                                           *)

\* A set of naturals that is not empty has a least member.
LEMMA LeastExists ==
    ASSUME NEW S \in SUBSET Nat, S # {} PROVE \E x \in S : \A y \in S : x <= y
<1> DEFINE less == {ss \in Nat \X Nat : ss[1] < ss[2]}
<1>1. IsWellFoundedOn(less, Nat)
  BY NatLessThanWellFounded DEF OpToRel
<1>2. PICK x \in S : \A y \in S : ~ (<<y, x>> \in less)
  BY <1>1, WFMin
<1>3. ASSUME NEW y \in S PROVE x <= y
  <2>1. <<y, x>> \in Nat \X Nat /\ ~ (<<y, x>> \in less)
    BY <1>2
  <2>2. ~ (y < x)
    BY <2>1
  <2> QED BY <2>2
<1> QED BY <1>3

\* A line of a program counts among those before the next.
LEMMA CountFinite ==
    ASSUME NEW lines, NEW kind, NEW k \in Nat
    PROVE  /\ IsFiniteSet({j \in 1 .. k - 1 : lines[j].kind = kind})
           /\ CountBefore(lines, k, kind) \in Nat
<1>1. IsFiniteSet(1 .. k - 1)
  BY FS_Interval
<1>2. {j \in 1 .. k - 1 : lines[j].kind = kind} \subseteq 1 .. k - 1
  OBVIOUS
<1> QED
  BY <1>1, <1>2, FS_Subset, FS_CardinalityType DEF CountBefore

\* The number of lines of a kind before line n.
LEMMA CountNat ==
    ASSUME NEW lines, NEW kind, NEW k \in Nat PROVE CountBefore(lines, k, kind) \in Nat
BY CountFinite

\* One line more, one more if it is of that kind.
LEMMA CountNext ==
    ASSUME NEW lines, NEW kind, NEW k \in Nat \ {0}
    PROVE  CountBefore(lines, k + 1, kind) =
             CountBefore(lines, k, kind) + IF lines[k].kind = kind THEN 1 ELSE 0
<1> DEFINE A == {j \in 1 .. k - 1 : lines[j].kind = kind}
           B == {j \in 1 .. (k + 1) - 1 : lines[j].kind = kind}
<1>1. /\ IsFiniteSet(A) /\ CountBefore(lines, k, kind) = Cardinality(A)
      /\ CountBefore(lines, k + 1, kind) = Cardinality(B) /\ Cardinality(A) \in Nat
  BY CountFinite DEF CountBefore
<1>2. CASE lines[k].kind = kind
  <2>1. B = A \cup {k} /\ k \notin A
    BY <1>2
  <2> HIDE DEF A, B
  <2>2. Cardinality(A \cup {k}) = Cardinality(A) + 1
    BY <1>1, <2>1, FS_AddElement
  <2> QED
    BY <1>1, <1>2, <2>1, <2>2
<1>3. CASE lines[k].kind # kind
  <2>1. A = B
    BY <1>3
  <2> HIDE DEF A, B
  <2> QED
    BY <1>1, <1>3, <2>1
<1> QED
  BY <1>2, <1>3

\* CountBefore by a table: it starts at 0 and goes up by one at each line of the kind.
Counts(lines, kind, at) ==
    /\ Len(lines) \in Nat
    /\ at \in [1 .. Len(lines) + 1 -> Nat]
    /\ at[1] = 0
    /\ \A k \in 1 .. Len(lines) : at[k + 1] = at[k] + IF lines[k].kind = kind THEN 1 ELSE 0

\* A function that starts at 0 and counts so is the number of lines before.
LEMMA CountIs ==
    ASSUME NEW lines, NEW kind, NEW at, Counts(lines, kind, at)
    PROVE  \A k \in 1 .. Len(lines) + 1 : CountBefore(lines, k, kind) = at[k]
<1> USE DEF Counts
<1> DEFINE wrong == {k \in 1 .. Len(lines) + 1 : CountBefore(lines, k, kind) # at[k]}
<1>1. CountBefore(lines, 1, kind) = 0
  <2>1. {j \in 1 .. 1 - 1 : lines[j].kind = kind} = {}
    OBVIOUS
  <2> QED
    BY <2>1, FS_EmptySet DEF CountBefore
<1>2. SUFFICES ASSUME wrong # {} PROVE FALSE
  BY <1>2
<1>3. PICK k \in wrong : \A j \in wrong : k <= j
  <2>1. wrong \subseteq Nat
    OBVIOUS
  <2> HIDE DEF wrong
  <2> QED
    BY <1>2, <2>1, LeastExists
<1>4. k \in 1 .. Len(lines) + 1 /\ CountBefore(lines, k, kind) # at[k]
  OBVIOUS
<1>5. k # 1
  BY <1>1, <1>4
<1>6. k - 1 \in 1 .. Len(lines) /\ k - 1 \notin wrong /\ (k - 1) + 1 = k
  BY <1>3, <1>4, <1>5
<1> DEFINE p == k - 1
<1>7. p \in 1 .. Len(lines) /\ p \in Nat \ {0} /\ p + 1 = k /\ CountBefore(lines, p, kind) = at[p]
  BY <1>6
<1> HIDE DEF p, wrong
<1>8. CountBefore(lines, p + 1, kind) = at[p + 1]
  <2>1. at[p + 1] = at[p] + IF lines[p].kind = kind THEN 1 ELSE 0
    BY <1>7
  <2> QED
    BY <1>7, <2>1, CountNext
<1> QED
  BY <1>4, <1>7, <1>8

\* The number of lines of a kind does not decrease.
LEMMA CountMonotone ==
    ASSUME NEW lines, NEW kind, NEW i \in Nat \ {0}, NEW j \in Nat, i < j, lines[i].kind = kind
    PROVE  CountBefore(lines, i, kind) < CountBefore(lines, j, kind)
<1> DEFINE A == {m \in 1 .. (i + 1) - 1 : lines[m].kind = kind}
           B == {m \in 1 .. j - 1 : lines[m].kind = kind}
<1>1. CountBefore(lines, i + 1, kind) = CountBefore(lines, i, kind) + 1
  BY CountNext
<1>2. A \subseteq B
  OBVIOUS
<1>3. IsFiniteSet(B)
  <2>1. IsFiniteSet(1 .. j - 1)
    BY FS_Interval
  <2>2. B \subseteq 1 .. j - 1
    OBVIOUS
  <2> HIDE DEF B
  <2> QED BY <2>1, <2>2, FS_Subset
<1>4. CountBefore(lines, i + 1, kind) = Cardinality(A) /\ CountBefore(lines, j, kind) = Cardinality(B)
  BY DEF CountBefore
<1> HIDE DEF A, B
<1>5. Cardinality(A) <= Cardinality(B)
  BY <1>2, <1>3, FS_Subset
<1>6. CountBefore(lines, i, kind) \in Nat /\ CountBefore(lines, j, kind) \in Nat
  BY CountNat
<1> QED
  BY <1>1, <1>4, <1>5, <1>6

\* The line of a name that one line only defines.
LEMMA LineOfIs ==
    ASSUME NEW lines, NEW kind, NEW name, NEW k \in 1 .. Len(lines), Len(lines) \in Nat,
           lines[k].kind = kind, lines[k].name = name,
           \A j \in 1 .. Len(lines) : lines[j].kind = kind /\ lines[j].name = name => j = k
    PROVE  LineOf(lines, kind, name) = k
BY DEF LineOf

\* The lines of the instructions, the address of one and its translation.
Code(lines) == {k \in 1 .. Len(lines) : lines[k].kind = "ins"}

Address(lines, k) == loadaddr + CountBefore(lines, k, "ins")

Translated(lines, x) == [op |-> x.op, src |-> getarg(lines, x.src), dst |-> getarg(lines, x.dst)]

\* load puts the instructions, translated, at the addresses from loadaddr on.
LEMMA LoadIs ==
    ASSUME NEW lines, Len(lines) \in Nat
    PROVE  /\ DOMAIN load(lines) = {Address(lines, k) : k \in Code(lines)}
           /\ \A k \in Code(lines) : load(lines)[Address(lines, k)] = Translated(lines, lines[k])
<1>1. load(lines) = [a \in {Address(lines, k) : k \in Code(lines)} |->
                       Translated(lines, lines[CHOOSE k \in Code(lines) : Address(lines, k) = a])]
  BY DEF load, Code, Address, Translated
<1>2. ASSUME NEW i \in Code(lines), NEW j \in Code(lines), Address(lines, i) = Address(lines, j)
      PROVE  i = j
  <2>1. CountBefore(lines, i, "ins") \in Nat /\ CountBefore(lines, j, "ins") \in Nat
    <3>1. i \in Nat /\ j \in Nat
      BY DEF Code
    <3> QED
      BY <3>1, CountNat
  <2>2. CountBefore(lines, i, "ins") = CountBefore(lines, j, "ins")
    BY <1>2, <2>1, LoadAddrAssumption DEF Address
  <2>3. i \in Nat \ {0} /\ j \in Nat \ {0} /\ lines[i].kind = "ins" /\ lines[j].kind = "ins"
    BY DEF Code
  <2>4. ~ (i < j) /\ ~ (j < i)
    BY <2>1, <2>2, <2>3, CountMonotone
  <2> QED
    BY <2>3, <2>4
<1>3. ASSUME NEW k \in Code(lines) PROVE (CHOOSE i \in Code(lines) : Address(lines, i) = Address(lines, k)) = k
  BY <1>2
<1>4. ASSUME NEW k \in Code(lines)
      PROVE  load(lines)[Address(lines, k)] =
               Translated(lines, lines[CHOOSE i \in Code(lines) : Address(lines, i) = Address(lines, k)])
  BY <1>1
<1> QED
  BY <1>1, <1>3, <1>4

-----------------------------------------------------------------------------
(* The programs, loaded.                                                   *)

\* An instruction whose operands have been translated, and a variable.
Do(op_, src, dst) == [op |-> op_, src |-> src, dst |-> dst]

Word(a) == M(a, "zero", "zero")

\* What an operand is translated to.
LEMMA OperandIs ==
    ASSUME NEW lines
    PROVE  /\ \A n : getarg(lines, I(n)) = I(n)
           /\ \A r : getarg(lines, R(r)) = R(r)
           /\ getarg(lines, None) = None
           /\ \A a : getarg(lines, Word(a)) = Word(a)
           /\ \A v : getarg(lines, V(v)) = Word(var_addr(lines, v))
           /\ \A l : getarg(lines, L(l)) = I(label_addr(lines, l))
BY DEF getarg, I, R, None, V, L, M, Word

\* What an instruction is translated to.
LEMMA TranslatedIs ==
    \A lines, op_, src, dst :
        Translated(lines, Ins(op_, src, dst)) = Do(op_, getarg(lines, src), getarg(lines, dst))
BY DEF Translated, Ins, Do

\* The code of test-and-set.s.
LEMMA TasLines ==
    /\ Len(test_and_set_s) = 17
    /\ test_and_set_s[1] = Var("mutex")
    /\ test_and_set_s[2] = Var("count")
    /\ test_and_set_s[3] = Label(".main")
    /\ test_and_set_s[4] = Label(".top")
    /\ test_and_set_s[5] = Label(".acquire")
    /\ test_and_set_s[6] = Ins("mov", I(1), ax)
    /\ test_and_set_s[7] = Ins("xchg", ax, V("mutex"))
    /\ test_and_set_s[8] = Ins("test", I(0), ax)
    /\ test_and_set_s[9] = Ins("jne", L(".acquire"), None)
    /\ test_and_set_s[10] = Ins("mov", V("count"), ax)
    /\ test_and_set_s[11] = Ins("add", I(1), ax)
    /\ test_and_set_s[12] = Ins("mov", ax, V("count"))
    /\ test_and_set_s[13] = Ins("mov", I(0), V("mutex"))
    /\ test_and_set_s[14] = Ins("sub", I(1), bx)
    /\ test_and_set_s[15] = Ins("test", I(0), bx)
    /\ test_and_set_s[16] = Ins("jgt", L(".top"), None)
    /\ test_and_set_s[17] = Ins("halt", None, None)
BY DEF test_and_set_s

\* test-and-set.s as it is loaded.
LEMMA TasCode ==
    /\ DOMAIN load(test_and_set_s) = loadaddr .. loadaddr + 11
    /\ load(test_and_set_s)[loadaddr + 0] = Do("mov", I(1), ax)
    /\ load(test_and_set_s)[loadaddr + 1] = Do("xchg", ax, Word(100))
    /\ load(test_and_set_s)[loadaddr + 2] = Do("test", I(0), ax)
    /\ load(test_and_set_s)[loadaddr + 3] = Do("jne", I(loadaddr + 0), None)
    /\ load(test_and_set_s)[loadaddr + 4] = Do("mov", Word(104), ax)
    /\ load(test_and_set_s)[loadaddr + 5] = Do("add", I(1), ax)
    /\ load(test_and_set_s)[loadaddr + 6] = Do("mov", ax, Word(104))
    /\ load(test_and_set_s)[loadaddr + 7] = Do("mov", I(0), Word(100))
    /\ load(test_and_set_s)[loadaddr + 8] = Do("sub", I(1), bx)
    /\ load(test_and_set_s)[loadaddr + 9] = Do("test", I(0), bx)
    /\ load(test_and_set_s)[loadaddr + 10] = Do("jgt", I(loadaddr + 0), None)
    /\ load(test_and_set_s)[loadaddr + 11] = Do("halt", None, None)
    /\ getarg(test_and_set_s, V("count")) = Word(104)
<1> DEFINE s     == test_and_set_s
           insAt == [k \in 1 .. 17 + 1 |-> IF k <= 5 THEN 0 ELSE k - 6]
           varAt == [k \in 1 .. 17 + 1 |-> IF k <= 2 THEN k - 1 ELSE 2]
<1>1. /\ Len(s) = 17
      /\ \A k \in 1 .. 17 : s[k].kind = IF k \in (6 .. 17) THEN "ins" ELSE IF k <= 2 THEN "var" ELSE "label"
      /\ s[1].name = "mutex"
      /\ s[2].name = "count"
      /\ s[3].name = ".main"
      /\ s[4].name = ".top"
      /\ s[5].name = ".acquire"
  BY TasLines DEF Var, Label, Ins
<1> HIDE DEF s
<1>2. \A k \in 1 .. 17 + 1 : CountBefore(s, k, "ins") = insAt[k]
  <2>1. Counts(s, "ins", insAt)
    BY <1>1 DEF Counts
  <2> HIDE DEF insAt
  <2>2. \A k \in 1 .. Len(s) + 1 : CountBefore(s, k, "ins") = insAt[k]
    BY <2>1, CountIs
  <2> QED
    BY <1>1, <2>2
<1>3. \A k \in 1 .. 17 + 1 : CountBefore(s, k, "var") = varAt[k]
  <2>1. Counts(s, "var", varAt)
    BY <1>1 DEF Counts
  <2> HIDE DEF varAt
  <2>2. \A k \in 1 .. Len(s) + 1 : CountBefore(s, k, "var") = varAt[k]
    BY <2>1, CountIs
  <2> QED
    BY <1>1, <2>2
<1>4. var_addr(s, "mutex") = 100
  <2>1. /\ 1 \in 1 .. Len(s) /\ Len(s) \in Nat /\ s[1].kind = "var" /\ s[1].name = "mutex"
        /\ \A j \in 1 .. Len(s) : s[j].kind = "var" /\ s[j].name = "mutex" => j = 1
    BY <1>1
  <2>2. LineOf(s, "var", "mutex") = 1
    BY <2>1, LineOfIs
  <2> QED
    BY <1>3, <2>2 DEF var_addr
<1>5. var_addr(s, "count") = 104
  <2>1. /\ 2 \in 1 .. Len(s) /\ Len(s) \in Nat /\ s[2].kind = "var" /\ s[2].name = "count"
        /\ \A j \in 1 .. Len(s) : s[j].kind = "var" /\ s[j].name = "count" => j = 2
    BY <1>1
  <2>2. LineOf(s, "var", "count") = 2
    BY <2>1, LineOfIs
  <2> QED
    BY <1>3, <2>2 DEF var_addr
<1>6. label_addr(s, ".top") = loadaddr + 0
  <2>1. /\ 4 \in 1 .. Len(s) /\ Len(s) \in Nat /\ s[4].kind = "label" /\ s[4].name = ".top"
        /\ \A j \in 1 .. Len(s) : s[j].kind = "label" /\ s[j].name = ".top" => j = 4
    BY <1>1
  <2>2. LineOf(s, "label", ".top") = 4
    BY <2>1, LineOfIs
  <2> QED
    BY <1>2, <2>2 DEF label_addr
<1>7. label_addr(s, ".acquire") = loadaddr + 0
  <2>1. /\ 5 \in 1 .. Len(s) /\ Len(s) \in Nat /\ s[5].kind = "label" /\ s[5].name = ".acquire"
        /\ \A j \in 1 .. Len(s) : s[j].kind = "label" /\ s[j].name = ".acquire" => j = 5
    BY <1>1
  <2>2. LineOf(s, "label", ".acquire") = 5
    BY <2>1, LineOfIs
  <2> QED
    BY <1>2, <2>2 DEF label_addr
<1>8. /\ Code(s) = (6 .. 17)
      /\ DOMAIN load(s) = {Address(s, k) : k \in Code(s)}
      /\ \A k \in Code(s) : /\ Address(s, k) = loadaddr + insAt[k]
                            /\ load(s)[Address(s, k)] = Translated(s, s[k])
  <2>1. Len(s) \in Nat /\ Code(s) = (6 .. 17) /\ Code(s) \subseteq 1 .. 17 + 1
    BY <1>1 DEF Code
  <2>2. \A k \in Code(s) : Address(s, k) = loadaddr + insAt[k]
    <3> HIDE DEF insAt
    <3> QED
      BY <1>2, <2>1 DEF Address
  <2> HIDE DEF insAt
  <2> QED
    BY <2>1, <2>2, LoadIs
<1>9. DOMAIN load(s) = loadaddr .. loadaddr + 11
  <2>1. DOMAIN load(s) = {loadaddr + insAt[k] : k \in Code(s)}
    BY <1>8
  <2>2. \A k \in Code(s) : insAt[k] \in 0 .. 11
    BY <1>8
  <2>3. \A d \in 0 .. 11 : \E k \in Code(s) : insAt[k] = d
    <3> SUFFICES ASSUME NEW d \in 0 .. 11 PROVE \E k \in Code(s) : insAt[k] = d
      OBVIOUS
    <3>1. CASE d \in 0 .. 11
      <4>1. d + 6 \in Code(s) /\ insAt[d + 6] = d
        BY <1>8, <3>1
      <4> QED
        BY <4>1
    <3> QED
      BY <3>1
  <2> HIDE DEF insAt
  <2> QED
    BY <2>1, <2>2, <2>3, LoadAddrAssumption
<1>10. /\ load(s)[loadaddr + 0] = Translated(s, test_and_set_s[6])
      /\ load(s)[loadaddr + 1] = Translated(s, test_and_set_s[7])
      /\ load(s)[loadaddr + 2] = Translated(s, test_and_set_s[8])
      /\ load(s)[loadaddr + 3] = Translated(s, test_and_set_s[9])
      /\ load(s)[loadaddr + 4] = Translated(s, test_and_set_s[10])
      /\ load(s)[loadaddr + 5] = Translated(s, test_and_set_s[11])
      /\ load(s)[loadaddr + 6] = Translated(s, test_and_set_s[12])
      /\ load(s)[loadaddr + 7] = Translated(s, test_and_set_s[13])
      /\ load(s)[loadaddr + 8] = Translated(s, test_and_set_s[14])
      /\ load(s)[loadaddr + 9] = Translated(s, test_and_set_s[15])
      /\ load(s)[loadaddr + 10] = Translated(s, test_and_set_s[16])
      /\ load(s)[loadaddr + 11] = Translated(s, test_and_set_s[17])
  <2>1. /\ 6 \in Code(s) /\ insAt[6] = 0
        /\ 7 \in Code(s) /\ insAt[7] = 1
        /\ 8 \in Code(s) /\ insAt[8] = 2
        /\ 9 \in Code(s) /\ insAt[9] = 3
        /\ 10 \in Code(s) /\ insAt[10] = 4
        /\ 11 \in Code(s) /\ insAt[11] = 5
        /\ 12 \in Code(s) /\ insAt[12] = 6
        /\ 13 \in Code(s) /\ insAt[13] = 7
        /\ 14 \in Code(s) /\ insAt[14] = 8
        /\ 15 \in Code(s) /\ insAt[15] = 9
        /\ 16 \in Code(s) /\ insAt[16] = 10
        /\ 17 \in Code(s) /\ insAt[17] = 11
    BY <1>8
  <2> HIDE DEF insAt
  <2> QED
    BY <1>8, <2>1 DEF s
<1>11. /\ getarg(s, ax) = ax
      /\ getarg(s, bx) = bx
      /\ getarg(s, V("mutex")) = Word(100)
      /\ getarg(s, V("count")) = Word(104)
      /\ getarg(s, L(".top")) = I(loadaddr + 0)
      /\ getarg(s, L(".acquire")) = I(loadaddr + 0)
  BY OperandIs, <1>4, <1>5, <1>6, <1>7 DEF ax, bx
<1> QED
  BY <1>9, <1>10, <1>11, TasLines, OperandIs, TranslatedIs, SMTT(30) DEF s

\* The code of test-and-test-and-set.s.
LEMMA TtasLines ==
    /\ Len(test_and_test_and_set_s) = 20
    /\ test_and_test_and_set_s[1] = Var("mutex")
    /\ test_and_test_and_set_s[2] = Var("count")
    /\ test_and_test_and_set_s[3] = Label(".main")
    /\ test_and_test_and_set_s[4] = Label(".top")
    /\ test_and_test_and_set_s[5] = Label(".acquire")
    /\ test_and_test_and_set_s[6] = Ins("mov", V("mutex"), ax)
    /\ test_and_test_and_set_s[7] = Ins("test", I(0), ax)
    /\ test_and_test_and_set_s[8] = Ins("jne", L(".acquire"), None)
    /\ test_and_test_and_set_s[9] = Ins("mov", I(1), ax)
    /\ test_and_test_and_set_s[10] = Ins("xchg", ax, V("mutex"))
    /\ test_and_test_and_set_s[11] = Ins("test", I(0), ax)
    /\ test_and_test_and_set_s[12] = Ins("jne", L(".acquire"), None)
    /\ test_and_test_and_set_s[13] = Ins("mov", V("count"), ax)
    /\ test_and_test_and_set_s[14] = Ins("add", I(1), ax)
    /\ test_and_test_and_set_s[15] = Ins("mov", ax, V("count"))
    /\ test_and_test_and_set_s[16] = Ins("mov", I(0), V("mutex"))
    /\ test_and_test_and_set_s[17] = Ins("sub", I(1), bx)
    /\ test_and_test_and_set_s[18] = Ins("test", I(0), bx)
    /\ test_and_test_and_set_s[19] = Ins("jgt", L(".top"), None)
    /\ test_and_test_and_set_s[20] = Ins("halt", None, None)
BY DEF test_and_test_and_set_s

\* test-and-test-and-set.s as it is loaded.
LEMMA TtasCode ==
    /\ DOMAIN load(test_and_test_and_set_s) = loadaddr .. loadaddr + 14
    /\ load(test_and_test_and_set_s)[loadaddr + 0] = Do("mov", Word(100), ax)
    /\ load(test_and_test_and_set_s)[loadaddr + 1] = Do("test", I(0), ax)
    /\ load(test_and_test_and_set_s)[loadaddr + 2] = Do("jne", I(loadaddr + 0), None)
    /\ load(test_and_test_and_set_s)[loadaddr + 3] = Do("mov", I(1), ax)
    /\ load(test_and_test_and_set_s)[loadaddr + 4] = Do("xchg", ax, Word(100))
    /\ load(test_and_test_and_set_s)[loadaddr + 5] = Do("test", I(0), ax)
    /\ load(test_and_test_and_set_s)[loadaddr + 6] = Do("jne", I(loadaddr + 0), None)
    /\ load(test_and_test_and_set_s)[loadaddr + 7] = Do("mov", Word(104), ax)
    /\ load(test_and_test_and_set_s)[loadaddr + 8] = Do("add", I(1), ax)
    /\ load(test_and_test_and_set_s)[loadaddr + 9] = Do("mov", ax, Word(104))
    /\ load(test_and_test_and_set_s)[loadaddr + 10] = Do("mov", I(0), Word(100))
    /\ load(test_and_test_and_set_s)[loadaddr + 11] = Do("sub", I(1), bx)
    /\ load(test_and_test_and_set_s)[loadaddr + 12] = Do("test", I(0), bx)
    /\ load(test_and_test_and_set_s)[loadaddr + 13] = Do("jgt", I(loadaddr + 0), None)
    /\ load(test_and_test_and_set_s)[loadaddr + 14] = Do("halt", None, None)
    /\ getarg(test_and_test_and_set_s, V("count")) = Word(104)
<1> DEFINE s     == test_and_test_and_set_s
           insAt == [k \in 1 .. 20 + 1 |-> IF k <= 5 THEN 0 ELSE k - 6]
           varAt == [k \in 1 .. 20 + 1 |-> IF k <= 2 THEN k - 1 ELSE 2]
<1>1. /\ Len(s) = 20
      /\ \A k \in 1 .. 20 : s[k].kind = IF k \in (6 .. 20) THEN "ins" ELSE IF k <= 2 THEN "var" ELSE "label"
      /\ s[1].name = "mutex"
      /\ s[2].name = "count"
      /\ s[3].name = ".main"
      /\ s[4].name = ".top"
      /\ s[5].name = ".acquire"
  BY TtasLines DEF Var, Label, Ins
<1> HIDE DEF s
<1>2. \A k \in 1 .. 20 + 1 : CountBefore(s, k, "ins") = insAt[k]
  <2>1. Counts(s, "ins", insAt)
    BY <1>1 DEF Counts
  <2> HIDE DEF insAt
  <2>2. \A k \in 1 .. Len(s) + 1 : CountBefore(s, k, "ins") = insAt[k]
    BY <2>1, CountIs
  <2> QED
    BY <1>1, <2>2
<1>3. \A k \in 1 .. 20 + 1 : CountBefore(s, k, "var") = varAt[k]
  <2>1. Counts(s, "var", varAt)
    BY <1>1 DEF Counts
  <2> HIDE DEF varAt
  <2>2. \A k \in 1 .. Len(s) + 1 : CountBefore(s, k, "var") = varAt[k]
    BY <2>1, CountIs
  <2> QED
    BY <1>1, <2>2
<1>4. var_addr(s, "mutex") = 100
  <2>1. /\ 1 \in 1 .. Len(s) /\ Len(s) \in Nat /\ s[1].kind = "var" /\ s[1].name = "mutex"
        /\ \A j \in 1 .. Len(s) : s[j].kind = "var" /\ s[j].name = "mutex" => j = 1
    BY <1>1
  <2>2. LineOf(s, "var", "mutex") = 1
    BY <2>1, LineOfIs
  <2> QED
    BY <1>3, <2>2 DEF var_addr
<1>5. var_addr(s, "count") = 104
  <2>1. /\ 2 \in 1 .. Len(s) /\ Len(s) \in Nat /\ s[2].kind = "var" /\ s[2].name = "count"
        /\ \A j \in 1 .. Len(s) : s[j].kind = "var" /\ s[j].name = "count" => j = 2
    BY <1>1
  <2>2. LineOf(s, "var", "count") = 2
    BY <2>1, LineOfIs
  <2> QED
    BY <1>3, <2>2 DEF var_addr
<1>6. label_addr(s, ".top") = loadaddr + 0
  <2>1. /\ 4 \in 1 .. Len(s) /\ Len(s) \in Nat /\ s[4].kind = "label" /\ s[4].name = ".top"
        /\ \A j \in 1 .. Len(s) : s[j].kind = "label" /\ s[j].name = ".top" => j = 4
    BY <1>1
  <2>2. LineOf(s, "label", ".top") = 4
    BY <2>1, LineOfIs
  <2> QED
    BY <1>2, <2>2 DEF label_addr
<1>7. label_addr(s, ".acquire") = loadaddr + 0
  <2>1. /\ 5 \in 1 .. Len(s) /\ Len(s) \in Nat /\ s[5].kind = "label" /\ s[5].name = ".acquire"
        /\ \A j \in 1 .. Len(s) : s[j].kind = "label" /\ s[j].name = ".acquire" => j = 5
    BY <1>1
  <2>2. LineOf(s, "label", ".acquire") = 5
    BY <2>1, LineOfIs
  <2> QED
    BY <1>2, <2>2 DEF label_addr
<1>8. /\ Code(s) = (6 .. 20)
      /\ DOMAIN load(s) = {Address(s, k) : k \in Code(s)}
      /\ \A k \in Code(s) : /\ Address(s, k) = loadaddr + insAt[k]
                            /\ load(s)[Address(s, k)] = Translated(s, s[k])
  <2>1. Len(s) \in Nat /\ Code(s) = (6 .. 20) /\ Code(s) \subseteq 1 .. 20 + 1
    BY <1>1 DEF Code
  <2>2. \A k \in Code(s) : Address(s, k) = loadaddr + insAt[k]
    <3> HIDE DEF insAt
    <3> QED
      BY <1>2, <2>1 DEF Address
  <2> HIDE DEF insAt
  <2> QED
    BY <2>1, <2>2, LoadIs
<1>9. DOMAIN load(s) = loadaddr .. loadaddr + 14
  <2>1. DOMAIN load(s) = {loadaddr + insAt[k] : k \in Code(s)}
    BY <1>8
  <2>2. \A k \in Code(s) : insAt[k] \in 0 .. 14
    BY <1>8
  <2>3. \A d \in 0 .. 14 : \E k \in Code(s) : insAt[k] = d
    <3> SUFFICES ASSUME NEW d \in 0 .. 14 PROVE \E k \in Code(s) : insAt[k] = d
      OBVIOUS
    <3>1. CASE d \in 0 .. 14
      <4>1. d + 6 \in Code(s) /\ insAt[d + 6] = d
        BY <1>8, <3>1
      <4> QED
        BY <4>1
    <3> QED
      BY <3>1
  <2> HIDE DEF insAt
  <2> QED
    BY <2>1, <2>2, <2>3, LoadAddrAssumption
<1>10. /\ load(s)[loadaddr + 0] = Translated(s, test_and_test_and_set_s[6])
      /\ load(s)[loadaddr + 1] = Translated(s, test_and_test_and_set_s[7])
      /\ load(s)[loadaddr + 2] = Translated(s, test_and_test_and_set_s[8])
      /\ load(s)[loadaddr + 3] = Translated(s, test_and_test_and_set_s[9])
      /\ load(s)[loadaddr + 4] = Translated(s, test_and_test_and_set_s[10])
      /\ load(s)[loadaddr + 5] = Translated(s, test_and_test_and_set_s[11])
      /\ load(s)[loadaddr + 6] = Translated(s, test_and_test_and_set_s[12])
      /\ load(s)[loadaddr + 7] = Translated(s, test_and_test_and_set_s[13])
      /\ load(s)[loadaddr + 8] = Translated(s, test_and_test_and_set_s[14])
      /\ load(s)[loadaddr + 9] = Translated(s, test_and_test_and_set_s[15])
      /\ load(s)[loadaddr + 10] = Translated(s, test_and_test_and_set_s[16])
      /\ load(s)[loadaddr + 11] = Translated(s, test_and_test_and_set_s[17])
      /\ load(s)[loadaddr + 12] = Translated(s, test_and_test_and_set_s[18])
      /\ load(s)[loadaddr + 13] = Translated(s, test_and_test_and_set_s[19])
      /\ load(s)[loadaddr + 14] = Translated(s, test_and_test_and_set_s[20])
  <2>1. /\ 6 \in Code(s) /\ insAt[6] = 0
        /\ 7 \in Code(s) /\ insAt[7] = 1
        /\ 8 \in Code(s) /\ insAt[8] = 2
        /\ 9 \in Code(s) /\ insAt[9] = 3
        /\ 10 \in Code(s) /\ insAt[10] = 4
        /\ 11 \in Code(s) /\ insAt[11] = 5
        /\ 12 \in Code(s) /\ insAt[12] = 6
        /\ 13 \in Code(s) /\ insAt[13] = 7
        /\ 14 \in Code(s) /\ insAt[14] = 8
        /\ 15 \in Code(s) /\ insAt[15] = 9
        /\ 16 \in Code(s) /\ insAt[16] = 10
        /\ 17 \in Code(s) /\ insAt[17] = 11
        /\ 18 \in Code(s) /\ insAt[18] = 12
        /\ 19 \in Code(s) /\ insAt[19] = 13
        /\ 20 \in Code(s) /\ insAt[20] = 14
    BY <1>8
  <2> HIDE DEF insAt
  <2> QED
    BY <1>8, <2>1 DEF s
<1>11. /\ getarg(s, ax) = ax
      /\ getarg(s, bx) = bx
      /\ getarg(s, V("mutex")) = Word(100)
      /\ getarg(s, V("count")) = Word(104)
      /\ getarg(s, L(".top")) = I(loadaddr + 0)
      /\ getarg(s, L(".acquire")) = I(loadaddr + 0)
  BY OperandIs, <1>4, <1>5, <1>6, <1>7 DEF ax, bx
<1> QED
  BY <1>9, <1>10, <1>11, TtasLines, OperandIs, TranslatedIs, SMTT(30) DEF s

\* The code of ticket.s.
LEMMA TicketLines ==
    /\ Len(ticket_s) = 21
    /\ ticket_s[1] = Var("ticket")
    /\ ticket_s[2] = Var("turn")
    /\ ticket_s[3] = Var("count")
    /\ ticket_s[4] = Label(".main")
    /\ ticket_s[5] = Label(".top")
    /\ ticket_s[6] = Label(".acquire")
    /\ ticket_s[7] = Ins("mov", I(1), ax)
    /\ ticket_s[8] = Ins("fetchadd", ax, V("ticket"))
    /\ ticket_s[9] = Label(".tryagain")
    /\ ticket_s[10] = Ins("mov", V("turn"), cx)
    /\ ticket_s[11] = Ins("test", cx, ax)
    /\ ticket_s[12] = Ins("jne", L(".tryagain"), None)
    /\ ticket_s[13] = Ins("mov", V("count"), ax)
    /\ ticket_s[14] = Ins("add", I(1), ax)
    /\ ticket_s[15] = Ins("mov", ax, V("count"))
    /\ ticket_s[16] = Ins("mov", I(1), ax)
    /\ ticket_s[17] = Ins("fetchadd", ax, V("turn"))
    /\ ticket_s[18] = Ins("sub", I(1), bx)
    /\ ticket_s[19] = Ins("test", I(0), bx)
    /\ ticket_s[20] = Ins("jgt", L(".top"), None)
    /\ ticket_s[21] = Ins("halt", None, None)
BY DEF ticket_s

\* ticket.s as it is loaded.
LEMMA TicketCode ==
    /\ DOMAIN load(ticket_s) = loadaddr .. loadaddr + 13
    /\ load(ticket_s)[loadaddr + 0] = Do("mov", I(1), ax)
    /\ load(ticket_s)[loadaddr + 1] = Do("fetchadd", ax, Word(100))
    /\ load(ticket_s)[loadaddr + 2] = Do("mov", Word(104), cx)
    /\ load(ticket_s)[loadaddr + 3] = Do("test", cx, ax)
    /\ load(ticket_s)[loadaddr + 4] = Do("jne", I(loadaddr + 2), None)
    /\ load(ticket_s)[loadaddr + 5] = Do("mov", Word(108), ax)
    /\ load(ticket_s)[loadaddr + 6] = Do("add", I(1), ax)
    /\ load(ticket_s)[loadaddr + 7] = Do("mov", ax, Word(108))
    /\ load(ticket_s)[loadaddr + 8] = Do("mov", I(1), ax)
    /\ load(ticket_s)[loadaddr + 9] = Do("fetchadd", ax, Word(104))
    /\ load(ticket_s)[loadaddr + 10] = Do("sub", I(1), bx)
    /\ load(ticket_s)[loadaddr + 11] = Do("test", I(0), bx)
    /\ load(ticket_s)[loadaddr + 12] = Do("jgt", I(loadaddr + 0), None)
    /\ load(ticket_s)[loadaddr + 13] = Do("halt", None, None)
    /\ getarg(ticket_s, V("count")) = Word(108)
<1> DEFINE s     == ticket_s
           insAt == [k \in 1 .. 21 + 1 |-> IF k <= 6 THEN 0 ELSE IF k <= 8 THEN k - 7 ELSE IF k <= 9 THEN 2 ELSE k - 8]
           varAt == [k \in 1 .. 21 + 1 |-> IF k <= 3 THEN k - 1 ELSE 3]
<1>1. /\ Len(s) = 21
      /\ \A k \in 1 .. 21 : s[k].kind = IF k \in (7 .. 8) \cup (10 .. 21) THEN "ins" ELSE IF k <= 3 THEN "var" ELSE "label"
      /\ s[1].name = "ticket"
      /\ s[2].name = "turn"
      /\ s[3].name = "count"
      /\ s[4].name = ".main"
      /\ s[5].name = ".top"
      /\ s[6].name = ".acquire"
      /\ s[9].name = ".tryagain"
  BY TicketLines DEF Var, Label, Ins
<1> HIDE DEF s
<1>2. \A k \in 1 .. 21 + 1 : CountBefore(s, k, "ins") = insAt[k]
  <2>1. Counts(s, "ins", insAt)
    BY <1>1 DEF Counts
  <2> HIDE DEF insAt
  <2>2. \A k \in 1 .. Len(s) + 1 : CountBefore(s, k, "ins") = insAt[k]
    BY <2>1, CountIs
  <2> QED
    BY <1>1, <2>2
<1>3. \A k \in 1 .. 21 + 1 : CountBefore(s, k, "var") = varAt[k]
  <2>1. Counts(s, "var", varAt)
    BY <1>1 DEF Counts
  <2> HIDE DEF varAt
  <2>2. \A k \in 1 .. Len(s) + 1 : CountBefore(s, k, "var") = varAt[k]
    BY <2>1, CountIs
  <2> QED
    BY <1>1, <2>2
<1>4. var_addr(s, "ticket") = 100
  <2>1. /\ 1 \in 1 .. Len(s) /\ Len(s) \in Nat /\ s[1].kind = "var" /\ s[1].name = "ticket"
        /\ \A j \in 1 .. Len(s) : s[j].kind = "var" /\ s[j].name = "ticket" => j = 1
    BY <1>1
  <2>2. LineOf(s, "var", "ticket") = 1
    BY <2>1, LineOfIs
  <2> QED
    BY <1>3, <2>2 DEF var_addr
<1>5. var_addr(s, "turn") = 104
  <2>1. /\ 2 \in 1 .. Len(s) /\ Len(s) \in Nat /\ s[2].kind = "var" /\ s[2].name = "turn"
        /\ \A j \in 1 .. Len(s) : s[j].kind = "var" /\ s[j].name = "turn" => j = 2
    BY <1>1
  <2>2. LineOf(s, "var", "turn") = 2
    BY <2>1, LineOfIs
  <2> QED
    BY <1>3, <2>2 DEF var_addr
<1>6. var_addr(s, "count") = 108
  <2>1. /\ 3 \in 1 .. Len(s) /\ Len(s) \in Nat /\ s[3].kind = "var" /\ s[3].name = "count"
        /\ \A j \in 1 .. Len(s) : s[j].kind = "var" /\ s[j].name = "count" => j = 3
    BY <1>1
  <2>2. LineOf(s, "var", "count") = 3
    BY <2>1, LineOfIs
  <2> QED
    BY <1>3, <2>2 DEF var_addr
<1>7. label_addr(s, ".top") = loadaddr + 0
  <2>1. /\ 5 \in 1 .. Len(s) /\ Len(s) \in Nat /\ s[5].kind = "label" /\ s[5].name = ".top"
        /\ \A j \in 1 .. Len(s) : s[j].kind = "label" /\ s[j].name = ".top" => j = 5
    BY <1>1
  <2>2. LineOf(s, "label", ".top") = 5
    BY <2>1, LineOfIs
  <2> QED
    BY <1>2, <2>2 DEF label_addr
<1>8. label_addr(s, ".tryagain") = loadaddr + 2
  <2>1. /\ 9 \in 1 .. Len(s) /\ Len(s) \in Nat /\ s[9].kind = "label" /\ s[9].name = ".tryagain"
        /\ \A j \in 1 .. Len(s) : s[j].kind = "label" /\ s[j].name = ".tryagain" => j = 9
    BY <1>1
  <2>2. LineOf(s, "label", ".tryagain") = 9
    BY <2>1, LineOfIs
  <2> QED
    BY <1>2, <2>2 DEF label_addr
<1>9. /\ Code(s) = (7 .. 8) \cup (10 .. 21)
      /\ DOMAIN load(s) = {Address(s, k) : k \in Code(s)}
      /\ \A k \in Code(s) : /\ Address(s, k) = loadaddr + insAt[k]
                            /\ load(s)[Address(s, k)] = Translated(s, s[k])
  <2>1. Len(s) \in Nat /\ Code(s) = (7 .. 8) \cup (10 .. 21) /\ Code(s) \subseteq 1 .. 21 + 1
    BY <1>1 DEF Code
  <2>2. \A k \in Code(s) : Address(s, k) = loadaddr + insAt[k]
    <3> HIDE DEF insAt
    <3> QED
      BY <1>2, <2>1 DEF Address
  <2> HIDE DEF insAt
  <2> QED
    BY <2>1, <2>2, LoadIs
<1>10. DOMAIN load(s) = loadaddr .. loadaddr + 13
  <2>1. DOMAIN load(s) = {loadaddr + insAt[k] : k \in Code(s)}
    BY <1>9
  <2>2. \A k \in Code(s) : insAt[k] \in 0 .. 13
    BY <1>9
  <2>3. \A d \in 0 .. 13 : \E k \in Code(s) : insAt[k] = d
    <3> SUFFICES ASSUME NEW d \in 0 .. 13 PROVE \E k \in Code(s) : insAt[k] = d
      OBVIOUS
    <3>1. CASE d \in 0 .. 1
      <4>1. d + 7 \in Code(s) /\ insAt[d + 7] = d
        BY <1>9, <3>1
      <4> QED
        BY <4>1
    <3>2. CASE d \in 2 .. 13
      <4>1. d + 8 \in Code(s) /\ insAt[d + 8] = d
        BY <1>9, <3>2
      <4> QED
        BY <4>1
    <3> QED
      BY <3>1, <3>2
  <2> HIDE DEF insAt
  <2> QED
    BY <2>1, <2>2, <2>3, LoadAddrAssumption
<1>11. /\ load(s)[loadaddr + 0] = Translated(s, ticket_s[7])
      /\ load(s)[loadaddr + 1] = Translated(s, ticket_s[8])
      /\ load(s)[loadaddr + 2] = Translated(s, ticket_s[10])
      /\ load(s)[loadaddr + 3] = Translated(s, ticket_s[11])
      /\ load(s)[loadaddr + 4] = Translated(s, ticket_s[12])
      /\ load(s)[loadaddr + 5] = Translated(s, ticket_s[13])
      /\ load(s)[loadaddr + 6] = Translated(s, ticket_s[14])
      /\ load(s)[loadaddr + 7] = Translated(s, ticket_s[15])
      /\ load(s)[loadaddr + 8] = Translated(s, ticket_s[16])
      /\ load(s)[loadaddr + 9] = Translated(s, ticket_s[17])
      /\ load(s)[loadaddr + 10] = Translated(s, ticket_s[18])
      /\ load(s)[loadaddr + 11] = Translated(s, ticket_s[19])
      /\ load(s)[loadaddr + 12] = Translated(s, ticket_s[20])
      /\ load(s)[loadaddr + 13] = Translated(s, ticket_s[21])
  <2>1. /\ 7 \in Code(s) /\ insAt[7] = 0
        /\ 8 \in Code(s) /\ insAt[8] = 1
        /\ 10 \in Code(s) /\ insAt[10] = 2
        /\ 11 \in Code(s) /\ insAt[11] = 3
        /\ 12 \in Code(s) /\ insAt[12] = 4
        /\ 13 \in Code(s) /\ insAt[13] = 5
        /\ 14 \in Code(s) /\ insAt[14] = 6
        /\ 15 \in Code(s) /\ insAt[15] = 7
        /\ 16 \in Code(s) /\ insAt[16] = 8
        /\ 17 \in Code(s) /\ insAt[17] = 9
        /\ 18 \in Code(s) /\ insAt[18] = 10
        /\ 19 \in Code(s) /\ insAt[19] = 11
        /\ 20 \in Code(s) /\ insAt[20] = 12
        /\ 21 \in Code(s) /\ insAt[21] = 13
    BY <1>9
  <2> HIDE DEF insAt
  <2> QED
    BY <1>9, <2>1 DEF s
<1>12. /\ getarg(s, ax) = ax
      /\ getarg(s, bx) = bx
      /\ getarg(s, cx) = cx
      /\ getarg(s, V("ticket")) = Word(100)
      /\ getarg(s, V("turn")) = Word(104)
      /\ getarg(s, V("count")) = Word(108)
      /\ getarg(s, L(".top")) = I(loadaddr + 0)
      /\ getarg(s, L(".tryagain")) = I(loadaddr + 2)
  BY OperandIs, <1>4, <1>5, <1>6, <1>7, <1>8 DEF ax, bx, cx
<1> QED
  BY <1>10, <1>11, <1>12, TicketLines, OperandIs, TranslatedIs, SMTT(30) DEF s

\* The code of yield.s.
LEMMA YieldLines ==
    /\ Len(yield_s) = 20
    /\ yield_s[1] = Var("mutex")
    /\ yield_s[2] = Var("count")
    /\ yield_s[3] = Label(".main")
    /\ yield_s[4] = Label(".top")
    /\ yield_s[5] = Label(".acquire")
    /\ yield_s[6] = Ins("mov", I(1), ax)
    /\ yield_s[7] = Ins("xchg", ax, V("mutex"))
    /\ yield_s[8] = Ins("test", I(0), ax)
    /\ yield_s[9] = Ins("je", L(".acquire_done"), None)
    /\ yield_s[10] = Ins("yield", None, None)
    /\ yield_s[11] = Ins("j", L(".acquire"), None)
    /\ yield_s[12] = Label(".acquire_done")
    /\ yield_s[13] = Ins("mov", V("count"), ax)
    /\ yield_s[14] = Ins("add", I(1), ax)
    /\ yield_s[15] = Ins("mov", ax, V("count"))
    /\ yield_s[16] = Ins("mov", I(0), V("mutex"))
    /\ yield_s[17] = Ins("sub", I(1), bx)
    /\ yield_s[18] = Ins("test", I(0), bx)
    /\ yield_s[19] = Ins("jgt", L(".top"), None)
    /\ yield_s[20] = Ins("halt", None, None)
BY DEF yield_s

\* yield.s as it is loaded.
LEMMA YieldCode ==
    /\ DOMAIN load(yield_s) = loadaddr .. loadaddr + 13
    /\ load(yield_s)[loadaddr + 0] = Do("mov", I(1), ax)
    /\ load(yield_s)[loadaddr + 1] = Do("xchg", ax, Word(100))
    /\ load(yield_s)[loadaddr + 2] = Do("test", I(0), ax)
    /\ load(yield_s)[loadaddr + 3] = Do("je", I(loadaddr + 6), None)
    /\ load(yield_s)[loadaddr + 4] = Do("yield", None, None)
    /\ load(yield_s)[loadaddr + 5] = Do("j", I(loadaddr + 0), None)
    /\ load(yield_s)[loadaddr + 6] = Do("mov", Word(104), ax)
    /\ load(yield_s)[loadaddr + 7] = Do("add", I(1), ax)
    /\ load(yield_s)[loadaddr + 8] = Do("mov", ax, Word(104))
    /\ load(yield_s)[loadaddr + 9] = Do("mov", I(0), Word(100))
    /\ load(yield_s)[loadaddr + 10] = Do("sub", I(1), bx)
    /\ load(yield_s)[loadaddr + 11] = Do("test", I(0), bx)
    /\ load(yield_s)[loadaddr + 12] = Do("jgt", I(loadaddr + 0), None)
    /\ load(yield_s)[loadaddr + 13] = Do("halt", None, None)
    /\ getarg(yield_s, V("count")) = Word(104)
<1> DEFINE s     == yield_s
           insAt == [k \in 1 .. 20 + 1 |-> IF k <= 5 THEN 0 ELSE IF k <= 11 THEN k - 6 ELSE IF k <= 12 THEN 6 ELSE k - 7]
           varAt == [k \in 1 .. 20 + 1 |-> IF k <= 2 THEN k - 1 ELSE 2]
<1>1. /\ Len(s) = 20
      /\ \A k \in 1 .. 20 : s[k].kind = IF k \in (6 .. 11) \cup (13 .. 20) THEN "ins" ELSE IF k <= 2 THEN "var" ELSE "label"
      /\ s[1].name = "mutex"
      /\ s[2].name = "count"
      /\ s[3].name = ".main"
      /\ s[4].name = ".top"
      /\ s[5].name = ".acquire"
      /\ s[12].name = ".acquire_done"
  BY YieldLines DEF Var, Label, Ins
<1> HIDE DEF s
<1>2. \A k \in 1 .. 20 + 1 : CountBefore(s, k, "ins") = insAt[k]
  <2>1. Counts(s, "ins", insAt)
    BY <1>1 DEF Counts
  <2> HIDE DEF insAt
  <2>2. \A k \in 1 .. Len(s) + 1 : CountBefore(s, k, "ins") = insAt[k]
    BY <2>1, CountIs
  <2> QED
    BY <1>1, <2>2
<1>3. \A k \in 1 .. 20 + 1 : CountBefore(s, k, "var") = varAt[k]
  <2>1. Counts(s, "var", varAt)
    BY <1>1 DEF Counts
  <2> HIDE DEF varAt
  <2>2. \A k \in 1 .. Len(s) + 1 : CountBefore(s, k, "var") = varAt[k]
    BY <2>1, CountIs
  <2> QED
    BY <1>1, <2>2
<1>4. var_addr(s, "mutex") = 100
  <2>1. /\ 1 \in 1 .. Len(s) /\ Len(s) \in Nat /\ s[1].kind = "var" /\ s[1].name = "mutex"
        /\ \A j \in 1 .. Len(s) : s[j].kind = "var" /\ s[j].name = "mutex" => j = 1
    BY <1>1
  <2>2. LineOf(s, "var", "mutex") = 1
    BY <2>1, LineOfIs
  <2> QED
    BY <1>3, <2>2 DEF var_addr
<1>5. var_addr(s, "count") = 104
  <2>1. /\ 2 \in 1 .. Len(s) /\ Len(s) \in Nat /\ s[2].kind = "var" /\ s[2].name = "count"
        /\ \A j \in 1 .. Len(s) : s[j].kind = "var" /\ s[j].name = "count" => j = 2
    BY <1>1
  <2>2. LineOf(s, "var", "count") = 2
    BY <2>1, LineOfIs
  <2> QED
    BY <1>3, <2>2 DEF var_addr
<1>6. label_addr(s, ".top") = loadaddr + 0
  <2>1. /\ 4 \in 1 .. Len(s) /\ Len(s) \in Nat /\ s[4].kind = "label" /\ s[4].name = ".top"
        /\ \A j \in 1 .. Len(s) : s[j].kind = "label" /\ s[j].name = ".top" => j = 4
    BY <1>1
  <2>2. LineOf(s, "label", ".top") = 4
    BY <2>1, LineOfIs
  <2> QED
    BY <1>2, <2>2 DEF label_addr
<1>7. label_addr(s, ".acquire") = loadaddr + 0
  <2>1. /\ 5 \in 1 .. Len(s) /\ Len(s) \in Nat /\ s[5].kind = "label" /\ s[5].name = ".acquire"
        /\ \A j \in 1 .. Len(s) : s[j].kind = "label" /\ s[j].name = ".acquire" => j = 5
    BY <1>1
  <2>2. LineOf(s, "label", ".acquire") = 5
    BY <2>1, LineOfIs
  <2> QED
    BY <1>2, <2>2 DEF label_addr
<1>8. label_addr(s, ".acquire_done") = loadaddr + 6
  <2>1. /\ 12 \in 1 .. Len(s) /\ Len(s) \in Nat /\ s[12].kind = "label" /\ s[12].name = ".acquire_done"
        /\ \A j \in 1 .. Len(s) : s[j].kind = "label" /\ s[j].name = ".acquire_done" => j = 12
    BY <1>1
  <2>2. LineOf(s, "label", ".acquire_done") = 12
    BY <2>1, LineOfIs
  <2> QED
    BY <1>2, <2>2 DEF label_addr
<1>9. /\ Code(s) = (6 .. 11) \cup (13 .. 20)
      /\ DOMAIN load(s) = {Address(s, k) : k \in Code(s)}
      /\ \A k \in Code(s) : /\ Address(s, k) = loadaddr + insAt[k]
                            /\ load(s)[Address(s, k)] = Translated(s, s[k])
  <2>1. Len(s) \in Nat /\ Code(s) = (6 .. 11) \cup (13 .. 20) /\ Code(s) \subseteq 1 .. 20 + 1
    BY <1>1 DEF Code
  <2>2. \A k \in Code(s) : Address(s, k) = loadaddr + insAt[k]
    <3> HIDE DEF insAt
    <3> QED
      BY <1>2, <2>1 DEF Address
  <2> HIDE DEF insAt
  <2> QED
    BY <2>1, <2>2, LoadIs
<1>10. DOMAIN load(s) = loadaddr .. loadaddr + 13
  <2>1. DOMAIN load(s) = {loadaddr + insAt[k] : k \in Code(s)}
    BY <1>9
  <2>2. \A k \in Code(s) : insAt[k] \in 0 .. 13
    BY <1>9
  <2>3. \A d \in 0 .. 13 : \E k \in Code(s) : insAt[k] = d
    <3> SUFFICES ASSUME NEW d \in 0 .. 13 PROVE \E k \in Code(s) : insAt[k] = d
      OBVIOUS
    <3>1. CASE d \in 0 .. 5
      <4>1. d + 6 \in Code(s) /\ insAt[d + 6] = d
        BY <1>9, <3>1
      <4> QED
        BY <4>1
    <3>2. CASE d \in 6 .. 13
      <4>1. d + 7 \in Code(s) /\ insAt[d + 7] = d
        BY <1>9, <3>2
      <4> QED
        BY <4>1
    <3> QED
      BY <3>1, <3>2
  <2> HIDE DEF insAt
  <2> QED
    BY <2>1, <2>2, <2>3, LoadAddrAssumption
<1>11. /\ load(s)[loadaddr + 0] = Translated(s, yield_s[6])
      /\ load(s)[loadaddr + 1] = Translated(s, yield_s[7])
      /\ load(s)[loadaddr + 2] = Translated(s, yield_s[8])
      /\ load(s)[loadaddr + 3] = Translated(s, yield_s[9])
      /\ load(s)[loadaddr + 4] = Translated(s, yield_s[10])
      /\ load(s)[loadaddr + 5] = Translated(s, yield_s[11])
      /\ load(s)[loadaddr + 6] = Translated(s, yield_s[13])
      /\ load(s)[loadaddr + 7] = Translated(s, yield_s[14])
      /\ load(s)[loadaddr + 8] = Translated(s, yield_s[15])
      /\ load(s)[loadaddr + 9] = Translated(s, yield_s[16])
      /\ load(s)[loadaddr + 10] = Translated(s, yield_s[17])
      /\ load(s)[loadaddr + 11] = Translated(s, yield_s[18])
      /\ load(s)[loadaddr + 12] = Translated(s, yield_s[19])
      /\ load(s)[loadaddr + 13] = Translated(s, yield_s[20])
  <2>1. /\ 6 \in Code(s) /\ insAt[6] = 0
        /\ 7 \in Code(s) /\ insAt[7] = 1
        /\ 8 \in Code(s) /\ insAt[8] = 2
        /\ 9 \in Code(s) /\ insAt[9] = 3
        /\ 10 \in Code(s) /\ insAt[10] = 4
        /\ 11 \in Code(s) /\ insAt[11] = 5
        /\ 13 \in Code(s) /\ insAt[13] = 6
        /\ 14 \in Code(s) /\ insAt[14] = 7
        /\ 15 \in Code(s) /\ insAt[15] = 8
        /\ 16 \in Code(s) /\ insAt[16] = 9
        /\ 17 \in Code(s) /\ insAt[17] = 10
        /\ 18 \in Code(s) /\ insAt[18] = 11
        /\ 19 \in Code(s) /\ insAt[19] = 12
        /\ 20 \in Code(s) /\ insAt[20] = 13
    BY <1>9
  <2> HIDE DEF insAt
  <2> QED
    BY <1>9, <2>1 DEF s
<1>12. /\ getarg(s, ax) = ax
      /\ getarg(s, bx) = bx
      /\ getarg(s, V("mutex")) = Word(100)
      /\ getarg(s, V("count")) = Word(104)
      /\ getarg(s, L(".top")) = I(loadaddr + 0)
      /\ getarg(s, L(".acquire")) = I(loadaddr + 0)
      /\ getarg(s, L(".acquire_done")) = I(loadaddr + 6)
  BY OperandIs, <1>4, <1>5, <1>6, <1>7, <1>8 DEF ax, bx
<1> QED
  BY <1>10, <1>11, <1>12, YieldLines, OperandIs, TranslatedIs, SMTT(30) DEF s

\* The code of wait-for-me.s.
LEMMA WaitLines ==
    /\ Len(wait_for_me_s) = 11
    /\ wait_for_me_s[1] = Label(".main")
    /\ wait_for_me_s[2] = Ins("test", I(1), ax)
    /\ wait_for_me_s[3] = Ins("je", L(".signaller"), None)
    /\ wait_for_me_s[4] = Label(".waiter")
    /\ wait_for_me_s[5] = Ins("mov", value, cx)
    /\ wait_for_me_s[6] = Ins("test", I(1), cx)
    /\ wait_for_me_s[7] = Ins("jne", L(".waiter"), None)
    /\ wait_for_me_s[8] = Ins("halt", None, None)
    /\ wait_for_me_s[9] = Label(".signaller")
    /\ wait_for_me_s[10] = Ins("mov", I(1), value)
    /\ wait_for_me_s[11] = Ins("halt", None, None)
BY DEF wait_for_me_s

\* wait-for-me.s as it is loaded.
LEMMA WaitCode ==
    /\ DOMAIN load(wait_for_me_s) = loadaddr .. loadaddr + 7
    /\ load(wait_for_me_s)[loadaddr + 0] = Do("test", I(1), ax)
    /\ load(wait_for_me_s)[loadaddr + 1] = Do("je", I(loadaddr + 6), None)
    /\ load(wait_for_me_s)[loadaddr + 2] = Do("mov", Word(2000), cx)
    /\ load(wait_for_me_s)[loadaddr + 3] = Do("test", I(1), cx)
    /\ load(wait_for_me_s)[loadaddr + 4] = Do("jne", I(loadaddr + 2), None)
    /\ load(wait_for_me_s)[loadaddr + 5] = Do("halt", None, None)
    /\ load(wait_for_me_s)[loadaddr + 6] = Do("mov", I(1), Word(2000))
    /\ load(wait_for_me_s)[loadaddr + 7] = Do("halt", None, None)
<1> DEFINE s     == wait_for_me_s
           insAt == [k \in 1 .. 11 + 1 |-> IF k <= 1 THEN 0 ELSE IF k <= 3 THEN k - 2 ELSE IF k <= 4 THEN 2 ELSE IF k <= 8 THEN k - 3 ELSE IF k <= 9 THEN 6 ELSE k - 4]
<1>1. /\ Len(s) = 11
      /\ \A k \in 1 .. 11 : s[k].kind = IF k \in (2 .. 3) \cup (5 .. 8) \cup (10 .. 11) THEN "ins" ELSE "label"
      /\ s[1].name = ".main"
      /\ s[4].name = ".waiter"
      /\ s[9].name = ".signaller"
  BY WaitLines DEF Var, Label, Ins
<1> HIDE DEF s
<1>2. \A k \in 1 .. 11 + 1 : CountBefore(s, k, "ins") = insAt[k]
  <2>1. Counts(s, "ins", insAt)
    BY <1>1 DEF Counts
  <2> HIDE DEF insAt
  <2>2. \A k \in 1 .. Len(s) + 1 : CountBefore(s, k, "ins") = insAt[k]
    BY <2>1, CountIs
  <2> QED
    BY <1>1, <2>2
<1>3. label_addr(s, ".waiter") = loadaddr + 2
  <2>1. /\ 4 \in 1 .. Len(s) /\ Len(s) \in Nat /\ s[4].kind = "label" /\ s[4].name = ".waiter"
        /\ \A j \in 1 .. Len(s) : s[j].kind = "label" /\ s[j].name = ".waiter" => j = 4
    BY <1>1
  <2>2. LineOf(s, "label", ".waiter") = 4
    BY <2>1, LineOfIs
  <2> QED
    BY <1>2, <2>2 DEF label_addr
<1>4. label_addr(s, ".signaller") = loadaddr + 6
  <2>1. /\ 9 \in 1 .. Len(s) /\ Len(s) \in Nat /\ s[9].kind = "label" /\ s[9].name = ".signaller"
        /\ \A j \in 1 .. Len(s) : s[j].kind = "label" /\ s[j].name = ".signaller" => j = 9
    BY <1>1
  <2>2. LineOf(s, "label", ".signaller") = 9
    BY <2>1, LineOfIs
  <2> QED
    BY <1>2, <2>2 DEF label_addr
<1>5. /\ Code(s) = (2 .. 3) \cup (5 .. 8) \cup (10 .. 11)
      /\ DOMAIN load(s) = {Address(s, k) : k \in Code(s)}
      /\ \A k \in Code(s) : /\ Address(s, k) = loadaddr + insAt[k]
                            /\ load(s)[Address(s, k)] = Translated(s, s[k])
  <2>1. Len(s) \in Nat /\ Code(s) = (2 .. 3) \cup (5 .. 8) \cup (10 .. 11) /\ Code(s) \subseteq 1 .. 11 + 1
    BY <1>1 DEF Code
  <2>2. \A k \in Code(s) : Address(s, k) = loadaddr + insAt[k]
    <3> HIDE DEF insAt
    <3> QED
      BY <1>2, <2>1 DEF Address
  <2> HIDE DEF insAt
  <2> QED
    BY <2>1, <2>2, LoadIs
<1>6. DOMAIN load(s) = loadaddr .. loadaddr + 7
  <2>1. DOMAIN load(s) = {loadaddr + insAt[k] : k \in Code(s)}
    BY <1>5
  <2>2. \A k \in Code(s) : insAt[k] \in 0 .. 7
    BY <1>5
  <2>3. \A d \in 0 .. 7 : \E k \in Code(s) : insAt[k] = d
    <3> SUFFICES ASSUME NEW d \in 0 .. 7 PROVE \E k \in Code(s) : insAt[k] = d
      OBVIOUS
    <3>1. CASE d \in 0 .. 1
      <4>1. d + 2 \in Code(s) /\ insAt[d + 2] = d
        BY <1>5, <3>1
      <4> QED
        BY <4>1
    <3>2. CASE d \in 2 .. 5
      <4>1. d + 3 \in Code(s) /\ insAt[d + 3] = d
        BY <1>5, <3>2
      <4> QED
        BY <4>1
    <3>3. CASE d \in 6 .. 7
      <4>1. d + 4 \in Code(s) /\ insAt[d + 4] = d
        BY <1>5, <3>3
      <4> QED
        BY <4>1
    <3> QED
      BY <3>1, <3>2, <3>3
  <2> HIDE DEF insAt
  <2> QED
    BY <2>1, <2>2, <2>3, LoadAddrAssumption
<1>7. /\ load(s)[loadaddr + 0] = Translated(s, wait_for_me_s[2])
      /\ load(s)[loadaddr + 1] = Translated(s, wait_for_me_s[3])
      /\ load(s)[loadaddr + 2] = Translated(s, wait_for_me_s[5])
      /\ load(s)[loadaddr + 3] = Translated(s, wait_for_me_s[6])
      /\ load(s)[loadaddr + 4] = Translated(s, wait_for_me_s[7])
      /\ load(s)[loadaddr + 5] = Translated(s, wait_for_me_s[8])
      /\ load(s)[loadaddr + 6] = Translated(s, wait_for_me_s[10])
      /\ load(s)[loadaddr + 7] = Translated(s, wait_for_me_s[11])
  <2>1. /\ 2 \in Code(s) /\ insAt[2] = 0
        /\ 3 \in Code(s) /\ insAt[3] = 1
        /\ 5 \in Code(s) /\ insAt[5] = 2
        /\ 6 \in Code(s) /\ insAt[6] = 3
        /\ 7 \in Code(s) /\ insAt[7] = 4
        /\ 8 \in Code(s) /\ insAt[8] = 5
        /\ 10 \in Code(s) /\ insAt[10] = 6
        /\ 11 \in Code(s) /\ insAt[11] = 7
    BY <1>5
  <2> HIDE DEF insAt
  <2> QED
    BY <1>5, <2>1 DEF s
<1>8. /\ getarg(s, ax) = ax
      /\ getarg(s, cx) = cx
      /\ getarg(s, L(".waiter")) = I(loadaddr + 2)
      /\ getarg(s, L(".signaller")) = I(loadaddr + 6)
      /\ getarg(s, value) = Word(2000)
  BY OperandIs, <1>3, <1>4 DEF ax, cx, value, Word
<1> QED
  BY <1>6, <1>7, <1>8, WaitLines, OperandIs, TranslatedIs, SMTT(30) DEF s

-----------------------------------------------------------------------------
(* The threads, and a step of one of them.                                 *)

(* The state of the threads, and what a program tells apart of it. *)
State == [context |-> context, memory |-> memory, done |-> done]

loc(s, t)    == IF s.done[t] THEN -1 ELSE s.context[t].PC - loadaddr
\* What an instruction reads of thread t: a register, the flags, a word.
Reg(s, t, r) == s.context[t].registers[r]
Differ(s, t) == s.context[t].conditions.neq
Equal(s, t)  == s.context[t].conditions.eq
Above(s, t)  == s.context[t].conditions.gt
Mem(s, a)    == Read(s.memory, a)

\* The context of a thread that has not halted, with what jumps and registers need.
Live(c) ==
    /\ c = [PC |-> c.PC, conditions |-> c.conditions, registers |-> c.registers]
    /\ c.PC \in Int
    /\ c.registers \in [Regs -> Int]
    /\ c.registers["zero"] = 0

\* Every word of the memory is a number.
Ints(m) == \A a : Read(m, a) \in Int

\* The state as the instructions keep it.
Shaped(P, s) ==
    /\ s.done \in [P -> BOOLEAN]
    /\ s.context = [t \in P |-> s.context[t]]
    /\ \A t \in P : ~s.done[t] => Live(s.context[t])
    /\ Ints(s.memory)

\* The step of thread t, from s to s2.
Ahead(c)     == [c EXCEPT !.PC = @ + 1]
Put(f, t, v) == [f EXCEPT ![t] = v]

\* The instruction that context c of program p comes to: its effect, and whether it halts.
Ran(p, c, m) == Exec(program[p][c.PC], Ahead(c), m)
Ends(p, c)   == program[p][c.PC].op = "halt"

\* The step of thread t from s to s2: only its context, and the memory, change.
StepOf(p, s, t, s2) ==
    LET c == s.context[t]
    IN  /\ ~s.done[t]
        /\ s2.memory = Ran(p, c, s.memory).memory
        /\ s2.context = Put(s.context, t, IF Ends(p, c) THEN [PC |-> -1]
                                          ELSE Ran(p, c, s.memory).cpu)
        /\ s2.done = Put(s.done, t, Ends(p, c))

\* The threads of X86Threads execute an instruction as the machine does.
LEMMA ExecIs == \A x, c, m : T!Exec(x, c, m) = Exec(x, c, m)
BY DEF T!Exec, T!Value, T!Addr, T!Read, T!Write, T!SetReg, T!test_all, T!Taken, T!Jumps,
       Exec, Value, Addr, Read, Write, SetReg, test_all, Taken, Jumps

\* A step of X86Threads is the step of one thread.
LEMMA StepIs == T!TStep(curr) => StepOf(prog, State, curr, State') /\ prog' = prog
<1> SUFFICES ASSUME T!TStep(curr) PROVE StepOf(prog, State, curr, State') /\ prog' = prog
  OBVIOUS
<1>1. /\ State.context = context /\ State.memory = memory /\ State.done = done
      /\ (State').context = context' /\ (State').memory = memory' /\ (State').done = done'
  BY DEF State
<1>2. \A c, m : T!Result(c, m) = Ran(prog, c, m)
  BY ExecIs DEF T!Result, T!Fetch, Ran, Ahead
<1>3. \A c : T!Halts(c) = Ends(prog, c)
  BY DEF T!Halts, T!Fetch, Ends
<1>4. /\ ~done[curr] /\ prog' = prog
      /\ memory' = T!Result(context[curr], memory).memory
      /\ context' = [context EXCEPT ![curr] = IF T!Halts(context[curr]) THEN T!Halted
                                              ELSE T!Result(context[curr], memory).cpu]
      /\ done' = [done EXCEPT ![curr] = T!Halts(context[curr])]
  BY DEF T!TStep
<1> QED
  BY <1>1, <1>2, <1>3, <1>4 DEF StepOf, Put, T!Halted

\* A step leaves the other threads where they are.
Same(s, u, s2) ==
    /\ loc(s2, u) = loc(s, u)
    /\ \A r : Reg(s2, u, r) = Reg(s, u, r)
    /\ Differ(s2, u) <=> Differ(s, u)
    /\ Equal(s2, u) <=> Equal(s, u)
    /\ Above(s2, u) <=> Above(s, u)

-----------------------------------------------------------------------------
(* What each instruction does.                                             *)

\* A context of the machine, and the instruction it comes to.
Context(pc, cs, rs) == [PC |-> pc, conditions |-> cs, registers |-> rs]

Instruction(p, c) == program[p][c.PC]

\* Thread t of s, at c, is the next to run, and its next instruction is x.
Runs(P, p, s, t, s2, c, x) ==
    t \in P /\ Shaped(P, s) /\ StepOf(p, s, t, s2) /\ c = s.context[t] /\ Instruction(p, c) = x

\* The instruction x, no halt, takes c and memory m to a context and a memory.
Gives(x, c, m, pc, cs, rs, m2) ==
    /\ x.op # "halt"
    /\ Exec(x, Ahead(c), m) = [cpu |-> Context(pc, cs, rs), memory |-> m2]
    /\ pc \in Int
    /\ rs \in [Regs -> Int] /\ rs["zero"] = 0
    /\ Ints(m2)

\* What the other threads do not see.
Others(P, s, t, s2) == Shaped(P, s2) /\ \A u \in P \ {t} : Same(s, u, s2)

\* After the step, thread t is at pc, with flags cs and registers rs, and the memory is m2.
Becomes(P, s, t, s2, pc, cs, rs, m2) ==
    /\ Others(P, s, t, s2)
    /\ loc(s2, t) = pc - loadaddr
    /\ \A q : Reg(s2, t, q) = rs[q]
    /\ Differ(s2, t) <=> cs.neq
    /\ Equal(s2, t) <=> cs.eq
    /\ Above(s2, t) <=> cs.gt
    /\ s2.memory = m2

\* The effect of an instruction is that of the step on the state.
LEMMA RunsTo ==
    ASSUME NEW P, NEW p, NEW s, NEW t, NEW s2, NEW c, NEW x, Runs(P, p, s, t, s2, c, x),
           NEW pc, NEW cs, NEW rs, NEW m2, Gives(x, c, s.memory, pc, cs, rs, m2)
    PROVE  Becomes(P, s, t, s2, pc, cs, rs, m2)
<1> DEFINE c2 == Context(pc, cs, rs)
<1>1. Live(c2) /\ Ints(m2)
  BY DEF Live, Context, Gives
<1>2. /\ ~s.done[t] /\ s2.memory = m2
      /\ s2.context = Put(s.context, t, c2)
      /\ s2.done = Put(s.done, t, FALSE)
  <2>1. ~Ends(p, c) /\ Ends(p, c) = FALSE
    BY DEF Ends, Gives, Runs, Instruction
  <2>2. Ran(p, c, s.memory).cpu = c2 /\ Ran(p, c, s.memory).memory = m2
    BY DEF Ran, Gives, Runs, Instruction
  <2> QED
    BY <2>1, <2>2 DEF StepOf, Runs
<1> HIDE DEF c2
<1>3. /\ s2.context[t] = c2 /\ \A u \in P \ {t} : s2.context[u] = s.context[u]
      /\ s2.context = [u \in P |-> s2.context[u]]
  BY <1>2 DEF Shaped, Put, Runs
<1>4. /\ s2.done \in [P -> BOOLEAN] /\ ~s2.done[t]
      /\ \A u \in P \ {t} : s2.done[u] = s.done[u]
  BY <1>2 DEF Shaped, Put, Runs
<1>5. Shaped(P, s2)
  BY <1>1, <1>2, <1>3, <1>4 DEF Shaped, Runs
<1>6. \A u \in P \ {t} : Same(s, u, s2)
  BY <1>3, <1>4 DEF Same, loc, Reg, Differ, Equal, Above
<1> QED
  BY <1>2, <1>3, <1>4, <1>5, <1>6 DEF Becomes, Others, c2, loc, Reg, Differ, Equal, Above, Context

\* What the instruction starts from.
LEMMA RunsFrom ==
    ASSUME NEW P, NEW p, NEW s, NEW t, NEW s2, NEW c, NEW x, Runs(P, p, s, t, s2, c, x)
    PROVE  /\ Ahead(c) = Context(c.PC + 1, c.conditions, c.registers)
           /\ c.PC + 1 \in Int /\ c.PC \in Int /\ c.registers \in [Regs -> Int] /\ c.registers["zero"] = 0
           /\ Ints(s.memory)
           /\ loc(s, t) = c.PC - loadaddr
           /\ \A q : Reg(s, t, q) = c.registers[q]
           /\ Differ(s, t) <=> c.conditions.neq
           /\ Equal(s, t) <=> c.conditions.eq
           /\ Above(s, t) <=> c.conditions.gt
<1>1. Live(c) /\ Ints(s.memory) /\ c = s.context[t] /\ ~s.done[t]
  BY DEF Runs, Shaped, StepOf
<1>2. Ahead(c) = Context(c.PC + 1, c.conditions, c.registers)
  BY <1>1 DEF Live, Ahead, Context
<1> QED
  BY <1>1, <1>2 DEF Live, loc, Reg, Differ, Equal, Above

\* The effects of an instruction.
Onward(s, t, s2)         == loc(s2, t) = loc(s, t) + 1
SetsReg(s, t, s2, r, v)  == \A q \in Regs : Reg(s2, t, q) = IF q = r THEN v ELSE Reg(s, t, q)
KeepsRegs(s, t, s2)      == \A q : Reg(s2, t, q) = Reg(s, t, q)
KeepsConds(s, t, s2)     == /\ Differ(s2, t) <=> Differ(s, t)
                            /\ Equal(s2, t) <=> Equal(s, t)
                            /\ Above(s2, t) <=> Above(s, t)
SetsMem(s, s2, a, v)     == \A b : Mem(s2, b) = IF b = a THEN v ELSE Mem(s, b)
KeepsMem(s, s2)          == \A b : Mem(s2, b) = Mem(s, b)

\* The instructions of the programs, on a context.
LEMMA ExecMovReg ==
    ASSUME NEW pc, NEW cs, NEW rs, NEW m, NEW src, NEW r
    PROVE  Exec(Do("mov", src, R(r)), Context(pc, cs, rs), m)
             = [cpu |-> Context(pc, cs, Put(rs, r, Value(src, Context(pc, cs, rs), m))), memory |-> m]
<1> DEFINE c == Context(pc, cs, rs)
<1>1. Exec(Do("mov", src, R(r)), c, m)
        = [cpu |-> SetReg(c, r, Value(src, c, m)), memory |-> m]
  <2> HIDE DEF c
  <2> QED
    BY DEF Exec, Jumps, Do, R
<1>2. /\ c.registers = rs
      /\ \A q, v : SetReg(c, q, v) = Context(pc, cs, Put(rs, q, v))
      /\ \A q : Value(R(q), c, m) = rs[q]
      /\ \A v : [c EXCEPT !.conditions = v] = Context(pc, v, rs)
  BY DEF SetReg, Context, Put, Value, R
<1> QED
  BY <1>1, <1>2

\* mov to memory.
LEMMA ExecMovMem ==
    ASSUME NEW pc, NEW cs, NEW rs, NEW m, NEW src, NEW a
    PROVE  Exec(Do("mov", src, Word(a)), Context(pc, cs, rs), m)
             = [cpu |-> Context(pc, cs, rs), memory |-> Write(m, Addr(Word(a), Context(pc, cs, rs)), Value(src, Context(pc, cs, rs), m))]
<1> DEFINE c == Context(pc, cs, rs)
<1>1. Exec(Do("mov", src, Word(a)), c, m)
        = [cpu |-> c, memory |-> Write(m, Addr(Word(a), c), Value(src, c, m))]
  <2> HIDE DEF c
  <2> QED
    BY DEF Exec, Jumps, Do, R, Word, M
<1>2. /\ c.registers = rs
      /\ \A q, v : SetReg(c, q, v) = Context(pc, cs, Put(rs, q, v))
      /\ \A q : Value(R(q), c, m) = rs[q]
      /\ \A v : [c EXCEPT !.conditions = v] = Context(pc, v, rs)
  BY DEF SetReg, Context, Put, Value, R
<1> QED
  BY <1>1, <1>2

\* add to a register.
LEMMA ExecAdd ==
    ASSUME NEW pc, NEW cs, NEW rs, NEW m, NEW src, NEW r
    PROVE  Exec(Do("add", src, R(r)), Context(pc, cs, rs), m)
             = [cpu |-> Context(pc, cs, Put(rs, r, rs[r] + Value(src, Context(pc, cs, rs), m))), memory |-> m]
<1> DEFINE c == Context(pc, cs, rs)
<1>1. Exec(Do("add", src, R(r)), c, m)
        = [cpu |-> SetReg(c, r, c.registers[r] + Value(src, c, m)), memory |-> m]
  <2> HIDE DEF c
  <2> QED
    BY DEF Exec, Jumps, Do, R
<1>2. /\ c.registers = rs
      /\ \A q, v : SetReg(c, q, v) = Context(pc, cs, Put(rs, q, v))
      /\ \A q : Value(R(q), c, m) = rs[q]
      /\ \A v : [c EXCEPT !.conditions = v] = Context(pc, v, rs)
  BY DEF SetReg, Context, Put, Value, R
<1> QED
  BY <1>1, <1>2

\* sub from a register.
LEMMA ExecSub ==
    ASSUME NEW pc, NEW cs, NEW rs, NEW m, NEW src, NEW r
    PROVE  Exec(Do("sub", src, R(r)), Context(pc, cs, rs), m)
             = [cpu |-> Context(pc, cs, Put(rs, r, rs[r] - Value(src, Context(pc, cs, rs), m))), memory |-> m]
<1> DEFINE c == Context(pc, cs, rs)
<1>1. Exec(Do("sub", src, R(r)), c, m)
        = [cpu |-> SetReg(c, r, c.registers[r] - Value(src, c, m)), memory |-> m]
  <2> HIDE DEF c
  <2> QED
    BY DEF Exec, Jumps, Do, R
<1>2. /\ c.registers = rs
      /\ \A q, v : SetReg(c, q, v) = Context(pc, cs, Put(rs, q, v))
      /\ \A q : Value(R(q), c, m) = rs[q]
      /\ \A v : [c EXCEPT !.conditions = v] = Context(pc, v, rs)
  BY DEF SetReg, Context, Put, Value, R
<1> QED
  BY <1>1, <1>2

\* xchg of a register with memory.
LEMMA ExecXchg ==
    ASSUME NEW pc, NEW cs, NEW rs, NEW m, NEW r, NEW dst
    PROVE  Exec(Do("xchg", R(r), dst), Context(pc, cs, rs), m)
             = [cpu |-> Context(pc, cs, Put(rs, r, Read(m, Addr(dst, Context(pc, cs, rs))))), memory |-> Write(m, Addr(dst, Context(pc, cs, rs)), rs[r])]
<1> DEFINE c == Context(pc, cs, rs)
<1>1. Exec(Do("xchg", R(r), dst), c, m)
        = [cpu |-> SetReg(c, r, Read(m, Addr(dst, c))), memory |-> Write(m, Addr(dst, c), Value(R(r), c, m))]
  <2> HIDE DEF c
  <2> QED
    BY DEF Exec, Jumps, Do, R
<1>2. /\ c.registers = rs
      /\ \A q, v : SetReg(c, q, v) = Context(pc, cs, Put(rs, q, v))
      /\ \A q : Value(R(q), c, m) = rs[q]
      /\ \A v : [c EXCEPT !.conditions = v] = Context(pc, v, rs)
  BY DEF SetReg, Context, Put, Value, R
<1> QED
  BY <1>1, <1>2

\* fetchadd of a register to memory.
LEMMA ExecFetchAdd ==
    ASSUME NEW pc, NEW cs, NEW rs, NEW m, NEW r, NEW dst
    PROVE  Exec(Do("fetchadd", R(r), dst), Context(pc, cs, rs), m)
             = [cpu |-> Context(pc, cs, Put(rs, r, Read(m, Addr(dst, Context(pc, cs, rs))))), memory |-> Write(m, Addr(dst, Context(pc, cs, rs)), Read(m, Addr(dst, Context(pc, cs, rs))) + rs[r])]
<1> DEFINE c == Context(pc, cs, rs)
<1>1. Exec(Do("fetchadd", R(r), dst), c, m)
        = [cpu |-> SetReg(c, r, Read(m, Addr(dst, c))),
           memory |-> Write(m, Addr(dst, c), Read(m, Addr(dst, c)) + Value(R(r), c, m))]
  <2> HIDE DEF c
  <2> QED
    BY DEF Exec, Jumps, Do, R
<1>2. /\ c.registers = rs
      /\ \A q, v : SetReg(c, q, v) = Context(pc, cs, Put(rs, q, v))
      /\ \A q : Value(R(q), c, m) = rs[q]
      /\ \A v : [c EXCEPT !.conditions = v] = Context(pc, v, rs)
  BY DEF SetReg, Context, Put, Value, R
<1> QED
  BY <1>1, <1>2

\* test of two operands.
LEMMA ExecTest ==
    ASSUME NEW pc, NEW cs, NEW rs, NEW m, NEW src, NEW dst
    PROVE  Exec(Do("test", src, dst), Context(pc, cs, rs), m)
             = [cpu |-> Context(pc, test_all(Value(src, Context(pc, cs, rs), m), Value(dst, Context(pc, cs, rs), m)), rs), memory |-> m]
<1> DEFINE c == Context(pc, cs, rs)
<1>1. Exec(Do("test", src, dst), c, m)
        = [cpu |-> [c EXCEPT !.conditions = test_all(Value(src, c, m), Value(dst, c, m))], memory |-> m]
  <2> HIDE DEF c
  <2> QED
    BY DEF Exec, Jumps, Do, R
<1>2. /\ c.registers = rs
      /\ \A q, v : SetReg(c, q, v) = Context(pc, cs, Put(rs, q, v))
      /\ \A q : Value(R(q), c, m) = rs[q]
      /\ \A v : [c EXCEPT !.conditions = v] = Context(pc, v, rs)
  BY DEF SetReg, Context, Put, Value, R
<1> QED
  BY <1>1, <1>2

\* yield: the switch is not the thread's.
LEMMA ExecYield ==
    ASSUME NEW pc, NEW cs, NEW rs, NEW m, NEW src, NEW dst
    PROVE  Exec(Do("yield", src, dst), Context(pc, cs, rs), m)
             = [cpu |-> Context(pc, cs, rs), memory |-> m]
<1> DEFINE c == Context(pc, cs, rs)
<1>1. Exec(Do("yield", src, dst), c, m)
        = [cpu |-> c, memory |-> m]
  <2> HIDE DEF c
  <2> QED
    BY DEF Exec, Jumps, Do, R
<1>2. /\ c.registers = rs
      /\ \A q, v : SetReg(c, q, v) = Context(pc, cs, Put(rs, q, v))
      /\ \A q : Value(R(q), c, m) = rs[q]
      /\ \A v : [c EXCEPT !.conditions = v] = Context(pc, v, rs)
  BY DEF SetReg, Context, Put, Value, R
<1> QED
  BY <1>1, <1>2

\* A jump, taken or not.
LEMMA ExecJump ==
    ASSUME NEW pc, NEW cs, NEW rs, NEW m, NEW n, NEW dst, NEW o \in {"j", "jne", "je", "jgt"}
    PROVE  Exec(Do(o, I(n), dst), Context(pc, cs, rs), m)
             = [cpu |-> Context(IF Taken(o, cs) THEN n ELSE pc, cs, rs), memory |-> m]
<1> DEFINE c == Context(pc, cs, rs)
<1>1. Exec(Do(o, I(n), dst), c, m)
        = [cpu |-> IF Taken(o, c.conditions) THEN [c EXCEPT !.PC = Value(I(n), c, m)] ELSE c,
           memory |-> m]
  <2> HIDE DEF c
  <2> QED
    BY DEF Exec, Do, Jumps
<1>2. /\ c.conditions = cs /\ [c EXCEPT !.PC = n] = Context(n, cs, rs)
      /\ Value(I(n), c, m) = n
  BY DEF Context, Value, I
<1> QED
  BY <1>1, <1>2

-----------------------------------------------------------------------------
(* Operands, and the memory after a store.                                 *)

\* What the operands of the programs stand for.
LEMMA Operands ==
    ASSUME NEW P, NEW p, NEW s, NEW t, NEW s2, NEW c, NEW x, Runs(P, p, s, t, s2, c, x)
    PROVE  /\ \A n : Value(I(n), Ahead(c), s.memory) = n
           /\ \A r : Value(R(r), Ahead(c), s.memory) = Reg(s, t, r)
           /\ \A a \in Int : /\ Addr(Word(a), Ahead(c)) = a
                             /\ Value(Word(a), Ahead(c), s.memory) = Mem(s, a)
           /\ \A r \in Regs : Reg(s, t, r) \in Int
           /\ \A a : Mem(s, a) \in Int
<1>1. /\ Ahead(c) = Context(c.PC + 1, c.conditions, c.registers)
      /\ c.registers["zero"] = 0 /\ Ints(s.memory) /\ c.registers \in [Regs -> Int]
      /\ \A q : Reg(s, t, q) = c.registers[q]
  BY RunsFrom
<1>2. Ahead(c).registers = c.registers
  BY <1>1 DEF Context
<1>3. \A a \in Int : Addr(Word(a), Ahead(c)) = a
  BY <1>1, <1>2 DEF Addr, Word, M
<1>4. \A a : Value(Word(a), Ahead(c), s.memory) = Read(s.memory, Addr(Word(a), Ahead(c)))
  BY DEF Value, Word, M
<1>5. \A n : Value(I(n), Ahead(c), s.memory) = n
  BY DEF Value, I
<1>6. \A r : Value(R(r), Ahead(c), s.memory) = Ahead(c).registers[r]
  BY DEF Value, R
<1> QED
  BY <1>1, <1>2, <1>3, <1>4, <1>5, <1>6 DEF Mem, Ints

\* The memory after a store.
LEMMA Stored ==
    ASSUME NEW m, Ints(m), NEW a, NEW v \in Int
    PROVE  /\ Ints(Write(m, a, v))
           /\ \A b : Read(Write(m, a, v), b) = IF b = a THEN v ELSE Read(m, b)
<1>1. \A b : Read(Write(m, a, v), b) = IF b = a THEN v ELSE Read(m, b)
  BY DEF Read, Write
<1> QED
  BY <1>1 DEF Ints

\* What a step has left as it was follows from what it has changed.
LEMMA Reached ==
    ASSUME NEW P, NEW p, NEW s, NEW t, NEW s2, NEW c, NEW x, Runs(P, p, s, t, s2, c, x),
           NEW pc, NEW cs, NEW rs, NEW m2, Becomes(P, s, t, s2, pc, cs, rs, m2)
    PROVE  /\ Others(P, s, t, s2)
           /\ pc = c.PC + 1 => Onward(s, t, s2)
           /\ loc(s2, t) = pc - loadaddr
           /\ cs = c.conditions => KeepsConds(s, t, s2)
           /\ rs = c.registers => KeepsRegs(s, t, s2)
           /\ m2 = s.memory => KeepsMem(s, s2)
           /\ \A r \in Regs : \A v : rs = Put(c.registers, r, v) => SetsReg(s, t, s2, r, v)
           /\ \A a : \A v \in Int : m2 = Write(s.memory, a, v) => SetsMem(s, s2, a, v)
<1>1. /\ Others(P, s, t, s2) /\ loc(s2, t) = pc - loadaddr
      /\ \A q : Reg(s2, t, q) = rs[q]
      /\ Differ(s2, t) <=> cs.neq
      /\ Equal(s2, t) <=> cs.eq
      /\ Above(s2, t) <=> cs.gt
      /\ s2.memory = m2
  BY DEF Becomes
<1>2. /\ c.PC \in Int /\ c.registers \in [Regs -> Int] /\ Ints(s.memory)
      /\ loc(s, t) = c.PC - loadaddr
      /\ \A q : Reg(s, t, q) = c.registers[q]
      /\ Differ(s, t) <=> c.conditions.neq
      /\ Equal(s, t) <=> c.conditions.eq
      /\ Above(s, t) <=> c.conditions.gt
  BY RunsFrom
<1>3. pc = c.PC + 1 => Onward(s, t, s2)
  BY <1>1, <1>2, LoadAddrAssumption DEF Onward
<1>4. cs = c.conditions => KeepsConds(s, t, s2)
  BY <1>1, <1>2 DEF KeepsConds
<1>5. rs = c.registers => KeepsRegs(s, t, s2)
  BY <1>1, <1>2 DEF KeepsRegs
<1>6. m2 = s.memory => KeepsMem(s, s2)
  BY <1>1 DEF KeepsMem, Mem
<1>7. ASSUME NEW r \in Regs, NEW v, rs = Put(c.registers, r, v) PROVE SetsReg(s, t, s2, r, v)
  BY <1>1, <1>2, <1>7 DEF SetsReg, Put
<1>8. ASSUME NEW a, NEW v \in Int, m2 = Write(s.memory, a, v) PROVE SetsMem(s, s2, a, v)
  BY <1>1, <1>2, <1>8, Stored DEF SetsMem, Mem
<1> QED
  BY <1>1, <1>3, <1>4, <1>5, <1>6, <1>7, <1>8

-----------------------------------------------------------------------------
(* The instructions as the programs use them.                              *)

\* mov to a register.
LEMMA MovReg ==
    ASSUME NEW P, NEW p, NEW s, NEW t, NEW s2, NEW c, NEW x, Runs(P, p, s, t, s2, c, x),
           NEW r \in {"ax", "bx", "cx"}, NEW src, NEW v \in Int, v = Value(src, Ahead(c), s.memory),
           x = Do("mov", src, R(r))
    PROVE  Others(P, s, t, s2) /\ Onward(s, t, s2) /\ KeepsConds(s, t, s2)
           /\ KeepsMem(s, s2) /\ SetsReg(s, t, s2, r, v)
<1> DEFINE rs == Put(c.registers, r, v)
           cs == c.conditions
           m2 == s.memory
<1>1. /\ Ahead(c) = Context(c.PC + 1, c.conditions, c.registers)
      /\ c.PC + 1 \in Int /\ c.registers \in [Regs -> Int] /\ c.registers["zero"] = 0
      /\ Ints(s.memory) /\ \A q : Reg(s, t, q) = c.registers[q]
  BY RunsFrom
<1>2. /\ \A b : Mem(s, b) \in Int /\ Mem(s, b) = Read(s.memory, b)
      /\ \A q \in Regs : Reg(s, t, q) \in Int
      /\ r \in Regs /\ r # "zero"
  BY Operands DEF Mem, Regs
<1>3. Exec(x, Ahead(c), s.memory) = [cpu |-> Context(c.PC + 1, cs, rs), memory |-> m2]
  BY <1>1, <1>2, Operands, ExecMovReg
<1>4. x.op # "halt" /\ rs \in [Regs -> Int] /\ rs["zero"] = 0 /\ Ints(m2)
  BY <1>1, <1>2, Stored DEF Do, Put
<1> HIDE DEF rs, cs, m2
<1>5. Becomes(P, s, t, s2, c.PC + 1, cs, rs, m2)
  BY <1>1, <1>3, <1>4, RunsTo DEF Gives
<1> QED
  BY <1>5, Reached, <1>1, <1>2 DEF rs, cs, m2

\* mov to a word of memory.
LEMMA MovMem ==
    ASSUME NEW P, NEW p, NEW s, NEW t, NEW s2, NEW c, NEW x, Runs(P, p, s, t, s2, c, x),
           NEW a \in Int, NEW src, NEW v \in Int, v = Value(src, Ahead(c), s.memory),
           x = Do("mov", src, Word(a))
    PROVE  Others(P, s, t, s2) /\ Onward(s, t, s2) /\ KeepsConds(s, t, s2)
           /\ KeepsRegs(s, t, s2) /\ SetsMem(s, s2, a, v)
<1> DEFINE rs == c.registers
           cs == c.conditions
           m2 == Write(s.memory, a, v)
<1>1. /\ Ahead(c) = Context(c.PC + 1, c.conditions, c.registers)
      /\ c.PC + 1 \in Int /\ c.registers \in [Regs -> Int] /\ c.registers["zero"] = 0
      /\ Ints(s.memory) /\ \A q : Reg(s, t, q) = c.registers[q]
  BY RunsFrom
<1>2. /\ \A b : Mem(s, b) \in Int /\ Mem(s, b) = Read(s.memory, b)
      /\ \A q \in Regs : Reg(s, t, q) \in Int
      /\ "zero" \in Regs
  BY Operands DEF Mem, Regs
<1>3. Exec(x, Ahead(c), s.memory) = [cpu |-> Context(c.PC + 1, cs, rs), memory |-> m2]
  BY <1>1, <1>2, Operands, ExecMovMem
<1>4. x.op # "halt" /\ rs \in [Regs -> Int] /\ rs["zero"] = 0 /\ Ints(m2)
  BY <1>1, <1>2, Stored DEF Do, Put
<1> HIDE DEF rs, cs, m2
<1>5. Becomes(P, s, t, s2, c.PC + 1, cs, rs, m2)
  BY <1>1, <1>3, <1>4, RunsTo DEF Gives
<1> QED
  BY <1>5, Reached, <1>1, <1>2 DEF rs, cs, m2

\* add to a register.
LEMMA Add ==
    ASSUME NEW P, NEW p, NEW s, NEW t, NEW s2, NEW c, NEW x, Runs(P, p, s, t, s2, c, x),
           NEW r \in {"ax", "bx", "cx"}, NEW n \in Int,
           x = Do("add", I(n), R(r))
    PROVE  Others(P, s, t, s2) /\ Onward(s, t, s2) /\ KeepsConds(s, t, s2)
           /\ KeepsMem(s, s2) /\ SetsReg(s, t, s2, r, Reg(s, t, r) + n)
<1> DEFINE rs == Put(c.registers, r, Reg(s, t, r) + n)
           cs == c.conditions
           m2 == s.memory
<1>1. /\ Ahead(c) = Context(c.PC + 1, c.conditions, c.registers)
      /\ c.PC + 1 \in Int /\ c.registers \in [Regs -> Int] /\ c.registers["zero"] = 0
      /\ Ints(s.memory) /\ \A q : Reg(s, t, q) = c.registers[q]
  BY RunsFrom
<1>2. /\ \A b : Mem(s, b) \in Int /\ Mem(s, b) = Read(s.memory, b)
      /\ \A q \in Regs : Reg(s, t, q) \in Int
      /\ r \in Regs /\ r # "zero"
  BY Operands DEF Mem, Regs
<1>3. Exec(x, Ahead(c), s.memory) = [cpu |-> Context(c.PC + 1, cs, rs), memory |-> m2]
  BY <1>1, <1>2, Operands, ExecAdd
<1>4. x.op # "halt" /\ rs \in [Regs -> Int] /\ rs["zero"] = 0 /\ Ints(m2)
  BY <1>1, <1>2, Stored DEF Do, Put
<1> HIDE DEF rs, cs, m2
<1>5. Becomes(P, s, t, s2, c.PC + 1, cs, rs, m2)
  BY <1>1, <1>3, <1>4, RunsTo DEF Gives
<1> QED
  BY <1>5, Reached, <1>1, <1>2 DEF rs, cs, m2

\* sub from a register.
LEMMA Sub ==
    ASSUME NEW P, NEW p, NEW s, NEW t, NEW s2, NEW c, NEW x, Runs(P, p, s, t, s2, c, x),
           NEW r \in {"ax", "bx", "cx"}, NEW n \in Int,
           x = Do("sub", I(n), R(r))
    PROVE  Others(P, s, t, s2) /\ Onward(s, t, s2) /\ KeepsConds(s, t, s2)
           /\ KeepsMem(s, s2) /\ SetsReg(s, t, s2, r, Reg(s, t, r) - n)
<1> DEFINE rs == Put(c.registers, r, Reg(s, t, r) - n)
           cs == c.conditions
           m2 == s.memory
<1>1. /\ Ahead(c) = Context(c.PC + 1, c.conditions, c.registers)
      /\ c.PC + 1 \in Int /\ c.registers \in [Regs -> Int] /\ c.registers["zero"] = 0
      /\ Ints(s.memory) /\ \A q : Reg(s, t, q) = c.registers[q]
  BY RunsFrom
<1>2. /\ \A b : Mem(s, b) \in Int /\ Mem(s, b) = Read(s.memory, b)
      /\ \A q \in Regs : Reg(s, t, q) \in Int
      /\ r \in Regs /\ r # "zero"
  BY Operands DEF Mem, Regs
<1>3. Exec(x, Ahead(c), s.memory) = [cpu |-> Context(c.PC + 1, cs, rs), memory |-> m2]
  BY <1>1, <1>2, Operands, ExecSub
<1>4. x.op # "halt" /\ rs \in [Regs -> Int] /\ rs["zero"] = 0 /\ Ints(m2)
  BY <1>1, <1>2, Stored DEF Do, Put
<1> HIDE DEF rs, cs, m2
<1>5. Becomes(P, s, t, s2, c.PC + 1, cs, rs, m2)
  BY <1>1, <1>3, <1>4, RunsTo DEF Gives
<1> QED
  BY <1>5, Reached, <1>1, <1>2 DEF rs, cs, m2

\* xchg of a register and a word, in one step.
LEMMA Xchg ==
    ASSUME NEW P, NEW p, NEW s, NEW t, NEW s2, NEW c, NEW x, Runs(P, p, s, t, s2, c, x),
           NEW r \in {"ax", "bx", "cx"}, NEW a \in Int,
           x = Do("xchg", R(r), Word(a))
    PROVE  Others(P, s, t, s2) /\ Onward(s, t, s2) /\ KeepsConds(s, t, s2)
           /\ SetsMem(s, s2, a, Reg(s, t, r)) /\ SetsReg(s, t, s2, r, Mem(s, a))
<1> DEFINE rs == Put(c.registers, r, Mem(s, a))
           cs == c.conditions
           m2 == Write(s.memory, a, Reg(s, t, r))
<1>1. /\ Ahead(c) = Context(c.PC + 1, c.conditions, c.registers)
      /\ c.PC + 1 \in Int /\ c.registers \in [Regs -> Int] /\ c.registers["zero"] = 0
      /\ Ints(s.memory) /\ \A q : Reg(s, t, q) = c.registers[q]
  BY RunsFrom
<1>2. /\ \A b : Mem(s, b) \in Int /\ Mem(s, b) = Read(s.memory, b)
      /\ \A q \in Regs : Reg(s, t, q) \in Int
      /\ r \in Regs /\ r # "zero"
  BY Operands DEF Mem, Regs
<1>3. Exec(x, Ahead(c), s.memory) = [cpu |-> Context(c.PC + 1, cs, rs), memory |-> m2]
  BY <1>1, <1>2, Operands, ExecXchg
<1>4. x.op # "halt" /\ rs \in [Regs -> Int] /\ rs["zero"] = 0 /\ Ints(m2)
  BY <1>1, <1>2, Stored DEF Do, Put
<1> HIDE DEF rs, cs, m2
<1>5. Becomes(P, s, t, s2, c.PC + 1, cs, rs, m2)
  BY <1>1, <1>3, <1>4, RunsTo DEF Gives
<1> QED
  BY <1>5, Reached, <1>1, <1>2 DEF rs, cs, m2

\* fetchadd: the word goes to the register, and what the register held is added to it.
LEMMA FetchAdd ==
    ASSUME NEW P, NEW p, NEW s, NEW t, NEW s2, NEW c, NEW x, Runs(P, p, s, t, s2, c, x),
           NEW r \in {"ax", "bx", "cx"}, NEW a \in Int,
           x = Do("fetchadd", R(r), Word(a))
    PROVE  Others(P, s, t, s2) /\ Onward(s, t, s2) /\ KeepsConds(s, t, s2)
           /\ SetsMem(s, s2, a, Mem(s, a) + Reg(s, t, r)) /\ SetsReg(s, t, s2, r, Mem(s, a))
<1> DEFINE rs == Put(c.registers, r, Mem(s, a))
           cs == c.conditions
           m2 == Write(s.memory, a, Mem(s, a) + Reg(s, t, r))
<1>1. /\ Ahead(c) = Context(c.PC + 1, c.conditions, c.registers)
      /\ c.PC + 1 \in Int /\ c.registers \in [Regs -> Int] /\ c.registers["zero"] = 0
      /\ Ints(s.memory) /\ \A q : Reg(s, t, q) = c.registers[q]
  BY RunsFrom
<1>2. /\ \A b : Mem(s, b) \in Int /\ Mem(s, b) = Read(s.memory, b)
      /\ \A q \in Regs : Reg(s, t, q) \in Int
      /\ r \in Regs /\ r # "zero"
  BY Operands DEF Mem, Regs
<1>3. Exec(x, Ahead(c), s.memory) = [cpu |-> Context(c.PC + 1, cs, rs), memory |-> m2]
  BY <1>1, <1>2, Operands, ExecFetchAdd
<1>4. x.op # "halt" /\ rs \in [Regs -> Int] /\ rs["zero"] = 0 /\ Ints(m2)
  BY <1>1, <1>2, Stored DEF Do, Put
<1> HIDE DEF rs, cs, m2
<1>5. Becomes(P, s, t, s2, c.PC + 1, cs, rs, m2)
  BY <1>1, <1>3, <1>4, RunsTo DEF Gives
<1> QED
  BY <1>5, Reached, <1>1, <1>2 DEF rs, cs, m2

\* test compares a register with a number or a register.
LEMMA Test ==
    ASSUME NEW P, NEW p, NEW s, NEW t, NEW s2, NEW c, NEW x, Runs(P, p, s, t, s2, c, x),
           NEW r \in {"ax", "bx", "cx"}, NEW src, NEW v \in Int, v = Value(src, Ahead(c), s.memory),
           x = Do("test", src, R(r))
    PROVE  /\ Others(P, s, t, s2) /\ Onward(s, t, s2) /\ KeepsRegs(s, t, s2) /\ KeepsMem(s, s2)
           /\ Differ(s2, t) <=> Reg(s, t, r) # v
           /\ Equal(s2, t) <=> Reg(s, t, r) = v
           /\ Above(s2, t) <=> Reg(s, t, r) > v
<1> DEFINE cs == test_all(v, Reg(s, t, r))
<1>1. /\ Ahead(c) = Context(c.PC + 1, c.conditions, c.registers)
      /\ c.PC + 1 \in Int /\ c.registers \in [Regs -> Int] /\ c.registers["zero"] = 0
      /\ Ints(s.memory) /\ \A q : Reg(s, t, q) = c.registers[q]
  BY RunsFrom
<1>2. Value(R(r), Ahead(c), s.memory) = Reg(s, t, r)
  BY Operands
<1>3. Exec(x, Ahead(c), s.memory) = [cpu |-> Context(c.PC + 1, cs, c.registers), memory |-> s.memory]
  BY <1>1, <1>2, ExecTest
<1>4. x.op # "halt"
  BY DEF Do
<1>5. /\ cs.neq <=> Reg(s, t, r) # v
      /\ cs.eq <=> Reg(s, t, r) = v
      /\ cs.gt <=> Reg(s, t, r) > v
  BY DEF test_all
<1> HIDE DEF cs
<1>6. Becomes(P, s, t, s2, c.PC + 1, cs, c.registers, s.memory)
  BY <1>1, <1>3, <1>4, RunsTo DEF Gives
<1>7. /\ Differ(s2, t) <=> cs.neq
      /\ Equal(s2, t) <=> cs.eq
      /\ Above(s2, t) <=> cs.gt
  BY <1>6 DEF Becomes
<1>8. Others(P, s, t, s2) /\ Onward(s, t, s2) /\ KeepsRegs(s, t, s2) /\ KeepsMem(s, s2)
  BY <1>6, Reached
<1> QED
  BY <1>5, <1>7, <1>8

\* A jump to the instruction d from the first, which it takes by the last test.
TakenBy(s, t, o) ==
    \/ o = "j"
    \/ o = "jne" /\ Differ(s, t)
    \/ o = "je"  /\ Equal(s, t)
    \/ o = "jgt" /\ Above(s, t)

\* jne, je and jgt: taken as the flags of the last test say.
LEMMA Jump ==
    ASSUME NEW P, NEW p, NEW s, NEW t, NEW s2, NEW c, NEW x, Runs(P, p, s, t, s2, c, x),
           NEW o \in {"j", "jne", "je", "jgt"}, NEW d \in Nat, NEW dst,
           x = Do(o, I(loadaddr + d), dst)
    PROVE  /\ Others(P, s, t, s2) /\ KeepsRegs(s, t, s2) /\ KeepsConds(s, t, s2) /\ KeepsMem(s, s2)
           /\ loc(s2, t) = IF TakenBy(s, t, o) THEN d ELSE loc(s, t) + 1
<1> DEFINE pc == IF Taken(o, c.conditions) THEN loadaddr + d ELSE c.PC + 1
<1>1. /\ Ahead(c) = Context(c.PC + 1, c.conditions, c.registers)
      /\ c.PC \in Int /\ c.PC + 1 \in Int /\ c.registers \in [Regs -> Int] /\ c.registers["zero"] = 0
      /\ Ints(s.memory)
      /\ loc(s, t) = c.PC - loadaddr
      /\ Differ(s, t) <=> c.conditions.neq
      /\ Equal(s, t) <=> c.conditions.eq
      /\ Above(s, t) <=> c.conditions.gt
  BY RunsFrom
<1>2. Taken(o, c.conditions) <=> TakenBy(s, t, o)
  BY <1>1 DEF Taken, TakenBy
<1>3. Exec(x, Ahead(c), s.memory) = [cpu |-> Context(pc, c.conditions, c.registers), memory |-> s.memory]
  BY <1>1, ExecJump
<1>4. x.op # "halt" /\ pc \in Int
  BY <1>1, LoadAddrAssumption DEF Do
<1>5. pc - loadaddr = IF TakenBy(s, t, o) THEN d ELSE loc(s, t) + 1
  BY <1>1, <1>2, LoadAddrAssumption
<1> HIDE DEF pc
<1>6. Becomes(P, s, t, s2, pc, c.conditions, c.registers, s.memory)
  BY <1>1, <1>3, <1>4, RunsTo DEF Gives
<1>7. /\ Others(P, s, t, s2) /\ KeepsRegs(s, t, s2) /\ KeepsConds(s, t, s2) /\ KeepsMem(s, s2)
      /\ loc(s2, t) = pc - loadaddr
  BY <1>6, Reached
<1> QED
  BY <1>5, <1>7

\* yield only lets another thread run.
LEMMA Yields ==
    ASSUME NEW P, NEW p, NEW s, NEW t, NEW s2, NEW c, NEW x, Runs(P, p, s, t, s2, c, x),
           x = Do("yield", None, None)
    PROVE  /\ Others(P, s, t, s2) /\ Onward(s, t, s2) /\ KeepsRegs(s, t, s2)
           /\ KeepsConds(s, t, s2) /\ KeepsMem(s, s2)
<1>1. /\ Ahead(c) = Context(c.PC + 1, c.conditions, c.registers)
      /\ c.PC + 1 \in Int /\ c.registers \in [Regs -> Int] /\ c.registers["zero"] = 0
      /\ Ints(s.memory)
  BY RunsFrom
<1>2. Exec(x, Ahead(c), s.memory) = [cpu |-> Context(c.PC + 1, c.conditions, c.registers), memory |-> s.memory]
  BY <1>1, ExecYield
<1>3. x.op # "halt"
  BY DEF Do
<1>4. Becomes(P, s, t, s2, c.PC + 1, c.conditions, c.registers, s.memory)
  BY <1>1, <1>2, <1>3, RunsTo DEF Gives
<1> QED
  BY <1>4, Reached

\* halt ends the thread.
LEMMA HaltsAt ==
    ASSUME NEW P, NEW p, NEW s, NEW t, NEW s2, NEW c, NEW x, Runs(P, p, s, t, s2, c, x),
           x = Do("halt", None, None)
    PROVE  Others(P, s, t, s2) /\ KeepsMem(s, s2) /\ loc(s2, t) = -1
<1>1. Exec(x, Ahead(c), s.memory).memory = s.memory
  BY DEF Exec, Jumps, Do
<1>2. /\ s2.memory = s.memory /\ t \in P
      /\ s2.context = Put(s.context, t, [PC |-> -1])
      /\ s2.done = Put(s.done, t, TRUE)
  <2>1. Ends(p, c) /\ Ends(p, c) = TRUE
    BY DEF Ends, Runs, Instruction, Do
  <2>2. Ran(p, c, s.memory).memory = s.memory
    BY <1>1 DEF Ran, Runs, Instruction
  <2> QED
    BY <2>1, <2>2 DEF StepOf, Runs
<1>3. /\ \A u \in P \ {t} : s2.context[u] = s.context[u]
      /\ s2.context = [u \in P |-> s2.context[u]]
  BY <1>2 DEF Shaped, Put, Runs
<1>4. /\ s2.done \in [P -> BOOLEAN] /\ s2.done[t]
      /\ \A u \in P \ {t} : s2.done[u] = s.done[u]
  BY <1>2 DEF Shaped, Put, Runs
<1>5. Shaped(P, s2)
  BY <1>2, <1>3, <1>4 DEF Shaped, Runs
<1>6. \A u \in P \ {t} : Same(s, u, s2)
  BY <1>3, <1>4 DEF Same, loc, Reg, Differ, Equal, Above
<1> QED
  BY <1>2, <1>4, <1>5, <1>6 DEF Others, KeepsMem, Mem, loc

-----------------------------------------------------------------------------
(* The steps of the programs.                                              *)

(* The lock by xchg: at x the exchange, at x + 2 the jump that fails if     *)
(* the lock was taken; the critical section is c .. c + 2, and c + 3 gives  *)
(* the lock back.                                                           *)
Mutex == 100

\* Where a thread may hold the lock or be about to.
Zone(l, x, c) == l \in x .. x + 2 \/ l \in c .. c + 3

\* Whether thread t has found the lock free: yield.s jumps on equality, the others else.
Passed(p, s, t) == IF p = "yield" THEN Equal(s, t) ELSE ~Differ(s, t)

\* A step of thread t as the lock sees it.
ExStep(p, s, t, s2, x, c) ==
    \/ /\ ~Zone(loc(s, t), x, c) /\ ~Zone(loc(s2, t), x, c)
       /\ Mem(s2, Mutex) = Mem(s, Mutex)
    \/ /\ ~Zone(loc(s, t), x, c) /\ loc(s2, t) = x
       /\ Reg(s2, t, "ax") = 1 /\ Mem(s2, Mutex) = Mem(s, Mutex)
    \/ /\ loc(s, t) = x /\ loc(s2, t) = x + 1
       /\ Reg(s2, t, "ax") = Mem(s, Mutex) /\ Mem(s2, Mutex) = Reg(s, t, "ax")
    \/ /\ loc(s, t) = x + 1 /\ loc(s2, t) = x + 2
       /\ Passed(p, s2, t) <=> Reg(s, t, "ax") = 0
       /\ Mem(s2, Mutex) = Mem(s, Mutex)
    \/ /\ loc(s, t) = x + 2 /\ ~Passed(p, s, t) /\ ~Zone(loc(s2, t), x, c)
       /\ Mem(s2, Mutex) = Mem(s, Mutex)
    \/ /\ loc(s, t) = x + 2 /\ Passed(p, s, t) /\ loc(s2, t) = c
       /\ Mem(s2, Mutex) = Mem(s, Mutex)
    \/ /\ loc(s, t) \in c .. c + 2 /\ loc(s2, t) = loc(s, t) + 1
       /\ Mem(s2, Mutex) = Mem(s, Mutex)
    \/ /\ loc(s, t) = c + 3 /\ loc(s2, t) = c + 4
       /\ Mem(s2, Mutex) = 0

(* The count, at a: loaded at c, stored at c + 2; at b the loop counts bx   *)
(* down, at b + 2 it goes on, and at b + 3 it is over.                      *)
CountStep(s, t, s2, c, b, a) ==
    LET Still == Mem(s2, a) = Mem(s, a) /\ Reg(s2, t, "bx") = Reg(s, t, "bx")
    IN  \/ loc(s, t) \in 0 .. c - 1 /\ loc(s2, t) \in 0 .. c /\ Still
        \/ loc(s, t) = c /\ loc(s2, t) = c + 1 /\ Still /\ Reg(s2, t, "ax") = Mem(s, a)
        \/ loc(s, t) = c + 1 /\ loc(s2, t) = c + 2 /\ Still
           /\ Reg(s2, t, "ax") = Reg(s, t, "ax") + 1
        \/ loc(s, t) = c + 2 /\ loc(s2, t) = c + 3
           /\ Mem(s2, a) = Reg(s, t, "ax") /\ Reg(s2, t, "bx") = Reg(s, t, "bx")
        \/ loc(s, t) \in c + 3 .. b - 1 /\ loc(s2, t) = loc(s, t) + 1 /\ Still
        \/ loc(s, t) = b /\ loc(s2, t) = b + 1
           /\ Mem(s2, a) = Mem(s, a) /\ Reg(s2, t, "bx") = Reg(s, t, "bx") - 1
        \/ loc(s, t) = b + 1 /\ loc(s2, t) = b + 2 /\ Still
           /\ (Above(s2, t) <=> Reg(s, t, "bx") > 0)
        \/ loc(s, t) = b + 2 /\ Above(s, t) /\ loc(s2, t) = 0 /\ Still
        \/ loc(s, t) = b + 2 /\ ~Above(s, t) /\ loc(s2, t) = b + 3 /\ Still
        \/ loc(s, t) = b + 3 /\ loc(s2, t) = -1 /\ Mem(s2, a) = Mem(s, a)

(* ticket.s: a ticket is taken at 1, the turn awaited at 2 .. 4, the count  *)
(* increased at 5 .. 7 and the turn passed on at 9.                         *)
TicketRef == 100
TurnRef   == 104

TicketStep(s, t, s2) ==
    LET Still == Mem(s2, TicketRef) = Mem(s, TicketRef) /\ Mem(s2, TurnRef) = Mem(s, TurnRef)
        Keeps == Reg(s2, t, "ax") = Reg(s, t, "ax")
    IN  \/ loc(s, t) \notin 0 .. 9 /\ loc(s2, t) \notin 1 .. 9 /\ Still
        \/ loc(s, t) = 0 /\ loc(s2, t) = 1 /\ Still /\ Reg(s2, t, "ax") = 1
        \/ loc(s, t) = 1 /\ loc(s2, t) = 2 /\ Reg(s2, t, "ax") = Mem(s, TicketRef)
           /\ Mem(s2, TicketRef) = Mem(s, TicketRef) + Reg(s, t, "ax")
           /\ Mem(s2, TurnRef) = Mem(s, TurnRef)
        \/ loc(s, t) = 2 /\ loc(s2, t) = 3 /\ Still /\ Keeps /\ Reg(s2, t, "cx") = Mem(s, TurnRef)
        \/ loc(s, t) = 3 /\ loc(s2, t) = 4 /\ Still /\ Keeps
           /\ (Differ(s2, t) <=> Reg(s, t, "ax") # Reg(s, t, "cx"))
        \/ loc(s, t) = 4 /\ Differ(s, t) /\ loc(s2, t) = 2 /\ Still /\ Keeps
        \/ loc(s, t) = 4 /\ ~Differ(s, t) /\ loc(s2, t) = 5 /\ Still
        \/ loc(s, t) \in 5 .. 7 /\ loc(s2, t) = loc(s, t) + 1 /\ Still
        \/ loc(s, t) = 8 /\ loc(s2, t) = 9 /\ Still /\ Reg(s2, t, "ax") = 1
        \/ loc(s, t) = 9 /\ loc(s2, t) = 10
           /\ Mem(s2, TicketRef) = Mem(s, TicketRef)
           /\ Mem(s2, TurnRef) = Mem(s, TurnRef) + Reg(s, t, "ax")

(* wait-for-me.s: a waiter polls at 2 .. 4 and halts at 5; the signal is    *)
(* given at 6.                                                              *)
Signal == 2000

WaitStep(s, t, s2) ==
    LET Still == Mem(s2, Signal) = Mem(s, Signal)
    IN  \/ loc(s, t) \in {0, 1} /\ loc(s2, t) \in {1, 2, 6} /\ Still
        \/ loc(s, t) = 2 /\ loc(s2, t) = 3 /\ Still /\ Reg(s2, t, "cx") = Mem(s, Signal)
        \/ loc(s, t) = 3 /\ loc(s2, t) = 4 /\ Still
           /\ (Differ(s2, t) <=> Reg(s, t, "cx") # 1)
        \/ loc(s, t) = 4 /\ Differ(s, t) /\ loc(s2, t) = 2 /\ Still
        \/ loc(s, t) = 4 /\ ~Differ(s, t) /\ loc(s2, t) = 5 /\ Still
        \/ loc(s, t) = 5 /\ loc(s2, t) = -1 /\ Still
        \/ loc(s, t) = 6 /\ loc(s2, t) = 7 /\ Mem(s2, Signal) = 1
        \/ loc(s, t) = 7 /\ loc(s2, t) = -1 /\ Still

\* Thread t steps from s to s2 at an instruction of the program p.
StepsIn(P, p, s, t, s2) ==
    t \in P /\ Shaped(P, s) /\ StepOf(p, s, t, s2) /\ s.context[t].PC \in DOMAIN program[p]

\* The place of the thread that steps, and the instruction there.
LEMMA StepsAt ==
    ASSUME NEW P, NEW p, NEW s, NEW t, NEW s2, StepsIn(P, p, s, t, s2),
           NEW n \in Nat, DOMAIN program[p] = loadaddr .. loadaddr + n
    PROVE  /\ loc(s, t) \in 0 .. n
           /\ \A x : x = program[p][loadaddr + loc(s, t)] => Runs(P, p, s, t, s2, s.context[t], x)
<1> DEFINE pc == s.context[t].PC
           l  == loc(s, t)
<1>1. pc \in loadaddr .. loadaddr + n /\ ~s.done[t]
  BY DEF StepsIn, StepOf
<1>2. l = pc - loadaddr
  BY <1>1 DEF loc
<1>3. loadaddr + l = pc /\ l \in 0 .. n
  <2> HIDE DEF pc, l
  <2> QED
    BY <1>1, <1>2, LoadAddrAssumption
<1> QED
  BY <1>3 DEF Runs, StepsIn, Instruction

\* The steps of test-and-set.s.
LEMMA TasSteps ==
    ASSUME NEW P, NEW p, NEW s, NEW t, NEW s2, StepsIn(P, p, s, t, s2),
           p = "test-and-set", program[p] = load(test_and_set_s)
    PROVE  Others(P, s, t, s2) /\ ExStep(p, s, t, s2, 1, 4) /\ CountStep(s, t, s2, 4, 8, 104)
<1> DEFINE c == s.context[t]
           l == loc(s, t)
<1>1. l \in 0 .. 11 /\ \A x : x = load(test_and_set_s)[loadaddr + l] => Runs(P, p, s, t, s2, c, x)
  <2>1. DOMAIN program[p] = loadaddr .. loadaddr + 11 /\ 11 \in Nat
    BY TasCode
  <2> QED
    BY <2>1, StepsAt
<1> HIDE DEF c
<1>2. CASE l = 0
  <2>1. Runs(P, p, s, t, s2, c, Do("mov", I(1), R("ax")))
    BY <1>1, <1>2, TasCode DEF ax, bx, cx
  <2>2. 1 = Value(I(1), Ahead(c), s.memory) /\ 1 \in Int
    BY <2>1, Operands DEF Regs
  <2>3. /\ Others(P, s, t, s2) /\ Onward(s, t, s2) /\ KeepsConds(s, t, s2) /\ KeepsMem(s, s2)
        /\ SetsReg(s, t, s2, "ax", 1)
    BY <2>1, <2>2, MovReg
  <2> QED
    BY <1>2, <2>3 DEF Onward, SetsReg, KeepsConds, KeepsMem, Regs, ExStep, Mutex, Zone, Passed, CountStep
<1>3. CASE l = 1
  <2>1. Runs(P, p, s, t, s2, c, Do("xchg", R("ax"), Word(100)))
    BY <1>1, <1>3, TasCode DEF ax, bx, cx
  <2>3. /\ Others(P, s, t, s2) /\ Onward(s, t, s2) /\ KeepsConds(s, t, s2) /\ SetsMem(s, s2, 100, Reg(s, t, "ax"))
        /\ SetsReg(s, t, s2, "ax", Mem(s, 100))
    BY <2>1, Xchg
  <2> QED
    BY <1>3, <2>3 DEF Onward, SetsReg, KeepsConds, SetsMem, Regs, ExStep, Mutex, Zone, Passed, CountStep
<1>4. CASE l = 2
  <2>1. Runs(P, p, s, t, s2, c, Do("test", I(0), R("ax")))
    BY <1>1, <1>4, TasCode DEF ax, bx, cx
  <2>2. 0 = Value(I(0), Ahead(c), s.memory) /\ 0 \in Int
    BY <2>1, Operands DEF Regs
  <2>3. /\ Others(P, s, t, s2) /\ Onward(s, t, s2) /\ KeepsRegs(s, t, s2) /\ KeepsMem(s, s2)
        /\ (Differ(s2, t) <=> Reg(s, t, "ax") # 0)
        /\ (Equal(s2, t) <=> Reg(s, t, "ax") = 0)
        /\ (Above(s2, t) <=> Reg(s, t, "ax") > 0)
    BY <2>1, <2>2, Test
  <2> QED
    BY <1>4, <2>3 DEF Onward, KeepsRegs, KeepsMem, ExStep, Mutex, Zone, Passed, CountStep
<1>5. CASE l = 3
  <2>1. Runs(P, p, s, t, s2, c, Do("jne", I(loadaddr + 0), None))
    BY <1>1, <1>5, TasCode DEF ax, bx, cx
  <2>3. /\ Others(P, s, t, s2) /\ KeepsRegs(s, t, s2) /\ KeepsConds(s, t, s2) /\ KeepsMem(s, s2)
        /\ loc(s2, t) = IF TakenBy(s, t, "jne") THEN 0 ELSE l + 1
    BY <2>1, Jump
  <2> QED
    BY <1>5, <2>3 DEF KeepsRegs, KeepsConds, KeepsMem, TakenBy, ExStep, Mutex, Zone, Passed, CountStep
<1>6. CASE l = 4
  <2>1. Runs(P, p, s, t, s2, c, Do("mov", Word(104), R("ax")))
    BY <1>1, <1>6, TasCode DEF ax, bx, cx
  <2>2. Mem(s, 104) = Value(Word(104), Ahead(c), s.memory) /\ Mem(s, 104) \in Int
    BY <2>1, Operands DEF Regs
  <2>3. /\ Others(P, s, t, s2) /\ Onward(s, t, s2) /\ KeepsConds(s, t, s2) /\ KeepsMem(s, s2)
        /\ SetsReg(s, t, s2, "ax", Mem(s, 104))
    BY <2>1, <2>2, MovReg
  <2> QED
    BY <1>6, <2>3 DEF Onward, SetsReg, KeepsConds, KeepsMem, Regs, ExStep, Mutex, Zone, Passed, CountStep
<1>7. CASE l = 5
  <2>1. Runs(P, p, s, t, s2, c, Do("add", I(1), R("ax")))
    BY <1>1, <1>7, TasCode DEF ax, bx, cx
  <2>3. /\ Others(P, s, t, s2) /\ Onward(s, t, s2) /\ KeepsConds(s, t, s2) /\ KeepsMem(s, s2)
        /\ SetsReg(s, t, s2, "ax", Reg(s, t, "ax") + 1)
    BY <2>1, Add
  <2> QED
    BY <1>7, <2>3 DEF Onward, SetsReg, KeepsConds, KeepsMem, Regs, ExStep, Mutex, Zone, Passed, CountStep
<1>8. CASE l = 6
  <2>1. Runs(P, p, s, t, s2, c, Do("mov", R("ax"), Word(104)))
    BY <1>1, <1>8, TasCode DEF ax, bx, cx
  <2>2. Reg(s, t, "ax") = Value(R("ax"), Ahead(c), s.memory) /\ Reg(s, t, "ax") \in Int
    BY <2>1, Operands DEF Regs
  <2>3. /\ Others(P, s, t, s2) /\ Onward(s, t, s2) /\ KeepsConds(s, t, s2) /\ KeepsRegs(s, t, s2)
        /\ SetsMem(s, s2, 104, Reg(s, t, "ax"))
    BY <2>1, <2>2, MovMem
  <2> QED
    BY <1>8, <2>3 DEF Onward, KeepsRegs, KeepsConds, SetsMem, ExStep, Mutex, Zone, Passed, CountStep
<1>9. CASE l = 7
  <2>1. Runs(P, p, s, t, s2, c, Do("mov", I(0), Word(100)))
    BY <1>1, <1>9, TasCode DEF ax, bx, cx
  <2>2. 0 = Value(I(0), Ahead(c), s.memory) /\ 0 \in Int
    BY <2>1, Operands DEF Regs
  <2>3. /\ Others(P, s, t, s2) /\ Onward(s, t, s2) /\ KeepsConds(s, t, s2) /\ KeepsRegs(s, t, s2)
        /\ SetsMem(s, s2, 100, 0)
    BY <2>1, <2>2, MovMem
  <2> QED
    BY <1>9, <2>3 DEF Onward, KeepsRegs, KeepsConds, SetsMem, ExStep, Mutex, Zone, Passed, CountStep
<1>10. CASE l = 8
  <2>1. Runs(P, p, s, t, s2, c, Do("sub", I(1), R("bx")))
    BY <1>1, <1>10, TasCode DEF ax, bx, cx
  <2>3. /\ Others(P, s, t, s2) /\ Onward(s, t, s2) /\ KeepsConds(s, t, s2) /\ KeepsMem(s, s2)
        /\ SetsReg(s, t, s2, "bx", Reg(s, t, "bx") - 1)
    BY <2>1, Sub
  <2> QED
    BY <1>10, <2>3 DEF Onward, SetsReg, KeepsConds, KeepsMem, Regs, ExStep, Mutex, Zone, Passed, CountStep
<1>11. CASE l = 9
  <2>1. Runs(P, p, s, t, s2, c, Do("test", I(0), R("bx")))
    BY <1>1, <1>11, TasCode DEF ax, bx, cx
  <2>2. 0 = Value(I(0), Ahead(c), s.memory) /\ 0 \in Int
    BY <2>1, Operands DEF Regs
  <2>3. /\ Others(P, s, t, s2) /\ Onward(s, t, s2) /\ KeepsRegs(s, t, s2) /\ KeepsMem(s, s2)
        /\ (Differ(s2, t) <=> Reg(s, t, "bx") # 0)
        /\ (Equal(s2, t) <=> Reg(s, t, "bx") = 0)
        /\ (Above(s2, t) <=> Reg(s, t, "bx") > 0)
    BY <2>1, <2>2, Test
  <2> QED
    BY <1>11, <2>3 DEF Onward, KeepsRegs, KeepsMem, ExStep, Mutex, Zone, Passed, CountStep
<1>12. CASE l = 10
  <2>1. Runs(P, p, s, t, s2, c, Do("jgt", I(loadaddr + 0), None))
    BY <1>1, <1>12, TasCode DEF ax, bx, cx
  <2>3. /\ Others(P, s, t, s2) /\ KeepsRegs(s, t, s2) /\ KeepsConds(s, t, s2) /\ KeepsMem(s, s2)
        /\ loc(s2, t) = IF TakenBy(s, t, "jgt") THEN 0 ELSE l + 1
    BY <2>1, Jump
  <2> QED
    BY <1>12, <2>3 DEF KeepsRegs, KeepsConds, KeepsMem, TakenBy, ExStep, Mutex, Zone, Passed, CountStep
<1>13. CASE l = 11
  <2>1. Runs(P, p, s, t, s2, c, Do("halt", None, None))
    BY <1>1, <1>13, TasCode DEF ax, bx, cx
  <2>3. /\ Others(P, s, t, s2) /\ KeepsMem(s, s2) /\ loc(s2, t) = -1
    BY <2>1, HaltsAt
  <2> QED
    BY <1>13, <2>3 DEF KeepsMem, ExStep, Mutex, Zone, Passed, CountStep
<1> QED
  BY <1>1, <1>2, <1>3, <1>4, <1>5, <1>6, <1>7, <1>8, <1>9, <1>10, <1>11, <1>12, <1>13

\* The steps of test-and-test-and-set.s.
LEMMA TtasSteps ==
    ASSUME NEW P, NEW p, NEW s, NEW t, NEW s2, StepsIn(P, p, s, t, s2),
           p = "test-and-test-and-set", program[p] = load(test_and_test_and_set_s)
    PROVE  Others(P, s, t, s2) /\ ExStep(p, s, t, s2, 4, 7) /\ CountStep(s, t, s2, 7, 11, 104)
<1> DEFINE c == s.context[t]
           l == loc(s, t)
<1>1. l \in 0 .. 14 /\ \A x : x = load(test_and_test_and_set_s)[loadaddr + l] => Runs(P, p, s, t, s2, c, x)
  <2>1. DOMAIN program[p] = loadaddr .. loadaddr + 14 /\ 14 \in Nat
    BY TtasCode
  <2> QED
    BY <2>1, StepsAt
<1> HIDE DEF c
<1>2. CASE l = 0
  <2>1. Runs(P, p, s, t, s2, c, Do("mov", Word(100), R("ax")))
    BY <1>1, <1>2, TtasCode DEF ax, bx, cx
  <2>2. Mem(s, 100) = Value(Word(100), Ahead(c), s.memory) /\ Mem(s, 100) \in Int
    BY <2>1, Operands DEF Regs
  <2>3. /\ Others(P, s, t, s2) /\ Onward(s, t, s2) /\ KeepsConds(s, t, s2) /\ KeepsMem(s, s2)
        /\ SetsReg(s, t, s2, "ax", Mem(s, 100))
    BY <2>1, <2>2, MovReg
  <2> QED
    BY <1>2, <2>3 DEF Onward, SetsReg, KeepsConds, KeepsMem, Regs, ExStep, Mutex, Zone, Passed, CountStep
<1>3. CASE l = 1
  <2>1. Runs(P, p, s, t, s2, c, Do("test", I(0), R("ax")))
    BY <1>1, <1>3, TtasCode DEF ax, bx, cx
  <2>2. 0 = Value(I(0), Ahead(c), s.memory) /\ 0 \in Int
    BY <2>1, Operands DEF Regs
  <2>3. /\ Others(P, s, t, s2) /\ Onward(s, t, s2) /\ KeepsRegs(s, t, s2) /\ KeepsMem(s, s2)
        /\ (Differ(s2, t) <=> Reg(s, t, "ax") # 0)
        /\ (Equal(s2, t) <=> Reg(s, t, "ax") = 0)
        /\ (Above(s2, t) <=> Reg(s, t, "ax") > 0)
    BY <2>1, <2>2, Test
  <2> QED
    BY <1>3, <2>3 DEF Onward, KeepsRegs, KeepsMem, ExStep, Mutex, Zone, Passed, CountStep
<1>4. CASE l = 2
  <2>1. Runs(P, p, s, t, s2, c, Do("jne", I(loadaddr + 0), None))
    BY <1>1, <1>4, TtasCode DEF ax, bx, cx
  <2>3. /\ Others(P, s, t, s2) /\ KeepsRegs(s, t, s2) /\ KeepsConds(s, t, s2) /\ KeepsMem(s, s2)
        /\ loc(s2, t) = IF TakenBy(s, t, "jne") THEN 0 ELSE l + 1
    BY <2>1, Jump
  <2> QED
    BY <1>4, <2>3 DEF KeepsRegs, KeepsConds, KeepsMem, TakenBy, ExStep, Mutex, Zone, Passed, CountStep
<1>5. CASE l = 3
  <2>1. Runs(P, p, s, t, s2, c, Do("mov", I(1), R("ax")))
    BY <1>1, <1>5, TtasCode DEF ax, bx, cx
  <2>2. 1 = Value(I(1), Ahead(c), s.memory) /\ 1 \in Int
    BY <2>1, Operands DEF Regs
  <2>3. /\ Others(P, s, t, s2) /\ Onward(s, t, s2) /\ KeepsConds(s, t, s2) /\ KeepsMem(s, s2)
        /\ SetsReg(s, t, s2, "ax", 1)
    BY <2>1, <2>2, MovReg
  <2> QED
    BY <1>5, <2>3 DEF Onward, SetsReg, KeepsConds, KeepsMem, Regs, ExStep, Mutex, Zone, Passed, CountStep
<1>6. CASE l = 4
  <2>1. Runs(P, p, s, t, s2, c, Do("xchg", R("ax"), Word(100)))
    BY <1>1, <1>6, TtasCode DEF ax, bx, cx
  <2>3. /\ Others(P, s, t, s2) /\ Onward(s, t, s2) /\ KeepsConds(s, t, s2) /\ SetsMem(s, s2, 100, Reg(s, t, "ax"))
        /\ SetsReg(s, t, s2, "ax", Mem(s, 100))
    BY <2>1, Xchg
  <2> QED
    BY <1>6, <2>3 DEF Onward, SetsReg, KeepsConds, SetsMem, Regs, ExStep, Mutex, Zone, Passed, CountStep
<1>7. CASE l = 5
  <2>1. Runs(P, p, s, t, s2, c, Do("test", I(0), R("ax")))
    BY <1>1, <1>7, TtasCode DEF ax, bx, cx
  <2>2. 0 = Value(I(0), Ahead(c), s.memory) /\ 0 \in Int
    BY <2>1, Operands DEF Regs
  <2>3. /\ Others(P, s, t, s2) /\ Onward(s, t, s2) /\ KeepsRegs(s, t, s2) /\ KeepsMem(s, s2)
        /\ (Differ(s2, t) <=> Reg(s, t, "ax") # 0)
        /\ (Equal(s2, t) <=> Reg(s, t, "ax") = 0)
        /\ (Above(s2, t) <=> Reg(s, t, "ax") > 0)
    BY <2>1, <2>2, Test
  <2> QED
    BY <1>7, <2>3 DEF Onward, KeepsRegs, KeepsMem, ExStep, Mutex, Zone, Passed, CountStep
<1>8. CASE l = 6
  <2>1. Runs(P, p, s, t, s2, c, Do("jne", I(loadaddr + 0), None))
    BY <1>1, <1>8, TtasCode DEF ax, bx, cx
  <2>3. /\ Others(P, s, t, s2) /\ KeepsRegs(s, t, s2) /\ KeepsConds(s, t, s2) /\ KeepsMem(s, s2)
        /\ loc(s2, t) = IF TakenBy(s, t, "jne") THEN 0 ELSE l + 1
    BY <2>1, Jump
  <2> QED
    BY <1>8, <2>3 DEF KeepsRegs, KeepsConds, KeepsMem, TakenBy, ExStep, Mutex, Zone, Passed, CountStep
<1>9. CASE l = 7
  <2>1. Runs(P, p, s, t, s2, c, Do("mov", Word(104), R("ax")))
    BY <1>1, <1>9, TtasCode DEF ax, bx, cx
  <2>2. Mem(s, 104) = Value(Word(104), Ahead(c), s.memory) /\ Mem(s, 104) \in Int
    BY <2>1, Operands DEF Regs
  <2>3. /\ Others(P, s, t, s2) /\ Onward(s, t, s2) /\ KeepsConds(s, t, s2) /\ KeepsMem(s, s2)
        /\ SetsReg(s, t, s2, "ax", Mem(s, 104))
    BY <2>1, <2>2, MovReg
  <2> QED
    BY <1>9, <2>3 DEF Onward, SetsReg, KeepsConds, KeepsMem, Regs, ExStep, Mutex, Zone, Passed, CountStep
<1>10. CASE l = 8
  <2>1. Runs(P, p, s, t, s2, c, Do("add", I(1), R("ax")))
    BY <1>1, <1>10, TtasCode DEF ax, bx, cx
  <2>3. /\ Others(P, s, t, s2) /\ Onward(s, t, s2) /\ KeepsConds(s, t, s2) /\ KeepsMem(s, s2)
        /\ SetsReg(s, t, s2, "ax", Reg(s, t, "ax") + 1)
    BY <2>1, Add
  <2> QED
    BY <1>10, <2>3 DEF Onward, SetsReg, KeepsConds, KeepsMem, Regs, ExStep, Mutex, Zone, Passed, CountStep
<1>11. CASE l = 9
  <2>1. Runs(P, p, s, t, s2, c, Do("mov", R("ax"), Word(104)))
    BY <1>1, <1>11, TtasCode DEF ax, bx, cx
  <2>2. Reg(s, t, "ax") = Value(R("ax"), Ahead(c), s.memory) /\ Reg(s, t, "ax") \in Int
    BY <2>1, Operands DEF Regs
  <2>3. /\ Others(P, s, t, s2) /\ Onward(s, t, s2) /\ KeepsConds(s, t, s2) /\ KeepsRegs(s, t, s2)
        /\ SetsMem(s, s2, 104, Reg(s, t, "ax"))
    BY <2>1, <2>2, MovMem
  <2> QED
    BY <1>11, <2>3 DEF Onward, KeepsRegs, KeepsConds, SetsMem, ExStep, Mutex, Zone, Passed, CountStep
<1>12. CASE l = 10
  <2>1. Runs(P, p, s, t, s2, c, Do("mov", I(0), Word(100)))
    BY <1>1, <1>12, TtasCode DEF ax, bx, cx
  <2>2. 0 = Value(I(0), Ahead(c), s.memory) /\ 0 \in Int
    BY <2>1, Operands DEF Regs
  <2>3. /\ Others(P, s, t, s2) /\ Onward(s, t, s2) /\ KeepsConds(s, t, s2) /\ KeepsRegs(s, t, s2)
        /\ SetsMem(s, s2, 100, 0)
    BY <2>1, <2>2, MovMem
  <2> QED
    BY <1>12, <2>3 DEF Onward, KeepsRegs, KeepsConds, SetsMem, ExStep, Mutex, Zone, Passed, CountStep
<1>13. CASE l = 11
  <2>1. Runs(P, p, s, t, s2, c, Do("sub", I(1), R("bx")))
    BY <1>1, <1>13, TtasCode DEF ax, bx, cx
  <2>3. /\ Others(P, s, t, s2) /\ Onward(s, t, s2) /\ KeepsConds(s, t, s2) /\ KeepsMem(s, s2)
        /\ SetsReg(s, t, s2, "bx", Reg(s, t, "bx") - 1)
    BY <2>1, Sub
  <2> QED
    BY <1>13, <2>3 DEF Onward, SetsReg, KeepsConds, KeepsMem, Regs, ExStep, Mutex, Zone, Passed, CountStep
<1>14. CASE l = 12
  <2>1. Runs(P, p, s, t, s2, c, Do("test", I(0), R("bx")))
    BY <1>1, <1>14, TtasCode DEF ax, bx, cx
  <2>2. 0 = Value(I(0), Ahead(c), s.memory) /\ 0 \in Int
    BY <2>1, Operands DEF Regs
  <2>3. /\ Others(P, s, t, s2) /\ Onward(s, t, s2) /\ KeepsRegs(s, t, s2) /\ KeepsMem(s, s2)
        /\ (Differ(s2, t) <=> Reg(s, t, "bx") # 0)
        /\ (Equal(s2, t) <=> Reg(s, t, "bx") = 0)
        /\ (Above(s2, t) <=> Reg(s, t, "bx") > 0)
    BY <2>1, <2>2, Test
  <2> QED
    BY <1>14, <2>3 DEF Onward, KeepsRegs, KeepsMem, ExStep, Mutex, Zone, Passed, CountStep
<1>15. CASE l = 13
  <2>1. Runs(P, p, s, t, s2, c, Do("jgt", I(loadaddr + 0), None))
    BY <1>1, <1>15, TtasCode DEF ax, bx, cx
  <2>3. /\ Others(P, s, t, s2) /\ KeepsRegs(s, t, s2) /\ KeepsConds(s, t, s2) /\ KeepsMem(s, s2)
        /\ loc(s2, t) = IF TakenBy(s, t, "jgt") THEN 0 ELSE l + 1
    BY <2>1, Jump
  <2> QED
    BY <1>15, <2>3 DEF KeepsRegs, KeepsConds, KeepsMem, TakenBy, ExStep, Mutex, Zone, Passed, CountStep
<1>16. CASE l = 14
  <2>1. Runs(P, p, s, t, s2, c, Do("halt", None, None))
    BY <1>1, <1>16, TtasCode DEF ax, bx, cx
  <2>3. /\ Others(P, s, t, s2) /\ KeepsMem(s, s2) /\ loc(s2, t) = -1
    BY <2>1, HaltsAt
  <2> QED
    BY <1>16, <2>3 DEF KeepsMem, ExStep, Mutex, Zone, Passed, CountStep
<1> QED
  BY <1>1, <1>2, <1>3, <1>4, <1>5, <1>6, <1>7, <1>8, <1>9, <1>10, <1>11, <1>12, <1>13, <1>14, <1>15, <1>16

\* The steps of yield.s.
LEMMA YieldSteps ==
    ASSUME NEW P, NEW p, NEW s, NEW t, NEW s2, StepsIn(P, p, s, t, s2),
           p = "yield", program[p] = load(yield_s)
    PROVE  Others(P, s, t, s2) /\ ExStep(p, s, t, s2, 1, 6) /\ CountStep(s, t, s2, 6, 10, 104)
<1> DEFINE c == s.context[t]
           l == loc(s, t)
<1>1. l \in 0 .. 13 /\ \A x : x = load(yield_s)[loadaddr + l] => Runs(P, p, s, t, s2, c, x)
  <2>1. DOMAIN program[p] = loadaddr .. loadaddr + 13 /\ 13 \in Nat
    BY YieldCode
  <2> QED
    BY <2>1, StepsAt
<1> HIDE DEF c
<1>2. CASE l = 0
  <2>1. Runs(P, p, s, t, s2, c, Do("mov", I(1), R("ax")))
    BY <1>1, <1>2, YieldCode DEF ax, bx, cx
  <2>2. 1 = Value(I(1), Ahead(c), s.memory) /\ 1 \in Int
    BY <2>1, Operands DEF Regs
  <2>3. /\ Others(P, s, t, s2) /\ Onward(s, t, s2) /\ KeepsConds(s, t, s2) /\ KeepsMem(s, s2)
        /\ SetsReg(s, t, s2, "ax", 1)
    BY <2>1, <2>2, MovReg
  <2> QED
    BY <1>2, <2>3 DEF Onward, SetsReg, KeepsConds, KeepsMem, Regs, ExStep, Mutex, Zone, Passed, CountStep
<1>3. CASE l = 1
  <2>1. Runs(P, p, s, t, s2, c, Do("xchg", R("ax"), Word(100)))
    BY <1>1, <1>3, YieldCode DEF ax, bx, cx
  <2>3. /\ Others(P, s, t, s2) /\ Onward(s, t, s2) /\ KeepsConds(s, t, s2) /\ SetsMem(s, s2, 100, Reg(s, t, "ax"))
        /\ SetsReg(s, t, s2, "ax", Mem(s, 100))
    BY <2>1, Xchg
  <2> QED
    BY <1>3, <2>3 DEF Onward, SetsReg, KeepsConds, SetsMem, Regs, ExStep, Mutex, Zone, Passed, CountStep
<1>4. CASE l = 2
  <2>1. Runs(P, p, s, t, s2, c, Do("test", I(0), R("ax")))
    BY <1>1, <1>4, YieldCode DEF ax, bx, cx
  <2>2. 0 = Value(I(0), Ahead(c), s.memory) /\ 0 \in Int
    BY <2>1, Operands DEF Regs
  <2>3. /\ Others(P, s, t, s2) /\ Onward(s, t, s2) /\ KeepsRegs(s, t, s2) /\ KeepsMem(s, s2)
        /\ (Differ(s2, t) <=> Reg(s, t, "ax") # 0)
        /\ (Equal(s2, t) <=> Reg(s, t, "ax") = 0)
        /\ (Above(s2, t) <=> Reg(s, t, "ax") > 0)
    BY <2>1, <2>2, Test
  <2> QED
    BY <1>4, <2>3 DEF Onward, KeepsRegs, KeepsMem, ExStep, Mutex, Zone, Passed, CountStep
<1>5. CASE l = 3
  <2>1. Runs(P, p, s, t, s2, c, Do("je", I(loadaddr + 6), None))
    BY <1>1, <1>5, YieldCode DEF ax, bx, cx
  <2>3. /\ Others(P, s, t, s2) /\ KeepsRegs(s, t, s2) /\ KeepsConds(s, t, s2) /\ KeepsMem(s, s2)
        /\ loc(s2, t) = IF TakenBy(s, t, "je") THEN 6 ELSE l + 1
    BY <2>1, Jump
  <2> QED
    BY <1>5, <2>3 DEF KeepsRegs, KeepsConds, KeepsMem, TakenBy, ExStep, Mutex, Zone, Passed, CountStep
<1>6. CASE l = 4
  <2>1. Runs(P, p, s, t, s2, c, Do("yield", None, None))
    BY <1>1, <1>6, YieldCode DEF ax, bx, cx
  <2>3. /\ Others(P, s, t, s2) /\ Onward(s, t, s2) /\ KeepsRegs(s, t, s2) /\ KeepsConds(s, t, s2)
        /\ KeepsMem(s, s2)
    BY <2>1, Yields
  <2> QED
    BY <1>6, <2>3 DEF Onward, KeepsRegs, KeepsConds, KeepsMem, ExStep, Mutex, Zone, Passed, CountStep
<1>7. CASE l = 5
  <2>1. Runs(P, p, s, t, s2, c, Do("j", I(loadaddr + 0), None))
    BY <1>1, <1>7, YieldCode DEF ax, bx, cx
  <2>3. /\ Others(P, s, t, s2) /\ KeepsRegs(s, t, s2) /\ KeepsConds(s, t, s2) /\ KeepsMem(s, s2)
        /\ loc(s2, t) = IF TakenBy(s, t, "j") THEN 0 ELSE l + 1
    BY <2>1, Jump
  <2> QED
    BY <1>7, <2>3 DEF KeepsRegs, KeepsConds, KeepsMem, TakenBy, ExStep, Mutex, Zone, Passed, CountStep
<1>8. CASE l = 6
  <2>1. Runs(P, p, s, t, s2, c, Do("mov", Word(104), R("ax")))
    BY <1>1, <1>8, YieldCode DEF ax, bx, cx
  <2>2. Mem(s, 104) = Value(Word(104), Ahead(c), s.memory) /\ Mem(s, 104) \in Int
    BY <2>1, Operands DEF Regs
  <2>3. /\ Others(P, s, t, s2) /\ Onward(s, t, s2) /\ KeepsConds(s, t, s2) /\ KeepsMem(s, s2)
        /\ SetsReg(s, t, s2, "ax", Mem(s, 104))
    BY <2>1, <2>2, MovReg
  <2> QED
    BY <1>8, <2>3 DEF Onward, SetsReg, KeepsConds, KeepsMem, Regs, ExStep, Mutex, Zone, Passed, CountStep
<1>9. CASE l = 7
  <2>1. Runs(P, p, s, t, s2, c, Do("add", I(1), R("ax")))
    BY <1>1, <1>9, YieldCode DEF ax, bx, cx
  <2>3. /\ Others(P, s, t, s2) /\ Onward(s, t, s2) /\ KeepsConds(s, t, s2) /\ KeepsMem(s, s2)
        /\ SetsReg(s, t, s2, "ax", Reg(s, t, "ax") + 1)
    BY <2>1, Add
  <2> QED
    BY <1>9, <2>3 DEF Onward, SetsReg, KeepsConds, KeepsMem, Regs, ExStep, Mutex, Zone, Passed, CountStep
<1>10. CASE l = 8
  <2>1. Runs(P, p, s, t, s2, c, Do("mov", R("ax"), Word(104)))
    BY <1>1, <1>10, YieldCode DEF ax, bx, cx
  <2>2. Reg(s, t, "ax") = Value(R("ax"), Ahead(c), s.memory) /\ Reg(s, t, "ax") \in Int
    BY <2>1, Operands DEF Regs
  <2>3. /\ Others(P, s, t, s2) /\ Onward(s, t, s2) /\ KeepsConds(s, t, s2) /\ KeepsRegs(s, t, s2)
        /\ SetsMem(s, s2, 104, Reg(s, t, "ax"))
    BY <2>1, <2>2, MovMem
  <2> QED
    BY <1>10, <2>3 DEF Onward, KeepsRegs, KeepsConds, SetsMem, ExStep, Mutex, Zone, Passed, CountStep
<1>11. CASE l = 9
  <2>1. Runs(P, p, s, t, s2, c, Do("mov", I(0), Word(100)))
    BY <1>1, <1>11, YieldCode DEF ax, bx, cx
  <2>2. 0 = Value(I(0), Ahead(c), s.memory) /\ 0 \in Int
    BY <2>1, Operands DEF Regs
  <2>3. /\ Others(P, s, t, s2) /\ Onward(s, t, s2) /\ KeepsConds(s, t, s2) /\ KeepsRegs(s, t, s2)
        /\ SetsMem(s, s2, 100, 0)
    BY <2>1, <2>2, MovMem
  <2> QED
    BY <1>11, <2>3 DEF Onward, KeepsRegs, KeepsConds, SetsMem, ExStep, Mutex, Zone, Passed, CountStep
<1>12. CASE l = 10
  <2>1. Runs(P, p, s, t, s2, c, Do("sub", I(1), R("bx")))
    BY <1>1, <1>12, YieldCode DEF ax, bx, cx
  <2>3. /\ Others(P, s, t, s2) /\ Onward(s, t, s2) /\ KeepsConds(s, t, s2) /\ KeepsMem(s, s2)
        /\ SetsReg(s, t, s2, "bx", Reg(s, t, "bx") - 1)
    BY <2>1, Sub
  <2> QED
    BY <1>12, <2>3 DEF Onward, SetsReg, KeepsConds, KeepsMem, Regs, ExStep, Mutex, Zone, Passed, CountStep
<1>13. CASE l = 11
  <2>1. Runs(P, p, s, t, s2, c, Do("test", I(0), R("bx")))
    BY <1>1, <1>13, YieldCode DEF ax, bx, cx
  <2>2. 0 = Value(I(0), Ahead(c), s.memory) /\ 0 \in Int
    BY <2>1, Operands DEF Regs
  <2>3. /\ Others(P, s, t, s2) /\ Onward(s, t, s2) /\ KeepsRegs(s, t, s2) /\ KeepsMem(s, s2)
        /\ (Differ(s2, t) <=> Reg(s, t, "bx") # 0)
        /\ (Equal(s2, t) <=> Reg(s, t, "bx") = 0)
        /\ (Above(s2, t) <=> Reg(s, t, "bx") > 0)
    BY <2>1, <2>2, Test
  <2> QED
    BY <1>13, <2>3 DEF Onward, KeepsRegs, KeepsMem, ExStep, Mutex, Zone, Passed, CountStep
<1>14. CASE l = 12
  <2>1. Runs(P, p, s, t, s2, c, Do("jgt", I(loadaddr + 0), None))
    BY <1>1, <1>14, YieldCode DEF ax, bx, cx
  <2>3. /\ Others(P, s, t, s2) /\ KeepsRegs(s, t, s2) /\ KeepsConds(s, t, s2) /\ KeepsMem(s, s2)
        /\ loc(s2, t) = IF TakenBy(s, t, "jgt") THEN 0 ELSE l + 1
    BY <2>1, Jump
  <2> QED
    BY <1>14, <2>3 DEF KeepsRegs, KeepsConds, KeepsMem, TakenBy, ExStep, Mutex, Zone, Passed, CountStep
<1>15. CASE l = 13
  <2>1. Runs(P, p, s, t, s2, c, Do("halt", None, None))
    BY <1>1, <1>15, YieldCode DEF ax, bx, cx
  <2>3. /\ Others(P, s, t, s2) /\ KeepsMem(s, s2) /\ loc(s2, t) = -1
    BY <2>1, HaltsAt
  <2> QED
    BY <1>15, <2>3 DEF KeepsMem, ExStep, Mutex, Zone, Passed, CountStep
<1> QED
  BY <1>1, <1>2, <1>3, <1>4, <1>5, <1>6, <1>7, <1>8, <1>9, <1>10, <1>11, <1>12, <1>13, <1>14, <1>15

\* The steps of ticket.s.
LEMMA TicketSteps ==
    ASSUME NEW P, NEW p, NEW s, NEW t, NEW s2, StepsIn(P, p, s, t, s2),
           p = "ticket", program[p] = load(ticket_s)
    PROVE  Others(P, s, t, s2) /\ TicketStep(s, t, s2) /\ CountStep(s, t, s2, 5, 10, 108)
<1> DEFINE c == s.context[t]
           l == loc(s, t)
<1>1. l \in 0 .. 13 /\ \A x : x = load(ticket_s)[loadaddr + l] => Runs(P, p, s, t, s2, c, x)
  <2>1. DOMAIN program[p] = loadaddr .. loadaddr + 13 /\ 13 \in Nat
    BY TicketCode
  <2> QED
    BY <2>1, StepsAt
<1> HIDE DEF c
<1>2. CASE l = 0
  <2>1. Runs(P, p, s, t, s2, c, Do("mov", I(1), R("ax")))
    BY <1>1, <1>2, TicketCode DEF ax, bx, cx
  <2>2. 1 = Value(I(1), Ahead(c), s.memory) /\ 1 \in Int
    BY <2>1, Operands DEF Regs
  <2>3. /\ Others(P, s, t, s2) /\ Onward(s, t, s2) /\ KeepsConds(s, t, s2) /\ KeepsMem(s, s2)
        /\ SetsReg(s, t, s2, "ax", 1)
    BY <2>1, <2>2, MovReg
  <2> QED
    BY <1>2, <2>3 DEF Onward, SetsReg, KeepsConds, KeepsMem, Regs, TicketStep, TicketRef, TurnRef, CountStep
<1>3. CASE l = 1
  <2>1. Runs(P, p, s, t, s2, c, Do("fetchadd", R("ax"), Word(100)))
    BY <1>1, <1>3, TicketCode DEF ax, bx, cx
  <2>3. /\ Others(P, s, t, s2) /\ Onward(s, t, s2) /\ KeepsConds(s, t, s2) /\ SetsMem(s, s2, 100, Mem(s, 100) + Reg(s, t, "ax"))
        /\ SetsReg(s, t, s2, "ax", Mem(s, 100))
    BY <2>1, FetchAdd
  <2> QED
    BY <1>3, <2>3 DEF Onward, SetsReg, KeepsConds, SetsMem, Regs, TicketStep, TicketRef, TurnRef, CountStep
<1>4. CASE l = 2
  <2>1. Runs(P, p, s, t, s2, c, Do("mov", Word(104), R("cx")))
    BY <1>1, <1>4, TicketCode DEF ax, bx, cx
  <2>2. Mem(s, 104) = Value(Word(104), Ahead(c), s.memory) /\ Mem(s, 104) \in Int
    BY <2>1, Operands DEF Regs
  <2>3. /\ Others(P, s, t, s2) /\ Onward(s, t, s2) /\ KeepsConds(s, t, s2) /\ KeepsMem(s, s2)
        /\ SetsReg(s, t, s2, "cx", Mem(s, 104))
    BY <2>1, <2>2, MovReg
  <2> QED
    BY <1>4, <2>3 DEF Onward, SetsReg, KeepsConds, KeepsMem, Regs, TicketStep, TicketRef, TurnRef, CountStep
<1>5. CASE l = 3
  <2>1. Runs(P, p, s, t, s2, c, Do("test", R("cx"), R("ax")))
    BY <1>1, <1>5, TicketCode DEF ax, bx, cx
  <2>2. Reg(s, t, "cx") = Value(R("cx"), Ahead(c), s.memory) /\ Reg(s, t, "cx") \in Int
    BY <2>1, Operands DEF Regs
  <2>3. /\ Others(P, s, t, s2) /\ Onward(s, t, s2) /\ KeepsRegs(s, t, s2) /\ KeepsMem(s, s2)
        /\ (Differ(s2, t) <=> Reg(s, t, "ax") # Reg(s, t, "cx"))
        /\ (Equal(s2, t) <=> Reg(s, t, "ax") = Reg(s, t, "cx"))
        /\ (Above(s2, t) <=> Reg(s, t, "ax") > Reg(s, t, "cx"))
    BY <2>1, <2>2, Test
  <2> QED
    BY <1>5, <2>3 DEF Onward, KeepsRegs, KeepsMem, TicketStep, TicketRef, TurnRef, CountStep
<1>6. CASE l = 4
  <2>1. Runs(P, p, s, t, s2, c, Do("jne", I(loadaddr + 2), None))
    BY <1>1, <1>6, TicketCode DEF ax, bx, cx
  <2>3. /\ Others(P, s, t, s2) /\ KeepsRegs(s, t, s2) /\ KeepsConds(s, t, s2) /\ KeepsMem(s, s2)
        /\ loc(s2, t) = IF TakenBy(s, t, "jne") THEN 2 ELSE l + 1
    BY <2>1, Jump
  <2> QED
    BY <1>6, <2>3 DEF KeepsRegs, KeepsConds, KeepsMem, TakenBy, TicketStep, TicketRef, TurnRef, CountStep
<1>7. CASE l = 5
  <2>1. Runs(P, p, s, t, s2, c, Do("mov", Word(108), R("ax")))
    BY <1>1, <1>7, TicketCode DEF ax, bx, cx
  <2>2. Mem(s, 108) = Value(Word(108), Ahead(c), s.memory) /\ Mem(s, 108) \in Int
    BY <2>1, Operands DEF Regs
  <2>3. /\ Others(P, s, t, s2) /\ Onward(s, t, s2) /\ KeepsConds(s, t, s2) /\ KeepsMem(s, s2)
        /\ SetsReg(s, t, s2, "ax", Mem(s, 108))
    BY <2>1, <2>2, MovReg
  <2> QED
    BY <1>7, <2>3 DEF Onward, SetsReg, KeepsConds, KeepsMem, Regs, TicketStep, TicketRef, TurnRef, CountStep
<1>8. CASE l = 6
  <2>1. Runs(P, p, s, t, s2, c, Do("add", I(1), R("ax")))
    BY <1>1, <1>8, TicketCode DEF ax, bx, cx
  <2>3. /\ Others(P, s, t, s2) /\ Onward(s, t, s2) /\ KeepsConds(s, t, s2) /\ KeepsMem(s, s2)
        /\ SetsReg(s, t, s2, "ax", Reg(s, t, "ax") + 1)
    BY <2>1, Add
  <2> QED
    BY <1>8, <2>3 DEF Onward, SetsReg, KeepsConds, KeepsMem, Regs, TicketStep, TicketRef, TurnRef, CountStep
<1>9. CASE l = 7
  <2>1. Runs(P, p, s, t, s2, c, Do("mov", R("ax"), Word(108)))
    BY <1>1, <1>9, TicketCode DEF ax, bx, cx
  <2>2. Reg(s, t, "ax") = Value(R("ax"), Ahead(c), s.memory) /\ Reg(s, t, "ax") \in Int
    BY <2>1, Operands DEF Regs
  <2>3. /\ Others(P, s, t, s2) /\ Onward(s, t, s2) /\ KeepsConds(s, t, s2) /\ KeepsRegs(s, t, s2)
        /\ SetsMem(s, s2, 108, Reg(s, t, "ax"))
    BY <2>1, <2>2, MovMem
  <2> QED
    BY <1>9, <2>3 DEF Onward, KeepsRegs, KeepsConds, SetsMem, TicketStep, TicketRef, TurnRef, CountStep
<1>10. CASE l = 8
  <2>1. Runs(P, p, s, t, s2, c, Do("mov", I(1), R("ax")))
    BY <1>1, <1>10, TicketCode DEF ax, bx, cx
  <2>2. 1 = Value(I(1), Ahead(c), s.memory) /\ 1 \in Int
    BY <2>1, Operands DEF Regs
  <2>3. /\ Others(P, s, t, s2) /\ Onward(s, t, s2) /\ KeepsConds(s, t, s2) /\ KeepsMem(s, s2)
        /\ SetsReg(s, t, s2, "ax", 1)
    BY <2>1, <2>2, MovReg
  <2> QED
    BY <1>10, <2>3 DEF Onward, SetsReg, KeepsConds, KeepsMem, Regs, TicketStep, TicketRef, TurnRef, CountStep
<1>11. CASE l = 9
  <2>1. Runs(P, p, s, t, s2, c, Do("fetchadd", R("ax"), Word(104)))
    BY <1>1, <1>11, TicketCode DEF ax, bx, cx
  <2>3. /\ Others(P, s, t, s2) /\ Onward(s, t, s2) /\ KeepsConds(s, t, s2) /\ SetsMem(s, s2, 104, Mem(s, 104) + Reg(s, t, "ax"))
        /\ SetsReg(s, t, s2, "ax", Mem(s, 104))
    BY <2>1, FetchAdd
  <2> QED
    BY <1>11, <2>3 DEF Onward, SetsReg, KeepsConds, SetsMem, Regs, TicketStep, TicketRef, TurnRef, CountStep
<1>12. CASE l = 10
  <2>1. Runs(P, p, s, t, s2, c, Do("sub", I(1), R("bx")))
    BY <1>1, <1>12, TicketCode DEF ax, bx, cx
  <2>3. /\ Others(P, s, t, s2) /\ Onward(s, t, s2) /\ KeepsConds(s, t, s2) /\ KeepsMem(s, s2)
        /\ SetsReg(s, t, s2, "bx", Reg(s, t, "bx") - 1)
    BY <2>1, Sub
  <2> QED
    BY <1>12, <2>3 DEF Onward, SetsReg, KeepsConds, KeepsMem, Regs, TicketStep, TicketRef, TurnRef, CountStep
<1>13. CASE l = 11
  <2>1. Runs(P, p, s, t, s2, c, Do("test", I(0), R("bx")))
    BY <1>1, <1>13, TicketCode DEF ax, bx, cx
  <2>2. 0 = Value(I(0), Ahead(c), s.memory) /\ 0 \in Int
    BY <2>1, Operands DEF Regs
  <2>3. /\ Others(P, s, t, s2) /\ Onward(s, t, s2) /\ KeepsRegs(s, t, s2) /\ KeepsMem(s, s2)
        /\ (Differ(s2, t) <=> Reg(s, t, "bx") # 0)
        /\ (Equal(s2, t) <=> Reg(s, t, "bx") = 0)
        /\ (Above(s2, t) <=> Reg(s, t, "bx") > 0)
    BY <2>1, <2>2, Test
  <2> QED
    BY <1>13, <2>3 DEF Onward, KeepsRegs, KeepsMem, TicketStep, TicketRef, TurnRef, CountStep
<1>14. CASE l = 12
  <2>1. Runs(P, p, s, t, s2, c, Do("jgt", I(loadaddr + 0), None))
    BY <1>1, <1>14, TicketCode DEF ax, bx, cx
  <2>3. /\ Others(P, s, t, s2) /\ KeepsRegs(s, t, s2) /\ KeepsConds(s, t, s2) /\ KeepsMem(s, s2)
        /\ loc(s2, t) = IF TakenBy(s, t, "jgt") THEN 0 ELSE l + 1
    BY <2>1, Jump
  <2> QED
    BY <1>14, <2>3 DEF KeepsRegs, KeepsConds, KeepsMem, TakenBy, TicketStep, TicketRef, TurnRef, CountStep
<1>15. CASE l = 13
  <2>1. Runs(P, p, s, t, s2, c, Do("halt", None, None))
    BY <1>1, <1>15, TicketCode DEF ax, bx, cx
  <2>3. /\ Others(P, s, t, s2) /\ KeepsMem(s, s2) /\ loc(s2, t) = -1
    BY <2>1, HaltsAt
  <2> QED
    BY <1>15, <2>3 DEF KeepsMem, TicketStep, TicketRef, TurnRef, CountStep
<1> QED
  BY <1>1, <1>2, <1>3, <1>4, <1>5, <1>6, <1>7, <1>8, <1>9, <1>10, <1>11, <1>12, <1>13, <1>14, <1>15

\* The steps of wait-for-me.s.
LEMMA WaitSteps ==
    ASSUME NEW P, NEW p, NEW s, NEW t, NEW s2, StepsIn(P, p, s, t, s2),
           p = "wait-for-me", program[p] = load(wait_for_me_s)
    PROVE  Others(P, s, t, s2) /\ WaitStep(s, t, s2)
<1> DEFINE c == s.context[t]
           l == loc(s, t)
<1>1. l \in 0 .. 7 /\ \A x : x = load(wait_for_me_s)[loadaddr + l] => Runs(P, p, s, t, s2, c, x)
  <2>1. DOMAIN program[p] = loadaddr .. loadaddr + 7 /\ 7 \in Nat
    BY WaitCode
  <2> QED
    BY <2>1, StepsAt
<1> HIDE DEF c
<1>2. CASE l = 0
  <2>1. Runs(P, p, s, t, s2, c, Do("test", I(1), R("ax")))
    BY <1>1, <1>2, WaitCode DEF ax, bx, cx
  <2>2. 1 = Value(I(1), Ahead(c), s.memory) /\ 1 \in Int
    BY <2>1, Operands DEF Regs
  <2>3. /\ Others(P, s, t, s2) /\ Onward(s, t, s2) /\ KeepsRegs(s, t, s2) /\ KeepsMem(s, s2)
        /\ (Differ(s2, t) <=> Reg(s, t, "ax") # 1)
        /\ (Equal(s2, t) <=> Reg(s, t, "ax") = 1)
        /\ (Above(s2, t) <=> Reg(s, t, "ax") > 1)
    BY <2>1, <2>2, Test
  <2> QED
    BY <1>2, <2>3 DEF Onward, KeepsRegs, KeepsMem, WaitStep, Signal
<1>3. CASE l = 1
  <2>1. Runs(P, p, s, t, s2, c, Do("je", I(loadaddr + 6), None))
    BY <1>1, <1>3, WaitCode DEF ax, bx, cx
  <2>3. /\ Others(P, s, t, s2) /\ KeepsRegs(s, t, s2) /\ KeepsConds(s, t, s2) /\ KeepsMem(s, s2)
        /\ loc(s2, t) = IF TakenBy(s, t, "je") THEN 6 ELSE l + 1
    BY <2>1, Jump
  <2> QED
    BY <1>3, <2>3 DEF KeepsRegs, KeepsConds, KeepsMem, TakenBy, WaitStep, Signal
<1>4. CASE l = 2
  <2>1. Runs(P, p, s, t, s2, c, Do("mov", Word(2000), R("cx")))
    BY <1>1, <1>4, WaitCode DEF ax, bx, cx
  <2>2. Mem(s, 2000) = Value(Word(2000), Ahead(c), s.memory) /\ Mem(s, 2000) \in Int
    BY <2>1, Operands DEF Regs
  <2>3. /\ Others(P, s, t, s2) /\ Onward(s, t, s2) /\ KeepsConds(s, t, s2) /\ KeepsMem(s, s2)
        /\ SetsReg(s, t, s2, "cx", Mem(s, 2000))
    BY <2>1, <2>2, MovReg
  <2> QED
    BY <1>4, <2>3 DEF Onward, SetsReg, KeepsConds, KeepsMem, Regs, WaitStep, Signal
<1>5. CASE l = 3
  <2>1. Runs(P, p, s, t, s2, c, Do("test", I(1), R("cx")))
    BY <1>1, <1>5, WaitCode DEF ax, bx, cx
  <2>2. 1 = Value(I(1), Ahead(c), s.memory) /\ 1 \in Int
    BY <2>1, Operands DEF Regs
  <2>3. /\ Others(P, s, t, s2) /\ Onward(s, t, s2) /\ KeepsRegs(s, t, s2) /\ KeepsMem(s, s2)
        /\ (Differ(s2, t) <=> Reg(s, t, "cx") # 1)
        /\ (Equal(s2, t) <=> Reg(s, t, "cx") = 1)
        /\ (Above(s2, t) <=> Reg(s, t, "cx") > 1)
    BY <2>1, <2>2, Test
  <2> QED
    BY <1>5, <2>3 DEF Onward, KeepsRegs, KeepsMem, WaitStep, Signal
<1>6. CASE l = 4
  <2>1. Runs(P, p, s, t, s2, c, Do("jne", I(loadaddr + 2), None))
    BY <1>1, <1>6, WaitCode DEF ax, bx, cx
  <2>3. /\ Others(P, s, t, s2) /\ KeepsRegs(s, t, s2) /\ KeepsConds(s, t, s2) /\ KeepsMem(s, s2)
        /\ loc(s2, t) = IF TakenBy(s, t, "jne") THEN 2 ELSE l + 1
    BY <2>1, Jump
  <2> QED
    BY <1>6, <2>3 DEF KeepsRegs, KeepsConds, KeepsMem, TakenBy, WaitStep, Signal
<1>7. CASE l = 5
  <2>1. Runs(P, p, s, t, s2, c, Do("halt", None, None))
    BY <1>1, <1>7, WaitCode DEF ax, bx, cx
  <2>3. /\ Others(P, s, t, s2) /\ KeepsMem(s, s2) /\ loc(s2, t) = -1
    BY <2>1, HaltsAt
  <2> QED
    BY <1>7, <2>3 DEF KeepsMem, WaitStep, Signal
<1>8. CASE l = 6
  <2>1. Runs(P, p, s, t, s2, c, Do("mov", I(1), Word(2000)))
    BY <1>1, <1>8, WaitCode DEF ax, bx, cx
  <2>2. 1 = Value(I(1), Ahead(c), s.memory) /\ 1 \in Int
    BY <2>1, Operands DEF Regs
  <2>3. /\ Others(P, s, t, s2) /\ Onward(s, t, s2) /\ KeepsConds(s, t, s2) /\ KeepsRegs(s, t, s2)
        /\ SetsMem(s, s2, 2000, 1)
    BY <2>1, <2>2, MovMem
  <2> QED
    BY <1>8, <2>3 DEF Onward, KeepsRegs, KeepsConds, SetsMem, WaitStep, Signal
<1>9. CASE l = 7
  <2>1. Runs(P, p, s, t, s2, c, Do("halt", None, None))
    BY <1>1, <1>9, WaitCode DEF ax, bx, cx
  <2>3. /\ Others(P, s, t, s2) /\ KeepsMem(s, s2) /\ loc(s2, t) = -1
    BY <2>1, HaltsAt
  <2> QED
    BY <1>9, <2>3 DEF KeepsMem, WaitStep, Signal
<1> QED
  BY <1>1, <1>2, <1>3, <1>4, <1>5, <1>6, <1>7, <1>8, <1>9

-----------------------------------------------------------------------------
(* What the steps keep: the lock by xchg, and the count.                   *)

\* Places, registers and words are numbers.
LEMMA Typed ==
    ASSUME NEW P, NEW s, Shaped(P, s)
    PROVE  /\ \A u \in P : /\ loc(s, u) \in Int
                           /\ loc(s, u) # -1 => \A r \in Regs : Reg(s, u, r) \in Int
           /\ \A a : Mem(s, a) \in Int
<1>1. ASSUME NEW u \in P, ~s.done[u]
      PROVE  loc(s, u) \in Int /\ \A r \in Regs : Reg(s, u, r) \in Int
  <2>1. s.context[u].PC \in Int /\ s.context[u].registers \in [Regs -> Int]
    BY <1>1 DEF Shaped, Live
  <2>2. loc(s, u) = s.context[u].PC - loadaddr
    BY <1>1 DEF loc
  <2> QED
    BY <2>1, <2>2, LoadAddrAssumption DEF Reg
<1>2. ASSUME NEW u \in P, s.done[u] PROVE loc(s, u) = -1
  BY <1>2 DEF loc
<1>3. \A a : Mem(s, a) \in Int
  BY DEF Shaped, Mem, Ints
<1> QED
  BY <1>1, <1>2, <1>3

-----------------------------------------------------------------------------
\* Thread t has the lock, from the exchange that took it to the store that gives it back.
Has(p, s, t, x, c) ==
    \/ loc(s, t) = x + 1 /\ Reg(s, t, "ax") = 0
    \/ loc(s, t) = x + 2 /\ Passed(p, s, t)
    \/ loc(s, t) \in c .. c + 3

\* The lock is taken while a thread has it, and one at most does.
ExInv(P, p, s, x, c) ==
    /\ Mem(s, Mutex) \in {0, 1}
    /\ \A t \in P : loc(s, t) = x => Reg(s, t, "ax") = 1
    /\ \A t \in P : Has(p, s, t, x, c) => Mem(s, Mutex) = 1
    /\ \A t, u \in P : Has(p, s, t, x, c) /\ Has(p, s, u, x, c) => t = u

\* Every step of a thread keeps the lock exclusive.
LEMMA ExKept ==
    ASSUME NEW P, NEW p, NEW s, NEW t \in P, NEW s2, NEW x \in Nat, NEW c \in Nat, c > x + 2,
           Shaped(P, s), Others(P, s, t, s2), ExInv(P, p, s, x, c), ExStep(p, s, t, s2, x, c)
    PROVE  ExInv(P, p, s2, x, c)
<1>1. \A u \in P \ {t} : /\ Has(p, s2, u, x, c) <=> Has(p, s, u, x, c)
                         /\ loc(s2, u) = x => Reg(s2, u, "ax") = 1
  BY DEF Others, Same, Has, Passed, ExInv
<1>2. loc(s, t) \in Int /\ loc(s2, t) \in Int
  BY Typed DEF Others
<1>3. /\ Mem(s2, Mutex) \in {0, 1}
      /\ loc(s2, t) = x => Reg(s2, t, "ax") = 1
      /\ Has(p, s2, t, x, c) => Mem(s2, Mutex) = 1 /\ (Has(p, s, t, x, c) \/ Mem(s, Mutex) = 0)
      /\ Mem(s2, Mutex) = Mem(s, Mutex) \/ Mem(s2, Mutex) = 1 \/ Has(p, s, t, x, c)
  <2> USE DEF Has, ExInv, Zone
  <2>1. CASE ~Zone(loc(s, t), x, c) /\ ~Zone(loc(s2, t), x, c) /\ Mem(s2, Mutex) = Mem(s, Mutex)
    BY <1>2, <2>1
  <2>2. CASE /\ ~Zone(loc(s, t), x, c) /\ loc(s2, t) = x
             /\ Reg(s2, t, "ax") = 1 /\ Mem(s2, Mutex) = Mem(s, Mutex)
    BY <1>2, <2>2
  <2>3. CASE /\ loc(s, t) = x /\ loc(s2, t) = x + 1
             /\ Reg(s2, t, "ax") = Mem(s, Mutex) /\ Mem(s2, Mutex) = Reg(s, t, "ax")
    BY <1>2, <2>3
  <2>4. CASE /\ loc(s, t) = x + 1 /\ loc(s2, t) = x + 2
             /\ Passed(p, s2, t) <=> Reg(s, t, "ax") = 0
             /\ Mem(s2, Mutex) = Mem(s, Mutex)
    BY <1>2, <2>4
  <2>5. CASE /\ loc(s, t) = x + 2 /\ ~Passed(p, s, t) /\ ~Zone(loc(s2, t), x, c)
             /\ Mem(s2, Mutex) = Mem(s, Mutex)
    BY <1>2, <2>5
  <2>6. CASE /\ loc(s, t) = x + 2 /\ Passed(p, s, t) /\ loc(s2, t) = c
             /\ Mem(s2, Mutex) = Mem(s, Mutex)
    BY <1>2, <2>6
  <2>7. CASE /\ loc(s, t) \in c .. c + 2 /\ loc(s2, t) = loc(s, t) + 1
             /\ Mem(s2, Mutex) = Mem(s, Mutex)
    BY <1>2, <2>7
  <2>8. CASE /\ loc(s, t) = c + 3 /\ loc(s2, t) = c + 4
             /\ Mem(s2, Mutex) = 0
    BY <1>2, <2>8
  <2> QED
    BY <2>1, <2>2, <2>3, <2>4, <2>5, <2>6, <2>7, <2>8 DEF ExStep
<1> QED
  BY <1>1, <1>3 DEF ExInv

-----------------------------------------------------------------------------
\* What thread t still has to add to the count.
Rem(s, t, c, b) ==
    IF loc(s, t) = -1 THEN 0
    ELSE IF loc(s, t) \in c + 3 .. b THEN Reg(s, t, "bx") - 1
    ELSE Reg(s, t, "bx")

\* The increments to come, one element for each.
Todo(P, s, c, b) == {e \in P \X Nat : e[2] < Rem(s, e[1], c, b)}

\* What thread t knows of the count: bx is the loops it has left, and between the load
\* and the store of the count ax has its value.
Counting1(s, t, c, b, a) ==
    /\ loc(s, t) \in 0 .. b => Reg(s, t, "bx") > 0
    /\ loc(s, t) \in {b + 1, b + 2} => Reg(s, t, "bx") >= 0
    /\ loc(s, t) = b + 2 => (Above(s, t) <=> Reg(s, t, "bx") > 0)
    /\ loc(s, t) = b + 3 => Reg(s, t, "bx") = 0
    /\ loc(s, t) = c + 1 => Reg(s, t, "ax") = Mem(s, a)
    /\ loc(s, t) = c + 2 => Reg(s, t, "ax") = Mem(s, a) + 1

\* One thread at most is between the load of the count and its store.
Alone(P, s, c) == \A t, u \in P : loc(s, t) \in c .. c + 2 /\ loc(s, u) \in c .. c + 2 => t = u

\* The count and what is still to be added make the total.
CountInv(P, s, c, b, a, total) ==
    /\ \A t \in P : Counting1(s, t, c, b, a)
    /\ IsFiniteSet(Todo(P, s, c, b))
    /\ Mem(s, a) + Cardinality(Todo(P, s, c, b)) = total

\* While the lock is exclusive, every step of a thread keeps the count.
LEMMA CountKept ==
    ASSUME NEW P, NEW s, NEW t \in P, NEW s2, NEW a, NEW total,
           NEW c \in Nat, NEW b \in Nat, b > c + 2, Alone(P, s, c),
           Shaped(P, s), Others(P, s, t, s2), CountInv(P, s, c, b, a, total), CountStep(s, t, s2, c, b, a)
    PROVE  CountInv(P, s2, c, b, a, total)
<1>1. /\ loc(s, t) \in Int /\ loc(s2, t) \in Int /\ Mem(s, a) \in Int /\ Mem(s2, a) \in Int
      /\ loc(s, t) # -1 => Reg(s, t, "ax") \in Int /\ Reg(s, t, "bx") \in Int
      /\ loc(s2, t) # -1 => Reg(s2, t, "ax") \in Int /\ Reg(s2, t, "bx") \in Int
  BY Typed DEF Others, Regs
<1>2. \A u \in P \ {t} : Rem(s2, u, c, b) = Rem(s, u, c, b)
  BY DEF Others, Same, Rem
<1>3. /\ Counting1(s2, t, c, b, a)
      /\ \/ Mem(s2, a) = Mem(s, a) /\ Rem(s2, t, c, b) = Rem(s, t, c, b)
         \/ /\ loc(s, t) = c + 2 /\ Mem(s2, a) = Mem(s, a) + 1
            /\ Rem(s, t, c, b) \in Nat \ {0} /\ Rem(s2, t, c, b) = Rem(s, t, c, b) - 1
  <2>1. Counting1(s, t, c, b, a)
    BY DEF CountInv
  <2> DEFINE Still == Mem(s2, a) = Mem(s, a) /\ Reg(s2, t, "bx") = Reg(s, t, "bx")
  <2>2. CASE loc(s, t) \in 0 .. c - 1 /\ loc(s2, t) \in 0 .. c /\ Still
    BY <1>1, <2>1, <2>2 DEF Counting1, Rem
  <2>3. CASE loc(s, t) = c /\ loc(s2, t) = c + 1 /\ Still /\ Reg(s2, t, "ax") = Mem(s, a)
    BY <1>1, <2>1, <2>3 DEF Counting1, Rem
  <2>4. CASE /\ loc(s, t) = c + 1 /\ loc(s2, t) = c + 2 /\ Still
             /\ Reg(s2, t, "ax") = Reg(s, t, "ax") + 1
    BY <1>1, <2>1, <2>4 DEF Counting1, Rem
  <2>5. CASE /\ loc(s, t) = c + 2 /\ loc(s2, t) = c + 3
             /\ Mem(s2, a) = Reg(s, t, "ax") /\ Reg(s2, t, "bx") = Reg(s, t, "bx")
    BY <1>1, <2>1, <2>5 DEF Counting1, Rem
  <2>6. CASE loc(s, t) \in c + 3 .. b - 1 /\ loc(s2, t) = loc(s, t) + 1 /\ Still
    BY <1>1, <2>1, <2>6 DEF Counting1, Rem
  <2>7. CASE /\ loc(s, t) = b /\ loc(s2, t) = b + 1
             /\ Mem(s2, a) = Mem(s, a) /\ Reg(s2, t, "bx") = Reg(s, t, "bx") - 1
    BY <1>1, <2>1, <2>7 DEF Counting1, Rem
  <2>8. CASE /\ loc(s, t) = b + 1 /\ loc(s2, t) = b + 2 /\ Still
             /\ (Above(s2, t) <=> Reg(s, t, "bx") > 0)
    BY <1>1, <2>1, <2>8 DEF Counting1, Rem
  <2>9. CASE loc(s, t) = b + 2 /\ Above(s, t) /\ loc(s2, t) = 0 /\ Still
    BY <1>1, <2>1, <2>9 DEF Counting1, Rem
  <2>10. CASE loc(s, t) = b + 2 /\ ~Above(s, t) /\ loc(s2, t) = b + 3 /\ Still
    BY <1>1, <2>1, <2>10 DEF Counting1, Rem
  <2>11. CASE loc(s, t) = b + 3 /\ loc(s2, t) = -1 /\ Mem(s2, a) = Mem(s, a)
    BY <1>1, <2>1, <2>11 DEF Counting1, Rem
  <2> QED
    BY <2>2, <2>3, <2>4, <2>5, <2>6, <2>7, <2>8, <2>9, <2>10, <2>11 DEF CountStep
<1>4. ASSUME NEW u \in P \ {t} PROVE Counting1(s2, u, c, b, a)
  <2>1. /\ loc(s2, u) = loc(s, u) /\ Reg(s2, u, "ax") = Reg(s, u, "ax")
        /\ Reg(s2, u, "bx") = Reg(s, u, "bx")
        /\ Above(s2, u) <=> Above(s, u)
    BY DEF Others, Same
  <2>2. Counting1(s, u, c, b, a)
    BY DEF CountInv
  <2>3. CASE Mem(s2, a) = Mem(s, a)
    BY <2>1, <2>2, <2>3 DEF Counting1
  <2>4. CASE loc(s, t) = c + 2
    <3>1. loc(s, u) \notin c .. c + 2
      BY <2>4 DEF Alone
    <3> QED
      BY <2>1, <2>2, <3>1 DEF Counting1
  <2> QED
    BY <1>3, <2>3, <2>4
<1> DEFINE A == Todo(P, s, c, b)
           B == Todo(P, s2, c, b)
<1>5. IsFiniteSet(A) /\ Mem(s, a) + Cardinality(A) = total /\ Cardinality(A) \in Nat
  BY FS_CardinalityType DEF CountInv
<1>6. IsFiniteSet(B) /\ Mem(s2, a) + Cardinality(B) = total
  <2>1. CASE Mem(s2, a) = Mem(s, a) /\ Rem(s2, t, c, b) = Rem(s, t, c, b)
    <3>1. A = B
      BY <1>2, <2>1 DEF Todo
    <3> HIDE DEF A, B
    <3> QED
      BY <1>5, <2>1, <3>1
  <2>2. CASE /\ Mem(s2, a) = Mem(s, a) + 1
             /\ Rem(s, t, c, b) \in Nat \ {0} /\ Rem(s2, t, c, b) = Rem(s, t, c, b) - 1
    <3> DEFINE e == <<t, Rem(s, t, c, b) - 1>>
    <3>1. e \in A /\ B = A \ {e}
      <4>1. e \in A
        BY <2>2 DEF Todo
      <4>2. B \subseteq A \ {e}
        BY <1>2, <2>2 DEF Todo
      <4>3. A \ {e} \subseteq B
        BY <1>2, <2>2 DEF Todo
      <4> QED
        BY <4>1, <4>2, <4>3
    <3> HIDE DEF A, B, e
    <3>2. IsFiniteSet(B) /\ Cardinality(B) = Cardinality(A) - 1
      BY <1>5, <3>1, FS_RemoveElement
    <3> QED
      BY <1>1, <1>5, <2>2, <3>2
  <2> QED
    BY <1>3, <2>1, <2>2
<1> QED
  BY <1>3, <1>4, <1>6 DEF CountInv

\* A thread that has the lock is alone in the critical section.
LEMMA ExAlone ==
    ASSUME NEW P, NEW p, NEW s, NEW x \in Nat, NEW c \in Nat, ExInv(P, p, s, x, c), Shaped(P, s)
    PROVE  Alone(P, s, c)
<1>1. \A t \in P : loc(s, t) \in c .. c + 2 => Has(p, s, t, x, c)
  BY Typed DEF Has
<1> QED
  BY <1>1 DEF Alone, ExInv

-----------------------------------------------------------------------------
(* What the steps keep: the tickets, and the signal.                       *)

\* The threads that wait for their turn, that have it, and that have a ticket.
Waiters(P, s)  == {t \in P : loc(s, t) \in 2 .. 4}
Served(P, s)   == {t \in P : loc(s, t) \in 5 .. 9}
Queue(P, s)    == {t \in P : loc(s, t) \in 2 .. 9}

\* A waiter holds a ticket from turn on, and from the next if one is served.
Waits(P, s, t) ==
    /\ Mem(s, TurnRef) <= Reg(s, t, "ax") /\ Reg(s, t, "ax") < Mem(s, TicketRef)
    /\ Served(P, s) # {} => Reg(s, t, "ax") # Mem(s, TurnRef)

\* What thread t knows of the turn.
Knows(s, t) ==
    /\ loc(s, t) \in {1, 9} => Reg(s, t, "ax") = 1
    /\ loc(s, t) = 3 => Reg(s, t, "cx") <= Mem(s, TurnRef)
    /\ loc(s, t) = 4 /\ ~Differ(s, t) => Reg(s, t, "ax") = Mem(s, TurnRef)

\* The tickets given and not passed are those of the queue; the tickets that wait are
\* distinct, and one thread at most has its turn.
TicketInv(P, s) ==
    /\ Mem(s, TicketRef) - Mem(s, TurnRef) = Cardinality(Queue(P, s))
    /\ \A t \in Waiters(P, s) : Waits(P, s, t)
    /\ \A t, u \in Waiters(P, s) : Reg(s, t, "ax") = Reg(s, u, "ax") => t = u
    /\ \A t, u \in Served(P, s) : t = u
    /\ \A t \in P : Knows(s, t)

\* Every step of a thread keeps the tickets.
LEMMA TicketKept ==
    ASSUME NEW P, IsFiniteSet(P), NEW s, NEW t \in P, NEW s2,
           Shaped(P, s), Others(P, s, t, s2), TicketInv(P, s), TicketStep(s, t, s2)
    PROVE  TicketInv(P, s2)
<1> DEFINE Still == Mem(s2, TicketRef) = Mem(s, TicketRef) /\ Mem(s2, TurnRef) = Mem(s, TurnRef)
           Keeps == Reg(s2, t, "ax") = Reg(s, t, "ax")
           W  == Waiters(P, s)
           W2 == Waiters(P, s2)
           S  == Served(P, s)
           S2 == Served(P, s2)
           Q  == Queue(P, s)
           Q2 == Queue(P, s2)
<1>1. /\ loc(s, t) \in Int /\ loc(s2, t) \in Int
      /\ \A a : Mem(s, a) \in Int /\ Mem(s2, a) \in Int
      /\ \A u \in P : loc(s, u) # -1 => Reg(s, u, "ax") \in Int /\ Reg(s, u, "cx") \in Int
      /\ loc(s2, t) # -1 => Reg(s2, t, "ax") \in Int /\ Reg(s2, t, "cx") \in Int
  BY Typed DEF Others, Regs
<1>2. \A u \in P \ {t} : /\ loc(s2, u) = loc(s, u) /\ Reg(s2, u, "ax") = Reg(s, u, "ax")
                         /\ Reg(s2, u, "cx") = Reg(s, u, "cx")
                         /\ Differ(s2, u) <=> Differ(s, u)
  BY DEF Others, Same
<1>3. /\ \A u : u \in W <=> u \in P /\ loc(s, u) \in 2 .. 4
      /\ \A u : u \in S <=> u \in P /\ loc(s, u) \in 5 .. 9
      /\ \A u : u \in W2 <=> u \in P /\ loc(s2, u) \in 2 .. 4
      /\ \A u : u \in S2 <=> u \in P /\ loc(s2, u) \in 5 .. 9
  BY DEF Waiters, Served
<1>4. IsFiniteSet(Q) /\ Cardinality(Q) \in Nat /\ (t \in Q => Cardinality(Q) > 0)
  <2>1. Q \subseteq P
    BY DEF Queue
  <2> HIDE DEF Q
  <2>2. IsFiniteSet(Q) /\ Cardinality(Q) \in Nat
    BY <2>1, FS_Subset, FS_CardinalityType
  <2>3. ASSUME Cardinality(Q) = 0 PROVE Q = {}
    BY <2>2, <2>3, FS_EmptySet
  <2> QED
    BY <2>2, <2>3
<1>5. ASSUME W2 = W, S2 = S, Q2 = Q, Still, t \in W => Keeps, Knows(s2, t)
      PROVE  TicketInv(P, s2)
  <2>1. \A u \in W2 : u \in P /\ Reg(s2, u, "ax") = Reg(s, u, "ax")
    BY <1>2, <1>3, <1>5
  <2>2. \A u \in P : Knows(s2, u)
    <3>1. ASSUME NEW u \in P \ {t} PROVE Knows(s2, u)
      BY <1>2, <1>5 DEF Knows, TicketInv
    <3> QED
      BY <1>5, <3>1
  <2>3. \A u \in W2 : Waits(P, s2, u)
    BY <1>5, <2>1 DEF Waits, TicketInv
  <2> QED
    BY <1>5, <2>1, <2>2, <2>3 DEF TicketInv
<1>6. ASSUME loc(s, t) \in 2 .. 4 <=> loc(s2, t) \in 2 .. 4,
             loc(s, t) \in 5 .. 9 <=> loc(s2, t) \in 5 .. 9
      PROVE  W2 = W /\ S2 = S /\ Q2 = Q
  <2>1. loc(s, t) \in 2 .. 9 <=> loc(s2, t) \in 2 .. 9
    BY <1>1, <1>6
  <2> QED
    BY <1>2, <1>6, <2>1 DEF Waiters, Served, Queue
<1>7. Knows(s, t) /\ (loc(s, t) \in 2 .. 4 => Waits(P, s, t))
  BY <1>3 DEF TicketInv
<1>10. CASE loc(s, t) \notin 0 .. 9 /\ loc(s2, t) \notin 1 .. 9 /\ Still
  <2>1. Knows(s2, t) /\ t \notin W
    BY <1>1, <1>3, <1>10 DEF Knows
  <2> QED
    BY <1>1, <1>5, <1>6, <1>10, <2>1
<1>11. CASE loc(s, t) = 0 /\ loc(s2, t) = 1 /\ Still /\ Reg(s2, t, "ax") = 1
  <2>1. Knows(s2, t) /\ t \notin W
    BY <1>1, <1>3, <1>11 DEF Knows
  <2> QED
    BY <1>1, <1>5, <1>6, <1>11, <2>1
<1>12. CASE /\ loc(s, t) = 1 /\ loc(s2, t) = 2 /\ Reg(s2, t, "ax") = Mem(s, TicketRef)
            /\ Mem(s2, TicketRef) = Mem(s, TicketRef) + Reg(s, t, "ax")
            /\ Mem(s2, TurnRef) = Mem(s, TurnRef)
  <2>1. Mem(s2, TicketRef) = Mem(s, TicketRef) + 1
    BY <1>7, <1>12 DEF Knows
  <2>2. W2 = W \cup {t} /\ t \notin W /\ S2 = S /\ Q2 = Q \cup {t} /\ t \notin Q
    BY <1>2, <1>12 DEF Waiters, Served, Queue
  <2>3. Mem(s2, TicketRef) - Mem(s2, TurnRef) = Cardinality(Q2)
    <3> HIDE DEF Q, Q2
    <3>1. Cardinality(Q2) = Cardinality(Q) + 1
      BY <1>4, <2>2, FS_AddElement
    <3>2. Mem(s, TicketRef) - Mem(s, TurnRef) = Cardinality(Q)
      BY DEF TicketInv, Q
    <3> QED
      BY <1>1, <1>4, <1>12, <2>1, <3>1, <3>2
  <2>4. /\ Mem(s, TurnRef) <= Mem(s, TicketRef)
        /\ S # {} => Mem(s, TurnRef) < Mem(s, TicketRef)
    <3>1. S \subseteq Q
      BY <1>3 DEF Queue
    <3>2. S # {} => Cardinality(Q) > 0
      <4> HIDE DEF S, Q
      <4>1. ASSUME Cardinality(Q) = 0 PROVE Q = {}
        BY <1>4, <4>1, FS_EmptySet
      <4> QED
        BY <1>4, <3>1, <4>1
    <3>3. Mem(s, TicketRef) - Mem(s, TurnRef) = Cardinality(Q)
      BY DEF TicketInv
    <3> HIDE DEF S, Q
    <3> QED
      BY <1>1, <1>4, <3>2, <3>3
  <2>5. \A u \in W2 : Waits(P, s2, u)
    <3>1. Waits(P, s2, t)
      BY <1>1, <1>12, <2>1, <2>2, <2>4 DEF Waits
    <3>2. ASSUME NEW u \in W PROVE Waits(P, s2, u)
      <4>1. Waits(P, s, u) /\ u \in P \ {t} /\ loc(s, u) # -1
        BY <1>3, <2>2 DEF TicketInv
      <4> HIDE DEF S, S2
      <4> QED
        BY <1>1, <1>2, <1>12, <2>1, <2>2, <4>1 DEF Waits, S, S2
    <3> QED
      BY <2>2, <3>1, <3>2
  <2>6. ASSUME NEW u \in W2, NEW v \in W2, Reg(s2, u, "ax") = Reg(s2, v, "ax") PROVE u = v
    <3>1. \A w \in W : w \in P \ {t} /\ Reg(s2, w, "ax") = Reg(s, w, "ax") /\ Reg(s, w, "ax") # Mem(s, TicketRef)
      BY <1>1, <1>2, <1>3, <2>2 DEF TicketInv, Waits
    <3> QED
      BY <1>12, <2>2, <2>6, <3>1 DEF TicketInv
  <2>7. \A u \in P : Knows(s2, u)
    <3>1. Knows(s2, t)
      BY <1>12 DEF Knows
    <3>2. ASSUME NEW u \in P \ {t} PROVE Knows(s2, u)
      BY <1>2, <1>12 DEF Knows, TicketInv
    <3> QED
      BY <3>1, <3>2
  <2> QED
    BY <2>2, <2>3, <2>5, <2>6, <2>7 DEF TicketInv
<1>13. CASE loc(s, t) = 2 /\ loc(s2, t) = 3 /\ Still /\ Keeps /\ Reg(s2, t, "cx") = Mem(s, TurnRef)
  <2>1. Knows(s2, t)
    BY <1>1, <1>13 DEF Knows
  <2> QED
    BY <1>5, <1>6, <1>13, <2>1
<1>14. CASE /\ loc(s, t) = 3 /\ loc(s2, t) = 4 /\ Still /\ Keeps
            /\ (Differ(s2, t) <=> Reg(s, t, "ax") # Reg(s, t, "cx"))
  <2>1. Knows(s2, t)
    BY <1>1, <1>7, <1>14 DEF Knows, Waits
  <2> QED
    BY <1>5, <1>6, <1>14, <2>1
<1>15. CASE loc(s, t) = 4 /\ Differ(s, t) /\ loc(s2, t) = 2 /\ Still /\ Keeps
  <2>1. Knows(s2, t)
    BY <1>15 DEF Knows
  <2> QED
    BY <1>5, <1>6, <1>15, <2>1
<1>16. CASE loc(s, t) = 4 /\ ~Differ(s, t) /\ loc(s2, t) = 5 /\ Still
  <2>1. W2 = W \ {t} /\ t \in W /\ S2 = S \cup {t} /\ Q2 = Q
    BY <1>2, <1>16 DEF Waiters, Served, Queue
  <2>2. Reg(s, t, "ax") = Mem(s, TurnRef) /\ S = {}
    BY <1>7, <1>16 DEF Knows, Waits
  <2>3. \A u \in W2 : Waits(P, s2, u)
    <3> SUFFICES ASSUME NEW u \in W2 PROVE Waits(P, s2, u)
      OBVIOUS
    <3>1. u \in W /\ u \in P \ {t} /\ Waits(P, s, u) /\ Reg(s, u, "ax") # Reg(s, t, "ax")
      BY <1>3, <2>1 DEF TicketInv
    <3> QED
      BY <1>2, <1>16, <2>2, <3>1 DEF Waits
  <2>4. \A u, v \in W2 : Reg(s2, u, "ax") = Reg(s2, v, "ax") => u = v
    BY <1>2, <1>3, <2>1 DEF TicketInv
  <2>5. \A u \in P : Knows(s2, u)
    <3>1. Knows(s2, t)
      BY <1>16 DEF Knows
    <3>2. ASSUME NEW u \in P \ {t} PROVE Knows(s2, u)
      BY <1>2, <1>16 DEF Knows, TicketInv
    <3> QED
      BY <3>1, <3>2
  <2> QED
    BY <1>16, <2>1, <2>2, <2>3, <2>4, <2>5 DEF TicketInv
<1>17. CASE loc(s, t) \in 5 .. 7 /\ loc(s2, t) = loc(s, t) + 1 /\ Still
  <2>1. Knows(s2, t) /\ t \notin W
    BY <1>1, <1>3, <1>17 DEF Knows
  <2> QED
    BY <1>1, <1>5, <1>6, <1>17, <2>1
<1>18. CASE loc(s, t) = 8 /\ loc(s2, t) = 9 /\ Still /\ Reg(s2, t, "ax") = 1
  <2>1. Knows(s2, t) /\ t \notin W
    BY <1>3, <1>18 DEF Knows
  <2> QED
    BY <1>5, <1>6, <1>18, <2>1
<1>19. CASE /\ loc(s, t) = 9 /\ loc(s2, t) = 10
            /\ Mem(s2, TicketRef) = Mem(s, TicketRef)
            /\ Mem(s2, TurnRef) = Mem(s, TurnRef) + Reg(s, t, "ax")
  <2>1. Mem(s2, TurnRef) = Mem(s, TurnRef) + 1
    BY <1>7, <1>19 DEF Knows
  <2>2. W2 = W /\ t \notin W /\ t \in S /\ S2 = S \ {t} /\ Q2 = Q \ {t} /\ t \in Q
    BY <1>2, <1>19 DEF Waiters, Served, Queue
  <2>3. S2 = {}
    BY <2>2 DEF TicketInv
  <2>4. Mem(s2, TicketRef) - Mem(s2, TurnRef) = Cardinality(Q2)
    <3>1. Mem(s, TicketRef) - Mem(s, TurnRef) = Cardinality(Q)
      BY DEF TicketInv
    <3> HIDE DEF Q, Q2, W, W2, S, S2
    <3>2. Cardinality(Q2) = Cardinality(Q) - 1
      BY <1>4, <2>2, FS_RemoveElement
    <3> QED
      BY <1>1, <1>4, <1>19, <2>1, <3>1, <3>2
  <2>5. \A u \in W2 : Waits(P, s2, u)
    <3> SUFFICES ASSUME NEW u \in W2 PROVE Waits(P, s2, u)
      OBVIOUS
    <3>1. u \in P \ {t} /\ loc(s, u) # -1 /\ Waits(P, s, u) /\ Reg(s, u, "ax") # Mem(s, TurnRef)
      BY <1>3, <2>2 DEF TicketInv, Waits
    <3> QED
      BY <1>1, <1>2, <1>19, <2>1, <2>3, <3>1 DEF Waits
  <2>6. \A u, v \in W2 : Reg(s2, u, "ax") = Reg(s2, v, "ax") => u = v
    BY <1>2, <1>3, <2>2 DEF TicketInv
  <2>7. \A u \in P : Knows(s2, u)
    <3>1. Knows(s2, t)
      BY <1>19 DEF Knows
    <3>2. ASSUME NEW u \in P \ {t} PROVE Knows(s2, u)
      <4>1. Knows(s, u) /\ (loc(s, u) \in 2 .. 4 => Reg(s, u, "ax") # Mem(s, TurnRef))
        BY <1>3, <2>2 DEF TicketInv, Waits
      <4> QED
        BY <1>1, <1>2, <2>1, <4>1 DEF Knows
    <3> QED
      BY <3>1, <3>2
  <2> QED
    BY <2>2, <2>3, <2>4, <2>5, <2>6, <2>7 DEF TicketInv
<1> QED
  BY <1>10, <1>11, <1>12, <1>13, <1>14, <1>15, <1>16, <1>17, <1>18, <1>19 DEF TicketStep

-----------------------------------------------------------------------------
\* A thread of wait-for-me.s that has seen the signal, given it or halted has it behind it.
Sees(s, t) ==
    \/ loc(s, t) = 3 /\ Reg(s, t, "cx") = 1
    \/ loc(s, t) = 4 /\ ~Differ(s, t)
    \/ loc(s, t) \in {5, 7, -1}

\* Who has seen the signal, given it or halted: the signal has been given.
WaitInv(P, s) == \A t \in P : Sees(s, t) => Mem(s, Signal) = 1

\* Every step of a thread keeps the signal.
LEMMA WaitKept ==
    ASSUME NEW P, NEW s, NEW t \in P, NEW s2,
           Others(P, s, t, s2), WaitInv(P, s), WaitStep(s, t, s2)
    PROVE  WaitInv(P, s2)
<1>1. Mem(s2, Signal) = Mem(s, Signal) \/ Mem(s2, Signal) = 1
  BY DEF WaitStep
<1>2. Sees(s2, t) => Mem(s2, Signal) = 1
  BY DEF WaitStep, WaitInv, Sees
<1>3. \A u \in P \ {t} : Sees(s2, u) <=> Sees(s, u)
  BY DEF Others, Same, Sees
<1> QED
  BY <1>1, <1>2, <1>3 DEF WaitInv

-----------------------------------------------------------------------------
(* The invariant of the programs.                                          *)

\* What holds of the threads P that run the program p, with count total in the end.
Good(P, p, s, total) ==
    /\ p # "loop" => Shaped(P, s)
    /\ p = "test-and-set" => ExInv(P, p, s, 1, 4) /\ CountInv(P, s, 4, 8, 104, total)
    /\ p = "test-and-test-and-set" => ExInv(P, p, s, 4, 7) /\ CountInv(P, s, 7, 11, 104, total)
    /\ p = "yield" => ExInv(P, p, s, 1, 6) /\ CountInv(P, s, 6, 10, 104, total)
    /\ p = "ticket" => TicketInv(P, s) /\ CountInv(P, s, 5, 10, 108, total)
    /\ p = "wait-for-me" => WaitInv(P, s)

\* The inductive invariant: Good, of the program loaded.
LockInv == Good(Threads, prog, State, numthreads[prog] * loops)

\* The thread whose turn it is is alone at the count.
LEMMA ServedAlone ==
    ASSUME NEW P, NEW s, TicketInv(P, s), Shaped(P, s) PROVE Alone(P, s, 5)
<1>1. \A t \in P : loc(s, t) \in 5 .. 5 + 2 => t \in Served(P, s)
  BY Typed DEF Served
<1> QED
  BY <1>1 DEF Alone, TicketInv

\* A step of any of the programs.
LEMMA GoodKept ==
    ASSUME NEW P, IsFiniteSet(P), NEW p \in DOMAIN program, NEW s, NEW t, NEW s2, NEW total,
           Good(P, p, s, total), t \in P, StepOf(p, s, t, s2), s.context[t].PC \in DOMAIN program[p]
    PROVE  Good(P, p, s2, total)
<1>1. p \in DOMAIN Source /\ program[p] = load(Source[p])
  BY LocksAssumption
<1>2. CASE p = "test-and-set"
  <2>1. program[p] = load(test_and_set_s) /\ StepsIn(P, p, s, t, s2)
    BY <1>1, <1>2 DEF Source, Locks, StepsIn, Good
  <2>2. Others(P, s, t, s2) /\ ExStep(p, s, t, s2, 1, 4) /\ CountStep(s, t, s2, 4, 8, 104)
    BY <1>2, <2>1, TasSteps
  <2>3. Shaped(P, s) /\ ExInv(P, p, s, 1, 4) /\ CountInv(P, s, 4, 8, 104, total)
    BY <1>2 DEF Good
  <2>4. ExInv(P, p, s2, 1, 4)
    BY <2>2, <2>3, ExKept
  <2>5. Alone(P, s, 4)
    BY <2>3, ExAlone
  <2>6. CountInv(P, s2, 4, 8, 104, total)
    BY <2>2, <2>3, <2>5, CountKept
  <2> QED
    BY <1>2, <2>2, <2>4, <2>6 DEF Good, Others
<1>3. CASE p = "test-and-test-and-set"
  <2>1. program[p] = load(test_and_test_and_set_s) /\ StepsIn(P, p, s, t, s2)
    BY <1>1, <1>3 DEF Source, Locks, StepsIn, Good
  <2>2. Others(P, s, t, s2) /\ ExStep(p, s, t, s2, 4, 7) /\ CountStep(s, t, s2, 7, 11, 104)
    BY <1>3, <2>1, TtasSteps
  <2>3. Shaped(P, s) /\ ExInv(P, p, s, 4, 7) /\ CountInv(P, s, 7, 11, 104, total)
    BY <1>3 DEF Good
  <2>4. ExInv(P, p, s2, 4, 7)
    BY <2>2, <2>3, ExKept
  <2>5. Alone(P, s, 7)
    BY <2>3, ExAlone
  <2>6. CountInv(P, s2, 7, 11, 104, total)
    BY <2>2, <2>3, <2>5, CountKept
  <2> QED
    BY <1>3, <2>2, <2>4, <2>6 DEF Good, Others
<1>4. CASE p = "yield"
  <2>1. program[p] = load(yield_s) /\ StepsIn(P, p, s, t, s2)
    BY <1>1, <1>4 DEF Source, Locks, StepsIn, Good
  <2>2. Others(P, s, t, s2) /\ ExStep(p, s, t, s2, 1, 6) /\ CountStep(s, t, s2, 6, 10, 104)
    BY <1>4, <2>1, YieldSteps
  <2>3. Shaped(P, s) /\ ExInv(P, p, s, 1, 6) /\ CountInv(P, s, 6, 10, 104, total)
    BY <1>4 DEF Good
  <2>4. ExInv(P, p, s2, 1, 6)
    BY <2>2, <2>3, ExKept
  <2>5. Alone(P, s, 6)
    BY <2>3, ExAlone
  <2>6. CountInv(P, s2, 6, 10, 104, total)
    BY <2>2, <2>3, <2>5, CountKept
  <2> QED
    BY <1>4, <2>2, <2>4, <2>6 DEF Good, Others
<1>5. CASE p = "ticket"
  <2>1. program[p] = load(ticket_s) /\ StepsIn(P, p, s, t, s2)
    BY <1>1, <1>5 DEF Source, Locks, StepsIn, Good
  <2>2. Others(P, s, t, s2) /\ TicketStep(s, t, s2) /\ CountStep(s, t, s2, 5, 10, 108)
    BY <1>5, <2>1, TicketSteps
  <2>3. Shaped(P, s) /\ TicketInv(P, s) /\ CountInv(P, s, 5, 10, 108, total)
    BY <1>5 DEF Good
  <2>4. TicketInv(P, s2)
    BY <2>2, <2>3, TicketKept
  <2>5. Alone(P, s, 5)
    BY <2>3, ServedAlone
  <2>6. CountInv(P, s2, 5, 10, 108, total)
    BY <2>2, <2>3, <2>5, CountKept
  <2> QED
    BY <1>5, <2>2, <2>4, <2>6 DEF Good, Others
<1>6. CASE p = "wait-for-me"
  <2>1. program[p] = load(wait_for_me_s) /\ StepsIn(P, p, s, t, s2)
    BY <1>1, <1>6 DEF Source, Locks, StepsIn, Good
  <2>2. Others(P, s, t, s2) /\ WaitStep(s, t, s2)
    BY <1>6, <2>1, WaitSteps
  <2>3. WaitInv(P, s2)
    BY <1>6, <2>2, WaitKept DEF Good
  <2> QED
    BY <1>6, <2>2, <2>3 DEF Good, Others
<1>7. CASE p = "loop"
  BY <1>7 DEF Good
<1> QED
  BY <1>1, <1>2, <1>3, <1>4, <1>5, <1>6, <1>7 DEF Source, Locks

\* The threads start at the first instruction, with the registers -a sets and no memory written.
LEMMA GoodInit ==
    ASSUME NEW P, P = 0 .. numthreads[prog] - 1, prog \in DOMAIN program, Init
    PROVE  /\ prog # "loop" => Shaped(P, State)
           /\ \A t \in P : /\ loc(State, t) = 0
                           /\ prog \in Locks => Reg(State, t, "bx") = loops
           /\ \A a : Mem(State, a) = 0
<1>1. /\ context = [t \in P |-> T!InitContext(t)] /\ memory = <<>>
      /\ done = [t \in P |-> FALSE]
  BY InitRefines DEF T!TInit, T!Threads
<1>2. /\ State.context = [t \in P |-> T!InitContext(t)] /\ State.memory = <<>>
      /\ State.done = [t \in P |-> FALSE]
  BY <1>1 DEF State
<1>3. \A a : Mem(State, a) = 0
  BY <1>2 DEF Mem, Read
<1>4. ASSUME NEW t \in P
      PROVE  /\ T!InitContext(t).PC = loadaddr
             /\ T!InitContext(t) = [PC |-> T!InitContext(t).PC, conditions |-> T!InitContext(t).conditions,
                                    registers |-> T!InitContext(t).registers]
             /\ prog \in Locks => /\ T!InitContext(t).registers["bx"] = loops
                                  /\ T!InitContext(t).registers \in [Regs -> Int]
                                  /\ T!InitContext(t).registers["zero"] = 0
             /\ prog = "wait-for-me" => /\ T!InitContext(t).registers \in [Regs -> Int]
                                        /\ T!InitContext(t).registers["zero"] = 0
  <2> DEFINE set == reginit[prog][t]
             rs  == [r \in Regs |-> IF r = "sp" THEN 128000 - 1000 * t
                                    ELSE IF r \in DOMAIN set THEN set[r] ELSE 0]
  <2>1. T!InitContext(t) = [PC |-> loadaddr, conditions |-> T!no_conditions, registers |-> rs]
    BY DEF T!InitContext, T!Regs, Regs, T!StackTop
  <2>2. reginit[prog] \in [P -> CASE prog \in Locks -> [bx : {loops}]
                                  [] prog = "wait-for-me" -> [ax : {0, 1}]
                                  [] prog = "loop" -> [dx : {loops}]]
    BY LocksAssumption
  <2>3. prog \in Locks => set \in [bx : {loops}]
    BY <2>2 DEF Locks
  <2>4. prog = "wait-for-me" => set \in [ax : {0, 1}]
    BY <2>2 DEF Locks
  <2>5. t \in Int /\ loops \in Int /\ numthreads[prog] \in Nat
    BY LocksAssumption, NumThreadsAssumption
  <2>6. prog \in Locks => rs \in [Regs -> Int] /\ rs["zero"] = 0 /\ rs["bx"] = loops
    BY <2>3, <2>5 DEF Regs
  <2>7. prog = "wait-for-me" => rs \in [Regs -> Int] /\ rs["zero"] = 0
    BY <2>4, <2>5 DEF Regs
  <2> HIDE DEF rs, set
  <2> QED
    BY <2>1, <2>6, <2>7
<1>5. prog \in Locks \cup {"wait-for-me", "loop"}
  BY LocksAssumption DEF Source
<1>6. ASSUME prog # "loop", NEW t \in P PROVE Live(T!InitContext(t))
  BY <1>4, <1>5, <1>6, LoadAddrAssumption DEF Live
<1>7. prog # "loop" => Shaped(P, State)
  BY <1>2, <1>3, <1>6 DEF Shaped, Ints, Mem
<1>8. \A t \in P : /\ loc(State, t) = 0
                   /\ prog \in Locks => Reg(State, t, "bx") = loops
  BY <1>2, <1>4, LoadAddrAssumption DEF loc, Reg
<1> QED
  BY <1>3, <1>7, <1>8

\* At the start all of the total is still to be added.
LEMMA CountInit ==
    ASSUME NEW P, IsFiniteSet(P), NEW s, NEW c \in Nat, NEW b \in Nat, b > c + 2, NEW a,
           \A t \in P : loc(s, t) = 0 /\ Reg(s, t, "bx") = loops, Mem(s, a) = 0
    PROVE  CountInv(P, s, c, b, a, Cardinality(P) * loops)
<1>1. loops \in Nat \ {0}
  BY LocksAssumption
<1> DEFINE A == Todo(P, s, c, b)
           K == 0 .. loops - 1
<1>2. A = P \X K
  <2>1. \A t \in P : Rem(s, t, c, b) = loops
    BY DEF Rem
  <2> QED
    BY <1>1, <2>1 DEF Todo
<1>3. IsFiniteSet(K) /\ Cardinality(K) = loops
  BY <1>1, FS_Interval
<1> HIDE DEF A, K
<1>4. IsFiniteSet(A) /\ Cardinality(A) = Cardinality(P) * loops
  BY <1>2, <1>3, FS_Product
<1>5. Cardinality(A) \in Nat
  BY <1>4, FS_CardinalityType
<1>6. \A t \in P : Counting1(s, t, c, b, a)
  BY <1>1 DEF Counting1
<1> QED
  BY <1>4, <1>5, <1>6 DEF CountInv, A

\* The initial states have the invariant.
LEMMA LockInit == Init => LockInv
<1> SUFFICES ASSUME Init PROVE LockInv
  OBVIOUS
<1> DEFINE P == Threads
           s == State
           total == numthreads[prog] * loops
<1>1. prog \in DOMAIN program /\ P = 0 .. numthreads[prog] - 1
  BY DEF Init, Threads, T!Threads
<1>2. IsFiniteSet(P) /\ Cardinality(P) = numthreads[prog]
  BY <1>1, AliveFinite
<1>3. /\ prog # "loop" => Shaped(P, s)
      /\ \A t \in P : loc(s, t) = 0 /\ (prog \in Locks => Reg(s, t, "bx") = loops)
      /\ \A a : Mem(s, a) = 0
  BY <1>1, GoodInit
<1> HIDE DEF P, s
<1>4. \A x, c \in Nat : 0 < c /\ 0 <= x /\ 0 # x => ExInv(P, prog, s, x, c)
  BY <1>3 DEF ExInv, Has
<1>5. ASSUME prog \in Locks, NEW c \in Nat, NEW b \in Nat, b > c + 2, NEW a
      PROVE  CountInv(P, s, c, b, a, total)
  BY <1>2, <1>3, <1>5, CountInit
<1>6. TicketInv(P, s)
  <2>1. Waiters(P, s) = {} /\ Served(P, s) = {} /\ Queue(P, s) = {}
    BY <1>3 DEF Waiters, Served, Queue
  <2> QED
    BY <1>3, <2>1, FS_EmptySet DEF TicketInv, Knows
<1>7. WaitInv(P, s)
  BY <1>3 DEF WaitInv, Sees
<1> HIDE DEF total
<1>8. Good(P, prog, s, total)
  BY <1>3, <1>4, <1>5, <1>6, <1>7 DEF Good, Locks
<1> QED
  BY <1>8 DEF LockInv, P, s, total

\* The state is that of LockInv after a step as before it.
LEMMA LockStep == IInv /\ LockInv /\ [Next]_vars => LockInv'
<1> SUFFICES ASSUME IInv, LockInv, [Next]_vars PROVE LockInv'
  OBVIOUS
<1>1. CASE UNCHANGED vars
  BY <1>1 DEF LockInv, vars, State, context, Threads, T!Threads
<1>2. CASE Step
  <2>1. T!TStep(curr) /\ curr \in Threads /\ prog \in DOMAIN program /\ ~done[curr]
    BY <1>2, StepRefines DEF IInv, T!TStep
  <2>2. StepOf(prog, State, curr, State') /\ prog' = prog
    BY <2>1, StepIs
  <2>3. State.context[curr].PC \in DOMAIN program[prog]
    <3>1. context[curr] = cpu /\ cpu.PC \in DOMAIN program[prog]
      BY <1>2, <2>1 DEF Step, Continue, Interrupt, HaltSwitch, HaltLast, Execute, context,
                        Threads, T!Threads
    <3> QED
      BY <3>1 DEF State
  <2>4. IsFiniteSet(Threads)
    BY <2>1, AliveFinite
  <2>5. Good(Threads, prog, State', numthreads[prog] * loops)
    BY <2>1, <2>2, <2>3, <2>4, GoodKept DEF LockInv
  <2>6. Threads' = Threads
    BY <2>2, Kept
  <2> QED
    BY <2>2, <2>5, <2>6 DEF LockInv
<1> QED
  BY <1>1, <1>2 DEF Next, Finished

\* The invariant of the programs.
THEOREM LockInvariance == Spec => []LockInv
<1>1. Init => LockInv
  BY LockInit
<1>2. IInv /\ LockInv /\ [Next]_vars => LockInv'
  BY LockStep
<1> QED
  BY <1>1, <1>2, MachineInvariance, PTL DEF Spec

-----------------------------------------------------------------------------
(* The critical sections.                                                  *)

\* The critical section of test-and-set.s.
LEMMA TasCrit ==
    ASSUME prog \in DOMAIN program, prog = "test-and-set"
    PROVE  CritFirst = loadaddr + 4 /\ CritLast = loadaddr + 6 /\ CounterRef.n = 104
<1> DEFINE code == load(test_and_set_s)
<1>1. Source[prog] = test_and_set_s /\ program[prog] = code
  BY LocksAssumption DEF Source, Locks
<1>2. CounterRef = Word(104)
  BY <1>1, TasCode DEF CounterRef
<1>3. DOMAIN code = loadaddr .. loadaddr + 11 /\ loadaddr \in Nat
  BY TasCode, LoadAddrAssumption
<1>4. ASSUME NEW d \in 0 .. 11
      PROVE  /\ code[loadaddr + d].src = Word(104) <=> d = 4
             /\ code[loadaddr + d].dst = Word(104) <=> d = 6
  <2>1. CASE d = 0
    BY <2>1, TasCode DEF Do, Word, M, I, None, ax, bx, cx, R
  <2>2. CASE d = 1
    BY <2>2, TasCode DEF Do, Word, M, I, None, ax, bx, cx, R
  <2>3. CASE d = 2
    BY <2>3, TasCode DEF Do, Word, M, I, None, ax, bx, cx, R
  <2>4. CASE d = 3
    BY <2>4, TasCode DEF Do, Word, M, I, None, ax, bx, cx, R
  <2>5. CASE d = 4
    BY <2>5, TasCode DEF Do, Word, M, I, None, ax, bx, cx, R
  <2>6. CASE d = 5
    BY <2>6, TasCode DEF Do, Word, M, I, None, ax, bx, cx, R
  <2>7. CASE d = 6
    BY <2>7, TasCode DEF Do, Word, M, I, None, ax, bx, cx, R
  <2>8. CASE d = 7
    BY <2>8, TasCode DEF Do, Word, M, I, None, ax, bx, cx, R
  <2>9. CASE d = 8
    BY <2>9, TasCode DEF Do, Word, M, I, None, ax, bx, cx, R
  <2>10. CASE d = 9
    BY <2>10, TasCode DEF Do, Word, M, I, None, ax, bx, cx, R
  <2>11. CASE d = 10
    BY <2>11, TasCode DEF Do, Word, M, I, None, ax, bx, cx, R
  <2>12. CASE d = 11
    BY <2>12, TasCode DEF Do, Word, M, I, None, ax, bx, cx, R
  <2> QED
    BY <2>1, <2>2, <2>3, <2>4, <2>5, <2>6, <2>7, <2>8, <2>9, <2>10, <2>11, <2>12
<1> HIDE DEF code
<1>5. ASSUME NEW q \in DOMAIN code
      PROVE  /\ code[q].src = Word(104) <=> q = loadaddr + 4
             /\ code[q].dst = Word(104) <=> q = loadaddr + 6
  <2> DEFINE d == q - loadaddr
  <2>0. q \in loadaddr .. loadaddr + 11 /\ loadaddr \in Nat
    BY <1>3
  <2> HIDE DEF code
  <2>1. d \in 0 .. 11 /\ q = loadaddr + d
    BY <2>0
  <2> HIDE DEF d
  <2>2. /\ code[loadaddr + d].src = Word(104) <=> d = 4
        /\ code[loadaddr + d].dst = Word(104) <=> d = 6
    BY <1>4, <2>1
  <2> QED
    BY <1>3, <2>1, <2>2
<1>6. loadaddr + 4 \in DOMAIN code /\ loadaddr + 6 \in DOMAIN code
  BY <1>3
<1>7. CritFirst = loadaddr + 4
  BY <1>1, <1>2, <1>5, <1>6 DEF CritFirst
<1>8. CritLast = loadaddr + 6
  BY <1>1, <1>2, <1>5, <1>6 DEF CritLast
<1>9. Word(104).n = 104
  BY DEF Word, M
<1> QED
  BY <1>2, <1>7, <1>8, <1>9

\* The critical section of test-and-test-and-set.s.
LEMMA TtasCrit ==
    ASSUME prog \in DOMAIN program, prog = "test-and-test-and-set"
    PROVE  CritFirst = loadaddr + 7 /\ CritLast = loadaddr + 9 /\ CounterRef.n = 104
<1> DEFINE code == load(test_and_test_and_set_s)
<1>1. Source[prog] = test_and_test_and_set_s /\ program[prog] = code
  BY LocksAssumption DEF Source, Locks
<1>2. CounterRef = Word(104)
  BY <1>1, TtasCode DEF CounterRef
<1>3. DOMAIN code = loadaddr .. loadaddr + 14 /\ loadaddr \in Nat
  BY TtasCode, LoadAddrAssumption
<1>4. ASSUME NEW d \in 0 .. 14
      PROVE  /\ code[loadaddr + d].src = Word(104) <=> d = 7
             /\ code[loadaddr + d].dst = Word(104) <=> d = 9
  <2>1. CASE d = 0
    BY <2>1, TtasCode DEF Do, Word, M, I, None, ax, bx, cx, R
  <2>2. CASE d = 1
    BY <2>2, TtasCode DEF Do, Word, M, I, None, ax, bx, cx, R
  <2>3. CASE d = 2
    BY <2>3, TtasCode DEF Do, Word, M, I, None, ax, bx, cx, R
  <2>4. CASE d = 3
    BY <2>4, TtasCode DEF Do, Word, M, I, None, ax, bx, cx, R
  <2>5. CASE d = 4
    BY <2>5, TtasCode DEF Do, Word, M, I, None, ax, bx, cx, R
  <2>6. CASE d = 5
    BY <2>6, TtasCode DEF Do, Word, M, I, None, ax, bx, cx, R
  <2>7. CASE d = 6
    BY <2>7, TtasCode DEF Do, Word, M, I, None, ax, bx, cx, R
  <2>8. CASE d = 7
    BY <2>8, TtasCode DEF Do, Word, M, I, None, ax, bx, cx, R
  <2>9. CASE d = 8
    BY <2>9, TtasCode DEF Do, Word, M, I, None, ax, bx, cx, R
  <2>10. CASE d = 9
    BY <2>10, TtasCode DEF Do, Word, M, I, None, ax, bx, cx, R
  <2>11. CASE d = 10
    BY <2>11, TtasCode DEF Do, Word, M, I, None, ax, bx, cx, R
  <2>12. CASE d = 11
    BY <2>12, TtasCode DEF Do, Word, M, I, None, ax, bx, cx, R
  <2>13. CASE d = 12
    BY <2>13, TtasCode DEF Do, Word, M, I, None, ax, bx, cx, R
  <2>14. CASE d = 13
    BY <2>14, TtasCode DEF Do, Word, M, I, None, ax, bx, cx, R
  <2>15. CASE d = 14
    BY <2>15, TtasCode DEF Do, Word, M, I, None, ax, bx, cx, R
  <2> QED
    BY <2>1, <2>2, <2>3, <2>4, <2>5, <2>6, <2>7, <2>8, <2>9, <2>10, <2>11, <2>12, <2>13, <2>14, <2>15
<1> HIDE DEF code
<1>5. ASSUME NEW q \in DOMAIN code
      PROVE  /\ code[q].src = Word(104) <=> q = loadaddr + 7
             /\ code[q].dst = Word(104) <=> q = loadaddr + 9
  <2> DEFINE d == q - loadaddr
  <2>0. q \in loadaddr .. loadaddr + 14 /\ loadaddr \in Nat
    BY <1>3
  <2> HIDE DEF code
  <2>1. d \in 0 .. 14 /\ q = loadaddr + d
    BY <2>0
  <2> HIDE DEF d
  <2>2. /\ code[loadaddr + d].src = Word(104) <=> d = 7
        /\ code[loadaddr + d].dst = Word(104) <=> d = 9
    BY <1>4, <2>1
  <2> QED
    BY <1>3, <2>1, <2>2
<1>6. loadaddr + 7 \in DOMAIN code /\ loadaddr + 9 \in DOMAIN code
  BY <1>3
<1>7. CritFirst = loadaddr + 7
  BY <1>1, <1>2, <1>5, <1>6 DEF CritFirst
<1>8. CritLast = loadaddr + 9
  BY <1>1, <1>2, <1>5, <1>6 DEF CritLast
<1>9. Word(104).n = 104
  BY DEF Word, M
<1> QED
  BY <1>2, <1>7, <1>8, <1>9

\* The critical section of yield.s.
LEMMA YieldCrit ==
    ASSUME prog \in DOMAIN program, prog = "yield"
    PROVE  CritFirst = loadaddr + 6 /\ CritLast = loadaddr + 8 /\ CounterRef.n = 104
<1> DEFINE code == load(yield_s)
<1>1. Source[prog] = yield_s /\ program[prog] = code
  BY LocksAssumption DEF Source, Locks
<1>2. CounterRef = Word(104)
  BY <1>1, YieldCode DEF CounterRef
<1>3. DOMAIN code = loadaddr .. loadaddr + 13 /\ loadaddr \in Nat
  BY YieldCode, LoadAddrAssumption
<1>4. ASSUME NEW d \in 0 .. 13
      PROVE  /\ code[loadaddr + d].src = Word(104) <=> d = 6
             /\ code[loadaddr + d].dst = Word(104) <=> d = 8
  <2>1. CASE d = 0
    BY <2>1, YieldCode DEF Do, Word, M, I, None, ax, bx, cx, R
  <2>2. CASE d = 1
    BY <2>2, YieldCode DEF Do, Word, M, I, None, ax, bx, cx, R
  <2>3. CASE d = 2
    BY <2>3, YieldCode DEF Do, Word, M, I, None, ax, bx, cx, R
  <2>4. CASE d = 3
    BY <2>4, YieldCode DEF Do, Word, M, I, None, ax, bx, cx, R
  <2>5. CASE d = 4
    BY <2>5, YieldCode DEF Do, Word, M, I, None, ax, bx, cx, R
  <2>6. CASE d = 5
    BY <2>6, YieldCode DEF Do, Word, M, I, None, ax, bx, cx, R
  <2>7. CASE d = 6
    BY <2>7, YieldCode DEF Do, Word, M, I, None, ax, bx, cx, R
  <2>8. CASE d = 7
    BY <2>8, YieldCode DEF Do, Word, M, I, None, ax, bx, cx, R
  <2>9. CASE d = 8
    BY <2>9, YieldCode DEF Do, Word, M, I, None, ax, bx, cx, R
  <2>10. CASE d = 9
    BY <2>10, YieldCode DEF Do, Word, M, I, None, ax, bx, cx, R
  <2>11. CASE d = 10
    BY <2>11, YieldCode DEF Do, Word, M, I, None, ax, bx, cx, R
  <2>12. CASE d = 11
    BY <2>12, YieldCode DEF Do, Word, M, I, None, ax, bx, cx, R
  <2>13. CASE d = 12
    BY <2>13, YieldCode DEF Do, Word, M, I, None, ax, bx, cx, R
  <2>14. CASE d = 13
    BY <2>14, YieldCode DEF Do, Word, M, I, None, ax, bx, cx, R
  <2> QED
    BY <2>1, <2>2, <2>3, <2>4, <2>5, <2>6, <2>7, <2>8, <2>9, <2>10, <2>11, <2>12, <2>13, <2>14
<1> HIDE DEF code
<1>5. ASSUME NEW q \in DOMAIN code
      PROVE  /\ code[q].src = Word(104) <=> q = loadaddr + 6
             /\ code[q].dst = Word(104) <=> q = loadaddr + 8
  <2> DEFINE d == q - loadaddr
  <2>0. q \in loadaddr .. loadaddr + 13 /\ loadaddr \in Nat
    BY <1>3
  <2> HIDE DEF code
  <2>1. d \in 0 .. 13 /\ q = loadaddr + d
    BY <2>0
  <2> HIDE DEF d
  <2>2. /\ code[loadaddr + d].src = Word(104) <=> d = 6
        /\ code[loadaddr + d].dst = Word(104) <=> d = 8
    BY <1>4, <2>1
  <2> QED
    BY <1>3, <2>1, <2>2
<1>6. loadaddr + 6 \in DOMAIN code /\ loadaddr + 8 \in DOMAIN code
  BY <1>3
<1>7. CritFirst = loadaddr + 6
  BY <1>1, <1>2, <1>5, <1>6 DEF CritFirst
<1>8. CritLast = loadaddr + 8
  BY <1>1, <1>2, <1>5, <1>6 DEF CritLast
<1>9. Word(104).n = 104
  BY DEF Word, M
<1> QED
  BY <1>2, <1>7, <1>8, <1>9

\* The critical section of ticket.s.
LEMMA TicketCrit ==
    ASSUME prog \in DOMAIN program, prog = "ticket"
    PROVE  CritFirst = loadaddr + 5 /\ CritLast = loadaddr + 7 /\ CounterRef.n = 108
<1> DEFINE code == load(ticket_s)
<1>1. Source[prog] = ticket_s /\ program[prog] = code
  BY LocksAssumption DEF Source, Locks
<1>2. CounterRef = Word(108)
  BY <1>1, TicketCode DEF CounterRef
<1>3. DOMAIN code = loadaddr .. loadaddr + 13 /\ loadaddr \in Nat
  BY TicketCode, LoadAddrAssumption
<1>4. ASSUME NEW d \in 0 .. 13
      PROVE  /\ code[loadaddr + d].src = Word(108) <=> d = 5
             /\ code[loadaddr + d].dst = Word(108) <=> d = 7
  <2>1. CASE d = 0
    BY <2>1, TicketCode DEF Do, Word, M, I, None, ax, bx, cx, R
  <2>2. CASE d = 1
    BY <2>2, TicketCode DEF Do, Word, M, I, None, ax, bx, cx, R
  <2>3. CASE d = 2
    BY <2>3, TicketCode DEF Do, Word, M, I, None, ax, bx, cx, R
  <2>4. CASE d = 3
    BY <2>4, TicketCode DEF Do, Word, M, I, None, ax, bx, cx, R
  <2>5. CASE d = 4
    BY <2>5, TicketCode DEF Do, Word, M, I, None, ax, bx, cx, R
  <2>6. CASE d = 5
    BY <2>6, TicketCode DEF Do, Word, M, I, None, ax, bx, cx, R
  <2>7. CASE d = 6
    BY <2>7, TicketCode DEF Do, Word, M, I, None, ax, bx, cx, R
  <2>8. CASE d = 7
    BY <2>8, TicketCode DEF Do, Word, M, I, None, ax, bx, cx, R
  <2>9. CASE d = 8
    BY <2>9, TicketCode DEF Do, Word, M, I, None, ax, bx, cx, R
  <2>10. CASE d = 9
    BY <2>10, TicketCode DEF Do, Word, M, I, None, ax, bx, cx, R
  <2>11. CASE d = 10
    BY <2>11, TicketCode DEF Do, Word, M, I, None, ax, bx, cx, R
  <2>12. CASE d = 11
    BY <2>12, TicketCode DEF Do, Word, M, I, None, ax, bx, cx, R
  <2>13. CASE d = 12
    BY <2>13, TicketCode DEF Do, Word, M, I, None, ax, bx, cx, R
  <2>14. CASE d = 13
    BY <2>14, TicketCode DEF Do, Word, M, I, None, ax, bx, cx, R
  <2> QED
    BY <2>1, <2>2, <2>3, <2>4, <2>5, <2>6, <2>7, <2>8, <2>9, <2>10, <2>11, <2>12, <2>13, <2>14
<1> HIDE DEF code
<1>5. ASSUME NEW q \in DOMAIN code
      PROVE  /\ code[q].src = Word(108) <=> q = loadaddr + 5
             /\ code[q].dst = Word(108) <=> q = loadaddr + 7
  <2> DEFINE d == q - loadaddr
  <2>0. q \in loadaddr .. loadaddr + 13 /\ loadaddr \in Nat
    BY <1>3
  <2> HIDE DEF code
  <2>1. d \in 0 .. 13 /\ q = loadaddr + d
    BY <2>0
  <2> HIDE DEF d
  <2>2. /\ code[loadaddr + d].src = Word(108) <=> d = 5
        /\ code[loadaddr + d].dst = Word(108) <=> d = 7
    BY <1>4, <2>1
  <2> QED
    BY <1>3, <2>1, <2>2
<1>6. loadaddr + 5 \in DOMAIN code /\ loadaddr + 7 \in DOMAIN code
  BY <1>3
<1>7. CritFirst = loadaddr + 5
  BY <1>1, <1>2, <1>5, <1>6 DEF CritFirst
<1>8. CritLast = loadaddr + 7
  BY <1>1, <1>2, <1>5, <1>6 DEF CritLast
<1>9. Word(108).n = 108
  BY DEF Word, M
<1> QED
  BY <1>2, <1>7, <1>8, <1>9

-----------------------------------------------------------------------------
\* Who is in the critical section, and what the count is when all have halted.
LEMMA InCriticalIs ==
    ASSUME NEW t \in Threads, NEW c \in Nat, Shaped(Threads, State),
           CritFirst = loadaddr + c, CritLast = loadaddr + (c + 2)
    PROVE  InCritical(t) <=> loc(State, t) \in c .. c + 2
<1>1. ~done[t] => context[t].PC \in Int /\ loc(State, t) = context[t].PC - loadaddr
  BY DEF Shaped, Live, State, loc
<1>2. done[t] => loc(State, t) = -1
  BY DEF State, loc
<1> DEFINE pc == context[t].PC
           l == loc(State, t)
<1>3. ~done[t] => (pc \in loadaddr + c .. loadaddr + (c + 2) <=> l \in c .. c + 2)
  <2> HIDE DEF pc, l
  <2> QED
    BY <1>1, LoadAddrAssumption DEF pc, l
<1>4. -1 \notin c .. c + 2
  OBVIOUS
<1> QED
  BY <1>2, <1>3, <1>4 DEF InCritical

\* When all threads have halted nothing is left to add.
LEMMA CountAtEnd ==
    ASSUME IInv, active = 0, NEW c \in Nat, NEW b \in Nat, NEW a, NEW total \in Int,
           Mem(State, a) \in Int, CountInv(Threads, State, c, b, a, total)
    PROVE  Mem(State, a) = total
<1>1. Alive(done) = {}
  BY AliveFinite, FS_EmptySet DEF IInv
<1>2. \A t \in Threads : loc(State, t) = -1
  BY <1>1 DEF Alive, loc, State
<1>3. Todo(Threads, State, c, b) = {}
  BY <1>2 DEF Todo, Rem
<1> QED
  BY <1>3, FS_EmptySet DEF CountInv

-----------------------------------------------------------------------------
(* The properties.                                                         *)

\* At most one thread is in the critical section of a lock program, and no increment
\* is lost: test-and-set.s, test-and-test-and-set.s, ticket.s and yield.s, whatever
\* the number of threads, the loops and where the interrupts fall.
LEMMA LockExcludes == IInv /\ LockInv => MutualExclusion
<1> SUFFICES ASSUME IInv, LockInv, prog \in Locks
             PROVE  /\ \A t, u \in Threads : InCritical(t) /\ InCritical(u) => t = u
                    /\ active = 0 => Read(memory, CounterRef.n) = numthreads[prog] * loops
  BY DEF MutualExclusion
<1> DEFINE total == numthreads[prog] * loops
<1>1. prog \in DOMAIN program /\ total \in Int
  BY NumThreadsAssumption, LocksAssumption DEF IInv
<1>g. Good(Threads, prog, State, total)
  BY DEF LockInv
<1> HIDE DEF total
<1>2. ASSUME NEW c \in Nat, NEW b \in Nat, NEW a, Shaped(Threads, State),
             CountInv(Threads, State, c, b, a, total), Alone(Threads, State, c),
             CritFirst = loadaddr + c, CritLast = loadaddr + (c + 2), CounterRef.n = a
      PROVE  /\ \A t, u \in Threads : InCritical(t) /\ InCritical(u) => t = u
             /\ active = 0 => Read(memory, CounterRef.n) = total
  <2>1. \A t \in Threads : InCritical(t) <=> loc(State, t) \in c .. c + 2
    BY <1>2, InCriticalIs
  <2>2. \A t, u \in Threads : InCritical(t) /\ InCritical(u) => t = u
    BY <1>2, <2>1 DEF Alone
  <2>3. active = 0 => Mem(State, a) = total
    BY <1>1, <1>2, Typed, CountAtEnd
  <2> QED
    BY <1>2, <2>2, <2>3 DEF Mem, State
<1>3. /\ \A t, u \in Threads : InCritical(t) /\ InCritical(u) => t = u
      /\ active = 0 => Read(memory, CounterRef.n) = total
  <2>1. CASE prog = "test-and-set"
    <3>0. /\ Shaped(Threads, State) /\ ExInv(Threads, prog, State, 1, 4)
          /\ CountInv(Threads, State, 4, 8, 104, total)
      BY <1>g, <2>1 DEF Good
    <3>1. Alone(Threads, State, 4)
      BY <3>0, ExAlone
    <3>2. CritFirst = loadaddr + 4 /\ CritLast = loadaddr + (4 + 2) /\ CounterRef.n = 104
      BY <1>1, <2>1, TasCrit
    <3> QED
      BY <1>2, <3>0, <3>1, <3>2
  <2>2. CASE prog = "test-and-test-and-set"
    <3>0. /\ Shaped(Threads, State) /\ ExInv(Threads, prog, State, 4, 7)
          /\ CountInv(Threads, State, 7, 11, 104, total)
      BY <1>g, <2>2 DEF Good
    <3>1. Alone(Threads, State, 7)
      BY <3>0, ExAlone
    <3>2. CritFirst = loadaddr + 7 /\ CritLast = loadaddr + (7 + 2) /\ CounterRef.n = 104
      BY <1>1, <2>2, TtasCrit
    <3> QED
      BY <1>2, <3>0, <3>1, <3>2
  <2>3. CASE prog = "yield"
    <3>0. /\ Shaped(Threads, State) /\ ExInv(Threads, prog, State, 1, 6)
          /\ CountInv(Threads, State, 6, 10, 104, total)
      BY <1>g, <2>3 DEF Good
    <3>1. Alone(Threads, State, 6)
      BY <3>0, ExAlone
    <3>2. CritFirst = loadaddr + 6 /\ CritLast = loadaddr + (6 + 2) /\ CounterRef.n = 104
      BY <1>1, <2>3, YieldCrit
    <3> QED
      BY <1>2, <3>0, <3>1, <3>2
  <2>4. CASE prog = "ticket"
    <3>0. /\ Shaped(Threads, State) /\ TicketInv(Threads, State)
          /\ CountInv(Threads, State, 5, 10, 108, total)
      BY <1>g, <2>4 DEF Good
    <3>1. Alone(Threads, State, 5)
      BY <3>0, ServedAlone
    <3>2. CritFirst = loadaddr + 5 /\ CritLast = loadaddr + (5 + 2) /\ CounterRef.n = 108
      BY <1>1, <2>4, TicketCrit
    <3> QED
      BY <1>2, <3>0, <3>1, <3>2
  <2> QED
    BY <2>1, <2>2, <2>3, <2>4 DEF Locks
<1> QED
  BY <1>3 DEF total

\* The lock programs exclude each other's threads and lose no increment, for any number
\* of threads and loops, and wherever the interrupts fall.
THEOREM LocksExclude == Spec => []MutualExclusion
BY MachineInvariance, LockInvariance, LockExcludes, PTL

\* The threads that At names, by what they see of the state.
LEMMA AtIs ==
    ASSUME Shaped(Threads, State), NEW lo \in Nat, NEW hi \in Nat
    PROVE  At(lo, hi) = {t \in Threads : loc(State, t) \in lo .. hi}
<1>1. ASSUME NEW t \in Threads
      PROVE  ~done[t] /\ context[t].PC \in loadaddr + lo .. loadaddr + hi <=> loc(State, t) \in lo .. hi
  <2>1. ~done[t] => context[t].PC \in Int /\ loc(State, t) = context[t].PC - loadaddr
    BY DEF Shaped, Live, State, loc
  <2>2. done[t] => loc(State, t) = -1
    BY DEF State, loc
  <2> DEFINE pc == context[t].PC
             l == loc(State, t)
  <2>3. ~done[t] => (pc \in loadaddr + lo .. loadaddr + hi <=> l \in lo .. hi)
    <3> HIDE DEF pc, l
    <3> QED
      BY <2>1, LoadAddrAssumption DEF pc, l
  <2>4. -1 \notin lo .. hi
    OBVIOUS
  <2> QED
    BY <2>2, <2>3, <2>4
<1> QED
  BY <1>1 DEF At

\* The invariant orders the tickets of ticket.s, and a waiter of wait-for-me.s halts only
\* after the signal.
LEMMA LocksInTurn == IInv /\ LockInv => InTurn
<1> SUFFICES ASSUME IInv, LockInv PROVE InTurn
  OBVIOUS
<1>1. ASSUME prog = "ticket" PROVE TicketOrder
  <2>1. TicketInv(Threads, State) /\ Shaped(Threads, State)
    BY <1>1 DEF LockInv, Good
  <2>2. /\ Mem(State, TicketRef) = Read(memory, 100) /\ Mem(State, TurnRef) = Read(memory, 104)
        /\ \A t : Reg(State, t, "ax") = context[t].registers["ax"]
    BY DEF Mem, State, Reg, TicketRef, TurnRef
  <2>3. At(2, 4) = Waiters(Threads, State) /\ At(5, 9) = Served(Threads, State)
    BY <2>1, AtIs DEF Waiters, Served
  <2>4. At(2, 4) \cup At(5, 9) = Queue(Threads, State)
    BY <2>1, <2>3, Typed DEF Waiters, Served, Queue
  <2>5. \A t \in Waiters(Threads, State) :
           /\ Reg(State, t, "ax") \in Mem(State, TurnRef) .. Mem(State, TicketRef) - 1
           /\ Served(Threads, State) # {} => Reg(State, t, "ax") # Mem(State, TurnRef)
    <3> SUFFICES ASSUME NEW t \in Waiters(Threads, State)
                 PROVE  /\ Reg(State, t, "ax") \in Mem(State, TurnRef) .. Mem(State, TicketRef) - 1
                        /\ Served(Threads, State) # {} => Reg(State, t, "ax") # Mem(State, TurnRef)
      OBVIOUS
    <3>1. t \in Threads /\ loc(State, t) # -1
      BY DEF Waiters
    <3>2. Reg(State, t, "ax") \in Int /\ Mem(State, TurnRef) \in Int /\ Mem(State, TicketRef) \in Int
      BY <2>1, <3>1, Typed DEF Regs
    <3>3. Waits(Threads, State, t)
      BY <2>1 DEF TicketInv
    <3> QED
      BY <3>2, <3>3 DEF Waits
  <2>6. /\ Mem(State, TicketRef) - Mem(State, TurnRef) = Cardinality(Queue(Threads, State))
        /\ \A t, u \in Waiters(Threads, State) : Reg(State, t, "ax") = Reg(State, u, "ax") => t = u
    BY <2>1 DEF TicketInv
  <2> DEFINE m(t) == Reg(State, t, "ax")
             next == Mem(State, TicketRef)
             turn == Mem(State, TurnRef)
             waiting == Waiters(Threads, State)
             served  == Served(Threads, State)
  <2>7. /\ next - turn = Cardinality(waiting \cup served)
        /\ \A t \in waiting : m(t) \in turn .. next - 1 /\ (served # {} => m(t) # turn)
        /\ \A t, u \in waiting : m(t) = m(u) => t = u
    BY <2>3, <2>4, <2>5, <2>6
  <2>8. /\ next = Read(memory, 100) /\ turn = Read(memory, 104)
        /\ waiting = At(2, 4) /\ served = At(5, 9)
        /\ \A t : m(t) = context[t].registers["ax"]
    BY <2>2, <2>3
  <2> HIDE DEF m, next, turn, waiting, served
  <2> QED
    BY <2>7, <2>8, Zenon DEF TicketOrder
<1>2. ASSUME prog = "wait-for-me" PROVE SignalFirst
  <2>1. WaitInv(Threads, State)
    BY <1>2 DEF LockInv, Good
  <2>2. \A t \in Threads : done[t] => Sees(State, t)
    BY DEF Sees, State, loc
  <2> QED
    BY <2>1, <2>2 DEF WaitInv, SignalFirst, Mem, State, Signal
<1> QED
  BY <1>1, <1>2 DEF InTurn

\* ticket.s serves its tickets in order and wait-for-me.s waits for its signal, for any
\* number of threads, and wherever the interrupts fall.
THEOREM LocksTurn == Spec => []InTurn
BY MachineInvariance, LockInvariance, LocksInTurn, PTL

===============================================================================
