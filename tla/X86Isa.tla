------------------------------- MODULE X86Isa --------------------------------
(***************************************************************************)
(* x86.py, class cpu: the instructions.  A line of a program is a          *)
(* variable, a label or an instruction; an operand is a register, a        *)
(* number, a memory reference, or the name of a variable or a label.       *)
(***************************************************************************)
EXTENDS Integers, Sequences, FiniteSets

CONSTANT loadaddr    \* address of the first instruction

ASSUME LoadAddrAssumption == loadaddr \in Nat

Regs == {"zero", "ax", "bx", "cx", "dx", "sp", "bp"}

\* Lines and operands, as the programs write them.
Var(v)            == [kind |-> "var", name |-> v]
Label(l)          == [kind |-> "label", name |-> l]
Ins(op, src, dst) == [kind |-> "ins", op |-> op, src |-> src, dst |-> dst]
I(n)              == [type |-> "imm", n |-> n]
R(r)              == [type |-> "reg", r |-> r]
M(n, r1, r2)      == [type |-> "mem", n |-> n, r1 |-> r1, r2 |-> r2]
V(v)              == [type |-> "var", name |-> v]
L(l)              == [type |-> "label", name |-> l]
None              == [type |-> "none"]

-----------------------------------------------------------------------------
\* A cpu is a record of PC, registers and conditions.  Memory is 0 until it is
\* stored to.
Read(m, a)     == IF a \in DOMAIN m THEN m[a] ELSE 0
Write(m, a, v) == [b \in DOMAIN m \cup {a} |-> IF b = a THEN v ELSE m[b]]

SetReg(c, r, v) == [c EXCEPT !.registers[r] = v]

Addr(o, c) == o.n + c.registers[o.r1] + c.registers[o.r2]

Value(o, c, m) ==
    CASE o.type = "imm" -> o.n
      [] o.type = "reg" -> c.registers[o.r]
      [] o.type = "mem" -> Read(m, Addr(o, c))

test_all(src, dst) ==
    [gt |-> dst > src, gte |-> dst >= src, lt |-> dst < src, lte |-> dst <= src,
     eq |-> dst = src, neq |-> dst # src]

no_conditions == [x \in {"gt", "gte", "lt", "lte", "eq", "neq"} |-> FALSE]

Taken(op, x) ==
    \/ op = "j"
    \/ op = "jne"  /\ x.neq
    \/ op = "je"   /\ x.eq
    \/ op = "jlt"  /\ x.lt
    \/ op = "jlte" /\ x.lte
    \/ op = "jgt"  /\ x.gt
    \/ op = "jgte" /\ x.gte

Jumps == {"j", "jne", "je", "jlt", "jlte", "jgt", "jgte"}

\* The cpu and the memory after an instruction; PC is past it already.
Exec(x, c, m) ==
    LET v   == Value(x.src, c, m)
        d   == x.dst.r
        sp  == c.registers["sp"]
        a   == Addr(x.dst, c)
        cpu(newc) == [cpu |-> newc, memory |-> m]
    IN  CASE x.op = "mov" /\ x.dst.type = "reg" -> cpu(SetReg(c, d, v))
          [] x.op = "mov" /\ x.dst.type = "mem" ->
               [cpu |-> c, memory |-> Write(m, a, v)]
          [] x.op = "add" -> cpu(SetReg(c, d, c.registers[d] + v))
          [] x.op = "sub" -> cpu(SetReg(c, d, c.registers[d] - v))
          [] x.op = "xchg" ->
               [cpu |-> SetReg(c, x.src.r, Read(m, a)), memory |-> Write(m, a, v)]
          [] x.op = "fetchadd" ->
               [cpu |-> SetReg(c, x.src.r, Read(m, a)),
                memory |-> Write(m, a, Read(m, a) + v)]
          [] x.op = "test" ->
               cpu([c EXCEPT !.conditions = test_all(v, Value(x.dst, c, m))])
          [] x.op \in Jumps ->
               cpu(IF Taken(x.op, c.conditions) THEN [c EXCEPT !.PC = v] ELSE c)
          [] x.op = "call" ->
               [cpu    |-> [SetReg(c, "sp", sp - 4) EXCEPT !.PC = v],
                memory |-> Write(m, sp - 4, c.PC)]
          [] x.op = "ret" -> cpu([SetReg(c, "sp", sp + 4) EXCEPT !.PC = Read(m, sp)])
          [] x.op = "push" /\ x.src.type = "reg" ->
               LET c2 == SetReg(c, "sp", sp - 4)
               IN  [cpu |-> c2, memory |-> Write(m, sp - 4, c2.registers[x.src.r])]
          [] x.op = "push" /\ x.src.type = "mem" ->    \* the address itself
               LET c2 == SetReg(c, "sp", sp - 4)
               IN  [cpu |-> c2, memory |-> Write(m, sp - 4, Addr(x.src, c2))]
          [] x.op = "pop" /\ x.dst.type = "none" -> cpu(SetReg(c, "sp", sp + 4))
          [] x.op = "pop" /\ x.dst.type = "reg" ->     \* the pointer, not what it points to
               LET c2 == SetReg(c, d, sp)
               IN  cpu(SetReg(c2, "sp", c2.registers["sp"] + 4))
          [] x.op \in {"nop", "halt", "yield", "rdump", "mdump"} -> cpu(c)

=============================================================================
