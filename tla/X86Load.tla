------------------------------- MODULE X86Load -------------------------------
(***************************************************************************)
(* x86.py, cpu.load: how the lines of a program become the instructions    *)
(* and addresses of memory.  Parsing the text of a line is left out.       *)
(***************************************************************************)
EXTENDS X86Isa

\* First pass: variables are 4 apart from 100 on, and a label is the address of
\* the instruction that follows it.
CountBefore(lines, k, kind) == Cardinality({j \in 1 .. k - 1 : lines[j].kind = kind})

LineOf(lines, kind, name) ==
    CHOOSE k \in 1 .. Len(lines) :
        /\ lines[k].kind = kind /\ lines[k].name = name
        /\ \A j \in k + 1 .. Len(lines) :
             ~(lines[j].kind = kind /\ lines[j].name = name)

var_addr(lines, v)   == 100 + 4 * CountBefore(lines, LineOf(lines, "var", v), "var")
label_addr(lines, l) == loadaddr + CountBefore(lines, LineOf(lines, "label", l), "ins")

\* Second pass: operands become addresses.
getarg(lines, o) ==
    CASE o.type = "var"   -> M(var_addr(lines, o.name), "zero", "zero")
      [] o.type = "label" -> I(label_addr(lines, o.name))
      [] OTHER            -> o

load(lines) ==
    LET code == {k \in 1 .. Len(lines) : lines[k].kind = "ins"}
        address(k) == loadaddr + CountBefore(lines, k, "ins")
    IN  [a \in {address(k) : k \in code} |->
           LET x == lines[CHOOSE k \in code : address(k) = a]
           IN  [op |-> x.op, src |-> getarg(lines, x.src), dst |-> getarg(lines, x.dst)]]

=============================================================================
