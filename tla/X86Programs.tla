---------------------------- MODULE X86Programs ------------------------------
(***************************************************************************)
(* The assembly programs of the directory, line by line.                   *)
(***************************************************************************)
EXTENDS X86Load

\* %reg is R("reg"), $n is I(n), a variable is V("v"), an address M(...), a
\* label L(".l").
ax == R("ax")
bx == R("bx")
cx == R("cx")
dx == R("dx")

\* Mutant: the exchange is a load, as in flag.s.
test_and_set_s_mov ==
    << Var("mutex"), Var("count"), Label(".main"), Label(".top"), Label(".acquire"),
       Ins("mov", V("mutex"), ax), Ins("test", I(0), ax), Ins("jne", L(".acquire"), None),
       Ins("mov", I(1), V("mutex")),
       Ins("mov", V("count"), ax), Ins("add", I(1), ax), Ins("mov", ax, V("count")),
       Ins("mov", I(0), V("mutex")),
       Ins("sub", I(1), bx), Ins("test", I(0), bx), Ins("jgt", L(".top"), None),
       Ins("halt", None, None) >>

test_and_set_s ==
    << Var("mutex"), Var("count"), Label(".main"), Label(".top"), Label(".acquire"),
       Ins("mov", I(1), ax), Ins("xchg", ax, V("mutex")), Ins("test", I(0), ax),
       Ins("jne", L(".acquire"), None),
       Ins("mov", V("count"), ax), Ins("add", I(1), ax), Ins("mov", ax, V("count")),
       Ins("mov", I(0), V("mutex")),
       Ins("sub", I(1), bx), Ins("test", I(0), bx), Ins("jgt", L(".top"), None),
       Ins("halt", None, None) >>

test_and_test_and_set_s ==
    << Var("mutex"), Var("count"), Label(".main"), Label(".top"), Label(".acquire"),
       Ins("mov", V("mutex"), ax), Ins("test", I(0), ax), Ins("jne", L(".acquire"), None),
       Ins("mov", I(1), ax), Ins("xchg", ax, V("mutex")), Ins("test", I(0), ax),
       Ins("jne", L(".acquire"), None),
       Ins("mov", V("count"), ax), Ins("add", I(1), ax), Ins("mov", ax, V("count")),
       Ins("mov", I(0), V("mutex")),
       Ins("sub", I(1), bx), Ins("test", I(0), bx), Ins("jgt", L(".top"), None),
       Ins("halt", None, None) >>

\* Mutant: the turn is stored, not increased.
ticket_s_mov ==
    << Var("ticket"), Var("turn"), Var("count"), Label(".main"), Label(".top"), Label(".acquire"),
       Ins("mov", I(1), ax), Ins("fetchadd", ax, V("ticket")),
       Label(".tryagain"),
       Ins("mov", V("turn"), cx), Ins("test", cx, ax), Ins("jne", L(".tryagain"), None),
       Ins("mov", V("count"), ax), Ins("add", I(1), ax), Ins("mov", ax, V("count")),
       Ins("mov", I(1), ax), Ins("mov", ax, V("turn")),
       Ins("sub", I(1), bx), Ins("test", I(0), bx), Ins("jgt", L(".top"), None),
       Ins("halt", None, None) >>

ticket_s ==
    << Var("ticket"), Var("turn"), Var("count"), Label(".main"), Label(".top"), Label(".acquire"),
       Ins("mov", I(1), ax), Ins("fetchadd", ax, V("ticket")),
       Label(".tryagain"),
       Ins("mov", V("turn"), cx), Ins("test", cx, ax), Ins("jne", L(".tryagain"), None),
       Ins("mov", V("count"), ax), Ins("add", I(1), ax), Ins("mov", ax, V("count")),
       Ins("mov", I(1), ax), Ins("fetchadd", ax, V("turn")),
       Ins("sub", I(1), bx), Ins("test", I(0), bx), Ins("jgt", L(".top"), None),
       Ins("halt", None, None) >>

yield_s ==
    << Var("mutex"), Var("count"), Label(".main"), Label(".top"), Label(".acquire"),
       Ins("mov", I(1), ax), Ins("xchg", ax, V("mutex")), Ins("test", I(0), ax),
       Ins("je", L(".acquire_done"), None), Ins("yield", None, None),
       Ins("j", L(".acquire"), None), Label(".acquire_done"),
       Ins("mov", V("count"), ax), Ins("add", I(1), ax), Ins("mov", ax, V("count")),
       Ins("mov", I(0), V("mutex")),
       Ins("sub", I(1), bx), Ins("test", I(0), bx), Ins("jgt", L(".top"), None),
       Ins("halt", None, None) >>

value == M(2000, "zero", "zero")

wait_for_me_s ==
    << Label(".main"), Ins("test", I(1), ax), Ins("je", L(".signaller"), None),
       Label(".waiter"), Ins("mov", value, cx), Ins("test", I(1), cx),
       Ins("jne", L(".waiter"), None), Ins("halt", None, None),
       Label(".signaller"), Ins("mov", I(1), value), Ins("halt", None, None) >>

loop_s ==
    << Label(".main"), Label(".top"), Ins("sub", I(1), dx), Ins("test", I(0), dx),
       Ins("jgte", L(".top"), None), Ins("halt", None, None) >>

=============================================================================
