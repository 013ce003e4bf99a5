------------------------------ MODULE X86Suite -------------------------------
(***************************************************************************)
(* For TLC: the programs that a run loads, and their arguments.  TLC works *)
(* out a definition once, but what a .cfg gives a constant at each use:    *)
(* the .cfg names a definition that stands for another.                    *)
(***************************************************************************)
EXTENDS X86Locks, TLC

\* A function as a table.
Table(f) == f @@ <<>>

Locking  == Table([p \in Locks \cup {"wait-for-me"} |-> Table(load(Source[p]))])
Counting == Table([p \in {"loop"} |-> Table(load(Source[p]))])

LockPrograms == Locking
CountDown    == Counting

Few == [p \in DOMAIN program |-> CASE p = "loop" -> 1
                                   [] p \in {"test-and-set", "test-and-test-and-set"} -> 2
                                   [] OTHER -> 3]

\* The last thread of wait-for-me.s signals.
Args == [p \in DOMAIN program |->
            [t \in 0 .. numthreads[p] - 1 |->
                CASE p \in Locks -> [bx |-> loops]
                  [] p = "loop" -> [dx |-> loops]
                  [] p = "wait-for-me" -> [ax |-> IF t = numthreads[p] - 1 THEN 1 ELSE 0]]]

=============================================================================
