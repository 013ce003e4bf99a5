----------------------------- MODULE MCVectorAdd -----------------------------
(***************************************************************************)
(* Instances of VectorAdd for TLC.                                         *)
(***************************************************************************)
EXTENDS VectorAdd

AllOptions == [program : Programs, d : BOOLEAN, p : BOOLEAN]

\* vector-deadlock.c and vector-nolock.c promise nothing when threads that
\* share their vectors add them in opposite orders.
Promised ==
    {o \in AllOptions : o.program \in {"vector-deadlock", "vector-nolock"} => ~o.d \/ o.p}

=============================================================================
