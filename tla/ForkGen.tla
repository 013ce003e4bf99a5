------------------------------- MODULE ForkGen -------------------------------
(***************************************************************************)
(* generator.py: programs of forks, waits and exits, written at random     *)
(* (ProgramGenerator) or by hand (Parser), the code CodeGeneratorRunnable  *)
(* makes of them, and the processes that run it.  Sleeping is left out:    *)
(* the processes run in any order.                                         *)
(***************************************************************************)
EXTENDS Integers, Sequences, SequencesExt, FiniteSets, FiniteSetsExt

CONSTANTS
    MaxActions,   \* bound: -n, or the forks and waits of -A; at most 3 * MaxForks
    MaxForks      \* bound: processes but the first; the script has 51 names

VARIABLES
    phase,        \* "write random", "write by hand", "generate", "run" or an end
    actions,
    need_wait,    \* children to wait for, on each level of forks; wait_count of Parser
    cg,           \* CodeGeneratorRunnable: next action, curr_thread, parent_list, waiting_for
    procs         \* processes by name

forkVars == <<phase, actions, need_wait, cg, procs>>

fork_level == Len(need_wait) - 1

Forks(prog) == Cardinality({i \in DOMAIN prog : prog[i] = "fork"})

ForkInit ==
    /\ phase \in {"write random", "write by hand"}
    /\ actions = <<>>
    /\ need_wait = <<0>>
    /\ cg = [next |-> 1, curr_thread |-> 0, parent_list |-> <<>>, waiting_for |-> [t \in {0} |-> <<>>]]
    /\ procs = <<>>

Adds(tokens) == actions' = actions \o tokens /\ UNCHANGED <<cg, procs>>

-----------------------------------------------------------------------------
(* Writing: each level of forks has its count, from 0 in.                  *)

Bump(counts, by) == [counts EXCEPT ![Len(counts)] = @ + by]

\* The command fork of both; processes are numbered as they are named.
add_fork_begin ==
    /\ phase \in {"write random", "write by hand"}
    /\ Len(actions) < MaxActions /\ Forks(actions) < MaxForks
    /\ need_wait' = Append(Bump(need_wait, 1), 0)
    /\ Adds(<<"fork">>)
    /\ UNCHANGED phase

\* ProgramGenerator waits for a child that is there.
add_wait ==
    /\ phase = "write random" /\ Len(actions) < MaxActions
    /\ Last(need_wait) > 0
    /\ need_wait' = Bump(need_wait, -1)
    /\ Adds(<<"wait">>)
    /\ UNCHANGED phase

\* Mutant: one wait too few.
Waits_fewer(n) == [k \in 1 .. n - 1 |-> "wait"]

Waits(n) == [k \in 1 .. n |-> "wait"]

\* clean_up, in an exit and, for each level, at the end.
clean_up ==
    /\ phase = "write random"
    /\ fork_level > 0 \/ Len(actions) >= MaxActions
    /\ need_wait' = IF fork_level > 0 THEN Front(need_wait) ELSE need_wait
    /\ Adds(Waits(Last(need_wait)) \o (IF fork_level > 0 THEN <<"exit">> ELSE <<>>))
    /\ phase' = IF fork_level > 0 THEN phase ELSE "generate"

\* Parser counts waits, but lets one precede its fork.
parse_wait ==
    /\ phase = "write by hand" /\ Len(actions) < MaxActions
    /\ need_wait' = Bump(need_wait, -1)
    /\ Adds(<<"wait">>)
    /\ UNCHANGED phase

parse_brace ==
    /\ phase = "write by hand"
    /\ phase' = IF fork_level = 0 \/ Last(need_wait) # 0 THEN "bad program" ELSE phase
    /\ need_wait' = IF fork_level = 0 THEN need_wait ELSE Front(need_wait)
    /\ Adds(<<"exit">>)

parse_end ==
    /\ phase = "write by hand"
    /\ phase' = IF need_wait[1] # 0 \/ fork_level > 0 THEN "bad program" ELSE "generate"
    /\ UNCHANGED <<actions, need_wait, cg, procs>>

-----------------------------------------------------------------------------
(* CodeGeneratorRunnable, one action at a time.                            *)

Name(prog, i) == Forks(SubSeq(prog, 1, i))

gen_fork ==
    LET child == Name(actions, cg.next)
        known == DOMAIN cg.waiting_for
    IN  cg' = [next |-> cg.next + 1,
               curr_thread |-> child,
               parent_list |-> Append(cg.parent_list, cg.curr_thread),
               waiting_for |-> [t \in known \cup {child} |->
                    IF t = child THEN <<>>
                    ELSE IF t = cg.curr_thread THEN Append(cg.waiting_for[t], child)
                    ELSE cg.waiting_for[t]]]

gen_wait == cg' = [cg EXCEPT !.next = @ + 1, !.waiting_for[cg.curr_thread] = Tail(@)]

gen_exit == cg' = [cg EXCEPT !.next = @ + 1, !.curr_thread = Last(cg.parent_list),
                             !.parent_list = Front(@)]

\* The error of add_exit, the pops from an empty list, and the end.
Fails ==
    LET waiting == cg.waiting_for[cg.curr_thread]
    IN  CASE actions[cg.next] = "exit" -> waiting # <<>> \/ cg.parent_list = <<>>
          [] actions[cg.next] = "wait" -> waiting = <<>>
          [] actions[cg.next] = "fork" -> FALSE

First == [pc |-> 1, state |-> "running", parent |-> -1, head |-> {}]

generate ==
    /\ phase = "generate"
    /\ IF cg.next > Len(actions)
       THEN phase' = "run" /\ procs' = [p \in {0} |-> First] /\ UNCHANGED cg
       ELSE IF Fails THEN phase' = "error" /\ UNCHANGED <<cg, procs>>
       ELSE /\ CASE actions[cg.next] = "fork" -> gen_fork
                 [] actions[cg.next] = "wait" -> gen_wait
                 [] actions[cg.next] = "exit" -> gen_exit
            /\ UNCHANGED <<phase, procs>>
    /\ UNCHANGED <<actions, need_wait>>

-----------------------------------------------------------------------------
(* The program: the code of a child is in the braces after its fork, and   *)
(* its parent goes on behind them, where it records the child's name.      *)

Closes(i) == Min({j \in i + 1 .. Len(actions) :
                    /\ actions[j] = "exit"
                    /\ LET inner == SubSeq(actions, i + 1, j - 1)
                       IN  Forks(inner) = Cardinality({k \in DOMAIN inner : inner[k] = "exit"})})

Does(p, command) ==
    /\ phase = "run"
    /\ procs[p].state = "running"
    /\ IF procs[p].pc > Len(actions) THEN command = "return" ELSE actions[procs[p].pc] = command

Children(p) == {c \in DOMAIN procs : procs[c].parent = p /\ procs[c].state # "reaped"}

\* The child has a copy of the names its parent has recorded.
Fork(p) ==
    /\ Does(p, "fork")
    /\ LET child == Name(actions, procs[p].pc)
       IN  procs' = [q \in DOMAIN procs \cup {child} |->
                IF q = child THEN [procs[p] EXCEPT !.pc = @ + 1, !.parent = p]
                ELSE IF q = p THEN [procs[p] EXCEPT !.pc = Closes(@) + 1, !.head = @ \cup {child}]
                ELSE procs[q]]
    /\ UNCHANGED phase

\* wait returns any child that has exited; its assert fails without children, and
\* Lookup's when the child has no name.
Wait(p) ==
    /\ Does(p, "wait")
    /\ IF Children(p) = {} THEN phase' = "assert failed" /\ UNCHANGED procs
       ELSE \E c \in Children(p) :
              /\ procs[c].state = "zombie"
              /\ procs' = [procs EXCEPT ![p].pc = @ + 1, ![c].state = "reaped"]
              /\ phase' = IF c \in procs[p].head THEN phase ELSE "assert failed"

End(p) ==
    /\ \/ Does(p, "exit")
       \/ Does(p, "return")
    /\ procs' = [procs EXCEPT ![p].state = "zombie"]
    /\ phase' = IF p = 0 THEN "done" ELSE phase

run == /\ \E p \in DOMAIN procs : Fork(p) \/ Wait(p) \/ End(p)
       /\ UNCHANGED <<actions, need_wait, cg>>

ForkStep ==
    \/ add_fork_begin \/ add_wait \/ clean_up
    \/ parse_wait \/ parse_brace \/ parse_end
    \/ generate \/ run

ForkFinished == phase \in {"done", "bad program", "error", "assert failed"} /\ UNCHANGED forkVars

-----------------------------------------------------------------------------
\* The earlier actions of the process that does action i.
Level(i) == Forks(SubSeq(actions, 1, i - 1)) - Cardinality({j \in 1 .. i - 1 : actions[j] = "exit"})
Own(i)   == {j \in 1 .. i - 1 : Level(j) = Level(i) /\ \A k \in j .. i : Level(k) >= Level(i)}

EarlyWait ==
    \E i \in {k \in DOMAIN actions : actions[k] = "wait"} :
        Cardinality({j \in Own(i) : actions[j] = "wait"}) >= Cardinality({j \in Own(i) : actions[j] = "fork"})

\* Code is generated for every program but one that Parser has let wait for a child
\* before it forks it.  A process that has ended has waited for all its children,
\* whichever order they ended in, and no wait finds nothing or a child without a
\* name.
ChildrenReaped ==
    /\ phase = "error" => EarlyWait
    /\ phase # "assert failed"
    /\ phase \in {"run", "done"} =>
         \A p \in DOMAIN procs : procs[p].state # "running" => Children(p) = {}
=============================================================================
