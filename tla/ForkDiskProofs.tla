--------------------------- MODULE ForkDiskProofs ---------------------------
(***************************************************************************)
(* generator.py, for any number of commands and forks: a program that is   *)
(* accepted gets its code, unless it waits for a child it has not forked;  *)
(* and whichever order its processes end in, each waits for all its        *)
(* children, and no wait finds nothing or a child without a name.          *)
(*   Commands are nested in braces.  What need_wait and the lists of the   *)
(* generator count, and the children of a process, are the forks without a *)
(* wait on the level of a command.                                         *)
(*                                                                         *)
(* raid-graphics.py, for lists of requests of any length: what is done and *)
(* what the copies of the requests leave to do add up to what was worked   *)
(* out at the start, after every disk of a tick; a read keeps one disk     *)
(* busy, and every copy is at what its disk does.                          *)
(*                                                                         *)
(* disk.py: while a request is served, the time it has taken, what is left *)
(* of its seek, the turn to its block and the block are its estimate.      *)
(***************************************************************************)
EXTENDS ForkGen, RaidAnim, DiskSim, WellFoundedInduction, FiniteSetTheorems, SequenceTheorems, TLAPS

\* Every set of natural numbers that is not empty has a least element.
LEMMA LeastExists ==
    ASSUME NEW S \in SUBSET Nat, S # {} PROVE \E x \in S : \A y \in S : x <= y
<1> DEFINE R == {ss \in Nat \X Nat : ss[1] < ss[2]}
<1>1. IsWellFoundedOn(R, Nat)
  BY NatLessThanWellFounded DEF OpToRel
<1>2. PICK x \in S : \A y \in S : ~ (<<y, x>> \in R)
  BY <1>1, WFMin
<1>3. ASSUME NEW y \in S PROVE x <= y
  <2>1. <<y, x>> \in Nat \X Nat /\ ~ (<<y, x>> \in R)
    BY <1>2
  <2>2. ~ (y < x)
    BY <2>1
  <2> QED BY <2>2
<1> QED BY <1>3

\* An image under a function that takes no value twice is as large as its domain.
LEMMA ImageSize ==
    ASSUME NEW S, IsFiniteSet(S), NEW f, f = [x \in S |-> f[x]],
           \A x, y \in S : f[x] = f[y] => x = y
    PROVE  Cardinality({f[x] : x \in S}) = Cardinality(S)
<1> DEFINE T == {f[x] : x \in S}
<1>1. f \in [S -> T]
  OBVIOUS
<1>2. f \in Surjection(S, T)
  BY <1>1 DEF Surjection
<1>3. f \in Injection(S, T)
  BY <1>1 DEF Injection, IsInjective
<1> QED
  BY <1>2, <1>3, FS_Surjection

-----------------------------------------------------------------------------
(* The invariant.                                                          *)

Commands == {"fork", "wait", "exit"}

Times(prog, command, S) == Cardinality({j \in S : prog[j] = command})

\* How deep command i is, and the commands before it of the level l that are in the
\* same braces as command i or around it.
Nest(prog, i) == Times(prog, "fork", 1 .. i - 1) - Times(prog, "exit", 1 .. i - 1)

Block(prog, i, l) == {j \in 1 .. i - 1 : Nest(prog, j) = l /\ \A k \in j .. i : Nest(prog, k) >= l}

Unwaited(prog, i, l) == Times(prog, "fork", Block(prog, i, l)) - Times(prog, "wait", Block(prog, i, l))

Last1 == Len(actions) + 1

\* Braces match, and a process waits for all its children before it exits.
Nested(prog) ==
    /\ prog \in Seq(Commands)
    /\ \A i \in 1 .. Len(prog) + 1 : Nest(prog, i) >= 0
    /\ \A i \in 1 .. Len(prog) :
         prog[i] = "exit" => Nest(prog, i) >= 1 /\ Unwaited(prog, i, Nest(prog, i)) = 0

\* The children to wait for are counted, on each level.
Counted(prog, counts) ==
    /\ Nested(prog) /\ counts \in Seq(Int)
    /\ Len(counts) = Nest(prog, Len(prog) + 1) + 1
    /\ \A l \in 1 .. Len(counts) : counts[l] = Unwaited(prog, Len(prog) + 1, l - 1)

Written ==
    /\ phase \in {"write random", "write by hand"} =>
         /\ Counted(actions, need_wait)
         /\ cg = [next |-> 1, curr_thread |-> 0, parent_list |-> <<>>, waiting_for |-> [t \in {0} |-> <<>>]]
    /\ phase = "write random" => \A l \in 1 .. Len(need_wait) : need_wait[l] >= 0
    /\ phase \in {"generate", "run", "done"} =>
         /\ Nested(actions)
         /\ Nest(actions, Last1) = 0 /\ Unwaited(actions, Last1, 0) = 0

\* The thread at command cg.next and those around it.
Around == Append(cg.parent_list, cg.curr_thread)

Named(i) == Times(actions, "fork", 1 .. i)

\* The list of a thread is as long as the number of its children to wait for.
Generated ==
    /\ phase \in {"generate", "run", "done"} =>
         \A i \in 1 .. cg.next - 1 : actions[i] = "wait" => Unwaited(actions, i, Nest(actions, i)) >= 1
    /\ phase = "generate" =>
         /\ DOMAIN cg = {"next", "curr_thread", "parent_list", "waiting_for"}
         /\ cg.next \in 1 .. Last1
         /\ cg.parent_list \in Seq(Nat) /\ cg.curr_thread \in Nat
         /\ Len(cg.parent_list) = Nest(actions, cg.next)
         /\ \A k \in DOMAIN Around : Around[k] <= Named(cg.next - 1) /\ \A m \in 1 .. k - 1 : Around[m] < Around[k]
         /\ cg.waiting_for \in [0 .. Named(cg.next - 1) -> Seq(Nat)]
         /\ \A k \in DOMAIN Around : Len(cg.waiting_for[Around[k]]) = Unwaited(actions, cg.next, k - 1)
    /\ phase \in {"run", "done"} => cg.next = Last1
    /\ phase = "error" => EarlyWait
    /\ phase # "assert failed"

\* The fork that made process p, and the level of its commands.
MadeBy(p) == IF p = 0 THEN 0 ELSE CHOOSE i \in DOMAIN actions : actions[i] = "fork" /\ Named(i) = p

LevelOf(p) == Nest(actions, MadeBy(p) + 1)

\* A process is within its braces, and has as many children as it has still to wait
\* for; the fork that made it is one of its parent's.
Placed(p) ==
    /\ procs[p].pc \in MadeBy(p) + 1 .. Last1
    /\ Nest(actions, procs[p].pc) = LevelOf(p)
    /\ \A k \in MadeBy(p) + 1 .. procs[p].pc : Nest(actions, k) >= LevelOf(p)
    /\ procs[p].state = "running" => Cardinality(Children(p)) = Unwaited(actions, procs[p].pc, LevelOf(p))
    /\ procs[p].state # "running" => Children(p) = {}
    /\ Children(p) \subseteq procs[p].head

MadeInside(p) ==
    LET q == procs[p].parent
    IN  /\ \E i \in DOMAIN actions : actions[i] = "fork" /\ Named(i) = p
        /\ q \in DOMAIN procs
        /\ MadeBy(p) \in MadeBy(q) + 1 .. procs[q].pc - 1
        /\ Nest(actions, MadeBy(p)) = LevelOf(q)

ProcsRun ==
    phase \in {"run", "done"} =>
        /\ DOMAIN procs \in SUBSET (0 .. Len(actions)) /\ 0 \in DOMAIN procs
        /\ procs \in [DOMAIN procs -> [pc : Int, state : {"running", "zombie", "reaped"},
                                       parent : Int, head : SUBSET Int]]
        /\ procs[0].parent = -1
        /\ \A p \in DOMAIN procs : Placed(p) /\ (p # 0 => MadeInside(p))

ForkInv == Written /\ Generated /\ ProcsRun

-----------------------------------------------------------------------------
(* Counting commands.                                                      *)

LEMMA TimesIs ==
    ASSUME NEW prog, NEW command, NEW S, IsFiniteSet(S), NEW x, x \notin S
    PROVE  /\ Times(prog, command, S) \in Nat
           /\ Times(prog, command, {}) = 0
           /\ Times(prog, command, S \cup {x}) = Times(prog, command, S) + (IF prog[x] = command THEN 1 ELSE 0)
<1> DEFINE T == {j \in S : prog[j] = command}
<1>1. IsFiniteSet(T) /\ Cardinality(T) \in Nat
  <2>1. T \in SUBSET S
    OBVIOUS
  <2> HIDE DEF T
  <2> QED BY <2>1, FS_Subset, FS_CardinalityType
<1>2. Times(prog, command, {}) = 0
  <2>1. {j \in {} : prog[j] = command} = {}
    OBVIOUS
  <2> QED BY <2>1, FS_EmptySet DEF Times
<1>3. Times(prog, command, S \cup {x}) = Times(prog, command, S) + (IF prog[x] = command THEN 1 ELSE 0)
  <2> DEFINE U == {j \in S \cup {x} : prog[j] = command}
  <2>1. U = IF prog[x] = command THEN T \cup {x} ELSE T
    OBVIOUS
  <2>2. Cardinality(T \cup {x}) = Cardinality(T) + 1
    <3>1. x \notin T
      OBVIOUS
    <3> HIDE DEF T
    <3> QED BY <1>1, <3>1, FS_AddElement
  <2>3. Times(prog, command, S \cup {x}) = Cardinality(U) /\ Times(prog, command, S) = Cardinality(T)
    BY DEF Times
  <2> HIDE DEF T, U
  <2> QED BY <1>1, <2>1, <2>2, <2>3
<1> QED BY <1>1, <1>2, <1>3 DEF Times

LEMMA TimesPlus ==
    ASSUME NEW prog, NEW command, NEW a \in Nat, NEW b \in Nat, a <= b
    PROVE  Times(prog, command, 1 .. b) = Times(prog, command, 1 .. a) + Times(prog, command, a + 1 .. b)
<1> DEFINE All  == {j \in 1 .. b : prog[j] = command}
           Low  == {j \in 1 .. a : prog[j] = command}
           High == {j \in a + 1 .. b : prog[j] = command}
<1>1. All = Low \cup High /\ Low \cap High = {} /\ Low \in SUBSET (1 .. b) /\ High \in SUBSET (1 .. b)
  OBVIOUS
<1>2. IsFiniteSet(1 .. b)
  BY FS_Interval
<1>3. /\ Times(prog, command, 1 .. b) = Cardinality(All) /\ Times(prog, command, 1 .. a) = Cardinality(Low)
      /\ Times(prog, command, a + 1 .. b) = Cardinality(High)
  BY DEF Times
<1> HIDE DEF All, Low, High
<1>4. IsFiniteSet(Low) /\ IsFiniteSet(High)
  BY <1>1, <1>2, FS_Subset
<1>5. Cardinality(All) = Cardinality(Low) + Cardinality(High) - Cardinality({})
  BY <1>1, <1>4, FS_Union
<1>6. Cardinality(Low) \in Nat /\ Cardinality(High) \in Nat /\ Cardinality({}) = 0
  BY <1>4, FS_CardinalityType, FS_EmptySet
<1> QED BY <1>3, <1>5, <1>6

\* What a part of a program has of a command.
LEMMA TimesOfPart ==
    ASSUME NEW prog \in Seq(Commands), NEW command, NEW a \in Nat \ {0}, NEW b \in Nat, b <= Len(prog)
    PROVE  LET part == SubSeq(prog, a, b)
           IN  Times(part, command, DOMAIN part) = Times(prog, command, a .. b)
<1> DEFINE part == SubSeq(prog, a, b)
           D == {k \in DOMAIN part : part[k] = command}
           R == {j \in a .. b : prog[j] = command}
           f == [k \in D |-> k + a - 1]
<1>1. DOMAIN part = 1 .. (IF a <= b THEN b - a + 1 ELSE 0) /\ \A k \in DOMAIN part : part[k] = prog[k + a - 1]
  OBVIOUS
<1>2. D \in SUBSET Int /\ IsFiniteSet(D)
  <2> DEFINE m == IF a <= b THEN b - a + 1 ELSE 0
  <2>1. m \in Nat
    OBVIOUS
  <2>2. DOMAIN part = 1 .. m /\ D \in SUBSET DOMAIN part
    BY <1>1
  <2> HIDE DEF m, D, part
  <2>3. IsFiniteSet(1 .. m)
    BY <2>1, FS_Interval
  <2>4. D \in SUBSET (1 .. m)
    BY <2>2
  <2>5. IsFiniteSet(D)
    BY <2>3, <2>4, FS_Subset
  <2> QED BY <2>1, <2>4, <2>5
<1>3. \A k \in D : k + a - 1 \in R
  BY <1>1
<1>4. \A j \in R : j - a + 1 \in D /\ (j - a + 1) + a - 1 = j
  BY <1>1
<1>5. R = {f[k] : k \in D}
  <2>1. \A k \in D : f[k] = k + a - 1
    OBVIOUS
  <2> HIDE DEF D, R, f
  <2> QED BY <1>3, <1>4, <2>1
<1>6. f = [k \in D |-> f[k]] /\ \A k, m \in D : f[k] = f[m] => k = m
  <2>1. \A k \in D : f[k] = k + a - 1
    OBVIOUS
  <2>2. f = [k \in D |-> f[k]]
    OBVIOUS
  <2> HIDE DEF D, R, f
  <2> QED BY <1>2, <2>1, <2>2
<1>8. Cardinality(D) = Cardinality(R)
  <2> HIDE DEF D, R, f
  <2> QED BY <1>2, <1>5, <1>6, ImageSize
<1> QED BY <1>8 DEF Times

LEMMA ForksAre == ASSUME NEW prog PROVE Forks(prog) = Times(prog, "fork", DOMAIN prog)
BY DEF Forks, Times

-----------------------------------------------------------------------------
(* Levels.                                                                 *)

LEMMA NestStep ==
    ASSUME NEW prog, NEW i \in Nat \ {0}
    PROVE  /\ Nest(prog, i) \in Int /\ Nest(prog, 1) = 0
           /\ Nest(prog, i + 1) = Nest(prog, i) + (CASE prog[i] = "fork" -> 1 [] prog[i] = "exit" -> -1 [] OTHER -> 0)
<1> DEFINE S == 1 .. i - 1
<1>1. S \in SUBSET (1 .. i) /\ i \notin S /\ 1 .. (i + 1) - 1 = S \cup {i} /\ 1 .. 1 - 1 = {} /\ i \in Nat
  OBVIOUS
<1>2. /\ Nest(prog, i) = Times(prog, "fork", S) - Times(prog, "exit", S)
      /\ Nest(prog, i + 1) = Times(prog, "fork", S \cup {i}) - Times(prog, "exit", S \cup {i})
      /\ Nest(prog, 1) = Times(prog, "fork", {}) - Times(prog, "exit", {})
  BY <1>1 DEF Nest
<1>0. IsFiniteSet(S)
  BY FS_Interval
<1> HIDE DEF S
<1>3. /\ Times(prog, "fork", S) \in Nat /\ Times(prog, "fork", {}) = 0
      /\ Times(prog, "fork", S \cup {i}) = Times(prog, "fork", S) + (IF prog[i] = "fork" THEN 1 ELSE 0)
  BY <1>0, <1>1, TimesIs
<1>4. /\ Times(prog, "exit", S) \in Nat /\ Times(prog, "exit", {}) = 0
      /\ Times(prog, "exit", S \cup {i}) = Times(prog, "exit", S) + (IF prog[i] = "exit" THEN 1 ELSE 0)
  BY <1>0, <1>1, TimesIs
<1> QED BY <1>2, <1>3, <1>4

LEMMA BlockStep ==
    ASSUME NEW prog, NEW i \in Nat \ {0}, NEW l \in Int
    PROVE  /\ Block(prog, 1, l) = {} /\ Block(prog, i, l) \in SUBSET (1 .. i - 1)
           /\ Nest(prog, i + 1) >= l =>
                Block(prog, i + 1, l) = IF Nest(prog, i) = l THEN Block(prog, i, l) \cup {i} ELSE Block(prog, i, l)
           /\ Nest(prog, i) < l => Block(prog, i + 1, l) = {}
<1>1. Block(prog, 1, l) = {} /\ Block(prog, i, l) \in SUBSET (1 .. i - 1)
  BY DEF Block
<1>2. Nest(prog, i) \in Int /\ Nest(prog, i + 1) \in Int
  BY NestStep
<1>3. ASSUME Nest(prog, i) < l PROVE Block(prog, i + 1, l) = {}
  <2> SUFFICES ASSUME NEW j \in 1 .. i, \A k \in j .. i + 1 : Nest(prog, k) >= l PROVE FALSE
    BY DEF Block
  <2>1. i \in j .. i + 1
    OBVIOUS
  <2> QED BY <1>2, <1>3, <2>1
<1>4. ASSUME Nest(prog, i + 1) >= l
      PROVE  Block(prog, i + 1, l) = IF Nest(prog, i) = l THEN Block(prog, i, l) \cup {i} ELSE Block(prog, i, l)
  <2>1. ASSUME NEW j \in 1 .. i
        PROVE  (\A k \in j .. i + 1 : Nest(prog, k) >= l) <=> (\A k \in j .. i : Nest(prog, k) >= l)
    <3>1. j .. i + 1 = (j .. i) \cup {i + 1}
      OBVIOUS
    <3> QED BY <1>4, <3>1
  <2>2. (\A k \in i .. i : Nest(prog, k) >= l) <=> Nest(prog, i) >= l
    OBVIOUS
  <2>3. 1 .. i = (1 .. i - 1) \cup {i} /\ i \notin 1 .. i - 1 /\ 1 .. (i + 1) - 1 = 1 .. i
    OBVIOUS
  <2>4. Block(prog, i + 1, l) = {j \in 1 .. i : Nest(prog, j) = l /\ \A k \in j .. i : Nest(prog, k) >= l}
    BY <2>1, <2>3 DEF Block
  <2> QED BY <1>2, <2>2, <2>3, <2>4 DEF Block
<1> QED BY <1>1, <1>3, <1>4

LEMMA UnwaitedStep ==
    ASSUME NEW prog, NEW i \in Nat \ {0}, NEW l \in Int
    PROVE  /\ Unwaited(prog, 1, l) = 0 /\ Unwaited(prog, i, l) \in Int
           /\ Nest(prog, i + 1) >= l =>
                Unwaited(prog, i + 1, l) = Unwaited(prog, i, l)
                   + (IF Nest(prog, i) = l THEN (CASE prog[i] = "fork" -> 1 [] prog[i] = "wait" -> -1 [] OTHER -> 0)
                                           ELSE 0)
           /\ Nest(prog, i) < l => Unwaited(prog, i + 1, l) = 0
<1> DEFINE B == Block(prog, i, l)
<1>1. /\ Block(prog, 1, l) = {} /\ B \in SUBSET (1 .. i) /\ i \notin B /\ i \in Nat
      /\ Nest(prog, i + 1) >= l => Block(prog, i + 1, l) = IF Nest(prog, i) = l THEN B \cup {i} ELSE B
      /\ Nest(prog, i) < l => Block(prog, i + 1, l) = {}
  <2>1. B \in SUBSET (1 .. i - 1)
    BY BlockStep
  <2> QED BY <2>1, BlockStep
<1>2. /\ Unwaited(prog, i, l) = Times(prog, "fork", B) - Times(prog, "wait", B)
      /\ Unwaited(prog, 1, l) = Times(prog, "fork", {}) - Times(prog, "wait", {})
      /\ Nest(prog, i + 1) >= l => Unwaited(prog, i + 1, l) =
            IF Nest(prog, i) = l THEN Times(prog, "fork", B \cup {i}) - Times(prog, "wait", B \cup {i})
            ELSE Times(prog, "fork", B) - Times(prog, "wait", B)
      /\ Nest(prog, i) < l => Unwaited(prog, i + 1, l) = Times(prog, "fork", {}) - Times(prog, "wait", {})
  BY <1>1 DEF Unwaited
<1> HIDE DEF B
<1>0. IsFiniteSet(B)
  <2>1. IsFiniteSet(1 .. i)
    BY FS_Interval
  <2> QED BY <1>1, <2>1, FS_Subset
<1>5. i \notin B
  BY <1>1
<1>3. /\ Times(prog, "fork", B) \in Nat /\ Times(prog, "fork", {}) = 0
      /\ Times(prog, "fork", B \cup {i}) = Times(prog, "fork", B) + (IF prog[i] = "fork" THEN 1 ELSE 0)
  BY <1>0, <1>5, TimesIs
<1>4. /\ Times(prog, "wait", B) \in Nat /\ Times(prog, "wait", {}) = 0
      /\ Times(prog, "wait", B \cup {i}) = Times(prog, "wait", B) + (IF prog[i] = "wait" THEN 1 ELSE 0)
  BY <1>0, <1>5, TimesIs
<1> QED BY <1>2, <1>3, <1>4

\* What two programs have in common.
Alike(p, q, n) == \A j \in 1 .. n : p[j] = q[j]

LEMMA AlikeIs ==
    ASSUME NEW p, NEW q, NEW n \in Nat, Alike(p, q, n), NEW i \in 1 .. n + 1, NEW l
    PROVE  Nest(p, i) = Nest(q, i) /\ Unwaited(p, i, l) = Unwaited(q, i, l)
<1>1. ASSUME NEW S \in SUBSET (1 .. n), NEW command PROVE Times(p, command, S) = Times(q, command, S)
  <2>1. {j \in S : p[j] = command} = {j \in S : q[j] = command}
    BY DEF Alike
  <2> QED BY <2>1 DEF Times
<1>2. ASSUME NEW k \in 1 .. n + 1 PROVE Nest(p, k) = Nest(q, k)
  <2>1. 1 .. k - 1 \in SUBSET (1 .. n)
    OBVIOUS
  <2> QED BY <1>1, <2>1 DEF Nest
<1>3. Block(p, i, l) = Block(q, i, l)
  <2>1. ASSUME NEW j \in 1 .. i - 1
        PROVE  (Nest(p, j) = l /\ \A k \in j .. i : Nest(p, k) >= l)
                  <=> (Nest(q, j) = l /\ \A k \in j .. i : Nest(q, k) >= l)
    <3>1. j \in 1 .. n + 1 /\ \A k \in j .. i : k \in 1 .. n + 1
      OBVIOUS
    <3> QED BY <1>2, <3>1
  <2> QED BY <2>1 DEF Block
<1>4. Block(p, i, l) \in SUBSET (1 .. n)
  BY DEF Block
<1> QED BY <1>1, <1>2, <1>3, <1>4 DEF Unwaited

LEMMA Numbers ==
    ASSUME actions \in Seq(Commands)
    PROVE  /\ \A i \in 0 .. Len(actions) : Name(actions, i) = Named(i) /\ Named(i) \in 0 .. i
           /\ Named(0) = 0
           /\ \A i \in 1 .. Len(actions) : Named(i) = Named(i - 1) + (IF actions[i] = "fork" THEN 1 ELSE 0)
           /\ \A i, j \in 0 .. Len(actions) : i <= j => Named(i) <= Named(j)
           /\ \A i, j \in DOMAIN actions : i < j /\ actions[j] = "fork" => Named(i) < Named(j)
<1>0. Len(actions) \in Nat /\ DOMAIN actions = 1 .. Len(actions)
  OBVIOUS
<1>1. ASSUME NEW i \in 0 .. Len(actions) PROVE Name(actions, i) = Named(i)
  <2>1. 1 \in Nat \ {0} /\ i \in Nat /\ i <= Len(actions)
    OBVIOUS
  <2>2. Times(SubSeq(actions, 1, i), "fork", DOMAIN SubSeq(actions, 1, i)) = Times(actions, "fork", 1 .. i)
    BY <2>1, TimesOfPart
  <2> QED BY <2>2, ForksAre DEF Name, Named
<1>2. ASSUME NEW a \in Nat, NEW b \in Nat PROVE Times(actions, "fork", a .. b) \in Nat
  <2>1. IsFiniteSet(a .. b) /\ b + 1 \notin a .. b
    BY FS_Interval
  <2> QED BY <2>1, TimesIs
<1>3. Named(0) = 0
  <2>1. {j \in 1 .. 0 : actions[j] = "fork"} = {}
    OBVIOUS
  <2> QED BY <2>1, FS_EmptySet DEF Named, Times
<1>4. ASSUME NEW i \in 1 .. Len(actions)
      PROVE  Named(i) = Named(i - 1) + (IF actions[i] = "fork" THEN 1 ELSE 0)
  <2>1. 1 .. i = (1 .. i - 1) \cup {i} /\ i \notin 1 .. i - 1 /\ i - 1 \in Int
    BY <1>0
  <2> DEFINE S == 1 .. i - 1
  <2>2. IsFiniteSet(S)
    BY <2>1, FS_Interval
  <2>3. Named(i) = Times(actions, "fork", S \cup {i}) /\ Named(i - 1) = Times(actions, "fork", S)
    BY <2>1 DEF Named
  <2>4. i \notin S
    BY <2>1
  <2> HIDE DEF S
  <2>5. Times(actions, "fork", S \cup {i}) = Times(actions, "fork", S) + (IF actions[i] = "fork" THEN 1 ELSE 0)
    BY <2>2, <2>4, TimesIs
  <2> QED BY <2>3, <2>5
<1>5. ASSUME NEW i \in 0 .. Len(actions), NEW j \in 0 .. Len(actions), i <= j PROVE Named(i) <= Named(j)
  <2>1. Named(j) = Named(i) + Times(actions, "fork", i + 1 .. j)
    BY <1>5, TimesPlus DEF Named
  <2>2. Named(i) \in Nat /\ Times(actions, "fork", i + 1 .. j) \in Nat
    <3>1. 1 \in Nat /\ i \in Nat /\ i + 1 \in Nat /\ j \in Nat
      BY <1>0
    <3> QED BY <1>2, <3>1 DEF Named
  <2> QED BY <2>1, <2>2
<1>6. ASSUME NEW i \in 0 .. Len(actions) PROVE Named(i) \in 0 .. i
  <2> DEFINE S == {j \in 1 .. i : actions[j] = "fork"}
  <2>1. IsFiniteSet(1 .. i) /\ Cardinality(1 .. i) = i
    BY FS_Interval
  <2>2. S \in SUBSET (1 .. i) /\ Named(i) = Cardinality(S)
    BY DEF Named, Times
  <2> HIDE DEF S
  <2>3. Cardinality(S) <= i /\ Cardinality(S) \in Nat
    BY <2>1, <2>2, FS_Subset, FS_CardinalityType
  <2> QED BY <2>2, <2>3
<1>7. ASSUME NEW i \in DOMAIN actions, NEW j \in DOMAIN actions, i < j, actions[j] = "fork"
      PROVE  Named(i) < Named(j)
  <2>1. i \in 0 .. Len(actions) /\ j - 1 \in 0 .. Len(actions) /\ j \in 1 .. Len(actions) /\ i <= j - 1
    BY <1>7
  <2>2. Named(i) \in Int /\ Named(j - 1) \in Int /\ Named(i) <= Named(j - 1) /\ Named(j) = Named(j - 1) + 1
    BY <1>4, <1>5, <1>6, <1>7, <2>1
  <2> QED BY <2>2
<1> QED BY <1>1, <1>3, <1>4, <1>5, <1>6, <1>7

LEMMA LevelIs ==
    ASSUME actions \in Seq(Commands), NEW i \in DOMAIN actions
    PROVE  /\ Level(i) = Nest(actions, i) /\ Own(i) = Block(actions, i, Nest(actions, i))
<1>1. ASSUME NEW j \in 1 .. Len(actions) PROVE Level(j) = Nest(actions, j)
  <2>1. 1 \in Nat \ {0} /\ j - 1 \in Nat /\ j - 1 <= Len(actions)
    OBVIOUS
  <2>2. Forks(SubSeq(actions, 1, j - 1)) = Times(actions, "fork", 1 .. j - 1)
    <3>1. Times(SubSeq(actions, 1, j - 1), "fork", DOMAIN SubSeq(actions, 1, j - 1)) = Times(actions, "fork", 1 .. j - 1)
      BY <2>1, TimesOfPart
    <3> QED BY <3>1, ForksAre
  <2>3. Cardinality({m \in 1 .. j - 1 : actions[m] = "exit"}) = Times(actions, "exit", 1 .. j - 1)
    BY DEF Times
  <2> QED BY <2>2, <2>3 DEF Level, Nest
<1>2. ASSUME NEW j \in 1 .. i - 1
      PROVE  (Level(j) = Level(i) /\ \A k \in j .. i : Level(k) >= Level(i)) <=>
             (Nest(actions, j) = Nest(actions, i) /\ \A k \in j .. i : Nest(actions, k) >= Nest(actions, i))
  <2>1. i \in 1 .. Len(actions) /\ j \in 1 .. Len(actions) /\ \A k \in j .. i : k \in 1 .. Len(actions)
    OBVIOUS
  <2> QED BY <1>1, <2>1
<1> QED BY <1>1, <1>2 DEF Own, Block

\* The braces of a fork.
Braces(i, j) ==
    /\ j \in i + 1 .. Len(actions) /\ actions[j] = "exit"
    /\ Nest(actions, j) = Nest(actions, i) + 1 /\ Nest(actions, j + 1) = Nest(actions, i)
    /\ \A k \in i + 1 .. j : Nest(actions, k) >= Nest(actions, i) + 1

LEMMA ClosesIs ==
    ASSUME actions \in Seq(Commands), Nest(actions, Len(actions) + 1) = 0,
           NEW i \in DOMAIN actions, actions[i] = "fork", Nest(actions, i) >= 0
    PROVE  Braces(i, Closes(i))
<1> DEFINE n == Len(actions)
           h == Nest(actions, i)
           S == {j \in i + 1 .. n : Nest(actions, j + 1) <= h}
<1>0. n \in Nat /\ i \in 1 .. n
  OBVIOUS
<1>1. \A j \in 1 .. n + 1 : Nest(actions, j) \in Int
  BY <1>0, NestStep
<1>2. Nest(actions, i + 1) = h + 1
  BY <1>0, NestStep
<1>3. ASSUME NEW j \in 1 .. n
      PROVE  /\ Nest(actions, j + 1) >= Nest(actions, j) - 1
             /\ Nest(actions, j + 1) = Nest(actions, j) - 1 <=> actions[j] = "exit"
  <2>1. j \in Nat \ {0} /\ Nest(actions, j) \in Int
    BY <1>0, <1>1
  <2>2. Nest(actions, j + 1) = Nest(actions, j)
                + (CASE actions[j] = "fork" -> 1 [] actions[j] = "exit" -> -1 [] OTHER -> 0)
    BY <2>1, NestStep
  <2> HIDE DEF n
  <2> QED BY <2>1, <2>2
<1>4. n \in S
  <2>1. i # n
    BY <1>0, <1>1, <1>2
  <2> QED BY <1>0, <1>1, <2>1
<1>5. S \in SUBSET Nat
  BY <1>0
<1>6. PICK c \in S : \A j \in S : c <= j
  <2> HIDE DEF S
  <2> QED BY <1>4, <1>5, LeastExists
<1>7. c \in i + 1 .. n /\ Nest(actions, c + 1) <= h
  BY <1>6
<1>8. ASSUME NEW k \in i + 1 .. c PROVE Nest(actions, k) >= h + 1
  <2>1. CASE k = i + 1
    BY <1>0, <1>1, <1>2, <2>1
  <2>2. CASE k # i + 1
    <3>1. k - 1 \in i + 1 .. n /\ ~(c <= k - 1) /\ (k - 1) + 1 = k /\ k \in 1 .. n
      BY <1>0, <1>7, <2>2
    <3>2. k - 1 \notin S
      <4> HIDE DEF S
      <4> QED BY <1>6, <3>1
    <3>3. ~(Nest(actions, k) <= h)
      BY <3>1, <3>2
    <3> QED BY <1>0, <1>1, <3>1, <3>3
  <2> QED BY <2>1, <2>2
<1>9. actions[c] = "exit" /\ Nest(actions, c) = h + 1 /\ Nest(actions, c + 1) = h
  <2>1. c \in 1 .. n /\ c + 1 \in 1 .. n + 1 /\ c \in i + 1 .. c /\ i \in 1 .. n + 1
    BY <1>0, <1>7
  <2>2. Nest(actions, c) >= h + 1 /\ Nest(actions, c + 1) >= Nest(actions, c) - 1
    BY <1>3, <1>8, <2>1
  <2>3. Nest(actions, c) \in Int /\ Nest(actions, c + 1) \in Int /\ h \in Int
    BY <1>1, <2>1
  <2>4. Nest(actions, c) = h + 1 /\ Nest(actions, c + 1) = h /\ Nest(actions, c + 1) = Nest(actions, c) - 1
    BY <1>7, <2>2, <2>3
  <2> QED BY <1>3, <2>1, <2>4
<1> DEFINE M == {j \in i + 1 .. Len(actions) :
                    /\ actions[j] = "exit"
                    /\ LET inner == SubSeq(actions, i + 1, j - 1)
                       IN  Forks(inner) = Cardinality({k \in DOMAIN inner : inner[k] = "exit"})}
<1>10. ASSUME NEW j \in i + 1 .. n
       PROVE  j \in M <=> actions[j] = "exit" /\ Nest(actions, j) = h + 1
  <2>1. i + 1 \in Nat \ {0} /\ j - 1 \in Nat /\ j - 1 <= Len(actions) /\ i \in Nat /\ i <= j - 1
    BY <1>0
  <2> DEFINE F == Times(actions, "fork", i + 1 .. j - 1)
             E == Times(actions, "exit", i + 1 .. j - 1)
  <2>2. j \in M <=> actions[j] = "exit" /\ F = E
    <3> DEFINE inner == SubSeq(actions, i + 1, j - 1)
    <3>1. Times(inner, "fork", DOMAIN inner) = F /\ Times(inner, "exit", DOMAIN inner) = E
      BY <2>1, TimesOfPart
    <3>3. /\ Forks(inner) = Times(inner, "fork", DOMAIN inner)
          /\ Cardinality({k \in DOMAIN inner : inner[k] = "exit"}) = Times(inner, "exit", DOMAIN inner)
      BY ForksAre DEF Times
    <3>2. j \in M <=> actions[j] = "exit" /\ Forks(inner) = Cardinality({k \in DOMAIN inner : inner[k] = "exit"})
      OBVIOUS
    <3> HIDE DEF inner, F, E, M
    <3> QED BY <3>1, <3>2, <3>3
  <2>3. /\ Times(actions, "fork", 1 .. j - 1) = Times(actions, "fork", 1 .. i) + F
        /\ Times(actions, "exit", 1 .. j - 1) = Times(actions, "exit", 1 .. i) + E
    BY <2>1, TimesPlus
  <2>4. /\ Times(actions, "fork", 1 .. i) \in Nat /\ F \in Nat
        /\ Times(actions, "exit", 1 .. i) \in Nat /\ E \in Nat
    <3>1. /\ IsFiniteSet(1 .. i) /\ i + 1 \notin 1 .. i
          /\ IsFiniteSet(i + 1 .. j - 1) /\ j \notin i + 1 .. j - 1
      <4>1. i \in Int /\ i + 1 \in Int /\ j - 1 \in Int /\ j \in Int
        BY <1>0
      <4>2. IsFiniteSet(1 .. i)
        BY <4>1, FS_Interval
      <4>3. IsFiniteSet(i + 1 .. j - 1)
        BY <4>1, FS_Interval
      <4> QED BY <4>1, <4>2, <4>3
    <3> QED BY <3>1, TimesIs
  <2>5. /\ Nest(actions, j) = Times(actions, "fork", 1 .. j - 1) - Times(actions, "exit", 1 .. j - 1)
        /\ h + 1 = Times(actions, "fork", 1 .. i) - Times(actions, "exit", 1 .. i)
    <3>1. (i + 1) - 1 = i
      BY <1>0
    <3> QED BY <1>2, <3>1 DEF Nest
  <2> HIDE DEF F, E, M, h
  <2> QED BY <2>2, <2>3, <2>4, <2>5
<1>11. c \in M /\ \A j \in M : c <= j
  <2>1. c \in M
    BY <1>7, <1>9, <1>10
  <2>2. ASSUME NEW j \in M PROVE c <= j
    <3>1. j \in i + 1 .. n
      OBVIOUS
    <3>2. actions[j] = "exit" /\ Nest(actions, j) = h + 1
      <4> HIDE DEF M, h
      <4> QED BY <1>10, <2>2, <3>1
    <3>3. Nest(actions, j + 1) = h
      BY <1>0, <1>1, <1>3, <3>1, <3>2
    <3>4. j \in S
      <4>1. h \in Int
        BY <1>0, <1>1
      <4> HIDE DEF h
      <4>2. Nest(actions, j + 1) <= h
        BY <3>3, <4>1
      <4> QED BY <3>1, <4>2
    <3> QED BY <1>6, <3>4
  <2> QED BY <2>1, <2>2
<1>12. Closes(i) = c
  <2>1. Closes(i) = Min(M)
    BY DEF Closes
  <2>2. M \in SUBSET Int
    BY <1>0
  <2>3. Min(M) = CHOOSE x \in M : \A y \in M : x <= y
    BY DEF Min
  <2> HIDE DEF M
  <2>4. Min(M) \in M /\ \A y \in M : Min(M) <= y
    BY <1>11, <2>3
  <2>5. Min(M) <= c /\ c <= Min(M) /\ Min(M) \in Int /\ c \in Int
    BY <1>11, <2>2, <2>4
  <2> QED BY <2>1, <2>5
<1> QED BY <1>7, <1>8, <1>9, <1>12 DEF Braces

-----------------------------------------------------------------------------
(* Writing.                                                                *)

LEMMA SameElements ==
    ASSUME NEW E, NEW s \in Seq(E), NEW t \in Seq(E), Len(s) = Len(t), \A j \in 1 .. Len(t) : s[j] = t[j]
    PROVE  s = t
OBVIOUS

LEMMA CountedFacts ==
    ASSUME NEW prog, NEW counts, Counted(prog, counts)
    PROVE  /\ prog \in Seq(Commands) /\ Len(prog) \in Nat /\ counts \in Seq(Int) /\ Len(counts) \in Nat \ {0}
           /\ Last(counts) = counts[Len(counts)] /\ Last(counts) \in Int
           /\ Nest(prog, Len(prog) + 1) = Len(counts) - 1
<1>1. prog \in Seq(Commands) /\ Len(prog) \in Nat /\ counts \in Seq(Int) /\ Len(counts) \in Nat
  BY DEF Counted, Nested
<1>2. Nest(prog, Len(prog) + 1) >= 0 /\ Len(counts) = Nest(prog, Len(prog) + 1) + 1
  BY <1>1 DEF Counted, Nested
<1>3. Nest(prog, Len(prog) + 1) \in Int
  BY <1>1, NestStep
<1>4. Len(counts) \in Nat \ {0} /\ Nest(prog, Len(prog) + 1) = Len(counts) - 1
  BY <1>1, <1>2, <1>3
<1>5. Last(counts) = counts[Len(counts)] /\ counts[Len(counts)] \in Int
  BY <1>1, <1>4 DEF Last
<1> QED BY <1>1, <1>4, <1>5

LEMMA OneCommand ==
    ASSUME NEW prog, NEW counts, Counted(prog, counts), NEW command \in Commands
    PROVE  LET more == prog \o <<command>>
               n    == Len(prog)
           IN  /\ more \in Seq(Commands) /\ Len(more) = n + 1 /\ more[n + 1] = command
               /\ \A i \in 1 .. n : more[i] = prog[i]
               /\ \A i \in 1 .. n + 1 : \A l : Nest(more, i) = Nest(prog, i) /\ Unwaited(more, i, l) = Unwaited(prog, i, l)
               /\ Nest(more, n + 2) = Len(counts) - 1 + (CASE command = "fork" -> 1 [] command = "exit" -> -1 [] OTHER -> 0)
               /\ \A l \in 1 .. Len(counts) : l - 1 <= Nest(more, n + 2) =>
                    Unwaited(more, n + 2, l - 1) = counts[l]
                       + (IF l = Len(counts)
                          THEN (CASE command = "fork" -> 1 [] command = "wait" -> -1 [] OTHER -> 0) ELSE 0)
               /\ Unwaited(more, n + 2, Len(counts)) = 0
<1> DEFINE more == prog \o <<command>>
           n    == Len(prog)
<1>1. /\ prog \in Seq(Commands) /\ n \in Nat /\ counts \in Seq(Int) /\ Len(counts) \in Nat \ {0}
      /\ Nest(prog, n + 1) = Len(counts) - 1
  BY CountedFacts
<1>2. more \in Seq(Commands) /\ Len(more) = n + 1 /\ more[n + 1] = command /\ \A i \in 1 .. n : more[i] = prog[i]
  BY <1>1
<1>3. ASSUME NEW i \in 1 .. n + 1, NEW l PROVE Nest(more, i) = Nest(prog, i) /\ Unwaited(more, i, l) = Unwaited(prog, i, l)
  <2>1. Alike(more, prog, n)
    BY <1>2 DEF Alike
  <2> HIDE DEF more
  <2> QED BY <1>1, <2>1, AlikeIs
<1>4. n + 1 \in Nat \ {0} /\ (n + 1) + 1 = n + 2 /\ n + 1 \in 1 .. n + 1
  BY <1>1
<1> HIDE DEF more
<1>5. Nest(more, n + 1) = Len(counts) - 1
  BY <1>1, <1>3, <1>4
<1>6. Nest(more, n + 2) = Len(counts) - 1 + (CASE command = "fork" -> 1 [] command = "exit" -> -1 [] OTHER -> 0)
  BY <1>2, <1>4, <1>5, NestStep
<1>7. ASSUME NEW l \in 1 .. Len(counts), l - 1 <= Nest(more, n + 2)
      PROVE  Unwaited(more, n + 2, l - 1) = counts[l]
                + (IF l = Len(counts) THEN (CASE command = "fork" -> 1 [] command = "wait" -> -1 [] OTHER -> 0) ELSE 0)
  <2>1. counts[l] = Unwaited(prog, n + 1, l - 1)
    BY DEF Counted
  <2>2. Unwaited(more, n + 1, l - 1) = counts[l]
    BY <1>3, <1>4, <2>1
  <2>3. l - 1 \in Int /\ Nest(more, n + 2) \in Int /\ Nest(more, n + 2) >= l - 1
    <3>1. n + 2 \in Nat \ {0}
      BY <1>1
    <3>2. Nest(more, n + 2) \in Int
      BY <3>1, NestStep
    <3> QED BY <1>1, <1>7, <3>2
  <2>4. Unwaited(more, n + 2, l - 1) = Unwaited(more, n + 1, l - 1)
           + (IF Nest(more, n + 1) = l - 1
              THEN (CASE more[n + 1] = "fork" -> 1 [] more[n + 1] = "wait" -> -1 [] OTHER -> 0) ELSE 0)
    BY <1>4, <2>3, UnwaitedStep
  <2>5. Nest(more, n + 1) = l - 1 <=> l = Len(counts)
    BY <1>1, <1>5
  <2> QED BY <1>2, <2>2, <2>4, <2>5
<1>8. Unwaited(more, n + 2, Len(counts)) = 0
  <2>1. Len(counts) \in Int /\ Nest(more, n + 1) < Len(counts)
    BY <1>1, <1>5
  <2>2. Unwaited(more, (n + 1) + 1, Len(counts)) = 0
    BY <1>4, <2>1, UnwaitedStep
  <2> QED BY <1>4, <2>2
<1> QED BY <1>2, <1>3, <1>6, <1>7, <1>8 DEF more

LEMMA NestedMore ==
    ASSUME NEW prog, NEW counts, Counted(prog, counts), NEW command \in Commands,
           command = "exit" => Len(counts) > 1 /\ Last(counts) = 0
    PROVE  Nested(prog \o <<command>>)
<1> DEFINE more == prog \o <<command>>
           n    == Len(prog)
<1>1. /\ prog \in Seq(Commands) /\ n \in Nat /\ counts \in Seq(Int) /\ Len(counts) \in Nat \ {0}
      /\ Nest(prog, n + 1) = Len(counts) - 1 /\ Last(counts) = counts[Len(counts)]
  BY CountedFacts
<1>2. /\ more \in Seq(Commands) /\ Len(more) = n + 1 /\ more[n + 1] = command /\ \A i \in 1 .. n : more[i] = prog[i]
      /\ \A i \in 1 .. n + 1 : \A l : Nest(more, i) = Nest(prog, i) /\ Unwaited(more, i, l) = Unwaited(prog, i, l)
      /\ Nest(more, n + 2) = Len(counts) - 1 + (CASE command = "fork" -> 1 [] command = "exit" -> -1 [] OTHER -> 0)
  BY OneCommand
<1> HIDE DEF more
<1>3. /\ \A i \in 1 .. n + 1 : Nest(prog, i) >= 0
      /\ \A i \in 1 .. n : prog[i] = "exit" => Nest(prog, i) >= 1 /\ Unwaited(prog, i, Nest(prog, i)) = 0
      /\ counts[Len(counts)] = Unwaited(prog, n + 1, Len(counts) - 1)
  BY <1>1 DEF Counted, Nested
<1>4. ASSUME NEW i \in 1 .. Len(more) + 1 PROVE Nest(more, i) >= 0
  <2>1. CASE i \in 1 .. n + 1
    BY <1>2, <1>3, <2>1
  <2>2. CASE i = n + 2
    BY <1>1, <1>2, <2>2
  <2> QED BY <1>1, <1>2, <2>1, <2>2
<1>5. ASSUME NEW i \in 1 .. Len(more), more[i] = "exit"
      PROVE  Nest(more, i) >= 1 /\ Unwaited(more, i, Nest(more, i)) = 0
  <2>1. CASE i \in 1 .. n
    <3>1. i \in 1 .. n + 1
      BY <1>1, <2>1
    <3>2. prog[i] = "exit" /\ Nest(more, i) = Nest(prog, i)
      BY <1>2, <1>5, <2>1, <3>1
    <3>3. Unwaited(more, i, Nest(prog, i)) = Unwaited(prog, i, Nest(prog, i))
      BY <1>2, <3>1
    <3> QED BY <1>3, <2>1, <3>2, <3>3
  <2>2. CASE i = n + 1
    <3>1. i \in 1 .. n + 1 /\ command = "exit"
      BY <1>1, <1>2, <1>5, <2>2
    <3>2. Nest(more, i) = Len(counts) - 1 /\ Unwaited(more, i, Len(counts) - 1) = 0
      BY <1>1, <1>2, <1>3, <2>2, <3>1
    <3> QED BY <1>1, <3>1, <3>2
  <2> QED BY <1>1, <1>2, <2>1, <2>2
<1> QED BY <1>2, <1>4, <1>5 DEF Nested, more

LEMMA CountedFork ==
    ASSUME NEW prog, NEW counts, Counted(prog, counts)
    PROVE  Counted(prog \o <<"fork">>, Append(Bump(counts, 1), 0))
<1> DEFINE more == prog \o <<"fork">>
           n    == Len(prog)
           c    == Append(Bump(counts, 1), 0)
<1>0. "fork" \in Commands /\ "fork" # "exit"
  BY DEF Commands
<1>1. n \in Nat /\ counts \in Seq(Int) /\ Len(counts) \in Nat \ {0} /\ Nested(more)
  BY <1>0, CountedFacts, NestedMore
<1>2. /\ c \in Seq(Int) /\ Len(c) = Len(counts) + 1
      /\ \A l \in 1 .. Len(counts) : c[l] = counts[l] + (IF l = Len(counts) THEN 1 ELSE 0)
      /\ c[Len(counts) + 1] = 0
  BY <1>1 DEF Bump
<1>3. /\ Len(more) = n + 1 /\ Nest(more, n + 2) = Len(counts)
      /\ \A l \in 1 .. Len(counts) : l - 1 <= Nest(more, n + 2) =>
            Unwaited(more, n + 2, l - 1) = counts[l] + (IF l = Len(counts) THEN 1 ELSE 0)
      /\ Unwaited(more, n + 2, Len(counts)) = 0
  <2>1. Len(more) = n + 1 /\ Nest(more, n + 2) = Len(counts) - 1 + 1 /\ Unwaited(more, n + 2, Len(counts)) = 0
    BY <1>0, OneCommand
  <2>2. \A l \in 1 .. Len(counts) : l - 1 <= Nest(more, n + 2) =>
            Unwaited(more, n + 2, l - 1) = counts[l] + (IF l = Len(counts) THEN 1 ELSE 0)
    BY <1>0, OneCommand
  <2> HIDE DEF more
  <2> QED BY <1>1, <2>1, <2>2
<1> HIDE DEF more, c
<1>4. ASSUME NEW l \in 1 .. Len(c) PROVE c[l] = Unwaited(more, n + 2, l - 1)
  <2>1. CASE l \in 1 .. Len(counts)
    BY <1>1, <1>2, <1>3, <2>1
  <2>2. CASE l = Len(counts) + 1
    BY <1>1, <1>2, <1>3, <2>2
  <2> QED BY <1>1, <1>2, <2>1, <2>2
<1>5. Len(more) + 1 = n + 2
  BY <1>1, <1>3
<1> QED BY <1>1, <1>2, <1>3, <1>4, <1>5 DEF Counted, more, c

LEMMA CountedWait ==
    ASSUME NEW prog, NEW counts, Counted(prog, counts)
    PROVE  Counted(prog \o <<"wait">>, Bump(counts, -1))
<1> DEFINE more == prog \o <<"wait">>
           n    == Len(prog)
           c    == Bump(counts, -1)
<1>0. "wait" \in Commands /\ "wait" # "exit" /\ "wait" # "fork"
  BY DEF Commands
<1>1. n \in Nat /\ counts \in Seq(Int) /\ Len(counts) \in Nat \ {0} /\ Nested(more)
  BY <1>0, CountedFacts, NestedMore
<1>2. /\ c \in Seq(Int) /\ Len(c) = Len(counts)
      /\ \A l \in 1 .. Len(counts) : c[l] = counts[l] + (IF l = Len(counts) THEN -1 ELSE 0)
  BY <1>1 DEF Bump
<1>3. /\ Len(more) = n + 1 /\ Nest(more, n + 2) = Len(counts) - 1
      /\ \A l \in 1 .. Len(counts) : l - 1 <= Nest(more, n + 2) =>
            Unwaited(more, n + 2, l - 1) = counts[l] + (IF l = Len(counts) THEN -1 ELSE 0)
  BY <1>0, <1>1, OneCommand
<1> HIDE DEF more, c
<1>4. ASSUME NEW l \in 1 .. Len(c) PROVE c[l] = Unwaited(more, n + 2, l - 1)
  BY <1>1, <1>2, <1>3
<1>5. Len(more) + 1 = n + 2
  BY <1>1, <1>3
<1> QED BY <1>1, <1>2, <1>3, <1>4, <1>5 DEF Counted, more, c

LEMMA CountedExit ==
    ASSUME NEW prog, NEW counts, Counted(prog, counts), Len(counts) > 1, Last(counts) = 0
    PROVE  Counted(prog \o <<"exit">>, Front(counts))
<1> DEFINE more == prog \o <<"exit">>
           n    == Len(prog)
           c    == Front(counts)
<1>0. "exit" \in Commands /\ "exit" # "wait" /\ "exit" # "fork"
  BY DEF Commands
<1>1. n \in Nat /\ counts \in Seq(Int) /\ Len(counts) \in Nat \ {0} /\ Nested(more)
  BY <1>0, CountedFacts, NestedMore
<1>2. /\ c \in Seq(Int) /\ Len(c) = Len(counts) - 1
      /\ \A l \in 1 .. Len(counts) - 1 : c[l] = counts[l]
  BY <1>1 DEF Front
<1>3. /\ Len(more) = n + 1 /\ Nest(more, n + 2) = Len(counts) - 1 - 1
      /\ \A l \in 1 .. Len(counts) : l - 1 <= Nest(more, n + 2) =>
            Unwaited(more, n + 2, l - 1) = counts[l] + (IF l = Len(counts) THEN 0 ELSE 0)
  BY <1>0, <1>1, OneCommand
<1> HIDE DEF more, c
<1>4. ASSUME NEW l \in 1 .. Len(c) PROVE c[l] = Unwaited(more, n + 2, l - 1)
  <2>1. l \in 1 .. Len(counts) /\ l - 1 <= Nest(more, n + 2) /\ l \in 1 .. Len(counts) - 1 /\ counts[l] \in Int
    BY <1>1, <1>2, <1>3
  <2> QED BY <1>2, <1>3, <2>1
<1>5. Len(more) + 1 = n + 2
  BY <1>1, <1>3
<1> QED BY <1>1, <1>2, <1>3, <1>4, <1>5 DEF Counted, more, c

LEMMA CountedWaits ==
    ASSUME NEW prog, NEW counts, Counted(prog, counts), NEW m \in Nat
    PROVE  Counted(prog \o Waits(m), Bump(counts, -m))
<1> DEFINE Bad == {k \in 0 .. m : ~ Counted(prog \o Waits(k), Bump(counts, -k))}
<1>1. prog \in Seq(Commands) /\ counts \in Seq(Int) /\ Len(counts) \in Nat \ {0}
  BY CountedFacts
<1>2. Counted(prog \o Waits(0), Bump(counts, -0))
  <2>1. Waits(0) = <<>> /\ prog \o <<>> = prog
    BY <1>1 DEF Waits
  <2>2. Bump(counts, -0) = counts
    BY <1>1 DEF Bump
  <2> QED BY <2>1, <2>2
<1>3. ASSUME NEW k \in 0 .. m - 1, Counted(prog \o Waits(k), Bump(counts, -k))
      PROVE  Counted(prog \o Waits(k + 1), Bump(counts, -(k + 1)))
  <2>1. (prog \o Waits(k)) \o <<"wait">> = prog \o Waits(k + 1)
    <3> DEFINE w == Waits(k)
               v == Waits(k + 1)
    <3>1. w \in Seq(Commands) /\ Len(w) = k /\ \A j \in 1 .. k : w[j] = "wait"
      BY DEF Waits, Commands
    <3>2. v \in Seq(Commands) /\ Len(v) = k + 1 /\ \A j \in 1 .. k + 1 : v[j] = "wait"
      BY DEF Waits, Commands
    <3>3. "wait" \in Commands /\ k \in Nat
      BY DEF Commands
    <3> HIDE DEF w, v
    <3>4. w \o <<"wait">> = v
      <4>1. w \o <<"wait">> \in Seq(Commands) /\ Len(w \o <<"wait">>) = Len(v)
        BY <3>1, <3>2, <3>3
      <4>2. ASSUME NEW j \in 1 .. Len(v) PROVE (w \o <<"wait">>)[j] = v[j]
        BY <3>1, <3>2, <3>3
      <4> QED BY <3>2, <4>1, <4>2, SameElements
    <3>5. (prog \o w) \o <<"wait">> = prog \o (w \o <<"wait">>)
      BY <1>1, <3>1, <3>3
    <3> QED BY <3>4, <3>5 DEF w, v
  <2>2. Bump(Bump(counts, -k), -1) = Bump(counts, -(k + 1))
    BY <1>1 DEF Bump
  <2>3. Counted((prog \o Waits(k)) \o <<"wait">>, Bump(Bump(counts, -k), -1))
    BY <1>3, CountedWait
  <2> QED BY <2>1, <2>2, <2>3
<1>4. Bad = {}
  <2> SUFFICES ASSUME Bad # {} PROVE FALSE
    OBVIOUS
  <2>1. Bad \in SUBSET Nat
    OBVIOUS
  <2>2. PICK k \in Bad : \A j \in Bad : k <= j
    <3> HIDE DEF Bad
    <3> QED BY <2>1, LeastExists
  <2>3. k \in 0 .. m /\ ~ Counted(prog \o Waits(k), Bump(counts, -k))
    BY <2>2
  <2>4. k # 0
    BY <1>2, <2>3
  <2>5. k - 1 \in 0 .. m - 1 /\ (k - 1) + 1 = k /\ k - 1 \in 0 .. m /\ ~(k <= k - 1)
    BY <2>3, <2>4
  <2>6. Counted(prog \o Waits(k - 1), Bump(counts, -(k - 1)))
    <3>1. k - 1 \notin Bad
      <4> HIDE DEF Bad
      <4> QED BY <2>2, <2>5
    <3> QED BY <2>5, <3>1
  <2>7. Counted(prog \o Waits((k - 1) + 1), Bump(counts, -((k - 1) + 1)))
    BY <1>3, <2>5, <2>6
  <2> QED BY <2>3, <2>5, <2>7
<1> QED BY <1>4

LEMMA ForkInitHolds == ForkInit => ForkInv
<1> SUFFICES ASSUME ForkInit PROVE ForkInv
  OBVIOUS
<1>1. Counted(<<>>, <<0>>)
  <2>1. <<>> \in Seq(Commands) /\ Len(<<>>) = 0 /\ <<0>> \in Seq(Int) /\ Len(<<0>>) = 1 /\ <<0>>[1] = 0
    OBVIOUS
  <2>2. 1 \in Nat \ {0} /\ 0 \in Int
    OBVIOUS
  <2>3. Nest(<<>>, 1) = 0 /\ Unwaited(<<>>, 1, 0) = 0
    BY <2>2, NestStep, UnwaitedStep
  <2>4. Nested(<<>>)
    BY <2>1, <2>3 DEF Nested
  <2>5. \A l \in 1 .. 1 : <<0>>[l] = Unwaited(<<>>, 1, l - 1)
    BY <2>1, <2>3
  <2> QED BY <2>1, <2>3, <2>4, <2>5 DEF Counted
<1>2. Written
  <2>1. /\ phase \in {"write random", "write by hand"} /\ actions = <<>> /\ need_wait = <<0>>
        /\ cg = [next |-> 1, curr_thread |-> 0, parent_list |-> <<>>, waiting_for |-> [t \in {0} |-> <<>>]]
    BY DEF ForkInit
  <2>2. \A l \in 1 .. Len(need_wait) : need_wait[l] >= 0
    <3>1. Len(<<0>>) = 1 /\ <<0>>[1] = 0
      OBVIOUS
    <3>2. need_wait = <<0>>
      BY <2>1
    <3> QED BY <3>1, <3>2
  <2> QED BY <1>1, <2>1, <2>2 DEF Written
<1>3. Generated /\ ProcsRun
  BY DEF ForkInit, Generated, ProcsRun
<1> QED BY <1>2, <1>3 DEF ForkInv

\* At its first command the generator is in the first thread, which waits for nobody.
LEMMA GenerateStarts ==
    ASSUME actions' \in Seq(Commands), phase' = "generate",
           cg' = [next |-> 1, curr_thread |-> 0, parent_list |-> <<>>, waiting_for |-> [t \in {0} |-> <<>>]]
    PROVE  Generated'
<1>1. /\ cg.next' = 1 /\ cg.curr_thread' = 0 /\ cg.parent_list' = <<>> /\ cg.waiting_for' = [t \in {0} |-> <<>>]
  OBVIOUS
<1>2. Last1' \in Nat \ {0} /\ Last1' >= 1
  BY DEF Last1
<1>3. Nest(actions', 1) = 0 /\ Unwaited(actions', 1, 0) = 0
  <2>1. 1 \in Nat \ {0} /\ 0 \in Int
    OBVIOUS
  <2> QED BY <2>1, NestStep, UnwaitedStep
<1>4. Named(0)' = 0
  <2>1. {j \in 1 .. 0 : actions'[j] = "fork"} = {}
    OBVIOUS
  <2> QED BY <2>1, FS_EmptySet DEF Named, Times
<1>5. Around' = <<0>> /\ DOMAIN Around' = {1} /\ Around'[1] = 0
  BY <1>1 DEF Around
<1>6. /\ cg.next' \in 1 .. Last1' /\ cg.parent_list' \in Seq(Nat) /\ cg.curr_thread' \in Nat
      /\ Len(cg.parent_list') = Nest(actions', cg.next')
  BY <1>1, <1>2, <1>3
<1>7. \A k \in DOMAIN Around' : /\ Around'[k] <= Named(cg.next - 1)'
                                /\ \A m \in 1 .. k - 1 : Around'[m] < Around'[k]
  <2>1. Named(cg.next - 1)' = 0
    BY <1>1, <1>4
  <2> QED BY <1>5, <2>1
<1>8. cg.waiting_for' \in [0 .. Named(cg.next - 1)' -> Seq(Nat)]
  <2>1. Named(cg.next - 1)' = 0 /\ 0 .. 0 = {0} /\ <<>> \in Seq(Nat)
    BY <1>1, <1>4
  <2> QED BY <1>1, <2>1
<1>9. \A k \in DOMAIN Around' : Len(cg.waiting_for'[Around'[k]]) = Unwaited(actions', cg.next', k - 1)
  BY <1>1, <1>3, <1>5
<1>10. \A i \in 1 .. cg.next' - 1 : actions'[i] = "wait" => Unwaited(actions', i, Nest(actions', i)) >= 1
  BY <1>1
<1>11. DOMAIN cg' = {"next", "curr_thread", "parent_list", "waiting_for"}
  OBVIOUS
<1> QED BY <1>6, <1>7, <1>8, <1>9, <1>10, <1>11 DEF Generated

LEMMA Associative ==
    ASSUME NEW E, NEW s \in Seq(E), NEW t \in Seq(E), NEW e \in E
    PROVE  (s \o t) \o <<e>> = s \o (t \o <<e>>)
OBVIOUS

LEMMA BumpIs ==
    ASSUME NEW counts \in Seq(Int), Len(counts) # 0, NEW by \in Int
    PROVE  /\ Bump(counts, by) \in Seq(Int) /\ Len(Bump(counts, by)) = Len(counts)
           /\ \A l \in 1 .. Len(counts) :
                Bump(counts, by)[l] = counts[l] + (IF l = Len(counts) THEN by ELSE 0) /\ counts[l] \in Int
BY DEF Bump

LEMMA WriteHolds ==
    ASSUME ForkInv, add_fork_begin \/ add_wait \/ clean_up \/ parse_wait \/ parse_brace \/ parse_end
    PROVE  ForkInv'
<1>1. phase \in {"write random", "write by hand"} /\ UNCHANGED <<cg, procs>>
  BY DEF add_fork_begin, add_wait, clean_up, parse_wait, parse_brace, parse_end, Adds
<1>2. /\ Counted(actions, need_wait)
      /\ cg = [next |-> 1, curr_thread |-> 0, parent_list |-> <<>>, waiting_for |-> [t \in {0} |-> <<>>]]
      /\ phase = "write random" => \A l \in 1 .. Len(need_wait) : need_wait[l] >= 0
  BY <1>1 DEF ForkInv, Written
<1>3. /\ actions \in Seq(Commands) /\ need_wait \in Seq(Int) /\ Len(need_wait) \in Nat \ {0}
      /\ Last(need_wait) = need_wait[Len(need_wait)] /\ Last(need_wait) \in Int
  BY <1>2, CountedFacts
<1>0. /\ Len(need_wait) \in 1 .. Len(need_wait) /\ Len(need_wait) \in Nat \ {0}
      /\ fork_level = Len(need_wait) - 1 /\ fork_level \in Nat
  BY <1>3 DEF fork_level
<1> DEFINE Stays == /\ phase' \in {"write random", "write by hand", "generate", "bad program"}
                    /\ phase' \in {"write random", "write by hand"} => Counted(actions', need_wait')
                    /\ phase' = "write random" => \A l \in 1 .. Len(need_wait') : need_wait'[l] >= 0
                    /\ phase' = "generate" => \E c : Counted(actions', c) /\ Len(c) = 1 /\ c[1] = 0
<1>4. ASSUME add_fork_begin PROVE Stays
  <2>1. /\ phase' = phase /\ actions' = actions \o <<"fork">> /\ need_wait' = Append(Bump(need_wait, 1), 0)
    BY <1>4 DEF add_fork_begin, Adds
  <2>2. Counted(actions', need_wait')
    BY <1>2, <2>1, CountedFork
  <2>3. ASSUME phase' = "write random", NEW l \in 1 .. Len(need_wait') PROVE need_wait'[l] >= 0
    <3>1. /\ Bump(need_wait, 1) \in Seq(Int) /\ Len(Bump(need_wait, 1)) = Len(need_wait)
          /\ \A k \in 1 .. Len(need_wait) : Bump(need_wait, 1)[k] >= need_wait[k] /\ need_wait[k] >= 0
      <4>1. \A k \in 1 .. Len(need_wait) : need_wait[k] >= 0
        BY <1>2, <2>1, <2>3
      <4>2. /\ Bump(need_wait, 1) \in Seq(Int) /\ Len(Bump(need_wait, 1)) = Len(need_wait)
            /\ \A k \in 1 .. Len(need_wait) :
                 Bump(need_wait, 1)[k] = need_wait[k] + (IF k = Len(need_wait) THEN 1 ELSE 0) /\ need_wait[k] \in Int
        <5>1. need_wait \in Seq(Int) /\ Len(need_wait) # 0 /\ 1 \in Int
          BY <1>0, <1>3
        <5> QED BY <5>1, BumpIs
      <4> HIDE DEF Stays
      <4> QED BY <4>1, <4>2
    <3>2. CASE l \in 1 .. Len(need_wait)
      BY <1>3, <2>1, <3>1, <3>2
    <3>3. CASE l \notin 1 .. Len(need_wait)
      BY <1>3, <2>1, <3>1, <3>3
    <3> QED BY <3>2, <3>3
  <2> QED BY <1>1, <2>1, <2>2, <2>3
<1>5. ASSUME add_wait \/ parse_wait PROVE Stays
  <2>1. /\ phase' = phase /\ actions' = actions \o <<"wait">> /\ need_wait' = Bump(need_wait, -1)
        /\ phase = "write random" => Last(need_wait) > 0
    BY <1>5 DEF add_wait, parse_wait, Adds
  <2>2. Counted(actions', need_wait')
    BY <1>2, <2>1, CountedWait
  <2>3. ASSUME phase' = "write random", NEW l \in 1 .. Len(need_wait') PROVE need_wait'[l] >= 0
    <3>0. Len(Bump(need_wait, -1)) = Len(need_wait) /\ need_wait' = Bump(need_wait, -1) /\ -1 \in Int
      <4>1. -1 \in Int
        OBVIOUS
      <4> QED BY <1>0, <1>3, <2>1, <4>1, BumpIs
    <3>1. -1 \in Int /\ l \in 1 .. Len(need_wait) /\ need_wait' = Bump(need_wait, -1)
      BY <3>0
    <3>2. need_wait'[l] = need_wait[l] + (IF l = Len(need_wait) THEN -1 ELSE 0) /\ need_wait[l] \in Int
      BY <1>0, <1>3, <3>1, BumpIs
    <3>3. need_wait[l] >= 0 /\ need_wait[Len(need_wait)] > 0
      BY <1>2, <1>3, <2>1, <2>3, <3>1
    <3> QED BY <3>2, <3>3
  <2> QED BY <1>1, <2>1, <2>2, <2>3
<1>6. ASSUME clean_up PROVE Stays
  <2> DEFINE m == Last(need_wait)
             c == Bump(need_wait, -m)
  <2>0. phase = "write random"
    BY <1>6 DEF clean_up
  <2>1. /\ need_wait' = IF fork_level > 0 THEN Front(need_wait) ELSE need_wait
        /\ actions' = actions \o (Waits(m) \o (IF fork_level > 0 THEN <<"exit">> ELSE <<>>))
        /\ phase' = IF fork_level > 0 THEN phase ELSE "generate"
    BY <1>6 DEF clean_up, Adds
  <2>2. m \in Nat /\ need_wait[Len(need_wait)] = m
    <3>1. \A l \in 1 .. Len(need_wait) : need_wait[l] >= 0
      BY <1>2, <2>0
    <3> QED BY <1>3, <3>1
  <2> HIDE DEF m
  <2>3. Counted(actions \o Waits(m), c)
    BY <1>2, <2>2, CountedWaits
  <2>4. /\ c \in Seq(Int) /\ Len(c) = Len(need_wait) /\ c[Len(c)] = 0
        /\ \A l \in 1 .. Len(c) - 1 : c[l] = need_wait[l]
    BY <1>3, <2>2 DEF Bump
  <2>5. Waits(m) \in Seq(Commands) /\ "exit" \in Commands
    BY <2>2 DEF Waits, Commands
  <2> HIDE DEF c
  <2>6. CASE fork_level > 0
    <3>1. Len(c) > 1 /\ Last(c) = 0
      BY <1>0, <2>4, <2>6 DEF Last
    <3>2. Counted((actions \o Waits(m)) \o <<"exit">>, Front(c))
      BY <2>3, <3>1, CountedExit
    <3>3. (actions \o Waits(m)) \o <<"exit">> = actions'
      <4> DEFINE w == Waits(m)
      <4>1. actions' = actions \o (w \o <<"exit">>)
        BY <2>1, <2>6
      <4>2. w \in Seq(Commands)
        BY <2>5
      <4> HIDE DEF w
      <4>3. (actions \o w) \o <<"exit">> = actions \o (w \o <<"exit">>)
        <5>1. actions \in Seq(Commands) /\ "exit" \in Commands
          BY <1>3, <2>5
        <5> QED BY <4>2, <5>1, Associative
      <4> QED BY <4>1, <4>3 DEF w
    <3>4. /\ Front(c) \in Seq(Int) /\ Len(Front(c)) = Len(need_wait) - 1
          /\ \A l \in 1 .. Len(need_wait) - 1 : Front(c)[l] = c[l]
      BY <2>4, <3>1 DEF Front
    <3>5. /\ need_wait' \in Seq(Int) /\ Len(need_wait') = Len(need_wait) - 1
          /\ \A l \in 1 .. Len(need_wait) - 1 : need_wait'[l] = need_wait[l]
      <4>1. need_wait' = Front(need_wait) /\ Len(need_wait) > 1
        BY <1>0, <2>1, <2>6
      <4> QED BY <1>3, <4>1 DEF Front
    <3>6. Front(c) = need_wait'
      <4>1. \A l \in 1 .. Len(need_wait') : Front(c)[l] = need_wait'[l]
        BY <2>4, <3>4, <3>5
      <4> QED BY <3>4, <3>5, <4>1, SameElements
    <3>7. \A l \in 1 .. Len(need_wait') : need_wait'[l] >= 0
      <4>1. \A l \in 1 .. Len(need_wait) : need_wait[l] >= 0
        BY <1>2, <2>0
      <4> QED BY <1>0, <3>5, <4>1
    <3>8. phase' = phase
      BY <2>1, <2>6
    <3>9. Counted(actions', need_wait')
      BY <3>2, <3>3, <3>6
    <3> QED BY <2>0, <3>7, <3>8, <3>9
  <2>7. CASE ~(fork_level > 0)
    <3>1. Len(need_wait) = 1 /\ phase' = "generate"
      BY <1>0, <2>1, <2>7
    <3>2. actions' = actions \o Waits(m)
      <4>1. actions' = actions \o (Waits(m) \o <<>>)
        BY <2>1, <2>7
      <4>2. Waits(m) \o <<>> = Waits(m)
        BY <2>5
      <4> QED BY <4>1, <4>2
    <3>3. Counted(actions', c) /\ Len(c) = 1 /\ c[1] = 0
      BY <2>3, <2>4, <3>1, <3>2
    <3> QED BY <3>1, <3>3
  <2> QED BY <2>6, <2>7
<1>7. ASSUME parse_brace PROVE Stays
  <2>1. /\ phase' = IF fork_level = 0 \/ Last(need_wait) # 0 THEN "bad program" ELSE phase
        /\ need_wait' = IF fork_level = 0 THEN need_wait ELSE Front(need_wait)
        /\ actions' = actions \o <<"exit">> /\ phase = "write by hand"
    BY <1>7 DEF parse_brace, Adds
  <2>2. CASE fork_level = 0 \/ Last(need_wait) # 0
    BY <2>1, <2>2
  <2>3. CASE fork_level # 0 /\ Last(need_wait) = 0
    <3>1. Len(need_wait) > 1
      BY <1>0, <2>3
    <3>2. Counted(actions', need_wait')
      BY <1>2, <2>1, <2>3, <3>1, CountedExit
    <3> QED BY <2>1, <2>3, <3>2
  <2> QED BY <2>2, <2>3
<1>8. ASSUME parse_end PROVE Stays
  <2>1. /\ phase' = IF need_wait[1] # 0 \/ fork_level > 0 THEN "bad program" ELSE "generate"
        /\ actions' = actions /\ need_wait' = need_wait
    BY <1>8 DEF parse_end
  <2>2. fork_level > 0 \/ Len(need_wait) = 1
    BY <1>0
  <2> QED BY <1>2, <2>1, <2>2
<1>9. Stays
  BY <1>4, <1>5, <1>6, <1>7, <1>8
<1> HIDE DEF Stays
<1>10. Written'
  <2>1. phase' = "generate" => /\ Nested(actions') /\ Nest(actions', Last1') = 0 /\ Unwaited(actions', Last1', 0) = 0
    <3> SUFFICES ASSUME phase' = "generate"
                 PROVE  /\ Nested(actions') /\ Nest(actions', Last1') = 0 /\ Unwaited(actions', Last1', 0) = 0
      OBVIOUS
    <3>1. PICK c : Counted(actions', c) /\ Len(c) = 1 /\ c[1] = 0
      BY <1>9 DEF Stays
    <3>2. Nested(actions') /\ Nest(actions', Len(actions') + 1) = 0
      <4>1. Nested(actions') /\ 1 = Nest(actions', Len(actions') + 1) + 1 /\ Len(actions') \in Nat
        <5>1. Nested(actions') /\ Len(c) = Nest(actions', Len(actions') + 1) + 1
          BY <3>1 DEF Counted
        <5>2. Len(actions') \in Nat
          BY <5>1 DEF Nested
        <5> QED BY <3>1, <5>1, <5>2
      <4>2. Nest(actions', Len(actions') + 1) \in Int
        BY <4>1, NestStep
      <4> QED BY <4>1, <4>2
    <3>3. Unwaited(actions', Len(actions') + 1, 0) = 0
      BY <3>1 DEF Counted
    <3> QED BY <3>2, <3>3 DEF Last1
  <2> QED BY <1>1, <1>2, <1>9, <2>1 DEF Written, Stays
<1>11. Generated'
  <2>1. CASE phase' = "generate"
    <3>1. actions' \in Seq(Commands)
      BY <1>9, <2>1 DEF Stays, Counted, Nested
    <3> QED BY <1>1, <1>2, <2>1, <3>1, GenerateStarts
  <2>2. CASE phase' # "generate"
    BY <1>9, <2>2 DEF Stays, Generated
  <2> QED BY <2>1, <2>2
<1>12. ProcsRun'
  BY <1>9 DEF Stays, ProcsRun
<1> QED BY <1>10, <1>11, <1>12 DEF ForkInv

-----------------------------------------------------------------------------
(* Generating.                                                             *)

LEMMA GenerateFacts ==
    ASSUME ForkInv, phase = "generate"
    PROVE  LET n == Len(actions)
               x == cg.next
           IN  /\ actions \in Seq(Commands) /\ n \in Nat /\ x \in 1 .. n + 1 /\ Last1 = n + 1
               /\ Nest(actions, x) \in Nat /\ Len(cg.parent_list) = Nest(actions, x)
               /\ cg.parent_list \in Seq(Nat) /\ cg.curr_thread \in Nat
               /\ Around \in Seq(Nat) /\ Len(Around) = Nest(actions, x) + 1
               /\ Around[Nest(actions, x) + 1] = cg.curr_thread
               /\ \A k \in 1 .. Nest(actions, x) + 1 :
                    /\ Around[k] \in 0 .. Named(x - 1) /\ \A m \in 1 .. k - 1 : Around[m] < Around[k]
                    /\ Len(cg.waiting_for[Around[k]]) = Unwaited(actions, x, k - 1)
               /\ cg.waiting_for \in [0 .. Named(x - 1) -> Seq(Nat)]
               /\ Named(x - 1) \in Nat
               /\ \A i \in 1 .. x - 1 : actions[i] = "wait" => Unwaited(actions, i, Nest(actions, i)) >= 1
<1> DEFINE n == Len(actions)
           x == cg.next
<1>1. Nested(actions)
  BY DEF ForkInv, Written
<1>2. actions \in Seq(Commands) /\ n \in Nat /\ Last1 = n + 1
  BY <1>1 DEF Nested, Last1
<1>3. Generated
  BY DEF ForkInv
<1>4. /\ x \in 1 .. n + 1 /\ cg.parent_list \in Seq(Nat) /\ cg.curr_thread \in Nat
      /\ Len(cg.parent_list) = Nest(actions, x)
      /\ \A k \in DOMAIN Around : Around[k] <= Named(x - 1) /\ \A m \in 1 .. k - 1 : Around[m] < Around[k]
      /\ cg.waiting_for \in [0 .. Named(x - 1) -> Seq(Nat)]
      /\ \A k \in DOMAIN Around : Len(cg.waiting_for[Around[k]]) = Unwaited(actions, x, k - 1)
  BY <1>2, <1>3 DEF Generated
<1>5. \A i \in 1 .. x - 1 : actions[i] = "wait" => Unwaited(actions, i, Nest(actions, i)) >= 1
  BY <1>3 DEF Generated
<1>6. /\ Around \in Seq(Nat) /\ Len(Around) = Nest(actions, x) + 1
      /\ Around[Nest(actions, x) + 1] = cg.curr_thread /\ Nest(actions, x) \in Nat
  BY <1>4 DEF Around
<1>7. Named(x - 1) \in Nat
  <2>1. x - 1 \in 0 .. n
    BY <1>2, <1>4
  <2> QED BY <1>2, <2>1, Numbers
<1>8. DOMAIN Around = 1 .. Nest(actions, x) + 1
  BY <1>6
<1>9. \A k \in 1 .. Nest(actions, x) + 1 : Around[k] \in 0 .. Named(x - 1)
  <2> SUFFICES ASSUME NEW k \in 1 .. Nest(actions, x) + 1 PROVE Around[k] \in 0 .. Named(x - 1)
    OBVIOUS
  <2>1. Around[k] \in Nat
    BY <1>6, <1>8
  <2>2. Around[k] <= Named(x - 1)
    BY <1>4, <1>8
  <2> QED BY <1>7, <2>1, <2>2
<1> QED BY <1>2, <1>4, <1>5, <1>6, <1>7, <1>8, <1>9

\* The code for a command of the generator, and what it makes of the threads.
LEMMA ForkCode ==
    ASSUME ForkInv, phase = "generate", cg.next <= Len(actions), actions[cg.next] = "fork",
           gen_fork, phase' = phase, actions' = actions
    PROVE  Generated'
<1> DEFINE n == Len(actions)
           x == cg.next
           L == Nest(actions, x)
           child == Named(x)
<1>1. /\ actions \in Seq(Commands) /\ n \in Nat /\ x \in 1 .. n + 1 /\ Last1 = n + 1
      /\ L \in Nat /\ Len(cg.parent_list) = L
      /\ cg.parent_list \in Seq(Nat) /\ cg.curr_thread \in Nat
      /\ Around \in Seq(Nat) /\ Len(Around) = L + 1 /\ Around[L + 1] = cg.curr_thread
  BY GenerateFacts
<1>2. \A k \in 1 .. L + 1 : /\ Around[k] \in 0 .. Named(x - 1) /\ \A m \in 1 .. k - 1 : Around[m] < Around[k]
                            /\ Len(cg.waiting_for[Around[k]]) = Unwaited(actions, x, k - 1)
  BY GenerateFacts
<1>3. /\ cg.waiting_for \in [0 .. Named(x - 1) -> Seq(Nat)] /\ Named(x - 1) \in Nat
      /\ \A i \in 1 .. x - 1 : actions[i] = "wait" => Unwaited(actions, i, Nest(actions, i)) >= 1
  BY GenerateFacts
<1>4. x \in 1 .. n /\ x \in Nat \ {0} /\ (x + 1) - 1 = x
  BY <1>1
<1>5. child = Named(x - 1) + 1 /\ child \in Nat /\ Name(actions, x) = child
  <2>1. x \in 0 .. Len(actions)
    BY <1>4
  <2>2. Name(actions, x) = Named(x)
    BY <1>1, <2>1, Numbers
  <2>3. Named(x) = Named(x - 1) + 1
    BY <1>1, <1>4, Numbers
  <2> QED BY <1>3, <2>2, <2>3
<1>6. Nest(actions, x + 1) = L + 1
  BY <1>4, NestStep
<1>7. ASSUME NEW k \in 1 .. L + 1
      PROVE  Unwaited(actions, x + 1, k - 1) = Unwaited(actions, x, k - 1) + (IF k = L + 1 THEN 1 ELSE 0)
  <2>1. k - 1 \in Int /\ Nest(actions, x + 1) >= k - 1 /\ (Nest(actions, x) = k - 1 <=> k = L + 1)
    BY <1>1, <1>6
  <2>2. Unwaited(actions, x + 1, k - 1) = Unwaited(actions, x, k - 1)
                   + (IF Nest(actions, x) = k - 1
                      THEN (CASE actions[x] = "fork" -> 1 [] actions[x] = "wait" -> -1 [] OTHER -> 0) ELSE 0)
    BY <1>4, <2>1, UnwaitedStep
  <2> QED BY <2>1, <2>2
<1>8. Unwaited(actions, x + 1, L + 1) = 0
  <2>1. L + 1 \in Int /\ L < L + 1
    BY <1>1
  <2> QED BY <1>4, <2>1, UnwaitedStep
<1>9. /\ cg.next' = x + 1 /\ cg.curr_thread' = child /\ cg.parent_list' = Append(cg.parent_list, cg.curr_thread)
      /\ cg.waiting_for' = [t \in (DOMAIN cg.waiting_for) \cup {child} |->
                    IF t = child THEN <<>>
                    ELSE IF t = cg.curr_thread THEN Append(cg.waiting_for[t], child)
                    ELSE cg.waiting_for[t]]
  BY <1>5 DEF gen_fork
<1>10. DOMAIN cg.waiting_for = 0 .. Named(x - 1) /\ child \notin 0 .. Named(x - 1)
       /\ (DOMAIN cg.waiting_for) \cup {child} = 0 .. child
  BY <1>3, <1>5
<1>11. Named(cg.next - 1)' = child /\ Last1' = Last1
  BY <1>4, <1>9 DEF Named, Last1
<1>12. /\ Around' = Append(Around, child) /\ Around' \in Seq(Nat) /\ DOMAIN Around' = 1 .. L + 2
       /\ Around'[L + 2] = child /\ \A k \in 1 .. L + 1 : Around'[k] = Around[k]
  <2>1. Around' = Append(cg.parent_list', cg.curr_thread')
    BY DEF Around
  <2>2. cg.parent_list' = Around
    BY <1>9 DEF Around
  <2>3. Around' = Append(Around, child)
    BY <1>9, <2>1, <2>2
  <2> HIDE DEF child, L
  <2> QED BY <1>1, <1>5, <2>3
<1> HIDE DEF child, L
<1>13. /\ cg.next' \in 1 .. Last1' /\ cg.parent_list' \in Seq(Nat) /\ cg.curr_thread' \in Nat
       /\ Len(cg.parent_list') = Nest(actions', cg.next')
  <2>1. cg.parent_list' \in Seq(Nat) /\ Len(cg.parent_list') = L + 1
    BY <1>1, <1>9
  <2>2. x + 1 \in 1 .. Last1'
    BY <1>1, <1>4, <1>11
  <2> QED BY <1>5, <1>6, <1>9, <2>1, <2>2
<1>14. ASSUME NEW k \in DOMAIN Around'
       PROVE  Around'[k] <= Named(cg.next - 1)' /\ \A m \in 1 .. k - 1 : Around'[m] < Around'[k]
  <2>1. CASE k \in 1 .. L + 1
    <3>1. Around'[k] = Around[k] /\ Around[k] \in 0 .. Named(x - 1)
      BY <1>2, <1>12, <2>1
    <3>2. ASSUME NEW m \in 1 .. k - 1 PROVE Around'[m] < Around'[k]
      <4>1. m \in 1 .. L + 1
        BY <1>1, <2>1
      <4> QED BY <1>2, <1>12, <2>1, <3>1, <4>1
    <3> QED BY <1>3, <1>5, <1>11, <3>1, <3>2
  <2>2. CASE k = L + 2
    <3>1. ASSUME NEW m \in 1 .. k - 1 PROVE Around'[m] < Around'[k]
      <4>1. m \in 1 .. L + 1
        BY <1>1, <2>2
      <4>2. Around'[m] \in 0 .. Named(x - 1)
        BY <1>2, <1>12, <4>1
      <4>3. Around'[k] = child
        BY <1>12, <2>2
      <4> QED BY <1>3, <1>5, <4>2, <4>3
    <3> QED BY <1>5, <1>11, <1>12, <2>2, <3>1
  <2> QED BY <1>1, <1>12, <2>1, <2>2
<1>15. cg.waiting_for' \in [0 .. Named(cg.next - 1)' -> Seq(Nat)]
  <2>1. \A t \in 0 .. Named(x - 1) : cg.waiting_for[t] \in Seq(Nat) /\ Append(cg.waiting_for[t], child) \in Seq(Nat)
    BY <1>3, <1>5
  <2>2. <<>> \in Seq(Nat)
    OBVIOUS
  <2>3. \A t \in 0 .. child : t # child => t \in 0 .. Named(x - 1)
    BY <1>3, <1>5
  <2>4. cg.waiting_for' = [t \in 0 .. child |->
                    IF t = child THEN <<>>
                    ELSE IF t = cg.curr_thread THEN Append(cg.waiting_for[t], child)
                    ELSE cg.waiting_for[t]]
    BY <1>9, <1>10
  <2> QED BY <1>11, <2>1, <2>2, <2>3, <2>4
<1>16. ASSUME NEW k \in DOMAIN Around'
       PROVE  Len(cg.waiting_for'[Around'[k]]) = Unwaited(actions', cg.next', k - 1)
  <2>1. CASE k \in 1 .. L + 1
    <3>1. Around'[k] = Around[k] /\ Around[k] \in 0 .. Named(x - 1) /\ Around[k] # child
      BY <1>2, <1>10, <1>12, <2>1
    <3>2. Around[k] = cg.curr_thread <=> k = L + 1
      <4>1. k # L + 1 => Around[k] < Around[L + 1]
        <5>1. L + 1 \in 1 .. L + 1 /\ (k # L + 1 => k \in 1 .. (L + 1) - 1)
          BY <1>1, <2>1
        <5> QED BY <1>2, <5>1
      <4>2. Around[k] \in Nat /\ Around[L + 1] \in Nat
        BY <1>1, <2>1
      <4> QED BY <1>1, <4>1, <4>2
    <3>3. cg.waiting_for'[Around'[k]] =
             IF k = L + 1 THEN Append(cg.waiting_for[Around[k]], child) ELSE cg.waiting_for[Around[k]]
      BY <1>9, <1>10, <3>1, <3>2
    <3>4. cg.waiting_for[Around[k]] \in Seq(Nat)
      BY <1>3, <3>1
    <3>5. Len(cg.waiting_for'[Around'[k]]) = Len(cg.waiting_for[Around[k]]) + (IF k = L + 1 THEN 1 ELSE 0)
      <4> DEFINE w == cg.waiting_for[Around[k]]
                 v == cg.waiting_for'[Around'[k]]
      <4>1. w \in Seq(Nat) /\ v = (IF k = L + 1 THEN Append(w, child) ELSE w)
        BY <3>3, <3>4
      <4> HIDE DEF w, v
      <4>2. Len(v) = Len(w) + (IF k = L + 1 THEN 1 ELSE 0)
        BY <1>5, <4>1
      <4> QED BY <4>2 DEF w, v
    <3> QED BY <1>2, <1>7, <1>9, <2>1, <3>5
  <2>2. CASE k = L + 2
    <3>1. cg.waiting_for'[Around'[k]] = <<>> /\ Len(<<>>) = 0 /\ k - 1 = L + 1
      BY <1>1, <1>9, <1>10, <1>12, <2>2
    <3> QED BY <1>8, <1>9, <3>1
  <2> QED BY <1>1, <1>12, <2>1, <2>2
<1>17. \A i \in 1 .. cg.next' - 1 : actions'[i] = "wait" => Unwaited(actions', i, Nest(actions', i)) >= 1
  <2>1. \A i \in 1 .. cg.next' - 1 : i \in 1 .. x - 1 \/ i = x
    BY <1>4, <1>9
  <2> QED BY <1>3, <2>1
<1>18. phase' = "generate"
  OBVIOUS
<1>19. DOMAIN cg' = {"next", "curr_thread", "parent_list", "waiting_for"}
  BY DEF gen_fork
<1> QED BY <1>13, <1>14, <1>15, <1>16, <1>17, <1>18, <1>19 DEF Generated

LEMMA WaitCode ==
    ASSUME ForkInv, phase = "generate", cg.next <= Len(actions), actions[cg.next] = "wait",
           cg.waiting_for[cg.curr_thread] # <<>>, gen_wait, phase' = phase, actions' = actions
    PROVE  Generated'
<1> DEFINE n == Len(actions)
           x == cg.next
           L == Nest(actions, x)
           w == cg.waiting_for[cg.curr_thread]
<1>1. /\ actions \in Seq(Commands) /\ n \in Nat /\ x \in 1 .. n + 1 /\ Last1 = n + 1
      /\ L \in Nat /\ Len(cg.parent_list) = L
      /\ cg.parent_list \in Seq(Nat) /\ cg.curr_thread \in Nat
      /\ Around \in Seq(Nat) /\ Len(Around) = L + 1 /\ Around[L + 1] = cg.curr_thread
  BY GenerateFacts
<1>2. \A k \in 1 .. L + 1 : /\ Around[k] \in 0 .. Named(x - 1) /\ \A m \in 1 .. k - 1 : Around[m] < Around[k]
                            /\ Len(cg.waiting_for[Around[k]]) = Unwaited(actions, x, k - 1)
  BY GenerateFacts
<1>3. /\ cg.waiting_for \in [0 .. Named(x - 1) -> Seq(Nat)] /\ Named(x - 1) \in Nat
      /\ \A i \in 1 .. x - 1 : actions[i] = "wait" => Unwaited(actions, i, Nest(actions, i)) >= 1
  BY GenerateFacts
<1>4. x \in 1 .. n /\ x \in Nat \ {0} /\ (x + 1) - 1 = x
  BY <1>1
<1>5. Named(x) = Named(x - 1)
  <2>1. Named(x) = Named(x - 1) + 0
    BY <1>1, <1>4, Numbers
  <2> QED BY <1>3, <2>1
<1>6. Nest(actions, x + 1) = L
  <2>1. Nest(actions, x + 1) = Nest(actions, x) + 0
    BY <1>4, NestStep
  <2> QED BY <1>1, <2>1
<1>7. ASSUME NEW k \in 1 .. L + 1
      PROVE  Unwaited(actions, x + 1, k - 1) = Unwaited(actions, x, k - 1) + (IF k = L + 1 THEN -1 ELSE 0)
  <2>1. k - 1 \in Int /\ Nest(actions, x + 1) >= k - 1 /\ (Nest(actions, x) = k - 1 <=> k = L + 1)
    <3>1. Nest(actions, x) = L
      OBVIOUS
    <3> HIDE DEF L
    <3> QED BY <1>1, <1>6, <3>1
  <2>2. Unwaited(actions, x + 1, k - 1) = Unwaited(actions, x, k - 1)
                   + (IF Nest(actions, x) = k - 1
                      THEN (CASE actions[x] = "fork" -> 1 [] actions[x] = "wait" -> -1 [] OTHER -> 0) ELSE 0)
    BY <1>4, <2>1, UnwaitedStep
  <2> QED BY <2>1, <2>2
<1>8. L + 1 \in 1 .. L + 1 /\ cg.curr_thread \in 0 .. Named(x - 1) /\ Len(w) = Unwaited(actions, x, L) /\ w \in Seq(Nat)
  <2>1. L + 1 \in 1 .. L + 1 /\ (L + 1) - 1 = L
    BY <1>1
  <2>2. Around[L + 1] \in 0 .. Named(x - 1) /\ Len(cg.waiting_for[Around[L + 1]]) = Unwaited(actions, x, (L + 1) - 1)
    BY <1>2, <2>1
  <2> QED BY <1>1, <1>3, <2>1, <2>2
<1>9. w # <<>> /\ Len(w) >= 1 /\ Tail(w) \in Seq(Nat) /\ Len(Tail(w)) = Len(w) - 1
  <2>1. w # <<>> /\ w \in Seq(Nat)
    BY <1>8
  <2> HIDE DEF w
  <2> QED BY <2>1
<1>10. /\ cg.next' = x + 1 /\ cg.curr_thread' = cg.curr_thread /\ cg.parent_list' = cg.parent_list
       /\ cg.waiting_for' = [cg.waiting_for EXCEPT ![cg.curr_thread] = Tail(w)]
       /\ DOMAIN cg' = {"next", "curr_thread", "parent_list", "waiting_for"}
  <2>1. DOMAIN cg = {"next", "curr_thread", "parent_list", "waiting_for"}
    BY DEF ForkInv, Generated
  <2> QED BY <2>1 DEF gen_wait
<1>11. Named(cg.next - 1)' = Named(x - 1) /\ Last1' = Last1 /\ Around' = Around /\ DOMAIN Around = 1 .. L + 1
  <2>1. Named(cg.next - 1)' = Named(x)
    BY <1>4, <1>10 DEF Named
  <2> QED BY <1>1, <1>5, <1>10, <2>1 DEF Last1, Around
<1> HIDE DEF L, w
<1>12. /\ cg.next' \in 1 .. Last1' /\ cg.parent_list' \in Seq(Nat) /\ cg.curr_thread' \in Nat
       /\ Len(cg.parent_list') = Nest(actions', cg.next')
  BY <1>1, <1>4, <1>6, <1>10, <1>11
<1>13. \A k \in DOMAIN Around' : Around'[k] <= Named(cg.next - 1)' /\ \A m \in 1 .. k - 1 : Around'[m] < Around'[k]
  BY <1>2, <1>3, <1>11
<1>14. cg.waiting_for' \in [0 .. Named(cg.next - 1)' -> Seq(Nat)]
  BY <1>3, <1>9, <1>10, <1>11
<1>15. ASSUME NEW k \in DOMAIN Around'
       PROVE  Len(cg.waiting_for'[Around'[k]]) = Unwaited(actions', cg.next', k - 1)
  <2>1. k \in 1 .. L + 1 /\ Around'[k] = Around[k] /\ Around[k] \in 0 .. Named(x - 1)
    BY <1>2, <1>11
  <2>2. Around[k] = cg.curr_thread <=> k = L + 1
    <3>1. k # L + 1 => Around[k] < Around[L + 1]
      <4>1. k # L + 1 => k \in 1 .. (L + 1) - 1
        BY <1>1, <2>1
      <4> QED BY <1>2, <1>8, <4>1
    <3>2. Around[k] \in Nat /\ Around[L + 1] \in Nat
      BY <1>1, <1>8, <2>1
    <3> QED BY <1>1, <3>1, <3>2
  <2>3. CASE k = L + 1
    <3>1. cg.waiting_for'[Around'[k]] = Tail(w)
      BY <1>3, <1>8, <1>10, <2>1, <2>2, <2>3
    <3>2. Unwaited(actions, x + 1, k - 1) = Unwaited(actions, x, L) - 1
      <4>1. k - 1 = L
        BY <1>1, <2>3
      <4> QED BY <1>7, <1>8, <1>9, <2>1, <2>3, <4>1
    <3> QED BY <1>8, <1>9, <1>10, <3>1, <3>2
  <2>4. CASE k # L + 1
    <3>1. cg.waiting_for'[Around'[k]] = cg.waiting_for[Around[k]]
      BY <1>3, <1>10, <2>1, <2>2, <2>4
    <3>2. Unwaited(actions, x, k - 1) \in Int
      <4>1. k - 1 \in Int
        BY <1>1, <2>1
      <4> QED BY <1>4, <4>1, UnwaitedStep
    <3>3. Unwaited(actions, x + 1, k - 1) = Unwaited(actions, x, k - 1) + 0
      BY <1>7, <2>1, <2>4
    <3>4. Unwaited(actions, x + 1, k - 1) = Unwaited(actions, x, k - 1)
      BY <3>2, <3>3
    <3> QED BY <1>2, <1>10, <2>1, <3>1, <3>4
  <2> QED BY <2>3, <2>4
<1>16. \A i \in 1 .. cg.next' - 1 : actions'[i] = "wait" => Unwaited(actions', i, Nest(actions', i)) >= 1
  <2>1. \A i \in 1 .. cg.next' - 1 : i \in 1 .. x - 1 \/ i = x
    BY <1>4, <1>10
  <2>2. Unwaited(actions, x, Nest(actions, x)) >= 1
    BY <1>8, <1>9 DEF L
  <2> QED BY <1>3, <2>1, <2>2
<1>17. phase' = "generate"
  OBVIOUS
<1> QED BY <1>10, <1>12, <1>13, <1>14, <1>15, <1>16, <1>17 DEF Generated

LEMMA ExitCode ==
    ASSUME ForkInv, phase = "generate", cg.next <= Len(actions), actions[cg.next] = "exit",
           gen_exit, phase' = phase, actions' = actions
    PROVE  Generated'
<1> DEFINE n == Len(actions)
           x == cg.next
           L == Nest(actions, x)
           q == cg.parent_list
<1>1. /\ actions \in Seq(Commands) /\ n \in Nat /\ x \in 1 .. n + 1 /\ Last1 = n + 1
      /\ L \in Nat /\ Len(q) = L /\ q \in Seq(Nat) /\ cg.curr_thread \in Nat
      /\ Around \in Seq(Nat) /\ Len(Around) = L + 1
  BY GenerateFacts
<1>2. \A k \in 1 .. L + 1 : /\ Around[k] \in 0 .. Named(x - 1) /\ \A m \in 1 .. k - 1 : Around[m] < Around[k]
                            /\ Len(cg.waiting_for[Around[k]]) = Unwaited(actions, x, k - 1)
  BY GenerateFacts
<1>3. /\ cg.waiting_for \in [0 .. Named(x - 1) -> Seq(Nat)] /\ Named(x - 1) \in Nat
      /\ \A i \in 1 .. x - 1 : actions[i] = "wait" => Unwaited(actions, i, Nest(actions, i)) >= 1
  BY GenerateFacts
<1>4. x \in 1 .. n /\ x \in Nat \ {0} /\ (x + 1) - 1 = x
  BY <1>1
<1>5. Named(x) = Named(x - 1) /\ L >= 1
  <2>1. Named(x) = Named(x - 1)
    <3>1. Named(x) = Named(x - 1) + 0
      BY <1>1, <1>4, Numbers
    <3> QED BY <1>3, <3>1
  <2>2. Nested(actions)
    BY DEF ForkInv, Written
  <2> QED BY <1>4, <2>1, <2>2 DEF Nested
<1>6. Nest(actions, x + 1) = L - 1
  <2>1. Nest(actions, x + 1) = Nest(actions, x) + (-1)
    BY <1>4, NestStep
  <2> QED BY <1>1, <2>1
<1>7. ASSUME NEW k \in 1 .. L PROVE Unwaited(actions, x + 1, k - 1) = Unwaited(actions, x, k - 1)
  <2>1. k - 1 \in Int /\ Nest(actions, x + 1) >= k - 1 /\ Nest(actions, x) # k - 1
    <3>1. Nest(actions, x) = L
      OBVIOUS
    <3> HIDE DEF L
    <3> QED BY <1>1, <1>6, <3>1
  <2>2. Unwaited(actions, x + 1, k - 1) = Unwaited(actions, x, k - 1) + 0 /\ Unwaited(actions, x, k - 1) \in Int
    BY <1>4, <2>1, UnwaitedStep
  <2> QED BY <2>2
<1>8. /\ cg.next' = x + 1 /\ cg.curr_thread' = Last(q) /\ cg.parent_list' = Front(q)
      /\ cg.waiting_for' = cg.waiting_for /\ DOMAIN cg' = {"next", "curr_thread", "parent_list", "waiting_for"}
  <2>1. DOMAIN cg = {"next", "curr_thread", "parent_list", "waiting_for"}
    BY DEF ForkInv, Generated
  <2> QED BY <2>1 DEF gen_exit
<1>9. /\ Front(q) \in Seq(Nat) /\ Len(Front(q)) = L - 1 /\ Last(q) \in Nat /\ Append(Front(q), Last(q)) = q
  <2> HIDE DEF q, L
  <2>1. L \in Nat /\ L >= 1 /\ Len(q) = L /\ q \in Seq(Nat)
    BY <1>1, <1>5
  <2>2. /\ Front(q) \in Seq(Nat) /\ Len(Front(q)) = L - 1 /\ Last(q) \in Nat /\ Last(q) = q[L]
        /\ \A k \in 1 .. L - 1 : Front(q)[k] = q[k]
    BY <2>1 DEF Front, Last
  <2>3. Append(Front(q), Last(q)) \in Seq(Nat) /\ Len(Append(Front(q), Last(q))) = Len(q)
    BY <2>1, <2>2
  <2>4. \A k \in 1 .. Len(q) : Append(Front(q), Last(q))[k] = q[k]
    BY <2>1, <2>2
  <2>5. Append(Front(q), Last(q)) = q
    BY <2>1, <2>3, <2>4, SameElements
  <2> QED BY <2>2, <2>5
<1>10. /\ Around' = q /\ DOMAIN Around' = 1 .. L /\ \A k \in 1 .. L : Around'[k] = Around[k]
  <2>1. Around' = q
    BY <1>8, <1>9 DEF Around
  <2>2. \A k \in 1 .. L : Around[k] = q[k]
    BY <1>1 DEF Around
  <2>3. DOMAIN q = 1 .. L
    <3> HIDE DEF L
    <3> QED BY <1>1
  <2> HIDE DEF q, L
  <2> QED BY <2>1, <2>2, <2>3
<1>11. Named(cg.next - 1)' = Named(x - 1) /\ Last1' = Last1
  BY <1>4, <1>5, <1>8 DEF Named, Last1
<1>12. \A k \in 1 .. L : k \in 1 .. L + 1
  BY <1>1
<1> HIDE DEF L, q
<1>13. /\ cg.next' \in 1 .. Last1' /\ cg.parent_list' \in Seq(Nat) /\ cg.curr_thread' \in Nat
       /\ Len(cg.parent_list') = Nest(actions', cg.next')
  <2>1. x + 1 \in 1 .. Last1'
    BY <1>1, <1>4, <1>11
  <2>2. actions' = actions
    OBVIOUS
  <2> QED BY <1>6, <1>8, <1>9, <2>1, <2>2
<1>14. \A k \in DOMAIN Around' : Around'[k] <= Named(cg.next - 1)' /\ \A m \in 1 .. k - 1 : Around'[m] < Around'[k]
  <2> SUFFICES ASSUME NEW k \in 1 .. L
               PROVE  Around'[k] <= Named(cg.next - 1)' /\ \A m \in 1 .. k - 1 : Around'[m] < Around'[k]
    BY <1>10
  <2>1. k \in 1 .. L + 1 /\ \A m \in 1 .. k - 1 : m \in 1 .. L
    BY <1>1
  <2>2. Around[k] \in 0 .. Named(x - 1) /\ \A m \in 1 .. k - 1 : Around[m] < Around[k]
    BY <1>2, <2>1
  <2> QED BY <1>3, <1>10, <1>11, <2>1, <2>2
<1>15. cg.waiting_for' \in [0 .. Named(cg.next - 1)' -> Seq(Nat)]
  BY <1>3, <1>8, <1>11
<1>16. \A k \in DOMAIN Around' : Len(cg.waiting_for'[Around'[k]]) = Unwaited(actions', cg.next', k - 1)
  BY <1>2, <1>7, <1>8, <1>10, <1>12
<1>17. \A i \in 1 .. cg.next' - 1 : actions'[i] = "wait" => Unwaited(actions', i, Nest(actions', i)) >= 1
  <2>1. \A i \in 1 .. cg.next' - 1 : i \in 1 .. x - 1 \/ i = x
    BY <1>4, <1>8
  <2>2. actions[x] # "wait"
    OBVIOUS
  <2> QED BY <1>3, <2>1, <2>2
<1>18. phase' = "generate"
  OBVIOUS
<1> QED BY <1>8, <1>13, <1>14, <1>15, <1>16, <1>17, <1>18 DEF Generated

\* The one error there is: a wait before its fork.
LEMMA ErrorIs ==
    ASSUME ForkInv, phase = "generate", cg.next <= Len(actions), Fails
    PROVE  EarlyWait
<1> DEFINE n == Len(actions)
           x == cg.next
           L == Nest(actions, x)
           w == cg.waiting_for[cg.curr_thread]
<1>1. /\ actions \in Seq(Commands) /\ n \in Nat /\ x \in 1 .. n + 1
      /\ L \in Nat /\ Len(cg.parent_list) = L
      /\ cg.parent_list \in Seq(Nat) /\ Around[L + 1] = cg.curr_thread
  BY GenerateFacts
<1>2. x \in 1 .. n /\ actions[x] \in Commands /\ x \in DOMAIN actions
  BY <1>1
<1>3. Len(w) = Unwaited(actions, x, L) /\ w \in Seq(Nat)
  <2>1. L + 1 \in 1 .. L + 1 /\ (L + 1) - 1 = L
    BY <1>1
  <2>2. Around[L + 1] \in 0 .. Named(x - 1) /\ Len(cg.waiting_for[Around[L + 1]]) = Unwaited(actions, x, (L + 1) - 1)
    BY <2>1, GenerateFacts
  <2>3. cg.waiting_for \in [0 .. Named(x - 1) -> Seq(Nat)]
    BY GenerateFacts
  <2> QED BY <1>1, <2>1, <2>2, <2>3
<1>4. actions[x] = "exit" => L >= 1 /\ Len(w) = 0
  <2>1. Nested(actions)
    BY DEF ForkInv, Written
  <2> QED BY <1>2, <1>3, <2>1 DEF Nested
<1>5. \/ actions[x] = "exit" /\ (w # <<>> \/ cg.parent_list = <<>>)
      \/ actions[x] = "wait" /\ w = <<>>
  BY <1>2 DEF Fails, Commands
<1>6. actions[x] # "exit"
  <2> SUFFICES ASSUME actions[x] = "exit" PROVE FALSE
    OBVIOUS
  <2>1. L >= 1 /\ Len(w) = 0
    BY <1>4
  <2>2. w = <<>>
    <3> HIDE DEF w
    <3> QED BY <1>3, <2>1
  <2>3. cg.parent_list # <<>>
    <3> HIDE DEF L
    <3> QED BY <1>1, <2>1
  <2> QED BY <1>5, <2>2, <2>3
<1>7. actions[x] = "wait" /\ Unwaited(actions, x, L) = 0
  <2>1. Len(<<>>) = 0
    OBVIOUS
  <2> QED BY <1>3, <1>5, <1>6, <2>1
<1>8. Own(x) = Block(actions, x, L)
  BY <1>1, <1>2, LevelIs
<1>9. /\ Cardinality({j \in Own(x) : actions[j] = "wait"}) = Times(actions, "wait", Own(x))
      /\ Cardinality({j \in Own(x) : actions[j] = "fork"}) = Times(actions, "fork", Own(x))
  BY DEF Times
<1>10. Times(actions, "wait", Own(x)) \in Nat /\ Times(actions, "fork", Own(x)) \in Nat
  <2>1. Own(x) \in SUBSET (1 .. x - 1) /\ x \notin Own(x)
    BY DEF Own
  <2>2. IsFiniteSet(Own(x))
    <3>1. IsFiniteSet(1 .. x - 1)
      BY <1>2, FS_Interval
    <3> QED BY <2>1, <3>1, FS_Subset
  <2> QED BY <2>1, <2>2, TimesIs
<1>11. Times(actions, "wait", Own(x)) >= Times(actions, "fork", Own(x))
  <2>1. Times(actions, "fork", Own(x)) - Times(actions, "wait", Own(x)) = 0
    BY <1>7, <1>8 DEF Unwaited
  <2> QED BY <1>10, <2>1
<1>12. x \in {k \in DOMAIN actions : actions[k] = "wait"}
  BY <1>2, <1>7
<1> QED BY <1>9, <1>11, <1>12 DEF EarlyWait

\* The first process, before its first command.
LEMMA RunStarts ==
    ASSUME actions \in Seq(Commands), phase' = "run", procs' = [p \in {0} |-> First], actions' = actions
    PROVE  ProcsRun'
<1>1. /\ DOMAIN procs' = {0} /\ procs'[0] = First /\ Last1' \in Nat \ {0} /\ Len(actions) \in Nat
  BY DEF Last1
<1>2. /\ First.pc = 1 /\ First.state = "running" /\ First.parent = -1 /\ First.head = {}
      /\ First \in [pc : Int, state : {"running", "zombie", "reaped"}, parent : Int, head : SUBSET Int]
  BY DEF First
<1>3. MadeBy(0)' = 0 /\ LevelOf(0)' = Nest(actions, 1)
  <2>1. MadeBy(0)' = 0
    BY DEF MadeBy
  <2> QED BY <2>1 DEF LevelOf
<1>4. Nest(actions, 1) = 0 /\ Unwaited(actions, 1, 0) = 0
  <2>1. 1 \in Nat \ {0} /\ 0 \in Int
    OBVIOUS
  <2> QED BY <2>1, NestStep, UnwaitedStep
<1>5. Children(0)' = {}
  BY <1>1, <1>2 DEF Children
<1>6. Placed(0)'
  <2>1. procs'[0].pc = 1 /\ procs'[0].state = "running"
    BY <1>1, <1>2
  <2>2. 1 \in MadeBy(0)' + 1 .. Last1' /\ \A k \in MadeBy(0)' + 1 .. 1 : k = 1
    BY <1>1, <1>3
  <2>3. Cardinality(Children(0)') = 0
    BY <1>5, FS_EmptySet
  <2> QED BY <1>3, <1>4, <1>5, <2>1, <2>2, <2>3 DEF Placed
<1>7. procs' \in [DOMAIN procs' -> [pc : Int, state : {"running", "zombie", "reaped"}, parent : Int, head : SUBSET Int]]
  BY <1>1, <1>2
<1>8. DOMAIN procs' \in SUBSET (0 .. Len(actions')) /\ 0 \in DOMAIN procs' /\ procs'[0].parent = -1
  BY <1>1, <1>2
<1> QED BY <1>1, <1>6, <1>7, <1>8 DEF ProcsRun

LEMMA GenerateHolds ==
    ASSUME ForkInv, generate
    PROVE  ForkInv'
<1>1. phase = "generate" /\ actions' = actions /\ need_wait' = need_wait
  BY DEF generate
<1>2. /\ actions \in Seq(Commands) /\ Len(actions) \in Nat /\ cg.next \in 1 .. Len(actions) + 1
      /\ Last1 = Len(actions) + 1
      /\ \A i \in 1 .. cg.next - 1 : actions[i] = "wait" => Unwaited(actions, i, Nest(actions, i)) >= 1
  BY <1>1, GenerateFacts
<1>3. Nested(actions) /\ Nest(actions, Last1) = 0 /\ Unwaited(actions, Last1, 0) = 0 /\ Last1' = Last1
  BY <1>1 DEF ForkInv, Written, Last1
<1>5. CASE cg.next > Len(actions)
  <2>1. phase' = "run" /\ procs' = [p \in {0} |-> First] /\ cg' = cg
    BY <1>5 DEF generate
  <2>2. ProcsRun'
    BY <1>1, <1>2, <2>1, RunStarts
  <2>3. Written'
    BY <1>1, <1>3, <2>1 DEF Written
  <2>4. cg.next' = Last1'
    BY <1>2, <1>3, <1>5, <2>1
  <2>5. Generated'
    BY <1>1, <1>2, <2>1, <2>4 DEF Generated
  <2> QED BY <2>2, <2>3, <2>5 DEF ForkInv
<1>6. CASE cg.next <= Len(actions) /\ Fails
  <2>1. ~(cg.next > Len(actions))
    BY <1>2, <1>6
  <2>2. phase' = "error" /\ UNCHANGED <<cg, procs>>
    BY <1>6, <2>1 DEF generate
  <2>3. EarlyWait'
    <3>1. EarlyWait
      BY <1>1, <1>6, ErrorIs
    <3>2. ASSUME NEW i PROVE Own(i)' = Own(i)
      <4>1. \A j : Level(j)' = Level(j)
        BY <1>1 DEF Level
      <4> QED BY <4>1 DEF Own
    <3>3. PICK i \in {k \in DOMAIN actions : actions[k] = "wait"} :
            Cardinality({j \in Own(i) : actions[j] = "wait"}) >= Cardinality({j \in Own(i) : actions[j] = "fork"})
      BY <3>1 DEF EarlyWait
    <3>4. /\ {j \in Own(i)' : actions'[j] = "wait"} = {j \in Own(i) : actions[j] = "wait"}
          /\ {j \in Own(i)' : actions'[j] = "fork"} = {j \in Own(i) : actions[j] = "fork"}
      BY <1>1, <3>2
    <3>5. i \in {k \in DOMAIN actions' : actions'[k] = "wait"}
      BY <1>1, <3>3
    <3> QED BY <3>3, <3>4, <3>5 DEF EarlyWait
  <2>4. Written'
    BY <2>2 DEF Written
  <2>5. Generated'
    BY <2>2, <2>3 DEF Generated
  <2>6. ProcsRun'
    BY <2>2 DEF ProcsRun
  <2> QED BY <2>4, <2>5, <2>6 DEF ForkInv
<1>7. CASE cg.next <= Len(actions) /\ ~Fails
  <2>1. ~(cg.next > Len(actions)) /\ cg.next \in DOMAIN actions
    BY <1>2, <1>7
  <2>2. /\ phase' = phase /\ procs' = procs
        /\ CASE actions[cg.next] = "fork" -> gen_fork
             [] actions[cg.next] = "wait" -> gen_wait
             [] actions[cg.next] = "exit" -> gen_exit
    BY <1>7, <2>1 DEF generate
  <2>3. actions[cg.next] \in Commands
    BY <1>2, <2>1
  <2>4. ASSUME actions[cg.next] = "fork" PROVE Generated'
    <3>1. gen_fork
      BY <2>2, <2>4
    <3> QED BY <1>1, <1>7, <2>2, <2>4, <3>1, ForkCode
  <2>5. ASSUME actions[cg.next] = "wait" PROVE Generated'
    <3>1. gen_wait
      BY <2>2, <2>5
    <3>2. cg.waiting_for[cg.curr_thread] # <<>>
      BY <1>7, <2>5 DEF Fails
    <3> QED BY <1>1, <1>7, <2>2, <2>5, <3>1, <3>2, WaitCode
  <2>6. ASSUME actions[cg.next] = "exit" PROVE Generated'
    <3>1. gen_exit
      BY <2>2, <2>6
    <3> QED BY <1>1, <1>7, <2>2, <2>6, <3>1, ExitCode
  <2>7. Generated'
    BY <2>3, <2>4, <2>5, <2>6 DEF Commands
  <2>8. Written' /\ ProcsRun'
    BY <1>1, <1>3, <2>2 DEF Written, ProcsRun
  <2> QED BY <2>7, <2>8 DEF ForkInv
<1> QED BY <1>2, <1>5, <1>6, <1>7

-----------------------------------------------------------------------------
(* generator.py: the processes.                                            *)

\* Behind the braces of a fork there is one child more to wait for.
LEMMA BehindBraces ==
    ASSUME actions \in Seq(Commands), NEW i \in DOMAIN actions, actions[i] = "fork", NEW j, Braces(i, j)
    PROVE  Unwaited(actions, j + 1, Nest(actions, i)) = Unwaited(actions, i, Nest(actions, i)) + 1
<1> DEFINE n == Len(actions)
           h == Nest(actions, i)
           B == Block(actions, i, h)
<1>1. n \in Nat /\ i \in 1 .. n /\ j \in i + 1 .. n /\ i \in Nat \ {0}
  BY DEF Braces
<1>2. /\ \A k \in i + 1 .. j : Nest(actions, k) >= h + 1
      /\ Nest(actions, j + 1) = h
  BY DEF Braces
<1>3. \A k \in 1 .. n + 1 : Nest(actions, k) \in Int
  <2> TAKE k \in 1 .. n + 1
  <2>1. k \in Nat \ {0}
    BY <1>1
  <2> QED BY <2>1, NestStep
<1>4. h \in Int /\ B \in SUBSET (1 .. i - 1)
  <2>1. h \in Int
    BY <1>1, NestStep
  <2> HIDE DEF h
  <2> QED BY <1>1, <2>1, BlockStep
<1> HIDE DEF h
<1>5. Block(actions, j + 1, h) = B \cup {i}
  <2>1. ASSUME NEW m \in 1 .. i - 1
        PROVE  m \in Block(actions, j + 1, h) <=> m \in B
    <3>1. m \in 1 .. (j + 1) - 1
      BY <1>1
    <3>2. (\A k \in m .. j + 1 : Nest(actions, k) >= h) <=> \A k \in m .. i : Nest(actions, k) >= h
      <4>1. \A k \in m .. j + 1 : k \in m .. i \/ k \in i + 1 .. j \/ k = j + 1
        BY <1>1
      <4>2. \A k \in m .. i : k \in m .. j + 1
        BY <1>1
      <4>3. \A k \in m .. j + 1 : k \in 1 .. n + 1
        BY <1>1
      <4>4. \A k \in i + 1 .. j : Nest(actions, k) >= h
        <5> TAKE k \in i + 1 .. j
        <5>1. k \in 1 .. n + 1
          BY <1>1
        <5> QED BY <1>2, <1>3, <1>4, <5>1
      <4>5. Nest(actions, j + 1) >= h
        BY <1>2, <1>4
      <4> QED BY <4>1, <4>2, <4>4, <4>5
    <3> QED BY <3>1, <3>2 DEF Block
  <2>2. i \in Block(actions, j + 1, h)
    <3>1. i \in 1 .. (j + 1) - 1 /\ Nest(actions, i) = h
      BY <1>1 DEF h
    <3>2. \A k \in i .. j + 1 : Nest(actions, k) >= h
      <4> TAKE k \in i .. j + 1
      <4>1. k \in 1 .. n + 1 /\ (k = i \/ k \in i + 1 .. j \/ k = j + 1)
        BY <1>1
      <4> QED BY <1>2, <1>3, <1>4, <3>1, <4>1
    <3> QED BY <3>1, <3>2 DEF Block
  <2>3. ASSUME NEW m \in i + 1 .. j PROVE m \notin Block(actions, j + 1, h)
    <3>1. Nest(actions, m) # h
      <4>1. m \in 1 .. n + 1
        BY <1>1
      <4> QED BY <1>2, <1>3, <1>4, <4>1
    <3> QED BY <3>1 DEF Block
  <2>4. \A m \in Block(actions, j + 1, h) : m \in 1 .. i - 1 \/ m = i \/ m \in i + 1 .. j
    <3>1. \A m \in Block(actions, j + 1, h) : m \in 1 .. (j + 1) - 1
      BY DEF Block
    <3> QED BY <1>1, <3>1
  <2> QED BY <1>4, <2>1, <2>2, <2>3, <2>4
<1>6. IsFiniteSet(B) /\ i \notin B
  <2>1. IsFiniteSet(1 .. i - 1)
    <3>1. 1 \in Int /\ i - 1 \in Int
      BY <1>1
    <3> QED BY <3>1, FS_Interval
  <2> QED BY <1>1, <1>4, <2>1, FS_Subset
<1>7. /\ Times(actions, "fork", B) \in Nat /\ Times(actions, "fork", B \cup {i}) = Times(actions, "fork", B) + 1
      /\ Times(actions, "wait", B) \in Nat /\ Times(actions, "wait", B \cup {i}) = Times(actions, "wait", B)
  <2>1. Times(actions, "fork", B \cup {i}) = Times(actions, "fork", B) + 1 /\ Times(actions, "fork", B) \in Nat
    BY <1>6, TimesIs
  <2>2. Times(actions, "wait", B \cup {i}) = Times(actions, "wait", B) + 0 /\ Times(actions, "wait", B) \in Nat
    BY <1>6, TimesIs
  <2> QED BY <2>1, <2>2
<1>8. /\ Unwaited(actions, i, h) = Times(actions, "fork", B) - Times(actions, "wait", B)
      /\ Unwaited(actions, j + 1, h) = Times(actions, "fork", B \cup {i}) - Times(actions, "wait", B \cup {i})
  BY <1>5 DEF Unwaited
<1>9. Unwaited(actions, j + 1, h) = Unwaited(actions, i, h) + 1
  <2> HIDE DEF B
  <2> QED BY <1>7, <1>8
<1> QED BY <1>9 DEF h

LEMMA MadeByIs ==
    ASSUME actions \in Seq(Commands), NEW i \in DOMAIN actions, actions[i] = "fork"
    PROVE  /\ MadeBy(Named(i)) = i /\ Named(i) \in 1 .. i
           /\ LevelOf(Named(i)) = Nest(actions, i) + 1
<1>1. Len(actions) \in Nat /\ i \in 1 .. Len(actions) /\ i \in 0 .. Len(actions) /\ i - 1 \in 0 .. Len(actions)
  OBVIOUS
<1>2. Named(i) \in 1 .. i
  <2>1. Named(i) = Named(i - 1) + 1 /\ Named(i - 1) \in 0 .. i - 1
    BY <1>1, Numbers
  <2> QED BY <1>1, <2>1
<1>3. ASSUME NEW j \in DOMAIN actions, actions[j] = "fork", Named(j) = Named(i) PROVE j = i
  <2>1. j \in 1 .. Len(actions) /\ j \in 0 .. Len(actions)
    OBVIOUS
  <2>2. j < i => Named(j) < Named(i)
    BY Numbers
  <2>3. i < j => Named(i) < Named(j)
    BY <1>3, Numbers
  <2> QED BY <1>1, <1>2, <1>3, <2>1, <2>2, <2>3
<1>4. MadeBy(Named(i)) = CHOOSE k \in DOMAIN actions : actions[k] = "fork" /\ Named(k) = Named(i)
  BY <1>2 DEF MadeBy
<1>5. MadeBy(Named(i)) = i
  BY <1>3, <1>4
<1>6. Nest(actions, i + 1) = Nest(actions, i) + 1
  BY <1>1, NestStep
<1> QED BY <1>2, <1>5, <1>6 DEF LevelOf

LEMMA RunFacts ==
    ASSUME ForkInv, phase = "run"
    PROVE  /\ actions \in Seq(Commands) /\ Len(actions) \in Nat /\ Last1 = Len(actions) + 1
           /\ Nested(actions) /\ Nest(actions, Last1) = 0 /\ Unwaited(actions, Last1, 0) = 0
           /\ \A i \in 1 .. Last1 : Nest(actions, i) \in Nat
           /\ \A i \in DOMAIN actions : actions[i] = "wait" => Unwaited(actions, i, Nest(actions, i)) >= 1
           /\ DOMAIN procs \in SUBSET (0 .. Len(actions)) /\ 0 \in DOMAIN procs
           /\ procs \in [DOMAIN procs -> [pc : Int, state : {"running", "zombie", "reaped"},
                                          parent : Int, head : SUBSET Int]]
           /\ procs[0].parent = -1
           /\ \A p \in DOMAIN procs : /\ Placed(p) /\ p \in Nat /\ (p # 0 => MadeInside(p))
                                      /\ Children(p) \in SUBSET DOMAIN procs /\ IsFiniteSet(Children(p))
<1>1. Nested(actions) /\ Nest(actions, Last1) = 0 /\ Unwaited(actions, Last1, 0) = 0
  BY DEF ForkInv, Written
<1>2. actions \in Seq(Commands) /\ Len(actions) \in Nat /\ Last1 = Len(actions) + 1
  BY <1>1 DEF Nested, Last1
<1>3. \A i \in 1 .. Last1 : Nest(actions, i) \in Nat
  <2> TAKE i \in 1 .. Last1
  <2>1. i \in Nat \ {0} /\ i \in 1 .. Len(actions) + 1
    BY <1>2
  <2>2. Nest(actions, i) >= 0
    BY <1>1, <2>1 DEF Nested
  <2>3. Nest(actions, i) \in Int
    BY <2>1, NestStep
  <2> QED BY <2>2, <2>3
<1>4. \A i \in 1 .. cg.next - 1 : actions[i] = "wait" => Unwaited(actions, i, Nest(actions, i)) >= 1
  BY DEF ForkInv, Generated
<1>5. cg.next = Last1
  BY DEF ForkInv, Generated
<1>6. \A i \in DOMAIN actions : i \in 1 .. cg.next - 1
  BY <1>2, <1>5
<1>7. /\ DOMAIN procs \in SUBSET (0 .. Len(actions)) /\ 0 \in DOMAIN procs
      /\ procs \in [DOMAIN procs -> [pc : Int, state : {"running", "zombie", "reaped"},
                                     parent : Int, head : SUBSET Int]]
      /\ procs[0].parent = -1
      /\ \A p \in DOMAIN procs : Placed(p) /\ (p # 0 => MadeInside(p))
  BY DEF ForkInv, ProcsRun
<1>8. IsFiniteSet(DOMAIN procs)
  <2>1. 0 \in Int /\ Len(actions) \in Int
    BY <1>2
  <2>2. IsFiniteSet(0 .. Len(actions))
    BY <2>1, FS_Interval
  <2> QED BY <1>7, <2>2, FS_Subset
<1>9. \A p \in DOMAIN procs : p \in Nat /\ Children(p) \in SUBSET DOMAIN procs /\ IsFiniteSet(Children(p))
  <2> TAKE p \in DOMAIN procs
  <2>1. Children(p) \in SUBSET DOMAIN procs
    BY DEF Children
  <2>2. p \in Nat
    BY <1>2, <1>7
  <2> QED BY <1>8, <2>1, <2>2, FS_Subset
<1> QED BY <1>1, <1>2, <1>3, <1>4, <1>6, <1>7, <1>9

\* Where a process came from.
LEMMA MadeAt ==
    ASSUME ForkInv, phase = "run", NEW p \in DOMAIN procs
    PROVE  /\ MadeBy(p) \in Nat /\ LevelOf(p) \in Nat
           /\ p = 0 => MadeBy(p) = 0 /\ LevelOf(p) = 0
           /\ p # 0 => /\ MadeBy(p) \in DOMAIN actions /\ actions[MadeBy(p)] = "fork" /\ Named(MadeBy(p)) = p
                       /\ LevelOf(p) = Nest(actions, MadeBy(p)) + 1
<1>1. actions \in Seq(Commands) /\ Len(actions) \in Nat /\ \A i \in 1 .. Last1 : Nest(actions, i) \in Nat
  BY RunFacts
<1>2. CASE p = 0
  <2>1. MadeBy(p) = 0
    BY <1>2 DEF MadeBy
  <2>2. 1 \in Nat \ {0}
    OBVIOUS
  <2>3. Nest(actions, 1) = 0
    BY <2>2, NestStep
  <2> QED BY <1>2, <2>1, <2>3 DEF LevelOf
<1>3. CASE p # 0
  <2>1. PICK i \in DOMAIN actions : actions[i] = "fork" /\ Named(i) = p
    <3>1. MadeInside(p)
      BY <1>3, RunFacts
    <3> QED BY <3>1 DEF MadeInside
  <2>2. MadeBy(p) = i /\ LevelOf(p) = Nest(actions, i) + 1
    BY <1>1, <2>1, MadeByIs
  <2>3. Nest(actions, i) \in Nat
    <3>1. i \in 1 .. Last1
      BY <1>1 DEF Last1
    <3> QED BY <1>1, <3>1
  <2>4. i \in Nat
    BY <1>1
  <2> QED BY <1>3, <2>1, <2>2, <2>3, <2>4
<1> QED BY <1>2, <1>3

LEMMA LevelsStay ==
    ASSUME actions' = actions, NEW p
    PROVE  MadeBy(p)' = MadeBy(p) /\ LevelOf(p)' = LevelOf(p) /\ Last1' = Last1
<1>1. MadeBy(p)' = MadeBy(p)
  BY DEF MadeBy, Named
<1> QED BY <1>1 DEF LevelOf, Last1

LEMMA StillPlaced ==
    ASSUME actions' = actions, NEW p, Placed(p), procs'[p] = procs[p], Children(p)' = Children(p)
    PROVE  Placed(p)'
<1>1. MadeBy(p)' = MadeBy(p) /\ LevelOf(p)' = LevelOf(p) /\ Last1' = Last1
  BY LevelsStay
<1> QED BY <1>1 DEF Placed

LEMMA StillInside ==
    ASSUME actions' = actions, NEW p, MadeInside(p), NEW q, q = procs[p].parent, procs'[p].parent = q,
           q \in DOMAIN procs', procs[q].pc \in Int, procs'[q].pc \in Int, procs[q].pc <= procs'[q].pc,
           MadeBy(p) \in Int, MadeBy(q) \in Int
    PROVE  MadeInside(p)'
<1>1. MadeBy(p)' = MadeBy(p) /\ LevelOf(p)' = LevelOf(p) /\ MadeBy(q)' = MadeBy(q) /\ LevelOf(q)' = LevelOf(q)
  BY LevelsStay
<1>2. \A i : Named(i)' = Named(i)
  BY DEF Named
<1>3. /\ \E i \in DOMAIN actions : actions[i] = "fork" /\ Named(i) = p
      /\ MadeBy(p) \in MadeBy(q) + 1 .. procs[q].pc - 1 /\ Nest(actions, MadeBy(p)) = LevelOf(q)
  BY DEF MadeInside
<1>4. MadeBy(p) \in MadeBy(q) + 1 .. procs'[q].pc - 1
  BY <1>3
<1>5. /\ MadeBy(p)' \in MadeBy(q)' + 1 .. procs'[q].pc - 1
      /\ Nest(actions', MadeBy(p)') = LevelOf(q)'
      /\ \E i \in DOMAIN actions' : actions'[i] = "fork" /\ Named(i)' = p
  BY <1>1, <1>2, <1>3, <1>4
<1> QED BY <1>5 DEF MadeInside

LEMMA RunKeeps ==
    ASSUME ForkInv, phase = "run", phase' \in {"run", "done"}, UNCHANGED <<actions, need_wait, cg>>, ProcsRun'
    PROVE  ForkInv'
<1>1. Written'
  <2>1. Nested(actions) /\ Nest(actions, Last1) = 0 /\ Unwaited(actions, Last1, 0) = 0 /\ Last1' = Last1
    BY LevelsStay, RunFacts
  <2> QED BY <2>1 DEF Written
<1>2. Generated'
  <2>1. /\ \A i \in 1 .. cg.next - 1 : actions[i] = "wait" => Unwaited(actions, i, Nest(actions, i)) >= 1
        /\ cg.next = Last1 /\ Last1' = Last1
    BY LevelsStay DEF ForkInv, Generated
  <2> QED BY <2>1 DEF Generated
<1> QED BY <1>1, <1>2 DEF ForkInv

\* No two processes do the same command, so the name of a child is a new one.
LEMMA OneProcess ==
    ASSUME ForkInv, phase = "run", NEW p \in DOMAIN procs, NEW q \in DOMAIN procs,
           MadeBy(q) < procs[p].pc, procs[p].pc < procs[q].pc, LevelOf(p) = LevelOf(q)
    PROVE  FALSE
<1>1. /\ MadeBy(p) \in Nat /\ LevelOf(p) \in Nat
      /\ p # 0 => /\ MadeBy(p) \in DOMAIN actions /\ Named(MadeBy(p)) = p
                  /\ LevelOf(p) = Nest(actions, MadeBy(p)) + 1
      /\ p = 0 => MadeBy(p) = 0
  BY MadeAt
<1>2. /\ MadeBy(q) \in Nat /\ LevelOf(q) \in Nat
      /\ q # 0 => /\ MadeBy(q) \in DOMAIN actions /\ Named(MadeBy(q)) = q
                  /\ LevelOf(q) = Nest(actions, MadeBy(q)) + 1
      /\ q = 0 => MadeBy(q) = 0
  BY MadeAt
<1>3. /\ procs[p].pc \in Int /\ procs[q].pc \in Int /\ Len(actions) \in Nat
      /\ DOMAIN actions = 1 .. Len(actions) /\ Last1 = Len(actions) + 1
      /\ \A k \in 1 .. Last1 : Nest(actions, k) \in Nat
  BY RunFacts
<1>4. /\ procs[p].pc \in MadeBy(p) + 1 .. Last1
      /\ \A k \in MadeBy(p) + 1 .. procs[p].pc : Nest(actions, k) >= LevelOf(p)
  BY RunFacts DEF Placed
<1>5. /\ procs[q].pc \in MadeBy(q) + 1 .. Last1
      /\ \A k \in MadeBy(q) + 1 .. procs[q].pc : Nest(actions, k) >= LevelOf(q)
  BY RunFacts DEF Placed
<1>6. MadeBy(p) # MadeBy(q)
  <2> SUFFICES ASSUME MadeBy(p) = MadeBy(q) PROVE FALSE
    OBVIOUS
  <2>1. p = q
    BY <1>1, <1>2, <1>3
  <2> QED BY <1>3, <2>1
<1>7. ~ (MadeBy(q) < MadeBy(p))
  <2> SUFFICES ASSUME MadeBy(q) < MadeBy(p) PROVE FALSE
    OBVIOUS
  <2>1. p # 0
    BY <1>1, <1>2
  <2>2. MadeBy(p) \in MadeBy(q) + 1 .. procs[q].pc /\ MadeBy(p) \in 1 .. Last1
    <3>1. MadeBy(p) \in 1 .. Len(actions) /\ MadeBy(p) < procs[p].pc
      BY <1>1, <1>3, <1>4, <2>1
    <3> QED BY <1>1, <1>2, <1>3, <3>1
  <2>3. Nest(actions, MadeBy(p)) >= LevelOf(q) /\ Nest(actions, MadeBy(p)) \in Nat
    BY <1>3, <1>5, <2>2
  <2> QED BY <1>1, <1>2, <2>1, <2>3
<1>8. ~ (MadeBy(p) < MadeBy(q))
  <2> SUFFICES ASSUME MadeBy(p) < MadeBy(q) PROVE FALSE
    OBVIOUS
  <2>1. q # 0
    BY <1>1, <1>2
  <2>2. MadeBy(q) \in MadeBy(p) + 1 .. procs[p].pc /\ MadeBy(q) \in 1 .. Last1
    <3>1. MadeBy(q) \in 1 .. Len(actions)
      BY <1>2, <1>3, <2>1
    <3> QED BY <1>1, <1>2, <1>3, <3>1
  <2>3. Nest(actions, MadeBy(q)) >= LevelOf(p) /\ Nest(actions, MadeBy(q)) \in Nat
    BY <1>3, <1>4, <2>2
  <2> QED BY <1>1, <1>2, <2>1, <2>3
<1> QED BY <1>1, <1>2, <1>6, <1>7, <1>8

\* What a process that forks, waits or ends is at.
LEMMA DoesFacts ==
    ASSUME ForkInv, NEW p \in DOMAIN procs, NEW command, Does(p, command), command # "return"
    PROVE  LET i == procs[p].pc
           IN  /\ i \in DOMAIN actions /\ i \in 1 .. Len(actions) /\ actions[i] = command
               /\ procs[p].state = "running" /\ MadeBy(p) < i
               /\ Nest(actions, i) = LevelOf(p) /\ Cardinality(Children(p)) = Unwaited(actions, i, LevelOf(p))
               /\ \A k \in MadeBy(p) + 1 .. i : Nest(actions, k) >= LevelOf(p)
               /\ Children(p) \subseteq procs[p].head
<1> DEFINE i == procs[p].pc
<1>1. phase = "run" /\ procs[p].state = "running"
  BY DEF Does
<1>2. ~ (i > Len(actions)) /\ actions[i] = command
  BY DEF Does
<1>3. Len(actions) \in Nat /\ Last1 = Len(actions) + 1 /\ DOMAIN actions = 1 .. Len(actions) /\ Placed(p)
  BY <1>1, RunFacts
<1>4. MadeBy(p) \in Nat
  BY <1>1, MadeAt
<1>5. /\ i \in MadeBy(p) + 1 .. Last1
      /\ Nest(actions, i) = LevelOf(p) /\ Cardinality(Children(p)) = Unwaited(actions, i, LevelOf(p))
      /\ \A k \in MadeBy(p) + 1 .. i : Nest(actions, k) >= LevelOf(p)
      /\ Children(p) \subseteq procs[p].head
  BY <1>1, <1>3 DEF Placed
<1>6. i \in 1 .. Len(actions) /\ MadeBy(p) < i
  BY <1>2, <1>3, <1>4, <1>5
<1> QED BY <1>1, <1>2, <1>3, <1>5, <1>6

LEMMA NewName ==
    ASSUME ForkInv, NEW p \in DOMAIN procs, Does(p, "fork")
    PROVE  Named(procs[p].pc) \notin DOMAIN procs
<1> DEFINE i == procs[p].pc
           c == Named(i)
           q == procs[c].parent
<1>1. phase = "run" /\ actions \in Seq(Commands)
  BY RunFacts DEF Does
<1>2. i \in DOMAIN actions /\ actions[i] = "fork" /\ Nest(actions, i) = LevelOf(p)
  BY DoesFacts
<1>3. MadeBy(c) = i /\ c \in 1 .. i /\ i \in Nat
  BY <1>1, <1>2, MadeByIs
<1> SUFFICES ASSUME c \in DOMAIN procs PROVE FALSE
  OBVIOUS
<1>4. c # 0
  BY <1>3
<1>5. MadeInside(c)
  BY <1>1, <1>4, RunFacts
<1>6. q \in DOMAIN procs /\ MadeBy(c) \in MadeBy(q) + 1 .. procs[q].pc - 1 /\ Nest(actions, MadeBy(c)) = LevelOf(q)
  BY <1>5 DEF MadeInside
<1>7. MadeBy(q) \in Nat /\ procs[q].pc \in Int
  BY <1>1, <1>6, MadeAt, RunFacts
<1>8. MadeBy(q) < procs[p].pc /\ procs[p].pc < procs[q].pc /\ LevelOf(p) = LevelOf(q)
  BY <1>2, <1>3, <1>6, <1>7
<1> QED BY <1>1, <1>6, <1>8, OneProcess

LEMMA NewProcHolds ==
    ASSUME ForkInv, NEW p \in DOMAIN procs, Fork(p), UNCHANGED <<actions, need_wait, cg>>,
           NEW i, i = procs[p].pc, NEW c, c = Named(i), NEW j, j = Closes(i)
    PROVE  ForkInv'
<1> DEFINE N == DOMAIN procs
           R == [pc : Int, state : {"running", "zombie", "reaped"}, parent : Int, head : SUBSET Int]
           child  == [procs[p] EXCEPT !.pc = @ + 1, !.parent = p]
           parent == [procs[p] EXCEPT !.pc = j + 1, !.head = @ \cup {c}]
<1>1. Does(p, "fork") /\ phase' = phase /\ actions' = actions
  BY DEF Fork
<1>2. phase = "run"
  BY <1>1 DEF Does
<1>3. /\ actions \in Seq(Commands) /\ Len(actions) \in Nat /\ Last1 = Len(actions) + 1
      /\ Nest(actions, Last1) = 0 /\ \A k \in 1 .. Last1 : Nest(actions, k) \in Nat
      /\ N \in SUBSET (0 .. Len(actions)) /\ 0 \in N /\ procs \in [N -> R] /\ procs[0].parent = -1
      /\ \A r \in N : Placed(r) /\ r \in Nat /\ (r # 0 => MadeInside(r))
  BY <1>2, RunFacts
<1>4. IsFiniteSet(Children(p)) /\ Children(p) \in SUBSET N
  BY <1>2, RunFacts
<1>5. /\ i \in DOMAIN actions /\ i \in 1 .. Len(actions) /\ actions[i] = "fork"
      /\ procs[p].state = "running" /\ MadeBy(p) < i
      /\ Nest(actions, i) = LevelOf(p) /\ Cardinality(Children(p)) = Unwaited(actions, i, LevelOf(p))
      /\ \A k \in MadeBy(p) + 1 .. i : Nest(actions, k) >= LevelOf(p)
      /\ Children(p) \subseteq procs[p].head
  BY <1>1, DoesFacts
<1>6. MadeBy(p) \in Nat /\ LevelOf(p) \in Nat
  BY <1>2, MadeAt
<1>7. MadeBy(c) = i /\ c \in 1 .. i /\ LevelOf(c) = Nest(actions, i) + 1
  BY <1>3, <1>5, MadeByIs
<1>8. c \notin N /\ c \in 1 .. Len(actions) /\ c # p /\ c # 0
  <2>1. c \notin N
    BY <1>1, NewName
  <2> QED BY <1>5, <1>7, <2>1
<1>9. Braces(i, j)
  <2>1. Nest(actions, Len(actions) + 1) = 0 /\ Nest(actions, i) >= 0
    BY <1>3, <1>5, <1>6
  <2> QED BY <1>3, <1>5, <2>1, ClosesIs
<1>10. /\ j \in i + 1 .. Len(actions) /\ Nest(actions, j + 1) = Nest(actions, i)
       /\ \A k \in i + 1 .. j : Nest(actions, k) >= Nest(actions, i) + 1
  BY <1>9 DEF Braces
<1>11. procs' = [q \in N \cup {c} |-> IF q = c THEN child ELSE IF q = p THEN parent ELSE procs[q]]
  <2>1. Name(actions, i) = c
    <3>1. i \in 0 .. Len(actions)
      BY <1>5
    <3> QED BY <1>3, <3>1, Numbers
  <2> QED BY <2>1 DEF Fork
<1>12. procs[p] \in R /\ p \in Nat /\ \A r \in N : procs[r] \in R
  BY <1>3
<1>13. /\ child.pc = i + 1 /\ child.state = "running" /\ child.parent = p /\ child.head = procs[p].head /\ child \in R
       /\ parent.pc = j + 1 /\ parent.state = "running" /\ parent.parent = procs[p].parent
       /\ parent.head = procs[p].head \cup {c} /\ parent \in R
  <2>1. i + 1 \in Int /\ j + 1 \in Int /\ p \in Int /\ c \in Int
    BY <1>5, <1>8, <1>10, <1>12
  <2> HIDE DEF N
  <2> QED BY <1>5, <1>12, <2>1
<1> HIDE DEF child, parent
<1>14. /\ DOMAIN procs' = N \cup {c} /\ procs'[c] = child /\ procs'[p] = parent
       /\ \A r \in N : r # c /\ (r # p => procs'[r] = procs[r])
  BY <1>8, <1>11
<1>15. \A r \in N : /\ procs'[r].parent = procs[r].parent /\ procs'[r].state = procs[r].state
                     /\ procs[r].pc \in Int /\ procs'[r].pc \in Int /\ procs[r].pc <= procs'[r].pc
  <2> TAKE r \in N
  <2>1. CASE r = p
    <3>1. i \in Int /\ j + 1 \in Int /\ i <= j + 1
      BY <1>5, <1>10
    <3> QED BY <1>5, <1>13, <1>14, <2>1, <3>1
  <2>2. CASE r # p
    BY <1>12, <1>14, <2>2
  <2> QED BY <2>1, <2>2
<1>16. \A r \in N : procs[r].parent # c
  <2> TAKE r \in N
  <2>1. CASE r = 0
    BY <1>3, <1>7, <2>1
  <2>2. CASE r # 0
    <3>1. MadeInside(r)
      BY <1>3, <2>2
    <3>2. procs[r].parent \in N
      BY <3>1 DEF MadeInside
    <3> QED BY <1>8, <3>2
  <2> QED BY <2>1, <2>2
<1>17. /\ Children(c)' = {} /\ Children(p)' = Children(p) \cup {c}
       /\ \A r \in N : r # p => Children(r)' = Children(r)
  <2>1. \A r : Children(r)' = {d \in N \cup {c} : procs'[d].parent = r /\ procs'[d].state # "reaped"}
    BY <1>14 DEF Children
  <2>2. procs'[c].parent = p /\ procs'[c].state # "reaped"
    BY <1>13, <1>14
  <2>3. \A r : Children(r) = {d \in N : procs[d].parent = r /\ procs[d].state # "reaped"}
    BY DEF Children
  <2>4. \A r : {d \in N : procs'[d].parent = r /\ procs'[d].state # "reaped"} = Children(r)
    BY <1>15, <2>3
  <2>5. \A r : Children(r)' = Children(r) \cup (IF r = p THEN {c} ELSE {})
    <3> HIDE DEF N
    <3> QED BY <1>8, <2>1, <2>2, <2>4
  <2>6. Children(c) = {}
    BY <1>16, <2>3
  <2> QED BY <1>8, <2>5, <2>6
<1>18. Placed(c)'
  <2>1. MadeBy(c)' = i /\ LevelOf(c)' = Nest(actions, i) + 1 /\ Last1' = Last1
    BY <1>1, <1>7, LevelsStay
  <2>2. i \in Nat \ {0} /\ Nest(actions, i) \in Int
    BY <1>5, NestStep
  <2>3. Nest(actions, i + 1) = Nest(actions, i) + 1
    BY <1>5, <2>2, NestStep
  <2>4. Unwaited(actions, i + 1, Nest(actions, i) + 1) = 0
    <3>1. Nest(actions, i) + 1 \in Int /\ Nest(actions, i) < Nest(actions, i) + 1
      BY <2>2
    <3> QED BY <2>2, <3>1, UnwaitedStep
  <2>5. Cardinality(Children(c)') = 0
    BY <1>17, FS_EmptySet
  <2>6. i + 1 \in i + 1 .. Last1 /\ \A k \in i + 1 .. i + 1 : k = i + 1
    BY <1>3, <1>5
  <2>7. \A k \in i + 1 .. i + 1 : Nest(actions, k) >= Nest(actions, i) + 1
    BY <2>2, <2>3, <2>6
  <2> QED BY <1>1, <1>13, <1>14, <1>17, <2>1, <2>3, <2>4, <2>5, <2>6, <2>7 DEF Placed
<1>19. Placed(p)'
  <2>1. MadeBy(p)' = MadeBy(p) /\ LevelOf(p)' = LevelOf(p) /\ Last1' = Last1
    BY <1>1, LevelsStay
  <2>2. Nest(actions, j + 1) = LevelOf(p) /\ j + 1 \in MadeBy(p) + 1 .. Last1
    BY <1>3, <1>5, <1>6, <1>10
  <2>3. \A k \in MadeBy(p) + 1 .. j + 1 : Nest(actions, k) >= LevelOf(p)
    <3> TAKE k \in MadeBy(p) + 1 .. j + 1
    <3>1. k \in MadeBy(p) + 1 .. i \/ k \in i + 1 .. j \/ k = j + 1
      BY <1>5, <1>6, <1>10
    <3>2. ASSUME k \in i + 1 .. j PROVE Nest(actions, k) \in Nat
      <4>1. k \in 1 .. Last1
        BY <1>3, <1>5, <1>10, <3>2
      <4> QED BY <1>3, <4>1
    <3> QED BY <1>5, <1>6, <1>10, <2>2, <3>1, <3>2
  <2>4. Cardinality(Children(p)') = Unwaited(actions, j + 1, LevelOf(p))
    <3>1. c \notin Children(p)
      BY <1>4, <1>8
    <3>2. Cardinality(Children(p) \cup {c}) = Cardinality(Children(p)) + 1
      BY <1>4, <3>1, FS_AddElement
    <3>3. Unwaited(actions, j + 1, LevelOf(p)) = Unwaited(actions, i, LevelOf(p)) + 1
      BY <1>3, <1>5, <1>9, BehindBraces
    <3> QED BY <1>5, <1>17, <3>2, <3>3
  <2>5. Children(p)' \subseteq procs'[p].head
    BY <1>5, <1>13, <1>14, <1>17
  <2> QED BY <1>1, <1>13, <1>14, <2>1, <2>2, <2>3, <2>4, <2>5 DEF Placed
<1>20. MadeInside(c)'
  <2>1. MadeBy(c)' = i /\ MadeBy(p)' = MadeBy(p) /\ LevelOf(p)' = LevelOf(p)
    BY <1>1, <1>7, LevelsStay
  <2>2. \E k \in DOMAIN actions' : actions'[k] = "fork" /\ Named(k)' = c
    <3>1. Named(i)' = c
      BY <1>1 DEF Named
    <3> QED BY <1>1, <1>5, <3>1
  <2>3. i \in MadeBy(p) + 1 .. (j + 1) - 1
    BY <1>5, <1>6, <1>10
  <2> QED BY <1>1, <1>5, <1>13, <1>14, <2>1, <2>2, <2>3 DEF MadeInside
<1>21. ASSUME NEW r \in N, r # 0 PROVE MadeInside(r)'
  <2>1. MadeInside(r) /\ MadeBy(r) \in Int
    BY <1>2, <1>3, <1>21, MadeAt
  <2>2. procs[r].parent \in N
    BY <2>1 DEF MadeInside
  <2>3. MadeBy(procs[r].parent) \in Int
    BY <1>2, <2>2, MadeAt
  <2> QED BY <1>1, <1>14, <1>15, <2>1, <2>2, <2>3, StillInside
<1>22. ASSUME NEW r \in N, r # p PROVE Placed(r)'
  BY <1>1, <1>3, <1>14, <1>17, <1>22, StillPlaced
<1>23. ProcsRun'
  <2>1. DOMAIN procs' \in SUBSET (0 .. Len(actions')) /\ 0 \in DOMAIN procs'
    BY <1>1, <1>3, <1>8, <1>14
  <2>2. procs' \in [DOMAIN procs' -> R]
    BY <1>11, <1>12, <1>13, <1>14
  <2>3. procs'[0].parent = -1
    BY <1>3, <1>15
  <2>4. \A r \in DOMAIN procs' : Placed(r)' /\ (r # 0 => MadeInside(r)')
    BY <1>14, <1>18, <1>19, <1>20, <1>21, <1>22
  <2> QED BY <2>1, <2>2, <2>3, <2>4 DEF ProcsRun
<1> QED BY <1>1, <1>2, <1>23, RunKeeps

LEMMA WaitHolds ==
    ASSUME ForkInv, NEW p \in DOMAIN procs, Wait(p), UNCHANGED <<actions, need_wait, cg>>
    PROVE  ForkInv'
<1> DEFINE i == procs[p].pc
           N == DOMAIN procs
           R == [pc : Int, state : {"running", "zombie", "reaped"}, parent : Int, head : SUBSET Int]
<1>1. Does(p, "wait") /\ actions' = actions
  BY DEF Wait
<1>2. phase = "run"
  BY <1>1 DEF Does
<1>3. /\ actions \in Seq(Commands) /\ Len(actions) \in Nat /\ Last1 = Len(actions) + 1
      /\ N \in SUBSET (0 .. Len(actions)) /\ 0 \in N /\ procs \in [N -> R] /\ procs[0].parent = -1
      /\ \A k \in DOMAIN actions : actions[k] = "wait" => Unwaited(actions, k, Nest(actions, k)) >= 1
      /\ \A r \in N : Placed(r) /\ r \in Nat /\ (r # 0 => MadeInside(r))
  BY <1>2, RunFacts
<1>4. IsFiniteSet(Children(p)) /\ Children(p) \in SUBSET N
  BY <1>2, RunFacts
<1>5. /\ i \in DOMAIN actions /\ i \in 1 .. Len(actions) /\ actions[i] = "wait"
      /\ procs[p].state = "running" /\ MadeBy(p) < i
      /\ Nest(actions, i) = LevelOf(p) /\ Cardinality(Children(p)) = Unwaited(actions, i, LevelOf(p))
      /\ \A k \in MadeBy(p) + 1 .. i : Nest(actions, k) >= LevelOf(p)
      /\ Children(p) \subseteq procs[p].head
  BY <1>1, DoesFacts
<1>6. MadeBy(p) \in Nat /\ LevelOf(p) \in Nat
  BY <1>2, MadeAt
<1>7. Children(p) # {}
  <2>1. Cardinality(Children(p)) >= 1
    <3>1. Unwaited(actions, i, Nest(actions, i)) >= 1
      BY <1>3, <1>5
    <3> QED BY <1>5, <3>1
  <2>2. Cardinality({}) = 0
    BY FS_EmptySet
  <2> QED BY <2>1, <2>2
<1>8. PICK c \in Children(p) :
        /\ procs[c].state = "zombie"
        /\ procs' = [procs EXCEPT ![p].pc = @ + 1, ![c].state = "reaped"]
        /\ phase' = IF c \in procs[p].head THEN phase ELSE "assert failed"
  BY <1>7 DEF Wait
<1>9. phase' = phase
  <2>1. c \in procs[p].head
    BY <1>5
  <2> QED BY <1>8, <2>1
<1>10. c \in N /\ c # p /\ procs[c].parent = p
  <2>1. c \in N /\ procs[c].parent = p
    BY DEF Children
  <2> QED BY <1>5, <1>8, <2>1
<1>11. \A r \in N : procs[r] \in R
  BY <1>3
<1>12. DOMAIN procs' = N /\ \A r \in N : r # p /\ r # c => procs'[r] = procs[r]
  BY <1>8
<1>13. /\ procs'[p] = [procs[p] EXCEPT !.pc = i + 1]
       /\ procs'[c] = [procs[c] EXCEPT !.state = "reaped"]
  BY <1>3, <1>8, <1>10, <1>11
<1>14. /\ procs'[p].pc = i + 1 /\ procs'[p].state = procs[p].state
       /\ procs'[p].parent = procs[p].parent /\ procs'[p].head = procs[p].head /\ procs'[p] \in R
  <2>1. procs[p] \in R /\ i + 1 \in Int
    BY <1>5, <1>11
  <2> HIDE DEF N
  <2> QED BY <1>13, <2>1
<1>15. /\ procs'[c].pc = procs[c].pc /\ procs'[c].state = "reaped"
       /\ procs'[c].parent = procs[c].parent /\ procs'[c].head = procs[c].head /\ procs'[c] \in R
  <2>1. procs[c] \in R
    BY <1>10, <1>11
  <2> HIDE DEF N
  <2> QED BY <1>13, <2>1
<1>16. \A r \in N : /\ procs'[r].parent = procs[r].parent
                    /\ procs[r].pc \in Int /\ procs'[r].pc \in Int /\ procs[r].pc <= procs'[r].pc
                    /\ procs'[r] \in R
  <2> TAKE r \in N
  <2>1. CASE r = p
    <3>1. i \in Int /\ i + 1 \in Int /\ i <= i + 1
      BY <1>5
    <3> QED BY <1>14, <2>1, <3>1
  <2>2. CASE r = c
    BY <1>10, <1>11, <1>15, <2>2
  <2>3. CASE r # p /\ r # c
    BY <1>11, <1>12, <2>3
  <2> QED BY <2>1, <2>2, <2>3
<1>17. \A r : Children(r)' = Children(r) \ (IF r = p THEN {c} ELSE {})
  <2>1. \A r : Children(r)' = {d \in N : procs'[d].parent = r /\ procs'[d].state # "reaped"}
    BY <1>12 DEF Children
  <2>2. \A r : Children(r) = {d \in N : procs[d].parent = r /\ procs[d].state # "reaped"}
    BY DEF Children
  <2>3. \A d \in N : (procs'[d].state # "reaped") <=> (procs[d].state # "reaped" /\ d # c)
    BY <1>8, <1>10, <1>12, <1>14, <1>15
  <2> HIDE DEF N
  <2> TAKE r
  <2>4. \A d \in N : d \in Children(r)' <=> d \in Children(r) /\ d # c
    BY <1>16, <2>1, <2>2, <2>3
  <2>5. r # p => c \notin Children(r)
    BY <1>10, <2>2
  <2> QED BY <2>1, <2>2, <2>4, <2>5
<1>18. Placed(p)'
  <2>1. MadeBy(p)' = MadeBy(p) /\ LevelOf(p)' = LevelOf(p) /\ Last1' = Last1
    BY <1>1, LevelsStay
  <2>2. i \in Nat \ {0} /\ Nest(actions, i) \in Int
    BY <1>5, NestStep
  <2>3. Nest(actions, i + 1) = LevelOf(p)
    <3>1. Nest(actions, i + 1) = Nest(actions, i) + 0
      BY <1>5, <2>2, NestStep
    <3> QED BY <1>5, <2>2, <3>1
  <2>4. Unwaited(actions, i + 1, LevelOf(p)) = Unwaited(actions, i, LevelOf(p)) + (-1)
    <3>1. LevelOf(p) \in Int /\ Nest(actions, i + 1) >= LevelOf(p) /\ Nest(actions, i) = LevelOf(p)
      BY <1>5, <1>6, <2>3
    <3> QED BY <1>5, <2>2, <3>1, UnwaitedStep
  <2>5. Cardinality(Children(p)') = Cardinality(Children(p)) - 1
    <3>1. Children(p)' = Children(p) \ {c}
      BY <1>17
    <3> QED BY <1>4, <1>8, <3>1, FS_RemoveElement
  <2>6. Cardinality(Children(p)') = Unwaited(actions, i + 1, LevelOf(p))
    <3>1. Unwaited(actions, i, LevelOf(p)) \in Int
      BY <1>6, <2>2, UnwaitedStep
    <3> QED BY <1>5, <2>4, <2>5, <3>1
  <2>7. i + 1 \in MadeBy(p) + 1 .. Last1
    BY <1>3, <1>5, <1>6
  <2>8. \A k \in MadeBy(p) + 1 .. i + 1 : Nest(actions, k) >= LevelOf(p)
    <3> TAKE k \in MadeBy(p) + 1 .. i + 1
    <3>1. k \in MadeBy(p) + 1 .. i \/ k = i + 1
      BY <1>5, <1>6
    <3> QED BY <1>5, <1>6, <2>3, <3>1
  <2>9. Children(p)' \subseteq procs'[p].head
    BY <1>5, <1>14, <1>17
  <2> HIDE DEF i
  <2> QED BY <1>1, <1>5, <1>14, <2>1, <2>3, <2>6, <2>7, <2>8, <2>9 DEF Placed
<1>19. Placed(c)'
  <2>1. MadeBy(c)' = MadeBy(c) /\ LevelOf(c)' = LevelOf(c) /\ Last1' = Last1
    BY <1>1, LevelsStay
  <2>2. Placed(c) /\ procs[c].state # "running"
    BY <1>3, <1>8, <1>10
  <2>3. Children(c)' = {}
    BY <1>17, <2>2 DEF Placed
  <2> QED BY <1>1, <1>15, <2>1, <2>2, <2>3 DEF Placed
<1>20. ASSUME NEW r \in N, r # p, r # c PROVE Placed(r)'
  <2>1. Children(r)' = Children(r) /\ procs'[r] = procs[r] /\ Placed(r)
    BY <1>3, <1>12, <1>17, <1>20
  <2> QED BY <1>1, <2>1, StillPlaced
<1>21. ASSUME NEW r \in N, r # 0 PROVE MadeInside(r)'
  <2>1. MadeInside(r) /\ MadeBy(r) \in Int
    BY <1>2, <1>3, <1>21, MadeAt
  <2>2. procs[r].parent \in N
    BY <2>1 DEF MadeInside
  <2>3. MadeBy(procs[r].parent) \in Int
    BY <1>2, <2>2, MadeAt
  <2> QED BY <1>1, <1>12, <1>16, <2>1, <2>2, <2>3, StillInside
<1>22. ProcsRun'
  <2>1. DOMAIN procs' \in SUBSET (0 .. Len(actions')) /\ 0 \in DOMAIN procs'
    BY <1>1, <1>3, <1>12
  <2>2. procs' \in [DOMAIN procs' -> R]
    <3>1. procs' = [r \in N |-> procs'[r]]
      BY <1>3, <1>8
    <3> QED BY <1>12, <1>16, <3>1
  <2>3. procs'[0].parent = -1
    BY <1>3, <1>16
  <2>4. \A r \in DOMAIN procs' : Placed(r)' /\ (r # 0 => MadeInside(r)')
    BY <1>12, <1>18, <1>19, <1>20, <1>21
  <2> QED BY <2>1, <2>2, <2>3, <2>4 DEF ProcsRun
<1> QED BY <1>1, <1>2, <1>9, <1>22, RunKeeps

LEMMA EndHolds ==
    ASSUME ForkInv, NEW p \in DOMAIN procs, End(p), UNCHANGED <<actions, need_wait, cg>>
    PROVE  ForkInv'
<1> DEFINE N == DOMAIN procs
           R == [pc : Int, state : {"running", "zombie", "reaped"}, parent : Int, head : SUBSET Int]
<1>1. /\ Does(p, "exit") \/ Does(p, "return")
      /\ procs' = [procs EXCEPT ![p].state = "zombie"] /\ actions' = actions
  BY DEF End
<1>2. phase = "run" /\ procs[p].state = "running"
  BY <1>1 DEF Does
<1>3. /\ actions \in Seq(Commands) /\ Len(actions) \in Nat /\ Last1 = Len(actions) + 1
      /\ Nested(actions) /\ Nest(actions, Last1) = 0 /\ Unwaited(actions, Last1, 0) = 0
      /\ N \in SUBSET (0 .. Len(actions)) /\ 0 \in N /\ procs \in [N -> R] /\ procs[0].parent = -1
      /\ \A r \in N : Placed(r) /\ r \in Nat /\ (r # 0 => MadeInside(r))
  BY <1>2, RunFacts
<1>4. IsFiniteSet(Children(p)) /\ Placed(p)
  BY <1>2, RunFacts
<1>5. phase' \in {"run", "done"}
  BY <1>2 DEF End
<1>6. Cardinality(Children(p)) = 0
  <2>1. CASE Does(p, "exit")
    <3>1. /\ procs[p].pc \in 1 .. Len(actions) /\ actions[procs[p].pc] = "exit"
          /\ Nest(actions, procs[p].pc) = LevelOf(p)
          /\ Cardinality(Children(p)) = Unwaited(actions, procs[p].pc, LevelOf(p))
      BY <2>1, DoesFacts
    <3>2. Unwaited(actions, procs[p].pc, Nest(actions, procs[p].pc)) = 0
      BY <1>3, <3>1 DEF Nested
    <3> QED BY <3>1, <3>2
  <2>2. CASE Does(p, "return")
    <3>1. procs[p].pc > Len(actions)
      <4>1. /\ procs[p].pc \in 1 .. Len(actions) => actions[procs[p].pc] \in Commands
            /\ ~ (procs[p].pc > Len(actions)) => actions[procs[p].pc] = "return"
        BY <1>3, <2>2 DEF Does
      <4>2. procs[p].pc \in MadeBy(p) + 1 .. Last1 /\ MadeBy(p) \in Nat
        BY <1>2, <1>4, MadeAt DEF Placed
      <4>3. "return" \notin Commands
        BY DEF Commands
      <4> QED BY <1>3, <4>1, <4>2, <4>3
    <3>2. procs[p].pc = Last1
      <4>1. procs[p].pc \in MadeBy(p) + 1 .. Last1 /\ MadeBy(p) \in Nat
        BY <1>2, <1>4, MadeAt DEF Placed
      <4> QED BY <1>3, <3>1, <4>1
    <3>3. Nest(actions, procs[p].pc) = LevelOf(p) /\ Cardinality(Children(p)) = Unwaited(actions, procs[p].pc, LevelOf(p))
      BY <1>2, <1>4 DEF Placed
    <3> QED BY <1>3, <3>2, <3>3
  <2> QED BY <1>1, <2>1, <2>2
<1>7. Children(p) = {}
  BY <1>4, <1>6, FS_EmptySet
<1>8. \A r \in N : procs[r] \in R
  BY <1>3
<1>9. DOMAIN procs' = N /\ procs'[p] = [procs[p] EXCEPT !.state = "zombie"] /\ \A r \in N : r # p => procs'[r] = procs[r]
  BY <1>1
<1>10. /\ procs'[p].pc = procs[p].pc /\ procs'[p].state = "zombie"
       /\ procs'[p].parent = procs[p].parent /\ procs'[p].head = procs[p].head /\ procs'[p] \in R
  <2>1. procs[p] \in R
    BY <1>8
  <2> HIDE DEF N
  <2> QED BY <1>9, <2>1
<1>11. \A r \in N : /\ procs'[r].parent = procs[r].parent /\ procs[r].pc \in Int /\ procs'[r].pc = procs[r].pc
                    /\ procs'[r] \in R
  <2> TAKE r \in N
  <2>1. procs[r] \in R
    BY <1>8
  <2>2. CASE r = p
    BY <1>10, <2>1, <2>2
  <2>3. CASE r # p
    BY <1>9, <2>1, <2>3
  <2> QED BY <2>2, <2>3
<1>12. \A r : Children(r)' = Children(r)
  <2>1. \A r : Children(r)' = {d \in N : procs'[d].parent = r /\ procs'[d].state # "reaped"}
    BY <1>9 DEF Children
  <2>2. \A r : Children(r) = {d \in N : procs[d].parent = r /\ procs[d].state # "reaped"}
    BY DEF Children
  <2>3. \A d \in N : (procs'[d].state # "reaped") <=> (procs[d].state # "reaped")
    BY <1>2, <1>9, <1>10
  <2> HIDE DEF N
  <2> QED BY <1>11, <2>1, <2>2, <2>3
<1>13. Placed(p)'
  <2>1. MadeBy(p)' = MadeBy(p) /\ LevelOf(p)' = LevelOf(p) /\ Last1' = Last1
    BY <1>1, LevelsStay
  <2>2. Children(p)' = {}
    BY <1>7, <1>12
  <2> QED BY <1>1, <1>4, <1>10, <2>1, <2>2 DEF Placed
<1>14. ASSUME NEW r \in N, r # p PROVE Placed(r)'
  <2>1. Children(r)' = Children(r) /\ procs'[r] = procs[r] /\ Placed(r)
    BY <1>3, <1>9, <1>12, <1>14
  <2> QED BY <1>1, <2>1, StillPlaced
<1>15. ASSUME NEW r \in N, r # 0 PROVE MadeInside(r)'
  <2>1. MadeInside(r) /\ MadeBy(r) \in Int
    BY <1>2, <1>3, <1>15, MadeAt
  <2>2. procs[r].parent \in N
    BY <2>1 DEF MadeInside
  <2>3. MadeBy(procs[r].parent) \in Int
    BY <1>2, <2>2, MadeAt
  <2> QED BY <1>1, <1>9, <1>11, <2>1, <2>2, <2>3, StillInside
<1>16. ProcsRun'
  <2>1. DOMAIN procs' \in SUBSET (0 .. Len(actions')) /\ 0 \in DOMAIN procs'
    BY <1>1, <1>3, <1>9
  <2>2. procs' \in [DOMAIN procs' -> R]
    <3>1. procs' = [r \in N |-> procs'[r]]
      BY <1>1, <1>3
    <3> QED BY <1>9, <1>11, <3>1
  <2>3. procs'[0].parent = -1
    BY <1>3, <1>11
  <2>4. \A r \in DOMAIN procs' : Placed(r)' /\ (r # 0 => MadeInside(r)')
    BY <1>9, <1>13, <1>14, <1>15
  <2> QED BY <2>1, <2>2, <2>3, <2>4 DEF ProcsRun
<1> QED BY <1>1, <1>2, <1>5, <1>16, RunKeeps

LEMMA ForkStepHolds == ASSUME ForkInv, ForkStep PROVE ForkInv'
<1>1. CASE add_fork_begin \/ add_wait \/ clean_up \/ parse_wait \/ parse_brace \/ parse_end
  BY <1>1, WriteHolds
<1>2. CASE generate
  BY <1>2, GenerateHolds
<1>3. CASE run
  <2>1. UNCHANGED <<actions, need_wait, cg>>
    BY <1>3 DEF run
  <2>2. PICK p \in DOMAIN procs : Fork(p) \/ Wait(p) \/ End(p)
    BY <1>3 DEF run
  <2>3. CASE Fork(p)
    BY <2>1, <2>3, NewProcHolds
  <2> QED BY <2>1, <2>2, <2>3, WaitHolds, EndHolds
<1> QED BY <1>1, <1>2, <1>3 DEF ForkStep

LEMMA ForkStays == ASSUME ForkInv, UNCHANGED forkVars PROVE ForkInv'
<1>1. UNCHANGED <<phase, actions, need_wait, cg, procs>>
  BY DEF forkVars
<1>2. Written' /\ (\A i : Named(i)' = Named(i)) /\ Last1' = Last1 /\ Around' = Around
  BY <1>1 DEF ForkInv, Written, Named, Last1, Around
<1>3. EarlyWait' = EarlyWait
  BY <1>1 DEF EarlyWait, Own, Level
<1>4. Generated'
  BY <1>1, <1>2, <1>3 DEF ForkInv, Generated
<1>5. \A p : Placed(p)' = Placed(p) /\ MadeInside(p)' = MadeInside(p)
  BY <1>1 DEF Placed, MadeInside, Children, LevelOf, MadeBy, Named, Last1
<1>6. ProcsRun'
  BY <1>1, <1>5 DEF ForkInv, ProcsRun
<1> QED BY <1>2, <1>4, <1>6 DEF ForkInv

LEMMA ForkInvReaps == ForkInv => ChildrenReaped
<1> SUFFICES ASSUME ForkInv PROVE ChildrenReaped
  OBVIOUS
<1>1. (phase = "error" => EarlyWait) /\ phase # "assert failed"
  BY DEF ForkInv, Generated
<1>2. phase \in {"run", "done"} => \A p \in DOMAIN procs : Placed(p)
  BY DEF ForkInv, ProcsRun
<1> QED BY <1>1, <1>2 DEF ChildrenReaped, Placed

-----------------------------------------------------------------------------
(* Sums.  MapThenSumSet adds up by removing one member after the other, in *)
(* an order nobody knows; SumOf is the same of a function.                 *)

\* What holds of a set whenever it holds of its proper subsets holds of a finite
\* set; Good is the set of the sets of which it holds.
LEMMA SmallerFirst ==
    ASSUME NEW S, IsFiniteSet(S), NEW Good,
           \A T \in SUBSET S : (\A U \in SUBSET T : U # T => U \in Good) => T \in Good
    PROVE  S \in Good
<1> DEFINE Bad == {k \in Nat : \E T \in SUBSET S : T \notin Good /\ Cardinality(T) = k}
<1> SUFFICES ASSUME S \notin Good PROVE FALSE
  OBVIOUS
<1>1. Cardinality(S) \in Bad
  BY FS_CardinalityType
<1>2. PICK k \in Bad : \A j \in Bad : k <= j
  <2> HIDE DEF Bad
  <2>1. Bad \in SUBSET Nat
    BY DEF Bad
  <2> QED BY <1>1, <2>1, LeastExists
<1>3. PICK T \in SUBSET S : T \notin Good /\ Cardinality(T) = k
  BY <1>2
<1>4. PICK U \in SUBSET T : U # T /\ U \notin Good
  BY <1>3
<1>5. IsFiniteSet(T)
  BY FS_Subset
<1>6. Cardinality(U) \in Nat /\ Cardinality(U) <= k /\ Cardinality(U) # k
  BY <1>3, <1>4, <1>5, FS_Subset, FS_CardinalityType
<1>7. Cardinality(U) \in Bad
  BY <1>4, <1>6
<1> QED
  BY <1>2, <1>6, <1>7

Rest(s) == s \ {CHOOSE x \in s : TRUE}

IsSum(g, v, S) ==
    g = [s \in SUBSET S |-> IF s = {} THEN 0 ELSE v[CHOOSE x \in s : TRUE] + g[Rest(s)]]

SumOf(v, S) == (CHOOSE g : IsSum(g, v, S))[S]

LEMMA RestIsSmaller == \A s : s # {} => Rest(s) \subseteq s /\ Rest(s) # s
<1> SUFFICES ASSUME NEW s, s # {} PROVE Rest(s) \subseteq s /\ Rest(s) # s
  OBVIOUS
<1>1. (CHOOSE x \in s : TRUE) \in s
  OBVIOUS
<1> QED
  BY <1>1 DEF Rest

LEMMA SumUnique ==
    ASSUME NEW S, IsFiniteSet(S), NEW v, NEW g, NEW h, NEW T, S \subseteq T, IsSum(g, v, S), IsSum(h, v, T)
    PROVE  g[S] = h[S]
<1> DEFINE Good == {s \in SUBSET S : g[s] = h[s]}
<1>1. ASSUME NEW s \in SUBSET S, \A u \in SUBSET s : u # s => u \in Good PROVE s \in Good
  <2>1. CASE s = {}
    BY <2>1 DEF IsSum
  <2>2. CASE s # {}
    <3>1. g[Rest(s)] = h[Rest(s)]
      BY <1>1, <2>2, RestIsSmaller
    <3>2. g[s] = v[CHOOSE x \in s : TRUE] + g[Rest(s)]
      BY <2>2 DEF IsSum
    <3>3. h[s] = v[CHOOSE x \in s : TRUE] + h[Rest(s)]
      BY <2>2 DEF IsSum
    <3> QED BY <3>1, <3>2, <3>3
  <2> QED BY <2>1, <2>2
<1> HIDE DEF Good
<1>2. S \in Good
  BY <1>1, SmallerFirst
<1> QED
  BY <1>2 DEF Good

\* There is a sum.
LEMMA SumExists ==
    ASSUME NEW S, IsFiniteSet(S), NEW v
    PROVE  IsSum(CHOOSE g : IsSum(g, v, S), v, S)
<1> DEFINE Good == {T \in SUBSET S : \E g : IsSum(g, v, T)}
<1>1. ASSUME NEW T \in SUBSET S, \A U \in SUBSET T : U # T => U \in Good PROVE T \in Good
  <2> DEFINE F(U) == CHOOSE g : IsSum(g, v, U)
             val(U) == IF U = {} THEN 0 ELSE v[CHOOSE x \in U : TRUE] + F(Rest(U))[Rest(U)]
             g == [U \in SUBSET T |-> val(U)]
  <2>1. \A U \in SUBSET T : U # T => IsSum(F(U), v, U)
    BY <1>1
  <2> HIDE DEF F
  <2>2. ASSUME NEW U \in SUBSET T, U # {} PROVE val(Rest(U)) = F(Rest(U))[Rest(U)]
    <3> DEFINE R == Rest(U)
    <3>1. R \in SUBSET T /\ R # T
      BY <2>2, RestIsSmaller
    <3>2. IsSum(F(R), v, R)
      BY <2>1, <3>1
    <3>3. CASE R = {}
      BY <3>2, <3>3 DEF IsSum
    <3>4. CASE R # {}
      <4>1. Rest(R) \in SUBSET R /\ Rest(R) \in SUBSET T /\ Rest(R) # T
        BY <3>1, <3>4, RestIsSmaller
      <4>2. IsSum(F(Rest(R)), v, Rest(R)) /\ IsFiniteSet(Rest(R))
        BY <2>1, <4>1, FS_Subset
      <4>3. F(Rest(R))[Rest(R)] = F(R)[Rest(R)]
        BY <3>2, <4>1, <4>2, SumUnique
      <4>4. F(R)[R] = v[CHOOSE x \in R : TRUE] + F(R)[Rest(R)]
        BY <3>2, <3>4 DEF IsSum
      <4> QED BY <3>4, <4>3, <4>4
    <3> QED BY <3>3, <3>4
  <2>3. \A U \in SUBSET T : U # {} => Rest(U) \in SUBSET T
    BY RestIsSmaller
  <2>4. \A U \in SUBSET T : U # {} => g[Rest(U)] = F(Rest(U))[Rest(U)]
    BY <2>2, <2>3
  <2>5. ASSUME NEW U \in SUBSET T
        PROVE  g[U] = IF U = {} THEN 0 ELSE v[CHOOSE x \in U : TRUE] + g[Rest(U)]
    <3>1. g[U] = IF U = {} THEN 0 ELSE v[CHOOSE x \in U : TRUE] + F(Rest(U))[Rest(U)]
      OBVIOUS
    <3> HIDE DEF g
    <3> QED BY <2>4, <3>1
  <2>6. g = [U \in SUBSET T |-> g[U]]
    OBVIOUS
  <2> HIDE DEF g
  <2>7. IsSum(g, v, T)
    BY <2>5, <2>6 DEF IsSum
  <2> QED BY <2>7
<1> HIDE DEF Good
<1>2. S \in Good
  BY <1>1, SmallerFirst
<1> QED
  BY <1>2 DEF Good

\* Any member may be the first.
LEMMA SumSteps ==
    ASSUME NEW S, IsFiniteSet(S), NEW v, \A x \in S : v[x] \in Int
    PROVE  /\ SumOf(v, S) \in Int
           /\ SumOf(v, {}) = 0
           /\ \A x \in S : SumOf(v, S) = v[x] + SumOf(v, S \ {x})
<1> DEFINE F == CHOOSE g : IsSum(g, v, S)
<1>1. IsSum(F, v, S)
  BY SumExists
<1> HIDE DEF F
<1>2. ASSUME NEW T \in SUBSET S PROVE SumOf(v, T) = F[T]
  <2>1. IsFiniteSet(T)
    BY FS_Subset
  <2> QED
    BY <1>1, <2>1, SumExists, SumUnique DEF SumOf
<1>3. F[{}] = 0
  BY <1>1 DEF IsSum
<1> DEFINE Good == {T \in SUBSET S : F[T] \in Int /\ \A x \in T : F[T] = v[x] + F[T \ {x}]}
<1>4. ASSUME NEW T \in SUBSET S, \A U \in SUBSET T : U # T => U \in Good PROVE T \in Good
  <2>1. CASE T = {}
    BY <1>3, <2>1
  <2>2. CASE T # {}
    <3> DEFINE c == CHOOSE x \in T : TRUE
    <3>1. c \in T
      BY <2>2
    <3>2. F[T] = v[c] + F[T \ {c}]
      BY <1>1, <2>2 DEF IsSum, Rest
    <3> HIDE DEF c
    <3>3. T \ {c} \in Good
      BY <1>4, <3>1
    <3>4. F[T] \in Int
      BY <3>1, <3>2, <3>3
    <3>5. ASSUME NEW x \in T, x # c PROVE F[T] = v[x] + F[T \ {x}]
      <4>1. T \ {x} \in Good /\ T \ {c, x} \in Good
        BY <1>4, <3>1
      <4>2. (T \ {c}) \ {x} = T \ {c, x} /\ (T \ {x}) \ {c} = T \ {c, x}
        OBVIOUS
      <4>3. /\ F[T \ {c}] = v[x] + F[T \ {c, x}]
            /\ F[T \ {x}] = v[c] + F[T \ {c, x}]
        BY <3>1, <3>3, <3>5, <4>1, <4>2
      <4>4. F[T \ {c, x}] \in Int /\ v[c] \in Int /\ v[x] \in Int
        BY <3>1, <4>1
      <4> QED
        BY <3>2, <4>3, <4>4
    <3> QED
      BY <3>2, <3>4, <3>5
  <2> QED BY <2>1, <2>2
<1> HIDE DEF Good
<1>5. S \in Good
  BY <1>4, SmallerFirst
<1>6. SumOf(v, {}) = 0
  BY <1>2, <1>3
<1>7. \A x \in S : SumOf(v, S \ {x}) = F[S \ {x}]
  BY <1>2
<1>8. SumOf(v, S) = F[S]
  BY <1>2
<1> QED
  BY <1>5, <1>6, <1>7, <1>8 DEF Good

\* w is above v everywhere, on A by c at least.
LEMMA SumAtLeast ==
    ASSUME NEW S, IsFiniteSet(S), NEW v, NEW w, NEW A, NEW c \in Int,
           \A x \in S : /\ v[x] \in Int /\ w[x] \in Int
                        /\ v[x] <= w[x]
                        /\ x \in A => v[x] + c <= w[x]
    PROVE  SumOf(v, S) + c * Cardinality(S \cap A) <= SumOf(w, S)
<1> DEFINE Ok(T) == SumOf(v, T) + c * Cardinality(T \cap A) <= SumOf(w, T)
           Good == {T \in SUBSET S : Ok(T)}
<1>1. ASSUME NEW T \in SUBSET S, \A U \in SUBSET T : U # T => U \in Good PROVE T \in Good
  <2>1. IsFiniteSet(T) /\ IsFiniteSet(T \cap A)
    BY FS_Subset, FS_Intersection
  <2>2. CASE T = {}
    <3>1. SumOf(v, {}) = 0 /\ SumOf(w, {}) = 0
      BY SumSteps
    <3>2. Cardinality(T \cap A) = 0
      BY <2>2, FS_EmptySet
    <3> QED
      BY <2>2, <3>1, <3>2
  <2>3. CASE T # {}
    <3>1. PICK x \in T : TRUE
      BY <2>3
    <3> DEFINE R == T \ {x}
    <3>2. /\ SumOf(v, T) = v[x] + SumOf(v, R)
          /\ SumOf(w, T) = w[x] + SumOf(w, R)
      BY <2>1, SumSteps
    <3>3. IsFiniteSet(R) /\ R \in SUBSET S
      BY <2>1, FS_Subset
    <3>4. SumOf(v, R) \in Int /\ SumOf(w, R) \in Int
      BY <3>3, SumSteps
    <3>5. Ok(R)
      BY <1>1
    <3>6. /\ Cardinality(R \cap A) \in Int
          /\ Cardinality(T \cap A) = Cardinality(R \cap A) + (IF x \in A THEN 1 ELSE 0)
      <4> DEFINE B == T \cap A
      <4>1. R \cap A = B \ {x} /\ (x \in B <=> x \in A) /\ IsFiniteSet(B)
        BY <2>1
      <4> HIDE DEF R, B
      <4>2. /\ Cardinality(B) \in Nat
            /\ Cardinality(B \ {x}) = IF x \in B THEN Cardinality(B) - 1 ELSE Cardinality(B)
        BY <4>1, FS_RemoveElement, FS_CardinalityType
      <4>3. Cardinality(R \cap A) = Cardinality(B \ {x})
        BY <4>1
      <4>4. /\ Cardinality(R \cap A) \in Int
            /\ Cardinality(B) = Cardinality(R \cap A) + (IF x \in A THEN 1 ELSE 0)
        BY <4>1, <4>2, <4>3
      <4> QED BY <4>4 DEF B
    <3> DEFINE k == Cardinality(R \cap A)
               m == Cardinality(T \cap A)
    <3>7. c * m = c * k + (IF x \in A THEN c ELSE 0) /\ c * k \in Int
      <4>1. k \in Int /\ m = k + (IF x \in A THEN 1 ELSE 0)
        BY <3>6
      <4> HIDE DEF k, m, R
      <4> QED
        BY <4>1
    <3>8. SumOf(v, R) + c * k <= SumOf(w, R)
      BY <3>5
    <3>9. v[x] \in Int /\ w[x] \in Int /\ v[x] <= w[x] /\ (x \in A => v[x] + c <= w[x])
      OBVIOUS
    <3> HIDE DEF R, k
    <3>10. SumOf(v, T) + c * m <= SumOf(w, T)
      <4> HIDE DEF m
      <4> QED
        BY <3>2, <3>4, <3>7, <3>8, <3>9
    <3> QED BY <3>10
  <2> QED BY <2>2, <2>3
<1> HIDE DEF Good
<1>2. S \in Good
  BY <1>1, SmallerFirst
<1> QED BY <1>2 DEF Good

LEMMA SumSame ==
    ASSUME NEW S, IsFiniteSet(S), NEW v, NEW w, \A x \in S : v[x] \in Int /\ w[x] = v[x]
    PROVE  SumOf(w, S) = SumOf(v, S)
<1>1. Cardinality(S \cap {}) = 0
  BY FS_EmptySet
<1>2. SumOf(v, S) \in Int /\ SumOf(w, S) \in Int
  BY SumSteps
<1>3. SumOf(v, S) + 0 * Cardinality(S \cap {}) <= SumOf(w, S)
  <2> DEFINE A == {}
  <2>1. 0 \in Int /\ \A x \in S : /\ v[x] \in Int /\ w[x] \in Int /\ v[x] <= w[x]
                                  /\ x \in A => v[x] + 0 <= w[x]
    OBVIOUS
  <2> HIDE DEF A
  <2>2. SumOf(v, S) + 0 * Cardinality(S \cap A) <= SumOf(w, S)
    BY <2>1, SumAtLeast
  <2> QED BY <2>2 DEF A
<1>4. SumOf(w, S) + 0 * Cardinality(S \cap {}) <= SumOf(v, S)
  <2> DEFINE A == {}
  <2>1. 0 \in Int /\ \A x \in S : /\ v[x] \in Int /\ w[x] \in Int /\ w[x] <= v[x]
                                  /\ x \in A => w[x] + 0 <= v[x]
    OBVIOUS
  <2> HIDE DEF A
  <2>2. SumOf(w, S) + 0 * Cardinality(S \cap A) <= SumOf(v, S)
    BY <2>1, SumAtLeast
  <2> QED BY <2>2 DEF A
<1> QED
  BY <1>1, <1>2, <1>3, <1>4

\* One member changes.
LEMMA SumChange ==
    ASSUME NEW S, IsFiniteSet(S), NEW v, NEW w, NEW x \in S, w[x] \in Int,
           \A y \in S : v[y] \in Int /\ (y # x => w[y] = v[y])
    PROVE  SumOf(w, S) = SumOf(v, S) + w[x] - v[x]
<1>1. SumOf(v, S) = v[x] + SumOf(v, S \ {x})
  BY SumSteps
<1>2. \A y \in S : w[y] \in Int
  OBVIOUS
<1>3. SumOf(w, S) = w[x] + SumOf(w, S \ {x})
  BY <1>2, SumSteps
<1>4. IsFiniteSet(S \ {x})
  BY FS_Subset
<1>5. SumOf(w, S \ {x}) = SumOf(v, S \ {x}) /\ SumOf(v, S \ {x}) \in Int
  BY <1>4, SumSame, SumSteps
<1> QED
  BY <1>1, <1>3, <1>5

\* All but one are 0.
LEMMA SumOne ==
    ASSUME NEW S, IsFiniteSet(S), NEW v, \A x \in S : v[x] = 0
    PROVE  SumOf(v, S) = 0
<1> DEFINE Good == {T \in SUBSET S : SumOf(v, T) = 0}
<1>1. ASSUME NEW T \in SUBSET S, \A U \in SUBSET T : U # T => U \in Good PROVE T \in Good
  <2>1. IsFiniteSet(T)
    BY FS_Subset
  <2>2. CASE T = {}
    BY <2>1, <2>2, SumSteps
  <2>3. CASE T # {}
    <3>1. PICK x \in T : TRUE
      BY <2>3
    <3>2. SumOf(v, T) = v[x] + SumOf(v, T \ {x})
      BY <2>1, SumSteps
    <3>3. SumOf(v, T \ {x}) = 0
      BY <1>1
    <3> QED BY <3>2, <3>3
  <2> QED BY <2>2, <2>3
<1> HIDE DEF Good
<1>2. S \in Good
  BY <1>1, SmallerFirst
<1> QED BY <1>2 DEF Good

\* The library's sum is such a sum.
LEMMA SumIs ==
    ASSUME NEW S, IsFiniteSet(S), NEW v
    PROVE  MapThenSumSet(LAMBDA x : v[x], S) = SumOf(v, S)
<1> DEFINE g == CHOOSE f : f = [s \in SUBSET S |-> IF s = {} THEN 0
                                ELSE v[CHOOSE x \in s : TRUE] + f[s \ {CHOOSE x \in s : TRUE}]]
<1>1. MapThenSumSet(LAMBDA x : v[x], S) = g[S]
  BY DEF MapThenSumSet, MapThenFoldSet
<1>2. IsSum(g, v, S)
  <2>1. g = CHOOSE f : IsSum(f, v, S)
    BY DEF IsSum, Rest
  <2> QED BY <2>1, SumExists
<1> HIDE DEF g
<1> QED BY <1>1, <1>2, SumExists, SumUnique DEF SumOf

-----------------------------------------------------------------------------
(* raid-graphics.py.  A state is a record of GetNextIOs and MarkDone; m is *)
(* the mapping, and h the parts of a request that a disk is busy with.     *)

PartsOf(m) == 1 .. (IF m = 0 THEN 1 ELSE 2)

Phases == {"NOT_STARTED", "DO_READ", "DO_WRITE", "DONE"}

AnimRequests(m) ==
    [op : {"read", "write"}, on : [PartsOf(m) -> Disks], y : Int, status : [PartsOf(m) -> Phases]]

AnimDisks ==
    [state : {"NULL", "SEEK", "XFER"}, op : {"none", "read", "write"}, current : Nat, lastY : Int,
     targetY : Int, head : Int, transfer : Int, delta : Int]

Tallies ==
    [request_count : Nat, needed : Int, logical_requests : Nat, window : Int,
     started : BOOLEAN, is_done : BOOLEAN]

AnimStates(m) == [q : Seq(AnimRequests(m)), d : [Disks -> AnimDisks], t : Tallies]

\* What the parts of a request can be at.
Phased(m, r) ==
    IF m = 0 THEN r.status[1] \in {"NOT_STARTED", Doing(r.op), "DONE"}
    ELSE LET a == r.status[1]
             b == r.status[2]
         IN  IF r.op = "read"
             THEN \/ a = "NOT_STARTED" /\ b = "NOT_STARTED"
                  \/ a \in {"DO_READ", "DONE"} /\ b = "DONE"
                  \/ a = "DONE" /\ b = "DO_READ"
             ELSE {a, b} \subseteq {"NOT_STARTED", "DO_WRITE", "DONE"}

\* The parts under way are those that have a disk.
Attended(m, r, h) == \A k \in PartsOf(m) : k \in h <=> r.status[k] \in {"DO_READ", "DO_WRITE"}

RequestOK(m, r, h) ==
    /\ m # 0 => r.on[1] # r.on[2]
    /\ Phased(m, r)
    /\ Attended(m, r, h)

\* ToDo, part by part.
PartLeft(r, k) == IF r.status[k] = "DONE" THEN 0 ELSE 1

IOsLeft(m, r) ==
    IF m = 0 THEN PartLeft(r, 1)
    ELSE IF r.op = "read" THEN IF r.status[1] = "DONE" /\ r.status[2] = "DONE" THEN 0 ELSE 1
    ELSE PartLeft(r, 1) + PartLeft(r, 2)

LEMMA PartsAre ==
    ASSUME NEW m \in {0, 1}
    PROVE  /\ 1 \in PartsOf(m) /\ (m # 0 => 2 \in PartsOf(m))
           /\ \A k \in PartsOf(m) : k = 1 \/ (k = 2 /\ m # 0)
BY DEF PartsOf

\* RequestOK without quantifiers.
LEMMA OKByKind ==
    ASSUME NEW m \in {0, 1}, NEW r \in AnimRequests(m), NEW h
    PROVE  LET busy(k) == k \in h <=> r.status[k] \in {"DO_READ", "DO_WRITE"}
           IN  /\ RequestOK(m, r, h) <=> /\ m # 0 => r.on[1] # r.on[2]
                                         /\ Phased(m, r)
                                         /\ busy(1)
                                         /\ m # 0 => busy(2)
               /\ r.op \in {"read", "write"}
               /\ r.status[1] \in Phases /\ (m # 0 => r.status[2] \in Phases)
BY PartsAre DEF RequestOK, Attended, AnimRequests

LEMMA LeftIsNat ==
    ASSUME NEW m \in {0, 1}, NEW r \in AnimRequests(m), NEW h, RequestOK(m, r, h)
    PROVE  /\ IOsLeft(m, r) \in Nat
           /\ \A k \in PartsOf(m) : k \in h => IOsLeft(m, r) # 0
<1>1. CASE m = 0
  BY <1>1, PartsAre, OKByKind DEF IOsLeft, PartLeft
<1>2. CASE m = 1 /\ r.op = "read"
  BY <1>2, PartsAre, OKByKind DEF IOsLeft, PartLeft
<1>3. CASE m = 1 /\ r.op = "write"
  BY <1>3, PartsAre, OKByKind DEF IOsLeft, PartLeft
<1> QED
  BY <1>1, <1>2, <1>3, OKByKind

\* The operations a request still takes.
LEMMA ToDoIs ==
    ASSUME NEW m \in {0, 1}, NEW r \in AnimRequests(m) PROVE ToDo(r) = IOsLeft(m, r)
<1> DEFINE left == {k \in DOMAIN r.status : r.status[k] # "DONE"}
<1>1. /\ ToDo(r) = IF r.op = "read" /\ left # {} THEN 1 ELSE Cardinality(left)
      /\ \A k : k \in left <=> k \in PartsOf(m) /\ r.status[k] # "DONE"
  BY DEF ToDo, AnimRequests
<1> HIDE DEF left
<1>2. /\ Cardinality({}) = 0 /\ Cardinality({1}) = 1 /\ Cardinality({2}) = 1
      /\ Cardinality({1, 2}) = 2
  <2>1. IsFiniteSet({1}) /\ Cardinality({1}) = 1 /\ Cardinality({2}) = 1
    BY FS_Singleton
  <2>2. {1, 2} = {1} \cup {2} /\ 2 \notin {1}
    OBVIOUS
  <2>3. Cardinality({1} \cup {2}) = Cardinality({1}) + 1
    BY <2>1, <2>2, FS_AddElement
  <2>4. Cardinality({1, 2}) = 2
    BY <2>1, <2>2, <2>3
  <2> QED BY <2>1, <2>4, FS_EmptySet
<1>3. CASE m = 0
  <2>1. left = IF r.status[1] = "DONE" THEN {} ELSE {1}
    BY <1>1, <1>3, PartsAre
  <2> QED BY <1>1, <1>2, <1>3, <2>1 DEF IOsLeft, PartLeft
<1>4. CASE m = 1
  <2>1. left = IF r.status[1] = "DONE" THEN IF r.status[2] = "DONE" THEN {} ELSE {2}
               ELSE IF r.status[2] = "DONE" THEN {1} ELSE {1, 2}
    BY <1>1, <1>4, PartsAre
  <2>2. {1} # {} /\ {2} # {} /\ {1, 2} # {}
    OBVIOUS
  <2>3. r.op \in {"read", "write"}
    BY DEF AnimRequests
  <2> QED BY <1>1, <1>2, <1>4, <2>1, <2>2, <2>3 DEF IOsLeft, PartLeft
<1> QED BY <1>3, <1>4

At(r, k) == r.status[k]

\* r has become x, and the parts g have disks: the part k has changed, and no
\* other that has one.
Advances(m, r, h, x, g, k) ==
    /\ x \in AnimRequests(m) /\ x.on = r.on /\ RequestOK(m, x, g)
    /\ \A j \in h : j \in PartsOf(m) /\ j # k => x.status[j] = r.status[j]

LEMMA StartsOne ==
    ASSUME NEW m \in {0, 1}, m = raidRun.mapping, NEW r \in AnimRequests(m), NEW h,
           RequestOK(m, r, h), NEW k \in PartsOf(m), NextOp(r, k) # "none", k \notin h
    PROVE  LET x == Started(r, k)
               g == h \cup {k}
           IN  /\ Advances(m, r, h, x, g, k)
               /\ IOsLeft(m, x) = IOsLeft(m, r)
               /\ NextOp(r, k) \in {"read", "write"} /\ At(x, k) = Doing(NextOp(r, k))
<1> DEFINE x == Started(r, k)
           g == h \cup {k}
<1>1. r.status[k] = "NOT_STARTED" /\ NextOp(r, k) = r.op /\ r.op \in {"read", "write"}
  BY DEF NextOp, AnimRequests
<1>2. /\ x \in AnimRequests(m) /\ x.on = r.on /\ x.op = r.op
      /\ \A j \in PartsOf(m) : x.status[j] = IF j = k THEN Doing(r.op)
                                             ELSE IF m = 1 /\ r.op = "read" THEN "DONE" ELSE r.status[j]
  BY <1>1 DEF Started, AnimRequests, Phases, Doing
<1> HIDE DEF x
<1>4. /\ RequestOK(m, x, g) /\ IOsLeft(m, x) = IOsLeft(m, r)
      /\ \A j \in h : j \in PartsOf(m) /\ j # k => x.status[j] = r.status[j]
  <2>1. CASE m = 0
    BY <1>1, <1>2, <2>1, PartsAre DEF RequestOK, Phased, Attended, PartLeft, IOsLeft, Doing
  <2>2. CASE m = 1 /\ r.op = "read"
    BY <1>1, <1>2, <2>2, PartsAre DEF RequestOK, Phased, Attended, PartLeft, IOsLeft, Doing
  <2>3. CASE m = 1 /\ r.op = "write"
    BY <1>1, <1>2, <2>3, PartsAre DEF RequestOK, Phased, Attended, PartLeft, IOsLeft, Doing
  <2> QED BY <1>1, <2>1, <2>2, <2>3
<1> QED
  BY <1>1, <1>2, <1>4 DEF x, Advances, At

LEMMA EndsOne ==
    ASSUME NEW m \in {0, 1}, m = raidRun.mapping, NEW r \in AnimRequests(m), NEW h,
           RequestOK(m, r, h), NEW k \in PartsOf(m), k \in h
    PROVE  LET x == RequestDone(r, k)
               g == h \ {k}
           IN  /\ Advances(m, r, h, x, g, k)
               /\ IOsLeft(m, x) = IOsLeft(m, r) - 1
               /\ IsDone(x) <=> IOsLeft(m, x) = 0
<1> DEFINE x == RequestDone(r, k)
           g == h \ {k}
<1>1. r.status[k] \in {"DO_READ", "DO_WRITE"} /\ r.op \in {"read", "write"}
  BY DEF RequestOK, Attended, AnimRequests
<1>2. /\ x \in AnimRequests(m) /\ x.on = r.on /\ x.op = r.op
      /\ \A j \in PartsOf(m) : x.status[j] = IF j = k THEN "DONE" ELSE r.status[j]
  BY DEF RequestDone, AnimRequests, Phases
<1> HIDE DEF x
<1>3. IsDone(x) <=> m = 0 \/ r.op = "read" \/ \A j \in PartsOf(m) : x.status[j] = "DONE"
  BY <1>2 DEF IsDone, AnimRequests
<1>4. /\ RequestOK(m, x, g)
      /\ IOsLeft(m, x) = IOsLeft(m, r) - 1
      /\ IsDone(x) <=> IOsLeft(m, x) = 0
      /\ \A j \in h : j \in PartsOf(m) /\ j # k => x.status[j] = r.status[j]
  <2>1. CASE m = 0
    BY <1>1, <1>2, <1>3, <2>1, PartsAre DEF RequestOK, Phased, Attended, PartLeft, IOsLeft, Doing
  <2>2. CASE m = 1 /\ r.op = "read"
    BY <1>1, <1>2, <1>3, <2>2, PartsAre DEF RequestOK, Phased, Attended, PartLeft, IOsLeft, Doing
  <2>3. CASE m = 1 /\ r.op = "write"
    BY <1>1, <1>2, <1>3, <2>3, PartsAre DEF RequestOK, Phased, Attended, PartLeft, IOsLeft, Doing
  <2> QED BY <1>1, <2>1, <2>2, <2>3
<1> QED
  BY <1>2, <1>4 DEF x, Advances

-----------------------------------------------------------------------------
(* The states of an animation.                                             *)

UnderWay(m, s, i) ==
    {k \in PartsOf(m) : /\ s.d[s.q[i].on[k]].state # "NULL"
                        /\ s.d[s.q[i].on[k]].current = i}

Lefts(m, s) == [i \in DOMAIN s.q |-> IOsLeft(m, s.q[i])]

Ended(m, s) == {i \in DOMAIN s.q : Lefts(m, s)[i] = 0}

\* What disk d does is what a part of its request is at.
Serving(m, s, d) ==
    s.d[d].state # "NULL" =>
        /\ s.d[d].current \in DOMAIN s.q /\ s.d[d].op \in {"read", "write"}
        /\ \E k \in PartsOf(m) : /\ s.q[s.d[d].current].on[k] = d
                                 /\ s.q[s.d[d].current].status[k] = Doing(s.d[d].op)

AnimOK(m, s) ==
    /\ m \in {0, 1}
    /\ s \in AnimStates(m)
    /\ \A i \in DOMAIN s.q : RequestOK(m, s.q[i], UnderWay(m, s, i))
    /\ \A d \in Disks : Serving(m, s, d)
    /\ s.t.needed = s.t.request_count + SumOf(Lefts(m, s), DOMAIN s.q)
    /\ s.t.logical_requests = Cardinality(Ended(m, s))
    /\ s.t.is_done => s.t.needed = s.t.request_count

LEMMA QueueFacts ==
    ASSUME NEW m, NEW s, AnimOK(m, s)
    PROVE  /\ IsFiniteSet(DOMAIN s.q) /\ DOMAIN s.q = 1 .. Len(s.q) /\ Len(s.q) \in Nat
           /\ \A i \in DOMAIN s.q : s.q[i] \in AnimRequests(m) /\ Lefts(m, s)[i] \in Nat
           /\ IsFiniteSet(Ended(m, s))
<1>1. s.q \in Seq(AnimRequests(m)) /\ m \in {0, 1}
  BY DEF AnimOK, AnimStates
<1>2. DOMAIN s.q = 1 .. Len(s.q) /\ Len(s.q) \in Nat
  BY <1>1
<1>3. IsFiniteSet(DOMAIN s.q)
  BY <1>2, FS_Interval
<1>4. \A i \in DOMAIN s.q : s.q[i] \in AnimRequests(m)
  BY <1>1
<1>5. ASSUME NEW i \in DOMAIN s.q PROVE Lefts(m, s)[i] \in Nat
  <2>1. RequestOK(m, s.q[i], UnderWay(m, s, i))
    BY DEF AnimOK
  <2> QED BY <1>1, <1>4, <2>1, LeftIsNat DEF Lefts
<1>6. IsFiniteSet(Ended(m, s))
  BY <1>3, FS_Subset DEF Ended
<1> QED BY <1>2, <1>3, <1>4, <1>5, <1>6

\* A part of a request has a disk of its own.
LEMMA OneDisk ==
    ASSUME NEW m, NEW s, AnimOK(m, s), NEW i \in DOMAIN s.q, NEW k \in PartsOf(m),
           NEW j \in PartsOf(m), s.q[i].on[j] = s.q[i].on[k]
    PROVE  j = k
<1>1. m \in {0, 1} /\ RequestOK(m, s.q[i], UnderWay(m, s, i))
  BY DEF AnimOK
<1> QED BY <1>1, PartsAre DEF RequestOK

\* A request and the disk of a part of it change.
Changed(s, i, r, d, u, t) == [q |-> [s.q EXCEPT ![i] = r], d |-> [s.d EXCEPT ![d] = u], t |-> t]

LEMMA OneChange ==
    ASSUME NEW m, NEW s, AnimOK(m, s), NEW d \in Disks, NEW i \in DOMAIN s.q, NEW k \in PartsOf(m),
           s.q[i].on[k] = d, NEW r \in AnimRequests(m), r.on = s.q[i].on, NEW u \in AnimDisks,
           NEW t \in Tallies,
           s.d[d].state # "NULL" => s.d[d].current = i,
           u.state # "NULL" => u.current = i
    PROVE  LET x == Changed(s, i, r, d, u, t)
           IN  /\ x \in AnimStates(m) /\ DOMAIN x.q = DOMAIN s.q /\ x.q[i] = r /\ x.d[d] = u
               /\ \A j \in DOMAIN s.q : j # i => x.q[j] = s.q[j] /\ UnderWay(m, x, j) = UnderWay(m, s, j)
               /\ \A e \in Disks : e # d => x.d[e] = s.d[e]
               /\ UnderWay(m, x, i) = IF u.state # "NULL" THEN UnderWay(m, s, i) \cup {k} ELSE UnderWay(m, s, i) \ {k}
               /\ x.t = t
<1> DEFINE x == Changed(s, i, r, d, u, t)
<1>1. s \in AnimStates(m)
  BY DEF AnimOK
<1>2. /\ x \in AnimStates(m) /\ DOMAIN x.q = DOMAIN s.q /\ x.q[i] = r /\ x.d[d] = u
      /\ \A j \in DOMAIN s.q : j # i => x.q[j] = s.q[j]
      /\ \A e \in Disks : e # d => x.d[e] = s.d[e]
  <2>1. s.q \in Seq(AnimRequests(m)) /\ s.d \in [Disks -> AnimDisks]
    BY <1>1 DEF AnimStates
  <2>2. [s.q EXCEPT ![i] = r] \in Seq(AnimRequests(m))
    BY <2>1
  <2>3. [s.d EXCEPT ![d] = u] \in [Disks -> AnimDisks]
    BY <2>1
  <2>4. x \in AnimStates(m)
    BY <2>2, <2>3 DEF AnimStates, Changed
  <2> QED BY <2>1, <2>4 DEF Changed
<1>0. x.t = t
  BY DEF Changed
<1> HIDE DEF x
<1>3. \A j \in DOMAIN s.q, l \in PartsOf(m) : s.q[j].on[l] \in Disks
  BY QueueFacts DEF AnimRequests
<1>4. ASSUME NEW j \in DOMAIN s.q, j # i PROVE UnderWay(m, x, j) = UnderWay(m, s, j)
  <2>1. ASSUME NEW l \in PartsOf(m)
        PROVE  x.d[x.q[j].on[l]].state # "NULL" /\ x.d[x.q[j].on[l]].current = j
                 <=> s.d[s.q[j].on[l]].state # "NULL" /\ s.d[s.q[j].on[l]].current = j
    <3>1. x.q[j] = s.q[j] /\ s.q[j].on[l] \in Disks
      BY <1>2, <1>3, <1>4
    <3>2. CASE s.q[j].on[l] = d
      BY <1>2, <1>4, <3>1, <3>2
    <3>3. CASE s.q[j].on[l] # d
      BY <1>2, <3>1, <3>3
    <3> QED BY <3>2, <3>3
  <2> QED BY <2>1 DEF UnderWay
<1>5. ASSUME NEW l \in PartsOf(m)
      PROVE  x.d[x.q[i].on[l]].state # "NULL" /\ x.d[x.q[i].on[l]].current = i
               <=> IF l = k THEN u.state # "NULL"
                   ELSE s.d[s.q[i].on[l]].state # "NULL" /\ s.d[s.q[i].on[l]].current = i
  <2>1. x.q[i].on = s.q[i].on /\ s.q[i].on[l] \in Disks
    BY <1>2, <1>3
  <2>2. CASE l = k
    BY <1>2, <2>1, <2>2
  <2>3. CASE l # k
    <3>1. s.q[i].on[l] # d
      BY <2>3, OneDisk
    <3> QED BY <1>2, <2>1, <2>3, <3>1
  <2> QED BY <2>2, <2>3
<1>6. UnderWay(m, x, i) = IF u.state # "NULL" THEN UnderWay(m, s, i) \cup {k} ELSE UnderWay(m, s, i) \ {k}
  BY <1>5 DEF UnderWay
<1> QED BY <1>0, <1>2, <1>4, <1>6 DEF x

LEMMA StaysOK ==
    ASSUME NEW m, NEW s, AnimOK(m, s), NEW d \in Disks, NEW i \in DOMAIN s.q, NEW k \in PartsOf(m),
           s.q[i].on[k] = d, NEW r \in AnimRequests(m), r.on = s.q[i].on, NEW u \in AnimDisks,
           NEW t \in Tallies,
           s.d[d].state # "NULL" => s.d[d].current = i,
           u.state # "NULL" => /\ u.current = i /\ u.op \in {"read", "write"}
                               /\ r.status[k] = Doing(u.op),
           NEW g, g = IF u.state # "NULL" THEN UnderWay(m, s, i) \cup {k} ELSE UnderWay(m, s, i) \ {k},
           RequestOK(m, r, g),
           \A j \in UnderWay(m, s, i) : j # k => r.status[j] = s.q[i].status[j],
           t.needed = s.t.needed,
           t.request_count = s.t.request_count + Lefts(m, s)[i] - IOsLeft(m, r),
           \/ IOsLeft(m, r) = Lefts(m, s)[i] /\ t.logical_requests = s.t.logical_requests
           \/ /\ Lefts(m, s)[i] # 0
              /\ t.logical_requests = s.t.logical_requests + IF IOsLeft(m, r) = 0 THEN 1 ELSE 0,
           t.is_done => t.needed = t.request_count
    PROVE  LET x == Changed(s, i, r, d, u, t)
           IN  AnimOK(m, x) /\ x.d[d] = u /\ \A e \in Disks : e # d => x.d[e] = s.d[e]
<1> DEFINE x == Changed(s, i, r, d, u, t)
           S == DOMAIN s.q
           v == Lefts(m, s)
           w == Lefts(m, x)
<1>0. m \in {0, 1}
  BY DEF AnimOK
<1>1. /\ x \in AnimStates(m) /\ DOMAIN x.q = DOMAIN s.q /\ x.q[i] = r /\ x.d[d] = u
      /\ \A j \in DOMAIN s.q : j # i => x.q[j] = s.q[j] /\ UnderWay(m, x, j) = UnderWay(m, s, j)
      /\ \A e \in Disks : e # d => x.d[e] = s.d[e]
      /\ UnderWay(m, x, i) = g
      /\ x.t = t
  <2>1. u.state # "NULL" => u.current = i
    OBVIOUS
  <2> QED BY <2>1, OneChange
<1> HIDE DEF x
<1>2. \A j \in DOMAIN x.q : RequestOK(m, x.q[j], UnderWay(m, x, j))
  BY <1>1 DEF AnimOK
<1>3. ASSUME NEW e \in Disks PROVE Serving(m, x, e)
  <2>1. CASE e = d
    BY <1>1, <2>1 DEF Serving
  <2>2. CASE e # d
    <3> SUFFICES ASSUME x.d[e].state # "NULL"
                 PROVE  /\ x.d[e].current \in DOMAIN x.q /\ x.d[e].op \in {"read", "write"}
                        /\ \E l \in PartsOf(m) : /\ x.q[x.d[e].current].on[l] = e
                                                 /\ x.q[x.d[e].current].status[l] = Doing(x.d[e].op)
      BY DEF Serving
    <3> DEFINE c == s.d[e].current
    <3>1. x.d[e] = s.d[e] /\ Serving(m, s, e)
      BY <1>1, <2>2 DEF AnimOK
    <3>2. c \in DOMAIN s.q /\ s.d[e].op \in {"read", "write"}
      BY <3>1 DEF Serving
    <3>3. PICK l \in PartsOf(m) : s.q[c].on[l] = e /\ s.q[c].status[l] = Doing(s.d[e].op)
      BY <3>1 DEF Serving
    <3>4. x.q[c].on[l] = e /\ x.q[c].status[l] = Doing(s.d[e].op)
      <4>1. CASE c = i
        <5>1. l # k /\ l \in UnderWay(m, s, i)
          BY <2>2, <3>1, <3>3, <4>1 DEF UnderWay
        <5> QED BY <1>1, <3>3, <4>1, <5>1
      <4>2. CASE c # i
        BY <1>1, <3>2, <3>3, <4>2
      <4> QED BY <4>1, <4>2
    <3> QED BY <1>1, <3>1, <3>2, <3>4
  <2> QED BY <2>1, <2>2
<1>4. /\ \A j \in S : v[j] \in Nat
      /\ IsFiniteSet(S)
  BY QueueFacts
<1>5. /\ \A j \in S : j # i => w[j] = v[j]
      /\ w[i] = IOsLeft(m, r) /\ w[i] \in Nat
  <2>1. IOsLeft(m, r) \in Nat
    BY <1>0, LeftIsNat
  <2> QED BY <1>1, <2>1 DEF Lefts
<1>6. SumOf(w, S) = SumOf(v, S) + w[i] - v[i] /\ SumOf(v, S) \in Int
  <2> HIDE DEF v, w, S
  <2>1. i \in S
    BY DEF S
  <2>2. w[i] \in Int /\ \A y \in S : v[y] \in Int /\ (y # i => w[y] = v[y])
    BY <1>4, <1>5
  <2>3. SumOf(w, S) = SumOf(v, S) + w[i] - v[i]
    BY <1>4, <2>1, <2>2, SumChange
  <2> QED BY <1>4, <2>2, <2>3, SumSteps
<1>7. x.t.needed = x.t.request_count + SumOf(w, DOMAIN x.q)
  <2>1. s.t.needed = s.t.request_count + SumOf(v, S)
    BY DEF AnimOK
  <2>2. s.t.request_count \in Nat /\ v[i] \in Nat
    BY <1>4 DEF AnimOK, AnimStates, Tallies
  <2>3. x.t = t /\ DOMAIN x.q = S
    BY <1>1
  <2> HIDE DEF v, w, S
  <2> QED BY <1>5, <1>6, <2>1, <2>2, <2>3, v = Lefts(m, s) DEF v
<1>8. x.t.logical_requests = Cardinality(Ended(m, x))
  <2>1. s.t.logical_requests = Cardinality(Ended(m, s)) /\ IsFiniteSet(Ended(m, s))
    BY QueueFacts DEF AnimOK
  <2>2. CASE w[i] = v[i] \/ (v[i] # 0 /\ w[i] # 0)
    <3>1. Ended(m, x) = Ended(m, s)
      BY <1>1, <1>5, <2>2 DEF Ended
    <3>2. t.logical_requests = s.t.logical_requests
      <4>1. s.t.logical_requests \in Nat
        BY DEF AnimOK, AnimStates, Tallies
      <4> QED BY <1>5, <2>2, <4>1
    <3> QED BY <1>1, <2>1, <3>1, <3>2
  <2>3. CASE w[i] # v[i] /\ v[i] # 0 /\ w[i] = 0
    <3>1. Ended(m, x) = Ended(m, s) \cup {i} /\ i \notin Ended(m, s)
      BY <1>1, <1>5, <2>3 DEF Ended
    <3>2. t.logical_requests = s.t.logical_requests + 1
      BY <1>5, <2>3
    <3>3. Cardinality(Ended(m, s) \cup {i}) = Cardinality(Ended(m, s)) + 1
      BY <2>1, <3>1, FS_AddElement
    <3> QED BY <1>1, <2>1, <3>1, <3>2, <3>3
  <2>4. w[i] = v[i] \/ v[i] # 0
    BY <1>5
  <2> QED BY <2>2, <2>3, <2>4
<1>9. x.t.is_done => x.t.needed = x.t.request_count
  BY <1>1
<1> QED BY <1>0, <1>1, <1>2, <1>3, <1>7, <1>8, <1>9 DEF AnimOK, x

\* No operation is left to be counted when all are done.
LEMMA NoneLeft ==
    ASSUME NEW m, NEW s, AnimOK(m, s), s.t.needed = s.t.request_count
    PROVE  \A i \in DOMAIN s.q : Lefts(m, s)[i] = 0 /\ UnderWay(m, s, i) = {}
<1> DEFINE S == DOMAIN s.q
           v == Lefts(m, s)
           z == [i \in S |-> 0]
<1>1. IsFiniteSet(S) /\ \A i \in S : v[i] \in Nat
  BY QueueFacts
<1>2. SumOf(v, S) = 0
  <2>1. SumOf(v, S) \in Int
    <3> HIDE DEF v, S
    <3> QED BY <1>1, SumSteps
  <2>2. s.t.needed = s.t.request_count + SumOf(v, S) /\ s.t.request_count \in Nat
    BY DEF AnimOK, AnimStates, Tallies
  <2> HIDE DEF v, S
  <2> QED BY <2>1, <2>2
<1>3. ASSUME NEW i \in S PROVE v[i] = 0
  <2> DEFINE c == v[i]
             A == {i}
  <2>1. \A j \in S : z[j] = 0
    OBVIOUS
  <2> HIDE DEF v, S, z
  <2>2. \A j \in S : /\ z[j] \in Int /\ v[j] \in Int /\ z[j] <= v[j]
                     /\ j \in A => z[j] + c <= v[j]
    BY <1>1, <2>1
  <2>3. Cardinality(S \cap A) = 1
    <3>1. S \cap A = {i}
      OBVIOUS
    <3> QED BY <3>1, FS_Singleton
  <2>4. c \in Nat /\ SumOf(z, S) = 0
    BY <1>1, <2>1, SumOne
  <2> HIDE DEF c, A
  <2>5. SumOf(z, S) + c * Cardinality(S \cap A) <= SumOf(v, S)
    <3>1. c \in Int
      BY <2>4
    <3> QED BY <1>1, <2>2, <3>1, SumAtLeast
  <2> QED BY <1>2, <2>3, <2>4, <2>5 DEF c
<1>4. ASSUME NEW i \in S PROVE UnderWay(m, s, i) = {}
  <2>1. m \in {0, 1} /\ RequestOK(m, s.q[i], UnderWay(m, s, i)) /\ s.q[i] \in AnimRequests(m)
    BY QueueFacts DEF AnimOK
  <2>2. IOsLeft(m, s.q[i]) = 0
    BY <1>3 DEF Lefts
  <2>3. \A k \in PartsOf(m) : k \notin UnderWay(m, s, i)
    BY <2>1, <2>2, LeftIsNat
  <2> QED BY <2>3 DEF UnderWay
<1> QED BY <1>3, <1>4

-----------------------------------------------------------------------------
(* The steps.                                                              *)

LEMMA PartIs ==
    ASSUME NEW m, NEW s, AnimOK(m, s), NEW i \in DOMAIN s.q, NEW k \in PartsOf(m)
    PROVE  /\ Part(s.q[i], s.q[i].on[k]) = {k}
           /\ (CHOOSE j \in Part(s.q[i], s.q[i].on[k]) : TRUE) = k
           /\ s.q[i].on[k] \in Disks
<1>1. DOMAIN s.q[i].on = PartsOf(m) /\ s.q[i].on[k] \in Disks
  BY QueueFacts DEF AnimRequests
<1>2. Part(s.q[i], s.q[i].on[k]) = {k}
  BY <1>1, OneDisk DEF Part
<1> QED BY <1>1, <1>2

LEMMA ScheduleHolds ==
    ASSUME NEW s, AnimOK(raidRun.mapping, s), NEW d \in Disks, ~ s.t.is_done, raidRun.seek_speed \in Int
    PROVE  LET x == ScheduleDisk(s, d) IN AnimOK(raidRun.mapping, x) /\ x.t = s.t
<1> DEFINE m == raidRun.mapping
           visible == {i \in DOMAIN s.q : s.t.window = -1 \/ i <= s.t.window}
           fits == {i \in visible : \E k \in Part(s.q[i], d) : NextOp(s.q[i], k) # "none"}
           i == Min(fits)
           r == s.q[i]
<1>1. CASE s.d[d].state # "NULL" \/ fits = {}
  BY <1>1 DEF ScheduleDisk
<1>2. CASE s.d[d].state = "NULL" /\ fits # {}
  <2>1. i \in fits
    <3>1. fits \in SUBSET Nat
      BY QueueFacts
    <3>2. PICK y \in fits : \A z \in fits : y <= z
      <4> HIDE DEF fits
      <4> QED BY <1>2, <3>1, LeastExists
    <3> QED BY <3>2 DEF Min
  <2> HIDE DEF i
  <2>2. i \in DOMAIN s.q /\ \E k \in Part(r, d) : NextOp(r, k) # "none"
    BY <2>1
  <2>3. PICK k \in Part(r, d) : NextOp(r, k) # "none"
    BY <2>2
  <2>4. k \in PartsOf(m) /\ r.on[k] = d
    BY <2>2, <2>3, QueueFacts DEF Part, AnimRequests
  <2>5. (CHOOSE j \in Part(r, d) : TRUE) = k
    BY <2>2, <2>4, PartIs
  <2> DEFINE q == Started(r, k)
             u == StartRequest(s.d[d], r, i, NextOp(r, k))
             h == UnderWay(m, s, i)
             g == h \cup {k}
  <2>6. s \in AnimStates(m) /\ r \in AnimRequests(m) /\ m \in {0, 1} /\ s.d[d] \in AnimDisks
    BY <2>2, QueueFacts DEF AnimOK, AnimStates
  <2>7. ScheduleDisk(s, d) = Changed(s, i, q, d, u, s.t)
    <3>1. ScheduleDisk(s, d) = [s EXCEPT !.q[i] = q, !.d[d] = u]
      BY <1>2, <2>5 DEF ScheduleDisk, i
    <3>2. s = [q |-> s.q, d |-> s.d, t |-> s.t]
      BY <2>6 DEF AnimStates
    <3> HIDE DEF q, u
    <3> QED BY <3>1, <3>2 DEF Changed
  <2>8. RequestOK(m, r, h) /\ k \notin h /\ h \subseteq PartsOf(m)
    BY <1>2, <2>2, <2>4 DEF AnimOK, UnderWay
  <2>9. /\ q \in AnimRequests(m) /\ q.on = r.on /\ RequestOK(m, q, g)
        /\ IOsLeft(m, q) = IOsLeft(m, r)
        /\ NextOp(r, k) \in {"read", "write"} /\ q.status[k] = Doing(NextOp(r, k))
        /\ \A j \in h : j # k => q.status[j] = r.status[j]
    <3>1. NextOp(r, k) # "none" /\ k \in PartsOf(m)
      BY <2>3, <2>4
    <3> HIDE DEF r, h
    <3>2. /\ Advances(m, r, h, Started(r, k), h \cup {k}, k)
          /\ IOsLeft(m, Started(r, k)) = IOsLeft(m, r)
          /\ NextOp(r, k) \in {"read", "write"} /\ At(Started(r, k), k) = Doing(NextOp(r, k))
      BY <2>6, <2>8, <3>1, StartsOne
    <3> HIDE DEF q
    <3>3. q = Started(r, k)
      BY DEF q
    <3> QED BY <2>8, <3>2, <3>3 DEF Advances, At
  <2>10. u \in AnimDisks /\ u.state = "SEEK" /\ u.current = i /\ u.op = NextOp(r, k)
    <3>1. i \in Nat
      BY <2>2, QueueFacts
    <3> QED BY <2>6, <2>9, <3>1 DEF StartRequest, AnimDisks, AnimRequests
  <2> HIDE DEF q, u, h
  <2>11. /\ s.t \in Tallies /\ IOsLeft(m, q) = Lefts(m, s)[i] /\ Lefts(m, s)[i] \in Nat
         /\ s.t.request_count \in Nat
    BY <2>2, <2>6, <2>9, QueueFacts DEF Lefts, AnimStates, Tallies, h
  <2>12. s.t.request_count = s.t.request_count + Lefts(m, s)[i] - IOsLeft(m, q)
    BY <2>11
  <2>13. AnimOK(m, Changed(s, i, q, d, u, s.t))
    <3>1. /\ s.d[d].state # "NULL" => s.d[d].current = i
          /\ u.state # "NULL" => /\ u.current = i /\ u.op \in {"read", "write"}
                                 /\ q.status[k] = Doing(u.op)
          /\ \A j \in UnderWay(m, s, i) : j # k => q.status[j] = s.q[i].status[j]
          /\ g = IF u.state # "NULL" THEN UnderWay(m, s, i) \cup {k} ELSE UnderWay(m, s, i) \ {k}
          /\ s.t.is_done => s.t.needed = s.t.request_count
          /\ s.q[i].on[k] = d /\ q.on = s.q[i].on
      BY <1>2, <2>4, <2>9, <2>10 DEF h
    <3> HIDE DEF g, r, m
    <3> QED BY <2>2, <2>4, <2>9, <2>10, <2>11, <2>12, <3>1, StaysOK DEF m
  <2> QED BY <2>7, <2>13 DEF Changed
<1> QED BY <1>1, <1>2

\* Only the flags of the tallies change.
LEMMA SameAnim ==
    ASSUME NEW m, NEW s, AnimOK(m, s), NEW x \in AnimStates(m), x.q = s.q, x.d = s.d,
           x.t.needed = s.t.needed, x.t.request_count = s.t.request_count,
           x.t.logical_requests = s.t.logical_requests,
           x.t.is_done => s.t.needed = s.t.request_count
    PROVE  AnimOK(m, x)
<1>1. \A i : UnderWay(m, x, i) = UnderWay(m, s, i)
  BY DEF UnderWay
<1>2. Lefts(m, x) = Lefts(m, s)
  BY <1>1 DEF Lefts
<1>3. Ended(m, x) = Ended(m, s)
  BY <1>2 DEF Ended
<1>4. \A d \in Disks : Serving(m, x, d) <=> Serving(m, s, d)
  BY DEF Serving
<1>5. /\ m \in {0, 1}
      /\ \A i \in DOMAIN s.q : RequestOK(m, s.q[i], UnderWay(m, s, i))
      /\ \A d \in Disks : Serving(m, s, d)
      /\ s.t.needed = s.t.request_count + SumOf(Lefts(m, s), DOMAIN s.q)
      /\ s.t.logical_requests = Cardinality(Ended(m, s))
  BY DEF AnimOK
<1>6. /\ m \in {0, 1}
      /\ x \in AnimStates(m)
      /\ x.t.is_done => x.t.needed = x.t.request_count
  BY <1>5
<1>7. \A i \in DOMAIN x.q : RequestOK(m, x.q[i], UnderWay(m, x, i))
  BY <1>1, <1>5
<1>8. \A d \in Disks : Serving(m, x, d)
  BY <1>4, <1>5
<1>9. x.t.needed = x.t.request_count + SumOf(Lefts(m, x), DOMAIN x.q)
  BY <1>2, <1>5
<1>10. x.t.logical_requests = Cardinality(Ended(m, x))
  BY <1>3, <1>5
<1> QED BY <1>6, <1>7, <1>8, <1>9, <1>10 DEF AnimOK

LEMMA GetNextHolds ==
    ASSUME NEW s, AnimOK(raidRun.mapping, s), raidRun.seek_speed \in Int
    PROVE  \A x \in GetNextIOs(s) : AnimOK(raidRun.mapping, x)
<1> DEFINE m == raidRun.mapping
           Good == {x \in AnimStates(m) : AnimOK(m, x) /\ ~ x.t.is_done}
<1>1. CASE s.t.request_count = s.t.needed
  <2> DEFINE x == [s EXCEPT !.t.is_done = TRUE]
  <2>1. GetNextIOs(s) = {x}
    BY <1>1 DEF GetNextIOs
  <2>2. s \in AnimStates(m)
    BY DEF AnimOK
  <2>3. /\ x \in AnimStates(m) /\ x.q = s.q /\ x.d = s.d
        /\ x.t.needed = s.t.needed /\ x.t.request_count = s.t.request_count
        /\ x.t.logical_requests = s.t.logical_requests
    BY <2>2 DEF AnimStates, Tallies
  <2> HIDE DEF x
  <2>4. s.t.needed = s.t.request_count
    BY <1>1
  <2>6. AnimOK(m, x)
    BY <2>3, <2>4, SameAnim
  <2> QED BY <2>1, <2>6
<1>2. CASE s.t.request_count # s.t.needed
  <2>1. ASSUME NEW S \in SUBSET Good, NEW d \in Disks PROVE Schedule(S, d) \in SUBSET Good
    <3>1. ASSUME NEW x \in S PROVE ScheduleDisk(x, d) \in Good
      <4>1. AnimOK(m, x) /\ ~ x.t.is_done
        OBVIOUS
      <4>2. AnimOK(m, ScheduleDisk(x, d)) /\ ScheduleDisk(x, d).t = x.t
        BY <4>1, ScheduleHolds
      <4> QED BY <4>1, <4>2 DEF AnimOK
    <3> QED BY <3>1 DEF Schedule
  <2>2. {s} \in SUBSET Good
    BY <1>2 DEF AnimOK
  <2>3. 0 \in Disks /\ 1 \in Disks /\ 2 \in Disks /\ 3 \in Disks
    BY DEF Disks, disk_count
  <2> HIDE DEF Good
  <2>4. Schedule({s}, 0) \in SUBSET Good
    BY <2>1, <2>2, <2>3
  <2>5. Schedule(Schedule({s}, 0), 1) \in SUBSET Good
    BY <2>1, <2>3, <2>4
  <2>6. Schedule(Schedule(Schedule({s}, 0), 1), 2) \in SUBSET Good
    BY <2>1, <2>3, <2>5
  <2>7. Schedule(Schedule(Schedule(Schedule({s}, 0), 1), 2), 3) \in SUBSET Good
    BY <2>1, <2>3, <2>6
  <2> QED BY <1>2, <2>7 DEF GetNextIOs, Good
<1> QED BY <1>1, <1>2

\* The request of a disk, and its part.
LEMMA ServedPart ==
    ASSUME NEW m, NEW s, AnimOK(m, s), NEW d \in Disks, s.d[d].state # "NULL"
    PROVE  LET i == s.d[d].current
           IN  /\ i \in DOMAIN s.q /\ s.d[d].op \in {"read", "write"}
               /\ \E k \in PartsOf(m) : /\ s.q[i].on[k] = d /\ At(s.q[i], k) = Doing(s.d[d].op)
                                        /\ (CHOOSE j \in Part(s.q[i], d) : TRUE) = k
                                        /\ k \in UnderWay(m, s, i)
<1> DEFINE i == s.d[d].current
<1>1. Serving(m, s, d)
  BY DEF AnimOK
<1>2. i \in DOMAIN s.q /\ s.d[d].op \in {"read", "write"}
  BY <1>1 DEF Serving
<1>3. PICK k \in PartsOf(m) : s.q[i].on[k] = d /\ s.q[i].status[k] = Doing(s.d[d].op)
  BY <1>1 DEF Serving
<1>4. (CHOOSE j \in Part(s.q[i], s.q[i].on[k]) : TRUE) = k
  <2> HIDE DEF i
  <2> QED BY <1>2, PartIs
<1>5. k \in UnderWay(m, s, i)
  BY <1>3 DEF UnderWay
<1> QED BY <1>2, <1>3, <1>4, <1>5 DEF At

LEMMA MarkHolds ==
    ASSUME NEW s, AnimOK(raidRun.mapping, s), NEW d \in Disks, s.d[d].state # "NULL"
    PROVE  AnimOK(raidRun.mapping, MarkDone(s, d))
<1> DEFINE m == raidRun.mapping
           i == s.d[d].current
           r == s.q[i]
           h == UnderWay(m, s, i)
<1>1. /\ i \in DOMAIN s.q /\ s.d[d].op \in {"read", "write"}
      /\ \E k \in PartsOf(m) : /\ r.on[k] = d /\ At(r, k) = Doing(s.d[d].op)
                               /\ (CHOOSE j \in Part(r, d) : TRUE) = k
                               /\ k \in h
  BY ServedPart
<1>2. PICK k \in PartsOf(m) : r.on[k] = d /\ (CHOOSE j \in Part(r, d) : TRUE) = k /\ k \in h
  BY <1>1
<1> DEFINE q == RequestDone(r, k)
           g == h \ {k}
           u == [s.d[d] EXCEPT !.state = "NULL"]
           c == [s.t EXCEPT !.request_count = @ + 1]
           t == IF IsDone(q) THEN [c EXCEPT !.logical_requests = @ + 1,
                                            !.window = IF @ > 0 THEN @ + 1 ELSE @]
                ELSE c
<1>3. s \in AnimStates(m) /\ r \in AnimRequests(m) /\ m \in {0, 1} /\ s.d[d] \in AnimDisks
  BY <1>1, QueueFacts DEF AnimOK, AnimStates
<1>4. MarkDone(s, d) = Changed(s, i, q, d, u, t)
  <2>1. [s.d EXCEPT ![d].state = "NULL"] = [s.d EXCEPT ![d] = u]
    OBVIOUS
  <2>2. RequestDone(s.q[i], CHOOSE j \in Part(s.q[i], d) : TRUE) = q
    BY <1>2
  <2>3. MarkDone(s, d) =
          LET z == RequestDone(s.q[i], CHOOSE j \in Part(s.q[i], d) : TRUE)
          IN  [q |-> [s.q EXCEPT ![i] = z], d |-> [s.d EXCEPT ![d].state = "NULL"],
               t |-> IF IsDone(z) THEN [c EXCEPT !.logical_requests = @ + 1,
                                                 !.window = IF @ > 0 THEN @ + 1 ELSE @]
                     ELSE c]
    BY DEF MarkDone
  <2> HIDE DEF q, c, u
  <2> QED BY <2>1, <2>2, <2>3 DEF Changed
<1>5. RequestOK(m, r, h)
  BY <1>1 DEF AnimOK
<1>6. /\ Advances(m, r, h, q, g, k)
      /\ IOsLeft(m, q) = IOsLeft(m, r) - 1
      /\ IsDone(q) <=> IOsLeft(m, q) = 0
  <2> HIDE DEF r, h
  <2> QED BY <1>2, <1>3, <1>5, EndsOne
<1>7. IOsLeft(m, r) = Lefts(m, s)[i] /\ Lefts(m, s)[i] \in Nat /\ Lefts(m, s)[i] # 0
  <2>1. IOsLeft(m, r) = Lefts(m, s)[i]
    BY <1>1 DEF Lefts
  <2>2. IOsLeft(m, r) \in Nat /\ IOsLeft(m, r) # 0
    <3> HIDE DEF r, h
    <3> QED BY <1>2, <1>3, <1>5, LeftIsNat
  <2> QED BY <2>1, <2>2
<1>8. u \in AnimDisks /\ u.state = "NULL"
  BY <1>3 DEF AnimDisks
<1>9. ~ s.t.is_done /\ s.t \in Tallies
  <2>1. s.t.needed # s.t.request_count
    BY <1>1, <1>7, NoneLeft
  <2> QED BY <1>3, <2>1 DEF AnimOK, AnimStates
<1>10. /\ t \in Tallies /\ t.needed = s.t.needed /\ t.is_done = s.t.is_done
       /\ t.request_count = s.t.request_count + 1
       /\ t.logical_requests = s.t.logical_requests + IF IsDone(q) THEN 1 ELSE 0
  <2>1. CASE IsDone(q)
    <3> DEFINE w == IF c.window > 0 THEN c.window + 1 ELSE c.window
               n == c.logical_requests + 1
    <3>1. t = [c EXCEPT !.logical_requests = n, !.window = w]
      BY <2>1
    <3>2. c \in Tallies
      BY <1>9 DEF Tallies
    <3>3. w \in Int /\ n \in Nat
      <4> HIDE DEF c
      <4> QED BY <3>2 DEF Tallies
    <3>4. /\ c.needed = s.t.needed /\ c.is_done = s.t.is_done
          /\ c.request_count = s.t.request_count + 1
          /\ c.logical_requests = s.t.logical_requests
      BY <1>9 DEF Tallies
    <3> HIDE DEF t, q, c, w, n
    <3>5. /\ t \in Tallies /\ t.needed = c.needed /\ t.is_done = c.is_done
          /\ t.request_count = c.request_count /\ t.logical_requests = n
      BY <3>1, <3>2, <3>3 DEF Tallies
    <3>6. (IF IsDone(q) THEN 1 ELSE 0) = 1
      BY <2>1
    <3> QED BY <3>4, <3>5, <3>6 DEF n
  <2>2. CASE ~ IsDone(q)
    <3>1. t = c
      BY <2>2
    <3> HIDE DEF t, q
    <3> QED BY <1>9, <2>2, <3>1 DEF Tallies
  <2> QED BY <2>1, <2>2
<1>11. /\ t.request_count = s.t.request_count + Lefts(m, s)[i] - IOsLeft(m, q)
       /\ t.logical_requests = s.t.logical_requests + IF IOsLeft(m, q) = 0 THEN 1 ELSE 0
  <2>1. s.t.request_count \in Nat
    BY <1>9 DEF Tallies
  <2> HIDE DEF t, q, g, h, r, m
  <2> QED BY <1>6, <1>7, <1>10, <2>1
<1>12. AnimOK(m, Changed(s, i, q, d, u, t))
  <2>1. /\ q \in AnimRequests(m) /\ q.on = s.q[i].on /\ RequestOK(m, q, g)
        /\ \A j \in UnderWay(m, s, i) : j # k => q.status[j] = s.q[i].status[j]
    <3>1. h \subseteq PartsOf(m)
      BY DEF UnderWay
    <3> HIDE DEF q, g
    <3> QED BY <1>6, <3>1 DEF Advances
  <2>2. /\ g = IF u.state # "NULL" THEN UnderWay(m, s, i) \cup {k} ELSE UnderWay(m, s, i) \ {k}
        /\ s.q[i].on[k] = d
    BY <1>2, <1>8
  <2>3. ~ t.is_done
    BY <1>9, <1>10
  <2> HIDE DEF q, g, u, t, c, r, h
  <2>4. AnimOK(m, s)
    OBVIOUS
  <2> HIDE DEF m
  <2>5. /\ i \in DOMAIN s.q /\ k \in PartsOf(m) /\ s.q[i].on[k] = d /\ d \in Disks
        /\ s.d[d].state # "NULL" => s.d[d].current = i
    BY <1>1, <1>2, <2>2
  <2>6. /\ u \in AnimDisks /\ t \in Tallies
        /\ u.state # "NULL" => /\ u.current = i /\ u.op \in {"read", "write"} /\ q.status[k] = Doing(u.op)
        /\ t.needed = s.t.needed /\ (t.is_done => t.needed = t.request_count)
    BY <1>8, <1>10, <2>3
  <2>7. \/ IOsLeft(m, q) = Lefts(m, s)[i] /\ t.logical_requests = s.t.logical_requests
        \/ /\ Lefts(m, s)[i] # 0
           /\ t.logical_requests = s.t.logical_requests + IF IOsLeft(m, q) = 0 THEN 1 ELSE 0
    BY <1>7, <1>11
  <2>8. t.request_count = s.t.request_count + Lefts(m, s)[i] - IOsLeft(m, q)
    BY <1>11
  <2> HIDE DEF i
  <2> QED BY ONLY <2>1, <2>2, <2>4, <2>5, <2>6, <2>7, <2>8, StaysOK
<1> QED BY <1>4, <1>12

\* A disk moves on with what it does.
LEMMA MoveHolds ==
    ASSUME NEW s, AnimOK(raidRun.mapping, s), NEW d \in Disks, s.d[d].state # "NULL",
           NEW u \in AnimDisks, u.state # "NULL", u.current = s.d[d].current, u.op = s.d[d].op
    PROVE  LET x == [s EXCEPT !.d[d] = u] IN AnimOK(raidRun.mapping, x) /\ x.d[d] = u
<1> DEFINE m == raidRun.mapping
           i == s.d[d].current
           r == s.q[i]
           h == UnderWay(m, s, i)
<1>1. /\ i \in DOMAIN s.q /\ s.d[d].op \in {"read", "write"}
      /\ \E k \in PartsOf(m) : /\ r.on[k] = d /\ At(r, k) = Doing(s.d[d].op)
                               /\ (CHOOSE j \in Part(r, d) : TRUE) = k
                               /\ k \in h
  BY ServedPart
<1>2. PICK k \in PartsOf(m) : r.on[k] = d /\ At(r, k) = Doing(s.d[d].op) /\ k \in h
  BY <1>1
<1>3. s \in AnimStates(m) /\ r \in AnimRequests(m) /\ RequestOK(m, r, h) /\ s.t \in Tallies
  BY <1>1, QueueFacts DEF AnimOK, AnimStates
<1>4. [s EXCEPT !.d[d] = u] = Changed(s, i, r, d, u, s.t)
  <2>1. [s.q EXCEPT ![i] = r] = s.q
    BY <1>1, <1>3 DEF AnimStates
  <2> HIDE DEF r, i
  <2> QED BY <1>3, <2>1 DEF AnimStates, Changed
<1>5. /\ h = IF u.state # "NULL" THEN UnderWay(m, s, i) \cup {k} ELSE UnderWay(m, s, i) \ {k}
      /\ s.q[i].on[k] = d /\ r.on = s.q[i].on
      /\ r.status[k] = Doing(u.op) /\ u.op \in {"read", "write"}
      /\ \A j \in UnderWay(m, s, i) : j # k => r.status[j] = s.q[i].status[j]
  BY <1>1, <1>2 DEF At
<1>6. /\ s.t.request_count = s.t.request_count + Lefts(m, s)[i] - IOsLeft(m, r)
      /\ IOsLeft(m, r) = Lefts(m, s)[i]
      /\ s.t.is_done => s.t.needed = s.t.request_count
  <2>1. IOsLeft(m, r) = Lefts(m, s)[i] /\ Lefts(m, s)[i] \in Nat
    BY <1>1, QueueFacts DEF Lefts
  <2>2. s.t.request_count \in Nat
    BY <1>3 DEF Tallies
  <2> HIDE DEF r, h, m
  <2> QED BY <2>1, <2>2 DEF AnimOK, m
<1>7. /\ AnimOK(m, Changed(s, i, r, d, u, s.t))
      /\ Changed(s, i, r, d, u, s.t).d[d] = u
  <2>1. u.current = i
    OBVIOUS
  <2>2. r \in AnimRequests(m) /\ k \in PartsOf(m) /\ i \in DOMAIN s.q
    BY <1>1, <1>3
  <2> HIDE DEF r, h, m
  <2>3. /\ AnimOK(m, s) /\ d \in Disks /\ i \in DOMAIN s.q /\ k \in PartsOf(m) /\ s.q[i].on[k] = d
        /\ s.d[d].state # "NULL" => s.d[d].current = i
    BY <1>5, <2>2 DEF m
  <2>4. /\ r \in AnimRequests(m) /\ r.on = s.q[i].on /\ u \in AnimDisks /\ s.t \in Tallies
        /\ u.state # "NULL" => /\ u.current = i /\ u.op \in {"read", "write"} /\ r.status[k] = Doing(u.op)
    BY <1>3, <1>5, <2>1, <2>2
  <2>5. RequestOK(m, r, h)
    BY <1>3
  <2> HIDE DEF i
  <2> QED BY ONLY <1>5, <1>6, <2>3, <2>4, <2>5, StaysOK
<1> QED BY <1>4, <1>7

LEMMA AnimateDiskHolds ==
    ASSUME NEW s, AnimOK(raidRun.mapping, s), NEW d \in Disks, raidRun.seek_speed \in Int
    PROVE  \A x \in AnimateDisk(s, d) : AnimOK(raidRun.mapping, x)
<1> DEFINE m == raidRun.mapping
           v == s.d[d]
           arm == IF v.state # "SEEK" THEN v ELSE IF SeekArrived(v) THEN StartTransfer(v) ELSE MoveHead(v)
           after == IF arm.state = "XFER" THEN [arm EXCEPT !.transfer = @ - 1] ELSE arm
           moved == [s EXCEPT !.d[d] = after]
<1>1. AnimateDisk(s, d) = IF after.state = "XFER" /\ after.transfer = 0
                          THEN UNION {GetNextIOs(x) : x \in {MarkDone(moved, d)}}
                          ELSE {moved}
  BY DEF AnimateDisk
<1>2. s \in AnimStates(m) /\ v \in AnimDisks
  BY DEF AnimOK, AnimStates
<1>3. CASE v.state = "NULL"
  <2>1. after = v
    BY <1>3
  <2>2. moved = s
    <3> HIDE DEF after
    <3> QED BY <1>2, <2>1 DEF AnimStates
  <2> HIDE DEF moved, after
  <2> QED BY <1>1, <1>3, <2>1, <2>2
<1>4. CASE v.state # "NULL"
  <2> HIDE DEF v
  <2>1. /\ arm \in AnimDisks /\ arm.state # "NULL" /\ arm.current = v.current /\ arm.op = v.op
    <3>1. CASE v.state # "SEEK"
      BY <1>2, <1>4, <3>1
    <3>2. CASE v.state = "SEEK" /\ SeekArrived(v)
      <4> DEFINE w == IF v.targetY = v.lastY + 20 THEN 1 ELSE 10
      <4>1. arm = [v EXCEPT !.state = "XFER", !.transfer = w]
        BY <3>2 DEF StartTransfer
      <4>2. w \in Int
        OBVIOUS
      <4> HIDE DEF w, arm
      <4> QED BY <1>2, <4>1, <4>2 DEF AnimDisks
    <3>3. CASE v.state = "SEEK" /\ ~ SeekArrived(v)
      <4> DEFINE w == IF v.head < -20 \/ v.head >= OffTheDisk THEN v.head ELSE v.head + v.delta
      <4>1. arm = [v EXCEPT !.head = w]
        BY <3>3 DEF MoveHead
      <4>2. w \in Int
        BY <1>2 DEF AnimDisks
      <4> HIDE DEF w, arm
      <4> QED BY <1>2, <3>3, <4>1, <4>2 DEF AnimDisks
    <3> QED BY <3>1, <3>2, <3>3
  <2> HIDE DEF arm
  <2>2. after \in AnimDisks /\ after.state # "NULL" /\ after.current = v.current /\ after.op = v.op
    BY <2>1 DEF AnimDisks
  <2> HIDE DEF after
  <2>3. AnimOK(m, moved) /\ moved.d[d] = after
    BY <1>4, <2>2, MoveHolds DEF v
  <2>4. AnimOK(m, MarkDone(moved, d))
    <3> HIDE DEF moved
    <3> QED BY <2>2, <2>3, MarkHolds
  <2>5. \A x \in GetNextIOs(MarkDone(moved, d)) : AnimOK(m, x)
    <3> HIDE DEF moved
    <3> QED BY <2>4, GetNextHolds
  <2> HIDE DEF moved
  <2> QED BY <1>1, <2>3, <2>5
<1> QED BY <1>3, <1>4

LEMMA TurnHolds ==
    ASSUME NEW S, raidRun.seek_speed \in Int, \A s \in S : AnimOK(raidRun.mapping, s), NEW d \in Disks
    PROVE  \A x \in Turn(S, d) : AnimOK(raidRun.mapping, x)
BY AnimateDiskHolds DEF Turn

\* Every request is in a phase it can be in, every busy arm works for a part of one,
\* and the count of the operations is right.
AnimInv == raidRun.seek_speed \in Int /\ AnimOK(raidRun.mapping, Now)

LEMMA AnimStepHolds == ASSUME AnimInv, AnimStep PROVE AnimInv'
<1> DEFINE m == raidRun.mapping
<1>1. ASSUME NEW S, \A s \in S : AnimOK(m, s), Result(S), UNCHANGED raidRun PROVE AnimInv'
  <2>1. PICK s \in S : request_queue' = s.q /\ disks' = s.d /\ tally' = s.t
    BY <1>1 DEF Result
  <2>2. s \in AnimStates(m)
    BY <1>1 DEF AnimOK
  <2>3. s = [q |-> s.q, d |-> s.d, t |-> s.t]
    BY <2>2 DEF AnimStates
  <2>4. Now' = s
    BY <2>1, <2>3 DEF Now
  <2>6. raidRun'.mapping = m /\ raidRun'.seek_speed = raidRun.seek_speed
    BY <1>1
  <2> HIDE DEF m
  <2>7. AnimOK(raidRun'.mapping, Now')
    BY <1>1, <2>4, <2>6
  <2> QED BY <2>6, <2>7 DEF AnimInv
<1>2. CASE StartAnimation
  <2> DEFINE s == [Now EXCEPT !.t.started = TRUE]
  <2>1. Now \in AnimStates(m)
    BY DEF AnimInv, AnimOK
  <2>2. /\ s \in AnimStates(m) /\ s.q = Now.q /\ s.d = Now.d
        /\ s.t.needed = Now.t.needed /\ s.t.request_count = Now.t.request_count
        /\ s.t.logical_requests = Now.t.logical_requests /\ s.t.is_done = Now.t.is_done
    <3> DEFINE n == Now
    <3>1. s = [n EXCEPT !.t.started = TRUE] /\ n = Now
      OBVIOUS
    <3> HIDE DEF n, s
    <3> QED BY <2>1, <3>1 DEF AnimStates, Tallies
  <2> HIDE DEF s
  <2>3. AnimOK(m, Now)
    BY DEF AnimInv
  <2>4. Now.t.is_done => Now.t.needed = Now.t.request_count
    BY <2>3 DEF AnimOK
  <2> HIDE DEF m
  <2>5. AnimOK(m, s)
    BY <2>2, <2>3, <2>4, SameAnim
  <2>6. \A x \in GetNextIOs(s) : AnimOK(m, x)
    BY <2>5, GetNextHolds DEF AnimInv, m
  <2> QED BY <1>1, <1>2, <2>6 DEF StartAnimation, s
<1>3. CASE AnimateDisks
  <2>1. 0 \in Disks /\ 1 \in Disks /\ 2 \in Disks /\ 3 \in Disks
    BY DEF Disks, disk_count
  <2>2. \A x \in {Now} : AnimOK(m, x)
    BY DEF AnimInv
  <2>3. raidRun.seek_speed \in Int
    BY DEF AnimInv
  <2>4. \A x \in Turn({Now}, 0) : AnimOK(m, x)
    BY <2>1, <2>2, <2>3, TurnHolds
  <2>5. \A x \in Turn(Turn({Now}, 0), 1) : AnimOK(m, x)
    BY <2>1, <2>3, <2>4, TurnHolds
  <2>6. \A x \in Turn(Turn(Turn({Now}, 0), 1), 2) : AnimOK(m, x)
    BY <2>1, <2>3, <2>5, TurnHolds
  <2>7. \A x \in Turn(Turn(Turn(Turn({Now}, 0), 1), 2), 3) : AnimOK(m, x)
    BY <2>1, <2>3, <2>6, TurnHolds
  <2> QED BY <1>1, <1>3, <2>7 DEF AnimateDisks
<1> QED BY <1>2, <1>3 DEF AnimStep

\* The sum of IOsCounted.
LEMMA IOsSum ==
    ASSUME AnimInv
    PROVE  MapThenSumSet(LAMBDA i : ToDo(request_queue[i]), DOMAIN request_queue)
             = SumOf(Lefts(raidRun.mapping, Now), DOMAIN request_queue)
<1> DEFINE m == raidRun.mapping
           S == DOMAIN request_queue
           v == Lefts(m, Now)
<1>1. /\ AnimOK(m, Now) /\ m \in {0, 1} /\ Now.q = request_queue
      /\ \A i \in S : request_queue[i] \in AnimRequests(m)
      /\ IsFiniteSet(S)
  <2>1. AnimOK(m, Now) /\ m \in {0, 1} /\ Now.q = request_queue
    BY DEF AnimInv, AnimOK, Now
  <2> QED BY <2>1, QueueFacts
<1>2. \A i \in S : ToDo(request_queue[i]) = v[i]
  BY <1>1, ToDoIs DEF Lefts
<1> DEFINE Eq(f) == f = [s \in SUBSET S |-> IF s = {} THEN 0
                         ELSE ToDo(request_queue[CHOOSE x \in s : TRUE]) + f[s \ {CHOOSE x \in s : TRUE}]]
           g == CHOOSE f : Eq(f)
<1>3. MapThenSumSet(LAMBDA i : ToDo(request_queue[i]), S) = g[S]
  BY DEF MapThenSumSet, MapThenFoldSet
<1>4. ASSUME NEW f PROVE Eq(f) <=> IsSum(f, v, S)
  <2>1. ASSUME NEW s \in SUBSET S, s # {}
        PROVE  v[CHOOSE x \in s : TRUE] = ToDo(request_queue[CHOOSE x \in s : TRUE])
    <3>1. (CHOOSE x \in s : TRUE) \in S
      BY <2>1
    <3> QED BY <1>2, <3>1
  <2>2. [s \in SUBSET S |-> IF s = {} THEN 0
            ELSE ToDo(request_queue[CHOOSE x \in s : TRUE]) + f[s \ {CHOOSE x \in s : TRUE}]]
        = [s \in SUBSET S |-> IF s = {} THEN 0 ELSE v[CHOOSE x \in s : TRUE] + f[Rest(s)]]
    <3> HIDE DEF v, S
    <3> QED BY <2>1 DEF Rest
  <2> HIDE DEF v, S
  <2> QED BY <2>2 DEF IsSum
<1> HIDE DEF v, S, Eq
<1>5. IsSum(g, v, S)
  <2>1. IsSum(CHOOSE f : IsSum(f, v, S), v, S)
    BY <1>1, SumExists
  <2> QED BY <1>4, <2>1
<1> HIDE DEF g
<1> QED BY <1>1, <1>3, <1>5, SumExists, SumUnique DEF SumOf, S, v

LEMMA AnimInvImplies == AnimInv => IOsCounted /\ CopiesAgree
<1> SUFFICES ASSUME AnimInv PROVE IOsCounted /\ CopiesAgree
  OBVIOUS
<1> DEFINE m == raidRun.mapping
<1>1. AnimOK(m, Now) /\ m \in {0, 1} /\ Now.q = request_queue /\ Now.d = disks /\ Now.t = tally
  BY DEF AnimInv, AnimOK, Now
<1>2. ASSUME tally.is_done
      PROVE  tally.logical_requests = Len(request_queue) /\ \A d \in Disks : disks[d].state = "NULL"
  <2>1. \A i \in DOMAIN request_queue : Lefts(m, Now)[i] = 0 /\ UnderWay(m, Now, i) = {}
    BY <1>1, <1>2, NoneLeft DEF AnimOK
  <2>2. Ended(m, Now) = 1 .. Len(request_queue) /\ Len(request_queue) \in Nat
    BY <1>1, <2>1, QueueFacts DEF Ended
  <2>3. Cardinality(1 .. Len(request_queue)) = Len(request_queue)
    BY <2>2, FS_Interval
  <2>4. tally.logical_requests = Cardinality(Ended(m, Now))
    BY <1>1 DEF AnimOK
  <2>5. ASSUME NEW d \in Disks, disks[d].state # "NULL" PROVE FALSE
    <3>1. /\ disks[d].current \in DOMAIN request_queue
          /\ \E k \in PartsOf(m) : k \in UnderWay(m, Now, disks[d].current)
      BY <1>1, <2>5, ServedPart
    <3> QED BY <2>1, <3>1
  <2> QED BY <2>2, <2>3, <2>4, <2>5
<1>3. IOsCounted
  <2>1. tally.needed = tally.request_count + SumOf(Lefts(m, Now), DOMAIN request_queue)
    BY <1>1 DEF AnimOK
  <2> QED BY <1>2, <2>1, IOsSum DEF IOsCounted
<1>4. CopiesAgree
  <2> SUFFICES ASSUME NEW i \in DOMAIN request_queue
               PROVE  /\ request_queue[i].op = "read" => \A d, e \in Busy(i) : d = e
                      /\ \A d \in Busy(i), k \in DOMAIN request_queue[i].on :
                             request_queue[i].on[k] = d => request_queue[i].status[k] = Doing(disks[d].op)
    BY DEF CopiesAgree
  <2> DEFINE r == request_queue[i]
             h == UnderWay(m, Now, i)
  <2>1. RequestOK(m, r, h) /\ r \in AnimRequests(m) /\ DOMAIN r.on = PartsOf(m)
    BY <1>1, QueueFacts DEF AnimOK, AnimRequests
  <2>2. ASSUME NEW d \in Busy(i)
        PROVE  \E k \in PartsOf(m) : r.on[k] = d /\ r.status[k] = Doing(disks[d].op) /\ k \in h
    <3>1. d \in Disks /\ disks[d].state # "NULL" /\ disks[d].current = i
      BY DEF Busy
    <3> QED BY <1>1, <3>1, ServedPart DEF At
  <2>3. ASSUME NEW d \in Busy(i), NEW k \in PartsOf(m), r.on[k] = d PROVE r.status[k] = Doing(disks[d].op)
    <3>1. PICK j \in PartsOf(m) : r.on[j] = d /\ r.status[j] = Doing(disks[d].op)
      BY <2>2
    <3>2. j = k
      BY <1>1, <2>3, <3>1, OneDisk
    <3> QED BY <3>1, <3>2
  <2>4. ASSUME r.op = "read", NEW d \in Busy(i), NEW e \in Busy(i) PROVE d = e
    <3>1. PICK j \in PartsOf(m) : r.on[j] = d /\ j \in h
      BY <2>2
    <3>2. PICK k \in PartsOf(m) : r.on[k] = e /\ k \in h
      BY <2>2
    <3>3. j = k
      <4> HIDE DEF r, h, m
      <4> QED BY <1>1, <2>1, <2>4, <3>1, <3>2, PartsAre DEF RequestOK, Phased, Attended
    <3> QED BY <3>1, <3>2, <3>3
  <2> QED BY <2>1, <2>3, <2>4
<1> QED BY <1>3, <1>4

-----------------------------------------------------------------------------
(* The first state: what is left of all requests is what was worked out.   *)

\* w is v, and c more on A.
IsMore(w, v, A, c, S) ==
    c \in Int /\ \A x \in S : v[x] \in Int /\ w[x] = v[x] + (IF x \in A THEN c ELSE 0)

LEMMA SumPlus ==
    ASSUME NEW S, IsFiniteSet(S), NEW v, NEW w, NEW A, NEW c, IsMore(w, v, A, c, S)
    PROVE  SumOf(w, S) = SumOf(v, S) + c * Cardinality(S \cap A)
<1> USE DEF IsMore
<1> DEFINE Good == {T \in SUBSET S : SumOf(w, T) = SumOf(v, T) + c * Cardinality(T \cap A)}
<1>0. \A x \in S : v[x] \in Int /\ w[x] \in Int
  OBVIOUS
<1>1. ASSUME NEW T \in SUBSET S, \A U \in SUBSET T : U # T => U \in Good PROVE T \in Good
  <2>1. IsFiniteSet(T) /\ IsFiniteSet(T \cap A)
    BY FS_Subset, FS_Intersection
  <2>2. CASE T = {}
    <3>1. SumOf(v, {}) = 0 /\ SumOf(w, {}) = 0
      BY <1>0, SumSteps
    <3>2. Cardinality(T \cap A) = 0
      BY <2>2, FS_EmptySet
    <3> QED
      BY <2>2, <3>1, <3>2
  <2>3. CASE T # {}
    <3>1. PICK x \in T : TRUE
      BY <2>3
    <3> DEFINE R == T \ {x}
               B == T \cap A
               k == Cardinality(R \cap A)
    <3>2. /\ SumOf(v, T) = v[x] + SumOf(v, R)
          /\ SumOf(w, T) = w[x] + SumOf(w, R)
      BY <1>0, <2>1, SumSteps
    <3>3. IsFiniteSet(R) /\ R \in SUBSET S
      BY <2>1, FS_Subset
    <3>4. SumOf(v, R) \in Int
      BY <1>0, <3>3, SumSteps
    <3>5. SumOf(w, R) = SumOf(v, R) + c * k
      BY <1>1
    <3>6. k \in Int /\ Cardinality(B) = k + (IF x \in A THEN 1 ELSE 0)
      <4>1. R \cap A = B \ {x} /\ (x \in B <=> x \in A) /\ IsFiniteSet(B)
        BY <2>1
      <4> HIDE DEF R, B
      <4>2. /\ Cardinality(B) \in Nat
            /\ Cardinality(B \ {x}) = IF x \in B THEN Cardinality(B) - 1 ELSE Cardinality(B)
        BY <4>1, FS_RemoveElement, FS_CardinalityType
      <4>3. k = Cardinality(B \ {x})
        BY <4>1
      <4> QED BY <4>1, <4>2, <4>3
    <3>7. w[x] = v[x] + (IF x \in A THEN c ELSE 0) /\ v[x] \in Int
      OBVIOUS
    <3> HIDE DEF R, B, k
    <3>8. c * Cardinality(B) = c * k + (IF x \in A THEN c ELSE 0) /\ c * k \in Int
      BY <3>6
    <3>9. SumOf(w, T) = SumOf(v, T) + c * Cardinality(B)
      BY <3>2, <3>4, <3>5, <3>7, <3>8
    <3> QED BY <3>9 DEF B
  <2> QED BY <2>2, <2>3
<1> HIDE DEF Good
<1>2. S \in Good
  BY <1>1, SmallerFirst
<1> QED BY <1>2 DEF Good

\* Every request counts for one.
LEMMA SumOfOnes ==
    ASSUME NEW S, IsFiniteSet(S), NEW v, \A x \in S : v[x] = 1
    PROVE  SumOf(v, S) = Cardinality(S)
<1> DEFINE z == [x \in S |-> 0]
<1>1. SumOf(z, S) = 0
  BY SumOne
<1>2. \A x \in S : z[x] \in Int /\ v[x] = z[x] + (IF x \in S THEN 1 ELSE 0)
  OBVIOUS
<1> HIDE DEF z
<1>3. SumOf(v, S) = SumOf(z, S) + 1 * Cardinality(S \cap S)
  <2> DEFINE c == 1
             A == S
  <2>1. IsMore(v, z, A, c, S)
    BY <1>2 DEF IsMore
  <2> HIDE DEF c, A
  <2>2. SumOf(v, S) = SumOf(z, S) + c * Cardinality(S \cap A)
    BY <2>1, SumPlus
  <2> QED BY <2>2 DEF c, A
<1>4. S \cap S = S /\ Cardinality(S) \in Nat
  BY FS_CardinalityType
<1> QED BY <1>1, <1>3, <1>4

Asked == Seq([op : {"read", "write"}, logical : Nat])

\* The operations a request takes.
Costs(m, op) == IF m = 1 /\ op = "write" THEN 2 ELSE 1

LEMMA FirstRequest ==
    ASSUME NEW reqs \in Asked, raidRun.mapping \in {0, 1}, NEW i \in DOMAIN reqs
    PROVE  LET m == raidRun.mapping
               r == Request(reqs, i)
           IN  /\ r \in AnimRequests(m) /\ RequestOK(m, r, {})
               /\ IOsLeft(m, r) = Costs(m, reqs[i].op)
               /\ reqs[i].op \in {"read", "write"}
<1> DEFINE m == raidRun.mapping
           r == Request(reqs, i)
           l == reqs[i].logical
           place == SetPhysicalAddress(l)
<1>1. l \in Nat /\ reqs[i].op \in {"read", "write"}
  <2> DEFINE R == [op : {"read", "write"}, logical : Nat]
  <2>2. reqs \in Seq(R)
    BY DEF Asked
  <2> HIDE DEF R
  <2>3. reqs[i] \in R
    BY <2>2
  <2>1. reqs[i] \in [op : {"read", "write"}, logical : Nat]
    BY <2>3 DEF R
  <2> QED BY <2>1
<1>3. place.on \in [PartsOf(m) -> Disks] /\ place.y \in Int /\ (m # 0 => place.on[1] # place.on[2])
  <2>1. CASE m = 0
    <3>1. place = [on |-> <<l % 4>>, y |-> Row(l, 4)]
      BY <2>1 DEF SetPhysicalAddress
    <3>2. l % 4 \in Disks /\ Row(l, 4) \in Int
      BY <1>1 DEF Disks, disk_count, Row
    <3>3. PartsOf(m) = 1 .. 1
      BY <2>1 DEF PartsOf
    <3> QED BY <2>1, <3>1, <3>2, <3>3
  <2>2. CASE m = 1
    <3>1. place = [on |-> <<2 * (l % 2), 2 * (l % 2) + 1>>, y |-> Row(l, 2)]
      BY <2>2 DEF SetPhysicalAddress
    <3>2. 2 * (l % 2) \in Disks /\ 2 * (l % 2) + 1 \in Disks /\ Row(l, 2) \in Int
      BY <1>1 DEF Disks, disk_count, Row
    <3>3. PartsOf(m) = 1 .. 2
      BY <2>2 DEF PartsOf
    <3>4. 2 * (l % 2) # 2 * (l % 2) + 1
      BY <1>1
    <3> QED BY <3>1, <3>2, <3>3, <3>4
  <2> QED BY <2>1, <2>2
<1>4. /\ r.op = reqs[i].op /\ r.on = place.on /\ r.y = place.y
      /\ r.status = [k \in PartsOf(m) |-> "NOT_STARTED"]
      /\ r = [op |-> r.op, on |-> r.on, y |-> r.y, status |-> r.status]
  BY <1>3 DEF Request
<1> HIDE DEF r, place, l
<1>5. r \in AnimRequests(m)
  BY <1>1, <1>3, <1>4 DEF AnimRequests, Phases
<1>6. \A k \in PartsOf(m) : r.status[k] = "NOT_STARTED"
  BY <1>4
<1> HIDE DEF m
<1>7. m \in {0, 1}
  BY DEF m
<1>8. RequestOK(m, r, {})
  BY <1>3, <1>4, <1>6, <1>7, PartsAre DEF RequestOK, Phased, Attended
<1>9. IOsLeft(m, r) = Costs(m, r.op)
  BY <1>1, <1>4, <1>6, <1>7, PartsAre DEF PartLeft, IOsLeft, Costs
<1> QED BY <1>1, <1>4, <1>5, <1>8, <1>9 DEF m, r

\* The constructor's count is that of all requests.
LEMMA NeededIsAll ==
    ASSUME NEW reqs \in Asked, raidRun.mapping \in {0, 1}
    PROVE  LET w == [i \in DOMAIN reqs |-> Costs(raidRun.mapping, reqs[i].op)]
           IN  SumOf(w, DOMAIN reqs) = Needed(reqs) /\ Needed(reqs) \in Int
<1> DEFINE m == raidRun.mapping
           D == DOMAIN reqs
           w == [i \in D |-> Costs(m, reqs[i].op)]
           W == {i \in D : reqs[i].op = "write"}
           extra == IF m = 1 THEN 1 ELSE 0
           ones == [i \in D |-> 1]
<1>1. D = 1 .. Len(reqs) /\ Len(reqs) \in Nat
  BY DEF Asked
<1>2. IsFiniteSet(D) /\ Cardinality(D) = Len(reqs)
  <2> DEFINE n == Len(reqs)
  <2>1. n \in Nat
    BY <1>1
  <2> HIDE DEF n
  <2>2. IsFiniteSet(1 .. n) /\ Cardinality(1 .. n) = n
    BY <2>1, FS_Interval
  <2> QED BY <1>1, <2>2 DEF n
<1>3. Needed(reqs) = Len(reqs) + extra * Cardinality(W)
  BY DEF Needed
<1>4. W \subseteq D /\ Cardinality(W) \in Nat
  <2>1. W \subseteq D
    OBVIOUS
  <2> HIDE DEF W, D
  <2> QED BY <1>2, <2>1, FS_Subset, FS_CardinalityType
<1>5. SumOf(ones, D) = Len(reqs)
  BY <1>2, SumOfOnes
<1>6. IsMore(w, ones, W, extra, D)
  <2>1. \A i \in D : ones[i] \in Int /\ w[i] = ones[i] + (IF i \in W THEN extra ELSE 0)
    BY DEF Costs
  <2>2. extra \in Int
    OBVIOUS
  <2> HIDE DEF w, ones, W, extra, D
  <2> QED BY <2>1, <2>2 DEF IsMore
<1>7. D \cap W = W
  BY <1>4
<1>8. extra * Cardinality(W) \in Int
  <2>1. extra \in Int
    OBVIOUS
  <2> HIDE DEF extra
  <2> QED BY <1>4, <2>1
<1> HIDE DEF D, w, W, ones, extra
<1>9. SumOf(w, D) = SumOf(ones, D) + extra * Cardinality(W)
  BY <1>2, <1>6, <1>7, SumPlus
<1>10. SumOf(w, D) = Needed(reqs) /\ Needed(reqs) \in Int
  <2> DEFINE e == extra * Cardinality(W)
  <2>1. e \in Int /\ SumOf(w, D) = SumOf(ones, D) + e /\ Needed(reqs) = Len(reqs) + e
    BY <1>3, <1>8, <1>9
  <2> HIDE DEF e
  <2> QED BY <1>1, <1>5, <2>1
<1> QED BY <1>10 DEF w, D, m

LEMMA AnimInitHolds == AnimInit => AnimInv
<1> SUFFICES ASSUME AnimInit PROVE AnimInv
  OBVIOUS
<1> DEFINE m == raidRun.mapping
<1>1. /\ m \in {0, 1} /\ raidRun.window \in Int /\ raidRun.seek_speed \in Int
  BY AnimAssumption DEF AnimInit
<1>2. PICK reqs \in Requests :
         /\ request_queue = [i \in DOMAIN reqs |-> Request(reqs, i)]
         /\ tally = [request_count |-> 0, needed |-> Needed(reqs), logical_requests |-> 0,
                     window |-> raidRun.window, started |-> FALSE, is_done |-> FALSE]
  BY DEF AnimInit
<1>3. \A d \in Disks : disks[d].state = "NULL" /\ disks[d] \in AnimDisks
  BY DEF AnimInit, AnimDisks
<1>4. PICK n \in 1 .. MaxRaidReqs : reqs \in [1 .. n -> [op : {"read", "write"}, logical : RaidAddrs]]
  BY <1>2 DEF Requests
<1>5. n \in Nat /\ reqs \in Asked /\ DOMAIN reqs = 1 .. n
  <2>1. n \in Nat
    BY AnimAssumption, <1>4
  <2>2. reqs \in [1 .. n -> [op : {"read", "write"}, logical : Nat]]
    BY AnimAssumption, <1>4
  <2>3. DOMAIN reqs = 1 .. n
    BY <2>2
  <2>4. reqs \in Asked
    <3> DEFINE R == [op : {"read", "write"}, logical : Nat]
    <3>1. reqs \in [1 .. n -> R]
      BY <2>2
    <3> HIDE DEF R
    <3>2. reqs \in Seq(R)
      BY <2>1, <3>1
    <3> QED BY <3>2 DEF Asked, R
  <2> QED BY <2>1, <2>3, <2>4
<1> DEFINE D == 1 .. n
<1>6. /\ DOMAIN request_queue = D
      /\ \A i \in D : request_queue[i] = Request(reqs, i)
  BY <1>2, <1>5
<1>7. request_queue \in Seq(AnimRequests(m))
  <2>1. \A i \in D : request_queue[i] \in AnimRequests(m)
    BY <1>1, <1>2, <1>5, <1>6, FirstRequest
  <2>2. request_queue \in [D -> AnimRequests(m)]
    BY <1>2, <1>5, <1>6, <2>1
  <2> QED BY <1>5, <2>2
<1>8. disks \in [Disks -> AnimDisks]
  BY <1>3 DEF AnimInit
<1>9. Needed(reqs) \in Int
  BY <1>1, <1>2, <1>5, NeededIsAll
<1>10. tally \in Tallies
  BY <1>1, <1>2, <1>9 DEF Tallies
<1>11. Now \in AnimStates(m) /\ Now.q = request_queue /\ Now.d = disks /\ Now.t = tally
  BY <1>7, <1>8, <1>10 DEF Now, AnimStates
<1>12. ASSUME NEW i \in D PROVE UnderWay(m, Now, i) = {}
  <2>1. \A k \in PartsOf(m) : request_queue[i].on[k] \in Disks
    <3> DEFINE R == AnimRequests(m)
    <3> HIDE DEF R
    <3>1. request_queue \in Seq(R)
      BY <1>7 DEF R
    <3>2. request_queue[i] \in R
      BY <1>6, <3>1
    <3> QED BY <3>2 DEF AnimRequests, R
  <2>2. \A k \in PartsOf(m) : Now.d[Now.q[i].on[k]].state = "NULL"
    BY <1>3, <1>11, <2>1
  <2> QED BY <2>2 DEF UnderWay
<1>13. ASSUME NEW i \in D
       PROVE  /\ RequestOK(m, request_queue[i], UnderWay(m, Now, i))
              /\ Lefts(m, Now)[i] = Costs(m, reqs[i].op)
  <2>1. Lefts(m, Now)[i] = IOsLeft(m, Request(reqs, i))
    BY <1>6, <1>11, <1>12 DEF Lefts
  <2> QED BY <1>1, <1>2, <1>5, <1>6, <1>12, <2>1, FirstRequest
<1>14. \A d \in Disks : Serving(m, Now, d)
  BY <1>3, <1>11 DEF Serving
<1> DEFINE w == [i \in DOMAIN reqs |-> Costs(m, reqs[i].op)]
<1>15. SumOf(w, D) = Needed(reqs)
  BY <1>1, <1>2, <1>5, NeededIsAll
<1>16. \A i \in D : w[i] \in Int /\ Lefts(m, Now)[i] = w[i]
  BY <1>5, <1>13 DEF Costs
<1>17. SumOf(Lefts(m, Now), D) = SumOf(w, D)
  <2> DEFINE z == Lefts(m, Now)
  <2>1. IsFiniteSet(D) /\ \A i \in D : w[i] \in Int /\ z[i] = w[i]
    BY <1>5, <1>16, FS_Interval
  <2> HIDE DEF z, w, D
  <2>2. SumOf(z, D) = SumOf(w, D)
    BY <2>1, SumSame
  <2> QED BY <2>2 DEF z
<1>18. Ended(m, Now) = {}
  BY <1>6, <1>11, <1>13 DEF Ended, Costs
<1>19. AnimOK(m, Now)
  <2>1. Now.t.needed = Now.t.request_count + SumOf(Lefts(m, Now), DOMAIN Now.q)
    BY <1>2, <1>6, <1>9, <1>11, <1>15, <1>17
  <2>2. Now.t.logical_requests = Cardinality(Ended(m, Now)) /\ ~ Now.t.is_done
    BY <1>2, <1>11, <1>18, FS_EmptySet
  <2> QED BY <1>1, <1>6, <1>11, <1>13, <1>14, <2>1, <2>2 DEF AnimOK
<1> QED BY <1>1, <1>19 DEF AnimInv

LEMMA AnimStays == ASSUME AnimInv, UNCHANGED animVars PROVE AnimInv'
<1>1. raidRun' = raidRun /\ request_queue' = request_queue /\ disks' = disks /\ tally' = tally
  BY DEF animVars
<1>2. Now' = Now
  BY <1>1 DEF Now
<1>3. AnimOK(raidRun'.mapping, Now')
  BY <1>1, <1>2 DEF AnimInv
<1> QED BY <1>1, <1>3 DEF AnimInv

-----------------------------------------------------------------------------
(* disk.py: a request takes as long as was estimated.  First angles, when  *)
(* 360 and what blocks take of it are multiples of a tick's turn.          *)

LEMMA IntMod ==
    ASSUME NEW n \in Nat \ {0}, NEW a \in Int
    PROVE  a \div n \in Int /\ a % n \in 0 .. n - 1 /\ a = n * (a \div n) + (a % n)
OBVIOUS

LEMMA DivOf ==
    ASSUME NEW n \in Nat \ {0}, NEW q \in Nat, NEW r \in 0 .. n - 1
    PROVE  (q * n + r) \div n = q /\ (q * n + r) % n = r
OBVIOUS

\* x is some number of turns of r.
Multiple(x, r) == \E k \in Int : x = k * r

LEMMA MultipleIs ==
    ASSUME NEW r \in Nat \ {0}, NEW x \in Int
    PROVE  x % r = 0 => Multiple(x, r)
<1>1. x = r * (x \div r) + (x % r) /\ x \div r \in Int
  BY IntMod
<1> DEFINE q == x \div r
<1>2. x % r = 0 => x = q * r
  BY <1>1
<1> QED BY <1>1, <1>2 DEF Multiple

LEMMA MultiplePlus ==
    ASSUME NEW r \in Nat \ {0}, NEW x \in Int, NEW y \in Int, Multiple(x, r), Multiple(y, r)
    PROVE  Multiple(x + y, r) /\ Multiple(x - y, r)
<1>1. PICK k \in Int : x = k * r
  BY DEF Multiple
<1>2. PICK l \in Int : y = l * r
  BY DEF Multiple
<1>3. x + y = (k + l) * r /\ x - y = (k - l) * r /\ k + l \in Int /\ k - l \in Int
  BY <1>1, <1>2
<1> QED BY <1>3 DEF Multiple

LEMMA MultipleTimes ==
    ASSUME NEW r \in Nat \ {0}, NEW x \in Int, NEW n \in Int, Multiple(x, r)
    PROVE  Multiple(x * n, r)
<1>1. PICK k \in Int : x = k * r
  BY DEF Multiple
<1>2. x * n = (k * n) * r /\ k * n \in Int
  BY <1>1
<1> QED BY <1>2 DEF Multiple

\* A multiple of r is at least r.
LEMMA MultipleLeast ==
    ASSUME NEW r \in Nat \ {0}, NEW x \in Int, Multiple(x, r), x > 0
    PROVE  x >= r
<1>1. PICK k \in Int : x = k * r
  BY DEF Multiple
<1>2. k >= 1
  BY <1>1
<1>3. k * r >= r
  BY <1>2
<1> QED BY <1>1, <1>3

\* How far the disk turns from a until it is at x again.
Gap(a, x) == 1 + ((x - a - 1) % 360)

\* Where the head can be.
Angles(r) == {a \in 0 .. 359 : Multiple(a, r)}

LEMMA GapIs ==
    ASSUME NEW a, a \in 0 .. 359, NEW x, x \in 0 .. 359
    PROVE  /\ Gap(a, x) \in 1 .. 360
           /\ Gap(a, x) = IF x > a THEN x - a ELSE x - a + 360
           /\ a # x => Gap(a, x) = (x - a) % 360
           /\ a = x => (x - a) % 360 = 0
<1>1. \A n \in -360 .. 359 : n % 360 = IF n = -360 THEN 0 ELSE IF n < 0 THEN n + 360 ELSE n
  OBVIOUS
<1>2. x - a - 1 \in -360 .. 358 /\ x - a \in -359 .. 359
  OBVIOUS
<1>3. /\ (x - a - 1) % 360 = IF x - a - 1 = -360 THEN 0 ELSE IF x - a - 1 < 0 THEN x - a - 1 + 360 ELSE x - a - 1
      /\ (x - a) % 360 = IF x - a < 0 THEN x - a + 360 ELSE x - a
  BY <1>1, <1>2
<1> QED BY <1>3 DEF Gap

\* The angle w degrees further on.
Ahead(a, w) == (a + w) % 360

LEMMA GapAcross ==
    ASSUME NEW a, a \in 0 .. 359, NEW w, w \in 1 .. 359
    PROVE  Ahead(a, w) # a /\ Gap(a, Ahead(a, w)) = w
<1> DEFINE k == a + w
           x == k % 360
<1>1. \A n \in 0 .. 719 : n % 360 = IF n >= 360 THEN n - 360 ELSE n
  OBVIOUS
<1>2. k \in 0 .. 719
  OBVIOUS
<1>3. x = IF k >= 360 THEN k - 360 ELSE k
  <2> HIDE DEF k
  <2> QED BY <1>1, <1>2
<1>4. x \in 0 .. 359
  BY <1>2, <1>3
<1> HIDE DEF x
<1>5. Gap(a, x) = IF x > a THEN x - a ELSE x - a + 360
  BY <1>4, GapIs
<1>6. x # a /\ Gap(a, x) = w
  BY <1>3, <1>5
<1> QED BY <1>6 DEF x, Ahead

LEMMA DivMod360 ==
    ASSUME NEW w, w \in Int
    PROVE  w = 360 * (w \div 360) + (w % 360) /\ w \div 360 \in Int
<1> DEFINE c == 360
<1>1. c \in Nat \ {0}
  OBVIOUS
<1> HIDE DEF c
<1>2. w = c * (w \div c) + (w % c) /\ w \div c \in Int
  BY <1>1, IntMod
<1> QED BY <1>2, Zenon DEF c

LEMMA TurnIs ==
    ASSUME NEW r \in Nat \ {0}, Multiple(360, r), NEW a \in Angles(r)
    PROVE  LET b == IF a + r >= 360 THEN 0 ELSE a + r
           IN  b \in Angles(r) /\ b = (a + r) % 360 /\ r <= 360
                 /\ b = IF a + r = 360 THEN 0 ELSE a + r
<1>1. a \in 0 .. 359 /\ Multiple(a, r)
  BY DEF Angles
<1>2. Multiple(360 - a, r) /\ 360 - a \in Int
  BY <1>1, MultiplePlus
<1>3. 360 - a >= r
  BY <1>1, <1>2, MultipleLeast
<1>4. Multiple(r, r) /\ Multiple(0, r)
  <2>1. r = 1 * r /\ 0 = 0 * r
    OBVIOUS
  <2> QED BY <2>1 DEF Multiple
<1>5. Multiple(a + r, r)
  BY <1>1, <1>4, MultiplePlus
<1> QED BY <1>1, <1>3, <1>4, <1>5 DEF Angles

LEMMA GapTurns ==
    ASSUME NEW r \in Nat \ {0}, Multiple(360, r), NEW a \in Angles(r), NEW x \in Angles(r)
    PROVE  LET b == (a + r) % 360
           IN  IF x = b THEN Gap(a, x) = r ELSE Gap(b, x) = Gap(a, x) - r
<1> DEFINE b == (a + r) % 360
           g == Gap(a, x)
<1>1. a \in 0 .. 359 /\ x \in 0 .. 359 /\ Multiple(a, r) /\ Multiple(x, r)
  BY DEF Angles
<1>2. b \in Angles(r) /\ r <= 360 /\ b = IF a + r = 360 THEN 0 ELSE a + r
  BY TurnIs
<1>3. b \in 0 .. 359
  BY <1>2 DEF Angles
<1>4. g \in 1 .. 360 /\ g = IF x > a THEN x - a ELSE x - a + 360
  BY <1>1, GapIs
<1> HIDE DEF b
<1>5. Gap(b, x) = IF x > b THEN x - b ELSE x - b + 360
  BY <1>1, <1>3, GapIs
<1> USE DEF b
<1>6. Multiple(x - a, r) /\ x - a \in Int
  BY <1>1, MultiplePlus
<1>7. Multiple(x - a + 360, r)
  BY <1>6, MultiplePlus
<1>8. Multiple(g, r)
  BY <1>4, <1>6, <1>7
<1> HIDE DEF g, b
<1>9. g >= r
  BY <1>4, <1>8, MultipleLeast
<1> QED BY <1>1, <1>2, <1>3, <1>4, <1>5, <1>9 DEF g, b

\* Positions of the head that are close are the same.
LEMMA CloseIs ==
    ASSUME disk.rotateSpeed \in Nat \ {0}, NEW a \in Angles(disk.rotateSpeed), NEW x \in Angles(disk.rotateSpeed)
    PROVE  RadiallyCloseTo(a, x) <=> a = x
<1> DEFINE r == disk.rotateSpeed
<1>1. a \in 0 .. 359 /\ x \in 0 .. 359 /\ Multiple(a, r) /\ Multiple(x, r)
  BY DEF Angles
<1>0. r \in Nat \ {0}
  OBVIOUS
<1> DEFINE u == x - a
           v == a - x
<1> HIDE DEF r
<1>2. Multiple(u, r) /\ Multiple(v, r) /\ u \in Int /\ v \in Int
  <2>1. a \in Int /\ x \in Int
    BY <1>1
  <2> QED BY <1>0, <1>1, <2>1, MultiplePlus
<1> HIDE DEF u, v
<1>3. (u > 0 => u >= r) /\ (v > 0 => v >= r)
  BY <1>0, <1>2, MultipleLeast
<1> QED BY <1>0, <1>1, <1>3 DEF u, v, r, RadiallyCloseTo, Apart

-----------------------------------------------------------------------------
(* Blocks that fill their track.                                           *)

\* Blocks that are on a track of the disk.
OnDisk == {b \in Int : \E t \in Tracks : b \in tracksBegin(t) .. tracksEnd(t)}

\* What AngleAssumption says of the disk of this run.
ExactDisk(dk) ==
    LET r == dk.rotateSpeed
    IN  /\ r \in Nat \ {0} /\ dk.seekSpeed \in Nat \ {0} /\ dk.skew \in Int
        /\ Multiple(360, r) /\ Multiple(40, dk.seekSpeed)
        /\ \A t \in Tracks : LET half == dk.zoning[t + 1] \div 2
                             IN  /\ half \in 1 .. 179
                                 /\ Multiple(360, 2 * half) /\ Multiple(2 * half, r) /\ Multiple(180 - half, r)

LEMMA HalfIs ==
    ASSUME ExactDisk(disk), NEW t \in Tracks
    PROVE  LET half == blockAngleOffset(t)
               r == disk.rotateSpeed
           IN  /\ half \in 1 .. 179 /\ Multiple(360, 2 * half) /\ Multiple(2 * half, r) /\ Multiple(180 - half, r)
               /\ BlocksOn(t) \in Nat \ {0} /\ 360 = BlocksOn(t) * (2 * half)
               /\ tracksEnd(t) = tracksBegin(t) + BlocksOn(t) - 1
<1> DEFINE half == blockAngleOffset(t)
           z == 2 * half
           r == disk.rotateSpeed
<1>1. half \in 1 .. 179 /\ Multiple(360, z) /\ Multiple(z, r) /\ Multiple(180 - half, r)
  BY DEF ExactDisk, blockAngleOffset
<1>2. BlocksOn(t) = (359 \div z) + 1
  BY DEF BlocksOn, BlocksIn, blockAngleOffset
<1> HIDE DEF half
<1>3. z \in Nat \ {0} /\ z - 1 \in 0 .. z - 1
  BY <1>1
<1>4. PICK k \in Int : 360 = k * z
  BY <1>1 DEF Multiple
<1> HIDE DEF z
<1>5. k >= 1
  BY <1>3, <1>4
<1>6. 359 = (k - 1) * z + (z - 1) /\ k - 1 \in Nat
  BY <1>3, <1>4, <1>5
<1> DEFINE q == k - 1
           e == z - 1
<1>7. 359 \div z = q
  <2>1. q \in Nat /\ e \in 0 .. z - 1 /\ 359 = q * z + e
    BY <1>3, <1>6
  <2> HIDE DEF q, e
  <2> QED BY <1>3, <2>1, DivOf
<1>8. BlocksOn(t) = k
  BY <1>2, <1>4, <1>7
<1> QED BY <1>1, <1>4, <1>5, <1>8 DEF half, z, r, tracksEnd

\* Where a block is, and how long it is.
Job(b) == [begins |-> Begins(b), ends |-> Ends(b), track |-> blockToTrackMap(b),
           width |-> 2 * blockAngleOffset(blockToTrackMap(b))]

\* The angle of a block from the first of its track.
Along(b) == LET t == blockToTrackMap(b)
            IN  (2 * blockAngleOffset(t)) * (b - tracksBegin(t) + t * disk.skew)

LEMMA TrackIs ==
    ASSUME ExactDisk(disk), NEW b \in OnDisk
    PROVE  LET t == blockToTrackMap(b)
           IN  t \in Tracks /\ tracksBegin(t) \in Int /\ b \in tracksBegin(t) .. tracksEnd(t) /\ b \in Int
<1> DEFINE t == blockToTrackMap(b)
<1>1. t \in Tracks /\ b \in tracksBegin(t) .. tracksEnd(t) /\ b \in Int
  BY DEF OnDisk, blockToTrackMap
<1>2. \A s \in Tracks : BlocksOn(s) \in Nat
  BY HalfIs
<1>3. tracksBegin(t) \in Int
  <2>1. 0 \in Tracks /\ 1 \in Tracks
    BY DEF Tracks
  <2>2. tracksBegin(0) = 0 /\ tracksBegin(1) = BlocksOn(0) /\ tracksBegin(2) = BlocksOn(0) + BlocksOn(1)
    BY DEF tracksBegin
  <2>3. t = 0 \/ t = 1 \/ t = 2
    BY <1>1 DEF Tracks
  <2> HIDE DEF t
  <2> QED BY <1>2, <2>1, <2>2, <2>3
<1> QED BY <1>1, <1>3

LEMMA JobIs ==
    ASSUME ExactDisk(disk), NEW b \in OnDisk
    PROVE  LET j == Job(b)
               r == disk.rotateSpeed
               half == blockAngleOffset(j.track)
           IN  /\ j.track \in Tracks /\ j.begins \in Angles(r) /\ j.ends \in Angles(r)
               /\ j.width = 2 * half /\ half \in 1 .. 179
               /\ Along(b) \in Int
               /\ j.begins = (Along(b) + 180 - half) % 360 /\ j.ends = (Along(b) + 180 + half) % 360
               /\ j.ends # j.begins /\ Gap(j.begins, j.ends) = j.width
<1> DEFINE t == blockToTrackMap(b)
           half == blockAngleOffset(t)
           n == b - tracksBegin(t) + t * disk.skew
           r == disk.rotateSpeed
           p == (2 * half) * n
<1>1. t \in Tracks /\ tracksBegin(t) \in Int /\ b \in Int
  BY TrackIs
<1>2. half \in 1 .. 179 /\ Multiple(2 * half, r) /\ Multiple(180 - half, r)
  BY <1>1, HalfIs
<1>3. r \in Nat \ {0} /\ disk.skew \in Int /\ Multiple(360, r)
  BY DEF ExactDisk
<1>4. n \in Int
  <2>1. t \in Int
    BY <1>1 DEF Tracks
  <2> QED BY <1>1, <1>3, <2>1
<1>5. /\ Begins(b) = (((p + 180) % 360) - half) % 360
      /\ Ends(b) = (((p + 180) % 360) + half) % 360
      /\ Along(b) = p
  BY DEF Begins, Ends, blockToAngleMap, Along
<1> HIDE DEF n, half, t
<1>6. p \in Int /\ Multiple(p, r)
  <2> DEFINE w == 2 * half
  <2>1. w \in Int /\ Multiple(w, r)
    BY <1>2
  <2> HIDE DEF w, r
  <2>2. w * n \in Int /\ Multiple(w * n, r)
    BY <1>3, <1>4, <2>1, MultipleTimes
  <2> QED BY <2>2 DEF w
<1> HIDE DEF p
<1>7. /\ Begins(b) = (p + 180 - half) % 360
      /\ Ends(b) = (p + 180 + half) % 360
  BY <1>2, <1>5, <1>6
<1> DEFINE e == 180 - half
           w == 2 * half
           f == p + e
<1>14. e \in Int /\ w \in Int /\ Multiple(e, r) /\ Multiple(w, r)
  BY <1>2
<1> HIDE DEF e, w, r
<1>8. Multiple(f, r) /\ f \in Int
  BY <1>3, <1>6, <1>14, MultiplePlus
<1> HIDE DEF f
<1>9. Multiple(f + w, r)
  BY <1>3, <1>8, <1>14, MultiplePlus
<1>10. ASSUME NEW x \in Int, Multiple(x, r) PROVE x % 360 \in Angles(r)
  <2> DEFINE q == x \div 360
  <2>1. q \in Int /\ x % 360 \in 0 .. 359 /\ x % 360 = x - 360 * q
    BY IntMod
  <2> HIDE DEF q
  <2> DEFINE c == 360
             d == c * q
  <2>4. c \in Int /\ Multiple(c, r)
    BY <1>3
  <2> HIDE DEF c
  <2>2. Multiple(d, r) /\ d \in Int
    BY <1>3, <2>1, <2>4, MultipleTimes
  <2> HIDE DEF d
  <2>3. Multiple(x - d, r)
    BY <1>3, <1>10, <2>2, MultiplePlus
  <2> QED BY <2>1, <2>3 DEF Angles, c, d
<1>11. Begins(b) \in Angles(r) /\ Ends(b) \in Angles(r)
  <2> DEFINE y == f + w
  <2>1. y \in Int /\ Begins(b) = f % 360 /\ Ends(b) = y % 360
    BY <1>2, <1>6, <1>7 DEF f, e, w
  <2> HIDE DEF y
  <2> QED BY <1>8, <1>9, <1>10, <2>1 DEF y
<1>12. Ends(b) # Begins(b) /\ Gap(Begins(b), Ends(b)) = 2 * half
  <2> DEFINE x == Begins(b)
             y == Ends(b)
  <2>1. x \in 0 .. 359
    BY <1>11 DEF Angles
  <2>2. y = (x + 2 * half) % 360
    BY <1>2, <1>6, <1>7
  <2> HIDE DEF x, y
  <2>4. half \in 1 .. 179
    BY <1>2
  <2>3. y # x /\ Gap(x, y) = 2 * half
    <3> HIDE DEF half, t, r
    <3> DEFINE c == 2 * half
    <3>1. c \in 1 .. 359
      BY ONLY <2>4
    <3>2. y = Ahead(x, c)
      BY ONLY <2>2 DEF Ahead
    <3> HIDE DEF c
    <3>3. y # x /\ Gap(x, y) = c
      BY ONLY <2>1, <3>1, <3>2, GapAcross
    <3> QED BY ONLY <3>3 DEF c
  <2> QED BY <2>3 DEF x, y
<1> QED BY <1>1, <1>2, <1>5, <1>6, <1>7, <1>11, <1>12 DEF Job, t, half, r, w

\* The block under the head when one ends is the next one, or the first of the track.
LEMMA Meets ==
    ASSUME ExactDisk(disk), NEW b \in OnDisk, NEW c \in OnDisk, Job(b).track = Job(c).track
    PROVE  StaysInTransfer(b, c, Job(b).track) <=> Job(c).begins = Job(b).ends
<1> DEFINE t == blockToTrackMap(b)
           half == blockAngleOffset(t)
           z == 2 * half
           N == BlocksOn(t)
           m == b - tracksBegin(t) + t * disk.skew
           n == c - tracksBegin(t) + t * disk.skew
<1>1. Job(b).track = t /\ t = blockToTrackMap(c)
  BY DEF Job
<1>2. /\ t \in Tracks /\ tracksBegin(t) \in Int /\ b \in Int /\ c \in Int
      /\ b \in tracksBegin(t) .. tracksEnd(t) /\ c \in tracksBegin(t) .. tracksEnd(t)
  BY <1>1, TrackIs
<1>3. half \in 1 .. 179 /\ N \in Nat \ {0} /\ 360 = N * z /\ tracksEnd(t) = tracksBegin(t) + N - 1
  BY <1>2, HalfIs
<1>4. Along(b) = z * m /\ Along(c) = z * n
  BY <1>1 DEF Along
<1>5. /\ Job(b).ends = (z * m + 180 + half) % 360 /\ Job(c).begins = (z * n + 180 - half) % 360
  <2>1. Job(b).ends = (Along(b) + 180 + half) % 360
    BY <1>1, JobIs
  <2>2. Job(c).begins = (Along(c) + 180 - blockAngleOffset(Job(c).track)) % 360
    BY JobIs
  <2>3. Job(c).track = t
    BY <1>1
  <2> QED BY <1>4, <2>1, <2>2, <2>3
<1>6. m \in Int /\ n \in Int /\ n - m = c - b
  <2> DEFINE k == t * disk.skew
  <2> HIDE DEF t
  <2>1. t \in Int
    BY <1>2 DEF Tracks
  <2>3. disk.skew \in Int
    BY DEF ExactDisk
  <2>2. k \in Int
    BY <2>1, <2>3
  <2> HIDE DEF k, t
  <2> QED BY <1>2, <2>2 DEF k
<1> DEFINE e == c - b - 1
           x == z * m
           y == z * n
<1>7. StaysInTransfer(b, c, t) <=> e = 0 \/ e = -N
  <2>1. StaysInTransfer(b, c, t) <=> (b = tracksEnd(t) /\ c = tracksBegin(t)) \/ c = b + 1
    BY <1>1 DEF StaysInTransfer
  <2> HIDE DEF t, N
  <2> QED BY <1>2, <1>3, <2>1
<1>8. e \in Int /\ -N <= e /\ e <= N - 2
  <2> HIDE DEF t, N
  <2> QED BY <1>2, <1>3
<1> HIDE DEF m, n
<1>9. x \in Int /\ y \in Int /\ y = x + z * e + z /\ z \in Int /\ z * e \in Int
  <2>1. n = m + e + 1 /\ e \in Int
    BY <1>2, <1>6, <1>8
  <2> HIDE DEF e, half, N, t
  <2> QED BY <1>3, <1>6, <2>1
<1> HIDE DEF e, N
<1>10. ASSUME e = 0 \/ e = -N PROVE Job(c).begins = Job(b).ends
  <2>1. z * e = 0 \/ z * e = -360
    BY <1>3, <1>8, <1>9, <1>10
  <2> HIDE DEF x, y
  <2> QED BY <1>3, <1>5, <1>9, <2>1 DEF x, y
<1>11. ASSUME Job(c).begins = Job(b).ends PROVE e = 0 \/ e = -N
  <2> DEFINE u == y + 180 - half
             v == x + 180 + half
  <2>1. u \in Int /\ v \in Int /\ u % 360 = v % 360 /\ u - v = z * e
    BY <1>3, <1>5, <1>9, <1>11
  <2> HIDE DEF x, y, u, v
  <2>2. PICK q \in Int : z * e = 360 * q
    <3>1. u = 360 * (u \div 360) + (u % 360) /\ v = 360 * (v \div 360) + (v % 360)
          /\ u \div 360 \in Int /\ v \div 360 \in Int
      <4>1. u \in Int /\ v \in Int
        BY <2>1
      <4> HIDE DEF z, e
      <4>2. u = 360 * (u \div 360) + (u % 360) /\ u \div 360 \in Int
        BY <4>1, DivMod360, Zenon
      <4>3. v = 360 * (v \div 360) + (v % 360) /\ v \div 360 \in Int
        BY <4>1, DivMod360, Zenon
      <4> QED BY <4>2, <4>3, Zenon
    <3> DEFINE q == (u \div 360) - (v \div 360)
    <3>2. u - v = 360 * q /\ q \in Int
      BY <2>1, <3>1
    <3> HIDE DEF q, z, e
    <3> QED BY <2>1, <3>2
  <2>3. e = N * q
    <3> HIDE DEF half
    <3>1. z * e = z * (N * q) /\ z # 0 /\ z \in Int
      BY <1>3, <1>9, <2>2
    <3> HIDE DEF z
    <3>2. N * q \in Int
      BY <1>3
    <3> DEFINE f == N * q
    <3> HIDE DEF f
    <3> QED BY <1>8, <3>1, <3>2 DEF f
  <2>4. q = 0 \/ q = -1
    <3>1. ASSUME q >= 1 PROVE FALSE
      <4>1. N * q >= N
        BY <1>3, <3>1
      <4> QED BY <1>3, <1>8, <2>3, <4>1
    <3>2. ASSUME q <= -2 PROVE FALSE
      <4>1. N * q <= -2 * N
        BY <1>3, <3>2
      <4> QED BY <1>3, <1>8, <2>3, <4>1
    <3> QED BY <3>1, <3>2
  <2> QED BY <1>3, <2>3, <2>4
<1> QED BY <1>1, <1>7, <1>10, <1>11

-----------------------------------------------------------------------------
(* The drive, and when it will be done.                                    *)

Unfinished == {"NULL", "SEEK", "ROTATE", "XFER"}
ReqStates  == Unfinished \cup {"DONE"}
Moving     == {"SEEK", "ROTATE", "XFER"}

Drives == [state : ReqStates, index : Nat, armTrack : Tracks, armTarget : Tracks, armX : Int,
           seekBegin : Nat, rotBegin : Nat, xferBegin : Nat, est : Int]

\* The block lies between two angles that the head can be at.
IsJob(j, r) ==
    /\ j.track \in Tracks /\ j.begins \in Angles(r) /\ j.ends \in Angles(r)
    /\ j.width \in 2 .. 358 /\ j.ends # j.begins /\ Gap(j.begins, j.ends) = j.width

\* The turn that the first block is late.
Late(j, d) == IF d.seekBegin = 0 /\ d.rotBegin = 0 /\ j.begins = 0 THEN 360 ELSE 0

\* The arm is k steps of s from its target.
StepsTo(d, s, k) ==
    d.armTarget * 40 = IF d.armTarget > d.armTrack THEN d.armX + k * s ELSE d.armX - k * s

\* The job takes as long as estimated if the drive goes on from where it is.
OnTime(j, r, s, d, a, t) ==
    LET gone == (t - d.seekBegin) * r
    IN  /\ d.seekBegin \in 0 .. t
        /\ d.state = "SEEK" =>
             /\ d.armTarget = j.track
             /\ \E k \in Nat \ {0} : /\ StepsTo(d, s, k)
                                     /\ d.est = gone + k * r + ((j.begins - a - k * r) % 360) + j.width
        /\ d.state # "SEEK" => d.armTrack = j.track /\ d.armX = j.track * 40
        /\ d.state = "ROTATE" => d.est + Late(j, d) = gone + Gap(a, j.begins) + j.width
        /\ d.state = "XFER" => d.est + Late(j, d) = gone + Gap(a, j.ends)

\* Whatever is served is on time.
EstInv ==
    /\ ExactDisk(disk)
    /\ requestQueue \in Seq(OnDisk) /\ lateRequests \in Seq(OnDisk)
    /\ drive \in Drives /\ timer \in Nat /\ angle \in Angles(disk.rotateSpeed) /\ requestCount \in Nat
    /\ outcome = "ready" =>
         drive.index = 0 /\ drive.armX = 0 /\ drive.armTrack = 0 /\ angle = 0 /\ timer = 0
    /\ outcome = "running" =>
         /\ drive.index \in DOMAIN requestQueue /\ drive.state \in Moving
         /\ OnTime(Job(requestQueue[drive.index]), disk.rotateSpeed, disk.seekSpeed, drive, angle, timer)

LEMMA IsJobOf ==
    ASSUME ExactDisk(disk), NEW b \in OnDisk
    PROVE  IsJob(Job(b), disk.rotateSpeed)
BY JobIs DEF IsJob

LEMMA SameDisk ==
    ASSUME disk' = disk
    PROVE  OnDisk' = OnDisk /\ \A b : Job(b)' = Job(b)
BY DEF OnDisk, Job, Begins, Ends, blockToAngleMap, blockToTrackMap, blockAngleOffset, tracksBegin, tracksEnd, BlocksOn

LEMMA SameJob ==
    ASSUME disk' = disk, NEW b, requestQueue'[drive'.index] = b
    PROVE  Job(requestQueue[drive.index])' = Job(b)
BY DEF Job, Begins, Ends, blockToAngleMap, blockToTrackMap, blockAngleOffset, tracksBegin, tracksEnd, BlocksOn

LEMMA Turned ==
    ASSUME NEW u, u \in Int PROVE (u + 360) % 360 = u % 360
OBVIOUS

\* What a tick makes of the drive.
Stepped(d) == d.armX + (IF d.armTarget > d.armTrack THEN disk.seekSpeed ELSE -disk.seekSpeed)

Arrived(d, t) == [d EXCEPT !.armX = Stepped(d), !.armTrack = d.armTarget, !.state = "ROTATE", !.rotBegin = t]

Found(d, t) == [d EXCEPT !.state = "XFER", !.xferBegin = t]

IsNear(d, a) == RadiallyCloseTo(a, Begins(requestQueue[d.index]))

LEMMA TickIs ==
    ASSUME NEW d, d \in Drives, NEW a, NEW t
    PROVE  /\ d.state = "SEEK" /\ Stepped(d) # d.armTarget * 40 => Moved(d, a, t) = [d EXCEPT !.armX = Stepped(d)]
           /\ d.state = "SEEK" /\ Stepped(d) = d.armTarget * 40 =>
                Moved(d, a, t) = IF IsNear(d, a) THEN Found(Arrived(d, t), t) ELSE Arrived(d, t)
           /\ d.state = "ROTATE" => Moved(d, a, t) = IF IsNear(d, a) THEN Found(d, t) ELSE d
           /\ d.state = "XFER" => Moved(d, a, t) = d
<1> DEFINE x == Stepped(d)
           s == Arrived(d, t)
           u == [d EXCEPT !.armX = x]
           seeked == IF d.state = "SEEK" THEN DoneWithSeek(d, t) ELSE d
<1>1. DoneWithSeek(d, t) = IF x = d.armTarget * 40 THEN s ELSE u
  BY DEF DoneWithSeek, trackWidth, Stepped, Arrived
<1>2. s.state = "ROTATE" /\ u.state = d.state /\ s.index = d.index
  BY DEF Drives, Arrived
<1>3. Moved(d, a, t) = IF seeked.state = "ROTATE" THEN DoneWithRotation(seeked, a, t) ELSE seeked
  BY DEF Moved
<1>4. \A e : DoneWithRotation(e, a, t) = IF IsNear(e, a) THEN Found(e, t) ELSE e
  BY DEF DoneWithRotation, IsNear, Found
<1> HIDE DEF x, s, u
<1>5. CASE d.state = "SEEK" /\ x # d.armTarget * 40
  <2>1. seeked = u /\ u.state # "ROTATE"
    BY <1>1, <1>2, <1>5
  <2>2. Moved(d, a, t) = u
    <3> HIDE DEF seeked
    <3> QED BY <1>3, <2>1
  <2> QED BY <1>5, <2>2 DEF u, x
<1>6. CASE d.state = "SEEK" /\ x = d.armTarget * 40
  <2>1. seeked = s
    BY <1>1, <1>6
  <2>2. Moved(d, a, t) = DoneWithRotation(s, a, t)
    <3> HIDE DEF seeked
    <3> QED BY <1>2, <1>3, <2>1
  <2>3. IsNear(s, a) <=> IsNear(d, a)
    BY <1>2 DEF IsNear
  <2>4. Moved(d, a, t) = IF IsNear(d, a) THEN Found(s, t) ELSE s
    BY <1>4, <2>2, <2>3
  <2> QED BY <1>6, <2>4 DEF x, s
<1>7. CASE d.state # "SEEK"
  <2>1. seeked = d
    BY <1>7
  <2>2. Moved(d, a, t) = IF d.state = "ROTATE" THEN DoneWithRotation(d, a, t) ELSE d
    <3> HIDE DEF seeked
    <3> QED BY <1>3, <2>1
  <2> QED BY <1>4, <1>7, <2>2
<1> QED BY <1>5, <1>6, <1>7 DEF x

\* What is left of a seek after one step.
LEMMA OneStep ==
    ASSUME NEW s \in Nat \ {0}, NEW x \in Int, NEW g \in Int, NEW k \in Nat \ {0}
    PROVE  /\ g = x + k * s => g = (x + s) + (k - 1) * s /\ (x + s = g <=> k = 1)
           /\ g = x - k * s => g = (x + (-s)) - (k - 1) * s /\ (x + (-s) = g <=> k = 1)
<1> DEFINE m == k - 1
           p == m * s
<1>1. m \in Nat /\ k * s = p + s /\ p \in Nat /\ (p = 0 <=> m = 0)
  <2>1. m \in Nat /\ k = m + 1
    OBVIOUS
  <2> HIDE DEF m
  <2>2. (m + 1) * s = m * s + s /\ m * s \in Nat /\ (m = 0 => m * s = 0)
    BY <2>1
  <2>3. m # 0 => m * s # 0
    BY <2>1
  <2> QED BY <2>1, <2>2, <2>3
<1>2. m = 0 <=> k = 1
  OBVIOUS
<1> HIDE DEF m, p
<1>3. /\ g = x + k * s => g = (x + s) + p /\ (x + s = g <=> p = 0)
      /\ g = x - k * s => g = (x + (-s)) - p /\ (x + (-s) = g <=> p = 0)
  BY <1>1
<1> QED BY <1>1, <1>2, <1>3 DEF p, m

\* The estimate of a seek, one step later: u is the angle at which the step ends.
LEMMA OneTurn ==
    ASSUME NEW r \in Int, NEW a \in Int, NEW b \in Int, NEW p \in Int, NEW q \in Int, NEW x \in Int,
           b = a + r \/ b + 360 = a + r, q = p + r,
           NEW u, u = x - b - p, NEW v, v = x - a - q
    PROVE  v % 360 = u % 360
<1>1. u \in Int /\ v \in Int /\ (u = v \/ u = v + 360)
  OBVIOUS
<1> QED BY <1>1, Turned

\* A product and the one before it.
LEMMA OneLess ==
    ASSUME NEW r \in Nat \ {0}, NEW k \in Nat \ {0}
    PROVE  k * r = (k - 1) * r + r /\ (k - 1) * r \in Int /\ k * r \in Int
<1> DEFINE m == k - 1
<1>1. m \in Nat /\ k = m + 1
  OBVIOUS
<1> HIDE DEF m
<1>2. (m + 1) * r = m * r + r /\ m * r \in Int /\ (m + 1) * r \in Int
  BY <1>1
<1>3. k * r = m * r + r /\ m * r \in Int /\ k * r \in Int
  BY <1>1, <1>2
<1> QED BY <1>3 DEF m

LEMMA DriveSet ==
    ASSUME NEW d, d \in Drives, NEW x, x \in Int, NEW n, n \in Nat, NEW q, q \in ReqStates, NEW tr, tr \in Tracks
    PROVE  /\ [d EXCEPT !.armX = x] \in Drives
           /\ [d EXCEPT !.state = q, !.xferBegin = n] \in Drives
           /\ [d EXCEPT !.armX = x, !.armTrack = tr, !.rotBegin = n, !.state = q, !.xferBegin = n] \in Drives
           /\ [d EXCEPT !.armX = x, !.armTrack = tr, !.state = q, !.rotBegin = n] \in Drives
BY DEF Drives

\* A tick of a drive that is on time.
LEMMA MovedOnTime ==
    ASSUME ExactDisk(disk), NEW d, d \in Drives, d.state \in Moving,
           NEW j, IsJob(j, disk.rotateSpeed), Begins(requestQueue[d.index]) = j.begins,
           NEW a, a \in Angles(disk.rotateSpeed), NEW t, t \in Nat,
           OnTime(j, disk.rotateSpeed, disk.seekSpeed, d, a, t),
           NEW b, b = IF a + disk.rotateSpeed >= 360 THEN 0 ELSE a + disk.rotateSpeed
    PROVE  LET e == Moved(d, b, t + 1)
               r == disk.rotateSpeed
           IN  /\ e \in Drives /\ e.index = d.index /\ e.state \in Moving /\ b \in Angles(r)
               /\ IF e.state = "XFER" /\ b = j.ends
                  THEN e = d /\ (t + 1 - d.seekBegin) * r = d.est + Late(j, d)
                  ELSE OnTime(j, r, disk.seekSpeed, e, b, t + 1)
<1> DEFINE e == Moved(d, b, t + 1)
           r == disk.rotateSpeed
           s == disk.seekSpeed
           g == (t - d.seekBegin) * r
           h == (t + 1 - d.seekBegin) * r
           x == Stepped(d)
           near == IsNear(d, b)
<1>1. r \in Nat \ {0} /\ s \in Nat \ {0} /\ Multiple(360, r)
  BY DEF ExactDisk
<1>2. b \in Angles(r) /\ b = (a + r) % 360 /\ (b = a + r \/ b + 360 = a + r) /\ a \in 0 .. 359 /\ b \in 0 .. 359
  <2> HIDE DEF r
  <2>1. b = IF a + r >= 360 THEN 0 ELSE a + r
    BY DEF r
  <2>2. a \in Angles(r)
    BY DEF r
  <2>3. b \in Angles(r) /\ b = (a + r) % 360 /\ b = IF a + r = 360 THEN 0 ELSE a + r
    BY <1>1, <2>1, <2>2, TurnIs
  <2> QED BY <1>1, <2>2, <2>3 DEF Angles
<1>3. /\ j.begins \in Angles(r) /\ j.ends \in Angles(r) /\ j.begins \in 0 .. 359 /\ j.ends \in 0 .. 359
      /\ j.width \in 2 .. 358 /\ j.ends # j.begins /\ Gap(j.begins, j.ends) = j.width /\ j.track \in Tracks
  BY DEF IsJob, Angles
<1>4. near <=> b = j.begins
  <2> DEFINE y == j.begins
  <2>1. y \in Angles(disk.rotateSpeed) /\ b \in Angles(disk.rotateSpeed) /\ disk.rotateSpeed \in Nat \ {0}
    BY <1>1, <1>2, <1>3
  <2> HIDE DEF y
  <2>2. RadiallyCloseTo(b, y) <=> b = y
    BY <2>1, CloseIs
  <2> QED BY <2>2 DEF y, IsNear
<1>5. d.seekBegin \in 0 .. t /\ g \in Int /\ h = g + r
  <2>1. d.seekBegin \in 0 .. t
    BY DEF OnTime
  <2> DEFINE n == t - d.seekBegin
  <2>2. n \in Nat /\ t + 1 - d.seekBegin = n + 1
    BY <2>1
  <2> HIDE DEF n, r
  <2>3. (n + 1) * r = n * r + r /\ n * r \in Int
    BY <1>1, <2>2
  <2> QED BY <2>1, <2>2, <2>3 DEF n
<1>6. /\ IF j.begins = b THEN Gap(a, j.begins) = r ELSE Gap(b, j.begins) = Gap(a, j.begins) - r
      /\ IF j.ends = b THEN Gap(a, j.ends) = r ELSE Gap(b, j.ends) = Gap(a, j.ends) - r
  <2> HIDE DEF r
  <2>1. a \in Angles(r)
    BY DEF r
  <2>2. ASSUME NEW y, y \in Angles(r)
        PROVE  IF y = b THEN Gap(a, y) = r ELSE Gap(b, y) = Gap(a, y) - r
    <3> DEFINE c == (a + r) % 360
    <3>1. IF y = c THEN Gap(a, y) = r ELSE Gap(c, y) = Gap(a, y) - r
      BY <1>1, <2>1, <2>2, GapTurns
    <3>2. b = c
      BY <1>2
    <3> HIDE DEF c
    <3> QED BY <3>1, <3>2
  <2> QED BY <1>3, <2>2
<1>7. /\ Gap(a, j.begins) \in Int /\ Gap(b, j.begins) \in Int /\ Gap(a, j.ends) \in Int /\ Gap(b, j.ends) \in Int
  <2>1. ASSUME NEW y, y \in 0 .. 359, NEW c, c \in 0 .. 359 PROVE Gap(c, y) \in Int
    BY <2>1, GapIs
  <2> QED BY <1>2, <1>3, <2>1
<1>8. /\ d.armX \in Int /\ d.est \in Int /\ d.armTarget \in 0 .. 2 /\ d.armTrack \in 0 .. 2 /\ d.rotBegin \in Nat
  BY DEF Drives, Tracks
<1>9. /\ d.state = "SEEK" /\ x # d.armTarget * 40 => e = [d EXCEPT !.armX = x]
      /\ d.state = "SEEK" /\ x = d.armTarget * 40 =>
           e = IF b = j.begins
               THEN [d EXCEPT !.armX = x, !.armTrack = d.armTarget, !.rotBegin = t + 1, !.state = "XFER", !.xferBegin = t + 1]
               ELSE [d EXCEPT !.armX = x, !.armTrack = d.armTarget, !.state = "ROTATE", !.rotBegin = t + 1]
      /\ d.state = "ROTATE" => e = IF b = j.begins THEN [d EXCEPT !.state = "XFER", !.xferBegin = t + 1] ELSE d
      /\ d.state = "XFER" => e = d
  <2> DEFINE t1 == t + 1
             u == Arrived(d, t1)
             v == Found(u, t1)
  <2>1. /\ u = [d EXCEPT !.armX = x, !.armTrack = d.armTarget, !.state = "ROTATE", !.rotBegin = t1]
        /\ v = [d EXCEPT !.armX = x, !.armTrack = d.armTarget, !.rotBegin = t1, !.state = "XFER", !.xferBegin = t1]
    <3> HIDE DEF x, t1
    <3> QED BY DEF Drives, Arrived, Found, x
  <2>2. /\ d.state = "SEEK" /\ x # d.armTarget * 40 => e = [d EXCEPT !.armX = x]
        /\ d.state = "SEEK" /\ x = d.armTarget * 40 => e = IF near THEN v ELSE u
        /\ d.state = "ROTATE" => e = IF near THEN Found(d, t1) ELSE d
        /\ d.state = "XFER" => e = d
    <3> HIDE DEF t1
    <3>1. e = Moved(d, b, t1)
      BY DEF t1
    <3> HIDE DEF e
    <3> QED BY <3>1, TickIs
  <2> HIDE DEF e, v, u, near, x
  <2> QED BY <1>4, <2>1, <2>2 DEF Found
<1>10. x \in Int /\ d.index \in Nat
  BY <1>1, <1>8 DEF Drives, Stepped
<1> HIDE DEF e, x, near
<1>11. e \in Drives /\ e.index = d.index /\ e.state \in Moving
  <2> DEFINE t1 == t + 1
             tr == d.armTarget
  <2>1. t1 \in Nat /\ "ROTATE" \in ReqStates /\ "XFER" \in ReqStates /\ tr \in Tracks
    BY DEF ReqStates, Unfinished, Drives
  <2>2. \/ e = [d EXCEPT !.armX = x]
        \/ e = [d EXCEPT !.armX = x, !.armTrack = tr, !.rotBegin = t1, !.state = "XFER", !.xferBegin = t1]
        \/ e = [d EXCEPT !.armX = x, !.armTrack = tr, !.state = "ROTATE", !.rotBegin = t1]
        \/ e = [d EXCEPT !.state = "XFER", !.xferBegin = t1]
        \/ e = d
    BY <1>9 DEF Moving
  <2> HIDE DEF t1, tr
  <2>3. e \in Drives
    <3>1. ASSUME NEW q, q \in ReqStates
          PROVE  /\ [d EXCEPT !.armX = x] \in Drives
                 /\ [d EXCEPT !.state = q, !.xferBegin = t1] \in Drives
                 /\ [d EXCEPT !.armX = x, !.armTrack = tr, !.rotBegin = t1, !.state = q, !.xferBegin = t1] \in Drives
                 /\ [d EXCEPT !.armX = x, !.armTrack = tr, !.state = q, !.rotBegin = t1] \in Drives
      BY <1>10, <2>1, <3>1, DriveSet
    <3>2. "ROTATE" \in ReqStates /\ "XFER" \in ReqStates
      BY <2>1
    <3>3. /\ [d EXCEPT !.armX = x] \in Drives
          /\ [d EXCEPT !.armX = x, !.armTrack = tr, !.rotBegin = t1, !.state = "XFER", !.xferBegin = t1] \in Drives
          /\ [d EXCEPT !.armX = x, !.armTrack = tr, !.state = "ROTATE", !.rotBegin = t1] \in Drives
          /\ [d EXCEPT !.state = "XFER", !.xferBegin = t1] \in Drives
      BY ONLY <3>1, <3>2
    <3>4. d \in Drives
      OBVIOUS
    <3> QED BY ONLY <2>2, <3>3, <3>4
  <2>4. e.index = d.index /\ e.state \in Moving
    BY <2>2 DEF Drives, Moving
  <2> QED BY <2>3, <2>4
<1>12. e.seekBegin = d.seekBegin /\ e.est = d.est
  BY <1>9, <1>10 DEF Drives, Moving
<1> HIDE DEF r, s
<1>13. OnTime(j, r, s, d, a, t)
  BY DEF r, s
<1>14. d.seekBegin \in 0 .. t + 1
  BY <1>5
<1>15. CASE d.state = "SEEK"
  <2>1. PICK k \in Nat \ {0} : StepsTo(d, s, k) /\ d.est = g + k * r + ((j.begins - a - k * r) % 360) + j.width
    BY <1>13, <1>15 DEF OnTime
  <2> DEFINE m == k - 1
             y == j.begins - b - m * r
  <2>2. d.armTarget = j.track
    BY <1>13, <1>15 DEF OnTime
  <2>3. /\ d.armTarget * 40 = IF d.armTarget > d.armTrack THEN x + m * s ELSE x - m * s
        /\ x = d.armTarget * 40 <=> k = 1
    BY <1>1, <1>8, <2>1, OneStep DEF StepsTo, x, Stepped, s
  <2>4. d.est = g + m * r + r + (y % 360) + j.width
    <3> DEFINE z == j.begins
    <3>1. z \in Int /\ a \in Int /\ b \in Int
      BY <1>2, <1>3
    <3>2. (b = a + r \/ b + 360 = a + r)
      BY <1>2
    <3> HIDE DEF z
    <3>3. (z - a - k * r) % 360 = (z - b - (k - 1) * r) % 360 /\ k * r = (k - 1) * r + r
      <4> DEFINE p == (k - 1) * r
                 q == k * r
                 u == z - b - p
                 v == z - a - q
      <4>1. q = p + r /\ p \in Int /\ q \in Int
        BY <1>1, OneLess
      <4>2. r \in Int
        BY <1>1
      <4> HIDE DEF p, q
      <4>3. u = z - b - p /\ v = z - a - q
        OBVIOUS
      <4> HIDE DEF u, v
      <4>4. v % 360 = u % 360
        BY <3>1, <3>2, <4>1, <4>2, <4>3, OneTurn
      <4> QED BY <4>1, <4>4 DEF u, v, p, q
    <3>4. (j.begins - a - k * r) % 360 = y % 360 /\ k * r = m * r + r
      BY <3>3 DEF z
    <3> HIDE DEF y, m, g
    <3>5. m * r \in Int /\ (y % 360) \in Int
      <4>1. m * r \in Int
        BY <1>1 DEF m
      <4>2. y \in Int
        <5> DEFINE p == m * r
        <5>1. p \in Int /\ y = j.begins - b - p
          BY <4>1 DEF y
        <5> HIDE DEF p
        <5> QED BY <1>2, <1>3, <5>1
      <4> QED BY <4>1, <4>2
    <3> QED BY <1>1, <1>3, <1>5, <2>1, <3>4, <3>5
  <2>5. m * r \in Int /\ m \in Nat
    BY <1>1
  <2>6. y \in Int /\ (y % 360) \in Int
    <3>1. y \in Int
      <4> DEFINE p == m * r
      <4>1. p \in Int /\ y = j.begins - b - p
        BY <2>5
      <4> HIDE DEF p, y
      <4> QED BY <1>2, <1>3, <4>1
    <3> HIDE DEF y
    <3> QED BY <3>1
  <2>7. d.est = h + m * r + (y % 360) + j.width
    <3> DEFINE p == m * r
               q == y % 360
    <3>1. p \in Int /\ q \in Int /\ d.est = g + p + r + q + j.width
      <4> HIDE DEF g, m, y
      <4> QED BY <2>4, <2>5, <2>6
    <3> HIDE DEF g, h, p, q
    <3>2. d.est = h + p + q + j.width
      BY <1>1, <1>3, <1>5, <3>1
    <3> QED BY <3>2 DEF p, q
  <2>8. CASE k # 1
    <3>1. e = [d EXCEPT !.armX = x]
      BY <1>9, <1>15, <2>3, <2>8
    <3>2. e.state = "SEEK" /\ e.armTarget = d.armTarget /\ e.armTrack = d.armTrack /\ e.armX = x
      BY <1>15, <3>1 DEF Drives
    <3>3. m \in Nat \ {0} /\ StepsTo(e, s, m)
      BY <2>3, <2>8, <3>2 DEF StepsTo
    <3> HIDE DEF m
    <3>4. OnTime(j, r, s, e, b, t + 1)
      BY <1>12, <1>14, <2>2, <2>7, <3>2, <3>3 DEF OnTime
    <3> QED BY <1>2, <1>11, <3>2, <3>4 DEF e, r, s
  <2>9. CASE k = 1
    <3>1. m = 0 /\ m * r = 0 /\ y = j.begins - b
      BY <1>1, <1>2, <1>3, <2>9
    <3>2. d.est = h + ((j.begins - b) % 360) + j.width
      <4> HIDE DEF g, h, m
      <4> QED BY <1>1, <1>3, <1>5, <2>7, <2>6, <3>1
    <3>3. /\ e.armX = j.track * 40 /\ e.armTrack = j.track /\ e.rotBegin = t + 1
          /\ e.state = IF b = j.begins THEN "XFER" ELSE "ROTATE"
      <4> DEFINE n == t + 1
      <4> HIDE DEF n, m
      <4>1. CASE b = j.begins
        <5>1. e = [d EXCEPT !.armX = x, !.armTrack = d.armTarget, !.rotBegin = n, !.state = "XFER", !.xferBegin = n]
          BY <1>9, <1>15, <2>3, <2>9, <4>1 DEF n
        <5>2. e.armX = x /\ e.armTrack = d.armTarget /\ e.rotBegin = n /\ e.state = "XFER"
          BY <5>1 DEF Drives
        <5> QED BY <2>2, <2>3, <2>9, <4>1, <5>2 DEF n
      <4>2. CASE b # j.begins
        <5>1. e = [d EXCEPT !.armX = x, !.armTrack = d.armTarget, !.state = "ROTATE", !.rotBegin = n]
          BY <1>9, <1>15, <2>3, <2>9, <4>2 DEF n
        <5>2. e.armX = x /\ e.armTrack = d.armTarget /\ e.rotBegin = n /\ e.state = "ROTATE"
          BY <5>1 DEF Drives
        <5> QED BY <2>2, <2>3, <2>9, <4>2, <5>2 DEF n
      <4> QED BY <4>1, <4>2
    <3>4. Late(j, e) = 0
      BY <3>3 DEF Late
    <3>5. /\ b # j.begins => Gap(b, j.begins) = (j.begins - b) % 360
          /\ b = j.begins => (j.begins - b) % 360 = 0
      BY <1>2, <1>3, GapIs
    <3>6. b # j.begins => d.est + Late(j, e) = h + Gap(b, j.begins) + j.width
      BY <1>5, <1>8, <3>2, <3>4, <3>5
    <3>7. b = j.begins => d.est + Late(j, e) = h + Gap(b, j.ends)
      BY <1>1, <1>3, <1>5, <1>8, <3>2, <3>4, <3>5
    <3>8. OnTime(j, r, s, e, b, t + 1)
      <4> HIDE DEF y, m
      <4> QED BY <1>12, <1>14, <3>3, <3>6, <3>7 DEF OnTime
    <3>9. ~ (e.state = "XFER" /\ b = j.ends)
      BY <1>3, <3>3
    <3> QED BY <1>2, <1>11, <3>8, <3>9 DEF e, r, s
  <2> QED BY <2>8, <2>9
<1>16. CASE d.state = "ROTATE"
  <2>1. d.est + Late(j, d) = g + Gap(a, j.begins) + j.width /\ d.armTrack = j.track /\ d.armX = j.track * 40
    BY <1>13, <1>16 DEF OnTime
  <2>2. /\ e.state = IF b = j.begins THEN "XFER" ELSE "ROTATE"
        /\ e.armTrack = d.armTrack /\ e.armX = d.armX /\ e.rotBegin = d.rotBegin
    <3>1. CASE b = j.begins
      <4>1. e = [d EXCEPT !.state = "XFER", !.xferBegin = t + 1]
        BY <1>9, <1>16, <3>1
      <4> QED BY <3>1, <4>1 DEF Drives
    <3>2. CASE b # j.begins
      BY <1>9, <1>16, <3>2
    <3> QED BY <3>1, <3>2
  <2>3. Late(j, e) = Late(j, d) /\ Late(j, d) \in Int
    BY <1>12, <2>2 DEF Late
  <2>4. b # j.begins => d.est + Late(j, e) = h + Gap(b, j.begins) + j.width
    <3> HIDE DEF g, h
    <3> QED BY <1>1, <1>3, <1>5, <1>6, <1>7, <1>8, <2>1, <2>3
  <2>5. b = j.begins => d.est + Late(j, e) = h + Gap(b, j.ends)
    <3> HIDE DEF g, h
    <3> QED BY <1>1, <1>3, <1>5, <1>6, <1>7, <1>8, <2>1, <2>3
  <2>6. OnTime(j, r, s, e, b, t + 1)
    BY <1>12, <1>14, <2>1, <2>2, <2>4, <2>5 DEF OnTime
  <2>7. ~ (e.state = "XFER" /\ b = j.ends)
    BY <1>3, <2>2
  <2> QED BY <1>2, <1>11, <2>6, <2>7 DEF e, r, s
<1>17. CASE d.state = "XFER"
  <2>1. d.est + Late(j, d) = g + Gap(a, j.ends) /\ d.armTrack = j.track /\ d.armX = j.track * 40
    BY <1>13, <1>17 DEF OnTime
  <2>2. e = d
    BY <1>9, <1>17
  <2>3. Late(j, d) \in Int
    BY DEF Late
  <2>4. b = j.ends => h = d.est + Late(j, d)
    <3> HIDE DEF g, h
    <3> QED BY <1>1, <1>3, <1>5, <1>6, <1>7, <1>8, <2>1, <2>3
  <2>5. b # j.ends => d.est + Late(j, d) = h + Gap(b, j.ends)
    <3> HIDE DEF g, h
    <3> QED BY <1>1, <1>3, <1>5, <1>6, <1>7, <1>8, <2>1, <2>3
  <2>6. b # j.ends => OnTime(j, r, s, e, b, t + 1)
    BY <1>14, <1>17, <2>1, <2>2, <2>5 DEF OnTime
  <2> QED BY <1>2, <1>11, <1>17, <2>2, <2>4, <2>6 DEF e, r, s
<1> QED BY <1>15, <1>16, <1>17 DEF Moving

-----------------------------------------------------------------------------
(* Choosing a request.                                                     *)

\* What Serve makes of the drive.
Stays(i, d) == d.index # 0 /\ StaysInTransfer(requestQueue[d.index], requestQueue[i], d.armTrack)

Chosen(i, d, a, t) ==
    LET plan == PlanSeek(d, i, a, t)
    IN  IF Stays(i, d) THEN [plan EXCEPT !.state = "XFER", !.rotBegin = t, !.xferBegin = t] ELSE plan

\* The arm is on a track, where the last request ended if there was one.
AtRest(d, a, t) ==
    /\ d.armX = d.armTrack * 40
    /\ IF d.index = 0 THEN t = 0 /\ a = 0
       ELSE LET j == Job(requestQueue[d.index])
            IN  t > 0 /\ requestQueue[d.index] \in OnDisk /\ d.armTrack = j.track /\ a = j.ends

\* How long the seek takes.
LEMMA SeekIs ==
    ASSUME NEW s \in Nat \ {0}, Multiple(40, s), NEW x \in Tracks, NEW y \in Tracks
    PROVE  LET k == (40 \div s) * Apart(x, y)
           IN  /\ k \in Nat /\ (k = 0 <=> x = y)
               /\ y * 40 = IF y > x THEN x * 40 + k * s ELSE x * 40 - k * s
<1>1. PICK m \in Int : 40 = m * s
  BY DEF Multiple
<1>2. m >= 1
  BY <1>1
<1>3. 40 \div s = m
  <2>1. m * s + 0 = 40 /\ 0 \in 0 .. s - 1 /\ m \in Nat
    BY <1>1, <1>2
  <2>2. (m * s + 0) \div s = m
    BY <2>1, DivOf
  <2> QED BY <2>1, <2>2
<1>4. x \in {0, 1, 2} /\ y \in {0, 1, 2}
  BY DEF Tracks
<1> DEFINE p == Apart(x, y)
           k == m * p
<1>5. p \in {0, 1, 2} /\ (p = 0 <=> x = y) /\ y * 40 = IF y > x THEN x * 40 + 40 * p ELSE x * 40 - 40 * p
  BY <1>4 DEF Apart
<1> HIDE DEF p
<1>6. k \in Nat /\ (k = 0 <=> p = 0) /\ k * s = 40 * p
  <2>1. CASE p = 0
    BY <1>1, <1>2, <2>1
  <2>2. CASE p = 1
    BY <1>1, <1>2, <2>2
  <2>3. CASE p = 2
    BY <1>1, <1>2, <2>3
  <2> QED BY <1>5, <2>1, <2>2, <2>3
<1> HIDE DEF k
<1>7. y * 40 = IF y > x THEN x * 40 + k * s ELSE x * 40 - k * s
  BY <1>4, <1>5, <1>6
<1> QED BY <1>3, <1>5, <1>6, <1>7 DEF k, p

LEMMA PlanFields ==
    ASSUME NEW d, d \in Drives, NEW i, i \in Nat, NEW t, t \in Nat, NEW a, NEW tr, tr \in Tracks,
           tr = blockToTrackMap(requestQueue[i]), NEW est, est = totalEst(d, a, requestQueue[i]), est \in Int
    PROVE  LET e == Chosen(i, d, a, t)
           IN  /\ e \in Drives /\ e.index = i /\ e.est = est /\ e.seekBegin = t
               /\ e.armTrack = d.armTrack /\ e.armX = d.armX
               /\ Stays(i, d) => e.state = "XFER" /\ e.rotBegin = t
               /\ ~ Stays(i, d) /\ tr = d.armTrack => e.state = "ROTATE" /\ e.rotBegin = t
               /\ ~ Stays(i, d) /\ tr # d.armTrack => e.state = "SEEK" /\ e.armTarget = tr
<1> DEFINE e == Chosen(i, d, a, t)
           plan == PlanSeek(d, i, a, t)
           p == [d EXCEPT !.index = i, !.seekBegin = t, !.est = est]
<1>1. p \in Drives
  BY DEF Drives
<1>2. /\ p.index = i /\ p.est = est /\ p.seekBegin = t /\ p.armTrack = d.armTrack /\ p.armX = d.armX
  BY DEF Drives
<1>3. plan = IF tr = d.armTrack THEN [p EXCEPT !.state = "ROTATE", !.rotBegin = t]
             ELSE [p EXCEPT !.state = "SEEK", !.armTarget = tr]
  BY DEF PlanSeek
<1>4. "SEEK" \in ReqStates /\ "ROTATE" \in ReqStates /\ "XFER" \in ReqStates
  BY DEF ReqStates, Unfinished
<1> HIDE DEF p, plan
<1>5. plan \in Drives
  BY <1>1, <1>3, <1>4 DEF Drives
<1>6. /\ plan.index = i /\ plan.est = est /\ plan.seekBegin = t
      /\ plan.armTrack = d.armTrack /\ plan.armX = d.armX
      /\ tr = d.armTrack => plan.state = "ROTATE" /\ plan.rotBegin = t
      /\ tr # d.armTrack => plan.state = "SEEK" /\ plan.armTarget = tr
  BY <1>1, <1>2, <1>3 DEF Drives
<1>7. e = IF Stays(i, d) THEN [plan EXCEPT !.state = "XFER", !.rotBegin = t, !.xferBegin = t] ELSE plan
  BY DEF Chosen, plan
<1> HIDE DEF e
<1>8. e \in Drives
  BY <1>4, <1>5, <1>7 DEF Drives
<1> QED BY <1>5, <1>6, <1>7, <1>8 DEF Drives, e

\* A request that is chosen is on time.
LEMMA PlanOnTime ==
    ASSUME ExactDisk(disk), NEW d, d \in Drives, NEW a, a \in Angles(disk.rotateSpeed), NEW t, t \in Nat,
           AtRest(d, a, t), NEW i, i \in Nat, requestQueue[i] \in OnDisk
    PROVE  LET e == Chosen(i, d, a, t)
           IN  /\ e \in Drives /\ e.index = i /\ e.state \in Moving
               /\ OnTime(Job(requestQueue[i]), disk.rotateSpeed, disk.seekSpeed, e, a, t)
<1> DEFINE e == Chosen(i, d, a, t)
           r == disk.rotateSpeed
           s == disk.seekSpeed
           c == requestQueue[i]
           j == Job(c)
           tr == blockToTrackMap(c)
           k == (40 \div s) * Apart(d.armTrack, tr)
           est == totalEst(d, a, c)
           x == j.begins - a - k * r
<1>1. r \in Nat \ {0} /\ s \in Nat \ {0} /\ Multiple(360, r) /\ Multiple(40, s)
  BY DEF ExactDisk
<1>2. IsJob(j, r) /\ j.track = tr /\ j.begins = Begins(c) /\ j.width = 2 * blockAngleOffset(tr)
  BY IsJobOf DEF Job
<1>3. /\ j.begins \in 0 .. 359 /\ j.ends \in 0 .. 359 /\ j.width \in 2 .. 358 /\ tr \in Tracks
      /\ j.ends # j.begins /\ Gap(j.begins, j.ends) = j.width /\ a \in 0 .. 359
  BY <1>2 DEF IsJob, Angles
<1>4. d.armTrack \in Tracks /\ d.armX = d.armTrack * 40
  BY DEF Drives, AtRest
<1>5. /\ k \in Nat /\ (k = 0 <=> d.armTrack = tr)
      /\ tr * 40 = IF tr > d.armTrack THEN d.armX + k * s ELSE d.armX - k * s
  <2> HIDE DEF s, tr
  <2> QED BY <1>1, <1>3, <1>4, SeekIs
<1>6. est = k * r + ((j.begins - (a + k * r)) % 360) + j.width
  BY <1>2 DEF totalEst, SeekTicks, angleAtArrival, Distance, trackWidth
<1> DEFINE p == k * r
<1>7. p \in Int /\ (k = 0 => p = 0)
  <2> HIDE DEF k, r
  <2> QED BY <1>1, <1>5
<1> HIDE DEF c, tr, est, k, j, r, s, e
<1>8. est = p + (x % 360) + j.width /\ x \in Int /\ (x % 360) \in Int
  <2> HIDE DEF p
  <2>1. j.begins - (a + p) = j.begins - a - p /\ j.begins - a - p \in Int
    BY <1>3, <1>7
  <2>2. x = j.begins - a - p
    BY DEF p
  <2>3. est = p + ((j.begins - (a + p)) % 360) + j.width
    BY <1>6 DEF p
  <2> HIDE DEF x
  <2> QED BY <2>1, <2>2, <2>3
<1>9. est \in Int
  <2> HIDE DEF p, x
  <2> QED BY <1>3, <1>7, <1>8
<1>10. /\ e \in Drives /\ e.index = i /\ e.est = est /\ e.seekBegin = t
       /\ e.armTrack = d.armTrack /\ e.armX = d.armX
       /\ Stays(i, d) => e.state = "XFER" /\ e.rotBegin = t
       /\ ~ Stays(i, d) /\ tr = d.armTrack => e.state = "ROTATE" /\ e.rotBegin = t
       /\ ~ Stays(i, d) /\ tr # d.armTrack => e.state = "SEEK" /\ e.armTarget = tr
  BY <1>3, <1>9, PlanFields DEF e, est, tr, c
<1>11. t \in 0 .. t /\ (t - e.seekBegin) * r = 0
  BY <1>1, <1>10
<1> DEFINE b == requestQueue[d.index]
<1>12. Stays(i, d) => /\ d.index # 0 /\ t > 0 /\ tr = d.armTrack /\ a = j.begins
  <2> SUFFICES ASSUME Stays(i, d)
               PROVE  d.index # 0 /\ t > 0 /\ tr = d.armTrack /\ a = j.begins
    OBVIOUS
  <2>1. /\ d.index # 0 /\ t > 0 /\ b \in OnDisk /\ d.armTrack = Job(b).track /\ a = Job(b).ends
        /\ StaysInTransfer(b, c, Job(b).track)
    BY DEF Stays, AtRest, c
  <2>2. Job(c).track = Job(b).track
    BY <2>1 DEF StaysInTransfer, Job
  <2>3. c \in OnDisk
    BY DEF c
  <2> HIDE DEF b
  <2>4. Job(c).begins = Job(b).ends
    BY <2>1, <2>2, <2>3, Meets
  <2> QED BY <1>2, <2>1, <2>2, <2>4 DEF j
<1>13. ~ Stays(i, d) /\ tr = d.armTrack /\ t > 0 => a # j.begins
  <2> SUFFICES ASSUME ~ Stays(i, d), tr = d.armTrack, t > 0 PROVE a # j.begins
    OBVIOUS
  <2>1. /\ d.index # 0 /\ b \in OnDisk /\ d.armTrack = Job(b).track /\ a = Job(b).ends
        /\ ~ StaysInTransfer(b, c, Job(b).track)
    BY DEF Stays, AtRest, c
  <2>2. Job(c).track = Job(b).track
    BY <1>2, <2>1 DEF j
  <2>3. c \in OnDisk
    BY DEF c
  <2> HIDE DEF b
  <2>4. Job(c).begins # Job(b).ends
    BY <2>1, <2>2, <2>3, Meets
  <2> QED BY <2>1, <2>4 DEF j
<1>14. tr = d.armTrack => est = ((j.begins - a) % 360) + j.width
  <2> SUFFICES ASSUME tr = d.armTrack PROVE est = ((j.begins - a) % 360) + j.width
    OBVIOUS
  <2>1. p = 0
    BY <1>5, <1>7
  <2>2. x = j.begins - a
    <3>1. x = j.begins - a - p
      BY DEF p
    <3> HIDE DEF x, p
    <3> QED BY <1>3, <2>1, <3>1
  <2> HIDE DEF x, p
  <2> QED BY <1>3, <1>8, <2>1, <2>2
<1>15. /\ Gap(a, j.begins) \in 1 .. 360 /\ (a # j.begins => Gap(a, j.begins) = (j.begins - a) % 360)
       /\ (a = j.begins => (j.begins - a) % 360 = 0)
       /\ Gap(a, j.begins) = IF j.begins > a THEN j.begins - a ELSE j.begins - a + 360
  <2> DEFINE y == j.begins
  <2> HIDE DEF y
  <2>1. y \in 0 .. 359
    BY <1>3 DEF y
  <2>2. /\ Gap(a, y) \in 1 .. 360 /\ (a # y => Gap(a, y) = (y - a) % 360) /\ (a = y => (y - a) % 360 = 0)
        /\ Gap(a, y) = IF y > a THEN y - a ELSE y - a + 360
    BY <1>3, <2>1, GapIs
  <2> QED BY <2>2 DEF y
<1>16. CASE Stays(i, d)
  <2>1. e.state = "XFER" /\ tr = d.armTrack /\ a = j.begins /\ t > 0
    BY <1>10, <1>12, <1>16
  <2>2. Late(j, e) = 0
    BY <1>10, <2>1 DEF Late
  <2>3. e.est + Late(j, e) = (t - e.seekBegin) * r + Gap(a, j.ends)
    <3> DEFINE M == (j.begins - a) % 360
               Z == (t - e.seekBegin) * r
    <3>1. e.est = M + j.width /\ M = 0 /\ Z = 0
      BY <1>10, <1>11, <1>14, <1>15, <2>1
    <3>2. Gap(a, j.ends) = j.width
      BY <1>3, <2>1
    <3> HIDE DEF M, Z
    <3>3. e.est + Late(j, e) = Z + Gap(a, j.ends)
      BY <1>3, <2>2, <3>1, <3>2
    <3> QED BY <3>3 DEF Z
  <2>4. OnTime(j, r, s, e, a, t)
    BY <1>2, <1>4, <1>10, <1>11, <2>1, <2>3 DEF OnTime
  <2> QED BY <1>10, <2>1, <2>4 DEF Moving, e, r, s, j, c
<1>17. CASE ~ Stays(i, d) /\ tr = d.armTrack
  <2>1. e.state = "ROTATE" /\ e.rotBegin = t
    BY <1>10, <1>17
  <2>2. e.est + Late(j, e) = (t - e.seekBegin) * r + Gap(a, j.begins) + j.width
    <3>1. CASE t > 0
      <4>1. Late(j, e) = 0 /\ a # j.begins
        BY <1>10, <1>13, <1>17, <3>1 DEF Late
        <4> DEFINE G == Gap(a, j.begins)
                   M == (j.begins - a) % 360
                   Z == (t - e.seekBegin) * r
                   L == Late(j, e)
        <4>7. e.est = M + j.width /\ M = G /\ Z = 0 /\ G \in Int /\ L = 0
          BY <1>10, <1>11, <1>14, <1>15, <1>17, <4>1
        <4> HIDE DEF G, M, Z, L
        <4>8. e.est + L = Z + G + j.width
          BY <1>3, <4>7
        <4> QED BY <4>8 DEF G, Z, L
    <3>2. CASE t = 0
      <4>1. a = 0
        BY <3>2 DEF AtRest
      <4>2. CASE j.begins = 0
        <5>1. Late(j, e) = 360
          BY <1>10, <2>1, <3>2, <4>2 DEF Late
        <5> QED BY <1>3, <1>10, <1>11, <1>14, <1>15, <1>17, <4>1, <4>2, <5>1
      <4>3. CASE j.begins # 0
        <5>1. Late(j, e) = 0
          BY <4>3 DEF Late
          <5> DEFINE G == Gap(a, j.begins)
                     M == (j.begins - a) % 360
                     Z == (t - e.seekBegin) * r
                     L == Late(j, e)
          <5>7. e.est = M + j.width /\ M = G /\ Z = 0 /\ G \in Int /\ L = 0
            BY <1>10, <1>11, <1>14, <1>15, <1>17, <4>1, <4>3, <5>1
          <5> HIDE DEF G, M, Z, L
          <5>8. e.est + L = Z + G + j.width
            BY <1>3, <5>7
          <5> QED BY <5>8 DEF G, Z, L
      <4> QED BY <4>2, <4>3
    <3> QED BY <3>1, <3>2
  <2>3. OnTime(j, r, s, e, a, t)
    BY <1>2, <1>4, <1>10, <1>11, <1>17, <2>1, <2>2 DEF OnTime
  <2> QED BY <1>10, <2>1, <2>3 DEF Moving, e, r, s, j, c
<1>18. CASE ~ Stays(i, d) /\ tr # d.armTrack
  <2>1. e.state = "SEEK" /\ e.armTarget = tr
    BY <1>10, <1>18
  <2>2. k \in Nat \ {0} /\ StepsTo(e, s, k)
    BY <1>5, <1>10, <1>18, <2>1 DEF StepsTo
  <2>3. e.est = (t - e.seekBegin) * r + k * r + ((j.begins - a - k * r) % 360) + j.width
    <3> DEFINE q == x % 360
               g == (t - e.seekBegin) * r
    <3>1. e.est = p + q + j.width /\ q \in Int /\ g = 0
      BY <1>8, <1>10, <1>11
    <3>2. e.est = g + p + q + j.width
      <4> HIDE DEF p, q, g
      <4> QED BY <1>3, <1>7, <3>1
    <3> QED BY <3>2 DEF p, q
  <2>4. OnTime(j, r, s, e, a, t)
    BY <1>2, <1>10, <1>11, <2>1, <2>2, <2>3 DEF OnTime
  <2> QED BY <1>10, <2>1, <2>4 DEF Moving, e, r, s, j, c
<1> QED BY <1>16, <1>17, <1>18

-----------------------------------------------------------------------------
(* The steps of the disk.                                                  *)

LEMMA EstNextIO ==
    ASSUME disk' = disk, ExactDisk(disk), requestQueue \in Seq(OnDisk), lateRequests \in Seq(OnDisk),
           NEW d, d \in Drives, NEW a, a \in Angles(disk.rotateSpeed), NEW t, t \in Nat, AtRest(d, a, t),
           NEW st, NEW count, NEW win, GetNextIO(st, count, win, d, a, t), angle' = a, timer' = t,
           requestCount' \in Nat
    PROVE  EstInv'
<1>1. /\ ExactDisk(disk)' /\ angle' \in Angles(disk.rotateSpeed)' /\ timer' \in Nat
      /\ OnDisk' = OnDisk /\ requestCount' \in Nat
  BY SameDisk
<1>2. outcome' # "ready"
  BY DEF GetNextIO
<1>3. CASE outcome' # "running"
  <2>1. drive' = d /\ requestQueue' = requestQueue /\ lateRequests' = lateRequests
    BY <1>3 DEF GetNextIO
  <2> QED BY <1>1, <1>2, <1>3, <2>1 DEF EstInv
<1>4. CASE outcome' = "running"
  <2>1. PICK w, near : /\ near \subseteq Undone(st, Candidates(count, w))
                       /\ \E i \in DoSATF(d, a, near) : Serve(i, st, d, a, t)
    BY <1>4 DEF GetNextIO, DoSSTF
  <2>2. PICK i \in near : Serve(i, st, d, a, t)
    BY <2>1 DEF DoSATF
  <2>3. i \in DOMAIN requestQueue /\ i \in Nat /\ requestQueue[i] \in OnDisk
    <3>1. i \in 1 .. Len(requestQueue)
      BY <2>1, <2>2 DEF Undone, Candidates
    <3> QED BY <3>1
  <2> DEFINE added == IF lateRequests = <<>> THEN <<>> ELSE <<Head(lateRequests)>>
  <2>4. /\ drive' = Chosen(i, d, a, t) /\ requestQueue' = requestQueue \o added
        /\ lateRequests' = SubSeq(lateRequests, 2, Len(lateRequests))
    BY <2>2 DEF Serve, Chosen, Stays
  <2>5. added \in Seq(OnDisk)
    OBVIOUS
  <2> HIDE DEF added
  <2>6. /\ requestQueue' \in Seq(OnDisk) /\ lateRequests' \in Seq(OnDisk)
        /\ i \in DOMAIN requestQueue' /\ requestQueue'[i] = requestQueue[i]
    <3>1. requestQueue \o added \in Seq(OnDisk) /\ Len(requestQueue \o added) = Len(requestQueue) + Len(added)
      BY <2>5, ConcatProperties
    <3>2. \A k \in 1 .. Len(requestQueue) : (requestQueue \o added)[k] = requestQueue[k]
      BY <2>5, ConcatProperties
    <3>3. i \in 1 .. Len(requestQueue) /\ Len(added) \in Nat /\ Len(requestQueue) \in Nat
      BY <2>3, <2>5
    <3>4. i \in 1 .. Len(requestQueue \o added)
      BY <3>1, <3>3
    <3>5. SubSeq(lateRequests, 2, Len(lateRequests)) \in Seq(OnDisk)
      OBVIOUS
    <3> QED BY <2>4, <3>1, <3>2, <3>3, <3>4, <3>5
  <2>7. /\ drive' \in Drives /\ drive'.index = i /\ drive'.state \in Moving
        /\ OnTime(Job(requestQueue[i]), disk.rotateSpeed, disk.seekSpeed, drive', a, t)
    <3> DEFINE e == Chosen(i, d, a, t)
    <3>1. /\ e \in Drives /\ e.index = i /\ e.state \in Moving
          /\ OnTime(Job(requestQueue[i]), disk.rotateSpeed, disk.seekSpeed, e, a, t)
      BY <2>3, PlanOnTime
    <3>2. drive' = e
      BY <2>4
    <3> HIDE DEF e
    <3> QED BY <3>1, <3>2
  <2>8. Job(requestQueue[drive.index])' = Job(requestQueue[i])
    <3> DEFINE b == requestQueue[i]
    <3>1. requestQueue'[drive'.index] = b
      BY <2>6, <2>7
    <3> HIDE DEF b
    <3>2. Job(requestQueue[drive.index])' = Job(b)
      BY <3>1, SameJob
    <3> QED BY <3>2 DEF b
  <2>9. OnTime(Job(requestQueue[drive.index]), disk.rotateSpeed, disk.seekSpeed, drive, angle, timer)'
    BY <2>7, <2>8
  <2> QED BY <1>1, <1>2, <2>6, <2>7, <2>9 DEF EstInv
<1> QED BY <1>3, <1>4

LEMMA EstGoHolds == ASSUME EstInv, Go PROVE EstInv'
<1>1. /\ disk' = disk /\ ExactDisk(disk) /\ requestQueue \in Seq(OnDisk) /\ lateRequests \in Seq(OnDisk)
      /\ drive \in Drives /\ drive.index = 0 /\ drive.armX = 0 /\ drive.armTrack = 0
      /\ angle' = 0 /\ timer' = 0 /\ angle = 0 /\ angle \in Angles(disk.rotateSpeed)
      /\ GetNextIO(requestState, 0, currWindow, drive, 0, 0) /\ requestCount' \in Nat
  BY DEF EstInv, Go
<1>2. AtRest(drive, 0, 0)
  BY <1>1 DEF AtRest
<1> QED BY <1>1, <1>2, EstNextIO

LEMMA EstAnimateHolds == ASSUME EstInv, Animate PROVE EstInv' /\ EstimateExact
<1> DEFINE e == Moved(drive, angle', timer')
           r == disk.rotateSpeed
           s == disk.seekSpeed
           b == requestQueue[drive.index]
           j == Job(b)
           d == [e EXCEPT !.state = "DONE"]
           st == [requestState EXCEPT ![e.index] = "DONE"]
<1>1. /\ outcome = "running" /\ disk' = disk /\ timer' = timer + 1
      /\ angle' = IF angle + r >= 360 THEN 0 ELSE angle + r
      /\ IF DoneWithTransfer(e, angle')
         THEN /\ requestCount' = requestCount + 1
              /\ GetNextIO(st, requestCount + 1, UpdateWindow(currWindow), d, angle', timer')
         ELSE /\ drive' = e
              /\ UNCHANGED <<requestQueue, lateRequests, requestCount, outcome>>
  BY DEF Animate
<1>2. /\ ExactDisk(disk) /\ requestQueue \in Seq(OnDisk) /\ lateRequests \in Seq(OnDisk)
      /\ drive \in Drives /\ timer \in Nat /\ angle \in Angles(r) /\ requestCount \in Nat
      /\ drive.index \in DOMAIN requestQueue /\ drive.state \in Moving /\ OnTime(j, r, s, drive, angle, timer)
  BY <1>1 DEF EstInv
<1>3. b \in OnDisk /\ drive.index \in 1 .. Len(requestQueue)
  BY <1>2
<1>4. IsJob(j, r) /\ Begins(requestQueue[drive.index]) = j.begins /\ Ends(requestQueue[drive.index]) = j.ends
  BY <1>2, <1>3, IsJobOf DEF Job
<1> HIDE DEF j
<1>5. /\ e \in Drives /\ e.index = drive.index /\ e.state \in Moving /\ angle' \in Angles(r)
      /\ IF e.state = "XFER" /\ angle' = j.ends
         THEN e = drive /\ (timer + 1 - drive.seekBegin) * r = drive.est + Late(j, drive)
         ELSE OnTime(j, r, s, e, angle', timer + 1)
  <2> DEFINE x == angle'
             f == Moved(drive, x, timer + 1)
  <2>1. e = f /\ x = IF angle + disk.rotateSpeed >= 360 THEN 0 ELSE angle + disk.rotateSpeed
    BY <1>1
  <2> HIDE DEF e, x
  <2>2. /\ f \in Drives /\ f.index = drive.index /\ f.state \in Moving /\ x \in Angles(disk.rotateSpeed)
        /\ IF f.state = "XFER" /\ x = j.ends
           THEN f = drive /\ (timer + 1 - drive.seekBegin) * disk.rotateSpeed = drive.est + Late(j, drive)
           ELSE OnTime(j, disk.rotateSpeed, disk.seekSpeed, f, x, timer + 1)
    BY <1>2, <1>4, <2>1, MovedOnTime
  <2> HIDE DEF f
  <2> QED BY <2>1, <2>2 DEF x
<1> HIDE DEF e
<1>6. DoneWithTransfer(e, angle') <=> e.state = "XFER" /\ angle' = j.ends
  <2> DEFINE y == j.ends
             x == angle'
  <2>1. y \in Angles(disk.rotateSpeed) /\ x \in Angles(disk.rotateSpeed) /\ disk.rotateSpeed \in Nat \ {0}
    BY <1>2, <1>4, <1>5 DEF IsJob, ExactDisk
  <2> HIDE DEF x, y
  <2>2. RadiallyCloseTo(x, y) <=> x = y
    BY <2>1, CloseIs
  <2>3. RadiallyCloseTo(angle', Ends(requestQueue[e.index])) <=> angle' = j.ends
    BY <1>4, <1>5, <2>2 DEF x, y
  <2> QED BY <2>3 DEF DoneWithTransfer
<1>7. CASE DoneWithTransfer(e, angle')
  <2>1. e = drive /\ e.state = "XFER" /\ angle' = j.ends /\ (timer + 1 - drive.seekBegin) * r = drive.est + Late(j, drive)
    BY <1>5, <1>6, <1>7
  <2>2. EstimateExact
    <3>1. UnderTheHead <=> drive.seekBegin = 0 /\ drive.rotBegin = 0 /\ j.begins = 0
      BY <1>4 DEF UnderTheHead
    <3>2. Late(j, drive) = IF UnderTheHead THEN 360 ELSE 0
      BY <3>1 DEF Late
    <3>3. timer' = timer + 1
      BY <1>1
    <3>4. (timer' - drive.seekBegin) * disk.rotateSpeed = drive.est + Late(j, drive)
      <4>1. timer - drive.seekBegin + 1 = timer + 1 - drive.seekBegin /\ timer' - drive.seekBegin = timer + 1 - drive.seekBegin
        BY <1>2, <3>3 DEF Drives
      <4> DEFINE n == timer + 1 - drive.seekBegin
                 m == timer' - drive.seekBegin
      <4>2. m = n
        BY <4>1
      <4>3. n * disk.rotateSpeed = drive.est + Late(j, drive)
        BY <2>1
      <4> HIDE DEF m, n
      <4>4. m * disk.rotateSpeed = drive.est + Late(j, drive)
        BY <4>2, <4>3
      <4> QED BY <4>4 DEF m
    <3> DEFINE p == (timer' - drive.seekBegin) * disk.rotateSpeed
    <3>5. p = drive.est + (IF UnderTheHead THEN 360 ELSE 0)
      <4> HIDE DEF p
      <4>1. p = drive.est + Late(j, drive)
        BY <3>4 DEF p
      <4> QED BY <3>2, <4>1
    <3> QED BY <3>5 DEF EstimateExact
  <2>3. drive.armTrack = j.track /\ drive.armX = j.track * 40
    BY <1>2, <2>1 DEF OnTime
  <2>4. d \in Drives /\ d.index = drive.index /\ d.armTrack = drive.armTrack /\ d.armX = drive.armX
    BY <1>5, <2>1 DEF Drives, ReqStates
  <2> HIDE DEF d
  <2>5. AtRest(d, angle', timer')
    BY <1>1, <1>2, <1>3, <2>1, <2>3, <2>4 DEF AtRest, j
  <2>6. GetNextIO(st, requestCount + 1, UpdateWindow(currWindow), d, angle', timer')
    BY <1>1, <1>7
  <2> DEFINE count == requestCount + 1
             win == UpdateWindow(currWindow)
  <2> HIDE DEF st, count, win
  <2>7. timer' \in Nat /\ requestCount' \in Nat
    BY <1>1, <1>2, <1>7
  <2>8. EstInv'
    BY <1>1, <1>2, <1>5, <2>4, <2>5, <2>6, <2>7, EstNextIO DEF count, win
  <2> QED BY <2>2, <2>8
<1>8. CASE ~ DoneWithTransfer(e, angle')
  <2>1. /\ drive' = e /\ requestQueue' = requestQueue /\ lateRequests' = lateRequests
        /\ requestCount' = requestCount /\ outcome' = outcome
    BY <1>1, <1>8
  <2>2. OnTime(j, r, s, e, angle', timer')
    BY <1>1, <1>5, <1>6, <1>8
  <2>3. OnDisk' = OnDisk /\ Job(requestQueue[drive.index])' = j
    <3>1. requestQueue'[drive'.index] = b
      BY <1>5, <2>1
    <3>2. disk' = disk
      BY <1>1
    <3> HIDE DEF b
    <3>3. Job(requestQueue[drive.index])' = Job(b)
      BY <3>1, <3>2, SameJob
    <3> QED BY <3>2, <3>3, SameDisk DEF j
  <2>4. OnTime(Job(requestQueue[drive.index]), disk.rotateSpeed, disk.seekSpeed, drive, angle, timer)'
    BY <1>1, <2>1, <2>2, <2>3
  <2>5. EstInv'
    BY <1>1, <1>2, <1>5, <2>1, <2>3, <2>4 DEF EstInv
  <2>6. ~ (requestCount' > requestCount) /\ requestCount' \in Nat
    BY <1>2, <2>1
  <2> QED BY <2>5, <2>6 DEF EstimateExact
<1> QED BY <1>7, <1>8


LEMMA EstInitHolds == ASSUME DiskInit, requestQueue \in Seq(OnDisk), lateRequests \in Seq(OnDisk) PROVE EstInv
<1>1. PICK g \in Geometries, policy \in Policies, window \in Windows :
        /\ disk = [policy |-> policy, window |-> window, zoning |-> g.zoning, skew |-> g.skew,
                   rotateSpeed |-> g.rotateSpeed, seekSpeed |-> g.seekSpeed]
        /\ requestCount = 0
        /\ drive = [state |-> "NULL", index |-> 0, armTrack |-> 0, armTarget |-> 0, armX |-> 0,
                    seekBegin |-> 0, rotBegin |-> 0, xferBegin |-> 0, est |-> 0]
        /\ angle = 0 /\ timer = 0
        /\ outcome = "ready"
  BY DEF DiskInit
<1> DEFINE r == disk.rotateSpeed
           s == disk.seekSpeed
<1>2. disk.rotateSpeed = g.rotateSpeed /\ disk.seekSpeed = g.seekSpeed /\ disk.skew = g.skew /\ disk.zoning = g.zoning
  BY <1>1
<1>3. r \in Nat \ {0} /\ s \in Nat \ {0} /\ disk.skew \in Int /\ 360 % r = 0 /\ 40 % s = 0
  BY <1>2, AngleAssumption
<1> DEFINE fits(half) == half < 180 /\ 360 % (2 * half) = 0 /\ (2 * half) % r = 0 /\ (180 - half) % r = 0
<1>10. \A k \in 1 .. 3 : fits(disk.zoning[k] \div 2)
  BY <1>2, AngleAssumption
<1>4. \A k \in 1 .. 3 : disk.zoning[k] \in Nat \ {0, 1}
  BY <1>2, DiskAssumption
<1> HIDE DEF r, s
<1>5. Multiple(360, r) /\ Multiple(40, s)
  <2> DEFINE c == 360
             w == 40
  <2>1. c \in Int /\ w \in Int /\ c % r = 0 /\ w % s = 0
    BY <1>3
  <2> HIDE DEF c, w
  <2>2. Multiple(c, r) /\ Multiple(w, s)
    BY <1>3, <2>1, MultipleIs
  <2> QED BY <2>2 DEF c, w
<1>6. ASSUME NEW t \in Tracks
      PROVE  LET half == disk.zoning[t + 1] \div 2
             IN  half \in 1 .. 179 /\ Multiple(360, 2 * half) /\ Multiple(2 * half, r) /\ Multiple(180 - half, r)
  <2> DEFINE k == t + 1
             z == disk.zoning[k]
             half == z \div 2
  <2>1. k \in 1 .. 3
    BY DEF Tracks
  <2> HIDE DEF k
  <2>2. z \in Nat \ {0, 1}
    BY <1>4, <2>1
  <2>7. fits(half)
    <3> HIDE DEF fits
    <3> QED BY <1>10, <2>1
  <2> HIDE DEF z
  <2>3. half \in Nat \ {0}
    BY <2>2, Z3
  <2> DEFINE c == 360
             w == 2 * half
             f == 180 - half
  <2> HIDE DEF half
  <2>4. c \in Int /\ w \in Nat \ {0} /\ f \in Int /\ c % w = 0 /\ w % r = 0 /\ f % r = 0
    BY <2>3, <2>7
  <2> HIDE DEF c, w, f
  <2>5. Multiple(c, w) /\ Multiple(w, r) /\ Multiple(f, r)
    BY <1>3, <2>4, MultipleIs
  <2>6. half \in 1 .. 179
    BY <2>3, <2>7
  <2> QED BY <2>5, <2>6 DEF c, w, f, half, z, k
<1>7. ExactDisk(disk)
  BY <1>3, <1>5, <1>6 DEF ExactDisk, r, s
<1>8. angle \in Angles(disk.rotateSpeed)
  <2>1. 0 = 0 * r /\ 0 \in Int
    BY <1>3
  <2> QED BY <1>1, <2>1 DEF Angles, Multiple, r
<1>9. drive \in Drives
  BY <1>1 DEF Drives, ReqStates, Unfinished, Tracks
<1> QED BY <1>1, <1>7, <1>8, <1>9 DEF EstInv

LEMMA EstStands == ASSUME EstInv, UNCHANGED diskVars PROVE EstInv'
<1>1. /\ disk' = disk /\ requestQueue' = requestQueue /\ lateRequests' = lateRequests
      /\ requestCount' = requestCount /\ drive' = drive /\ angle' = angle /\ timer' = timer /\ outcome' = outcome
  BY DEF diskVars
<1> DEFINE b == requestQueue[drive.index]
<1>2. requestQueue'[drive'.index] = b /\ disk' = disk
  BY <1>1
<1> HIDE DEF b
<1>3. Job(requestQueue[drive.index])' = Job(b) /\ OnDisk' = OnDisk
  BY <1>2, SameJob, SameDisk
<1> QED BY <1>1, <1>3 DEF EstInv, b

LEMMA EstStepHolds == ASSUME EstInv, DiskStep PROVE EstInv' /\ EstimateExact
<1>1. CASE Go
  <2>1. requestCount' = requestCount /\ requestCount \in Nat
    BY <1>1 DEF Go, EstInv
  <2>2. EstimateExact
    BY <2>1 DEF EstimateExact
  <2> QED BY <1>1, <2>2, EstGoHolds
<1>2. CASE Animate
  BY <1>2, EstAnimateHolds
<1> QED BY <1>1, <1>2 DEF DiskStep

==============================================================================
