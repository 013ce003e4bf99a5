---------------------------- MODULE WaitingProofs ----------------------------
(***************************************************************************)
(* barrier.c, the servers and mutex-nostarve.c, each by itself and as the  *)
(* behaviours of Waiting.                                                  *)
(*   - For any number of children: count is the number of children that    *)
(*     have come, and none is past the barrier before all have printed.    *)
(*   - For any number of clients and any size of the table whose           *)
(*     descriptors fit a char: the table of server_select.c holds the      *)
(*     lowest descriptors, and a client is left out only because the table *)
(*     was full.                                                           *)
(*   - For any number of threads, each of which may come back: the         *)
(*     turnstiles of the mutex are one token, at most one thread has the   *)
(*     lock, and while a thread is in either room no other has it more     *)
(*     than twice.                                                         *)
(***************************************************************************)
EXTENDS Waiting, FiniteSetTheorems, TLAPS

-----------------------------------------------------------------------------
(* The barrier.                                                            *)

USE NumThreadsAssumption

\* The pc values of a thread that count counts.
CountedLabels == {"posting", "leaving", "waiting", "passed", "done"}

CountIsCounted == count = Cardinality(Counted)

\* s is posted, and a thread is past its wait, only when all threads have come.
OpenOnlyWhenFull ==
    (sem["s"] > 0 \/ \E t \in Threads : pc[t] \in {"posting", "passed", "done"})
      => Counted = Threads

BarrierInv == TypeOK /\ CountIsCounted /\ OpenOnlyWhenFull

-----------------------------------------------------------------------------
\* There are num_threads threads, and the counted ones are some of them.
LEMMA ThreadsFinite ==
    /\ IsFiniteSet(Threads)
    /\ Cardinality(Threads) = num_threads
BY FS_Interval, SMT DEF Threads

LEMMA CountedFinite ==
    /\ IsFiniteSet(Counted)
    /\ Cardinality(Counted) \in Nat
    /\ Cardinality(Counted) = num_threads => Counted = Threads
<1>1. Counted \in SUBSET Threads
  BY DEF Counted
<1> QED
  BY <1>1, ThreadsFinite, FS_Subset, FS_CardinalityType

\* A step that neither begins nor ends with a counted thread counts none.
LEMMA MoveKeepsCounted ==
    ASSUME TypeOK, NEW t \in Threads, NEW from, NEW to, Go(t, from, to),
           from \in CountedLabels <=> to \in CountedLabels
    PROVE  Counted' = Counted
BY DEF TypeOK, Go, Counted, CountedLabels, Threads

\* The step that a thread is counted in.
LEMMA MoveCounts ==
    ASSUME TypeOK, NEW t \in Threads, NEW from, NEW to, Go(t, from, to),
           from \notin CountedLabels, to \in CountedLabels
    PROVE  Counted' = Counted \cup {t} /\ t \notin Counted
BY DEF TypeOK, Go, Counted, CountedLabels, Threads

-----------------------------------------------------------------------------
\* Every step keeps the types.
LEMMA TypeStep == TypeOK /\ [Step \/ Finished]_vars => TypeOK'
<1> SUFFICES ASSUME TypeOK, [Step \/ Finished]_vars PROVE TypeOK'
  OBVIOUS
<1>1. CASE Create /\ UNCHANGED dataVars
  BY <1>1 DEF TypeOK, Create, dataVars
<1>2. ASSUME NEW t \in Threads, child(t) PROVE TypeOK'
  <2>1. CASE Local(t, "start", "before") /\ UNCHANGED dataVars
    BY <2>1 DEF TypeOK, Local, Go, dataVars, Labels
  <2>2. CASE Local(t, "passed", "done") /\ UNCHANGED dataVars
    BY <2>2 DEF TypeOK, Local, Go, dataVars, Labels
  <2>3. CASE Sem_wait(t, "before", "counting", "m") /\ UNCHANGED dataVars
    BY <2>3 DEF TypeOK, Sem_wait, Go, dataVars, Labels
  <2>4. CASE Sem_post(t, "leaving", "waiting", "m") /\ UNCHANGED dataVars
    BY <2>4 DEF TypeOK, Sem_post, Go, dataVars, Labels
  <2>5. CASE Sem_wait(t, "waiting", "passed", "s") /\ UNCHANGED dataVars
    BY <2>5 DEF TypeOK, Sem_wait, Go, dataVars, Labels
  <2>6. CASE CountIn(t)
    BY <2>6 DEF TypeOK, CountIn, Local, Go, Labels
  <2>7. CASE PostLoop(t)
    <3>1. CASE posts[t] < num_threads
      BY <2>7, <3>1 DEF TypeOK, PostLoop, Sem_post, Go, Labels
    <3>2. CASE ~(posts[t] < num_threads)
      BY <2>7, <3>2 DEF TypeOK, PostLoop, Local, Go, Labels
    <3> QED BY <3>1, <3>2
  <2> QED
    BY <1>2, <2>1, <2>2, <2>3, <2>4, <2>5, <2>6, <2>7 DEF child, barrier
<1>3. CASE Finished \/ UNCHANGED vars
  BY <1>3 DEF TypeOK, Finished, vars, semVars, dataVars
<1> QED
  BY <1>1, <1>2, <1>3 DEF Step

\* Every step counts the threads that come, and opens s only when all have.
LEMMA CountStep ==
    BarrierInv /\ [Step \/ Finished]_vars => (CountIsCounted /\ OpenOnlyWhenFull)'
<1> SUFFICES ASSUME BarrierInv, [Step \/ Finished]_vars
             PROVE  (CountIsCounted /\ OpenOnlyWhenFull)'
  OBVIOUS
<1> USE DEF BarrierInv
<1>1. CASE Create /\ UNCHANGED dataVars
  BY <1>1 DEF Create, dataVars, CountIsCounted, OpenOnlyWhenFull, Counted
<1>2. ASSUME NEW t \in Threads, child(t)
      PROVE  (CountIsCounted /\ OpenOnlyWhenFull)'
  <2>1. CASE Local(t, "start", "before") /\ UNCHANGED dataVars
    <3>1. Counted' = Counted
      BY <2>1, MoveKeepsCounted DEF Local, CountedLabels
    <3> QED
      BY <2>1, <3>1 DEF Local, Go, dataVars, CountIsCounted, OpenOnlyWhenFull, TypeOK
  <2>2. CASE Local(t, "passed", "done") /\ UNCHANGED dataVars
    <3>1. Counted' = Counted
      BY <2>2, MoveKeepsCounted DEF Local, CountedLabels
    <3> QED
      BY <2>2, <3>1 DEF Local, Go, dataVars, CountIsCounted, OpenOnlyWhenFull, TypeOK
  <2>3. CASE Sem_wait(t, "before", "counting", "m") /\ UNCHANGED dataVars
    <3>1. Counted' = Counted
      BY <2>3, MoveKeepsCounted DEF Sem_wait, CountedLabels
    <3> QED
      BY <2>3, <3>1 DEF Sem_wait, Go, dataVars, CountIsCounted, OpenOnlyWhenFull, TypeOK
  <2>4. CASE Sem_post(t, "leaving", "waiting", "m") /\ UNCHANGED dataVars
    <3>1. Counted' = Counted
      BY <2>4, MoveKeepsCounted DEF Sem_post, CountedLabels
    <3> QED
      BY <2>4, <3>1 DEF Sem_post, Go, dataVars, CountIsCounted, OpenOnlyWhenFull, TypeOK
  <2>5. CASE Sem_wait(t, "waiting", "passed", "s") /\ UNCHANGED dataVars
    <3>1. Counted' = Counted
      BY <2>5, MoveKeepsCounted DEF Sem_wait, CountedLabels
    <3>2. Counted = Threads
      BY <2>5 DEF Sem_wait, OpenOnlyWhenFull
    <3> QED
      BY <2>5, <3>1, <3>2 DEF Sem_wait, dataVars, CountIsCounted, OpenOnlyWhenFull
  <2>6. CASE CountIn(t)
    <3>1. Counted' = Counted \cup {t} /\ t \notin Counted
      <4>1. CASE count + 1 = num_threads
        BY <2>6, <4>1, MoveCounts DEF CountIn, Local, CountedLabels
      <4>2. CASE count + 1 # num_threads
        BY <2>6, <4>2, MoveCounts DEF CountIn, Local, CountedLabels
      <4> QED BY <4>1, <4>2
    <3>2. Cardinality(Counted') = Cardinality(Counted) + 1
      BY <3>1, CountedFinite, FS_AddElement
    <3>3. CountIsCounted'
      BY <2>6, <3>2 DEF CountIn, CountIsCounted
    <3>4. sem' = sem /\ Counted # Threads
      BY <2>6, <3>1 DEF CountIn, Local
    <3>5. CASE count + 1 = num_threads
      <4>1. Counted' \in SUBSET Threads
        BY DEF Counted
      <4>2. Cardinality(Counted') = Cardinality(Threads)
        BY <3>2, <3>5, ThreadsFinite DEF CountIsCounted
      <4>3. Counted' = Threads
        BY <4>1, <4>2, ThreadsFinite, FS_Subset
      <4> QED
        BY <3>3, <4>3 DEF OpenOnlyWhenFull
    <3>6. CASE count + 1 # num_threads
      BY <2>6, <3>3, <3>4, <3>6 DEF CountIn, Local, Go, OpenOnlyWhenFull, TypeOK
    <3> QED BY <3>5, <3>6
  <2>7. CASE PostLoop(t)
    <3>1. pc[t] = "posting"
      BY <2>7 DEF PostLoop, Sem_post, Local, Go
    <3>2. Counted = Threads
      BY <3>1 DEF OpenOnlyWhenFull
    <3>3. Counted' = Counted
      <4>1. CASE posts[t] < num_threads
        BY <2>7, <4>1, MoveKeepsCounted DEF PostLoop, Sem_post, CountedLabels
      <4>2. CASE ~(posts[t] < num_threads)
        BY <2>7, <4>2, MoveKeepsCounted DEF PostLoop, Local, CountedLabels
      <4> QED BY <4>1, <4>2
    <3>4. count' = count
      BY <2>7 DEF PostLoop
    <3> QED
      BY <3>2, <3>3, <3>4 DEF CountIsCounted, OpenOnlyWhenFull
  <2> QED
    BY <1>2, <2>1, <2>2, <2>3, <2>4, <2>5, <2>6, <2>7 DEF child, barrier
<1>3. CASE Finished \/ UNCHANGED vars
  BY <1>3 DEF Finished, vars, semVars, dataVars, CountIsCounted, OpenOnlyWhenFull, Counted
<1> QED
  BY <1>1, <1>2, <1>3 DEF Step

-----------------------------------------------------------------------------
\* At first none has come.
LEMMA BarrierInit == Init => BarrierInv
<1> SUFFICES ASSUME Init PROVE BarrierInv
  OBVIOUS
<1>1. TypeOK
  BY DEF Init, TypeOK, Labels
<1>2. Counted = {}
  BY DEF Init, Counted
<1>3. CountIsCounted
  BY <1>2, FS_EmptySet DEF Init, CountIsCounted
<1>4. OpenOnlyWhenFull
  BY DEF Init, OpenOnlyWhenFull
<1> QED
  BY <1>1, <1>3, <1>4 DEF BarrierInv

LEMMA BarrierStep == BarrierInv /\ [Step \/ Finished]_vars => BarrierInv'
BY TypeStep, CountStep DEF BarrierInv

LEMMA BarrierBefore == BarrierInv => BeforeFirst
BY DEF BarrierInv, OpenOnlyWhenFull, BeforeFirst, Counted

\* The inductive invariant holds for any number of children.
THEOREM BarrierInvariance == Spec => []BarrierInv
BY BarrierInit, BarrierStep, PTL DEF Spec

\* barrier.c:9: each child prints its "before" message before any child prints
\* its "after", whatever the number of children and the order of their steps.
THEOREM BarrierHolds == Spec => []BeforeFirst
BY BarrierInvariance, BarrierBefore, PTL

-----------------------------------------------------------------------------
(* The servers.                                                            *)

USE ServerAssumption DEF server_fd

Connections == [state : {"away", "queued", "open", "closed"}, fd : Nat,
                unread : BOOLEAN,
                answer : BOOLEAN, link : {"up", "left", "reset"}]

Slots == 1 .. MAX_CLIENT

\* The descriptors of the first MAX_CLIENT clients, and those in use.
LowFds == server_fd + 1 .. server_fd + MAX_CLIENT
UsedFds == {conn[c].fd : c \in Open}

Types ==
    /\ server \in {"select", "iterative"}
    /\ conn \in [Customers -> Connections]
    /\ clients \in [Slots -> Nat]
    /\ slot \in Slots
    /\ at \in {"select", "serve"} => server = "select"
    /\ at = "read" => server = "iterative"

\* Two open connections have two descriptors.
DistinctFds ==
    /\ \A c \in Open : conn[c].fd > server_fd
    /\ \A c, d \in Open : conn[c].fd = conn[d].fd => c = d

\* The table names connections that are open; server.c has none.
TableOpen ==
    \A i \in Slots : clients[i] # 0 => server = "select" /\ clients[i] \in UsedFds

ServerInv == Types /\ DistinctFds /\ TableOpen /\ SlotsHold

-----------------------------------------------------------------------------
\* A set of natural numbers that is not empty has a least element.
LEMMA MinIs ==
    ASSUME NEW S, S \subseteq Nat, S # {}
    PROVE  Min(S) \in S /\ \A y \in S : Min(S) <= y
<1> DEFINE R == {ss \in Nat \X Nat : ss[1] < ss[2]}
<1>1. IsWellFoundedOn(R, Nat)
  BY NatLessThanWellFounded DEF OpToRel
<1>2. PICK x \in S : \A y \in S : ~ (<<y, x>> \in R)
  BY <1>1, WFMin
<1>3. ASSUME NEW y \in S PROVE x <= y
  <2>1. <<y, x>> \in Nat \X Nat /\ ~ (<<y, x>> \in R)
    BY <1>2
  <2>2. ~ (y < x)
    BY <2>1
  <2> QED BY <2>2
<1> QED BY <1>3 DEF Min

\* What a table that is full uses: every low descriptor.
LEMMA FullTable ==
    ASSUME ServerInv, \A i \in Slots : clients[i] # 0
    PROVE  LowFds \subseteq UsedFds
<1>1. clients \in [Slots -> LowFds] /\ \A i, j \in Slots : clients[i] = clients[j] => i = j
  BY DEF ServerInv, Types, SlotsHold, Slots, LowFds
<1>2. clients \in Injection(Slots, LowFds)
  BY <1>1 DEF Injection, IsInjective
<1>3. /\ IsFiniteSet(Slots) /\ Cardinality(Slots) = MAX_CLIENT
      /\ IsFiniteSet(LowFds) /\ Cardinality(LowFds) = MAX_CLIENT
  BY FS_Interval DEF Slots, LowFds
<1>4. clients \in Surjection(Slots, LowFds)
  BY <1>2, <1>3, FS_Injection
<1> QED
  BY <1>4 DEF Surjection, ServerInv, TableOpen

\* What one with a free slot leaves: a low descriptor.
LEMMA TableWithRoom ==
    ASSUME ServerInv, server = "select", NEW i \in Slots, clients[i] = 0
    PROVE  ~ (LowFds \subseteq UsedFds)
<1> SUFFICES ASSUME LowFds \subseteq UsedFds PROVE FALSE
  OBVIOUS
<1> DEFINE Busy == Slots \ {i}
<1> DEFINE f == [j \in Busy |-> IF clients[j] = 0 THEN server_fd + 1 ELSE clients[j]]
<1>1. ASSUME NEW y \in LowFds PROVE \E j \in Busy : clients[j] = y
  <2>1. PICK c \in Open : conn[c].fd = y
    BY DEF UsedFds
  <2>2. c \in Customers /\ ~ Stranded(c)
    BY <2>1 DEF Open, LowFds, ServerInv, SlotsHold
  <2>3. y \in ToSet(clients) /\ y # 0
    BY <2>1, <2>2 DEF Stranded, Open, LowFds
  <2> QED
    BY <2>3 DEF ToSet, ServerInv, Types
<1>2. f \in [Busy -> LowFds]
  BY DEF ServerInv, SlotsHold, Types, LowFds, Slots
<1>3. \A y \in LowFds : \E j \in Busy : f[j] = y
  BY <1>1 DEF LowFds
<1>4. f \in Surjection(Busy, LowFds)
  BY <1>2, <1>3 DEF Surjection
<1>5. /\ IsFiniteSet(Slots) /\ Cardinality(Slots) = MAX_CLIENT
      /\ IsFiniteSet(LowFds) /\ Cardinality(LowFds) = MAX_CLIENT
  <2> HIDE DEF f, Busy
  <2>1. MAX_CLIENT \in Nat \ {0}
    BY ServerAssumption
  <2>2. IsFiniteSet(Slots) /\ Cardinality(Slots) = MAX_CLIENT
    BY <2>1, FS_Interval DEF Slots
  <2>3. IsFiniteSet(LowFds) /\ Cardinality(LowFds) = MAX_CLIENT
    BY <2>1, FS_Interval DEF LowFds
  <2> QED BY <2>2, <2>3
<1>6. IsFiniteSet(Busy) /\ Cardinality(Busy) = MAX_CLIENT - 1
  <2>1. i \in Slots
    OBVIOUS
  <2> HIDE DEF f
  <2> QED
    BY <1>5, <2>1, FS_RemoveElement
<1>7. Cardinality(LowFds) <= Cardinality(Busy)
  BY <1>4, <1>6, FS_Surjection
<1> QED
  BY <1>5, <1>6, <1>7

\* The descriptor of a new connection is not in use, and no free one is lower.
LEMMA NewFd ==
    ASSUME ServerInv, Queued # {}
    PROVE  /\ new_fd \in Nat /\ new_fd > server_fd /\ new_fd \notin UsedFds
           /\ \A y \in LowFds : y \notin UsedFds => new_fd <= y
<1> DEFINE Fds == server_fd + 1 .. server_fd + Cardinality(Customers)
<1>1. Cardinality(Customers) \in Nat
  BY FS_CardinalityType
<1>2. PICK q \in Customers : q \notin Open
  BY DEF Queued, Open
<1>3. IsFiniteSet(Customers \ {q}) /\ Cardinality(Customers \ {q}) = Cardinality(Customers) - 1
  BY FS_RemoveElement
<1>4. Open \in SUBSET (Customers \ {q})
  BY <1>2 DEF Open
<1>5. /\ IsFiniteSet(Open) /\ Cardinality(Open) <= Cardinality(Customers) - 1
      /\ Cardinality(Open) \in Nat
  BY <1>3, <1>4, FS_Subset, FS_CardinalityType
<1>6. IsFiniteSet(UsedFds) /\ Cardinality(UsedFds) <= Cardinality(Open)
  <2> DEFINE g == [c \in Open |-> conn[c].fd]
  <2>1. g \in Surjection(Open, UsedFds)
    BY DEF Surjection, UsedFds
  <2> QED BY <1>5, <2>1, FS_Surjection
<1>7. Fds \ UsedFds # {}
  <2> SUFFICES ASSUME Fds \subseteq UsedFds PROVE FALSE
    OBVIOUS
  <2>1. Cardinality(Fds) = Cardinality(Customers)
    BY <1>1, FS_Interval
  <2>2. Fds \in SUBSET UsedFds
    OBVIOUS
  <2>3. Cardinality(Fds) <= Cardinality(UsedFds) /\ Cardinality(UsedFds) \in Nat
    BY <1>6, <2>2, FS_Subset, FS_CardinalityType
  <2> QED BY <1>1, <1>5, <1>6, <2>1, <2>3
<1>8. new_fd = Min(Fds \ UsedFds)
  BY DEF new_fd, UsedFds
<1>9. new_fd \in Fds \ UsedFds /\ \A y \in Fds \ UsedFds : new_fd <= y
  <2>1. Fds \ UsedFds \subseteq Nat
    BY <1>1
  <2> QED BY <1>7, <1>8, <2>1, MinIs
<1>10. ASSUME NEW y \in LowFds, y \notin UsedFds PROVE new_fd <= y
  <2>1. y \in Fds \/ y > server_fd + Cardinality(Customers)
    BY <1>1 DEF LowFds
  <2> QED BY <1>1, <1>9, <1>10, <2>1 DEF LowFds
<1> QED
  BY <1>1, <1>9, <1>10

-----------------------------------------------------------------------------
\* At first the table is empty and no connection is open.
LEMMA ServerInitHolds == ServerInit => ServerInv
<1> SUFFICES ASSUME ServerInit PROVE ServerInv
  OBVIOUS
<1>1. Open = {}
  BY DEF ServerInit, Open
<1>2. Types
  BY DEF ServerInit, Types, Connections, Slots
<1>3. DistinctFds /\ TableOpen /\ SlotsHold
  BY <1>1 DEF ServerInit, DistinctFds, TableOpen, SlotsHold, Stranded, Open, Slots
<1> QED
  BY <1>2, <1>3 DEF ServerInv

\* A step that opens and closes nothing, and leaves the table alone.
LEMMA NothingOpens ==
    ASSUME ServerInv, Types', UNCHANGED <<server, clients>>,
           \A c \in Customers : /\ conn'[c].fd = conn[c].fd
                                /\ conn'[c].state = "open" <=> conn[c].state = "open"
    PROVE  ServerInv'
<1>1. Open' = Open /\ UsedFds' = UsedFds
  BY DEF Open, UsedFds
<1>2. \A c \in Customers : Stranded(c)' <=> Stranded(c)
  BY DEF Stranded
<1>3. DistinctFds'
  BY <1>1 DEF ServerInv, DistinctFds, Open
<1>4. TableOpen'
  BY <1>1 DEF ServerInv, TableOpen
<1>5. SlotsHold'
  BY <1>2 DEF ServerInv, SlotsHold
<1> QED
  BY <1>3, <1>4, <1>5 DEF ServerInv

\* The clients connect, send, take their answers and leave.
LEMMA ClientKeeps == ServerInv /\ ClientStep => ServerInv'
<1> SUFFICES ASSUME ServerInv, ClientStep PROVE ServerInv'
  OBVIOUS
<1>1. /\ UNCHANGED <<server, clients, read_fds, at, slot>>
      /\ \E c \in Customers : Connect(c) \/ Send(c) \/ Take(c) \/ Leave(c)
  BY DEF ClientStep
<1>2. PICK c \in Customers : Connect(c) \/ Send(c) \/ Take(c) \/ Leave(c)
  BY <1>1
<1>3. Types'
  <2>1. conn \in [Customers -> Connections] /\ conn[c] \in Connections
    BY DEF ServerInv, Types
  <2>2. CASE Connect(c)
    BY <1>1, <2>1, <2>2 DEF Connect, ServerInv, Types, Connections
  <2>3. CASE Send(c)
    BY <1>1, <2>1, <2>3 DEF Send, ServerInv, Types, Connections
  <2>4. CASE Take(c)
    BY <1>1, <2>1, <2>4 DEF Take, ServerInv, Types, Connections
  <2>5. CASE Leave(c)
    BY <1>1, <2>1, <2>5 DEF Leave, ServerInv, Types, Connections
  <2> QED BY <1>2, <2>2, <2>3, <2>4, <2>5
<1>4. \A d \in Customers : /\ conn'[d].fd = conn[d].fd
                           /\ conn'[d].state = "open" <=> conn[d].state = "open"
  BY <1>2 DEF Connect, Send, Take, Leave, ServerInv, Types, Connections
<1> QED
  BY <1>1, <1>3, <1>4, NothingOpens

\* A connection closes, and leaves the table if it was there.
LEMMA Closes ==
    ASSUME ServerInv, Types', UNCHANGED server, NEW c \in Open,
           conn' = [conn EXCEPT ![c].state = "closed", ![c].fd = 0],
           \A i \in Slots : clients'[i] = IF clients[i] = conn[c].fd THEN 0 ELSE clients[i]
    PROVE  ServerInv'
<1> USE DEF ServerInv, Types
<1>1. c \in Customers
  BY DEF Open
<1>2. /\ Open' = Open \ {c}
      /\ \A d \in Customers \ {c} : conn'[d] = conn[d]
  BY <1>1 DEF Open
<1>3. DistinctFds'
  BY <1>2 DEF DistinctFds, Open
<1>4. UsedFds' = UsedFds \ {conn[c].fd}
  BY <1>2 DEF UsedFds, DistinctFds, Open
<1>5. TableOpen'
  BY <1>4 DEF TableOpen
<1>6. ASSUME NEW d \in Customers, Stranded(d)' PROVE Stranded(d) /\ conn'[d].fd = conn[d].fd
  <2>1. d # c /\ conn'[d] = conn[d] /\ d \in Open
    BY <1>1, <1>2, <1>6 DEF Stranded, Open
  <2>2. conn[d].fd # conn[c].fd
    BY <2>1 DEF DistinctFds
  <2>3. conn[d].fd \notin ToSet(clients)
    BY <1>6, <2>1, <2>2 DEF Stranded, ToSet
  <2> QED
    BY <1>6, <2>1, <2>3 DEF Stranded
<1>7. SlotsHold'
  BY <1>6 DEF SlotsHold, Slots
<1> QED
  BY <1>3, <1>5, <1>7

\* An answer opens and closes nothing.
LEMMA AnswerKeeps ==
    ASSUME ServerInv, NEW c \in Open, NEW next \in {"select", "serve", "read"}, Answer(c, next),
           UNCHANGED <<server, clients>>, slot' \in Slots,
           next \in {"select", "serve"} => server = "select",
           next = "read" => server = "iterative"
    PROVE  ServerInv'
<1>1. c \in Customers /\ conn \in [Customers -> Connections] /\ conn[c] \in Connections
  BY DEF ServerInv, Types, Open
<1>2. conn' = [conn EXCEPT ![c].unread = FALSE, ![c].answer = (conn[c].link = "up"),
                           ![c].link = IF @ = "up" THEN "up" ELSE "reset"]
  BY DEF Answer
<1>3. conn' \in [Customers -> Connections]
  BY <1>1, <1>2 DEF Connections
<1>4. \A d \in Customers : /\ conn'[d].fd = conn[d].fd
                           /\ conn'[d].state = "open" <=> conn[d].state = "open"
  BY <1>1, <1>2 DEF Connections
<1>5. at' \in {next, "ended"}
  BY DEF Answer
<1>6. Types'
  BY <1>3, <1>5 DEF ServerInv, Types
<1> QED
  BY <1>4, <1>6, NothingOpens

\* What closes is no longer open, and nothing else changes.
LEMMA CloseTypes ==
    ASSUME Types, NEW c \in Open, Close(c)
    PROVE  conn' \in [Customers -> Connections]
<1>1. c \in Customers /\ conn \in [Customers -> Connections] /\ conn[c] \in Connections
  BY DEF Types, Open
<1>2. [conn[c] EXCEPT !.state = "closed", !.fd = 0] \in Connections
  BY <1>1 DEF Connections
<1>3. conn' = [conn EXCEPT ![c] = [conn[c] EXCEPT !.state = "closed", !.fd = 0]]
  BY <1>1 DEF Close
<1> QED BY <1>1, <1>2, <1>3

\* One slot of the table, and one turn of the inner loop of server.c.
LEMMA ServeKeeps == ServerInv /\ (serve \/ serveOne) => ServerInv'
<1> SUFFICES ASSUME ServerInv, serve \/ serveOne PROVE ServerInv'
  OBVIOUS
<1>1. CASE serve
  <2> DEFINE next == IF slot = MAX_CLIENT THEN "select" ELSE "serve"
  <2>1. /\ at = "serve" /\ server = "select" /\ UNCHANGED server
        /\ slot' \in Slots /\ slot \in Slots /\ next \in {"select", "serve"}
    BY <1>1 DEF serve, ServerInv, Types, Slots
  <2>2. CASE clients[slot] \notin read_fds
    <3>1. UNCHANGED <<conn, clients>> /\ at' \in {"select", "serve"}
      BY <1>1, <2>2 DEF serve
    <3>2. Types'
      BY <2>1, <3>1 DEF ServerInv, Types
    <3> QED
      BY <2>1, <3>1, <3>2, NothingOpens
  <2>3. ASSUME NEW c \in Open, conn[c].fd = clients[slot], Close(c),
               clients' = [clients EXCEPT ![slot] = 0], at' = next
        PROVE  ServerInv'
    <3>1. Types'
      BY <2>1, <2>3, CloseTypes DEF ServerInv, Types
    <3>2. clients[slot] # 0
      BY <2>3 DEF ServerInv, DistinctFds
    <3>3. \A i \in Slots : clients'[i] = IF clients[i] = conn[c].fd THEN 0 ELSE clients[i]
      BY <2>1, <2>3, <3>2 DEF ServerInv, SlotsHold, Types, Slots
    <3> QED
      BY <2>1, <2>3, <3>1, <3>3, Closes DEF Close
  <2>4. ASSUME NEW c \in Open, Answer(c, next), UNCHANGED clients
        PROVE  ServerInv'
    <3> HIDE DEF next
    <3> QED BY <2>1, <2>4, AnswerKeeps
  <2> QED BY <1>1, <2>2, <2>3, <2>4 DEF serve
<1>2. CASE serveOne
  <2>1. at = "read" /\ server = "iterative" /\ UNCHANGED <<server, clients, slot>> /\ slot' \in Slots
    BY <1>2 DEF serveOne, ServerInv, Types
  <2>2. ASSUME NEW c \in Open, Answer(c, "read") PROVE ServerInv'
    BY <2>1, <2>2, AnswerKeeps
  <2>3. ASSUME NEW c \in Open, Close(c), at' = "accept" PROVE ServerInv'
    <3>1. Types'
      BY <2>1, <2>3, CloseTypes DEF ServerInv, Types
    <3>2. \A i \in Slots : clients[i] = 0 /\ clients' = clients
      BY <2>1 DEF ServerInv, TableOpen
    <3>3. \A i \in Slots : clients'[i] = IF clients[i] = conn[c].fd THEN 0 ELSE clients[i]
      BY <3>2
    <3> QED
      BY <2>1, <2>3, <3>1, <3>3, Closes DEF Close
  <2> QED BY <1>2, <2>2, <2>3 DEF serveOne, Readable
<1> QED
  BY <1>1, <1>2

\* A connection is accepted: it finds a slot, or the table is full.
LEMMA AcceptKeeps == ServerInv /\ accept => ServerInv'
<1> SUFFICES ASSUME ServerInv, accept PROVE ServerInv'
  OBVIOUS
<1> USE DEF ServerInv
<1>0. UNCHANGED <<server, read_fds, slot>> /\ at' = IF server = "select" THEN "serve" ELSE "read"
  BY DEF accept
<1>1. CASE UNCHANGED <<conn, clients>>
  <2>1. Types'
    BY <1>0, <1>1 DEF Types
  <2> QED BY <1>0, <1>1, <2>1, NothingOpens
<1>2. ASSUME NEW c \in Queued,
             conn' = [conn EXCEPT ![c].state = "open", ![c].fd = new_fd],
             clients' = IF server = "select" THEN Stored(new_fd) ELSE clients
      PROVE  ServerInv'
  <2> DEFINE n == new_fd
  <2>1. /\ n \in Nat /\ n > server_fd /\ n \notin UsedFds
        /\ \A y \in LowFds : y \notin UsedFds => n <= y
    BY <1>2, NewFd
  <2> HIDE DEF n
  <2>2. c \in Customers /\ c \notin Open
    BY DEF Queued, Open
  <2>3. /\ conn' \in [Customers -> Connections]
        /\ conn'[c].state = "open" /\ conn'[c].fd = n
        /\ \A d \in Customers \ {c} : conn'[d] = conn[d]
    <3> DEFINE k == [conn[c] EXCEPT !.state = "open", !.fd = n]
    <3>1. conn \in [Customers -> Connections] /\ conn[c] \in Connections
      BY <2>2 DEF Types
    <3>2. k \in Connections /\ k.state = "open" /\ k.fd = n
      BY <2>1, <3>1 DEF Connections
    <3>3. conn' = [conn EXCEPT ![c] = k]
      BY <1>2, <2>2, <3>1 DEF n
    <3> HIDE DEF k
    <3> QED BY <2>2, <3>1, <3>2, <3>3
  <2>4. Open' = Open \cup {c} /\ UsedFds' = UsedFds \cup {n}
    BY <2>2, <2>3 DEF Open, UsedFds
  <2>5. DistinctFds'
    BY <2>1, <2>2, <2>3, <2>4 DEF DistinctFds, UsedFds, Open
  <2>6. \A i \in Slots : clients[i] # n
    BY <2>1 DEF TableOpen
  <2>7. CASE \/ server = "iterative" /\ clients' = clients
             \/ server = "select" /\ clients' = clients /\ \A i \in Slots : clients[i] # 0
    <3>1. Types'
      BY <1>0, <2>3, <2>7 DEF Types
    <3>2. TableOpen'
      BY <1>0, <2>4, <2>7 DEF TableOpen
    <3>3. server = "select" => n > server_fd + MAX_CLIENT
      BY <2>1, <2>7, FullTable DEF LowFds, Types
    <3>4. ASSUME NEW d \in Customers, Stranded(d)' PROVE conn'[d].fd > server_fd + MAX_CLIENT
      <4>1. CASE d = c
        BY <1>0, <2>3, <3>3, <3>4, <4>1 DEF Stranded
      <4>2. CASE d # c
        BY <1>0, <2>3, <2>7, <3>4, <4>2 DEF Stranded, SlotsHold
      <4> QED BY <4>1, <4>2
    <3>5. SlotsHold'
      BY <2>7, <3>4 DEF SlotsHold
    <3> QED
      BY <2>5, <3>1, <3>2, <3>5
  <2>8. ASSUME server = "select", NEW i \in Slots, clients[i] = 0, clients' = [clients EXCEPT ![i] = AsChar(n)]
        PROVE  ServerInv'
    <3>1. n \in LowFds
      <4>1. PICK y \in LowFds : y \notin UsedFds
        BY <2>8, TableWithRoom
      <4> QED BY <2>1, <4>1 DEF LowFds
    <3>2. clients' = [clients EXCEPT ![i] = n] /\ n # 0
      <4>1. n \in Nat /\ n # 0 /\ n <= charMax
        BY <3>1 DEF LowFds, ServerAssumption
      <4>2. AsChar(n) = n
        BY <4>1 DEF AsChar, ServerAssumption
      <4> QED BY <2>8, <4>1, <4>2
    <3>3. Types'
      BY <1>0, <2>1, <2>3, <2>8, <3>2 DEF Types
    <3>4. TableOpen'
      BY <1>0, <2>4, <2>8, <3>2 DEF TableOpen, Types
    <3>5. ToSet(clients') = {clients'[j] : j \in Slots} /\ ToSet(clients) = {clients[j] : j \in Slots}
      BY <2>8 DEF ToSet, Types
    <3>6. n \in ToSet(clients') /\ \A x \in ToSet(clients) : x # 0 => x \in ToSet(clients')
      BY <2>8, <3>2, <3>5 DEF Types
    <3>7. ASSUME NEW d \in Customers, Stranded(d)' PROVE conn'[d].fd > server_fd + MAX_CLIENT
      <4>1. d # c /\ conn'[d] = conn[d] /\ d \in Open
        BY <2>3, <3>6, <3>7 DEF Stranded, Open
      <4>2. conn[d].fd # 0
        BY <4>1 DEF DistinctFds
      <4>3. Stranded(d)
        BY <1>0, <3>6, <3>7, <4>1, <4>2 DEF Stranded
      <4> QED BY <4>1, <4>3 DEF SlotsHold
    <3>8. \A j \in Slots : clients'[j] # 0 =>
             /\ clients'[j] \in LowFds
             /\ \A k \in Slots : clients'[j] = clients'[k] => j = k
      BY <2>6, <2>8, <3>1, <3>2 DEF SlotsHold, Types, Slots, LowFds
    <3>9. SlotsHold'
      BY <3>3, <3>7, <3>8 DEF SlotsHold, Types, LowFds
    <3> QED
      BY <2>5, <3>3, <3>4, <3>9
  <2>9. CASE server = "select"
    <3> DEFINE free == {i \in DOMAIN clients : clients[i] = 0}
    <3>1. free \subseteq Nat /\ free \subseteq Slots
      BY DEF Types, Slots
    <3>2. CASE free = {}
      <4>1. clients' = clients
        BY <1>2, <2>9, <3>2 DEF Stored
      <4>2. \A i \in Slots : clients[i] # 0
        BY <3>2 DEF Types
      <4> QED BY <2>7, <2>9, <4>1, <4>2
    <3>3. CASE free # {}
      <4>1. Min(free) \in free
        BY <3>1, <3>3, MinIs
      <4>2. clients' = [clients EXCEPT ![Min(free)] = AsChar(n)]
        BY <1>2, <2>9, <3>3 DEF Stored, n
      <4> QED BY <2>8, <2>9, <3>1, <4>1, <4>2
    <3> QED BY <3>2, <3>3
  <2> QED
    BY <1>2, <2>7, <2>9 DEF Types
<1> QED
  BY <1>1, <1>2 DEF accept

-----------------------------------------------------------------------------
LEMMA ServerNext ==
    ServerInv /\ [ServerStep \/ ClientStep \/ ServerIdle]_serverVars => ServerInv'
<1> SUFFICES ASSUME ServerInv, [ServerStep \/ ClientStep \/ ServerIdle]_serverVars
             PROVE  ServerInv'
  OBVIOUS
<1>1. CASE select
  <2>1. Types'
    BY <1>1 DEF select, ServerInv, Types
  <2> QED
    BY <1>1, <2>1, NothingOpens DEF select
<1>2. CASE ServerIdle \/ UNCHANGED serverVars
  <2>1. Types'
    BY <1>2 DEF ServerIdle, serverVars, ServerInv, Types
  <2> QED
    BY <1>2, <2>1, NothingOpens DEF ServerIdle, serverVars
<1> QED
  BY <1>1, <1>2, ClientKeeps, ServeKeeps, AcceptKeeps DEF ServerStep

\* The inductive invariant holds for any number of clients and slots.
THEOREM ServerInvariance == ServerSpec => []ServerInv
BY ServerInitHolds, ServerNext, PTL DEF ServerSpec

\* server_select.c: only a full table leaves a client out, and since it was full
\* the clients in it have the lowest descriptors, which fit a char.
THEOREM TableKeeps == ServerSpec => []SlotsHold
BY ServerInvariance, PTL DEF ServerInv

-----------------------------------------------------------------------------
(* The mutex of mutex-nostarve.c.                                          *)

\* Where a thread has neither the lock nor a turnstile, ...
FreeLabels == {"begin", "enter1", "counted", "gather", "leave", "done"}

\* ... has one to gather in room 2, ...
GatheringLabels == {"lock", "enter2", "test", "open t1", "post t1", "open t2", "post t2"}

\* ... and has the lock.
LockLabels == {"load room2", "store room2", "working", "release t1", "release t2"}

MutexLabels == FreeLabels \cup GatheringLabels \cup LockLabels

MutexTypes ==
    /\ sem \in [{"mutex", "t1", "t2"} -> Nat]
    /\ pc \in [NS!Threads -> MutexLabels]

Token == sem["t1"] + sem["t2"] + Cardinality(NS!Gathering) + Cardinality(NS!HasLock) = 1

TokenInv == MutexTypes /\ Token

LEMMA TokenIs == NS!OneToken <=> Token
BY DEF NS!OneToken, Token, NS!Cardinality, Cardinality

-----------------------------------------------------------------------------
\* The sets of threads that OneToken counts are finite.
LEMMA CountsAreNat ==
    /\ IsFiniteSet(NS!Gathering) /\ Cardinality(NS!Gathering) \in Nat
    /\ IsFiniteSet(NS!HasLock) /\ Cardinality(NS!HasLock) \in Nat
<1>1. IsFiniteSet(NS!Threads)
  BY FS_Interval DEF NS!Threads
<1>2. NS!Gathering \subseteq NS!Threads /\ NS!HasLock \subseteq NS!Threads
  BY DEF NS!Gathering, NS!HasLock, NS!At
<1> QED
  BY <1>1, <1>2, FS_Subset, FS_CardinalityType

\* A thread that goes from one statement to the next leaves the others where they
\* are.
LEMMA GoMoves ==
    ASSUME MutexTypes, NEW t \in NS!Threads, NEW from, NEW to \in MutexLabels, NS!Go(t, from, to)
    PROVE  /\ pc' \in [NS!Threads -> MutexLabels]
           /\ NS!Gathering' = IF to \in GatheringLabels THEN NS!Gathering \cup {t} ELSE NS!Gathering \ {t}
           /\ NS!HasLock'   = IF to \in LockLabels THEN NS!HasLock \cup {t} ELSE NS!HasLock \ {t}
           /\ t \in NS!Gathering <=> from \in GatheringLabels
           /\ t \in NS!HasLock <=> from \in LockLabels
BY DEF MutexTypes, NS!Go, NS!Gathering, NS!HasLock, NS!At, GatheringLabels, LockLabels

\* A step within one of the three parts that leaves the turnstiles alone.
LEMMA StaysInPart ==
    ASSUME TokenInv, NEW t \in NS!Threads, NEW from, NEW to \in MutexLabels, NS!Go(t, from, to),
           from \in GatheringLabels <=> to \in GatheringLabels,
           from \in LockLabels <=> to \in LockLabels,
           sem' \in [{"mutex", "t1", "t2"} -> Nat],
           sem'["t1"] = sem["t1"], sem'["t2"] = sem["t2"]
    PROVE  TokenInv'
<1>1. NS!Gathering' = NS!Gathering /\ NS!HasLock' = NS!HasLock /\ pc' \in [NS!Threads -> MutexLabels]
  <2>1. MutexTypes
    BY DEF TokenInv
  <2>2. /\ pc' \in [NS!Threads -> MutexLabels]
        /\ NS!Gathering' = IF to \in GatheringLabels THEN NS!Gathering \cup {t} ELSE NS!Gathering \ {t}
        /\ t \in NS!Gathering <=> from \in GatheringLabels
    BY <2>1, GoMoves
  <2>3. /\ NS!HasLock' = IF to \in LockLabels THEN NS!HasLock \cup {t} ELSE NS!HasLock \ {t}
        /\ t \in NS!HasLock <=> from \in LockLabels
    BY <2>1, GoMoves
  <2> QED BY <2>2, <2>3
<1>2. Token'
  BY <1>1 DEF TokenInv, Token
<1> QED
  BY <1>1, <1>2 DEF TokenInv, MutexTypes

\* A thread that waits for a turnstile takes the token into its part.
LEMMA TakesToken ==
    ASSUME TokenInv, NEW t \in NS!Threads, NEW from \in FreeLabels, NEW to \in GatheringLabels \cup LockLabels,
           NEW s \in {"t1", "t2"}, NS!Sem_wait(t, from, to, s)
    PROVE  TokenInv'
<1>1. NS!Go(t, from, to) /\ to \in MutexLabels
  BY DEF NS!Sem_wait, MutexLabels
<1>2. sem' \in [{"mutex", "t1", "t2"} -> Nat] /\ sem'["t1"] + sem'["t2"] = sem["t1"] + sem["t2"] - 1
  BY DEF NS!Sem_wait, TokenInv, MutexTypes
<1>3. t \notin NS!Gathering /\ t \notin NS!HasLock /\ pc' \in [NS!Threads -> MutexLabels]
  BY <1>1, GoMoves DEF TokenInv, FreeLabels, GatheringLabels, LockLabels
<1>4. CASE to \in GatheringLabels
  <2>0. to \notin LockLabels
    BY <1>4 DEF GatheringLabels, LockLabels
  <2>1. NS!Gathering' = NS!Gathering \cup {t} /\ NS!HasLock' = NS!HasLock
    BY <1>1, <1>3, <1>4, <2>0, GoMoves DEF TokenInv
  <2>2. Cardinality(NS!Gathering') = Cardinality(NS!Gathering) + 1
    BY <2>1, <1>3, CountsAreNat, FS_AddElement
  <2> QED
    BY <1>2, <1>3, <2>1, <2>2, CountsAreNat DEF TokenInv, MutexTypes, Token
<1>5. CASE to \in LockLabels
  <2>0. to \notin GatheringLabels
    BY <1>5 DEF GatheringLabels, LockLabels
  <2>1. NS!HasLock' = NS!HasLock \cup {t} /\ NS!Gathering' = NS!Gathering
    BY <1>1, <1>3, <1>5, <2>0, GoMoves DEF TokenInv
  <2>2. Cardinality(NS!HasLock') = Cardinality(NS!HasLock) + 1
    BY <2>1, <1>3, CountsAreNat, FS_AddElement
  <2> QED
    BY <1>2, <1>3, <2>1, <2>2, CountsAreNat DEF TokenInv, MutexTypes, Token
<1> QED
  BY <1>4, <1>5

\* A thread that posts a turnstile gives the token back.
LEMMA GivesToken ==
    ASSUME TokenInv, NEW t \in NS!Threads, NEW from \in GatheringLabels \cup LockLabels, NEW to \in FreeLabels,
           NEW s \in {"t1", "t2"}, NS!Sem_post(t, from, to, s)
    PROVE  TokenInv'
<1>1. NS!Go(t, from, to) /\ to \in MutexLabels /\ to \notin GatheringLabels /\ to \notin LockLabels
  BY DEF NS!Sem_post, MutexLabels, FreeLabels, GatheringLabels, LockLabels
<1>2. sem' \in [{"mutex", "t1", "t2"} -> Nat] /\ sem'["t1"] + sem'["t2"] = sem["t1"] + sem["t2"] + 1
  BY DEF NS!Sem_post, TokenInv, MutexTypes
<1>3. /\ NS!Gathering' = NS!Gathering \ {t} /\ NS!HasLock' = NS!HasLock \ {t}
      /\ pc' \in [NS!Threads -> MutexLabels]
  BY <1>1, GoMoves DEF TokenInv
<1>4. CASE from \in GatheringLabels
  <2>1. t \in NS!Gathering /\ t \notin NS!HasLock
    BY <1>1, <1>4, GoMoves DEF TokenInv, GatheringLabels, LockLabels
  <2>2. Cardinality(NS!Gathering') = Cardinality(NS!Gathering) - 1
    BY <1>3, <2>1, CountsAreNat, FS_RemoveElement
  <2>3. Cardinality(NS!HasLock') = Cardinality(NS!HasLock)
    BY <1>3, <2>1
  <2>4. Token'
    BY <1>2, <2>2, <2>3, CountsAreNat DEF TokenInv, MutexTypes, Token
  <2> QED
    BY <1>2, <1>3, <2>4 DEF TokenInv, MutexTypes
<1>5. CASE from \in LockLabels
  <2>1. t \in NS!HasLock /\ t \notin NS!Gathering
    BY <1>1, <1>5, GoMoves DEF TokenInv, GatheringLabels, LockLabels
  <2>2. Cardinality(NS!HasLock') = Cardinality(NS!HasLock) - 1
    BY <1>3, <2>1, CountsAreNat, FS_RemoveElement
  <2>3. Cardinality(NS!Gathering') = Cardinality(NS!Gathering)
    BY <1>3, <2>1
  <2>4. Token'
    BY <1>2, <2>2, <2>3, CountsAreNat DEF TokenInv, MutexTypes, Token
  <2> QED
    BY <1>2, <1>3, <2>4 DEF TokenInv, MutexTypes
<1> QED
  BY <1>4, <1>5

-----------------------------------------------------------------------------
\* At first t1 is open, t2 is shut, and all threads are at the beginning.
LEMMA InitToken == NS!Init => TokenInv
<1> SUFFICES ASSUME NS!Init PROVE TokenInv
  OBVIOUS
<1>1. MutexTypes
  BY DEF NS!Init, MutexTypes, MutexLabels, FreeLabels
<1>2. NS!Gathering = {} /\ NS!HasLock = {}
  BY DEF NS!Init, NS!Gathering, NS!HasLock, NS!At
<1>3. Token
  BY <1>2, FS_EmptySet DEF NS!Init, Token
<1> QED
  BY <1>1, <1>3 DEF TokenInv

\* A statement of thread t that uses no semaphore and stays in its part.
LEMMA LocalKeeps ==
    ASSUME TokenInv, NEW t \in NS!Threads, NEW from, NEW to \in MutexLabels, NS!Local(t, from, to),
           from \in GatheringLabels <=> to \in GatheringLabels,
           from \in LockLabels <=> to \in LockLabels
    PROVE  TokenInv'
BY StaysInPart DEF NS!Local, TokenInv, MutexTypes

\* The mutex of room 1 is no turnstile.
LEMMA MutexKeeps ==
    ASSUME TokenInv, NEW t \in NS!Threads, NEW from, NEW to \in MutexLabels,
           NS!Sem_wait(t, from, to, "mutex") \/ NS!Sem_post(t, from, to, "mutex"),
           from \in GatheringLabels <=> to \in GatheringLabels,
           from \in LockLabels <=> to \in LockLabels
    PROVE  TokenInv'
<1>1. NS!Go(t, from, to)
  BY DEF NS!Sem_wait, NS!Sem_post
<1>2. /\ sem' \in [{"mutex", "t1", "t2"} -> Nat]
      /\ sem'["t1"] = sem["t1"] /\ sem'["t2"] = sem["t2"]
  BY DEF NS!Sem_wait, NS!Sem_post, TokenInv, MutexTypes
<1> QED
  BY <1>1, <1>2, StaysInPart

\* ns_mutex_acquire keeps the token.
LEMMA AcquireKeeps ==
    ASSUME TokenInv, NEW t \in NS!Threads, NS!ns_mutex_acquire(t) PROVE TokenInv'
<1> USE DEF MutexLabels, FreeLabels, GatheringLabels, LockLabels
<1>1. CASE NS!LockRoom1(t)
  BY <1>1, MutexKeeps DEF NS!LockRoom1
<1>2. CASE NS!Sem_post(t, "counted", "gather", "mutex")
  BY <1>2, MutexKeeps
<1>3. CASE NS!Sem_wait(t, "gather", "lock", "t1")
  BY <1>3, TakesToken
<1>4. CASE NS!Sem_wait(t, "lock", "enter2", "mutex")
  BY <1>4, MutexKeeps
<1>5. CASE NS!TestRoom1(t)
  <2>1. CASE room1 = 0
    BY <1>5, <2>1, LocalKeeps DEF NS!TestRoom1
  <2>2. CASE room1 # 0
    BY <1>5, <2>2, LocalKeeps DEF NS!TestRoom1
  <2> QED BY <2>1, <2>2
<1>6. CASE NS!OpenTurnstile(t)
  <2>1. CASE NS!Sem_post(t, "open t1", "post t1", "mutex") \/ NS!Sem_post(t, "open t2", "post t2", "mutex")
    BY <2>1, MutexKeeps
  <2>2. CASE NS!Sem_post(t, "post t1", "leave", "t1") \/ NS!Sem_post(t, "post t2", "leave", "t2")
    BY <2>2, GivesToken
  <2> QED BY <1>6, <2>1, <2>2 DEF NS!OpenTurnstile
<1>7. CASE NS!Sem_wait(t, "leave", "load room2", "t2")
  BY <1>7, TakesToken
<1>8. CASE NS!EnterRoom1(t)
  BY <1>8, LocalKeeps DEF NS!EnterRoom1
<1>9. CASE NS!EnterRoom2(t)
  BY <1>9, LocalKeeps DEF NS!EnterRoom2
<1>10. CASE NS!LoadRoom2(t)
  BY <1>10, LocalKeeps DEF NS!LoadRoom2
<1>11. CASE NS!StoreRoom2(t)
  BY <1>11, LocalKeeps DEF NS!StoreRoom2
<1> QED
  BY <1>1, <1>2, <1>3, <1>4, <1>5, <1>6, <1>7, <1>8, <1>9, <1>10, <1>11 DEF NS!ns_mutex_acquire

\* ns_mutex_release keeps the token, whichever turnstile it posts.
LEMMA ReleaseKeeps ==
    ASSUME TokenInv, NEW t \in NS!Threads, NS!ns_mutex_release(t) PROVE TokenInv'
<1> USE DEF MutexLabels, FreeLabels, GatheringLabels, LockLabels
<1>1. CASE NS!Local(t, "working", IF room2 = 0 THEN "release t1" ELSE "release t2")
  <2>1. CASE room2 = 0
    BY <1>1, <2>1, LocalKeeps
  <2>2. CASE room2 # 0
    BY <1>1, <2>2, LocalKeeps
  <2> QED BY <2>1, <2>2
<1>2. CASE NS!PostTurnstile(t)
  <2>1. PICK n \in {"t1", "t2"}, next \in {"done", "begin"} :
          NS!Sem_post(t, IF n = "t1" THEN "release t1" ELSE "release t2", next, n)
    BY <1>2 DEF NS!PostTurnstile
  <2>2. (IF n = "t1" THEN "release t1" ELSE "release t2") \in GatheringLabels \cup LockLabels
        /\ next \in FreeLabels
    OBVIOUS
  <2> QED BY ONLY <2>1, <2>2, GivesToken, TokenInv, t \in NS!Threads
<1> QED
  BY <1>1, <1>2 DEF NS!ns_mutex_release, NS!Release

\* No step makes a token or loses one.
LEMMA StepToken == TokenInv /\ [NS!Next]_(NS!vars) => TokenInv'
<1> SUFFICES ASSUME TokenInv, [NS!Next]_(NS!vars) PROVE TokenInv'
  OBVIOUS
<1>1. CASE NS!MainStep
  BY <1>1 DEF NS!MainStep, NS!Create, TokenInv, MutexTypes, Token, NS!Gathering, NS!HasLock, NS!At
<1>2. ASSUME NEW t \in NS!Threads, NS!worker(t) PROVE TokenInv'
  BY <1>2, AcquireKeeps, ReleaseKeeps DEF NS!worker
<1>3. CASE NS!Finished \/ UNCHANGED NS!vars
  BY <1>3 DEF NS!Finished, NS!vars, NS!semVars, TokenInv, MutexTypes, Token, NS!Gathering, NS!HasLock, NS!At
<1> QED
  BY <1>1, <1>2, <1>3 DEF NS!Next

\* The invariant is inductive.
THEOREM TokenInvariance == NS!Spec => []TokenInv
BY InitToken, StepToken, PTL DEF NS!Spec

\* mutex-nostarve.c: the turnstiles are one token, so that a thread that has the
\* lock meets no other, and none that gathers in room 2.
THEOREM TokenIsOne == NS!Spec => []NS!OneToken
<1>1. TokenInv => NS!OneToken
  BY TokenIs DEF TokenInv
<1> QED
  BY <1>1, TokenInvariance, PTL

-----------------------------------------------------------------------------
(* No thread is overtaken more than twice by another.                      *)

\* Where room1 counts a thread, and where room2 does.
Room1Labels == {"counted", "gather", "lock", "enter2"}

Room2Labels == {"test", "open t1", "post t1", "open t2", "post t2", "leave",
                "load room2", "store room2"}

\* Where a thread waits in either room.
WaitLabels == (Room1Labels \cup Room2Labels) \ {"load room2", "store room2"}

\* The rooms count the threads in them, and what is loaded of room2 stays true.
RoomsCount ==
    /\ room1 = Cardinality(NS!At(Room1Labels))
    /\ room2 = Cardinality(NS!At(Room2Labels))
    /\ \A t \in NS!Threads : pc[t] = "store room2" => reg[t] = room2

\* Room 2 is being filled: the token is at t1 or with a thread that has taken it
\* from there or will post it.
FillLabels == {"lock", "enter2", "test", "open t1", "post t1", "release t1"}
Filling == sem["t1"] > 0 \/ NS!At(FillLabels) # {}

\* Room 2 is being emptied: the token is at t2 or with such a thread.
EmptyLabels == {"open t2", "post t2", "load room2", "store room2", "working", "release t2"}
Emptying == sem["t2"] > 0 \/ NS!At(EmptyLabels) # {}

\* How often a thread may have had the lock since thread 1 has entered room 1:
\* once until room 2 has been filled, since 1 is then in it, and a second time
\* if it is in room 2 as well and leaves it before 1.
Bound(u) ==
    IF Filling THEN 1
    ELSE (IF pc[1] \in Room2Labels THEN 1 ELSE 0) + (IF pc[u] \in Room2Labels THEN 0 ELSE 1)

Turns == 1 \in NS!At(WaitLabels) => \A u \in NS!Threads \ {1} : passed[u] <= Bound(u)

HistoryOK == passed \in [NS!Threads -> Nat] /\ reg \in [NS!Threads -> Int]

BypassInv == TokenInv /\ HistoryOK /\ RoomsCount /\ Turns

-----------------------------------------------------------------------------
LEMMA AtFinite == \A S : IsFiniteSet(NS!At(S)) /\ Cardinality(NS!At(S)) \in Nat
<1>1. IsFiniteSet(NS!Threads)
  BY FS_Interval DEF NS!Threads
<1>2. \A S : NS!At(S) \subseteq NS!Threads
  BY DEF NS!At
<1> QED
  BY <1>1, <1>2, FS_Subset, FS_CardinalityType

LEMMA AtMoves ==
    ASSUME MutexTypes, NEW t \in NS!Threads, NEW from, NEW to \in MutexLabels, NS!Go(t, from, to), NEW S
    PROVE  /\ from \notin S /\ to \in S => Cardinality(NS!At(S)') = Cardinality(NS!At(S)) + 1
           /\ from \in S /\ to \notin S => Cardinality(NS!At(S)') = Cardinality(NS!At(S)) - 1
           /\ (from \in S <=> to \in S) => Cardinality(NS!At(S)') = Cardinality(NS!At(S))
<1>1. pc[t] = from /\ pc' = [pc EXCEPT ![t] = to] /\ pc \in [NS!Threads -> MutexLabels]
  BY DEF MutexTypes, NS!Go
<1>2. NS!At(S)' = IF to \in S THEN NS!At(S) \cup {t} ELSE NS!At(S) \ {t}
  BY <1>1 DEF NS!At
<1>3. t \in NS!At(S) <=> from \in S
  BY <1>1 DEF NS!At
<1>4. CASE to \in S /\ from \notin S
  <2> DEFINE A == NS!At(S)
  <2>1. IsFiniteSet(A) /\ Cardinality(A) \in Nat
    BY AtFinite
  <2>2. t \notin A /\ NS!At(S)' = A \cup {t}
    BY <1>2, <1>3, <1>4
  <2> HIDE DEF A
  <2>3. Cardinality(NS!At(S)') = Cardinality(A) + 1
    BY <2>1, <2>2, FS_AddElement
  <2> QED BY <1>4, <2>3 DEF A
<1>5. CASE to \notin S /\ from \in S
  <2> DEFINE A == NS!At(S)
  <2>1. IsFiniteSet(A) /\ Cardinality(A) \in Nat
    BY AtFinite
  <2>2. t \in A /\ NS!At(S)' = A \ {t}
    BY <1>2, <1>3, <1>5
  <2> HIDE DEF A
  <2>3. Cardinality(NS!At(S)') = Cardinality(A) - 1
    BY <2>1, <2>2, FS_RemoveElement
  <2> QED BY <1>5, <2>3 DEF A
<1>6. CASE to \in S <=> from \in S
  <2>1. NS!At(S)' = NS!At(S)
    BY <1>2, <1>3, <1>6
  <2> QED
    BY <1>6, <2>1, AtFinite
<1> QED
  BY <1>4, <1>5, <1>6

\* What a step does to the number of threads in each room.
LEMMA RoomMoves ==
    ASSUME MutexTypes, NEW t \in NS!Threads, NEW from, NEW to \in MutexLabels, NS!Go(t, from, to),
           NEW R \in {Room1Labels, Room2Labels}
    PROVE  /\ from \notin R /\ to \in R => Cardinality(NS!At(R)') = Cardinality(NS!At(R)) + 1
           /\ from \in R /\ to \notin R => Cardinality(NS!At(R)') = Cardinality(NS!At(R)) - 1
           /\ (from \in R <=> to \in R) => Cardinality(NS!At(R)') = Cardinality(NS!At(R))
BY AtMoves

LEMMA RoomsNat == RoomsCount => room1 \in Nat /\ room2 \in Nat
BY AtFinite DEF RoomsCount

\* The thread that has the lock is the only one.
LEMMA HolderAlone ==
    ASSUME TokenInv, NEW t \in NS!HasLock
    PROVE  NS!HasLock = {t}
<1>1. Cardinality(NS!HasLock) # 0
  BY CountsAreNat, FS_EmptySet
<1>2. /\ sem["t1"] \in Nat /\ sem["t2"] \in Nat
      /\ sem["t1"] + sem["t2"] + Cardinality(NS!Gathering) + Cardinality(NS!HasLock) = 1
  BY DEF TokenInv, MutexTypes, Token
<1>3. Cardinality(NS!Gathering) \in Nat /\ Cardinality(NS!HasLock) \in Nat
  BY CountsAreNat
<1>4. \A a, b, c, d \in Nat : a + b + c + d = 1 /\ d # 0 => d = 1
  OBVIOUS
<1>5. Cardinality(NS!HasLock) = 1
  BY <1>1, <1>2, <1>3, <1>4
<1> QED
  BY <1>5, CountsAreNat, FS_Singleton

\* The bound by the side of the token and the rooms of the two threads.
BoundTable ==
    \A u : /\ Filling => Bound(u) = 1
           /\ ~Filling /\ pc[1] \in Room2Labels /\ pc[u] \in Room2Labels => Bound(u) = 1
           /\ ~Filling /\ pc[1] \in Room2Labels /\ pc[u] \notin Room2Labels => Bound(u) = 2
           /\ ~Filling /\ pc[1] \notin Room2Labels /\ pc[u] \in Room2Labels => Bound(u) = 0
           /\ ~Filling /\ pc[1] \notin Room2Labels /\ pc[u] \notin Room2Labels => Bound(u) = 1

LEMMA BoundIs == BoundTable
BY DEF BoundTable, Bound

\* The token is for filling or for emptying.
LEMMA TokenSide == TokenInv => (Filling <=> ~Emptying)
<1> SUFFICES ASSUME TokenInv PROVE Filling <=> ~Emptying
  OBVIOUS
<1> USE DEF FillLabels, EmptyLabels
<1> DEFINE g == Cardinality(NS!Gathering)
           h == Cardinality(NS!HasLock)
<1>1. /\ sem["t1"] \in Nat /\ sem["t2"] \in Nat /\ g \in Nat /\ h \in Nat
      /\ sem["t1"] + sem["t2"] + g + h = 1
  BY CountsAreNat DEF TokenInv, MutexTypes, Token
<1>2. /\ g = 0 => NS!Gathering = {}
      /\ h = 0 => NS!HasLock = {}
      /\ g = 1 => \E x : NS!Gathering = {x}
      /\ h = 1 => \E x : NS!HasLock = {x}
  BY CountsAreNat, FS_EmptySet, FS_Singleton
<1>3. \/ sem["t1"] = 1 /\ sem["t2"] = 0 /\ g = 0 /\ h = 0
      \/ sem["t1"] = 0 /\ sem["t2"] = 1 /\ g = 0 /\ h = 0
      \/ sem["t1"] = 0 /\ sem["t2"] = 0 /\ g = 1 /\ h = 0
      \/ sem["t1"] = 0 /\ sem["t2"] = 0 /\ g = 0 /\ h = 1
  <2> HIDE DEF g, h
  <2> QED
    BY <1>1
<1>4. /\ NS!At(FillLabels) \subseteq NS!Gathering \cup NS!HasLock
      /\ NS!At(EmptyLabels) \subseteq NS!Gathering \cup NS!HasLock
  BY DEF NS!Gathering, NS!HasLock, NS!At
<1>5. NS!Gathering \cup NS!HasLock \subseteq NS!At(FillLabels) \cup NS!At(EmptyLabels)
  BY DEF NS!Gathering, NS!HasLock, NS!At
<1>6. NS!At(FillLabels) \cap NS!At(EmptyLabels) = {}
  BY DEF NS!At
<1> HIDE DEF FillLabels, EmptyLabels, g, h
<1>7. CASE g = 0 /\ h = 0
  <2>1. NS!At(FillLabels) = {} /\ NS!At(EmptyLabels) = {}
    BY <1>2, <1>4, <1>7
  <2>2. sem["t1"] > 0 <=> ~(sem["t2"] > 0)
    BY <1>3, <1>7
  <2> QED
    BY <2>1, <2>2 DEF Filling, Emptying
<1>8. CASE ~(g = 0 /\ h = 0)
  <2>1. \E x : NS!Gathering \cup NS!HasLock = {x}
    BY <1>2, <1>3, <1>8
  <2>2. NS!At(FillLabels) # {} <=> NS!At(EmptyLabels) = {}
    BY <1>4, <1>5, <1>6, <2>1
  <2>3. ~(sem["t1"] > 0) /\ ~(sem["t2"] > 0)
    BY <1>3, <1>8
  <2> QED
    BY <2>2, <2>3 DEF Filling, Emptying
<1> QED
  BY <1>7, <1>8

\* Where a thread is, and which turnstile is open, says which side the token is.
SideByPlace ==
    /\ \A t \in NS!Threads : /\ pc[t] \in FillLabels => Filling
                             /\ pc[t] \in EmptyLabels => ~Filling
    /\ sem["t1"] > 0 => Filling
    /\ sem["t2"] > 0 => ~Filling

LEMMA SideIsByPlace == TokenInv => SideByPlace
BY TokenSide DEF SideByPlace, Filling, Emptying, NS!At

\* A step that leaves the history and the side alone: no thread comes to room 2
\* unless it is being filled.
LEMMA TurnsKept ==
    ASSUME TokenInv, Turns, NEW t \in NS!Threads, NEW from, NEW to \in MutexLabels, NS!Go(t, from, to),
           UNCHANGED passed, Filling' = Filling,
           to \in Room2Labels => from \in Room2Labels \/ Filling,
           to \in WaitLabels => from \in WaitLabels \/ t # 1,
           from \in Room2Labels /\ to \in WaitLabels => to \in Room2Labels,
           HistoryOK
    PROVE  Turns'
<1>1. /\ pc[t] = from /\ pc'[t] = to /\ \A w \in NS!Threads \ {t} : pc'[w] = pc[w]
  BY DEF NS!Go, TokenInv, MutexTypes
<1> SUFFICES ASSUME 1 \in NS!Threads, pc'[1] \in WaitLabels, NEW u \in NS!Threads \ {1}
             PROVE  passed[u] <= Bound(u)'
  BY DEF Turns, NS!At
<1>2. pc[1] \in WaitLabels
  BY <1>1
<1>3. passed[u] <= Bound(u) /\ passed[u] \in Nat
  BY <1>2 DEF Turns, NS!At, HistoryOK
<1>4. CASE Filling
  BY <1>3, <1>4 DEF Bound
<1>5. CASE ~Filling
  <2>1. pc[1] \in Room2Labels => pc'[1] \in Room2Labels
    BY <1>1, <1>2
  <2>2. pc'[u] \in Room2Labels => pc[u] \in Room2Labels
    BY <1>1, <1>5
  <2> QED
    BY <1>3, <1>5, <2>1, <2>2 DEF Bound
<1> QED
  BY <1>4, <1>5

\* The labels of a step decide which side the token is on before and after it.
LEMMA SideAfter ==
    ASSUME TokenInv, TokenInv', NEW t \in NS!Threads, NEW from, NEW to \in MutexLabels, NS!Go(t, from, to)
    PROVE  /\ from \in FillLabels => Filling
           /\ from \in EmptyLabels => ~Filling
           /\ to \in FillLabels => Filling'
           /\ to \in EmptyLabels => ~Filling'
<1>1. /\ pc[t] = from /\ pc'[t] = to
  BY DEF NS!Go, TokenInv, MutexTypes
<1>2. SideByPlace /\ SideByPlace'
  BY SideIsByPlace, PTL
<1>3. (pc[t] \in FillLabels => Filling) /\ (pc[t] \in EmptyLabels => ~Filling)
  BY <1>2 DEF SideByPlace
<1>4. (pc'[t] \in FillLabels => Filling') /\ (pc'[t] \in EmptyLabels => ~Filling')
  BY <1>2 DEF SideByPlace, NS!Threads
<1> QED
  BY <1>1, <1>3, <1>4

\* Away from the token a step leaves it where it is.
LEMMA SideKept ==
    ASSUME MutexTypes, NEW t \in NS!Threads, NEW from, NEW to \in MutexLabels, NS!Go(t, from, to),
           sem'["t1"] = sem["t1"], from \notin FillLabels, to \notin FillLabels
    PROVE  Filling' = Filling
<1>1. NS!At(FillLabels)' = NS!At(FillLabels)
  BY DEF NS!Go, MutexTypes, NS!At
<1> QED
  BY <1>1 DEF Filling

\* The rooms count on when no thread enters or leaves one.
LEMMA RoomsKept ==
    ASSUME TokenInv, RoomsCount, NEW t \in NS!Threads, NEW from, NEW to \in MutexLabels, NS!Go(t, from, to),
           from \in Room1Labels <=> to \in Room1Labels,
           from \in Room2Labels <=> to \in Room2Labels,
           to # "store room2", UNCHANGED <<NS!roomVars, reg>>
    PROVE  RoomsCount'
<1>1. MutexTypes
  BY DEF TokenInv
<1>2. /\ Cardinality(NS!At(Room1Labels)') = Cardinality(NS!At(Room1Labels))
      /\ Cardinality(NS!At(Room2Labels)') = Cardinality(NS!At(Room2Labels))
  <2>1. Cardinality(NS!At(Room1Labels)') = Cardinality(NS!At(Room1Labels))
    BY <1>1, AtMoves
  <2>2. Cardinality(NS!At(Room2Labels)') = Cardinality(NS!At(Room2Labels))
    BY <1>1, AtMoves
  <2> QED BY <2>1, <2>2
<1>3. \A w \in NS!Threads : pc'[w] = "store room2" => pc[w] = "store room2"
  BY <1>1 DEF NS!Go, MutexTypes
<1> QED
  BY <1>2, <1>3 DEF RoomsCount, NS!roomVars

\* A step that enters or leaves no room and leaves the token on its side.
LEMMA QuietMove ==
    ASSUME BypassInv, TokenInv', NEW t \in NS!Threads, NEW from, NEW to \in MutexLabels, NS!Go(t, from, to),
           UNCHANGED <<NS!roomVars, reg, passed>>, Filling' = Filling,
           from \in Room1Labels <=> to \in Room1Labels,
           from \in Room2Labels <=> to \in Room2Labels,
           to \in WaitLabels => from \in WaitLabels, to # "store room2"
    PROVE  BypassInv'
<1>1. RoomsCount'
  BY RoomsKept DEF BypassInv
<1>2. Turns'
  BY TurnsKept DEF BypassInv
<1> QED
  BY <1>1, <1>2 DEF BypassInv, HistoryOK

LEMMA BypassAcquire ==
    ASSUME BypassInv, TokenInv', NEW t \in NS!Threads, NS!ns_mutex_acquire(t) PROVE BypassInv'
<1> USE DEF MutexLabels, FreeLabels, GatheringLabels, LockLabels, Room1Labels, Room2Labels,
            WaitLabels, FillLabels, EmptyLabels
<1>0. TokenInv /\ MutexTypes /\ HistoryOK /\ RoomsCount /\ Turns /\ SideByPlace
  BY SideIsByPlace DEF BypassInv, TokenInv
<1>t. MutexTypes
  BY <1>0
<1>b. BoundTable /\ BoundTable'
  BY BoundIs, PTL
<1>1. CASE NS!LockRoom1(t) /\ UNCHANGED <<NS!roomVars, reg, passed>>
  <2>1. NS!Go(t, "begin", "enter1") /\ sem'["t1"] = sem["t1"]
    BY <1>0, <1>1 DEF NS!LockRoom1, NS!Sem_wait, MutexTypes
  <2>2. Filling' = Filling
    BY <1>0, <2>1, SideKept
  <2> QED
    BY <1>1, <2>1, <2>2, QuietMove
<1>2. CASE NS!Sem_post(t, "counted", "gather", "mutex") /\ UNCHANGED <<NS!roomVars, reg, passed>>
  <2>1. NS!Go(t, "counted", "gather") /\ sem'["t1"] = sem["t1"]
    BY <1>0, <1>2 DEF NS!Sem_post, MutexTypes
  <2>2. Filling' = Filling
    BY <1>0, <2>1, SideKept
  <2> QED
    BY <1>2, <2>1, <2>2, QuietMove
<1>3. CASE NS!Sem_wait(t, "gather", "lock", "t1") /\ UNCHANGED <<NS!roomVars, reg, passed>>
  <2>1. NS!Go(t, "gather", "lock") /\ Filling
    BY <1>0, <1>3 DEF NS!Sem_wait, SideByPlace
  <2>2. Filling' = Filling
    BY <1>0, <2>1, SideAfter DEF Filling
  <2> QED
    BY <1>3, <2>1, <2>2, QuietMove
<1>4. CASE NS!Sem_wait(t, "lock", "enter2", "mutex") /\ UNCHANGED <<NS!roomVars, reg, passed>>
  <2>1. NS!Go(t, "lock", "enter2")
    BY <1>4 DEF NS!Sem_wait
  <2>2. Filling' = Filling
    BY <1>0, <2>1, SideAfter DEF Filling
  <2> QED
    BY <1>4, <2>1, <2>2, QuietMove
<1>5. CASE NS!TestRoom1(t) /\ UNCHANGED <<NS!roomVars, reg, passed>>
  <2>1. CASE room1 = 0
    <3>1. NS!Go(t, "test", "open t2")
      BY <1>5, <2>1 DEF NS!TestRoom1, NS!Local
    <3>2. Filling /\ ~Filling'
      BY <1>0, <3>1, SideAfter
    <3>3. RoomsCount'
      BY <1>0, <1>5, <3>1, RoomsKept
    <3>4. NS!At(Room1Labels) = {}
      BY <1>0, <2>1, AtFinite, FS_EmptySet DEF RoomsCount
    <3>5. Turns'
      <4>1. /\ pc[t] = "test" /\ pc'[t] = "open t2"
            /\ \A w \in NS!Threads \ {t} : pc'[w] = pc[w]
        BY <1>t, <3>1 DEF NS!Go, MutexTypes
      <4> SUFFICES ASSUME 1 \in NS!Threads, pc'[1] \in WaitLabels, NEW u \in NS!Threads \ {1}
                   PROVE  passed'[u] <= Bound(u)'
        BY DEF Turns, NS!At
      <4>2. pc[1] \in WaitLabels /\ pc[1] \notin Room1Labels
        BY <3>4, <4>1 DEF NS!At
      <4>3. passed[u] <= 1 /\ passed[u] \in Nat
        BY <1>0, <1>b, <3>2, <4>2 DEF Turns, NS!At, BoundTable, HistoryOK
      <4>4. pc'[1] \in Room2Labels
        BY <4>1, <4>2
      <4>5. Bound(u)' \in {1, 2}
        BY <1>b, <3>2, <4>4 DEF BoundTable
      <4>6. passed'[u] = passed[u]
        BY <1>5
      <4> HIDE DEF WaitLabels, Room1Labels, Room2Labels
      <4> QED
        BY <4>3, <4>5, <4>6
    <3> QED
      BY <1>0, <1>5, <3>3, <3>5 DEF BypassInv, HistoryOK
  <2>2. CASE room1 # 0
    <3>1. NS!Go(t, "test", "open t1")
      BY <1>5, <2>2 DEF NS!TestRoom1, NS!Local
    <3>2. Filling' = Filling
      BY <1>0, <3>1, SideAfter DEF Filling
    <3> QED
      BY <1>5, <3>1, <3>2, QuietMove
  <2> QED
    BY <2>1, <2>2
<1>6. CASE NS!OpenTurnstile(t) /\ UNCHANGED <<NS!roomVars, reg, passed>>
  <2>1. CASE NS!Sem_post(t, "open t1", "post t1", "mutex")
    <3>1. NS!Go(t, "open t1", "post t1")
      BY <2>1 DEF NS!Sem_post
    <3>2. Filling' = Filling
      BY <1>0, <3>1, SideAfter DEF Filling
    <3> QED
      BY <1>6, <3>1, <3>2, QuietMove
  <2>2. CASE NS!Sem_post(t, "post t1", "leave", "t1")
    <3>1. NS!Go(t, "post t1", "leave")
      BY <2>2 DEF NS!Sem_post
    <3>3. sem'["t1"] = sem["t1"] + 1 /\ sem["t1"] \in Nat
      BY <1>0, <2>2 DEF NS!Sem_post, MutexTypes
    <3>2. Filling' = Filling
      <4>1. sem'["t1"] > 0
        BY <3>3
      <4> QED
        BY <1>0, <3>1, <4>1, SideAfter DEF Filling
    <3> QED
      BY <1>6, <3>1, <3>2, QuietMove
  <2>3. CASE NS!Sem_post(t, "open t2", "post t2", "mutex")
    <3>1. NS!Go(t, "open t2", "post t2")
      BY <2>3 DEF NS!Sem_post
    <3>2. Filling' = Filling
      BY <1>0, <3>1, SideAfter DEF Filling
    <3> QED
      BY <1>6, <3>1, <3>2, QuietMove
  <2>4. CASE NS!Sem_post(t, "post t2", "leave", "t2")
    <3>1. NS!Go(t, "post t2", "leave") /\ sem'["t1"] = sem["t1"]
      BY <1>0, <2>4 DEF NS!Sem_post, MutexTypes
    <3>2. Filling' = Filling
      BY <1>0, <3>1, SideKept
    <3> QED
      BY <1>6, <3>1, <3>2, QuietMove
  <2> QED
    BY <1>6, <2>1, <2>2, <2>3, <2>4 DEF NS!OpenTurnstile
<1>7. CASE NS!Sem_wait(t, "leave", "load room2", "t2") /\ UNCHANGED <<NS!roomVars, reg, passed>>
  <2>1. NS!Go(t, "leave", "load room2") /\ sem'["t1"] = sem["t1"]
    BY <1>0, <1>7 DEF NS!Sem_wait, MutexTypes
  <2>2. Filling' = Filling
    BY <1>0, <2>1, SideKept
  <2> QED
    BY <1>7, <2>1, <2>2, QuietMove
<1>8. CASE NS!EnterRoom1(t)
  <2>1. NS!Go(t, "enter1", "counted") /\ sem' = sem
    BY <1>8 DEF NS!EnterRoom1, NS!Local
  <2>2. Filling' = Filling
    BY <1>0, <2>1, SideKept
  <2>3. RoomsCount'
    <3>0. PICK from, to \in MutexLabels : NS!Go(t, from, to) /\ from = "enter1" /\ to = "counted"
      BY <2>1
    <3>1. /\ Cardinality(NS!At(Room1Labels)') = Cardinality(NS!At(Room1Labels)) + 1
          /\ Cardinality(NS!At(Room2Labels)') = Cardinality(NS!At(Room2Labels))
      BY <1>t, <3>0, RoomMoves
    <3>2. \A w \in NS!Threads : pc'[w] = "store room2" => pc[w] = "store room2"
      BY <1>0, <2>1 DEF NS!Go, MutexTypes
    <3> QED
      BY <1>0, <1>8, <3>1, <3>2 DEF NS!EnterRoom1, RoomsCount
  <2>4. Turns'
    <3>1. CASE t = 1
      <4>1. \A u \in NS!Threads : passed'[u] = 0
        BY <1>8, <3>1 DEF NS!EnterRoom1
      <4>2. \A u : Bound(u)' \in {0, 1, 2}
        BY <1>b DEF BoundTable
      <4>3. \A u \in NS!Threads : passed'[u] <= Bound(u)'
        BY <4>1, <4>2
      <4> QED
        BY <4>3 DEF Turns
    <3>2. CASE t # 1
      BY <1>0, <1>8, <2>1, <2>2, <3>2, TurnsKept DEF NS!EnterRoom1
    <3> QED
      BY <3>1, <3>2
  <2> QED
    BY <1>0, <1>8, <2>3, <2>4 DEF BypassInv, HistoryOK, NS!EnterRoom1
<1>9. CASE NS!EnterRoom2(t)
  <2>1. NS!Go(t, "enter2", "test") /\ UNCHANGED <<reg, passed>>
    BY <1>9 DEF NS!EnterRoom2, NS!Local
  <2>2. Filling' = Filling /\ Filling
    BY <1>0, <2>1, SideAfter DEF Filling
  <2>3. RoomsCount'
    <3>0. PICK from, to \in MutexLabels : NS!Go(t, from, to) /\ from = "enter2" /\ to = "test"
      BY <2>1
    <3>1. /\ Cardinality(NS!At(Room1Labels)') = Cardinality(NS!At(Room1Labels)) - 1
          /\ Cardinality(NS!At(Room2Labels)') = Cardinality(NS!At(Room2Labels)) + 1
      BY <1>t, <3>0, RoomMoves
    <3>2. \A w \in NS!Threads : pc[w] # "store room2"
      BY <1>0, <2>2 DEF SideByPlace
    <3>3. \A w \in NS!Threads : pc'[w] # "store room2"
      BY <1>0, <2>1, <3>2 DEF NS!Go, MutexTypes
    <3> QED
      BY <1>0, <1>9, <3>1, <3>3 DEF NS!EnterRoom2, RoomsCount
  <2>4. Turns'
    BY <1>0, <2>1, <2>2, TurnsKept
  <2> QED
    BY <2>1, <1>0, <2>3, <2>4 DEF BypassInv, HistoryOK
<1>10. CASE NS!LoadRoom2(t)
  <2>1. NS!Go(t, "load room2", "store room2") /\ sem' = sem /\ UNCHANGED <<NS!roomVars, passed>>
    BY <1>10 DEF NS!LoadRoom2, NS!Local
  <2>2. Filling' = Filling
    BY <1>0, <2>1, SideKept
  <2>3. RoomsCount'
    <3>0. PICK from, to \in MutexLabels : NS!Go(t, from, to) /\ from = "load room2" /\ to = "store room2"
      BY <2>1
    <3>1. /\ Cardinality(NS!At(Room1Labels)') = Cardinality(NS!At(Room1Labels))
          /\ Cardinality(NS!At(Room2Labels)') = Cardinality(NS!At(Room2Labels))
      BY <1>t, <3>0, RoomMoves
    <3>2. \A w \in NS!Threads : /\ w # t /\ pc'[w] = "store room2" => pc[w] = "store room2"
                                /\ w # t => reg'[w] = reg[w]
                                /\ reg'[t] = room2
      BY <1>0, <1>10, <2>1 DEF NS!LoadRoom2, NS!Go, MutexTypes, HistoryOK
    <3> QED
      <4>1. room1' = room1 /\ room2' = room2
        BY <2>1 DEF NS!LoadRoom2, NS!roomVars
      <4>2. \A w \in NS!Threads : pc'[w] = "store room2" => reg'[w] = room2
        BY <1>0, <3>2 DEF RoomsCount
      <4>3. room1 = Cardinality(NS!At(Room1Labels)) /\ room2 = Cardinality(NS!At(Room2Labels))
        BY <1>0 DEF RoomsCount
      <4> QED
        BY <3>1, <4>1, <4>2, <4>3 DEF RoomsCount, NS!Threads
  <2>4. Turns'
    BY <1>0, <2>1, <2>2, TurnsKept
  <2>5. reg' \in [NS!Threads -> Int]
    <3>1. room2 \in Int
      BY <1>0, RoomsNat
    <3> QED
      BY <1>0, <1>10, <3>1 DEF NS!LoadRoom2, HistoryOK
  <2> QED
    BY <1>0, <2>1, <2>3, <2>4, <2>5 DEF BypassInv, HistoryOK
<1>11. CASE NS!StoreRoom2(t)
  <2>1. NS!Go(t, "store room2", "working") /\ sem' = sem
    BY <1>11 DEF NS!StoreRoom2, NS!Local
  <2>2. Filling' = Filling /\ ~Filling
    BY <1>0, <2>1, SideKept, SideAfter
  <2>3. /\ pc[t] = "store room2" /\ pc'[t] = "working"
        /\ \A w \in NS!Threads \ {t} : pc'[w] = pc[w]
    BY <1>0, <2>1 DEF NS!Go, MutexTypes
  <2>4. RoomsCount'
    <3>0. PICK from, to \in MutexLabels : NS!Go(t, from, to) /\ from = "store room2" /\ to = "working"
      BY <2>1
    <3>1. /\ Cardinality(NS!At(Room1Labels)') = Cardinality(NS!At(Room1Labels))
          /\ Cardinality(NS!At(Room2Labels)') = Cardinality(NS!At(Room2Labels)) - 1
      BY <1>t, <3>0, RoomMoves
    <3>2. reg[t] = room2
      BY <1>0, <2>3 DEF RoomsCount
    <3>3. \A w \in NS!Threads : pc'[w] # "store room2"
      <4>1. NS!HasLock = {t}
        <5>1. t \in NS!HasLock
          BY <2>3 DEF NS!HasLock, NS!At
        <5> QED
          BY <1>0, <5>1, HolderAlone
      <4>2. \A w \in NS!Threads : pc[w] = "store room2" => w \in NS!HasLock
        BY DEF NS!HasLock, NS!At
      <4> QED
        BY <2>3, <4>1, <4>2
    <3> QED
      BY <1>0, <1>11, <3>1, <3>2, <3>3 DEF NS!StoreRoom2, RoomsCount
  <2>5. /\ passed' \in [NS!Threads -> Nat]
        /\ \A w \in NS!Threads \ {t} : passed'[w] = passed[w]
        /\ passed'[t] <= passed[t] + 1
    <3> DEFINE n == IF passed[t] < NS!MaxPassed THEN passed[t] + 1 ELSE passed[t]
    <3>1. passed' = [passed EXCEPT ![t] = n]
      BY <1>11 DEF NS!StoreRoom2
    <3>2. n \in Nat /\ n <= passed[t] + 1
      BY <1>0 DEF HistoryOK
    <3> HIDE DEF n
    <3> QED
      BY <1>0, <3>1, <3>2 DEF HistoryOK
  <2>6. Turns'
    <3> SUFFICES ASSUME 1 \in NS!Threads, pc'[1] \in WaitLabels, NEW u \in NS!Threads \ {1}
                 PROVE  passed'[u] <= Bound(u)'
      BY DEF Turns, NS!At
    <3>1. pc'[1] = pc[1] /\ pc[1] \in WaitLabels
      BY <2>3
    <3>2. passed[u] <= Bound(u) /\ passed[u] \in Nat
      BY <1>0, <3>1 DEF Turns, NS!At, HistoryOK
    <3>3. CASE u # t
      BY <2>2, <2>3, <2>5, <3>1, <3>2, <3>3 DEF Bound
    <3>4. CASE u = t
      <4>1. Bound(u) = IF pc[1] \in Room2Labels THEN 1 ELSE 0
        BY <1>b, <2>2, <2>3, <3>4 DEF BoundTable
      <4>2. Bound(u)' = IF pc[1] \in Room2Labels THEN 2 ELSE 1
        BY <1>b, <2>2, <2>3, <3>1, <3>4 DEF BoundTable
      <4>3. passed'[u] <= passed[u] + 1 /\ passed'[u] \in Nat
        BY <2>5, <3>4
      <4> HIDE DEF WaitLabels, Room1Labels, Room2Labels
      <4> QED
        BY <3>2, <4>1, <4>2, <4>3
    <3> QED
      BY <3>3, <3>4
  <2>7. UNCHANGED reg
    BY <1>11 DEF NS!StoreRoom2
  <2> QED
    BY <1>0, <2>4, <2>5, <2>6, <2>7 DEF BypassInv, HistoryOK
<1> QED
  BY <1>1, <1>2, <1>3, <1>4, <1>5, <1>6, <1>7, <1>8, <1>9, <1>10, <1>11 DEF NS!ns_mutex_acquire

LEMMA BypassRelease ==
    ASSUME BypassInv, TokenInv', NEW t \in NS!Threads, NS!ns_mutex_release(t) PROVE BypassInv'
<1> USE DEF MutexLabels, FreeLabels, GatheringLabels, LockLabels, Room1Labels, Room2Labels,
            WaitLabels, FillLabels, EmptyLabels
<1>0. MutexTypes /\ HistoryOK /\ RoomsCount /\ Turns /\ UNCHANGED <<NS!roomVars, reg, passed>>
  BY DEF BypassInv, TokenInv, NS!ns_mutex_release
<1>1. CASE NS!Local(t, "working", "release t2")
  <2>1. NS!Go(t, "working", "release t2")
    BY <1>1 DEF NS!Local
  <2>2. Filling' = Filling
    BY <2>1, SideAfter DEF BypassInv, Filling
  <2> QED
    BY <1>0, <2>1, <2>2, QuietMove
<1>2. CASE NS!Local(t, "working", "release t1") /\ room2 = 0
  <2>1. NS!Go(t, "working", "release t1")
    BY <1>2 DEF NS!Local
  <2>2. ~Filling /\ Filling'
    BY <2>1, SideAfter DEF BypassInv
  <2>3. RoomsCount'
    BY <1>0, <2>1, RoomsKept DEF BypassInv
  <2>4. NS!At(Room2Labels) = {}
    <3>1. Cardinality(NS!At(Room2Labels)) = 0
      BY <1>0, <1>2 DEF RoomsCount
    <3> QED
      BY <3>1, AtFinite, FS_EmptySet
  <2>5. Turns'
    <3>1. /\ pc[t] = "working" /\ pc'[t] = "release t1"
          /\ \A w \in NS!Threads \ {t} : pc'[w] = pc[w]
      BY <1>0, <2>1 DEF NS!Go, MutexTypes
    <3> SUFFICES ASSUME 1 \in NS!Threads, pc'[1] \in WaitLabels, NEW u \in NS!Threads \ {1}
                 PROVE  passed'[u] <= Bound(u)'
      BY DEF Turns, NS!At
    <3>2. pc[1] \in WaitLabels /\ pc[1] \notin Room2Labels /\ pc[u] \notin Room2Labels
      BY <2>4, <3>1 DEF NS!At
    <3>3. BoundTable /\ BoundTable'
      BY BoundIs, PTL
    <3>4. Bound(u) = 1 /\ Bound(u)' = 1
      BY <2>2, <3>2, <3>3 DEF BoundTable
    <3>5. passed[u] <= Bound(u)
      BY <1>0, <3>2 DEF Turns, NS!At
    <3> QED
      BY <1>0, <3>4, <3>5
  <2> QED
    BY <1>0, <2>3, <2>5 DEF BypassInv, HistoryOK
<1>3. ASSUME NEW next \in {"done", "begin"}, NS!Sem_post(t, "release t1", next, "t1") PROVE BypassInv'
  <2>1. NS!Go(t, "release t1", next)
    BY <1>3 DEF NS!Sem_post
  <2>2. sem'["t1"] > 0
    <3>1. sem'["t1"] = sem["t1"] + 1 /\ sem["t1"] \in Nat
      BY <1>0, <1>3 DEF NS!Sem_post, MutexTypes
    <3> QED
      BY <3>1
  <2>3. Filling' = Filling
    BY <2>1, <2>2, SideAfter DEF BypassInv, Filling
  <2> QED
    BY <1>0, <2>1, <2>3, QuietMove
<1>4. ASSUME NEW next \in {"done", "begin"}, NS!Sem_post(t, "release t2", next, "t2") PROVE BypassInv'
  <2>1. NS!Go(t, "release t2", next) /\ sem'["t1"] = sem["t1"]
    BY <1>0, <1>4 DEF NS!Sem_post, MutexTypes
  <2>2. Filling' = Filling
    BY <1>0, <2>1, SideKept
  <2> QED
    BY <1>0, <2>1, <2>2, QuietMove
<1>5. CASE NS!Local(t, "working", IF room2 = 0 THEN "release t1" ELSE "release t2")
  BY <1>1, <1>2, <1>5
<1>6. CASE NS!PostTurnstile(t)
  BY <1>3, <1>4, <1>6 DEF NS!PostTurnstile
<1> QED
  BY <1>5, <1>6 DEF NS!ns_mutex_release, NS!Release

\* The invariant with the rooms and the turns is inductive as well.
LEMMA InitBypass == NS!Init => BypassInv
<1> SUFFICES ASSUME NS!Init PROVE BypassInv
  OBVIOUS
<1>1. TokenInv
  BY InitToken
<1>2. \A S : "begin" \notin S => NS!At(S) = {}
  BY DEF NS!Init, NS!At
<1>3. NS!At(Room1Labels) = {} /\ NS!At(Room2Labels) = {} /\ NS!At(WaitLabels) = {}
  BY <1>2 DEF Room1Labels, Room2Labels, WaitLabels
<1>4. RoomsCount
  BY <1>3, FS_EmptySet DEF NS!Init, RoomsCount
<1> QED
  BY <1>1, <1>3, <1>4 DEF NS!Init, BypassInv, HistoryOK, Turns

LEMMA StepBypass == BypassInv /\ [NS!Next]_(NS!vars) => BypassInv'
<1> SUFFICES ASSUME BypassInv, [NS!Next]_(NS!vars) PROVE BypassInv'
  OBVIOUS
<1>1. TokenInv'
  BY StepToken DEF BypassInv
<1>2. CASE NS!MainStep \/ NS!Finished \/ UNCHANGED NS!vars
  <2>1. UNCHANGED <<sem, pc, room1, room2, reg, passed>>
    BY <1>2 DEF NS!MainStep, NS!Create, NS!Finished, NS!vars, NS!semVars, NS!roomVars
  <2>2. UNCHANGED Filling /\ \A S : NS!At(S)' = NS!At(S)
    BY <2>1 DEF Filling, NS!At
  <2>3. \A u : Bound(u)' = Bound(u)
    BY <2>1, <2>2 DEF Bound
  <2>4. RoomsCount' /\ Turns'
    BY <2>1, <2>2, <2>3 DEF BypassInv, RoomsCount, Turns
  <2> QED
    BY <1>1, <2>1, <2>4 DEF BypassInv, HistoryOK
<1>3. ASSUME NEW t \in NS!Threads, NS!worker(t) PROVE BypassInv'
  BY <1>1, <1>3, BypassAcquire, BypassRelease DEF NS!worker
<1> QED
  BY <1>2, <1>3 DEF NS!Next

\* The rooms count the threads in them, and the bound of each thread holds.
THEOREM BypassInvariance == NS!Spec => []BypassInv
BY InitBypass, StepBypass, PTL DEF NS!Spec

LEMMA BypassBound == BypassInv => NS!BoundedBypass
<1> SUFFICES ASSUME BypassInv, 1 \in NS!At(WaitLabels), NEW t \in NS!Threads \ {1}
             PROVE  passed[t] <= 2
  BY DEF NS!BoundedBypass, WaitLabels, Room1Labels, Room2Labels, NS!At
<1>1. passed[t] <= Bound(t) /\ passed[t] \in Nat
  BY DEF BypassInv, Turns, HistoryOK
<1>2. Bound(t) \in {0, 1, 2}
  BY BoundIs DEF BoundTable
<1> QED
  BY <1>1, <1>2

\* mutex-nostarve.c: while a thread waits in either room, no other has the lock
\* more than twice.
THEOREM BypassIsBounded == NS!Spec => []NS!BoundedBypass
BY BypassInvariance, BypassBound, PTL

-----------------------------------------------------------------------------
(* The programs together.                                                  *)

\* A behaviour is one of the three programs, and that one's invariant holds.
AllInv ==
    \/ program = "mutex" /\ BypassInv
    \/ program = "barrier" /\ BarrierInv
    \/ program = "server" /\ ServerInv /\ pc = [t \in Threads |-> "none"]

LEMMA AllInitHolds == AllInit => AllInv
<1> SUFFICES ASSUME AllInit PROVE AllInv
  OBVIOUS
<1>1. CASE program = "mutex" /\ NS!Init
  BY <1>1, InitBypass DEF AllInv
<1>2. CASE program = "barrier" /\ Init
  BY <1>2, BarrierInit DEF AllInv
<1>3. CASE program = "server" /\ ServerInit /\ NoThreads
  BY <1>3, ServerInitHolds DEF AllInv, NoThreads
<1> QED
  BY <1>1, <1>2, <1>3 DEF AllInit

\* Each step is one of the program of the behaviour.
LEMMA AllStepHolds == AllInv /\ [AllStep \/ AllFinished]_all => AllInv'
<1> SUFFICES ASSUME AllInv, [AllStep \/ AllFinished]_all PROVE AllInv'
  OBVIOUS
<1>1. program' = program
  BY DEF AllStep, AllFinished, Main, Working, Meeting, Serving, Only, all
<1>2. CASE program = "mutex" /\ BypassInv
  <2>1. [NS!Next]_(NS!vars)
    BY <1>2 DEF AllStep, AllFinished, Main, Working, Meeting, Serving, Only, NS!Next, NS!Threads, Threads,
       all, semVars, mutexVars, NS!vars, NS!semVars, NS!roomVars
  <2>2. BypassInv'
    BY <1>2, <2>1, StepBypass
  <2> QED
    BY <1>1, <1>2, <2>2 DEF AllInv
<1>3. CASE program = "barrier" /\ BarrierInv
  <2>1. [Step \/ Finished]_vars
    BY <1>3 DEF AllStep, AllFinished, Main, Working, Meeting, Serving, Only, all, vars
  <2> QED
    BY <1>1, <1>3, <2>1, BarrierStep DEF AllInv
<1>4. CASE program = "server" /\ ServerInv /\ pc = [t \in Threads |-> "none"]
  <2>1. [ServerStep \/ ClientStep \/ ServerIdle]_serverVars /\ pc' = pc
    BY <1>4 DEF AllStep, AllFinished, Main, Working, Meeting, Serving, Only, all, semVars
  <2> QED
    BY <1>1, <1>4, <2>1, ServerNext DEF AllInv
<1> QED
  BY <1>2, <1>3, <1>4 DEF AllInv

THEOREM WaitingInvariance == AllSpec => []AllInv
BY AllInitHolds, AllStepHolds, PTL DEF AllSpec

\* mutex-nostarve.c: the turnstiles are one token, at whatever point the threads
\* are, and however many there are.
THEOREM WaitingOneToken == AllSpec => []OneToken
<1>1. AllInv => OneToken
  BY TokenIs DEF AllInv, OneToken, BypassInv, TokenInv
<1> QED
  BY <1>1, WaitingInvariance, PTL

\* mutex-nostarve.c: no thread has the lock more than twice while another waits.
THEOREM WaitingBypass == AllSpec => []BoundedBypass
<1>1. AllInv => BoundedBypass
  BY BypassBound DEF AllInv, BoundedBypass
<1> QED
  BY <1>1, WaitingInvariance, PTL

\* barrier.c: no child prints its "after" before all have printed their "before".
THEOREM WaitingBeforeFirst == AllSpec => []BeforeFirst
<1>1. AllInv => BeforeFirst
  <2>1. BypassInv => BeforeFirst
    <3>1. BypassInv => \A t \in Threads : pc[t] \notin {"start", "before"}
      BY DEF BypassInv, TokenInv, MutexTypes, MutexLabels, FreeLabels, GatheringLabels,
             LockLabels, NS!Threads, Threads
    <3> QED
      BY <3>1 DEF BeforeFirst
  <2>2. pc = [t \in Threads |-> "none"] => BeforeFirst
    BY DEF BeforeFirst
  <2> QED
    BY <2>1, <2>2, BarrierBefore DEF AllInv
<1> QED
  BY <1>1, WaitingInvariance, PTL

\* server_select.c: only a full table leaves a client out, and since it was full
\* the clients in it have the lowest descriptors, which fit a char.
THEOREM WaitingTable == AllSpec => []TableHolds
<1>1. AllInv => TableHolds
  BY DEF AllInv, TableHolds, ServerInv
<1> QED
  BY <1>1, WaitingInvariance, PTL

=============================================================================
