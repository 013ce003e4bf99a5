---------------------------- MODULE RWLocksProofs ----------------------------
(***************************************************************************)
(* reader-writer.c and reader-writer-nostarve.c for any number of readers, *)
(* writers and turns: the locks exclude, no writer changes what a reader   *)
(* reads, and with the queue nobody gets the lock before a writer that     *)
(* waits for it.                                                           *)
(***************************************************************************)
EXTENDS RWLocks, FiniteSetTheorems, TLAPS

USE NumThreadsAssumption, ReadersAssumption, LoopsAssumption

-----------------------------------------------------------------------------
(* reader-writer.c.                                                        *)

ReaderLabels == {"idle", "r_count", "r_first", "r_post", "reading",
                 "r_uncount", "r_last", "r_unpost", "done"}
WriterLabels == {"idle", "writing", "storing", "written", "done"}

Types ==
    /\ sem \in [{"mutex", "w"} -> Nat]
    /\ pc \in [Threads -> ReaderLabels \cup WriterLabels]
    /\ \A t \in Readers : pc[t] \in ReaderLabels
    /\ \A t \in Writers : pc[t] \in WriterLabels
    /\ created \in 0 .. num_threads
    /\ reader_count \in Int
    /\ value \in Nat
    /\ reg \in [Writers -> Nat]
    /\ i \in [Threads -> 0 .. loops]
    /\ \A t \in Threads : pc[t] # "done" => i[t] < loops

\* The readers that reader_count counts, and those that hold mutex.
Counted == {t \in Readers : pc[t] \in {"r_first", "r_post", "reading", "r_uncount"}}
InMutex == {t \in Readers : pc[t] \in {"r_count", "r_first", "r_post",
                                       "r_uncount", "r_last", "r_unpost"}}

MutexInv ==
    /\ sem["mutex"] \in 0 .. 1
    /\ sem["mutex"] = 1 => InMutex = {}
    /\ \A t, u \in InMutex : t = u

CountInv == reader_count = Cardinality(Counted)

\* The first reader is alone until it has w; the last one leaves nobody.
EdgeInv ==
    \A t \in Readers : /\ pc[t] = "r_first" => reader_count = 1
                       /\ pc[t] = "r_last"  => reader_count = 0

\* The readers own w from the moment the first has it until the last posts it.
ReadersHold ==
    \/ reader_count > 0 /\ \A t \in Readers : pc[t] # "r_first"
    \/ \E t \in Readers : pc[t] = "r_last"

LockInv ==
    /\ sem["w"] \in 0 .. 1
    /\ ReadersHold => sem["w"] = 0 /\ Writing = {}
    /\ sem["w"] = 1 => Writing = {}
    /\ \A t, u \in Writing : t = u

IInv == Types /\ MutexInv /\ CountInv /\ EdgeInv /\ LockInv

-----------------------------------------------------------------------------
\* Readers and writers are different threads.
LEMMA Roles ==
    /\ Readers \subseteq Threads
    /\ Writers \subseteq Threads
    /\ Readers \cap Writers = {}
BY DEF Readers, Writers, Threads

\* The counted readers are finitely many, at most all readers.
LEMMA CountedFinite ==
    /\ IsFiniteSet(Counted)
    /\ Cardinality(Counted) \in 0 .. num_readers
    /\ Cardinality(Counted) = 0 <=> Counted = {}
    /\ Cardinality(Counted) = 1 <=> \E t : Counted = {t}
<1>1. IsFiniteSet(Readers) /\ Cardinality(Readers) = num_readers
  BY FS_Interval, SMT DEF Readers
<1>2. Counted \in SUBSET Readers
  BY DEF Counted
<1>3. IsFiniteSet(Counted) /\ Cardinality(Counted) <= num_readers
  BY <1>1, <1>2, FS_Subset
<1>4. Cardinality(Counted) \in Nat
  BY <1>3, FS_CardinalityType
<1>5. Cardinality(Counted) = 0 <=> Counted = {}
  BY <1>3, FS_EmptySet, Zenon
<1>6. Cardinality(Counted) = 1 <=> \E t : Counted = {t}
  BY <1>3, FS_Singleton, Zenon
<1>7. Cardinality(Counted) \in 0 .. num_readers
  BY <1>3, <1>4
<1> QED
  BY <1>3, <1>5, <1>6, <1>7

\* A reader that counts itself, or stops, changes the cardinality by one.
LEMMA CountedChanges ==
    ASSUME NEW S, IsFiniteSet(S), NEW t
    PROVE  /\ t \notin S => Cardinality(S \cup {t}) = Cardinality(S) + 1
           /\ t \in S => Cardinality(S \ {t}) = Cardinality(S) - 1
BY FS_AddElement, FS_RemoveElement

-----------------------------------------------------------------------------
\* The next label of a thread at the end of its turn.
LEMMA TurnEnds ==
    ASSUME Types, NEW t \in Threads, pc[t] # "done"
    PROVE  /\ Next_idle(t) \in {"idle", "done"}
           /\ i[t] + 1 \in 0 .. loops
           /\ Next_idle(t) # "done" => i[t] + 1 < loops
BY DEF Types, Next_idle

\* The steps of a reader, with what each does to sem, pc and reader_count.
LEMMA ReaderStep ==
    ASSUME NEW t \in Readers, reader(t)
    PROVE  \/ Sem_wait(t, "idle", "r_count", "mutex") /\ UNCHANGED dataVars
           \/ CountIn(t)
           \/ Sem_wait(t, "r_first", "r_post", "w") /\ UNCHANGED dataVars
           \/ Sem_post(t, "r_post", "reading", "mutex") /\ UNCHANGED dataVars
           \/ Sem_wait(t, "reading", "r_uncount", "mutex") /\ UNCHANGED dataVars
           \/ CountOut(t)
           \/ Sem_post(t, "r_last", "r_unpost", "w") /\ UNCHANGED dataVars
           \/ Sem_post(t, "r_unpost", Next_idle(t), "mutex") /\ EndTurn(t)
BY DEF reader, rwlock_acquire_readlock, rwlock_release_readlock

\* Every step of a reader keeps the types.
LEMMA ReaderTypes ==
    ASSUME Types, NEW t \in Readers, reader(t)
    PROVE  Types'
<1> USE Roles DEF Types, ReaderLabels, WriterLabels
<1>1. CASE Sem_wait(t, "idle", "r_count", "mutex") /\ UNCHANGED dataVars
  BY <1>1 DEF Sem_wait, Go, dataVars
<1>2. CASE CountIn(t)
  BY <1>2 DEF CountIn, Local, Go
<1>3. CASE Sem_wait(t, "r_first", "r_post", "w") /\ UNCHANGED dataVars
  BY <1>3 DEF Sem_wait, Go, dataVars
<1>4. CASE Sem_post(t, "r_post", "reading", "mutex") /\ UNCHANGED dataVars
  BY <1>4 DEF Sem_post, Go, dataVars
<1>5. CASE Sem_wait(t, "reading", "r_uncount", "mutex") /\ UNCHANGED dataVars
  BY <1>5 DEF Sem_wait, Go, dataVars
<1>6. CASE CountOut(t)
  BY <1>6 DEF CountOut, Local, Go
<1>7. CASE Sem_post(t, "r_last", "r_unpost", "w") /\ UNCHANGED dataVars
  BY <1>7 DEF Sem_post, Go, dataVars
<1>8. CASE Sem_post(t, "r_unpost", Next_idle(t), "mutex") /\ EndTurn(t)
  <2>1. pc[t] = "r_unpost"
    BY <1>8 DEF Sem_post, Go
  <2> QED
    BY <1>8, <2>1, TurnEnds DEF Sem_post, Go, EndTurn
<1> QED
  BY ReaderStep, <1>1, <1>2, <1>3, <1>4, <1>5, <1>6, <1>7, <1>8

\* Every step of a writer keeps the types.
LEMMA WriterTypes ==
    ASSUME Types, NEW t \in Writers, writer(t)
    PROVE  Types'
<1> USE Roles DEF Types, ReaderLabels, WriterLabels
<1>1. CASE rwlock_acquire_writelock(t)
  BY <1>1 DEF rwlock_acquire_writelock, Sem_wait, Go, dataVars
<1>2. CASE Load(t)
  BY <1>2 DEF Load, Local, Go
<1>3. CASE Store(t)
  BY <1>3 DEF Store, Local, Go
<1>4. CASE rwlock_release_writelock(t)
  <2>1. pc[t] = "written"
    BY <1>4 DEF rwlock_release_writelock, Sem_post, Go
  <2> QED
    BY <1>4, <2>1, TurnEnds DEF rwlock_release_writelock, Sem_post, Go, EndTurn
<1> QED
  BY <1>1, <1>2, <1>3, <1>4 DEF writer

-----------------------------------------------------------------------------
\* Every step of a reader keeps what the lock rests on.
LEMMA ReaderKeeps ==
    ASSUME IInv, NEW t \in Readers, reader(t)
    PROVE  MutexInv' /\ CountInv' /\ EdgeInv' /\ LockInv'
<1> USE Roles DEF IInv, Types
<1>a. t \in Threads /\ \A w \in Writers : w # t
  BY Roles
<1>1. CASE Sem_wait(t, "idle", "r_count", "mutex") /\ UNCHANGED dataVars
  <2>1. MutexInv'
    BY <1>1 DEF Sem_wait, Go, MutexInv, InMutex
  <2>2. Counted' = Counted /\ reader_count' = reader_count
    BY <1>1 DEF Sem_wait, Go, Counted, dataVars
  <2>3. CountInv' /\ EdgeInv'
    BY <1>1, <2>2 DEF Sem_wait, Go, CountInv, EdgeInv
  <2>4. Writing' = Writing /\ (ReadersHold' <=> ReadersHold) /\ sem'["w"] = sem["w"]
    BY <1>1, <1>a, <2>2 DEF Sem_wait, Go, Writing, ReadersHold
  <2> QED
    BY <2>1, <2>3, <2>4 DEF LockInv
<1>2. CASE CountIn(t)
  <2> USE <1>2 DEF CountIn, Local, Go
  <2>1. t \in InMutex /\ pc[t] = "r_count"
    BY DEF InMutex
  <2>2. MutexInv'
    BY <2>1 DEF MutexInv, InMutex
  <2>3. Counted' = Counted \cup {t} /\ t \notin Counted
    BY DEF Counted
  <2>4. CountInv'
    BY <2>3, CountedFinite, CountedChanges DEF CountInv
  <2>5. \A u \in Readers : pc[u] \notin {"r_first", "r_last"}
    BY <2>1 DEF MutexInv, InMutex
  <2>6. EdgeInv'
    BY <2>5 DEF EdgeInv
  <2>7. reader_count \in Nat
    BY CountedFinite DEF CountInv
  <2>8. ReadersHold' <=> ReadersHold
    <3>1. CASE reader_count = 0
      BY <2>5, <3>1 DEF ReadersHold
    <3>2. CASE reader_count # 0
      BY <2>5, <2>7, <3>2 DEF ReadersHold
    <3> QED BY <3>1, <3>2
  <2>9. Writing' = Writing
    BY <1>a DEF Writing
  <2> QED
    BY <2>2, <2>4, <2>6, <2>8, <2>9 DEF LockInv
<1>3. CASE Sem_wait(t, "r_first", "r_post", "w") /\ UNCHANGED dataVars
  <2> USE <1>3 DEF Sem_wait, Go, dataVars
  <2>1. t \in InMutex /\ pc[t] = "r_first"
    BY DEF InMutex
  <2>2. MutexInv'
    BY <2>1 DEF MutexInv, InMutex
  <2>3. Counted' = Counted
    BY DEF Counted
  <2>4. CountInv' /\ EdgeInv'
    BY <2>3 DEF CountInv, EdgeInv
  <2>5. sem["w"] = 1 /\ sem'["w"] = 0 /\ Writing = {}
    BY DEF LockInv
  <2>6. Writing' = {}
    BY <1>a, <2>5 DEF Writing
  <2> QED
    BY <2>2, <2>4, <2>5, <2>6 DEF LockInv
<1>4. CASE Sem_post(t, "r_post", "reading", "mutex") /\ UNCHANGED dataVars
  <2> USE <1>4 DEF Sem_post, Go, dataVars
  <2>1. t \in InMutex /\ sem["mutex"] = 0
    BY DEF MutexInv, InMutex
  <2>2. MutexInv'
    BY <2>1 DEF MutexInv, InMutex
  <2>3. Counted' = Counted
    BY DEF Counted
  <2>4. CountInv' /\ EdgeInv'
    BY <2>3 DEF CountInv, EdgeInv
  <2>5. Writing' = Writing /\ (ReadersHold' <=> ReadersHold) /\ sem'["w"] = sem["w"]
    BY <1>a DEF Writing, ReadersHold
  <2> QED
    BY <2>2, <2>4, <2>5 DEF LockInv
<1>5. CASE Sem_wait(t, "reading", "r_uncount", "mutex") /\ UNCHANGED dataVars
  <2> USE <1>5 DEF Sem_wait, Go, dataVars
  <2>1. MutexInv'
    BY DEF MutexInv, InMutex
  <2>2. Counted' = Counted
    BY DEF Counted
  <2>3. CountInv' /\ EdgeInv'
    BY <2>2 DEF CountInv, EdgeInv
  <2>4. Writing' = Writing /\ (ReadersHold' <=> ReadersHold) /\ sem'["w"] = sem["w"]
    BY <1>a DEF Writing, ReadersHold
  <2> QED
    BY <2>1, <2>3, <2>4 DEF LockInv
<1>6. CASE CountOut(t)
  <2> USE <1>6 DEF CountOut, Local, Go
  <2>1. t \in InMutex /\ pc[t] = "r_uncount"
    BY DEF InMutex
  <2>2. MutexInv'
    BY <2>1 DEF MutexInv, InMutex
  <2>3. Counted' = Counted \ {t} /\ t \in Counted
    BY DEF Counted
  <2>4. CountInv'
    BY <2>3, CountedFinite, CountedChanges DEF CountInv
  <2>5. \A u \in Readers : pc[u] \notin {"r_first", "r_last"}
    BY <2>1 DEF MutexInv, InMutex
  <2>6. EdgeInv'
    BY <2>5 DEF EdgeInv
  <2>7. reader_count \in Nat /\ reader_count # 0
    BY <2>3, CountedFinite DEF CountInv
  <2>8. ReadersHold
    BY <2>5, <2>7 DEF ReadersHold
  <2>9. Writing' = Writing
    BY <1>a DEF Writing
  <2> QED
    BY <2>2, <2>4, <2>6, <2>8, <2>9 DEF LockInv
<1>7. CASE Sem_post(t, "r_last", "r_unpost", "w") /\ UNCHANGED dataVars
  <2> USE <1>7 DEF Sem_post, Go, dataVars
  <2>1. t \in InMutex /\ pc[t] = "r_last"
    BY DEF InMutex
  <2>2. MutexInv'
    BY <2>1 DEF MutexInv, InMutex
  <2>3. Counted' = Counted
    BY DEF Counted
  <2>4. CountInv' /\ EdgeInv'
    BY <2>3 DEF CountInv, EdgeInv
  <2>5. ReadersHold /\ reader_count = 0
    BY <2>1 DEF ReadersHold, EdgeInv
  <2>6. sem["w"] = 0 /\ Writing = {}
    BY <2>5 DEF LockInv
  <2>7. ~ReadersHold'
    BY <2>1, <2>5 DEF ReadersHold, MutexInv, InMutex
  <2>8. Writing' = {}
    BY <1>a, <2>6 DEF Writing
  <2> QED
    BY <2>2, <2>4, <2>6, <2>7, <2>8 DEF LockInv
<1>8. CASE Sem_post(t, "r_unpost", Next_idle(t), "mutex") /\ EndTurn(t)
  <2>1. Next_idle(t) \in {"idle", "done"}
    BY DEF Next_idle
  <2> USE <1>8 DEF Sem_post, Go, EndTurn
  <2>2. t \in InMutex /\ sem["mutex"] = 0
    BY DEF MutexInv, InMutex
  <2>3. MutexInv'
    BY <2>1, <2>2 DEF MutexInv, InMutex
  <2>4. Counted' = Counted
    BY <2>1 DEF Counted
  <2>5. CountInv' /\ EdgeInv'
    BY <2>1, <2>4 DEF CountInv, EdgeInv
  <2>6. Writing' = Writing /\ (ReadersHold' <=> ReadersHold) /\ sem'["w"] = sem["w"]
    BY <1>a, <2>1 DEF Writing, ReadersHold
  <2> QED
    BY <2>3, <2>5, <2>6 DEF LockInv
<1> QED
  BY ReaderStep, <1>1, <1>2, <1>3, <1>4, <1>5, <1>6, <1>7, <1>8

\* Every step of a writer keeps what the lock rests on.
LEMMA WriterKeeps ==
    ASSUME IInv, NEW t \in Writers, writer(t)
    PROVE  MutexInv' /\ CountInv' /\ EdgeInv' /\ LockInv'
<1> USE Roles DEF IInv, Types
<1>1. /\ reader_count' = reader_count
      /\ sem'["mutex"] = sem["mutex"]
      /\ \A r \in Readers : pc'[r] = pc[r]
  BY DEF writer, rwlock_acquire_writelock, Load, Store, rwlock_release_writelock,
         Sem_wait, Sem_post, Local, Go, dataVars, EndTurn
<1>2. Counted' = Counted /\ InMutex' = InMutex /\ (ReadersHold' <=> ReadersHold)
  BY <1>1 DEF Counted, InMutex, ReadersHold
<1>3. MutexInv' /\ CountInv' /\ EdgeInv'
  BY <1>1, <1>2 DEF MutexInv, CountInv, EdgeInv
<1>4. LockInv'
  <2>1. CASE rwlock_acquire_writelock(t)
    <3>1. Writing' = {t} /\ sem'["w"] = 0 /\ ~ReadersHold
      BY <2>1 DEF rwlock_acquire_writelock, Sem_wait, Go, LockInv, Writing
    <3> QED
      BY <1>2, <3>1 DEF LockInv
  <2>2. CASE Load(t) \/ Store(t)
    <3>1. Writing' = Writing /\ sem' = sem
      BY <2>2 DEF Load, Store, Local, Go, Writing
    <3> QED
      BY <1>2, <3>1 DEF LockInv
  <2>3. CASE rwlock_release_writelock(t)
    <3>1. t \in Writing /\ Next_idle(t) \in {"idle", "done"}
      BY <2>3 DEF rwlock_release_writelock, Sem_post, Go, Writing, Next_idle
    <3>2. ~ReadersHold /\ sem["w"] = 0
      BY <3>1 DEF LockInv
    <3>3. Writing' = {} /\ sem'["w"] = 1
      BY <2>3, <3>1, <3>2 DEF rwlock_release_writelock, Sem_post, Go, LockInv, Writing
    <3> QED
      BY <1>2, <3>2, <3>3 DEF LockInv
  <2> QED BY <2>1, <2>2, <2>3 DEF writer
<1> QED BY <1>3, <1>4

-----------------------------------------------------------------------------
\* The invariant holds at first, ...
LEMMA RWInit == Init => IInv
<1> SUFFICES ASSUME Init PROVE IInv
  OBVIOUS
<1>1. Types
  BY Roles DEF Init, Types, ReaderLabels, WriterLabels
<1>2. Counted = {} /\ InMutex = {} /\ Writing = {} /\ ~ReadersHold
  BY Roles DEF Init, Counted, InMutex, Writing, ReadersHold
<1>3. CountInv
  BY <1>2, FS_EmptySet DEF Init, CountInv
<1>4. MutexInv /\ EdgeInv /\ LockInv
  BY <1>2, Roles DEF Init, MutexInv, EdgeInv, LockInv
<1> QED BY <1>1, <1>3, <1>4 DEF IInv

\* ... and every step keeps it.
LEMMA RWNext == IInv /\ [Next]_vars => IInv'
<1> SUFFICES ASSUME IInv, [Next]_vars PROVE IInv'
  OBVIOUS
<1>1. CASE Create /\ UNCHANGED dataVars
  BY <1>1 DEF Create, dataVars, IInv, Types, MutexInv, CountInv, EdgeInv, LockInv,
              Counted, InMutex, ReadersHold, Writing
<1>2. CASE \E t \in Readers : reader(t)
  BY <1>2, ReaderTypes, ReaderKeeps DEF IInv
<1>3. CASE \E t \in Writers : writer(t)
  BY <1>3, WriterTypes, WriterKeeps DEF IInv
<1>4. CASE UNCHANGED vars
  BY <1>4 DEF vars, semVars, dataVars, IInv, Types, MutexInv, CountInv, EdgeInv, LockInv,
              Counted, InMutex, ReadersHold, Writing, Next_idle
<1> QED
  BY <1>1, <1>2, <1>3, <1>4 DEF Next, Step, Finished

\* What a reader that is between acquire and release says of w.
LEMMA ReadersHoldWhenReading == IInv /\ Reading # {} => ReadersHold
<1> SUFFICES ASSUME IInv, NEW t \in Reading PROVE ReadersHold
  OBVIOUS
<1>1. t \in Counted /\ pc[t] # "r_first" /\ t \in Readers
  BY DEF Reading, Counted
<1>2. reader_count # 0 /\ reader_count \in Nat
  BY <1>1, CountedFinite DEF IInv, CountInv
<1>3. ASSUME NEW u \in Readers, pc[u] = "r_first" PROVE FALSE
  <2>1. reader_count = 1
    BY <1>3 DEF IInv, EdgeInv
  <2>2. PICK x : Counted = {x}
    BY <2>1, CountedFinite DEF IInv, CountInv
  <2>3. u \in Counted
    BY <1>3 DEF Counted
  <2> QED
    BY <1>1, <1>3, <2>2, <2>3
<1> QED
  BY <1>2, <1>3 DEF ReadersHold

LEMMA RWExcludes == IInv => Exclusion
BY ReadersHoldWhenReading DEF IInv, LockInv, Exclusion

LEMMA RWTypes == IInv => TypeOK
BY CountedFinite
   DEF IInv, Types, ReaderLabels, WriterLabels, MutexInv, CountInv, LockInv, TypeOK

LEMMA RWStable ==
    IInv /\ [Next]_vars => [value' # value => Reading = {}]_vars
<1> SUFFICES ASSUME IInv, Next, value' # value PROVE Reading = {}
  OBVIOUS
<1>1. PICK t \in Writers : Store(t)
  BY DEF Next, Step, Finished, vars, dataVars, reader, writer, rwlock_acquire_readlock,
         rwlock_release_readlock, CountIn, CountOut, EndTurn, rwlock_acquire_writelock,
         Load, rwlock_release_writelock
<1>2. t \in Writing
  BY <1>1 DEF Store, Local, Go, Writing
<1> QED
  BY <1>2, ReadersHoldWhenReading DEF IInv, LockInv


-----------------------------------------------------------------------------
(* reader-writer-nostarve.c.                                               *)

QReaderLabels == {"idle", "r_enter", "r_test", "r_first", "r_count", "r_post", "r_leave",
                 "reading", "r_uncount", "r_last", "r_unpost", "done"}
QWriterLabels == {"idle", "w_first", "w_leave", "writing", "storing", "written", "done"}

QTypes ==
    /\ sem \in [{"queue", "mutex", "w"} -> Nat]
    /\ pc \in [Threads -> QReaderLabels \cup QWriterLabels]
    /\ \A t \in Readers : pc[t] \in QReaderLabels
    /\ \A t \in Writers : pc[t] \in QWriterLabels
    /\ reader_count \in Int

\* The threads that hold queue, the readers that hold mutex, and those that
\* reader_count counts.
InQueue == {t \in Threads : pc[t] \in {"r_enter", "r_test", "r_first", "r_count", "r_post",
                                       "r_leave", "w_first", "w_leave"}}
QInMutex == {t \in Readers : pc[t] \in {"r_test", "r_first", "r_count", "r_post",
                                       "r_uncount", "r_last", "r_unpost"}}
QCounted == {t \in Readers : pc[t] \in {"r_post", "r_leave", "reading", "r_uncount"}}

\* The writers that hold w.
Owning == {t \in Writers : pc[t] \in {"w_leave", "writing", "storing", "written"}}

\* A semaphore used as a lock, and those that hold it.
Excludes(s, holders) ==
    /\ sem[s] \in 0 .. 1
    /\ sem[s] = 1 => holders = {}
    /\ \A t, u \in holders : t = u

QCountInv == reader_count = Cardinality(QCounted)

\* The first reader finds nobody counted, and the last leaves nobody.
QEdgeInv == \A t \in Readers : pc[t] \in {"r_first", "r_last"} => reader_count = 0

\* The readers own w from the moment the first has it until the last posts it.
QReadersHold ==
    \/ reader_count > 0
    \/ \E t \in Readers : pc[t] \in {"r_count", "r_last"}

QLockInv == Excludes("w", Owning) /\ (QReadersHold => sem["w"] = 0 /\ Owning = {})

QInv ==
    /\ QTypes
    /\ Excludes("queue", InQueue) /\ Excludes("mutex", QInMutex)
    /\ QCountInv /\ QEdgeInv /\ QLockInv

-----------------------------------------------------------------------------
\* The counted readers are finitely many.
LEMMA QCountedFinite ==
    /\ IsFiniteSet(QCounted)
    /\ Cardinality(QCounted) \in Nat
    /\ Cardinality(QCounted) = 0 <=> QCounted = {}
    /\ Cardinality(QCounted) = 1 <=> \E t : QCounted = {t}
<1>1. IsFiniteSet(Readers) /\ QCounted \in SUBSET Readers
  BY FS_Interval DEF Readers, QCounted
<1>2. IsFiniteSet(QCounted)
  BY <1>1, FS_Subset
<1>3. Cardinality(QCounted) \in Nat
  BY <1>2, FS_CardinalityType
<1>4. Cardinality(QCounted) = 0 <=> QCounted = {}
  BY <1>2, FS_EmptySet, Zenon
<1>5. Cardinality(QCounted) = 1 <=> \E t : QCounted = {t}
  BY <1>2, FS_Singleton, Zenon
<1> QED
  BY <1>2, <1>3, <1>4, <1>5

\* The steps of a reader that only go to another statement, ...
ReaderMoves(t) ==
    \/ Sem_wait(t, "idle", "r_enter", "queue")
    \/ Sem_wait(t, "r_enter", "r_test", "mutex")
    \/ Local(t, "r_test", IF reader_count = 0 THEN "r_first" ELSE "r_count")
    \/ Sem_wait(t, "r_first", "r_count", "w")
    \/ Sem_post(t, "r_post", "r_leave", "mutex")
    \/ Sem_post(t, "r_leave", "reading", "queue")
    \/ Sem_wait(t, "reading", "r_uncount", "mutex")
    \/ Sem_post(t, "r_last", "r_unpost", "w")
    \/ \E to \in {"idle", "done"} : Sem_post(t, "r_unpost", to, "mutex")

\* ... and all of them.
LEMMA ReaderSteps ==
    ASSUME NEW t \in Readers, q_reader(t)
    PROVE  \/ ReaderMoves(t) /\ reader_count' = reader_count
           \/ q_CountIn(t)
           \/ CountOut(t)
BY DEF q_reader, q_acquire_readlock, rwlock_release_readlock, ReaderMoves, EndTurn, dataVars,
       Next_idle

WriterMoves(t) ==
    \/ Sem_wait(t, "idle", "w_first", "queue")
    \/ Sem_wait(t, "w_first", "w_leave", "w")
    \/ Sem_post(t, "w_leave", "writing", "queue")
    \/ Local(t, "writing", "storing")
    \/ Local(t, "storing", "written")
    \/ \E to \in {"idle", "done"} : Sem_post(t, "written", to, "w")

\* The steps of a writer.
LEMMA WriterSteps ==
    ASSUME NEW t \in Writers, q_writer(t)
    PROVE  WriterMoves(t) /\ reader_count' = reader_count
BY DEF q_writer, q_acquire_writelock, rwlock_release_writelock, Load, Store, WriterMoves,
       EndTurn, dataVars, Next_idle

-----------------------------------------------------------------------------
\* A step of one thread leaves the places of the others alone.
LEMMA OthersStay ==
    ASSUME QTypes, NEW t \in Threads, NEW from, NEW to, Go(t, from, to)
    PROVE  /\ pc[t] = from /\ pc'[t] = to
           /\ \A u \in Threads \ {t} : pc'[u] = pc[u]
BY DEF QTypes, Go

\* Every step of a reader keeps the types.
LEMMA QReaderTypes ==
    ASSUME QTypes, NEW t \in Readers, q_reader(t)
    PROVE  QTypes'
<1> USE Roles DEF QTypes, QReaderLabels, QWriterLabels
<1>1. CASE ReaderMoves(t) /\ reader_count' = reader_count
  BY <1>1 DEF ReaderMoves, Sem_wait, Sem_post, Local, Go
<1>2. CASE q_CountIn(t)
  BY <1>2 DEF q_CountIn, Local, Go
<1>3. CASE CountOut(t)
  BY <1>3 DEF CountOut, Local, Go
<1> QED
  BY ReaderSteps, <1>1, <1>2, <1>3

\* Every step of a writer keeps the types.
LEMMA QWriterTypes ==
    ASSUME QTypes, NEW t \in Writers, q_writer(t)
    PROVE  QTypes'
BY Roles, WriterSteps
   DEF WriterMoves, QTypes, QReaderLabels, QWriterLabels, Sem_wait, Sem_post, Local, Go

\* Every step of a reader keeps what the queue and the mutex are for.
LEMMA ReaderLocks ==
    ASSUME QInv, NEW t \in Readers, q_reader(t)
    PROVE  Excludes("queue", InQueue)' /\ Excludes("mutex", QInMutex)'
<1> USE Roles DEF QInv, QTypes, Excludes, InQueue, QInMutex
<1>1. CASE ReaderMoves(t)
  <2>1. CASE Sem_wait(t, "idle", "r_enter", "queue") \/ Sem_post(t, "r_leave", "reading", "queue")
    BY <2>1 DEF Sem_wait, Sem_post, Go
  <2>2. CASE Sem_wait(t, "r_enter", "r_test", "mutex") \/ Sem_wait(t, "reading", "r_uncount", "mutex")
    BY <2>2 DEF Sem_wait, Go
  <2>3. CASE Local(t, "r_test", IF reader_count = 0 THEN "r_first" ELSE "r_count")
    BY <2>3 DEF Local, Go
  <2>4. CASE Sem_wait(t, "r_first", "r_count", "w") \/ Sem_post(t, "r_last", "r_unpost", "w")
    BY <2>4 DEF Sem_wait, Sem_post, Go
  <2>5. CASE Sem_post(t, "r_post", "r_leave", "mutex")
    BY <2>5 DEF Sem_post, Go
  <2>6. CASE \E to \in {"idle", "done"} : Sem_post(t, "r_unpost", to, "mutex")
    BY <2>6 DEF Sem_post, Go
  <2> QED
    BY <1>1, <2>1, <2>2, <2>3, <2>4, <2>5, <2>6 DEF ReaderMoves
<1>2. CASE q_CountIn(t)
  BY <1>2 DEF q_CountIn, Local, Go
<1>3. CASE CountOut(t)
  BY <1>3 DEF CountOut, Local, Go
<1> QED
  BY ReaderSteps, <1>1, <1>2, <1>3

\* Every step of a writer does.
LEMMA WriterLocks ==
    ASSUME QInv, NEW t \in Writers, q_writer(t)
    PROVE  Excludes("queue", InQueue)' /\ Excludes("mutex", QInMutex)'
<1> USE Roles DEF QInv, QTypes, Excludes, InQueue, QInMutex
<1>1. CASE Sem_wait(t, "idle", "w_first", "queue") \/ Sem_post(t, "w_leave", "writing", "queue")
  BY <1>1 DEF Sem_wait, Sem_post, Go
<1>2. CASE Sem_wait(t, "w_first", "w_leave", "w")
  BY <1>2 DEF Sem_wait, Go
<1>3. CASE Local(t, "writing", "storing") \/ Local(t, "storing", "written")
  BY <1>3 DEF Local, Go
<1>4. CASE \E to \in {"idle", "done"} : Sem_post(t, "written", to, "w")
  BY <1>4 DEF Sem_post, Go
<1> QED
  BY WriterSteps, <1>1, <1>2, <1>3, <1>4 DEF WriterMoves

-----------------------------------------------------------------------------
\* Every step of a reader keeps the count, and w in the hands of the readers.
LEMMA QReaderKeeps ==
    ASSUME QInv, NEW t \in Readers, q_reader(t)
    PROVE  QCountInv' /\ QEdgeInv' /\ QLockInv'
<1> USE Roles DEF QInv, QTypes
<1>a. Owning' = Owning
  BY ReaderSteps DEF Owning, ReaderMoves, q_CountIn, CountOut, Sem_wait, Sem_post, Local, Go
<1>b. reader_count \in Nat
  BY QCountedFinite DEF QCountInv
<1>c. ASSUME NEW from \in {"r_test", "r_first", "r_count", "r_uncount", "r_last"}, pc[t] = from,
             NEW u \in Readers, u # t
      PROVE  pc[u] \notin {"r_first", "r_count", "r_last"}
  BY <1>c DEF Excludes, QInMutex
<1>1. CASE /\ reader_count' = reader_count /\ sem'["w"] = sem["w"]
           /\ \E from \in {"idle", "r_enter", "r_post", "r_leave", "reading", "r_unpost"},
                 to \in QReaderLabels \ {"r_first", "r_count", "r_last"} :
                    /\ Go(t, from, to)
                    /\ from \in {"r_post", "r_leave", "reading"}
                         <=> to \in {"r_post", "r_leave", "reading", "r_uncount"}
  <2> USE <1>1
  <2>1. QCounted' = QCounted
    BY DEF QCounted, Go
  <2>2. QCountInv' /\ QEdgeInv'
    BY <2>1 DEF QCountInv, QEdgeInv, Go
  <2>3. QReadersHold' <=> QReadersHold
    BY DEF QReadersHold, Go
  <2> QED
    BY <1>a, <2>2, <2>3 DEF QLockInv, Excludes
<1>2. CASE /\ reader_count' = reader_count
           /\ Local(t, "r_test", IF reader_count = 0 THEN "r_first" ELSE "r_count")
  <2> USE <1>2 DEF Local, Go
  <2>1. QCounted' = QCounted
    BY DEF QCounted
  <2>2. QCountInv' /\ QEdgeInv'
    BY <1>c, <2>1 DEF QCountInv, QEdgeInv
  <2>3. QReadersHold' <=> QReadersHold
    BY <1>b, <1>c DEF QReadersHold
  <2> QED
    BY <1>a, <2>2, <2>3 DEF QLockInv, Excludes
<1>3. CASE reader_count' = reader_count /\ Sem_wait(t, "r_first", "r_count", "w")
  <2> USE <1>3 DEF Sem_wait, Go
  <2>1. QCounted' = QCounted
    BY DEF QCounted
  <2>2. QCountInv' /\ QEdgeInv'
    BY <1>c, <2>1 DEF QCountInv, QEdgeInv
  <2>3. sem["w"] = 1 /\ sem'["w"] = 0 /\ Owning = {}
    BY DEF QLockInv, Excludes
  <2> QED
    BY <1>a, <2>2, <2>3 DEF QLockInv, Excludes
<1>4. CASE q_CountIn(t)
  <2> USE <1>4 DEF q_CountIn, Local, Go
  <2>1. QCounted' = QCounted \cup {t} /\ t \notin QCounted
    BY DEF QCounted
  <2>2. QCountInv'
    BY <2>1, QCountedFinite, FS_AddElement DEF QCountInv
  <2>3. QEdgeInv'
    BY <1>c DEF QEdgeInv
  <2>4. QReadersHold
    BY DEF QReadersHold
  <2> QED
    BY <1>a, <2>2, <2>3, <2>4 DEF QLockInv, Excludes
<1>5. CASE CountOut(t)
  <2> USE <1>5 DEF CountOut, Local, Go
  <2>1. QCounted' = QCounted \ {t} /\ t \in QCounted
    BY DEF QCounted
  <2>2. QCountInv'
    BY <2>1, QCountedFinite, FS_RemoveElement DEF QCountInv
  <2>3. QEdgeInv'
    BY <1>c DEF QEdgeInv
  <2>4. reader_count # 0
    BY <2>1, QCountedFinite DEF QCountInv
  <2>5. QReadersHold
    BY <1>b, <2>4 DEF QReadersHold
  <2> QED
    BY <1>a, <2>2, <2>3, <2>5 DEF QLockInv, Excludes
<1>6. CASE reader_count' = reader_count /\ Sem_post(t, "r_last", "r_unpost", "w")
  <2> USE <1>6 DEF Sem_post, Go
  <2>1. QCounted' = QCounted
    BY DEF QCounted
  <2>2. QCountInv' /\ QEdgeInv'
    BY <1>c, <2>1 DEF QCountInv, QEdgeInv
  <2>3. QReadersHold /\ reader_count = 0
    BY DEF QReadersHold, QEdgeInv
  <2>4. ~QReadersHold'
    BY <1>c, <2>3 DEF QReadersHold
  <2> QED
    BY <1>a, <2>2, <2>3, <2>4 DEF QLockInv, Excludes
<1>7. ASSUME ReaderMoves(t), reader_count' = reader_count
      PROVE  QCountInv' /\ QEdgeInv' /\ QLockInv'
  <2>1. CASE Sem_wait(t, "idle", "r_enter", "queue")
    BY <1>1, <1>7, <2>1 DEF Sem_wait, QReaderLabels
  <2>2. CASE Sem_wait(t, "r_enter", "r_test", "mutex")
    BY <1>1, <1>7, <2>2 DEF Sem_wait, QReaderLabels
  <2>3. CASE Sem_post(t, "r_post", "r_leave", "mutex")
    BY <1>1, <1>7, <2>3 DEF Sem_post, QReaderLabels
  <2>4. CASE Sem_post(t, "r_leave", "reading", "queue")
    BY <1>1, <1>7, <2>4 DEF Sem_post, QReaderLabels
  <2>5. CASE Sem_wait(t, "reading", "r_uncount", "mutex")
    BY <1>1, <1>7, <2>5 DEF Sem_wait, QReaderLabels
  <2>6. CASE \E to \in {"idle", "done"} : Sem_post(t, "r_unpost", to, "mutex")
    BY <1>1, <1>7, <2>6 DEF Sem_post, QReaderLabels
  <2> QED
    BY <1>2, <1>3, <1>6, <1>7, <2>1, <2>2, <2>3, <2>4, <2>5, <2>6 DEF ReaderMoves
<1> QED
  BY ReaderSteps, <1>4, <1>5, <1>7

\* Every step of a writer does.
LEMMA QWriterKeeps ==
    ASSUME QInv, NEW t \in Writers, q_writer(t)
    PROVE  QCountInv' /\ QEdgeInv' /\ QLockInv'
<1> USE Roles DEF QInv, QTypes
<1>1. reader_count' = reader_count /\ \A r \in Readers : pc'[r] = pc[r]
  BY WriterSteps DEF WriterMoves, Sem_wait, Sem_post, Local, Go
<1>2. QCounted' = QCounted /\ (QReadersHold' <=> QReadersHold)
  BY <1>1 DEF QCounted, QReadersHold
<1>3. QCountInv' /\ QEdgeInv'
  BY <1>1, <1>2 DEF QCountInv, QEdgeInv
<1>4. CASE Sem_wait(t, "idle", "w_first", "queue")
  <2>1. Owning' = Owning /\ sem'["w"] = sem["w"]
    BY <1>4 DEF Sem_wait, Go, Owning
  <2> QED BY <1>2, <1>3, <2>1 DEF QLockInv, Excludes
<1>5. CASE Sem_wait(t, "w_first", "w_leave", "w")
  <2>1. sem["w"] = 1 /\ sem'["w"] = 0 /\ Owning = {} /\ ~QReadersHold
    BY <1>5 DEF Sem_wait, Go, QLockInv, Excludes
  <2>2. Owning' = {t}
    BY <1>5, <2>1 DEF Sem_wait, Go, Owning
  <2> QED BY <1>2, <1>3, <2>1, <2>2 DEF QLockInv, Excludes
<1>6. CASE \/ Sem_post(t, "w_leave", "writing", "queue")
           \/ Local(t, "writing", "storing") \/ Local(t, "storing", "written")
  <2>1. Owning' = Owning /\ sem'["w"] = sem["w"]
    BY <1>6 DEF Sem_post, Local, Go, Owning
  <2> QED BY <1>2, <1>3, <2>1 DEF QLockInv, Excludes
<1>7. CASE \E to \in {"idle", "done"} : Sem_post(t, "written", to, "w")
  <2>1. t \in Owning
    BY <1>7 DEF Sem_post, Go, Owning
  <2>2. Owning = {t} /\ sem["w"] = 0 /\ ~QReadersHold
    BY <2>1 DEF QLockInv, Excludes
  <2>3. Owning' = {} /\ sem'["w"] = 1
    BY <1>7, <2>2 DEF Sem_post, Go, Owning
  <2> QED BY <1>2, <1>3, <2>2, <2>3 DEF QLockInv, Excludes
<1> QED
  BY WriterSteps, <1>4, <1>5, <1>6, <1>7 DEF WriterMoves

-----------------------------------------------------------------------------
\* The invariant holds at first, ...
LEMMA QInitHolds == QInit => QInv
<1> SUFFICES ASSUME QInit PROVE QInv
  OBVIOUS
<1>1. QTypes
  BY Roles DEF QInit, QTypes, QReaderLabels, QWriterLabels
<1>2. InQueue = {} /\ QInMutex = {} /\ QCounted = {} /\ Owning = {} /\ ~QReadersHold
  BY Roles DEF QInit, InQueue, QInMutex, QCounted, Owning, QReadersHold
<1>3. QCountInv
  BY <1>2, FS_EmptySet DEF QInit, QCountInv
<1>4. Excludes("queue", InQueue) /\ Excludes("mutex", QInMutex) /\ QEdgeInv /\ QLockInv
  BY <1>2, Roles DEF QInit, Excludes, QEdgeInv, QLockInv
<1> QED BY <1>1, <1>3, <1>4 DEF QInv

\* ... and every step keeps it.
LEMMA QNext == QInv /\ [QStep \/ Finished]_vars => QInv'
<1> SUFFICES ASSUME QInv, [QStep \/ Finished]_vars PROVE QInv'
  OBVIOUS
<1>1. CASE Create /\ UNCHANGED dataVars
  BY <1>1 DEF Create, dataVars, QInv, QTypes, Excludes, InQueue, QInMutex, QCountInv, QEdgeInv,
              QLockInv, QCounted, Owning, QReadersHold
<1>2. CASE \E t \in Readers : q_reader(t)
  BY <1>2, QReaderTypes, ReaderLocks, QReaderKeeps DEF QInv
<1>3. CASE \E t \in Writers : q_writer(t)
  BY <1>3, QWriterTypes, WriterLocks, QWriterKeeps DEF QInv
<1>4. CASE UNCHANGED vars
  BY <1>4 DEF vars, semVars, dataVars, QInv, QTypes, Excludes, InQueue, QInMutex, QCountInv,
              QEdgeInv, QLockInv, QCounted, Owning, QReadersHold
<1> QED
  BY <1>1, <1>2, <1>3, <1>4 DEF QStep, Finished

\* A reader that reads is counted, so that the readers own w.
LEMMA QReadersHoldWhenReading == QInv /\ Reading # {} => QReadersHold
<1> SUFFICES ASSUME QInv, Reading # {} PROVE QReadersHold
  OBVIOUS
<1>1. QCounted # {}
  BY DEF Reading, QCounted
<1> QED
  BY <1>1, QCountedFinite DEF QInv, QCountInv, QReadersHold

LEMMA QExcludes == QInv => Exclusion
<1>1. Writing \subseteq Owning
  BY DEF Writing, Owning
<1> QED
  BY <1>1, QReadersHoldWhenReading DEF QInv, QLockInv, Excludes, Exclusion

LEMMA QStable ==
    QInv /\ [QStep \/ Finished]_vars => [value' # value => Reading = {}]_vars
<1> SUFFICES ASSUME QInv, QStep \/ Finished, value' # value PROVE Reading = {}
  OBVIOUS
<1>1. PICK t \in Writers : Store(t)
  BY DEF QStep, Finished, vars, dataVars, q_reader, q_writer, q_acquire_readlock,
         rwlock_release_readlock, q_CountIn, CountOut, EndTurn, q_acquire_writelock,
         Load, rwlock_release_writelock
<1>2. t \in Owning
  BY <1>1 DEF Store, Local, Go, Owning
<1> QED
  BY <1>2, QReadersHoldWhenReading DEF QInv, QLockInv

\* Whoever begins to hold the lock while a writer waits for it is that writer,
\* since who waits holds queue, and nobody gets the lock without it.
LEMMA QNextWriter ==
    ASSUME QInv, QStep \/ Finished, NEW w \in Writers, pc[w] = "w_first"
    PROVE  Holding' \subseteq Holding \cup {w}
<1> USE Roles DEF QInv, QTypes
<1>1. ASSUME NEW t \in Threads, t # w PROVE t \notin InQueue
  BY <1>1 DEF Excludes, InQueue
<1>2. CASE Create \/ Finished
  BY <1>2 DEF Create, Finished, vars, semVars, Holding
<1>3. ASSUME NEW t \in Readers, q_reader(t) PROVE Holding' \subseteq Holding
  <2>1. pc[t] \notin {"r_enter", "r_test", "r_first", "r_count", "r_post", "r_leave"}
    BY <1>1 DEF InQueue
  <2>2. PICK from \in QReaderLabels, to \in {"r_enter", "r_uncount", "r_last", "r_unpost", "idle", "done"} :
          Go(t, from, to)
    BY <1>3, <2>1, ReaderSteps
       DEF ReaderMoves, q_CountIn, CountOut, Sem_wait, Sem_post, Local, Go, QReaderLabels
  <2> QED
    BY <2>2 DEF Go, Holding
<1>4. ASSUME NEW t \in Writers, q_writer(t), t # w PROVE Holding' \subseteq Holding
  <2>1. pc[t] \notin {"w_first", "w_leave"}
    BY <1>1, <1>4 DEF InQueue
  <2>2. \/ \E to \in {"w_first", "idle", "done"} : \E from : Go(t, from, to)
        \/ Go(t, "writing", "storing") \/ Go(t, "storing", "written")
    BY <1>4, <2>1, WriterSteps DEF WriterMoves, Sem_wait, Sem_post, Local, Go
  <2> QED
    BY <2>2 DEF Go, Holding
<1>5. ASSUME q_writer(w) PROVE Holding' \subseteq Holding \cup {w}
  BY <1>5, WriterSteps DEF WriterMoves, Sem_wait, Sem_post, Local, Go, Holding
<1> QED
  BY <1>2, <1>3, <1>4, <1>5 DEF QStep

-----------------------------------------------------------------------------
(* The behaviours of RWLocks, which are those of one program or the other. *)

\* The set of semaphores tells the programs apart.
LEMMA WhichProgram == (IInv => ~Queued) /\ (QInv => Queued)
BY DEF IInv, Types, QInv, QTypes, Queued

\* The two inductive invariants, for any number of readers, writers and turns.
THEOREM BothInvariance == BothSpec => [](IInv \/ QInv)
<1>1. Init \/ QInit => IInv \/ QInv
  BY RWInit, QInitHolds
<1>2. (IInv \/ QInv) /\ [BothStep \/ Finished]_vars => (IInv \/ QInv)'
  BY WhichProgram, RWNext, QNext DEF BothStep, Next
<1> QED
  BY <1>1, <1>2, PTL DEF BothSpec

\* No reader reads while a writer writes, and at most one writer writes, with the
\* queue and without.
THEOREM LocksExclude == BothSpec => []Exclusion
<1>1. IInv \/ QInv => Exclusion
  BY RWExcludes, QExcludes
<1> QED
  BY <1>1, BothInvariance, PTL

\* No step of either program changes value while a reader has the lock.
THEOREM ReadsAreStable == BothSpec => StableRead
<1>1. (IInv \/ QInv) /\ [BothStep \/ Finished]_vars => [value' # value => Reading = {}]_vars
  BY WhichProgram, RWStable, QStable DEF BothStep, Next
<1> QED
  BY <1>1, BothInvariance, PTL DEF BothSpec, StableRead

\* reader-writer-nostarve.c keeps its name: a writer that waits for the lock gets it
\* before any thread that comes later.
THEOREM NobodyOvertakes == BothSpec => WriterIsNext
<1>1. ASSUME IInv, NEW w \in Writers PROVE pc[w] # "w_first"
  BY <1>1 DEF IInv, Types, WriterLabels
<1>2. (IInv \/ QInv) /\ [BothStep \/ Finished]_vars =>
        [\A w \in Writers : pc[w] = "w_first" => Holding' \subseteq Holding \cup {w}]_vars
  BY <1>1, WhichProgram, QNextWriter DEF BothStep
<1> QED
  BY <1>2, BothInvariance, PTL DEF BothSpec, WriterIsNext

\* In reader-writer.c the variables stay in their ranges: the semaphores are
\* binary, and reader_count is never negative nor more than the readers there are.
THEOREM RWTypeCorrect == BothSpec => [](~Queued => TypeOK)
<1>1. IInv \/ QInv => (~Queued => TypeOK)
  BY WhichProgram, RWTypes
<1> QED
  BY <1>1, BothInvariance, PTL

=============================================================================
