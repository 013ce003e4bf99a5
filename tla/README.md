# TLA+ models of the OSTEP homework programs

The repository holds the homework programs of *Operating Systems: Three Easy Pieces*. Each directory is a
program (or a few variants of one) of its own; directories share no code and no state. Two kinds matter here:
multi-threaded C programs, whose threads share memory, locks, condition variables and semaphores, and Python
simulators of one mechanism (a CPU, a scheduler, an allocator, a disk), which are single-threaded state machines.

This directory holds TLA+ modules translated from that code, TLC configurations that check them on small
instances, and theorems that TLAPS proves for every value of the constants. `PROJECT.json` maps every definition to
the source lines it models and lists the runs, the mutants (plausible bugs each property must catch), the
findings, the hazards and the theorems.

## 1. Inventory

| Component | State | Operations | What is hard | What makes it correct |
|---|---|---|---|---|
| `30-Condition Variables`: four producer/consumer programs over `main-common.c` | ring buffer, `use_ptr`, `fill_ptr`, `num_full`, mutex `m`, one or two condition variables, each thread's loop state | `producer`, `consumer`, `do_fill`, `do_get`, `main` (create, join, END_OF_STREAM, join) | any interleaving of the threads, lost and spurious wakeups, tests that are stale after a wait, unlocked updates | no check fails, a bounded FIFO queue, everything consumed once, the program ends |
| `31-Semaphores`: fork-join, rendezvous, barrier, reader-writer (two), mutex-nostarve | semaphore values, reader and room counters | `rwlock_*`, `ns_mutex_*`, `barrier`, thread bodies | order of waits and posts, writers that starve, semaphores that are never initialised | exclusion, order across the barrier, no overtaking, the program ends |
| `32-Common_Concurrency_Problems`: five `vector_add` | two locks per pair of vectors (or a global one), the vectors, the retry counter | `vector_add`, `worker`, `main` | lock order, hold and wait, trylock and retry, racy counters | no deadlock, no lost addition, progress |
| `33-Event-based Ccocurrency`: servers | table of clients, descriptor sets | accept, read, reply, close | full table, order of readiness, descriptors as `char`, clients that reset their connection | a client is left out only when the table is full, and a message of any other is answered |
| `x86/x86.py` and its `.s` programs | memory, registers and condition codes, per-thread saved context, current thread, interrupt countdown | one step per instruction, interrupt, halt | the interrupt may fall between any two instructions | context switches lose nothing; the lock programs exclude |
| `process_py/process-run.py` | process table, current process, pending I/O completions | clock tick | completions that race the switch, idle CPU | at most one RUNNING, work conserving, the run ends |
| `malloc_py/malloc.py` | free list, size map | `malloc`, `free` | splitting and coalescing, order of the list, stale pointers | free and allocated blocks tile the heap |
| `cpu_api/fork.py` | process tree | fork, exit | re-parenting, choice among live processes only | the tree stays a tree |
| `cpu_api/generator.py` | list of actions, the nesting of the code, the processes that run it | write a program at random or by hand, generate its code, fork, wait, exit | the waits are emitted before anyone knows the order in which children end | every process waits for all its children; the program ends |
| `schedular/schedular.py` | run queue, time, per-job times | FIFO, SJF, RR loops | end-of-slice accounting | all jobs run for exactly their length; round robin is fair; SJF is the best order |
| `paging-policy_py/paging-policy.py` | memory list, use bits, hits and misses | one reference per step, seven policies | two tables (pages and use bits) that must agree; looking ahead | OPT is optimal, LRU inclusive, a use bit belongs to a page in memory |
| `38-RAID/raid.py` | per-disk request queues | block mapping, read, write | parity placement | mappings are injective; parity never shares a disk with its data |
| `38-RAID/raid-graphics.py` | requests with a status per disk operation, four disks that seek and transfer, window | schedule, seek, transfer, count | four disks side by side, copies of a mirror on two of them, counting | every operation counted once, a read takes one copy, the animation ends |
| `37-Hard_Disk_Drivers/disk.py`, `disk-precise.py` | head, arm, angle, request queue and states, late requests, window | seek, rotate, transfer; FIFO, SSTF, SATF, BSATF | a window that moves while requests arrive, estimates against what happens, skew and zones | every request is served, in window order; the choice never finds nothing; estimates are exact |
| address translation: `paging-linear-translate_py`, `paging-multilevel-translate`, `segmenmation`, `relocation_py` | bounds, page tables, used frames, the memory that holds the tables | set up an address space, translate | page tables that share frames with the pages they describe, memory that runs out, the two ends of the address space | no two addresses share a byte; tables describe what was allocated |
| `tlb`, `paging_beyond_phys_real`, `process_C`, `39-Files&Directories`, plotting and `auto_run` scripts | none of interest | timing loops, system calls, drawing | - | not modelled: measurement, I/O or graphics |

The `.bak` files are the Python 2 originals of the same scripts and are not modelled twice: the scripts are modelled as
Python 3 runs them.

## 2. Plan

The order is that of the difficulty of the behaviour: shared-memory concurrency first.

1. Producer/consumer (done): `PCCommon`, `PCWhile`, `OneCvWhile`, `TwoCvsIf`, `ExtraUnlock`, the abstract `PCQueue`,
   the run module `PCVariants`, and the proofs in `PCWhileProofs` and `PCVariantsProofs`.
2. Semaphores (done): the two reader/writer locks, the no-starve mutex and the barrier, with the proofs of exclusion
   and of the barrier. Rendezvous and fork-join are two semaphores in a straight line and are left out.
3. `vector_add` (done): one module with the common `main` and the locking discipline of each program, the abstract
   `VectorSerial`, and `VectorAddProofs`.
4. The x86 machine (done) with the lock programs on it, the abstract `X86Threads`, and `X86Proofs`.
5. The simulators (done): processes, memory, disks, address translation, scheduling, replacement and the fork generator,
   checked together by `Simulators`.
6. The servers (done): `server.c` and `server_select.c` with clients that connect, send, take answers and leave; with
   the mutex and the barrier they are checked by `Waiting`.
7. Further proofs (done): `PCWhile` implements the safety of `PCQueue`, and `TwoCvsIf` until a check fails; the turns of
   `ExtraUnlock`; `WriterIsNext`, `Exclusion` and `StableRead`
   of `RWLockNoStarve`; the token and the bounded bypass of `NSMutex`; the table of `server_select.c`; `VectorAdd`
   implements `VectorSerial`; exclusion, counts and tickets of the assembly programs; and in `SimulatorProofs` the
   process table, the replacement policies, the process tree, the translations, the RAID mappings, the heap, the
   disk and its estimates, the RAID animation, the job scheduler and the fork generator.

What would come next: the busy times of `raid.py`.

## 3. Modules

**Producer/consumer.** `PCCommon` is what the four programs share: the ring buffer of `pc-header.h`, the pthread
wrappers and `main`. `pc[t]` is the place where a thread pauses, named as the source names it (`p0`..`p6`,
`c0`..`c6`). `Cond_wait` is two steps (sleep and unlock; wake and lock again), `Cond_signal` wakes any one sleeper,
and `SpuriousWakeup` ends a wait with no signal. A failed `ensure` sets `exited`. `PCWhile` adds the producer and
consumer of `main-two-cvs-while.c`; its condition variables are constants, so that `OneCvWhile` is an instance of it
with one for both. `TwoCvsIf` replaces the two tests and what follows a wait. `ExtraUnlock` replaces `do_fill` and
`do_get` by the loads and stores they consist of, since there they run without the lock. `PCQueue` is the abstract
bounded FIFO queue.

**Semaphores.** `SemThreads` has the semaphores and the creation and joining of threads; a wait is enabled when the value
is positive, so which waiter a post lets through is open. `RWLock` is `reader-writer.c`; `RWLockNoStarve` extends it
with the queue of `reader-writer-nostarve.c`; `RWLocks` is either, chosen in the initial state. In `NSMutex`
a thread may stop after a turn, as the program's workers do, or come back as a client of such a mutex does: `loops`
is read by the program and never used. `Barrier` is `barrier.c`.

**Servers.** `EventServer` has both servers over the same clients, chosen in the initial state. A connection is a record:
its state, descriptor, whether a message or an answer is unread, and its `link`: the client is up, has left, or the
connection is reset, because the client left with an answer in its buffer or an answer came when it had left. `accept`
takes any queued connection and gives it the lowest free descriptor; `serve` is one turn of the loop over the table of
`server_select.c`, one slot at a time, so that clients send and leave between `select` and the read of their slot. `Found`
is what a read may return; a reset may throw away a message, and its error may be reported once or at every read.
`server_select.c` closes and frees the slot only at the end, 0, and sends its error message after an error;
`serveOne`, the loop of `server.c`, takes an error for the end. A `send` on a reset connection fails, or its SIGPIPE
ends the process. A descriptor above `charMax` is stored as the negative number a `char` makes of it. `Waiting` runs
`NSMutex`, `Barrier` or a server.

**vector_add.** `VectorAdd` holds the five programs with every combination of `-d` and `-p`; `options` is
chosen in the initial state. An element is added by a load and a store, in `vector-nolock.c` by a load of the source and
an atomic addition. `MCVectorAdd` names the options that a run considers. `VectorSerial` is the abstract specification:
whole additions, one at a time.

**x86.** `X86Isa` is the effect of each instruction, `X86Load` the two passes of the loader that turn labels and
variables into addresses, `X86` the loop of `cpu.run` with the process list and the interrupt countdown (one action
per turn of the loop). `X86Threads` is the abstract machine: a cpu for each thread, no switches. `X86Programs` has the
`.s` files line by line, `X86Locks` what each owes its threads; which program the machine runs (`-p`) is chosen in the
initial state. `X86Suite` has the programs and arguments of the runs.

**Simulators.** The scripts are single-threaded; what is hard in them is a long sequence of legal steps. Each takes
its command-line options from its initial state. `Simulators` runs any one of them: the others keep a value that means nothing.

- `ProcessRun` is one tick of `process-run.py` per action: the I/Os that finish (`Woken`), then the instruction that runs
  (`NothingRuns`, `Compute` or `IssueIO`); the operators that move processes are functions from one table to the
  next, and `ok` records that no `assert` has failed.
- `Malloc` has `malloc` and `free`, with the search, the split, the insertion in list order and the coalescing.
- `ForkTree` has fork and exit; descendants are a recursive function.
- `ForkGen` is `generator.py` in three phases. `actions` is written at random (`add_fork_begin`, `add_wait`, `clean_up`) or by
  hand (`parse_wait`, `parse_brace`, `parse_end`); `generate` is one turn of the generator of runnable code, which keeps a stack
  of parents and counts of children; `run` is a step of one process of the resulting program (`Fork`, `Wait`, `End`).
- `Raid` has the mappings of each level and a write as a sequence of partial writes, one per stripe; `reads` and `writes`
  are the places of the last step.
- `RaidAnim` is one tick of `raid-graphics.py` per action: the disks in order (`AnimateDisk`), each of which seeks, transfers, marks
  its operation done and asks for the next (`ScheduleDisk`). Rows are fractions, as the `/` of Python 3 makes them.
- `DiskSim` is one tick of `Animate` of either disk program: a phase that ends (seek, rotation, transfer) passes on to the
  next in the tick in which it ends, and a finished transfer chooses the next request (`GetNextIO`: `GetWindow`, `DoSATF` or
  `DoSSTF`, `PlanSeek`). `MCDisk` names two disks for TLC.
- `PagePolicy` follows one reference string in two caches at once, so that policies and sizes can be compared.
- `JobSched` runs the first job of the list for its time or its quantum.
- `Translate` has the four setups and `translate`, which every state can apply to every address; the page tables of the multilevel
  script lie in the frames they describe, as there.

## 4. Runs

| Run | Instance | What it shows |
|---|---|---|
| `PCWhile` | 2 producers, 2 consumers, 2 items each, 2 slots, 1 spurious wakeup | no check fails; ring and count agree; it is a FIFO queue that keeps moving; it ends with the buffer empty and everything counted |
| `PCVariants` | `TwoCvsIf`: 2 and 2, 2 slots, 1 spurious wakeup; `ExtraUnlock` and `OneCvWhile`: 1 and 1, 1 slot, 4 items, 1 spurious wakeup | a stale test ends in a failed check, never in a lost, doubled or overtaken item; with one thread of each kind and one slot, filling and getting without the lock still take turns, and with one condition variable the program ends |
| `RWLocks` | 2 readers, 2 writers, 2 turns, both programs | exclusion, stable reads, no thread overtakes a waiting writer when there is a queue, it ends |
| `Waiting` | `mutex-nostarve.c` with 3 threads of any number of turns; `barrier.c` with 3 children; both servers with 3 clients, a table of 2 and a `char` of at most 5 | one token, at most two turns of another thread before one's own, no starvation; nobody passes the barrier early and all pass; only a full table leaves a client out, and a message of a client with a place is answered, unless a reset ends the process |
| `X86_suite` | `test-and-set.s`, `test-and-test-and-set.s` (2 threads), `ticket.s`, `yield.s`, `wait-for-me.s` (3), interrupt after 1 to 3 | exclusion and no lost count, tickets in order, no waiter before the signal; the machine is independent threads; it ends |
| `X86_loop` | `loop.s`, `dx=3` | **violated**: the loop ends with `dx = -1` |
| `VectorAdd` | 3 threads, 2 calls, 2 elements, every program and flag that promises something | additions are disjoint and serial; no deadlock |
| `Simulators` | the ten simulators on all their small inputs (below) | for each, what the inventory calls correct |
| `DiskPrecise` | `disk-precise.py`, the disks of `Simulators` | **violated**: a request added late is never chosen |
| `RaidGraphics` | striping, speed 4 | **violated**: the animation does not end |

The properties of `Simulators` name the script they are about: `WorkConserving` and `Switching` (`process-run.py`),
`HeapInOrder` (`malloc.py`), `ProcessTree` (`fork.py`), `AllReaped` (`generator.py`), `ParityKept` (`raid.py`), `IOsKept`
(`raid-graphics.py`), `ChoiceExists`, `RequestsServed` and `EstimatesExact` (`disk.py`), `BestPolicy` and `UseBitsFollowMemory`
(`paging-policy.py`), `JobTimes` (`schedular.py`), `Translations` (the four translations) and `Termination` (those that must end).

*Bounds.* Two threads of each kind are the least with which a thread can be overtaken by one of its own kind
between wakeup and lock; two slots are the least for which a full ring differs from a single filled slot; one spurious
wakeup is enough to run a wait loop a second time. `ExtraUnlock` needs four items, for the indices and the count to meet
in every way. Three threads of `NSMutex` are the least with one in each room and one that has the lock; what `passed`
counts is capped where it exceeds what `BoundedBypass` allows. Three clients are one more than the table of two has
slots. Three threads of `VectorAdd` make a cycle of locks through a third thread possible, two calls make a call follow another
of the same thread, two elements make a call divisible. The interrupt of the x86 runs falls after every instruction: its
countdown starts anywhere from 1 to `intfreq` each time. Loops are finite in all programs, so no state constraint is used.

In `Simulators`:

- `process-run.py`: three processes are the least for which a preempted, a waiting and a running one exist at once, and two
  instructions the least with one after an I/O; I/Os take 0 to 3 ticks. One of length 0
  never ends; `Termination` then says who is left waiting (`LeftWaiting`).
- `malloc.py`: six bytes hold the three blocks whose merging needs both neighbours. `fork.py`: six names give every shape
  of tree of depth three under a process that exits. `generator.py`: seven actions and three forks give a nested fork beside
  another, with every placing of waits.
- `raid.py`: four disks and requests of five blocks give writes that begin and end inside a stripe, with either kind of parity, and
  rows beyond one rotation. `raid-graphics.py`: striping and mirroring, no window or a window of one, three requests (a window
  that moves twice) on addresses of two rows, a speed that meets every row and one that passes some: `Termination` asks for the
  end where each row asked for is a multiple of the speed away, and `RaidGraphics` shows that it may fail elsewhere.
- `disk.py`: two disks (even and skewed, zoned), two requests and a late one, no window or a window of one or two: a window
  that must move while a late request waits. Requests are for three or four blocks of each disk, on at least two tracks.
- `paging-policy.py`: four pages in six references, caches of two and three: strings on which the policies differ and
  a page comes back after its eviction. One use bit.
- `schedular.py`: three jobs of up to four, quanta of one and two. Translation: address spaces of four and five bytes (one with two even
  halves, one without) in eight; each register is drawn or given, and given ones are 0 to 8, so that limits lie below a quarter
  and above the whole of the address space and bases lie outside memory. Pages: six frames of two bytes, a linear table of four
  pages, tables of two entries, up to four pages: memory runs out with and without a table to allocate.

*With more threads* some programs are wrong, which is known to their documents and not a finding: `ExtraUnlock` with
two threads of a kind fails its checks, `TwoCvsIf` with two consumers does too, `OneCvWhile` with two consumers may put
everyone to sleep (`answer.md:61`), `vector-deadlock.c -d` deadlocks.

*Fairness.* Where every run of a program is finite, `WF_vars(Step)` says no more than that a thread that can run
eventually does: some thread runs while any can. `NSMutex` and `VectorAdd` may run for ever in one thread, so there
each thread is fair on its own (`WF` of its next step): a thread that can *always* run does, which is what a
preemptive scheduler gives. Strong fairness is nowhere assumed: a semaphore or a mutex may pass over a waiter each time.
Hence `vector-try-wait.c -d` may back off for ever, and `Termination` of `VectorAdd` says so; hence also
`NoStarvation` starts where a thread is counted in room 1: one still at the wait of line 76 may be passed over for ever,
which the program leaves to its semaphores. In the x86 runs the machine always runs; that every thread gets the cpu follows
from the interrupt. A server does not stop while it has something to do. Nothing makes a client leave, send or take
its answers: `Answered` therefore owes an answer of `server.c` only if no other client stays for ever. Of the
simulators, those whose loop goes on until the end are assumed to go on (`process-run.py`, the disk, the RAID animation, the generated program); `malloc.py`,
`fork.py` and the others need no fairness, for nothing is promised of their ends.

## 5. Findings

Three statements of the documents and the code do not hold of the program; `PROJECT.json` quotes each with its line.

- `jgte` of `x86.py` jumps on equality, as the definition and the trace in `README-race` have it; the prose under the trace
  says that it does not (`X86_loop`).
- `disk-precise.py` cuts the window of BSATF to the queue as it is and may never move it again: a late request is then outside
  for ever, and the `assert` of `DoSATF` fails (`DiskPrecise`). `disk.py` serves it.
- `raid-graphics.py` divides truly, as all scripts with `tkinter` do: a block begins within a row, the head passes it and
  never equals it, and the animation does not end (`RaidGraphics`).

Seen while modelling, and shown by no run (most contradict no text of the repository):

- `vector-nolock.c` adds each element atomically, but not a whole call, against `answer.md:100`.
- `disk.py` never asks for a block of the inner track by default (`maxBlock`), and a list of late requests given with `-l` ends
  in a `KeyError`; in `disk-precise.py` the estimate of a seek that passes the angle 0 ends in a `TypeError` (line 492, a `Decimal`
  less a `float`), as `Unsubtractable` models.
- `raid-graphics.py`: levels 4 and 5 end in a `TypeError` before there is a request (lines 234 and 275, a `range` of a
  float).
- `generator.py`: a wait before its fork is accepted by `Parser` and ends in an `IndexError` when code is generated
  (`EarlyWait`).
- `segmentation.py`: the test for overlap misses a second base at or below the first, so that `Translations` asks for apart
  segments only where the script chose the second base or looked at it (`Checked`). Bases given by hand to `segmentation.py`
  may be outside memory (`PlacedByScript`); `relocation.py` checks that. Limits given to it may be larger than the address
  space.
- `process-run.py -L 0`: an I/O is due at a tick that has passed, and its process waits for ever (`LeftWaiting`).
- `paging-multilevel-translate.py`: an `-a` that does not fit ends in the `assert` of `findFree` (`FailsOnlyWhenFull` says
  that nothing else does).
- `server_select.c`: a client more than the table has places is accepted, never answered and never closed
  (`Stranded`). The descriptors that `char` cannot hold are those above the table's, which are never stored. A client
  that leaves with an answer unread may end the process: its error is answered like a message (line 118), with `SIGPIPE`.

## 6. Proofs

The theorems hold for every value of the constants, under the assumptions that declare their types (`ArgsAssumption`
and its like: thread counts are natural numbers, loops and sizes positive; for the server that as many descriptors as the table
has slots fit a `char`; for the disk that its zones are those of a disk, and that it reaches the ends of blocks
and the tracks in whole ticks; for the assembly programs that the machine has loaded
them and that the register each reads has been given a value with `-a`). TLC evaluates each in a run.

- `PCWhileProofs`, for any number of producers, consumers, items and slots and for one or two condition variables:
  `TypeOK`, `MutualExclusion`, `Ring`, `EnsureHolds`, and `Spec => Q!Safe`. `EnsureHolds` alone is not inductive: a
  thread that is about to fill needs its test of `num_full` still to hold (`TestHolds`), which needs that only the holder of
  `m` is past the test (`MutualExclusion`), and the test means something for the slot only because count, indices and slots
  agree (`Ring`). `NotCreated` and `ItemsLeft` keep threads from running before they exist and items in their range.
  For the refinement, `Progress` adds how far each thread has got (a producer returns when all its items are put, main
  queues END_OF_STREAMs only then, a consumer stops at its own), `FillAppends` and `GetTakesHead` say what the ring's two operations
  do to the sequence of its values, and each step of a thread is a step of the queue or leaves it alone. The fairness of
  `PCQueue` stays with TLC.
  Most of this (`CoreInv`, `Progress` and the lemmas about the queue) is proved of *loose* steps, in which a thread may fill or get
  when it has just woken and a failed check exits: for the queue it does not matter whether the tests are any good
  (`LooseIsQueue`), only for the checks. The steps of `PCWhile` are loose steps, and so are those of `TwoCvsIf`.
- `PCVariantsProofs`: the programs of `PCVariants`. `FailStop`, for any number of producers, consumers, items and slots: each step of
  `TwoCvsIf` is a loose step of `PCWhileProofs`, which is instantiated with the names of its two condition variables, so that
  its lemmas apply. `TakeTurns`, for any number of items with one thread of each kind and one slot (with more it is false). It is
  not inductive: `do_fill` and `do_get` are eight loads and stores each, outside the lock, and a thread is where it is because of
  what it loaded. `TurnInv` says that from its test to its store into `num_full` a thread is the only one that changes it
  (`TestHolds`: filling while it is 0, getting while it is 1), at which of these steps the slot is full (`Slot`), that a loaded value is
  still the value of the global (`Loaded`), and that main fills only after the producer's return (`MainLast`).
- `RWLocksProofs`, for both readers/writers programs and any number of readers, writers and turns: `Exclusion`, `StableRead` and
  `WriterIsNext`. The invariant counts the readers that have entered (`CountInv`), says that the first is alone until it
  has `w` and the last leaves nobody (`EdgeInv`), and that `w` is taken as long as readers own it (`LockInv`). With the
  queue, a thread past its semaphore is alone there (`Excludes("queue", InQueue)`).
- `WaitingProofs`: what the run `Waiting` checks of the mutex, the barrier and the servers, for any number of threads, turns,
  children, clients and slots. `BeforeFirst`: `s` is positive, or a child is past it, only when the counted children are all
  children. `TableHolds`: a descriptor is given at most once among the open connections and is the lowest free one, so that a
  descriptor above the table's means that all the lower ones are in use, and those are the descriptors in the table. The
  three semaphores of `mutex-nostarve.c` are one token (`OneToken`). With the types it is inductive as it stands: every step
  moves the token from a semaphore to a thread, from a thread to a semaphore, or between the threads that gather and those
  that have the lock. `BoundedBypass` adds which room the token is filling or emptying: a waiting thread is passed at most
  once by each other until room 2 has been filled, since it is then in it, and a second time only by one that leaves room 2
  before it.
- `X86Proofs`: for every program, every number of threads and all interrupts, the machine with its context
  switches implements `X86Threads` (a refinement: initial states map to initial states, each turn of the loop to a step of
  one thread). The invariant is that the current process has not halted, and that `active` counts those that have not.
- `X86Proofs`, second half: `MutualExclusion` and `InTurn` of the programs in the directory, for any number of threads, any number of loops and
  interrupts after any instruction. Since the machine implements the threads, the steps to consider are those of
  one thread at one instruction. First it is proved at which address `load` puts which instruction (`TasCode` and the
  others) and what each instruction does (`MovReg` to `HaltsAt`); then each instruction of each program is shown to be a
  step that its lock and its counter expect (`ExStep`, `CountStep`, `TicketStep`, `WaitStep`), and these keep the
  invariants. Exclusion alone is not inductive: the lock is had from the exchange that found 0, before any test of it
  (`ExInv`), and in `ticket.s` a thread is served because the tickets given and not passed on are as many as the threads in the queue and
  those that wait hold distinct ones of them (`TicketInv`). That no increment is lost counts, for each thread,
  those still to come (`CountInv`): with what is in memory they make the total.
- `VectorAddProofs`: `TypeOK` and `Disjoint` for any number of threads, calls and elements and all programs and
  flags. The invariant says which locks a thread holds at each place; that the two vectors of a call are
  different is a lemma. `VectorSerializable`, that the programs
  implement `VectorSerial`: a locked call takes effect with its last store, and until then `Committed` takes back what the calls
  under way have added. The invariant adds that what a thread has loaded is still what the vectors hold. It holds for
  every program and flag but `vector-nolock.c` whose threads add two vectors to each other (`OneWay`), where it is false.
- `SimulatorProofs`: the simulators, each with an invariant of its own; the last section (`SimInv`) puts them together
  for the behaviours of `Simulators`.
  - `process-run.py` (`ProcAssumption`): `WorkConserving` and `Switching`. A process that WAITs has exactly one I/O under way,
    the one that runs is the current one, and `num_active` is counted, so that `move` never finds a process in another state.
  - `paging-policy.py` (`PageAssumption`): `UseBitsFollowMemory`, and `BestPolicy`. For OPT and any
    other cache of the same size the invariant is `Lead`: of the pages used again by any time the other has at most as many more as
    it has had misses more. LRU keeps the pages in the order of their last use, and the smaller cache is the end of the larger.
  - `fork.py` (`TreeAssumption`): `ProcessTree`. The names of children are larger than their parents', so there is no cycle; a
    set closed under `children` that holds the root holds everyone, which gives what the recursive function
    `collect_children` collects.
  - the translations (`SpaceAssumption`): `Translations`, for any sets of sizes and any bound on given registers. Segments
    lie apart where the script drew or checked the second base; the frames of a page table and of its pages are used,
    and no frame is given twice. Addresses are apart because quotient and remainder are.
  - `raid.py` (`RaidAssumption`): `ParityKept`. Blocks are placed by quotients and remainders that have one solution, in
    each of the mappings. A write leaves off at the end of a stripe, and what it read and wrote of that stripe is a part of it.
  - `malloc.py` (`HeapAssumption`): `HeapInOrder`. An address lies in exactly one block of the list or of the map;
    `sorted()` is a permutation, and coalescing keeps what the list covers and leaves no neighbours.
  - `disk.py` (`DiskAssumption`): `ChoiceExists` and `RequestsServed`. The window of BSATF begins at a multiple of its size and
    all requests before it are done; that of the other policies slides with the number that are done, so that by
    counting it holds one that is not. Both for `disk.py` alone (`~Precise`): `disk-precise.py` violates the first (see the findings).
  - the estimates of `disk.py` (`AngleAssumption`; the lemmas in `ForkDiskProofs`): `EstimatesExact`, for any skew, seek and
    rotation speed and zones for which blocks, the gaps between them and the steps from track to track take whole ticks, as
    with the options of the homework; otherwise the head is taken to be where it is not yet (`RadiallyCloseTo`) and the
    estimate is off. The invariant (`OnTime`) splits an estimate into the time gone, the steps of the arm that are left, the turn
    to the block (`Gap`) and the block. The turn that the first block is late (`UnderTheHead`) is in it from the start, and a
    block that is served without a new rotation (`StaysInTransfer`) begins where the last one ended (`Meets`), also around the
    end of a track, because the blocks fill it.
  - `schedular.py` (`JobAssumption`): `JobTimes`. What a job has run is the last time it ran less its wait. The queue of round robin is
    in the order of the service had so far, within a quantum (`TurnsInOrder`). That no order is better than shortest job first is
    shown step by step: for every order, the turnaround so far, the time for each job left, and what the jobs left take by
    themselves never exceed that order's total (`NoBetterOrder`). `SumOf` and its lemmas say what the folds of the
    community modules do to sums.
  - `generator.py` (the lemmas in `ForkDiskProofs`): `AllReaped`, for any number of commands and forks. A command has a level, the forks before it less the
    exits (`Nest`), and a level of a command has the forks without a wait in the same braces (`Unwaited`). While a program is
    written `need_wait` holds these numbers, whoever writes it (`Counted`), so that a finished one has matching braces and
    nothing unwaited at an exit (`Nested`); while code is generated they are the lengths of the lists of the thread and
    those around it (`Generated`); while it runs, a process is between the braces of the fork that made it and has as many children
    as `Unwaited` says (`Placed`). No two processes do the same command, so that a child has a new name (`OneProcess`).
  - `raid-graphics.py` (`AnimAssumption`; the lemmas in `ForkDiskProofs`): `IOsKept`, for any addresses, window and seek speed and
    lists of any length. The invariant (`AnimOK`) holds after each disk of a tick, not only
    between ticks: the two copies of a request are at phases that go together (`Phased`), a copy under way has its disk
    (`Attended`, `Serving`), and what is counted and what all requests have left (`IOsLeft`) are the number the constructor
    worked out. That number holds at the start because each mirrored write has one more (`NeededIsAll`); each start of an operation keeps it (`StartsOne`) and each end takes one off (`EndsOne`).

*Only model-checked:* everything under fairness (termination, `NoStarvation`, `Answered`, that `PCWhile` keeps the queue moving),
which is out of the prover's reach.

The library's theorems of induction cannot be used with these provers. Where a proof needs one, it takes the least
counterexample (`LeastExists`); and a function defined by recursion is shown to be what its definition says by exhibiting it.

## 7. Not modelled

- Messages, timing and argument parsing; the lock around `printf`; the delays between the places of a producer or a consumer
  (any interleaving is considered anyway).
- `retry` of `vector-try-wait.c`, which is only printed; overflow of `int` (values stay small in the runs).
- Pthread, semaphore and socket calls that fail, but for the `read` of a connection that was reset.
- The storing of an 8-byte pointer into an `int` by the joins in `main-common.c:117`; see the hazards.
- x86: tracing, `-R`/`-M`/`-C` printing, the random choice of the seed, and errors of the loader, which end the program.
- `process-run.py`: the counts of busy ticks. `malloc.py`: requests of size 0, which only an action list can make and
  which, without a header, leave an address both free and allocated. The lists of `-l SIZESORT` are sorted by `free`
  only: a split leaves the rest of a block where the block was. `fork.py`, `generator.py`: lists that repeat a name.
  `raid.py`: the position and the busy time of the disks.
- `disk.py`: a window of 0; speeds that do not divide the angle of a block (angles are integers here); pressing the start key
  a second time. `raid-graphics.py`: the pause, the random choice of balanced addresses, whose loop may not end, and
  levels 4 and 5, which Python 3 never gets to (the `TypeError` above): their parity writes are modelled for `raid.py` only.
- `schedular.py -q 0`, with which round robin never ends; the search for random bases in `relocation.py` and `segmentation.py`
  where there is no room, which may not end; registers given as negative numbers.
- `server_file.c` and the empty `server_file_async.c` and `client_select.c`; rendezvous and fork-join, which are two semaphores
  in a straight line; assembly programs that `x86.py` rejects or that promise nothing.
- Hazards with no property: `malloc.py:76` and `main-common.c:117` (above), and `reader-writer.c:26`, where a writer may
  starve, which its answers ask to notice.
- The components of `PROJECT.json` that are `not_modelled`, each with its reason.
