------------------------------ MODULE Simulators -----------------------------
(***************************************************************************)
(* For TLC: the simulators written in Python, which share nothing.  A      *)
(* behaviour is one of one of them, named by simulator; the variables of   *)
(* the others keep a value that means nothing.                             *)
(***************************************************************************)
EXTENDS ProcessRun, Malloc, ForkTree, Raid, MCDisk, RaidAnim, PagePolicy, JobSched, Translate, ForkGen

VARIABLE simulator

vars == <<simulator, procVars, heapVars, treeVars, raidVars, diskVars, animVars, pageVars, jobVars,
          spaceVars, forkVars>>

None == <<>>

NoProc  == mode = None /\ code = None /\ sched = None /\ due = None
NoHeap  == flags = None /\ freelist = None /\ sizemap = None
NoTree  == rules = None /\ process_list = None /\ children = None /\ parents = None /\ curr_index = None
NoRaid  == /\ raid = None /\ request = None /\ stripe = None /\ begin = None /\ left = None
           /\ reads = None /\ writes = None
NoDisk  == /\ disk = None /\ requestQueue = None /\ requestState = None /\ lateRequests = None
           /\ requestCount = None /\ currWindow = None /\ drive = None /\ angle = None
           /\ timer = None /\ outcome = "none"
NoAnim  == raidRun = None /\ request_queue = None /\ disks = None /\ tally = None
NoPages == addrList = None /\ addrIndex = None /\ caches = None
NoJobs  == jobs = None /\ runlist = None /\ thetime = None /\ times = None
NoSpace == /\ space = None /\ regs = None /\ pt = None /\ usedPages = None /\ memory = None
           /\ pdbr = None /\ allocatedVPs = None
NoFork  == phase = None /\ actions = None /\ need_wait = None /\ cg = None /\ procs = None

Init ==
    /\ simulator \in {"process-run", "malloc", "fork", "raid", "disk", "raid-graphics", "paging-policy",
                      "schedular", "translate", "generator"}
    /\ IF simulator = "process-run"   THEN ProcInit  ELSE NoProc
    /\ IF simulator = "malloc"        THEN HeapInit  ELSE NoHeap
    /\ IF simulator = "fork"          THEN TreeInit  ELSE NoTree
    /\ IF simulator = "raid"          THEN RaidInit  ELSE NoRaid
    /\ IF simulator = "disk"          THEN DiskInit  ELSE NoDisk
    /\ IF simulator = "raid-graphics" THEN AnimInit  ELSE NoAnim
    /\ IF simulator = "paging-policy" THEN PageInit  ELSE NoPages
    /\ IF simulator = "schedular"     THEN JobInit   ELSE NoJobs
    /\ IF simulator = "translate"     THEN SpaceInit ELSE NoSpace
    /\ IF simulator = "generator"     THEN ForkInit  ELSE NoFork

\* The others stand still.
Only(name) ==
    /\ simulator = name /\ UNCHANGED simulator
    /\ IF name = "process-run"   THEN TRUE ELSE UNCHANGED procVars
    /\ IF name = "malloc"        THEN TRUE ELSE UNCHANGED heapVars
    /\ IF name = "fork"          THEN TRUE ELSE UNCHANGED treeVars
    /\ IF name = "raid"          THEN TRUE ELSE UNCHANGED raidVars
    /\ IF name = "disk"          THEN TRUE ELSE UNCHANGED diskVars
    /\ IF name = "raid-graphics" THEN TRUE ELSE UNCHANGED animVars
    /\ IF name = "paging-policy" THEN TRUE ELSE UNCHANGED pageVars
    /\ IF name = "schedular"     THEN TRUE ELSE UNCHANGED jobVars
    /\ IF name = "translate"     THEN TRUE ELSE UNCHANGED spaceVars
    /\ IF name = "generator"     THEN TRUE ELSE UNCHANGED forkVars

Running   == Only("process-run") /\ ProcTick
Turning   == Only("disk") /\ DiskStep
Animating == Only("raid-graphics") /\ AnimStep
Forking   == Only("generator") /\ ForkStep

Step ==
    \/ Running
    \/ Turning
    \/ Animating
    \/ Forking
    \/ Only("malloc") /\ HeapStep
    \/ Only("fork") /\ TreeStep
    \/ Only("raid") /\ RaidStep
    \/ Only("paging-policy") /\ Reference
    \/ Only("schedular") /\ RunJob
    \/ Only("translate") /\ SpaceStep

\* A simulation that has ended.
Finished ==
    \/ Only("process-run") /\ ProcFinished
    \/ Only("fork") /\ TreeFinished
    \/ Only("disk") /\ DiskFinished
    \/ Only("raid-graphics") /\ AnimFinished
    \/ Only("paging-policy") /\ PageFinished
    \/ Only("schedular") /\ JobsFinished
    \/ Only("translate") /\ SpaceFinished
    \/ Only("generator") /\ ForkFinished

FairSpec ==
    /\ Init /\ [][Step \/ Finished]_vars
    /\ WF_vars(Running) /\ WF_vars(Turning) /\ WF_vars(Animating) /\ WF_vars(Forking)

-----------------------------------------------------------------------------
\* process-run.py: no assertion of the move_to methods fails, only the current
\* process runs and who waits has an I/O in flight; and with SWITCH_ON_IO no
\* process is ready while the cpu is idle.
WorkConserving == simulator = "process-run" => TableConsistent /\ NeverIdle

\* process-run.py: the cpu changes hands as README:198-208 says.
Switching == [][simulator = "process-run" => SwitchesAsAsked]_vars

\* All processes of process-run.py finish, but those an I/O of length 0 keeps, who
\* keep no others when the switch is on I/O; the disk serves its requests; the
\* animation of the RAID comes to its end when every row is a multiple of the seek
\* speed away; a program of generator.py ends, or is refused.
Termination ==
    <>(/\ simulator = "process-run" => AllDone \/ LeftWaiting
       /\ simulator = "disk" => outcome \notin {"ready", "running"}
       /\ simulator = "raid-graphics" /\ RowsAreReached => tally.is_done
       /\ simulator = "generator" => phase \in {"done", "bad program", "error"})

\* malloc.py: free and allocated blocks tile the heap, a list in address order
\* stays so, and coalescing leaves no neighbours apart.
HeapInOrder == simulator = "malloc" => Tiling /\ AddressOrder

\* fork.py: the processes are a tree under the root.
ProcessTree == simulator = "fork" => TreeOK

\* raid.py: blocks, mirrors and parity are each in a place of their own, and what
\* a partial write reads is enough for the new parity.
ParityKept == simulator = "raid" => Placement /\ ParityComputable

\* disk.py: all requests are served, as fairly as the window promises.
RequestsServed == simulator = "disk" => ServedInOrder

\* disk.py: a request takes as long as it was estimated to take.
EstimatesExact == [][simulator = "disk" => EstimateExact]_vars

\* raid-graphics.py: every operation on the disks is counted, once, a read takes one
\* copy of a mirror, and no assertion about what a copy does fails.
IOsKept == simulator = "raid-graphics" => IOsCounted /\ CopiesAgree

\* paging-policy.py: OPT is optimal, and LRU inclusive.
BestPolicy == simulator = "paging-policy" => OptimalAndInclusive

\* schedular.py: the times add up, round robin is fair, and SJF the best order.
JobTimes == simulator = "schedular" => TimesAddUp

\* The four translations: no two addresses share a byte, and the page tables
\* describe the pages that were allocated until memory is full.
Translations == simulator = "translate" => NoAliases /\ FailsOnlyWhenFull

\* generator.py: every process waits for all its children.
AllReaped == simulator = "generator" => ChildrenReaped

=============================================================================
