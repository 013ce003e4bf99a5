------------------------------ MODULE JobSched -------------------------------
(***************************************************************************)
(* schedular.py: when the jobs of a list run, and their response,          *)
(* turnaround and waiting times.  An action runs one job for its time or   *)
(* for a quantum.  With -q 0 a round robin never ends, so that Quanta      *)
(* holds positive numbers.                                                 *)
(***************************************************************************)
EXTENDS Integers, Sequences, SequencesExt, FiniteSets, FiniteSetsExt

CONSTANTS
    MaxJobs, MaxLength,   \* bounds: jobs and the run time of each
    Quanta                \* -q

ASSUME JobAssumption == MaxJobs \in Nat /\ MaxLength \in Nat /\ Quanta \subseteq Nat \ {0}

VARIABLES
    jobs,       \* policy, quantum and the run time of each job
    runlist,    \* [jobnum, runtime] in the order they are to run
    thetime,
    times       \* response, turnaround, wait and lastran of each job

jobVars == <<jobs, runlist, thetime, times>>

Policy == {"FIFO", "SJF", "RR"}

\* Jobs are made in the order of their numbers, and sorted is stable.
InOrder(policy, length) ==
    {order \in SetToSeqs(DOMAIN length) :
        \A k \in DOMAIN order : \A m \in 1 .. k - 1 :
            IF policy = "SJF" /\ length[order[m]] # length[order[k]]
            THEN length[order[m]] < length[order[k]] ELSE order[m] < order[k]}

JobInit ==
    \E policy \in Policy, quantum \in Quanta, n \in 1 .. MaxJobs :
        \E length \in [1 .. n -> 1 .. MaxLength] :
            /\ jobs = [policy |-> policy, quantum |-> quantum, length |-> length]
            /\ runlist \in {[k \in 1 .. n |-> [jobnum |-> order[k], runtime |-> length[order[k]]]] :
                              order \in InOrder(policy, length)}
            /\ thetime = 0
            /\ times = [response   |-> [j \in 1 .. n |-> -1],
                        turnaround |-> [j \in 1 .. n |-> 0],
                        wait       |-> [j \in 1 .. n |-> 0],
                        lastran    |-> [j \in 1 .. n |-> 0]]

\* A job that runs to its end.
Completes(job) ==
    /\ runlist' = Tail(runlist)
    /\ thetime' = thetime + job.runtime
    /\ times' = [times EXCEPT
            !.response[job.jobnum]   = IF @ = -1 THEN thetime ELSE @,
            !.wait[job.jobnum]       = @ + (thetime - times.lastran[job.jobnum]),
            !.turnaround[job.jobnum] = thetime',
            !.lastran[job.jobnum]    = thetime']

\* Mutant: the job goes on at once.
Preempted_goesOn(job) ==
    /\ runlist' = <<[job EXCEPT !.runtime = @ - jobs.quantum]>> \o Tail(runlist)
    /\ thetime' = thetime + jobs.quantum
    /\ times' = [times EXCEPT
            !.response[job.jobnum] = IF @ = -1 THEN thetime ELSE @,
            !.wait[job.jobnum]     = @ + (thetime - times.lastran[job.jobnum]),
            !.lastran[job.jobnum]  = thetime']

\* Round robin: a job that takes more than a quantum goes to the end of the list.
Preempted(job) ==
    /\ runlist' = Append(Tail(runlist), [job EXCEPT !.runtime = @ - jobs.quantum])
    /\ thetime' = thetime + jobs.quantum
    /\ times' = [times EXCEPT
            !.response[job.jobnum] = IF @ = -1 THEN thetime ELSE @,
            !.wait[job.jobnum]     = @ + (thetime - times.lastran[job.jobnum]),
            !.lastran[job.jobnum]  = thetime']

RunJob ==
    /\ runlist # <<>>
    /\ IF jobs.policy = "RR" /\ Head(runlist).runtime > jobs.quantum
       THEN Preempted(Head(runlist))
       ELSE Completes(Head(runlist))
    /\ UNCHANGED jobs

JobsFinished == runlist = <<>> /\ UNCHANGED jobVars

-----------------------------------------------------------------------------
Jobs == DOMAIN jobs.length

Left(j)   == MapThenSumSet(LAMBDA k : IF runlist[k].jobnum = j THEN runlist[k].runtime ELSE 0,
                           DOMAIN runlist)
ServiceOf(j) == jobs.length[j] - Left(j)

TotalTurnaround == MapThenSumSet(LAMBDA j : times.turnaround[j], Jobs)

\* The sum of the turnaround times when the jobs run in the order p.
TotalIn(p) == MapThenSumSet(LAMBDA i : (Len(p) - i + 1) * jobs.length[p[i]], DOMAIN p)

\* A job's time goes into running and waiting and nothing else; of two jobs that
\* are not done, round robin has given neither more than a quantum above the
\* other; and no order of the jobs has a smaller sum of turnaround times than
\* shortest job first.
TimesAddUp ==
    /\ \A j \in Jobs : times.lastran[j] = times.wait[j] + ServiceOf(j)
    /\ jobs.policy = "RR" =>
         \A i, j \in Jobs : Left(i) > 0 /\ Left(j) > 0 => ServiceOf(i) - ServiceOf(j) <= jobs.quantum
    /\ runlist = <<>> =>
         /\ times.turnaround = times.lastran
         /\ jobs.policy = "SJF" => \A p \in SetToSeqs(Jobs) : TotalTurnaround <= TotalIn(p)
=============================================================================
