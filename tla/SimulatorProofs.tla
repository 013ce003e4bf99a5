--------------------------- MODULE SimulatorProofs ---------------------------
(***************************************************************************)
(* Proofs about the simulators written in Python, for every value of the   *)
(* constants: process-run.py keeps its table, its cpu and its switches in  *)
(* order; in paging-policy.py OPT is optimal and LRU inclusive; fork.py    *)
(* keeps a tree; the four translations keep addresses apart; raid.py keeps *)
(* blocks and parity apart and the parity right; malloc.py tiles the heap; *)
(* disk.py serves all requests; schedular.py adds its times up. Each has   *)
(* an invariant of its own, those of generator.py, raid-graphics.py and    *)
(* the estimates of disk.py in ForkDiskProofs; the last section puts them  *)
(* together for a run of any.                                              *)
(***************************************************************************)
EXTENDS Simulators, ForkDiskProofs, WellFoundedInduction, FiniteSetTheorems, SequenceTheorems, TLAPS

USE ProcAssumption

-----------------------------------------------------------------------------
(* process-run.py.                                                         *)

States == {"RUNNING", "READY", "WAIT", "DONE"}

Scheds == [state : [Procs -> States], curr : Procs, ok : {TRUE}]

LEMMA Move ==
    ASSUME NEW s \in Scheds, NEW pid \in Procs, NEW state \in States
    PROVE  LET m == move(s, pid, s.state[pid], state)
           IN  /\ m \in Scheds
               /\ m.state = [s.state EXCEPT ![pid] = state]
               /\ m.curr = s.curr
BY DEF move, Scheds

LEMMA RunProc ==
    ASSUME NEW s \in Scheds, NEW pid \in Procs, s.state[pid] = "READY"
    PROVE  /\ run_proc(s, pid) \in Scheds
           /\ run_proc(s, pid).state = [s.state EXCEPT ![pid] = "RUNNING"]
           /\ run_proc(s, pid).curr = pid
<1> DEFINE m == move(s, pid, s.state[pid], "RUNNING")
<1>1. /\ m \in Scheds
      /\ m.state = [s.state EXCEPT ![pid] = "RUNNING"]
      /\ m.curr = s.curr
  BY Move DEF States
<1>2. run_proc(s, pid) = [m EXCEPT !.curr = pid]
  BY DEF run_proc
<1> HIDE DEF m
<1> QED
  BY <1>1, <1>2 DEF Scheds

\* Only the current process runs.
Single(s) == \A p \in Procs : s.state[p] = "RUNNING" => p = s.curr

Same(s, r, what) == \A p \in Procs : s.state[p] = what <=> r.state[p] = what

LEMMA NextProc ==
    ASSUME NEW s \in Scheds, \A p \in Procs : s.state[p] # "RUNNING", s.state[s.curr] # "READY"
    PROVE  LET n == next_proc(s)
           IN  /\ n \in Scheds /\ Single(n)
               /\ Ready(n) # {} => n.state[n.curr] = "RUNNING"
               /\ Same(s, n, "WAIT") /\ Same(s, n, "DONE")
               /\ n = s \/ (n.state[n.curr] = "RUNNING" /\ n.curr # s.curr)
<1>1. CASE Ready(s) = {}
  <2>1. next_proc(s) = s
    BY <1>1 DEF next_proc
  <2> QED
    BY <1>1, <2>1 DEF Ready, Single, Same
<1>2. CASE Ready(s) # {}
  <2> DEFINE distance(p) == (p - s.curr - 1) % NumProcs
             D == {distance(p) : p \in Ready(s)}
             q == CHOOSE q \in Ready(s) : \A r \in Ready(s) : distance(q) <= distance(r)
  <2>1. \A p \in Procs : distance(p) \in Nat
    BY DEF Procs, Scheds
  <2>2. D \in SUBSET Nat /\ D # {}
    BY <1>2, <2>1 DEF Ready
  <2>3. PICK x \in D : \A y \in D : x <= y
    <3> HIDE DEF D
    <3> QED BY <2>2, LeastExists
  <2>4. \E p \in Ready(s) : \A r \in Ready(s) : distance(p) <= distance(r)
    BY <2>3
  <2>5. q \in Ready(s)
    <3> HIDE DEF distance
    <3> QED BY <2>4
  <2>6. next_proc(s) = run_proc(s, q)
    BY <1>2 DEF next_proc
  <2> HIDE DEF q, D, distance
  <2>7. q \in Procs /\ s.state[q] = "READY"
    BY <2>5 DEF Ready
  <2>8. /\ run_proc(s, q) \in Scheds
        /\ run_proc(s, q).state = [s.state EXCEPT ![q] = "RUNNING"]
        /\ run_proc(s, q).curr = q
    BY <2>7, RunProc
  <2> DEFINE n == run_proc(s, q)
  <2> HIDE DEF n
  <2>9. n \in Scheds /\ n.state = [s.state EXCEPT ![q] = "RUNNING"] /\ n.curr = q
    BY <2>8 DEF n
  <2>10. s.state \in [Procs -> States]
    BY DEF Scheds
  <2>11. n.state[q] = "RUNNING" /\ \A p \in Procs \ {q} : n.state[p] = s.state[p]
    BY <2>7, <2>9, <2>10
  <2> QED
    BY <2>6, <2>7, <2>9, <2>11 DEF Single, Same, n
<1> QED
  BY <1>1, <1>2

\* No process is ready beside a cpu that is idle.
CpuUsed(s) == Ready(s) # {} => s.state[s.curr] = "RUNNING"

LEMMA CheckIfDone ==
    ASSUME NEW s \in Scheds, NEW c, Single(s)
    PROVE  LET r == check_if_done(s, c)
           IN  /\ r \in Scheds /\ Single(r)
               /\ CpuUsed(s) => CpuUsed(r)
               /\ Same(s, r, "WAIT")
               /\ \A p \in Procs : s.state[p] = "DONE" => r.state[p] = "DONE"
               /\ c[s.curr] # <<>> \/ s.state[s.curr] # "RUNNING" => r = s
               /\ r.curr # s.curr => r.state[s.curr] = "DONE"
<1> DEFINE r == check_if_done(s, c)
<1>1. s.curr \in Procs /\ s.state \in [Procs -> States]
  BY DEF Scheds
<1>2. CASE c[s.curr] = <<>> /\ s.state[s.curr] = "RUNNING"
  <2> DEFINE m == move(s, s.curr, s.state[s.curr], "DONE")
  <2>1. r = next_proc(m)
    BY <1>2 DEF check_if_done
  <2>2. m \in Scheds /\ m.state = [s.state EXCEPT ![s.curr] = "DONE"] /\ m.curr = s.curr
    BY <1>1, Move DEF States
  <2> HIDE DEF m
  <2>3. m.state[s.curr] = "DONE" /\ \A p \in Procs \ {s.curr} : m.state[p] = s.state[p]
    BY <1>1, <2>2
  <2>4. \A p \in Procs : m.state[p] # "RUNNING"
    BY <2>3 DEF Single
  <2>5. /\ r \in Scheds /\ Single(r)
        /\ Ready(r) # {} => r.state[r.curr] = "RUNNING"
        /\ Same(m, r, "WAIT") /\ Same(m, r, "DONE")
    <3>1. m.state[m.curr] # "READY"
      BY <2>2, <2>3
    <3> QED
      BY <2>1, <2>2, <2>4, <3>1, NextProc
  <2>6. Same(s, m, "WAIT")
    BY <1>2, <2>3 DEF Same
  <2> HIDE DEF r
  <2>7. r.state[s.curr] = "DONE"
    BY <1>1, <2>3, <2>5 DEF Same
  <2>8. \A p \in Procs : s.state[p] = "DONE" => r.state[p] = "DONE"
    BY <2>3, <2>5 DEF Same
  <2> QED
    BY <1>2, <2>5, <2>6, <2>7, <2>8 DEF r, Same, CpuUsed
<1>3. CASE ~ (c[s.curr] = <<>> /\ s.state[s.curr] = "RUNNING")
  <2>1. r = s
    BY <1>3 DEF check_if_done
  <2> QED
    BY <2>1, <1>3 DEF Same
<1> QED
  BY <1>2, <1>3

-----------------------------------------------------------------------------
ProcTypes ==
    /\ mode \in Modes
    /\ code \in [Procs -> Seq({"cpu", "io"})]
    /\ sched \in Scheds
    /\ due \in [Procs -> SUBSET Nat]

\* A process has one I/O at a time, of which no more than io_length ticks are left,
\* and no two I/Os have the same number of ticks left.
OneEach ==
    /\ \A p \in Procs : \A u, w \in due[p] : u = w
    /\ \A p, q \in Procs : \A u \in due[p] \cap due[q] : p = q
    /\ \A p \in Procs : due[p] \subseteq IF mode.io_length = 0 THEN {0} ELSE 1 .. mode.io_length

WaitsForIO == mode.io_length > 0 => \A p \in Procs : sched.state[p] = "WAIT" <=> due[p] # {}

\* With SWITCH_ON_END only the current process waits.
WaitsInPlace == mode.switch = "ON_END" => \A p \in Procs : sched.state[p] = "WAIT" => p = sched.curr

ProcInv ==
    /\ ProcTypes
    /\ Single(sched)
    /\ mode.switch = "ON_IO" => CpuUsed(sched)
    /\ WaitsForIO
    /\ WaitsInPlace
    /\ OneEach

LEMMA NumRunnable ==
    ASSUME NEW s, NEW p \in Procs, s.state[p] \in {"READY", "RUNNING"}
    PROVE  num_runnable(s) = 1 <=> \A q \in Procs \ {p} : s.state[q] \notin {"READY", "RUNNING"}
<1> DEFINE R == {q \in Procs : s.state[q] \in {"READY", "RUNNING"}}
<1>1. IsFiniteSet(R)
  <2>1. IsFiniteSet(Procs)
    BY FS_Interval DEF Procs
  <2> QED
    BY <2>1, FS_Subset
<1>2. p \in R
  OBVIOUS
<1> HIDE DEF R
<1>3. Cardinality(R) = 1 <=> R = {p}
  BY <1>1, <1>2, FS_Singleton
<1>4. R = {p} <=> \A q \in Procs \ {p} : s.state[q] \notin {"READY", "RUNNING"}
  BY <1>2 DEF R
<1> QED
  BY <1>3, <1>4 DEF num_runnable, R

LEMMA Immediately ==
    ASSUME NEW s \in Scheds, Single(s), NEW p \in Procs, s.state[p] = "READY"
    PROVE  LET r == RunImmediately(s, p)
           IN  /\ r \in Scheds /\ Single(r) /\ CpuUsed(r)
               /\ Same(s, r, "WAIT")
               /\ r.curr = p /\ r.state[p] = "RUNNING"
<1> DEFINE m == IF s.curr # p /\ s.state[s.curr] = "RUNNING"
                THEN move(s, s.curr, s.state[s.curr], "READY") ELSE s
           r == run_proc(m, p)
<1>1. RunImmediately(s, p) = r
  BY DEF RunImmediately
<1>2. s.curr \in Procs /\ s.state \in [Procs -> States]
  BY DEF Scheds
<1>3. /\ m \in Scheds /\ m.state[p] = "READY"
      /\ \A q \in Procs : m.state[q] # "RUNNING"
      /\ Same(s, m, "WAIT")
  <2>1. CASE s.curr # p /\ s.state[s.curr] = "RUNNING"
    <3>1. m \in Scheds /\ m.state = [s.state EXCEPT ![s.curr] = "READY"]
      BY <1>2, <2>1, Move DEF States
    <3> HIDE DEF m
    <3>2. m.state[s.curr] = "READY" /\ \A q \in Procs \ {s.curr} : m.state[q] = s.state[q]
      BY <1>2, <3>1
    <3> QED
      BY <2>1, <3>1, <3>2 DEF Single, Same
  <2>2. CASE ~ (s.curr # p /\ s.state[s.curr] = "RUNNING")
    <3>1. m = s
      BY <2>2
    <3> QED
      BY <2>2, <3>1 DEF Single, Same
  <2> QED
    BY <2>1, <2>2
<1> HIDE DEF m
<1>4. r \in Scheds /\ r.state = [m.state EXCEPT ![p] = "RUNNING"] /\ r.curr = p
  BY <1>3, RunProc
<1> HIDE DEF r
<1>5. r.state[p] = "RUNNING" /\ \A q \in Procs \ {p} : r.state[q] = m.state[q]
  BY <1>3, <1>4 DEF Scheds
<1> QED
  BY <1>1, <1>3, <1>4, <1>5 DEF Single, Same, CpuUsed

LEMMA RunAlone ==
    ASSUME NEW s \in Scheds, NEW p \in Procs, s.state[p] = "READY",
           \A q \in Procs : s.state[q] # "RUNNING"
    PROVE  LET r == run_proc(s, p)
           IN  /\ r \in Scheds /\ Single(r) /\ CpuUsed(r)
               /\ Same(s, r, "WAIT")
               /\ r.curr = p /\ r.state[p] = "RUNNING"
<1> DEFINE r == run_proc(s, p)
<1>1. r \in Scheds /\ r.state = [s.state EXCEPT ![p] = "RUNNING"] /\ r.curr = p
  BY RunProc
<1> HIDE DEF r
<1>2. r.state[p] = "RUNNING" /\ \A q \in Procs \ {p} : r.state[q] = s.state[q]
  BY <1>1 DEF Scheds
<1> QED
  BY <1>1, <1>2 DEF r, Single, Same, CpuUsed

LEMMA IoDoneLater ==
    ASSUME NEW s \in Scheds, Single(s), NEW p \in Procs, s.state[p] = "READY", mode \in Modes,
           mode.switch = "ON_IO" => Ready(s) = {p} \/ s.state[s.curr] = "RUNNING",
           mode.switch = "ON_END" => s.curr = p
    PROVE  LET r == RunLater(s, p)
           IN  /\ r \in Scheds /\ Single(r)
               /\ mode.switch = "ON_IO" => CpuUsed(r)
               /\ Same(s, r, "WAIT")
               /\ s.state[s.curr] = "RUNNING" => r = s
               /\ mode.switch = "ON_END" => r.curr = p
<1> DEFINE w == run_proc(s, p)
           r == RunLater(s, p)
           others == {q \in Procs \ {p} : s.state[q] \in {"READY", "RUNNING"}}
<1>1. num_runnable(s) = 1 <=> others = {}
  BY NumRunnable
<1>2. s.curr \in Procs
  BY DEF Scheds
<1>3. CASE mode.switch = "ON_END"
  <2>1. \A q \in Procs : s.state[q] # "RUNNING"
    BY <1>3 DEF Single
  <2>2. w \in Scheds /\ Single(w) /\ CpuUsed(w) /\ Same(s, w, "WAIT") /\ w.curr = p /\ w.state[p] = "RUNNING"
    BY <2>1, RunAlone
  <2>3. w.state = [s.state EXCEPT ![p] = "RUNNING"]
    BY RunProc
  <2> HIDE DEF w
  <2>4. num_runnable(w) = 1 <=> num_runnable(s) = 1
    <3>1. num_runnable(w) = 1 <=> \A q \in Procs \ {p} : w.state[q] \notin {"READY", "RUNNING"}
      BY <2>2, NumRunnable
    <3>2. \A q \in Procs \ {p} : w.state[q] = s.state[q]
      BY <2>3 DEF Scheds
    <3> QED
      BY <1>1, <3>1, <3>2
  <2>5. r \in {s, w}
    BY <1>3, <2>4 DEF RunLater, w
  <2> HIDE DEF r
  <2> QED
    BY <1>3, <2>1, <2>2, <2>5, <1>2 DEF r, Same
<1>4. CASE mode.switch = "ON_IO"
  <2>1. r = IF num_runnable(s) = 1 THEN w ELSE s
    BY <1>4 DEF RunLater
  <2>2. CASE others = {}
    <3>1. \A q \in Procs : s.state[q] # "RUNNING"
      BY <2>2
    <3>2. w \in Scheds /\ Single(w) /\ CpuUsed(w) /\ Same(s, w, "WAIT") /\ w.curr = p /\ w.state[p] = "RUNNING"
      BY <3>1, RunAlone
    <3> HIDE DEF w, r
    <3> QED
      BY <1>1, <1>2, <1>4, <2>1, <2>2, <3>1, <3>2 DEF r
  <2>3. CASE others # {}
    <3>1. r = s
      BY <1>1, <2>1, <2>3
    <3>2. s.state[s.curr] = "RUNNING"
      BY <1>4, <2>3 DEF Ready, Single
    <3> HIDE DEF r
    <3> QED
      BY <1>4, <3>1, <3>2 DEF r, CpuUsed, Same
  <2> QED
    BY <2>2, <2>3
<1> QED
  BY <1>3, <1>4 DEF Modes

LEMMA IoDone ==
    ASSUME ProcInv, NEW p \in Procs, Finishing(p)
    PROVE  LET w == io_done(sched, p)
           IN  /\ w \in Scheds /\ Single(w)
               /\ mode.switch = "ON_IO" => CpuUsed(w)
               /\ w.state[p] # "WAIT"
               /\ \A q \in Procs \ {p} : w.state[q] = "WAIT" <=> sched.state[q] = "WAIT"
               /\ mode.switch = "ON_END" => /\ \A q \in Procs : w.state[q] # "WAIT"
                                            /\ w.curr # sched.curr => w.state[sched.curr] = "DONE"
               /\ mode.iodone = "IMMEDIATE" /\ code[p] # <<>> => w.curr = p /\ w.state[p] = "RUNNING"
               /\ mode.iodone = "LATER" /\ sched.state[sched.curr] = "RUNNING" /\ code[sched.curr] # <<>> =>
                      w.curr = sched.curr /\ w.state[w.curr] = "RUNNING"
<1> DEFINE ready == move(sched, p, sched.state[p], "READY")
           r == IF mode.iodone = "IMMEDIATE" THEN RunImmediately(ready, p) ELSE RunLater(ready, p)
           w == check_if_done(r, code)
<1>1. sched \in Scheds /\ mode \in Modes /\ Single(sched) /\ (mode.switch = "ON_IO" => CpuUsed(sched))
  BY DEF ProcInv, ProcTypes
<1>2. sched.state[p] = "WAIT"
  BY DEF ProcInv, WaitsForIO, OneEach, Finishing, ProcTypes, Modes
<1>3. io_done(sched, p) = w
  BY <1>2 DEF io_done
<1>4. ready \in Scheds /\ ready.state = [sched.state EXCEPT ![p] = "READY"] /\ ready.curr = sched.curr
  BY <1>1, Move DEF States
<1> HIDE DEF ready
<1>5. ready.state[p] = "READY" /\ \A q \in Procs \ {p} : ready.state[q] = sched.state[q]
  BY <1>1, <1>4 DEF Scheds
<1>6. Single(ready)
  BY <1>1, <1>4, <1>5 DEF Single
<1>7. sched.curr \in Procs /\ (sched.state[sched.curr] = "RUNNING" <=> ready.state[ready.curr] = "RUNNING")
  BY <1>1, <1>2, <1>4, <1>5 DEF Scheds
<1>8. mode.switch = "ON_END" => ready.curr = p
  BY <1>2, <1>4 DEF ProcInv, WaitsInPlace
<1>9. /\ r \in Scheds /\ Single(r)
      /\ mode.switch = "ON_IO" => CpuUsed(r)
      /\ Same(ready, r, "WAIT")
      /\ mode.switch = "ON_END" => r.curr = p
      /\ mode.iodone = "IMMEDIATE" => r.curr = p /\ r.state[p] = "RUNNING"
      /\ mode.iodone = "LATER" /\ ready.state[ready.curr] = "RUNNING" => r = ready
  <2>1. CASE mode.iodone = "IMMEDIATE"
    BY <1>4, <1>5, <1>6, <2>1, Immediately
  <2>2. CASE mode.iodone = "LATER"
    <3>1. mode.switch = "ON_IO" => Ready(ready) = {p} \/ ready.state[ready.curr] = "RUNNING"
      BY <1>1, <1>5, <1>7 DEF CpuUsed, Ready
    <3>2. r = RunLater(ready, p)
      BY <2>2
    <3> HIDE DEF r
    <3> QED
      BY <1>1, <1>4, <1>5, <1>6, <1>8, <2>2, <3>1, <3>2, IoDoneLater
  <2> QED
    BY <1>1, <2>1, <2>2 DEF Modes
<1> HIDE DEF r
<1>10. /\ w \in Scheds /\ Single(w)
       /\ CpuUsed(r) => CpuUsed(w)
       /\ Same(r, w, "WAIT")
       /\ code[r.curr] # <<>> \/ r.state[r.curr] # "RUNNING" => w = r
       /\ w.curr # r.curr => w.state[r.curr] = "DONE"
  BY <1>9, CheckIfDone
<1> HIDE DEF w
<1>11. w.state[p] # "WAIT" /\ \A q \in Procs \ {p} : w.state[q] = "WAIT" <=> sched.state[q] = "WAIT"
  BY <1>5, <1>9, <1>10 DEF Same
<1>12. ASSUME mode.switch = "ON_END"
       PROVE  /\ \A q \in Procs : w.state[q] # "WAIT"
              /\ w.curr # sched.curr => w.state[sched.curr] = "DONE"
  <2>1. \A q \in Procs \ {p} : sched.state[q] # "WAIT"
    BY <1>12, <1>8, <1>4 DEF ProcInv, WaitsInPlace
  <2> QED
    BY <1>12, <2>1, <1>11, <1>8, <1>9, <1>10, <1>4
<1>13. ASSUME mode.iodone = "LATER", sched.state[sched.curr] = "RUNNING", code[sched.curr] # <<>>
       PROVE  w.curr = sched.curr /\ w.state[w.curr] = "RUNNING"
  BY <1>13, <1>4, <1>7, <1>9, <1>10
<1>14. ASSUME mode.iodone = "IMMEDIATE", code[p] # <<>>
       PROVE  w.curr = p /\ w.state[p] = "RUNNING"
  BY <1>14, <1>9, <1>10
<1> QED
  BY <1>3, <1>9, <1>10, <1>11, <1>12, <1>13, <1>14

\* No two I/Os finish at one tick, so that the loop changes sched for one process
\* at most.
LEMMA WokenIs ==
    ASSUME ProcInv
    PROVE  IF \E p \in Procs : Finishing(p)
           THEN \E p \in Procs : Finishing(p) /\ Woken = io_done(sched, p)
           ELSE Woken = sched
<1> DEFINE P == CHOOSE p \in Procs : Finishing(p)
           g == [n \in 0 .. NumProcs |->
                   IF \E p \in Procs : Finishing(p) /\ p < n THEN io_done(sched, P) ELSE sched]
           IsLoop(f) == f = [n \in 0 .. NumProcs |->
                               IF n = 0 THEN sched
                               ELSE IF Finishing(n - 1) THEN io_done(f[n - 1], n - 1) ELSE f[n - 1]]
           after == CHOOSE f : IsLoop(f)
<1>1. \A p, q \in Procs : Finishing(p) /\ Finishing(q) => p = q
  BY DEF ProcInv, OneEach, Finishing
<1>2. \A p \in Procs : Finishing(p) => p = P
  BY <1>1
<1>3. ASSUME NEW n \in 1 .. NumProcs
      PROVE  g[n] = IF Finishing(n - 1) THEN io_done(g[n - 1], n - 1) ELSE g[n - 1]
  <2>1. n - 1 \in Procs /\ n \in 0 .. NumProcs /\ n - 1 \in 0 .. NumProcs
    BY DEF Procs
  <2>2. CASE Finishing(n - 1)
    <3>1. P = n - 1
      BY <1>2, <2>1, <2>2
    <3>2. ~ \E p \in Procs : Finishing(p) /\ p < n - 1
      BY <1>1, <2>1, <2>2
    <3>3. \E p \in Procs : Finishing(p) /\ p < n
      BY <2>1, <2>2
    <3> HIDE DEF P
    <3> QED
      BY <2>1, <2>2, <3>1, <3>2, <3>3
  <2>3. CASE ~ Finishing(n - 1)
    <3>1. (\E p \in Procs : Finishing(p) /\ p < n) <=> \E p \in Procs : Finishing(p) /\ p < n - 1
      <4>1. ASSUME NEW p \in Procs, Finishing(p), p < n PROVE p < n - 1
        BY <2>1, <2>3, <4>1 DEF Procs
      <4> QED
        BY <2>1, <4>1 DEF Procs
    <3> HIDE DEF P
    <3> QED
      BY <2>1, <2>3, <3>1
  <2> QED
    BY <2>2, <2>3
<1>4. g[0] = sched
  BY DEF Procs
<1>5. IsLoop(g)
  <2>1. g = [n \in 0 .. NumProcs |-> g[n]]
    OBVIOUS
  <2> HIDE DEF g
  <2>2. ASSUME NEW n \in 0 .. NumProcs
        PROVE  g[n] = IF n = 0 THEN sched
                      ELSE IF Finishing(n - 1) THEN io_done(g[n - 1], n - 1) ELSE g[n - 1]
    <3>1. n = 0 \/ n \in 1 .. NumProcs
      OBVIOUS
    <3> QED
      BY <3>1, <1>3, <1>4
  <2> QED
    BY <2>1, <2>2, Zenon
<1>6. IsLoop(after)
  <2> HIDE DEF IsLoop
  <2> QED BY <1>5
<1>7. Woken = after[NumProcs]
  BY DEF Woken
<1> HIDE DEF after
<1>8. \A n \in 0 .. NumProcs : after[n] = g[n]
  <2> DEFINE Bad == {n \in 0 .. NumProcs : after[n] # g[n]}
  <2> SUFFICES ASSUME Bad # {} PROVE FALSE
    OBVIOUS
  <2>1. PICK m \in Bad : \A y \in Bad : m <= y
    <3>1. Bad \in SUBSET Nat
      OBVIOUS
    <3> HIDE DEF Bad
    <3> QED BY <3>1, LeastExists
  <2> HIDE DEF g
  <2>2. m # 0
    BY <1>4, <1>6, <2>1
  <2>3. m \in 1 .. NumProcs /\ m - 1 \in 0 .. NumProcs /\ m - 1 \notin Bad
    BY <2>1, <2>2
  <2>4. after[m - 1] = g[m - 1]
    BY <2>3
  <2>5. after[m] = IF Finishing(m - 1) THEN io_done(after[m - 1], m - 1) ELSE after[m - 1]
    BY <1>6, <2>2, <2>3
  <2> QED
    BY <1>3, <2>1, <2>3, <2>4, <2>5
<1>9. Woken = g[NumProcs]
  <2> HIDE DEF g
  <2> QED BY <1>7, <1>8
<1>10. CASE \E p \in Procs : Finishing(p)
  <2>1. P \in Procs /\ Finishing(P)
    BY <1>10
  <2> HIDE DEF P
  <2>2. P < NumProcs
    BY <2>1 DEF Procs
  <2>3. g[NumProcs] = io_done(sched, P)
    BY <2>1, <2>2
  <2> QED
    BY <1>9, <1>10, <2>1, <2>3
<1>11. CASE ~ \E p \in Procs : Finishing(p)
  BY <1>9, <1>11
<1> QED
  BY <1>10, <1>11

\* The loop over the processes wakes the one whose I/O finishes, if there is one.
LEMMA WokenHolds ==
    ASSUME ProcInv
    PROVE  /\ Woken \in Scheds /\ Single(Woken)
           /\ mode.switch = "ON_IO" => CpuUsed(Woken)
           /\ \A p \in Procs : Woken.state[p] = "WAIT" <=> sched.state[p] = "WAIT" /\ ~Finishing(p)
           /\ mode.switch = "ON_END" =>
                /\ \A p \in Procs : Woken.state[p] = "WAIT" => p = Woken.curr
                /\ Woken.curr # sched.curr => Woken.state[sched.curr] = "DONE"
           /\ mode.iodone = "IMMEDIATE" =>
                \A p \in Procs : Finishing(p) /\ code[p] # <<>> => Woken.curr = p /\ Woken.state[p] = "RUNNING"
           /\ mode.iodone = "LATER" /\ sched.state[sched.curr] = "RUNNING" /\ code[sched.curr] # <<>> =>
                Woken.curr = sched.curr /\ Woken.state[Woken.curr] = "RUNNING"
<1>1. CASE \E p \in Procs : Finishing(p)
  <2>1. PICK p \in Procs : Finishing(p) /\ Woken = io_done(sched, p)
    BY <1>1, WokenIs
  <2>2. \A q \in Procs : Finishing(q) => q = p
    BY <2>1 DEF ProcInv, OneEach, Finishing
  <2> DEFINE w == io_done(sched, p)
  <2>3. /\ w \in Scheds /\ Single(w)
        /\ mode.switch = "ON_IO" => CpuUsed(w)
        /\ w.state[p] # "WAIT"
        /\ \A q \in Procs \ {p} : w.state[q] = "WAIT" <=> sched.state[q] = "WAIT"
        /\ mode.switch = "ON_END" => /\ \A q \in Procs : w.state[q] # "WAIT"
                                     /\ w.curr # sched.curr => w.state[sched.curr] = "DONE"
        /\ mode.iodone = "IMMEDIATE" /\ code[p] # <<>> => w.curr = p /\ w.state[p] = "RUNNING"
        /\ mode.iodone = "LATER" /\ sched.state[sched.curr] = "RUNNING" /\ code[sched.curr] # <<>> =>
               w.curr = sched.curr /\ w.state[w.curr] = "RUNNING"
    BY <2>1, IoDone
  <2> HIDE DEF w
  <2> QED
    BY <2>1, <2>2, <2>3 DEF w
<1>2. CASE ~ \E p \in Procs : Finishing(p)
  <2>1. Woken = sched
    BY <1>2, WokenIs
  <2> QED
    BY <1>2, <2>1 DEF ProcInv, ProcTypes, WaitsInPlace
<1> QED
  BY <1>1, <1>2

\* At most one I/O is as long as io_length, the one that is issued.
LEMMA AgedIs ==
    ASSUME ProcInv
    PROVE  /\ Aged \in [Procs -> SUBSET Nat]
           /\ \A p \in Procs : \A u, w \in Aged[p] : u = w
           /\ \A p, q \in Procs : \A u \in Aged[p] \cap Aged[q] : p = q
           /\ \A p \in Procs : Aged[p] \subseteq 1 .. mode.io_length - 1
           /\ mode.io_length > 0 => \A p \in Procs : Aged[p] = {} <=> due[p] = {} \/ Finishing(p)
<1>1. mode.io_length \in Nat /\ due \in [Procs -> SUBSET Nat]
  BY DEF ProcInv, ProcTypes, Modes
<1>2. ASSUME NEW p \in Procs PROVE Aged[p] = {t - 1 : t \in {u \in due[p] : u > 1}}
  BY DEF Aged
<1>3. ASSUME NEW p \in Procs, NEW u \in Aged[p] PROVE u \in Nat /\ u + 1 \in due[p] /\ u > 0
  BY <1>1, <1>2
<1>4. ASSUME NEW p \in Procs PROVE Aged[p] \subseteq 1 .. mode.io_length - 1
  BY <1>1, <1>3 DEF ProcInv, OneEach
<1>5. ASSUME NEW p \in Procs, NEW u \in Aged[p], NEW w \in Aged[p] PROVE u = w
  <2>1. u + 1 = w + 1
    BY <1>3 DEF ProcInv, OneEach
  <2> QED
    BY <2>1, <1>3
<1>6. ASSUME NEW p \in Procs, NEW q \in Procs, NEW u \in Aged[p] \cap Aged[q] PROVE p = q
  BY <1>3 DEF ProcInv, OneEach
<1>7. ASSUME mode.io_length > 0, NEW p \in Procs PROVE Aged[p] = {} <=> due[p] = {} \/ Finishing(p)
  <2>1. due[p] \subseteq 1 .. mode.io_length
    BY <1>7, <1>1 DEF ProcInv, OneEach
  <2>2. Aged[p] # {} => due[p] # {} /\ ~Finishing(p)
    BY <1>3 DEF Finishing, ProcInv, OneEach
  <2>3. ASSUME due[p] # {}, ~Finishing(p) PROVE Aged[p] # {}
    <3>1. PICK u \in due[p] : u > 1
      BY <1>1, <2>1, <2>3 DEF Finishing
    <3>2. u - 1 \in Aged[p]
      BY <1>2, <3>1
    <3> QED
      BY <3>2
  <2> QED
    BY <2>2, <2>3
<1>8. Aged \in [Procs -> SUBSET Nat]
  <2>1. \A p \in Procs : Aged[p] \in SUBSET Nat
    BY <1>3
  <2>2. Aged = [p \in Procs |-> {t - 1 : t \in {u \in due[p] : u > 1}}]
    BY DEF Aged
  <2>3. Aged = [p \in Procs |-> Aged[p]]
    BY <2>2, Zenon
  <2> QED
    BY <2>1, <2>3
<1> QED
  BY <1>4, <1>5, <1>6, <1>7, <1>8

LEMMA ProcInitHolds == ProcInit => ProcInv
<1> SUFFICES ASSUME ProcInit PROVE ProcInv
  OBVIOUS
<1>1. 0 \in Procs
  BY DEF Procs
<1>2. code \in [Procs -> Seq({"cpu", "io"})]
  BY DEF ProcInit, SeqOf
<1>3. sched \in Scheds /\ mode \in Modes /\ due \in [Procs -> SUBSET Nat]
  BY <1>1 DEF ProcInit, Scheds, States
<1>4. /\ sched.curr = 0 /\ sched.state[0] = "RUNNING"
      /\ \A p \in Procs \ {0} : sched.state[p] = "READY"
      /\ \A p \in Procs : due[p] = {}
  BY <1>1 DEF ProcInit
<1> QED
  BY <1>1, <1>2, <1>3, <1>4 DEF ProcInv, ProcTypes, Single, CpuUsed, WaitsForIO, WaitsInPlace, OneEach

\* The end of a tick: what check_if_done makes of y, where the process that was
\* current is done if another is.
LEMMA Settles ==
    ASSUME ProcInv, mode' = mode,
           NEW y \in Scheds, NEW c, sched' = check_if_done(y, c),
           Single(y), mode.switch = "ON_IO" => CpuUsed(y),
           mode.switch = "ON_END" =>
             /\ \A p \in Procs : y.state[p] = "WAIT" => p = y.curr
             /\ y.curr # sched.curr => y.state[sched.curr] = "DONE",
           mode.io_length > 0 => \A p \in Procs : y.state[p] = "WAIT" <=> due'[p] # {},
           code' \in [Procs -> Seq({"cpu", "io"})], due' \in [Procs -> SUBSET Nat], OneEach'
    PROVE  /\ ProcInv'
           /\ mode.switch = "ON_END" /\ sched'.curr # sched.curr => sched'.state[sched.curr] = "DONE"
<1> DEFINE r == check_if_done(y, c)
<1>1. /\ r \in Scheds /\ Single(r)
      /\ CpuUsed(y) => CpuUsed(r)
      /\ Same(y, r, "WAIT")
      /\ \A p \in Procs : y.state[p] = "DONE" => r.state[p] = "DONE"
      /\ r.curr # y.curr => r.state[y.curr] = "DONE"
  BY CheckIfDone
<1> HIDE DEF r
<1>2. sched' = r
  BY DEF r
<1>3. mode.switch = "ON_END" => \A p \in Procs : r.state[p] = "WAIT" => p = r.curr
  BY <1>1 DEF Same
<1>4. mode.io_length > 0 => \A p \in Procs : r.state[p] = "WAIT" <=> due'[p] # {}
  BY <1>1 DEF Same
<1>5. sched.curr \in Procs /\ mode \in Modes
  BY DEF ProcInv, ProcTypes, Scheds
<1>6. mode.switch = "ON_END" /\ r.curr # sched.curr => r.state[sched.curr] = "DONE"
  BY <1>1, <1>5
<1>7. Single(sched)' /\ (mode.switch = "ON_IO" => CpuUsed(sched))'
  BY <1>1, <1>2 DEF Single, CpuUsed, Ready
<1>8. ProcTypes' /\ WaitsForIO' /\ WaitsInPlace'
  BY <1>1, <1>2, <1>3, <1>4, <1>5 DEF ProcTypes, WaitsForIO, WaitsInPlace
<1> QED
  BY <1>2, <1>6, <1>7, <1>8 DEF ProcInv

LEMMA TickHolds ==
    ASSUME ProcInv, ProcTick PROVE ProcInv' /\ SwitchesAsAsked
<1> DEFINE w == Woken
<1>1. NothingRuns(w) \/ Compute(w) \/ IssueIO(w)
  BY DEF ProcTick
<1>2. /\ w \in Scheds /\ Single(w)
      /\ mode.switch = "ON_IO" => CpuUsed(w)
      /\ \A p \in Procs : w.state[p] = "WAIT" <=> sched.state[p] = "WAIT" /\ ~Finishing(p)
      /\ mode.switch = "ON_END" =>
           /\ \A p \in Procs : w.state[p] = "WAIT" => p = w.curr
           /\ w.curr # sched.curr => w.state[sched.curr] = "DONE"
      /\ mode.iodone = "IMMEDIATE" =>
           \A p \in Procs : Finishing(p) /\ code[p] # <<>> => w.curr = p /\ w.state[p] = "RUNNING"
      /\ mode.iodone = "LATER" /\ sched.state[sched.curr] = "RUNNING" /\ code[sched.curr] # <<>> =>
           w.curr = sched.curr /\ w.state[w.curr] = "RUNNING"
  BY WokenHolds
<1> HIDE DEF w
<1>3. /\ Aged \in [Procs -> SUBSET Nat]
      /\ \A p \in Procs : \A u, v \in Aged[p] : u = v
      /\ \A p, q \in Procs : \A u \in Aged[p] \cap Aged[q] : p = q
      /\ \A p \in Procs : Aged[p] \subseteq 1 .. mode.io_length - 1
      /\ mode.io_length > 0 => \A p \in Procs : Aged[p] = {} <=> due[p] = {} \/ Finishing(p)
  BY AgedIs
<1>4. /\ mode.io_length \in Nat /\ code \in [Procs -> Seq({"cpu", "io"})]
      /\ w.curr \in Procs /\ w.state \in [Procs -> States]
  BY <1>2 DEF ProcInv, ProcTypes, Modes, Scheds
<1>5. mode.io_length > 0 => \A p \in Procs : w.state[p] = "WAIT" <=> Aged[p] # {}
  BY <1>2, <1>3 DEF ProcInv, WaitsForIO
<1>6. Executes(w) => pop(w) \in [Procs -> Seq({"cpu", "io"})]
  BY <1>4 DEF Executes, pop
<1>7. ASSUME due' = Aged, mode' = mode PROVE OneEach' /\ due' \in [Procs -> SUBSET Nat]
  BY <1>3, <1>4, <1>7 DEF OneEach
<1>8. ASSUME NothingRuns(w) \/ Compute(w), NEW c, sched' = check_if_done(w, c)
      PROVE  /\ ProcInv'
             /\ mode.switch = "ON_END" /\ sched'.curr # sched.curr => sched'.state[sched.curr] = "DONE"
  <2>1. due' = Aged /\ mode' = mode /\ code' \in [Procs -> Seq({"cpu", "io"})]
    BY <1>4, <1>6, <1>8 DEF NothingRuns, Compute, Tick
  <2> QED
    BY <1>2, <1>5, <1>7, <1>8, <2>1, Settles
<1>9. ASSUME IssueIO(w)
      PROVE  /\ ProcInv'
             /\ mode.switch = "ON_END" /\ sched'.curr # sched.curr => sched'.state[sched.curr] = "DONE"
  <2> DEFINE p == w.curr
             waits == move(w, p, w.state[p], "WAIT")
             y == IF mode.switch = "ON_IO" THEN next_proc(waits) ELSE waits
  <2>1. w.state[p] = "RUNNING" /\ Executes(w)
    BY <1>9 DEF IssueIO, Executes
  <2>2. /\ sched' = check_if_done(y, pop(w)) /\ mode' = mode /\ code' = pop(w)
        /\ due' = [Aged EXCEPT ![p] = @ \cup {mode.io_length}]
    BY <1>9, <2>1 DEF IssueIO, Tick
  <2>3. waits \in Scheds /\ waits.state = [w.state EXCEPT ![p] = "WAIT"] /\ waits.curr = p
    BY <1>2, <1>4, Move DEF States
  <2> HIDE DEF waits
  <2>4. waits.state[p] = "WAIT" /\ \A q \in Procs \ {p} : waits.state[q] = w.state[q]
    BY <1>4, <2>3
  <2>5. \A q \in Procs : waits.state[q] # "RUNNING"
    BY <1>2, <2>4 DEF Single
  <2>6. next_proc(waits) \in Scheds /\ Single(next_proc(waits)) /\ CpuUsed(next_proc(waits))
        /\ Same(waits, next_proc(waits), "WAIT")
    BY <2>3, <2>4, <2>5, NextProc DEF CpuUsed
  <2>7. y \in Scheds /\ Single(y) /\ (mode.switch = "ON_IO" => CpuUsed(y)) /\ Same(waits, y, "WAIT")
    BY <2>3, <2>5, <2>6 DEF Single, Same
  <2>8. mode.switch = "ON_END" => y = waits
    OBVIOUS
  <2> HIDE DEF y
  <2>9. Aged[p] = {}
    <3>1. CASE mode.io_length > 0
      BY <1>4, <1>5, <2>1, <3>1
    <3>2. CASE ~ (mode.io_length > 0)
      <4>1. 1 .. mode.io_length - 1 = {}
        BY <1>4, <3>2
      <4> QED
        BY <1>3, <1>4, <4>1
    <3> QED
      BY <3>1, <3>2
  <2>10. due'[p] = {mode.io_length} /\ \A q \in Procs \ {p} : due'[q] = Aged[q]
    BY <1>3, <1>4, <2>2, <2>9
  <2>11. due' \in [Procs -> SUBSET Nat] /\ OneEach'
    <3>1. due' \in [Procs -> SUBSET Nat]
      BY <1>3, <1>4, <2>2
    <3>2. \A q \in Procs : \A u, v \in due'[q] : u = v
      BY <1>3, <2>10
    <3>3. \A q, z \in Procs : \A u \in due'[q] \cap due'[z] : q = z
      BY <1>3, <2>10
    <3>4. \A q \in Procs : due'[q] \subseteq IF mode'.io_length = 0 THEN {0} ELSE 1 .. mode'.io_length
      BY <1>3, <1>4, <2>2, <2>10
    <3> QED
      BY <3>1, <3>2, <3>3, <3>4 DEF OneEach
  <2>12. \A q \in Procs : y.state[q] = "WAIT" <=> q = p \/ w.state[q] = "WAIT"
    BY <2>4, <2>7 DEF Same
  <2>13. mode.io_length > 0 => \A q \in Procs : y.state[q] = "WAIT" <=> due'[q] # {}
    BY <1>5, <2>10, <2>12
  <2>14. mode.switch = "ON_END" =>
           /\ \A q \in Procs : y.state[q] = "WAIT" => q = y.curr
           /\ y.curr # sched.curr => y.state[sched.curr] = "DONE"
    <3>1. sched.curr \in Procs
      BY DEF ProcInv, ProcTypes, Scheds
    <3> SUFFICES ASSUME mode.switch = "ON_END"
                 PROVE  /\ \A q \in Procs : y.state[q] = "WAIT" => q = y.curr
                        /\ y.curr # sched.curr => y.state[sched.curr] = "DONE"
      OBVIOUS
    <3>2. y = waits /\ y.curr = p /\ \A q \in Procs : y.state[q] = "WAIT" <=> q = p \/ w.state[q] = "WAIT"
      BY <2>3, <2>8, <2>12
    <3>3. \A q \in Procs : y.state[q] = "WAIT" => q = y.curr
      BY <1>2, <2>1, <3>2
    <3>4. y.curr # sched.curr => y.state[sched.curr] = "DONE"
      BY <1>2, <2>1, <2>4, <3>1, <3>2
    <3> QED
      BY <3>3, <3>4
  <2> QED
    BY <1>6, <2>1, <2>2, <2>7, <2>11, <2>13, <2>14, Settles
<1>10. ASSUME NEW p \in Procs, w.curr = p, w.state[p] = "RUNNING", code[p] # <<>>
       PROVE  code'[p] = Tail(code[p])
  <2>1. Executes(w)
    BY <1>10 DEF Executes
  <2>2. code' = pop(w)
    BY <1>1, <2>1 DEF NothingRuns, Compute, IssueIO
  <2> QED
    BY <1>4, <1>10, <2>2 DEF pop
<1>11. /\ ProcInv'
       /\ mode.switch = "ON_END" /\ sched'.curr # sched.curr => sched'.state[sched.curr] = "DONE"
  BY <1>1, <1>8, <1>9 DEF NothingRuns, Compute, Tick
<1>12. sched.curr \in Procs
  BY DEF ProcInv, ProcTypes, Scheds
<1> QED
  BY <1>2, <1>10, <1>11, <1>12 DEF SwitchesAsAsked

LEMMA ProcInvImplies == ProcInv => TableConsistent /\ NeverIdle
BY DEF ProcInv, ProcTypes, Scheds, Single, CpuUsed, WaitsForIO, OneEach, TableConsistent, NeverIdle, Finishing

-----------------------------------------------------------------------------
HIDE ProcAssumption
USE PageAssumption

Pages == 1 .. NumPages

IsCache(c) ==
    /\ c = [policy |-> c.policy, cachesize |-> c.cachesize, memory |-> c.memory, ref |-> c.ref,
            hits |-> c.hits, miss |-> c.miss]
    /\ c.policy \in PagePolicies /\ c.cachesize \in Nat \ {0} /\ c.memory \in Seq(Pages)
    /\ c.hits \in Nat /\ c.miss \in Nat

HoldsOnce(c) == IsInjective(c.memory) /\ Len(c.memory) <= c.cachesize

BitsOfPages(c) == c.policy = "CLOCK" => DOMAIN c.ref = ToSet(c.memory)

\* What is in place i leaves, and n comes in at the end.
Shift(mem, i, n) == Append(RemoveAt(mem, i), n)

LEMMA Replaced ==
    ASSUME NEW mem \in Seq(Pages), IsInjective(mem), NEW i \in 1 .. Len(mem),
           NEW n \in Pages, n \notin ToSet(mem) \/ n = mem[i]
    PROVE  /\ Shift(mem, i, n) \in Seq(Pages) /\ Len(Shift(mem, i, n)) = Len(mem)
           /\ \A k \in 1 .. Len(mem) :
                Shift(mem, i, n)[k] = IF k < i THEN mem[k] ELSE IF k < Len(mem) THEN mem[k + 1] ELSE n
           /\ IsInjective(Shift(mem, i, n))
           /\ ToSet(Shift(mem, i, n)) = (ToSet(mem) \ {mem[i]}) \cup {n}
<1> DEFINE a == SubSeq(mem, 1, i - 1)
           b == SubSeq(mem, i + 1, Len(mem))
           ab == a \o b
           m == Append(ab, n)
<1>1. Len(mem) \in Nat /\ \A k \in 1 .. Len(mem) : mem[k] \in Pages
  OBVIOUS
<1>2. /\ a \in Seq(Pages) /\ Len(a) = i - 1
      /\ \A k \in 1 .. i - 1 : a[k] = mem[k]
  BY <1>1, SubSeqProperties
<1>3. /\ b \in Seq(Pages) /\ Len(b) = Len(mem) - i
      /\ \A k \in 1 .. Len(mem) - i : b[k] = mem[i + k]
  <2>1. /\ b \in Seq(Pages)
        /\ Len(b) = IF i + 1 <= Len(mem) THEN Len(mem) - (i + 1) + 1 ELSE 0
        /\ \A k \in 1 .. Len(mem) - (i + 1) + 1 : b[k] = mem[(i + 1) + k - 1]
    BY <1>1, SubSeqProperties
  <2>2. \A k \in 1 .. Len(mem) - i : (i + 1) + k - 1 = i + k
    BY <1>1
  <2> QED
    BY <1>1, <2>1, <2>2
<1> HIDE DEF a, b
<1>4. /\ a \o b \in Seq(Pages) /\ Len(a \o b) = Len(mem) - 1
      /\ \A k \in 1 .. Len(mem) - 1 : (a \o b)[k] = IF k <= i - 1 THEN a[k] ELSE b[k - (i - 1)]
  <2>1. /\ a \o b \in Seq(Pages) /\ Len(a \o b) = Len(a) + Len(b)
        /\ \A k \in 1 .. Len(a) + Len(b) : (a \o b)[k] = IF k <= Len(a) THEN a[k] ELSE b[k - Len(a)]
    <3>1. a \in Seq(Pages) /\ b \in Seq(Pages)
      BY <1>2, <1>3
    <3> QED
      BY ONLY <3>1, ConcatProperties
  <2>2. Len(a) + Len(b) = Len(mem) - 1
    BY <1>1, <1>2, <1>3
  <2> QED
    BY <1>2, <2>1, <2>2
<1>5. /\ m \in Seq(Pages) /\ Len(m) = Len(mem)
      /\ \A k \in 1 .. Len(mem) - 1 : m[k] = ab[k]
      /\ m[Len(mem)] = n
  <2>1. ab \in Seq(Pages) /\ Len(ab) = Len(mem) - 1
    BY <1>4
  <2> HIDE DEF ab
  <2>2. /\ m \in Seq(Pages) /\ Len(m) = Len(ab) + 1
        /\ \A k \in 1 .. Len(ab) : m[k] = ab[k]
        /\ m[Len(ab) + 1] = n
    BY <2>1, AppendProperties
  <2>3. Len(ab) + 1 = Len(mem)
    BY <1>1, <2>1
  <2> QED
    BY <2>1, <2>2, <2>3
<1>12. \A k \in 1 .. Len(mem) - 1 : ab[k] = IF k < i THEN mem[k] ELSE mem[k + 1]
  <2> SUFFICES ASSUME NEW k \in 1 .. Len(mem) - 1
               PROVE  ab[k] = IF k < i THEN mem[k] ELSE mem[k + 1]
    OBVIOUS
  <2>1. CASE k < i
    <3>1. k <= i - 1 /\ k \in 1 .. i - 1
      BY <2>1, <1>1
    <3> QED
      BY <2>1, <3>1, <1>2, <1>4
  <2>2. CASE k >= i
    <3>1. ~ (k <= i - 1) /\ ~ (k < i) /\ k - (i - 1) \in 1 .. Len(mem) - i /\ i + (k - (i - 1)) = k + 1
      BY <2>2, <1>1
    <3>2. ab[k] = b[k - (i - 1)]
      BY <3>1, <1>4
    <3> QED
      BY <3>1, <3>2, <1>3
  <2>3. k < i \/ k >= i
    BY <1>1
  <2> HIDE DEF ab
  <2> QED
    BY <2>1, <2>2, <2>3
<1> HIDE DEF m, ab
<1>6. ASSUME NEW k \in 1 .. Len(mem)
      PROVE  m[k] = IF k < i THEN mem[k] ELSE IF k < Len(mem) THEN mem[k + 1] ELSE n
  <2>1. CASE k = Len(mem)
    BY <2>1, <1>5, <1>1
  <2>2. CASE k # Len(mem)
    <3>1. k \in 1 .. Len(mem) - 1 /\ k < Len(mem)
      BY <2>2, <1>1
    <3> QED
      BY <3>1, <1>5, <1>12
  <2> QED
    BY <2>1, <2>2
<1>7. \A j, k \in 1 .. Len(mem) : mem[j] = mem[k] => j = k
  BY DEF IsInjective
<1>8. \A k \in 1 .. Len(mem) : k # i => mem[k] # n
  BY <1>7 DEF ToSet
<1>9. IsInjective(m)
  <2> SUFFICES ASSUME NEW j \in 1 .. Len(mem), NEW k \in 1 .. Len(mem), m[j] = m[k] PROVE j = k
    BY <1>5 DEF IsInjective
  <2> QED
    BY <1>1, <1>6, <1>7, <1>8
<1>10. ToSet(m) \subseteq (ToSet(mem) \ {mem[i]}) \cup {n}
  <2> SUFFICES ASSUME NEW k \in 1 .. Len(mem) PROVE m[k] \in (ToSet(mem) \ {mem[i]}) \cup {n}
    BY <1>5 DEF ToSet
  <2> QED
    BY <1>1, <1>6, <1>7 DEF ToSet
<1>11. (ToSet(mem) \ {mem[i]}) \cup {n} \subseteq ToSet(m)
  <2>1. n \in ToSet(m)
    BY <1>1, <1>5 DEF ToSet
  <2>2. ASSUME NEW k \in 1 .. Len(mem), k # i PROVE mem[k] \in ToSet(m)
    <3>1. CASE k < i
      BY <3>1, <1>1, <1>5, <1>6 DEF ToSet
    <3>2. CASE k > i
      <4>1. k - 1 \in 1 .. Len(mem) /\ ~ (k - 1 < i) /\ k - 1 < Len(mem) /\ (k - 1) + 1 = k
        BY <3>2, <1>1
      <4>2. m[k - 1] = mem[k]
        BY <4>1, <1>6
      <4> QED
        BY <4>1, <4>2, <1>5 DEF ToSet
    <3> QED
      BY <2>2, <3>1, <3>2, <1>1
  <2> QED
    BY <2>1, <2>2 DEF ToSet
<1> QED
  BY <1>5, <1>6, <1>9, <1>10, <1>11 DEF Shift, RemoveAt, m, ab, a, b

LEMMA Added ==
    ASSUME NEW mem \in Seq(Pages), IsInjective(mem), NEW n \in Pages, n \notin ToSet(mem)
    PROVE  LET m == Append(mem, n)
           IN  /\ m \in Seq(Pages) /\ Len(m) = Len(mem) + 1
               /\ \A k \in 1 .. Len(mem) : m[k] = mem[k]
               /\ m[Len(mem) + 1] = n
               /\ IsInjective(m)
               /\ ToSet(m) = ToSet(mem) \cup {n}
<1> DEFINE m == Append(mem, n)
<1>1. Len(mem) \in Nat
  OBVIOUS
<1>2. /\ m \in Seq(Pages) /\ Len(m) = Len(mem) + 1
      /\ \A k \in 1 .. Len(mem) : m[k] = mem[k]
      /\ m[Len(mem) + 1] = n
  BY AppendProperties
<1> HIDE DEF m
<1>3. IsInjective(m)
  BY <1>1, <1>2 DEF IsInjective, ToSet
<1>4. ToSet(m) = ToSet(mem) \cup {n}
  BY <1>1, <1>2 DEF ToSet
<1> QED
  BY <1>2, <1>3, <1>4 DEF m

LEMMA PositionIs ==
    ASSUME NEW c, c.memory \in Seq(Pages), NEW p \in ToSet(c.memory)
    PROVE  Position(c, p) \in 1 .. Len(c.memory) /\ c.memory[Position(c, p)] = p
BY DEF Position, ToSet

LEMMA MovedIs ==
    ASSUME NEW c, c.memory \in Seq(Pages), IsInjective(c.memory), NEW p \in ToSet(c.memory),
           NEW n \in Pages, n \notin ToSet(c.memory) \/ n = p
    PROVE  /\ Shift(c.memory, Position(c, p), n) \in Seq(Pages)
           /\ Len(Shift(c.memory, Position(c, p), n)) = Len(c.memory)
           /\ IsInjective(Shift(c.memory, Position(c, p), n))
           /\ ToSet(Shift(c.memory, Position(c, p), n)) = (ToSet(c.memory) \ {p}) \cup {n}
<1>1. PICK i \in 1 .. Len(c.memory) : i = Position(c, p) /\ c.memory[i] = p
  BY PositionIs
<1>2. n \notin ToSet(c.memory) \/ n = c.memory[i]
  BY <1>1
<1>3. /\ Shift(c.memory, i, n) \in Seq(Pages) /\ Len(Shift(c.memory, i, n)) = Len(c.memory)
      /\ IsInjective(Shift(c.memory, i, n))
      /\ ToSet(Shift(c.memory, i, n)) = (ToSet(c.memory) \ {c.memory[i]}) \cup {n}
  BY <1>2, Replaced
<1> QED
  BY <1>1, <1>3

LEMMA Hits ==
    ASSUME NEW c, NEW n
    PROVE  Hit(c, n) = [c EXCEPT !.hits = @ + 1,
                                 !.memory = IF c.policy \in {"LRU", "MRU"}
                                            THEN Shift(c.memory, Position(c, n), n) ELSE @]
BY DEF Hit, Shift

LEMMA UsedIs ==
    ASSUME NEW c, IsCache(c), NEW n
    PROVE  LET d == Used(c, n)
           IN  /\ IsCache(d)
               /\ d.policy = c.policy /\ d.cachesize = c.cachesize /\ d.memory = c.memory
               /\ d.hits = c.hits /\ d.miss = c.miss
               /\ c.policy = "CLOCK" => DOMAIN d.ref = DOMAIN c.ref \cup {n}
<1>1. CASE c.policy # "CLOCK"
  BY <1>1 DEF Used
<1>2. CASE c.policy = "CLOCK"
  <2> DEFINE r == [p \in DOMAIN c.ref \cup {n} |->
                     IF p # n THEN c.ref[p]
                     ELSE IF n \notin DOMAIN c.ref THEN 1
                     ELSE IF c.ref[n] + 1 > ClockBits THEN ClockBits ELSE c.ref[n] + 1]
  <2>1. Used(c, n) = [c EXCEPT !.ref = r]
    BY <1>2 DEF Used
  <2>2. DOMAIN r = DOMAIN c.ref \cup {n}
    OBVIOUS
  <2> HIDE DEF r
  <2> QED
    BY <2>1, <2>2 DEF IsCache
<1> QED
  BY <1>1, <1>2

LEMMA VictimIsPage ==
    ASSUME NEW c, IsCache(c), c.memory # <<>> PROVE Victims(c) \subseteq ToSet(c.memory)
<1>1. c.memory \in Seq(Pages) /\ Len(c.memory) \in Nat \ {0} /\ c.policy \in PagePolicies
  BY DEF IsCache
<1>2. Head(c.memory) \in ToSet(c.memory) /\ Last(c.memory) \in ToSet(c.memory)
  BY <1>1 DEF ToSet, Last
<1> QED
  BY <1>1, <1>2 DEF Victims, PagePolicies

\* What a reference leaves of a cache: the page is in it, and for it another may
\* have left.
LEMMA AccessIs ==
    ASSUME NEW c, IsCache(c), HoldsOnce(c), BitsOfPages(c), NEW n \in Pages, NEW d \in Access(c, n)
    PROVE  /\ IsCache(d) /\ HoldsOnce(d) /\ BitsOfPages(d)
           /\ d.policy = c.policy /\ d.cachesize = c.cachesize
           /\ n \in ToSet(c.memory) =>
                /\ d.miss = c.miss
                /\ ToSet(d.memory) = ToSet(c.memory) /\ Len(d.memory) = Len(c.memory)
                /\ c.policy = "LRU" => d.memory = Shift(c.memory, Position(c, n), n)
           /\ n \notin ToSet(c.memory) /\ Len(c.memory) < c.cachesize =>
                /\ d.miss = c.miss + 1
                /\ d.memory = Append(c.memory, n)
           /\ n \notin ToSet(c.memory) /\ Len(c.memory) = c.cachesize =>
                /\ d.miss = c.miss + 1
                /\ \E v \in Victims(c) \cap ToSet(c.memory) :
                     d.memory = Shift(c.memory, Position(c, v), n)
<1>1. /\ c.memory \in Seq(Pages) /\ Len(c.memory) \in Nat /\ c.policy \in PagePolicies
      /\ c.cachesize \in Nat \ {0} /\ c.hits \in Nat /\ c.miss \in Nat /\ IsInjective(c.memory)
  BY DEF IsCache, HoldsOnce
<1>2. PICK e \in IF n \in ToSet(c.memory) THEN {Hit(c, n)} ELSE Miss(c, n) : d = Used(e, n)
  BY DEF Access
<1>3. ASSUME IsCache(e), HoldsOnce(e), e.policy = c.policy,
             c.policy = "CLOCK" => DOMAIN e.ref \cup {n} = ToSet(e.memory)
      PROVE  /\ IsCache(d) /\ HoldsOnce(d) /\ BitsOfPages(d)
             /\ d.policy = e.policy /\ d.cachesize = e.cachesize /\ d.memory = e.memory
             /\ d.miss = e.miss
  <2>1. /\ IsCache(d)
        /\ d.policy = e.policy /\ d.cachesize = e.cachesize /\ d.memory = e.memory
        /\ d.hits = e.hits /\ d.miss = e.miss
        /\ e.policy = "CLOCK" => DOMAIN d.ref = DOMAIN e.ref \cup {n}
    BY <1>2, <1>3, UsedIs
  <2>2. HoldsOnce(d)
    BY <1>3, <2>1 DEF HoldsOnce
  <2>3. BitsOfPages(d)
    BY <1>3, <2>1 DEF BitsOfPages
  <2> QED
    BY <2>1, <2>2, <2>3
<1>4. CASE n \in ToSet(c.memory)
  <2>1. e = Hit(c, n)
    BY <1>2, <1>4
  <2> DEFINE moved == Shift(c.memory, Position(c, n), n)
  <2>2. Position(c, n) \in 1 .. Len(c.memory) /\ c.memory[Position(c, n)] = n
    BY <1>1, <1>4, PositionIs
  <2>3. /\ moved \in Seq(Pages) /\ Len(moved) = Len(c.memory) /\ IsInjective(moved)
        /\ ToSet(moved) = (ToSet(c.memory) \ {n}) \cup {n}
    <3>1. c.memory \in Seq(Pages) /\ IsInjective(c.memory) /\ n \in ToSet(c.memory) /\ n \in Pages
      BY <1>1, <1>4
    <3>2. /\ Shift(c.memory, Position(c, n), n) \in Seq(Pages)
          /\ Len(Shift(c.memory, Position(c, n), n)) = Len(c.memory)
          /\ IsInjective(Shift(c.memory, Position(c, n), n))
          /\ ToSet(Shift(c.memory, Position(c, n), n)) = (ToSet(c.memory) \ {n}) \cup {n}
      <4> HIDE DEF moved
      <4> QED BY ONLY <3>1, <2>2, Replaced
    <3> QED
      BY <3>2
  <2>4. e = [c EXCEPT !.hits = @ + 1,
                      !.memory = IF c.policy \in {"LRU", "MRU"} THEN moved ELSE @]
    BY <2>1, Hits
  <2> HIDE DEF moved
  <2>5. /\ IsCache(e) /\ e.policy = c.policy /\ e.cachesize = c.cachesize /\ e.miss = c.miss
        /\ e.ref = c.ref /\ e.memory = IF c.policy \in {"LRU", "MRU"} THEN moved ELSE c.memory
    <3>1. c = [policy |-> c.policy, cachesize |-> c.cachesize, memory |-> c.memory, ref |-> c.ref,
               hits |-> c.hits, miss |-> c.miss]
      BY DEF IsCache
    <3>2. e = [policy |-> c.policy, cachesize |-> c.cachesize, memory |-> IF c.policy \in {"LRU", "MRU"} THEN moved ELSE c.memory, ref |-> c.ref,
               hits |-> c.hits + 1, miss |-> c.miss]
      BY <2>4, <3>1
    <3> QED
      BY <1>1, <2>3, <3>2 DEF IsCache
  <2>6. ToSet(e.memory) = ToSet(c.memory) /\ Len(e.memory) = Len(c.memory) /\ IsInjective(e.memory)
    BY <1>1, <1>4, <2>3, <2>5
  <2>7. HoldsOnce(e)
    BY <2>5, <2>6 DEF HoldsOnce
  <2>8. c.policy = "CLOCK" => DOMAIN e.ref \cup {n} = ToSet(e.memory)
    BY <1>4, <2>5, <2>6 DEF BitsOfPages
  <2> QED
    BY <1>3, <1>4, <2>5, <2>6, <2>7, <2>8 DEF moved
<1>5. CASE n \notin ToSet(c.memory) /\ Len(c.memory) < c.cachesize
  <2> DEFINE more == Append(c.memory, n)
  <2>1. e = [c EXCEPT !.miss = @ + 1, !.memory = more]
    BY <1>2, <1>5 DEF Miss
  <2>2. /\ more \in Seq(Pages) /\ Len(more) = Len(c.memory) + 1 /\ IsInjective(more)
        /\ ToSet(more) = ToSet(c.memory) \cup {n}
    BY <1>1, <1>5, Added
  <2> HIDE DEF more
  <2>3. /\ IsCache(e) /\ e.policy = c.policy /\ e.cachesize = c.cachesize /\ e.miss = c.miss + 1
        /\ e.ref = c.ref /\ e.memory = more
    <3>1. c = [policy |-> c.policy, cachesize |-> c.cachesize, memory |-> c.memory, ref |-> c.ref,
               hits |-> c.hits, miss |-> c.miss]
      BY DEF IsCache
    <3>2. e = [policy |-> c.policy, cachesize |-> c.cachesize, memory |-> more, ref |-> c.ref,
               hits |-> c.hits, miss |-> c.miss + 1]
      BY <2>1, <3>1
    <3> QED
      BY <1>1, <2>2, <3>2 DEF IsCache
  <2>4. HoldsOnce(e)
    BY <1>1, <1>5, <2>2, <2>3 DEF HoldsOnce
  <2>5. c.policy = "CLOCK" => DOMAIN e.ref \cup {n} = ToSet(e.memory)
    BY <2>2, <2>3 DEF BitsOfPages
  <2> QED
    BY <1>1, <1>3, <1>5, <2>3, <2>4, <2>5 DEF more
<1>6. CASE n \notin ToSet(c.memory) /\ Len(c.memory) = c.cachesize
  <2> DEFINE Out(v, r) ==
        [c EXCEPT !.miss = @ + 1, !.memory = Append(RemoveAt(@, Position(c, v)), n), !.ref = r]
  <2>10. e \in UNION {{Out(v, r) : r \in Scanned(c, v)} : v \in Victims(c)}
    <3>1. ~ (Len(c.memory) < c.cachesize)
      BY <1>1, <1>6
    <3>2. Miss(c, n) = UNION {{Out(v, r) : r \in Scanned(c, v)} : v \in Victims(c)}
      BY <3>1 DEF Miss
    <3> QED
      BY <1>2, <1>6, <3>2
  <2> HIDE DEF Out
  <2>11. PICK v \in Victims(c) : \E r \in Scanned(c, v) : e = Out(v, r)
    BY <2>10
  <2>12. PICK r \in Scanned(c, v) : e = Out(v, r)
    BY <2>11
  <2>1. e = [c EXCEPT !.miss = @ + 1, !.memory = Append(RemoveAt(@, Position(c, v)), n), !.ref = r]
    BY <2>12 DEF Out
  <2>2. v \in ToSet(c.memory)
    BY <1>1, <1>6, VictimIsPage
  <2> DEFINE moved == Shift(c.memory, Position(c, v), n)
  <2>3. Position(c, v) \in 1 .. Len(c.memory) /\ c.memory[Position(c, v)] = v
    BY <1>1, <2>2, PositionIs
  <2>4. /\ moved \in Seq(Pages) /\ Len(moved) = Len(c.memory) /\ IsInjective(moved)
        /\ ToSet(moved) = (ToSet(c.memory) \ {v}) \cup {n}
    BY <1>1, <1>6, <2>2, MovedIs
  <2>5. e = [c EXCEPT !.miss = @ + 1, !.memory = moved, !.ref = r]
    BY <2>1 DEF Shift
  <2>6. c.policy = "CLOCK" => DOMAIN r = DOMAIN c.ref \ {v}
    BY <2>1 DEF Scanned
  <2> HIDE DEF moved
  <2>7. /\ IsCache(e) /\ e.policy = c.policy /\ e.cachesize = c.cachesize /\ e.miss = c.miss + 1
        /\ e.ref = r /\ e.memory = moved
    <3>1. c = [policy |-> c.policy, cachesize |-> c.cachesize, memory |-> c.memory, ref |-> c.ref,
               hits |-> c.hits, miss |-> c.miss]
      BY DEF IsCache
    <3>2. e = [policy |-> c.policy, cachesize |-> c.cachesize, memory |-> moved, ref |-> r,
               hits |-> c.hits, miss |-> c.miss + 1]
      BY <2>5, <3>1
    <3> QED
      BY <1>1, <2>4, <3>2 DEF IsCache
  <2>8. HoldsOnce(e)
    BY <1>1, <1>6, <2>4, <2>7 DEF HoldsOnce
  <2>9. c.policy = "CLOCK" => DOMAIN e.ref \cup {n} = ToSet(e.memory)
    BY <2>4, <2>6, <2>7 DEF BitsOfPages
  <2>14. e.memory = Shift(c.memory, Position(c, v), n)
    BY <2>7 DEF moved
  <2>15. v \in Victims(c) \cap ToSet(c.memory)
    BY <2>2
  <2>16. /\ IsCache(d) /\ HoldsOnce(d) /\ BitsOfPages(d)
         /\ d.policy = e.policy /\ d.cachesize = e.cachesize /\ d.memory = e.memory
         /\ d.miss = e.miss
    BY <1>3, <2>7, <2>8, <2>9
  <2> QED
    BY <1>1, <1>6, <2>7, <2>14, <2>15, <2>16
<1> QED
  BY <1>1, <1>4, <1>5, <1>6 DEF HoldsOnce

-----------------------------------------------------------------------------
(* OPT.                                                                    *)

\* The place of the first use of p that is not before i.
NextUse(list, p, i) ==
    LET future == {j \in i .. Len(list) : list[j] = p}
    IN  IF future = {} THEN Len(list) + 1 ELSE CHOOSE j \in future : \A k \in future : j <= k

LEMMA NextUseIs ==
    ASSUME addrList \in Seq(Pages), NEW p, NEW i \in 1 .. Len(addrList) + 1
    PROVE  /\ NextUse(addrList, p, i) \in i .. Len(addrList) + 1
           /\ i <= Len(addrList) /\ addrList[i] = p => NextUse(addrList, p, i) = i
           /\ i <= Len(addrList) /\ addrList[i] # p => NextUse(addrList, p, i) = NextUse(addrList, p, i + 1)
<1> DEFINE Future(k) == {j \in k .. Len(addrList) : addrList[j] = p}
           FirstUse(S) == CHOOSE j \in S : \A k \in S : j <= k
<1>1. Len(addrList) \in Nat
  OBVIOUS
<1>2. \A k \in 1 .. Len(addrList) + 2 :
        NextUse(addrList, p, k) = IF Future(k) = {} THEN Len(addrList) + 1 ELSE FirstUse(Future(k))
  BY DEF NextUse
<1>3. ASSUME NEW k \in 1 .. Len(addrList) + 2, Future(k) # {}
      PROVE  FirstUse(Future(k)) \in Future(k) /\ \A j \in Future(k) : FirstUse(Future(k)) <= j
  <2>1. Future(k) \in SUBSET Nat
    BY <1>1
  <2> HIDE DEF Future
  <2>2. \E j \in Future(k) : \A m \in Future(k) : j <= m
    BY <1>3, <2>1, LeastExists
  <2> QED
    BY <2>2
<1>4. i \in 1 .. Len(addrList) + 2 /\ i + 1 \in 1 .. Len(addrList) + 2
  BY <1>1
<1>5. NextUse(addrList, p, i) \in i .. Len(addrList) + 1
  <2>1. CASE Future(i) = {}
    BY <1>1, <1>2, <1>4, <2>1
  <2>2. CASE Future(i) # {}
    <3>1. FirstUse(Future(i)) \in i .. Len(addrList)
      BY <1>3, <1>4, <2>2
    <3> HIDE DEF FirstUse, Future
    <3> QED
      BY <1>1, <1>2, <1>4, <2>2, <3>1
  <2> QED
    BY <2>1, <2>2
<1>6. ASSUME i <= Len(addrList), addrList[i] = p PROVE NextUse(addrList, p, i) = i
  <2>1. i \in Future(i)
    BY <1>1, <1>6
  <2>2. FirstUse(Future(i)) <= i /\ FirstUse(Future(i)) \in i .. Len(addrList)
    BY <1>3, <1>4, <2>1
  <2> HIDE DEF FirstUse, Future
  <2> QED
    BY <1>1, <1>2, <1>4, <2>1, <2>2
<1>7. ASSUME i <= Len(addrList), addrList[i] # p PROVE NextUse(addrList, p, i) = NextUse(addrList, p, i + 1)
  <2>1. Future(i) = Future(i + 1)
    BY <1>1, <1>7
  <2> HIDE DEF First, Future
  <2> QED
    BY <1>2, <1>4, <2>1
<1> QED
  BY <1>5, <1>6, <1>7

\* The pages of M whose next use is not after t.
Near(list, M, i, t) == {q \in M : NextUse(list, q, i) <= t}

Soon(list, q, i, t) == IF NextUse(list, q, i) <= t THEN 1 ELSE 0

LEMMA NearFinite ==
    ASSUME NEW M, IsFiniteSet(M), NEW i, NEW t
    PROVE  IsFiniteSet(Near(addrList, M, i, t)) /\ Cardinality(Near(addrList, M, i, t)) \in Nat
           /\ Cardinality(Near(addrList, M, i, t)) <= Cardinality(M)
<1>1. Near(addrList, M, i, t) \in SUBSET M
  BY DEF Near
<1> QED
  BY <1>1, FS_Subset, FS_CardinalityType

LEMMA NearAdds ==
    ASSUME NEW M, IsFiniteSet(M), NEW q, q \notin M, NEW i, NEW t
    PROVE  Cardinality(Near(addrList, M \cup {q}, i, t)) = Cardinality(Near(addrList, M, i, t)) + Soon(addrList, q, i, t)
<1>1. IsFiniteSet(Near(addrList, M, i, t)) /\ Cardinality(Near(addrList, M, i, t)) \in Nat
  BY NearFinite
<1>2. CASE NextUse(addrList, q, i) <= t
  <2>1. Near(addrList, M \cup {q}, i, t) = Near(addrList, M, i, t) \cup {q} /\ q \notin Near(addrList, M, i, t)
    BY <1>2 DEF Near
  <2> QED
    BY <1>1, <1>2, <2>1, FS_AddElement DEF Soon
<1>3. CASE ~ (NextUse(addrList, q, i) <= t)
  <2>1. Near(addrList, M \cup {q}, i, t) = Near(addrList, M, i, t)
    BY <1>3 DEF Near
  <2> QED
    BY <1>1, <1>3, <2>1 DEF Soon
<1> QED
  BY <1>2, <1>3

\* How the count changes at the reference to p, in place i: p moves to its next use,
\* and v may leave.
LEMMA NearStep ==
    ASSUME addrList \in Seq(Pages), NEW i \in 1 .. Len(addrList), NEW t \in i .. Len(addrList) + 1,
           NEW M, IsFiniteSet(M)
    PROVE  /\ addrList[i] \in M =>
                Cardinality(Near(addrList, M, i + 1, t)) = Cardinality(Near(addrList, M, i, t)) - 1 + Soon(addrList, addrList[i], i + 1, t)
           /\ addrList[i] \notin M =>
                Cardinality(Near(addrList, M \cup {addrList[i]}, i + 1, t)) =
                  Cardinality(Near(addrList, M, i, t)) + Soon(addrList, addrList[i], i + 1, t)
           /\ \A v \in M : addrList[i] \notin M =>
                /\ Cardinality(Near(addrList, (M \ {v}) \cup {addrList[i]}, i + 1, t)) =
                     Cardinality(Near(addrList, M, i, t)) - Soon(addrList, v, i + 1, t) + Soon(addrList, addrList[i], i + 1, t)
                /\ Cardinality(Near(addrList, M, i, t)) - Soon(addrList, v, i + 1, t) <= Cardinality(M) - 1
<1> DEFINE p == addrList[i]
<1>1. Len(addrList) \in Nat /\ i \in 1 .. Len(addrList) + 1 /\ i <= Len(addrList)
  OBVIOUS
<1>2. \A q : q # p => NextUse(addrList, q, i) = NextUse(addrList, q, i + 1)
  BY <1>1, NextUseIs
<1>3. NextUse(addrList, p, i) = i
  BY <1>1, NextUseIs
<1>4. ASSUME NEW N, p \notin N PROVE Near(addrList, N, i, t) = Near(addrList, N, i + 1, t)
  BY <1>2, <1>4 DEF Near
<1>5. \A q : Soon(addrList, q, i + 1, t) \in {0, 1}
  BY DEF Soon
<1>6. ASSUME p \in M
      PROVE  Cardinality(Near(addrList, M, i + 1, t)) = Cardinality(Near(addrList, M, i, t)) - 1 + Soon(addrList, p, i + 1, t)
  <2> DEFINE N == M \ {p}
  <2>1. IsFiniteSet(N) /\ p \notin N /\ M = N \cup {p}
    BY <1>6, FS_RemoveElement
  <2> HIDE DEF N
  <2>2. Soon(addrList, p, i, t) = 1
    BY <1>1, <1>3 DEF Soon
  <2>3. Cardinality(Near(addrList, M, i, t)) = Cardinality(Near(addrList, N, i, t)) + 1
    BY <2>1, <2>2, NearAdds
  <2>4. Cardinality(Near(addrList, M, i + 1, t)) = Cardinality(Near(addrList, N, i + 1, t)) + Soon(addrList, p, i + 1, t)
    BY <2>1, NearAdds
  <2>5. Near(addrList, N, i, t) = Near(addrList, N, i + 1, t) /\ Cardinality(Near(addrList, N, i, t)) \in Nat
    BY <1>4, <2>1, NearFinite
  <2> QED
    BY <1>5, <2>3, <2>4, <2>5
<1>7. ASSUME p \notin M
      PROVE  Cardinality(Near(addrList, M \cup {p}, i + 1, t)) = Cardinality(Near(addrList, M, i, t)) + Soon(addrList, p, i + 1, t)
  BY <1>4, <1>7, NearAdds
<1>8. ASSUME NEW v \in M, p \notin M
      PROVE  /\ Cardinality(Near(addrList, (M \ {v}) \cup {p}, i + 1, t)) =
                  Cardinality(Near(addrList, M, i, t)) - Soon(addrList, v, i + 1, t) + Soon(addrList, p, i + 1, t)
             /\ Cardinality(Near(addrList, M, i, t)) - Soon(addrList, v, i + 1, t) <= Cardinality(M) - 1
  <2> DEFINE N == M \ {v}
  <2>1. IsFiniteSet(N) /\ v \notin N /\ M = N \cup {v} /\ p \notin N /\ Cardinality(N) = Cardinality(M) - 1
    BY <1>8, FS_RemoveElement
  <2> HIDE DEF N
  <2>2. Cardinality(Near(addrList, M, i + 1, t)) = Cardinality(Near(addrList, N, i + 1, t)) + Soon(addrList, v, i + 1, t)
    BY <2>1, NearAdds
  <2>3. Cardinality(Near(addrList, N \cup {p}, i + 1, t)) = Cardinality(Near(addrList, N, i + 1, t)) + Soon(addrList, p, i + 1, t)
    BY <2>1, NearAdds
  <2>4. /\ Near(addrList, M, i, t) = Near(addrList, M, i + 1, t) /\ Cardinality(Near(addrList, N, i + 1, t)) \in Nat
        /\ Cardinality(Near(addrList, N, i + 1, t)) <= Cardinality(N)
    BY <1>4, <1>8, <2>1, NearFinite
  <2>5. Cardinality(Near(addrList, N \cup {p}, i + 1, t)) =
          Cardinality(Near(addrList, M, i, t)) - Soon(addrList, v, i + 1, t) + Soon(addrList, p, i + 1, t)
    BY <1>5, <2>2, <2>3, <2>4
  <2>6. Cardinality(Near(addrList, M, i, t)) - Soon(addrList, v, i + 1, t) <= Cardinality(M) - 1
    BY <1>5, <2>1, <2>2, <2>4
  <2> QED
    BY <2>5, <2>6 DEF N
<1> QED
  BY <1>6, <1>7, <1>8

LEMMA MemorySize ==
    ASSUME NEW c, IsCache(c), HoldsOnce(c)
    PROVE  IsFiniteSet(ToSet(c.memory)) /\ Cardinality(ToSet(c.memory)) = Len(c.memory)
<1> DEFINE D == 1 .. Len(c.memory)
<1>1. c.memory \in Seq(Pages) /\ Len(c.memory) \in Nat /\ DOMAIN c.memory = D
  BY DEF IsCache
<1>2. IsFiniteSet(D) /\ Cardinality(D) = Len(c.memory)
  BY <1>1, FS_Interval
<1>3. c.memory \in [D -> ToSet(c.memory)]
  BY <1>1 DEF ToSet
<1>4. c.memory \in Surjection(D, ToSet(c.memory))
  BY <1>1, <1>3 DEF Surjection, ToSet
<1>5. c.memory \in Injection(D, ToSet(c.memory))
  BY <1>3 DEF Injection, HoldsOnce
<1> HIDE DEF D
<1> QED
  BY <1>2, <1>4, <1>5, FS_Surjection

\* One of the pages that the policy may choose is gone, and n is there.
Swapped(c, d, n) == \E v \in Victims(c) \cap ToSet(c.memory) : ToSet(d.memory) = (ToSet(c.memory) \ {v}) \cup {n}

\* A reference in terms of the set of pages.
LEMMA AccessSets ==
    ASSUME NEW c, IsCache(c), HoldsOnce(c), BitsOfPages(c), NEW n \in Pages, NEW d \in Access(c, n)
    PROVE  /\ n \in ToSet(c.memory) => d.miss = c.miss /\ ToSet(d.memory) = ToSet(c.memory) /\ Len(d.memory) = Len(c.memory)
           /\ n \notin ToSet(c.memory) /\ Len(c.memory) < c.cachesize =>
                    d.miss = c.miss + 1 /\ ToSet(d.memory) = ToSet(c.memory) \cup {n} /\ Len(d.memory) = Len(c.memory) + 1
           /\ n \notin ToSet(c.memory) /\ Len(c.memory) = c.cachesize =>
                    /\ d.miss = c.miss + 1 /\ Len(d.memory) = Len(c.memory)
                    /\ Swapped(c, d, n)
<1>1. c.memory \in Seq(Pages) /\ IsInjective(c.memory)
  BY DEF IsCache, HoldsOnce
<1>2. CASE n \in ToSet(c.memory)
  BY <1>2, AccessIs
<1>3. CASE n \notin ToSet(c.memory) /\ Len(c.memory) < c.cachesize
  <2>1. d.miss = c.miss + 1 /\ d.memory = Append(c.memory, n)
    BY <1>3, AccessIs
  <2> QED
    BY <1>1, <1>3, <2>1, Added
<1>4. CASE n \notin ToSet(c.memory) /\ Len(c.memory) = c.cachesize
  <2>1. d.miss = c.miss + 1
        /\ \E v \in Victims(c) \cap ToSet(c.memory) : d.memory = Shift(c.memory, Position(c, v), n)
    BY <1>4, AccessIs
  <2>2. PICK v \in Victims(c) \cap ToSet(c.memory) : d.memory = Shift(c.memory, Position(c, v), n)
    BY <2>1
  <2>3. Position(c, v) \in 1 .. Len(c.memory) /\ c.memory[Position(c, v)] = v
    BY <1>1, <2>2, PositionIs
  <2>4. Len(d.memory) = Len(c.memory) /\ ToSet(d.memory) = (ToSet(c.memory) \ {v}) \cup {n}
    BY <1>1, <1>4, <2>2, <2>3, Replaced
  <2> QED
    BY <1>4, <2>1, <2>2, <2>4 DEF Swapped
<1> QED
  BY <1>2, <1>3, <1>4

\* A hit, and the eviction of a page that is used soon, cost one of the pages that
\* are near.
LEMMA AccessCount ==
    ASSUME NEW c, IsCache(c), HoldsOnce(c), BitsOfPages(c),
           addrList \in Seq(Pages), NEW i \in 1 .. Len(addrList), NEW t \in i .. Len(addrList) + 1,
           NEW n, n = addrList[i], NEW d \in Access(c, n)
    PROVE  \E x \in {0, 1} :
             /\ Cardinality(Near(addrList, ToSet(d.memory), i + 1, t)) =
                  Cardinality(Near(addrList, ToSet(c.memory), i, t)) - x + Soon(addrList, n, i + 1, t)
             /\ n \in ToSet(c.memory) => x = 1
             /\ n \notin ToSet(c.memory) /\ x = 1 =>
                  /\ Len(c.memory) = c.cachesize
                  /\ \E v \in Victims(c) : NextUse(addrList, v, i + 1) <= t
             /\ n \notin ToSet(c.memory) /\ Len(c.memory) = c.cachesize =>
                  Cardinality(Near(addrList, ToSet(c.memory), i, t)) - x <= Cardinality(ToSet(c.memory)) - 1
<1> DEFINE M == ToSet(c.memory)
           k == Cardinality(Near(addrList, M, i, t))
<1>1. n \in Pages
  OBVIOUS
<1>2. IsFiniteSet(M) /\ k \in Nat
  BY MemorySize, NearFinite
<1>3. Soon(addrList, n, i + 1, t) \in {0, 1}
  BY DEF Soon
<1>4. /\ n \in M => Cardinality(Near(addrList, M, i + 1, t)) = k - 1 + Soon(addrList, n, i + 1, t)
      /\ n \notin M => Cardinality(Near(addrList, M \cup {n}, i + 1, t)) = k + Soon(addrList, n, i + 1, t)
      /\ \A v \in M : n \notin M =>
           /\ Cardinality(Near(addrList, (M \ {v}) \cup {n}, i + 1, t)) = k - Soon(addrList, v, i + 1, t) + Soon(addrList, n, i + 1, t)
           /\ k - Soon(addrList, v, i + 1, t) <= Cardinality(M) - 1
  <2> HIDE DEF M
  <2>1. /\ addrList[i] \in M =>
             Cardinality(Near(addrList, M, i + 1, t)) = Cardinality(Near(addrList, M, i, t)) - 1 + Soon(addrList, addrList[i], i + 1, t)
        /\ addrList[i] \notin M =>
             Cardinality(Near(addrList, M \cup {addrList[i]}, i + 1, t)) =
               Cardinality(Near(addrList, M, i, t)) + Soon(addrList, addrList[i], i + 1, t)
    BY <1>2, NearStep
  <2>2. \A v \in M : addrList[i] \notin M =>
             /\ Cardinality(Near(addrList, (M \ {v}) \cup {addrList[i]}, i + 1, t)) =
                  Cardinality(Near(addrList, M, i, t)) - Soon(addrList, v, i + 1, t) + Soon(addrList, addrList[i], i + 1, t)
             /\ Cardinality(Near(addrList, M, i, t)) - Soon(addrList, v, i + 1, t) <= Cardinality(M) - 1
    BY <1>2, NearStep
  <2> QED
    BY <2>1, <2>2
<1>5. /\ n \in M => ToSet(d.memory) = M
      /\ n \notin M /\ Len(c.memory) < c.cachesize => ToSet(d.memory) = M \cup {n}
      /\ n \notin M /\ Len(c.memory) = c.cachesize =>
           \E v \in Victims(c) \cap M : ToSet(d.memory) = (M \ {v}) \cup {n}
  <2>1. /\ n \in M => ToSet(d.memory) = M
        /\ n \notin M /\ Len(c.memory) < c.cachesize => ToSet(d.memory) = M \cup {n}
        /\ n \notin M /\ Len(c.memory) = c.cachesize =>
             \E v \in Victims(c) \cap M : ToSet(d.memory) = (M \ {v}) \cup {n}
    <3>1. /\ n \in ToSet(c.memory) => ToSet(d.memory) = ToSet(c.memory)
          /\ n \notin ToSet(c.memory) /\ Len(c.memory) < c.cachesize => ToSet(d.memory) = ToSet(c.memory) \cup {n}
          /\ n \notin ToSet(c.memory) /\ Len(c.memory) = c.cachesize =>
               Swapped(c, d, n)
      <4> HIDE DEF M, k
      <4>1. IsCache(c) /\ HoldsOnce(c) /\ BitsOfPages(c) /\ n \in Pages /\ d \in Access(c, n)
        BY <1>1
      <4> QED
        BY ONLY <4>1, AccessSets
    <3> QED
      BY <3>1 DEF Swapped
  <2> HIDE DEF M
  <2> QED
    BY <2>1
<1> HIDE DEF M, k
<1>6. CASE n \in M
  BY <1>2, <1>3, <1>4, <1>5, <1>6 DEF M, k
<1>7. CASE n \notin M /\ Len(c.memory) < c.cachesize
  <2>1. Cardinality(Near(addrList, ToSet(d.memory), i + 1, t)) = k - 0 + Soon(addrList, n, i + 1, t)
    <3>1. Cardinality(Near(addrList, ToSet(d.memory), i + 1, t)) = k + Soon(addrList, n, i + 1, t)
      BY <1>4, <1>5, <1>7
    <3> QED
      BY <1>2, <3>1
  <2> QED
    BY <1>7, <2>1 DEF M, k
<1>8. CASE n \notin M /\ Len(c.memory) = c.cachesize
  <2>1. PICK v \in Victims(c) \cap M : ToSet(d.memory) = (M \ {v}) \cup {n}
    BY <1>5, <1>8
  <2>2. /\ Cardinality(Near(addrList, ToSet(d.memory), i + 1, t)) = k - Soon(addrList, v, i + 1, t) + Soon(addrList, n, i + 1, t)
        /\ k - Soon(addrList, v, i + 1, t) <= Cardinality(M) - 1
    BY <1>4, <1>8, <2>1
  <2>3. Soon(addrList, v, i + 1, t) \in {0, 1} /\ (Soon(addrList, v, i + 1, t) = 1 => NextUse(addrList, v, i + 1) <= t)
    BY DEF Soon
  <2> QED
    BY <1>8, <2>1, <2>2, <2>3 DEF M, k
<1>9. Len(c.memory) <= c.cachesize /\ Len(c.memory) \in Nat /\ c.cachesize \in Nat
  BY DEF HoldsOnce, IsCache
<1> QED
  BY <1>6, <1>7, <1>8, <1>9

\* Two caches of one size: until they are full, which they are together, they hold
\* the same pages.
SameSize(a, b) ==
    /\ a.cachesize = b.cachesize /\ Len(a.memory) = Len(b.memory)
    /\ Len(a.memory) < a.cachesize => ToSet(a.memory) = ToSet(b.memory)

\* Whatever b has above a among the pages that are used by t, it has paid for with
\* misses.  i is the next place.
Lead(list, a, b, i) ==
    \A t \in i - 1 .. Len(list) + 1 :
        Cardinality(Near(list, ToSet(b.memory), i, t)) - Cardinality(Near(list, ToSet(a.memory), i, t)) <= b.miss - a.miss

LEMMA OptVictim ==
    ASSUME NEW c, IsCache(c), HoldsOnce(c), c.policy = "OPT", addrList \in Seq(Pages),
           addrIndex \in 0 .. Len(addrList) - 1, addrList[addrIndex + 1] \notin ToSet(c.memory),
           NEW t \in Nat, NEW v \in Victims(c), NextUse(addrList, v, addrIndex + 2) <= t
    PROVE  Near(addrList, ToSet(c.memory), addrIndex + 1, t) = ToSet(c.memory)
<1>1. v \in ToSet(c.memory) /\ \A q \in ToSet(c.memory) : Later(c, v, q)
  BY DEF Victims
<1>2. addrIndex + 1 \in 1 .. Len(addrList) + 1 /\ addrIndex + 2 \in 1 .. Len(addrList) + 1
      /\ addrIndex + 1 <= Len(addrList) /\ (addrIndex + 1) + 1 = addrIndex + 2
      /\ Len(addrList) \in Nat
  OBVIOUS
<1>3. \A q \in ToSet(c.memory) : NextUse(addrList, q, addrIndex + 1) = NextUse(addrList, q, addrIndex + 2)
  BY <1>2, NextUseIs
<1>4. \A q : NextUse(addrList, q, addrIndex + 2) \in Nat /\ whenReferenced(q) = NextUse(addrList, q, addrIndex + 2)
  <2>1. \A q : NextUse(addrList, q, addrIndex + 2) \in addrIndex + 2 .. Len(addrList) + 1
    BY <1>2, NextUseIs
  <2>2. \A q : whenReferenced(q) = NextUse(addrList, q, addrIndex + 2)
    BY DEF whenReferenced, NextUse
  <2> QED
    BY <1>2, <2>1, <2>2
<1>5. \A q \in ToSet(c.memory) : NextUse(addrList, q, addrIndex + 2) <= NextUse(addrList, v, addrIndex + 2)
  BY <1>1, <1>4 DEF Later
<1> QED
  BY <1>3, <1>4, <1>5 DEF Near

LEMMA CacheTypes ==
    ASSUME NEW c, IsCache(c), HoldsOnce(c)
    PROVE  /\ Len(c.memory) \in Nat /\ c.cachesize \in Nat /\ c.miss \in Nat
           /\ Len(c.memory) <= c.cachesize
<1>1. c.memory \in Seq(Pages) /\ c.cachesize \in Nat /\ c.miss \in Nat
  BY DEF IsCache
<1> QED
  BY <1>1 DEF HoldsOnce

LEMMA BeladyStep ==
    ASSUME addrList \in Seq(Pages), addrIndex \in 0 .. Len(addrList) - 1,
           NEW a, IsCache(a), HoldsOnce(a), BitsOfPages(a), a.policy = "OPT",
           NEW b, IsCache(b), HoldsOnce(b), BitsOfPages(b),
           SameSize(a, b), Lead(addrList, a, b, addrIndex + 1),
           NEW x \in Access(a, addrList[addrIndex + 1]), NEW y \in Access(b, addrList[addrIndex + 1])
    PROVE  SameSize(x, y) /\ Lead(addrList, x, y, addrIndex + 2)
<1> DEFINE i == addrIndex + 1
           n == addrList[i]
           A == ToSet(a.memory)
           B == ToSet(b.memory)
<1>1. Len(addrList) \in Nat /\ i \in 1 .. Len(addrList) /\ n \in Pages /\ i + 1 = addrIndex + 2 /\ i - 1 = addrIndex
  OBVIOUS
<1>2. /\ Len(a.memory) \in Nat /\ Len(b.memory) \in Nat /\ a.cachesize \in Nat /\ a.miss \in Nat /\ b.miss \in Nat
      /\ Len(a.memory) <= a.cachesize /\ Len(b.memory) <= b.cachesize
  BY CacheTypes
<1>3. /\ n \in A => x.miss = a.miss /\ ToSet(x.memory) = A /\ Len(x.memory) = Len(a.memory)
      /\ n \notin A /\ Len(a.memory) < a.cachesize =>
           x.miss = a.miss + 1 /\ ToSet(x.memory) = A \cup {n} /\ Len(x.memory) = Len(a.memory) + 1
      /\ n \notin A /\ Len(a.memory) = a.cachesize => x.miss = a.miss + 1 /\ Len(x.memory) = Len(a.memory)
  BY <1>1, AccessSets
<1>4. /\ n \in B => y.miss = b.miss /\ ToSet(y.memory) = B /\ Len(y.memory) = Len(b.memory)
      /\ n \notin B /\ Len(b.memory) < b.cachesize =>
           y.miss = b.miss + 1 /\ ToSet(y.memory) = B \cup {n} /\ Len(y.memory) = Len(b.memory) + 1
      /\ n \notin B /\ Len(b.memory) = b.cachesize => y.miss = b.miss + 1 /\ Len(y.memory) = Len(b.memory)
  BY <1>1, AccessSets
<1>5. x.cachesize = a.cachesize /\ y.cachesize = b.cachesize
  BY <1>1, AccessIs
<1>6. IsFiniteSet(A) /\ Cardinality(A) = Len(a.memory) /\ IsFiniteSet(B) /\ Cardinality(B) = Len(b.memory)
  BY MemorySize
<1> HIDE DEF n, A, B
<1>9. SameSize(a, b) /\ (Len(a.memory) < a.cachesize => A = B)
  BY DEF SameSize, A, B
<1>10. Len(a.memory) < a.cachesize \/ Len(a.memory) = a.cachesize
  BY <1>2
<1>7. SameSize(x, y)
  <2>1. CASE Len(a.memory) = a.cachesize
    <3>1. Len(b.memory) = b.cachesize
      BY <1>9, <2>1 DEF SameSize
    <3>2. Len(x.memory) = Len(a.memory) /\ Len(y.memory) = Len(b.memory)
      BY <1>3, <1>4, <2>1, <3>1
    <3>3. ~ (Len(x.memory) < x.cachesize) /\ x.cachesize = y.cachesize /\ Len(x.memory) = Len(y.memory)
      BY <1>2, <1>5, <1>9, <2>1, <3>1, <3>2 DEF SameSize
    <3> QED
      BY <3>3 DEF SameSize
  <2>2. CASE Len(a.memory) < a.cachesize
    <3>1. Len(b.memory) < b.cachesize /\ A = B
      BY <1>9, <2>2 DEF SameSize
    <3>2. Len(x.memory) = Len(y.memory) /\ ToSet(x.memory) = ToSet(y.memory)
      BY <1>3, <1>4, <1>9, <2>2, <3>1 DEF SameSize
    <3> QED
      BY <1>5, <1>9, <3>2 DEF SameSize
  <2> QED
    BY <1>10, <2>1, <2>2
<1>8. ASSUME NEW t \in i .. Len(addrList) + 1
      PROVE  Cardinality(Near(addrList, ToSet(y.memory), i + 1, t)) - Cardinality(Near(addrList, ToSet(x.memory), i + 1, t))
               <= y.miss - x.miss
  <2> DEFINE na == Cardinality(Near(addrList, A, i, t))
             nb == Cardinality(Near(addrList, B, i, t))
  <2>1. na \in Nat /\ nb \in Nat /\ nb <= Cardinality(B) /\ Soon(addrList, n, i + 1, t) \in {0, 1}
    BY <1>6, NearFinite DEF Soon
  <2>2. PICK xa \in {0, 1} :
          /\ Cardinality(Near(addrList, ToSet(x.memory), i + 1, t)) = na - xa + Soon(addrList, n, i + 1, t)
          /\ n \in A => xa = 1
          /\ n \notin A /\ xa = 1 =>
               Len(a.memory) = a.cachesize /\ \E v \in Victims(a) : NextUse(addrList, v, i + 1) <= t
    BY <1>1, AccessCount DEF n, A
  <2>3. PICK xb \in {0, 1} :
          /\ Cardinality(Near(addrList, ToSet(y.memory), i + 1, t)) = nb - xb + Soon(addrList, n, i + 1, t)
          /\ n \in B => xb = 1
          /\ n \notin B /\ Len(b.memory) = b.cachesize => nb - xb <= Cardinality(B) - 1
    BY <1>1, AccessCount DEF n, B
  <2>4. nb - na <= b.miss - a.miss
    BY <1>1 DEF Lead, A, B
  <2>5. n \in B /\ n \notin A => b.miss - a.miss >= 1
    <3> SUFFICES ASSUME n \in B, n \notin A PROVE b.miss - a.miss >= 1
      OBVIOUS
    <3>1. \A q : NextUse(addrList, q, i) \in Nat /\ (NextUse(addrList, q, i) <= i <=> q = n)
      <4>1. i \in 1 .. Len(addrList) + 1 /\ i + 1 \in 1 .. Len(addrList) + 1 /\ i <= Len(addrList)
        BY <1>1
      <4>2. NextUse(addrList, n, i) = i
        BY <1>1, <4>1, NextUseIs DEF n
      <4>3. ASSUME NEW q, q # n PROVE NextUse(addrList, q, i) \in i + 1 .. Len(addrList) + 1
        <5>1. NextUse(addrList, q, i) = NextUse(addrList, q, i + 1)
          BY <4>1, <4>3, NextUseIs DEF n
        <5> QED
          BY <4>1, <5>1, NextUseIs
      <4> QED
        BY <1>1, <4>2, <4>3
    <3>2. Near(addrList, A, i, i) = {} /\ Near(addrList, B, i, i) = {n}
      BY <3>1 DEF Near
    <3>3. Cardinality(Near(addrList, A, i, i)) = 0 /\ Cardinality(Near(addrList, B, i, i)) = 1
      BY <3>2, FS_EmptySet, FS_Singleton
    <3>4. Cardinality(Near(addrList, B, i, i)) - Cardinality(Near(addrList, A, i, i)) <= b.miss - a.miss
      BY <1>1 DEF Lead, A, B
    <3> QED
      BY <1>2, <3>3, <3>4
  <2>6. a.miss <= b.miss
    <3>1. \A q : NextUse(addrList, q, i) \in i .. Len(addrList) + 1
      BY <1>1, NextUseIs
    <3>2. Near(addrList, A, i, i - 1) = {} /\ Near(addrList, B, i, i - 1) = {}
      BY <1>1, <3>1 DEF Near
    <3>3. Cardinality(Near(addrList, A, i, i - 1)) = 0 /\ Cardinality(Near(addrList, B, i, i - 1)) = 0
      BY <3>2, FS_EmptySet
    <3>4. Cardinality(Near(addrList, B, i, i - 1)) - Cardinality(Near(addrList, A, i, i - 1)) <= b.miss - a.miss
      BY <1>1 DEF Lead, A, B
    <3> QED
      BY <1>2, <3>3, <3>4
  <2>7. n \notin A /\ xa = 1 => na = Cardinality(A) /\ Cardinality(B) = Cardinality(A)
    <3> SUFFICES ASSUME n \notin A, xa = 1 PROVE na = Cardinality(A) /\ Cardinality(B) = Cardinality(A)
      OBVIOUS
    <3>1. PICK v \in Victims(a) : NextUse(addrList, v, i + 1) <= t
      BY <2>2
    <3>2. Near(addrList, A, i, t) = A
      BY <1>1, <3>1, OptVictim DEF n, A
    <3> QED
      BY <1>6, <3>2 DEF SameSize
  <2>8. (n \in A => x.miss = a.miss) /\ (n \notin A => x.miss = a.miss + 1)
        /\ (n \in B => y.miss = b.miss) /\ (n \notin B => y.miss = b.miss + 1)
    <3>1. Len(b.memory) < b.cachesize \/ Len(b.memory) = b.cachesize
      BY <1>2, <1>9 DEF SameSize
    <3> QED
      BY <1>3, <1>4, <1>10, <3>1
  <2> HIDE DEF na, nb, i
  <2>9. nb - xb - (na - xa) <= y.miss - x.miss
    <3>1. CASE n \in A /\ n \in B
      BY <1>2, <2>1, <2>2, <2>3, <2>4, <2>8, <3>1
    <3>2. CASE n \in A /\ n \notin B
      <4>1. xa = 1 /\ y.miss - x.miss = b.miss - a.miss + 1
        <5>1. xa = 1 /\ x.miss = a.miss /\ y.miss = b.miss + 1
          BY <2>2, <2>8, <3>2
        <5>2. a.miss \in Int /\ b.miss \in Int
          BY <1>2
        <5> QED
          BY ONLY <5>1, <5>2
      <4>2. nb - xb <= nb /\ na - xa = na - 1
        BY <2>1, <2>3, <4>1
      <4> HIDE DEF A, B
      <4> QED
        BY <1>2, <2>1, <2>3, <2>4, <4>1, <4>2
    <3>3. CASE n \notin A /\ n \in B
      <4>1. CASE xa = 0
        <5>1. x.miss = a.miss + 1 /\ y.miss = b.miss /\ xb = 1
          BY <2>3, <2>8, <3>3
        <5>2. y.miss - x.miss = b.miss - a.miss - 1
          BY <1>2, <5>1
        <5>3. nb - xb - (na - xa) = nb - na - 1
          BY <2>1, <4>1, <5>1
        <5> HIDE DEF A, B
        <5> QED
          BY <1>2, <2>1, <2>4, <5>2, <5>3
      <4>2. CASE xa = 1
        <5>1. xb = 1 /\ nb - xb = nb - 1 /\ na - xa = na - 1
          BY <2>1, <2>3, <3>3, <4>2
        <5>2. nb <= na
          BY <2>1, <2>7, <3>3, <4>2
        <5>3. y.miss - x.miss = b.miss - a.miss - 1 /\ b.miss - a.miss >= 1
          BY <1>2, <2>5, <2>8, <3>3
        <5> QED
          BY <1>2, <2>1, <5>1, <5>2, <5>3
      <4> QED
        BY <2>2, <4>1, <4>2
    <3>4. CASE n \notin A /\ n \notin B
      <4>1. CASE xa = 0
        <5>1. y.miss - x.miss = b.miss - a.miss
          BY <1>2, <2>8, <3>4
        <5>2. nb - xb - (na - xa) <= nb - na
          BY <2>1, <2>3, <4>1
        <5> QED
          BY <1>2, <2>1, <2>3, <2>4, <4>1, <5>1, <5>2
      <4>2. CASE xa = 1
        <5>1. Len(b.memory) = b.cachesize
          BY <2>2, <3>4, <4>2, <1>9 DEF SameSize
        <5> QED
          <6>1. nb - xb <= na - 1
            BY <1>2, <1>6, <2>3, <2>7, <3>4, <4>2, <5>1
          <6>2. y.miss - x.miss = b.miss - a.miss
            BY <1>2, <2>8, <3>4
          <6> QED
            BY <1>2, <2>1, <2>3, <2>6, <4>2, <6>1, <6>2
      <4> QED
        BY <2>2, <4>1, <4>2
    <3> QED
      BY <3>1, <3>2, <3>3, <3>4
  <2> QED
    BY <2>1, <2>2, <2>3, <2>9
<1> QED
  BY <1>1, <1>7, <1>8 DEF Lead

LEMMA LeadMisses ==
    ASSUME addrList \in Seq(Pages), NEW i \in 1 .. Len(addrList) + 1,
           NEW a, IsCache(a), NEW b, IsCache(b), Lead(addrList, a, b, i)
    PROVE  a.miss <= b.miss
<1>1. i - 1 \in i - 1 .. Len(addrList) + 1 /\ Len(addrList) \in Nat
  OBVIOUS
<1>2. \A q : NextUse(addrList, q, i) \in i .. Len(addrList) + 1
  BY NextUseIs
<1>3. Near(addrList, ToSet(a.memory), i, i - 1) = {} /\ Near(addrList, ToSet(b.memory), i, i - 1) = {}
  BY <1>1, <1>2 DEF Near
<1>4. 0 - 0 <= b.miss - a.miss
  BY <1>1, <1>3, FS_EmptySet DEF Lead
<1> QED
  BY <1>4 DEF IsCache

-----------------------------------------------------------------------------
\* With LRU the page referenced comes to the end, and the one at place p leaves: the
\* page itself, or the first.
LEMMA LruAccess ==
    ASSUME NEW c, IsCache(c), HoldsOnce(c), BitsOfPages(c), c.policy = "LRU",
           NEW n \in Pages, NEW d \in Access(c, n)
    PROVE  /\ n \notin ToSet(c.memory) /\ Len(c.memory) < c.cachesize =>
                /\ Len(d.memory) = Len(c.memory) + 1 /\ d.memory[Len(c.memory) + 1] = n
                /\ \A k \in 1 .. Len(c.memory) : d.memory[k] = c.memory[k]
           /\ n \notin ToSet(c.memory) /\ Len(c.memory) = c.cachesize =>
                /\ Len(d.memory) = Len(c.memory)
                /\ \A k \in 1 .. Len(c.memory) :
                     d.memory[k] = IF k < Len(c.memory) THEN c.memory[k + 1] ELSE n
           /\ \A p \in 1 .. Len(c.memory) : c.memory[p] = n =>
                /\ Len(d.memory) = Len(c.memory)
                /\ \A k \in 1 .. Len(c.memory) :
                     d.memory[k] = IF k < p THEN c.memory[k] ELSE IF k < Len(c.memory) THEN c.memory[k + 1] ELSE n
<1>1. /\ c.memory \in Seq(Pages) /\ IsInjective(c.memory) /\ Len(c.memory) \in Nat
      /\ c.cachesize \in Nat \ {0}
  BY DEF IsCache, HoldsOnce
<1>2. ASSUME n \notin ToSet(c.memory), Len(c.memory) < c.cachesize
      PROVE  /\ Len(d.memory) = Len(c.memory) + 1 /\ d.memory[Len(c.memory) + 1] = n
             /\ \A k \in 1 .. Len(c.memory) : d.memory[k] = c.memory[k]
  <2>1. d.memory = Append(c.memory, n)
    BY <1>2, AccessIs
  <2> QED
    BY <1>1, <1>2, <2>1, Added
<1>3. ASSUME n \notin ToSet(c.memory), Len(c.memory) = c.cachesize
      PROVE  /\ Len(d.memory) = Len(c.memory)
             /\ \A k \in 1 .. Len(c.memory) :
                  d.memory[k] = IF k < Len(c.memory) THEN c.memory[k + 1] ELSE n
  <2>1. \E v \in Victims(c) \cap ToSet(c.memory) : d.memory = Shift(c.memory, Position(c, v), n)
    BY <1>3, AccessIs
  <2>2. PICK v \in Victims(c) \cap ToSet(c.memory) : d.memory = Shift(c.memory, Position(c, v), n)
    BY <2>1
  <2>3. v = c.memory[1]
    BY <1>1, <2>2 DEF Victims
  <2>4. Position(c, v) \in 1 .. Len(c.memory) /\ c.memory[Position(c, v)] = v
    BY <1>1, <2>2, PositionIs
  <2>5. Position(c, v) = 1
    BY <1>1, <1>3, <2>3, <2>4 DEF IsInjective
  <2>6. /\ Len(d.memory) = Len(c.memory)
        /\ \A k \in 1 .. Len(c.memory) :
             d.memory[k] = IF k < Position(c, v) THEN c.memory[k] ELSE IF k < Len(c.memory) THEN c.memory[k + 1] ELSE n
    <3>1. PICK p \in 1 .. Len(c.memory) : p = Position(c, v)
      BY <2>4
    <3>2. c.memory \in Seq(Pages) /\ IsInjective(c.memory) /\ n \notin ToSet(c.memory)
      BY <1>1, <1>3
    <3>3. /\ Len(Shift(c.memory, p, n)) = Len(c.memory)
          /\ \A k \in 1 .. Len(c.memory) :
               Shift(c.memory, p, n)[k] =
                 IF k < p THEN c.memory[k] ELSE IF k < Len(c.memory) THEN c.memory[k + 1] ELSE n
      BY <3>2, Replaced
    <3> QED
      BY <2>2, <3>1, <3>3
  <2> QED
    BY <1>1, <2>5, <2>6
<1>4. ASSUME NEW p \in 1 .. Len(c.memory), c.memory[p] = n
      PROVE  /\ Len(d.memory) = Len(c.memory)
             /\ \A k \in 1 .. Len(c.memory) :
                  d.memory[k] = IF k < p THEN c.memory[k] ELSE IF k < Len(c.memory) THEN c.memory[k + 1] ELSE n
  <2>1. n \in ToSet(c.memory)
    BY <1>1, <1>4 DEF ToSet
  <2>2. d.memory = Shift(c.memory, Position(c, n), n)
    BY <2>1, AccessIs
  <2>3. Position(c, n) \in 1 .. Len(c.memory) /\ c.memory[Position(c, n)] = n
    BY <1>1, <2>1, PositionIs
  <2>4. Position(c, n) = p
    BY <1>1, <1>4, <2>3 DEF IsInjective
  <2> QED
    BY <1>1, <1>4, <2>2, <2>3, <2>4, Replaced
<1> QED
  BY <1>2, <1>3, <1>4

\* The smaller cache holds the last pages of the larger, which is fuller by one
\* place at most, and then both are full.
EndOf(a, b) ==
    /\ a.cachesize = b.cachesize + 1
    /\ Len(a.memory) = Len(b.memory) \/ (Len(a.memory) = a.cachesize /\ Len(b.memory) = b.cachesize)
    /\ \A k \in 1 .. Len(b.memory) : b.memory[k] = a.memory[k + (Len(a.memory) - Len(b.memory))]

LEMMA LruStep ==
    ASSUME NEW a, IsCache(a), HoldsOnce(a), BitsOfPages(a), a.policy = "LRU",
           NEW b, IsCache(b), HoldsOnce(b), BitsOfPages(b), b.policy = "LRU",
           EndOf(a, b), NEW n \in Pages, NEW x \in Access(a, n), NEW y \in Access(b, n)
    PROVE  EndOf(x, y)
<1> DEFINE la == Len(a.memory)
           lb == Len(b.memory)
<1>1. /\ la \in Nat /\ lb \in Nat /\ a.cachesize \in Nat \ {0} /\ b.cachesize \in Nat \ {0}
      /\ la <= a.cachesize /\ lb <= b.cachesize /\ a.cachesize = b.cachesize + 1
      /\ la = lb \/ (la = lb + 1 /\ lb = b.cachesize)
      /\ \A j, k \in 1 .. la : a.memory[j] = a.memory[k] => j = k
  BY DEF IsCache, HoldsOnce, EndOf, IsInjective
<1>2. x.cachesize = a.cachesize /\ y.cachesize = b.cachesize
  BY AccessIs
<1>3. \A k \in 1 .. lb : b.memory[k] = a.memory[k + (la - lb)]
  BY DEF EndOf
<1>4. /\ n \notin ToSet(a.memory) /\ la < a.cachesize =>
            /\ Len(x.memory) = la + 1 /\ x.memory[la + 1] = n
            /\ \A k \in 1 .. la : x.memory[k] = a.memory[k]
      /\ n \notin ToSet(a.memory) /\ la = a.cachesize =>
            /\ Len(x.memory) = la
            /\ \A k \in 1 .. la : x.memory[k] = IF k < la THEN a.memory[k + 1] ELSE n
  BY LruAccess
<1>5. ASSUME NEW p \in 1 .. la, a.memory[p] = n
      PROVE  /\ Len(x.memory) = la
             /\ \A k \in 1 .. la :
                  x.memory[k] = IF k < p THEN a.memory[k] ELSE IF k < la THEN a.memory[k + 1] ELSE n
  BY <1>5, LruAccess
<1>6. /\ n \notin ToSet(b.memory) /\ lb < b.cachesize =>
            /\ Len(y.memory) = lb + 1 /\ y.memory[lb + 1] = n
            /\ \A k \in 1 .. lb : y.memory[k] = b.memory[k]
      /\ n \notin ToSet(b.memory) /\ lb = b.cachesize =>
            /\ Len(y.memory) = lb
            /\ \A k \in 1 .. lb : y.memory[k] = IF k < lb THEN b.memory[k + 1] ELSE n
  BY LruAccess
<1>7. ASSUME NEW p \in 1 .. lb, b.memory[p] = n
      PROVE  /\ Len(y.memory) = lb
             /\ \A k \in 1 .. lb :
                  y.memory[k] = IF k < p THEN b.memory[k] ELSE IF k < lb THEN b.memory[k + 1] ELSE n
  BY <1>7, LruAccess
<1>8. (n \in ToSet(a.memory) <=> \E p \in 1 .. la : a.memory[p] = n)
      /\ (n \in ToSet(b.memory) <=> \E p \in 1 .. lb : b.memory[p] = n)
  <2>1. a.memory \in Seq(Pages) /\ b.memory \in Seq(Pages)
    BY DEF IsCache
  <2>2. DOMAIN a.memory = 1 .. la /\ DOMAIN b.memory = 1 .. lb
    BY <2>1
  <2> HIDE DEF la, lb
  <2> QED
    BY <2>2 DEF ToSet
<1> HIDE DEF la, lb
<1>9. SUFFICES /\ Len(x.memory) = Len(y.memory)
                    \/ (Len(x.memory) = a.cachesize /\ Len(y.memory) = b.cachesize)
               /\ \A k \in 1 .. Len(y.memory) : y.memory[k] = x.memory[k + (Len(x.memory) - Len(y.memory))]
  BY <1>1, <1>2 DEF EndOf
<1>10. CASE n \in ToSet(b.memory)
  <2>1. PICK p \in 1 .. lb : b.memory[p] = n
    BY <1>8, <1>10
  <2>2. p + (la - lb) \in 1 .. la /\ a.memory[p + (la - lb)] = n
    BY <1>1, <1>3, <2>1
  <2>3. Len(y.memory) = lb /\ Len(x.memory) = la
    BY <1>5, <1>7, <2>1, <2>2
  <2>4. ASSUME NEW k \in 1 .. lb PROVE y.memory[k] = x.memory[k + (la - lb)]
    <3>1. y.memory[k] = IF k < p THEN b.memory[k] ELSE IF k < lb THEN b.memory[k + 1] ELSE n
      BY <1>7, <2>1
    <3>2. \A j \in 1 .. la :
            x.memory[j] = IF j < p + (la - lb) THEN a.memory[j] ELSE IF j < la THEN a.memory[j + 1] ELSE n
      BY <1>5, <2>2
    <3>3. x.memory[k + (la - lb)] = IF k + (la - lb) < p + (la - lb) THEN a.memory[k + (la - lb)]
                                    ELSE IF k + (la - lb) < la THEN a.memory[k + (la - lb) + 1] ELSE n
      BY <1>1, <3>2
    <3> QED
      BY <1>1, <1>3, <3>1, <3>3
  <2> QED
    BY <1>1, <2>3, <2>4
<1>11. CASE n \notin ToSet(b.memory) /\ n \in ToSet(a.memory)
  <2>1. PICK p \in 1 .. la : a.memory[p] = n
    BY <1>8, <1>11
  <2>2. p = 1 /\ la = lb + 1 /\ lb = b.cachesize
    <3>1. ASSUME p - (la - lb) \in 1 .. lb PROVE FALSE
      <4>1. b.memory[p - (la - lb)] = a.memory[(p - (la - lb)) + (la - lb)]
        BY <1>3, <3>1
      <4>2. (p - (la - lb)) + (la - lb) = p
        BY <1>1
      <4> QED
        BY <1>8, <1>11, <2>1, <3>1, <4>1, <4>2
    <3> QED
      BY <1>1, <3>1
  <2>3. Len(x.memory) = la /\ \A j \in 1 .. la : x.memory[j] = IF j < la THEN a.memory[j + 1] ELSE n
    BY <1>1, <1>5, <2>1, <2>2
  <2>4. Len(y.memory) = lb /\ \A k \in 1 .. lb : y.memory[k] = IF k < lb THEN b.memory[k + 1] ELSE n
    BY <1>6, <1>11, <2>2
  <2>5. ASSUME NEW k \in 1 .. lb PROVE y.memory[k] = x.memory[k + (la - lb)]
    <3>0. k + 1 \in 1 .. la
      BY <1>1, <2>2
    <3>1. x.memory[k + 1] = IF k + 1 < la THEN a.memory[(k + 1) + 1] ELSE n
      BY <2>3, <3>0
    <3>2. k < lb => b.memory[k + 1] = a.memory[(k + 1) + 1]
      BY <1>1, <1>3, <2>2
    <3>3. la - lb = 1 /\ (k < lb <=> k + 1 < la)
      BY <1>1, <2>2
    <3> QED
      BY <2>4, <3>1, <3>2, <3>3
  <2> QED
    BY <1>1, <2>2, <2>3, <2>4, <2>5
<1>12. CASE n \notin ToSet(b.memory) /\ n \notin ToSet(a.memory)
  <2>1. CASE lb < b.cachesize
    <3>1. la = lb /\ la < a.cachesize
      BY <1>1, <2>1
    <3>2. Len(x.memory) = la + 1 /\ x.memory[la + 1] = n /\ \A k \in 1 .. la : x.memory[k] = a.memory[k]
      BY <1>4, <1>12, <3>1
    <3>3. Len(y.memory) = lb + 1 /\ y.memory[lb + 1] = n /\ \A k \in 1 .. lb : y.memory[k] = b.memory[k]
      BY <1>6, <1>12, <2>1
    <3>4. \A k \in 1 .. lb : b.memory[k] = a.memory[k]
      BY <1>1, <1>3, <3>1
    <3>5. ASSUME NEW k \in 1 .. lb + 1 PROVE y.memory[k] = x.memory[k]
      <4>1. CASE k = lb + 1
        BY <3>1, <3>2, <3>3, <4>1
      <4>2. CASE k \in 1 .. lb
        BY <3>1, <3>2, <3>3, <3>4, <4>2
      <4> QED
        BY <1>1, <4>1, <4>2
    <3>6. Len(x.memory) = Len(y.memory) /\ Len(y.memory) = lb + 1 /\ Len(x.memory) - Len(y.memory) = 0
      BY <1>1, <3>1, <3>2, <3>3
    <3>7. ASSUME NEW k \in 1 .. lb + 1 PROVE k + 0 = k
      BY <1>1
    <3> QED
      BY <3>5, <3>6, <3>7
  <2>2. CASE lb = b.cachesize /\ la = lb
    <3>1. Len(x.memory) = la + 1 /\ x.memory[la + 1] = n /\ \A k \in 1 .. la : x.memory[k] = a.memory[k]
      BY <1>1, <1>4, <1>12, <2>2
    <3>2. Len(y.memory) = lb /\ \A k \in 1 .. lb : y.memory[k] = IF k < lb THEN b.memory[k + 1] ELSE n
      BY <1>6, <1>12, <2>2
    <3>3. ASSUME NEW k \in 1 .. lb PROVE y.memory[k] = x.memory[k + 1]
      <4>1. CASE k < lb
        <5>1. k + 1 \in 1 .. lb /\ (k + 1) + (la - lb) = k + 1
          BY <1>1, <2>2, <4>1
        <5> QED
          BY <1>3, <2>2, <3>1, <3>2, <4>1, <5>1
      <4>2. CASE k = lb
        BY <2>2, <3>1, <3>2, <4>2
      <4> QED
        BY <1>1, <4>1, <4>2
    <3>4. Len(x.memory) - Len(y.memory) = 1 /\ Len(x.memory) = a.cachesize
      BY <1>1, <2>2, <3>1, <3>2
    <3> QED
      BY <2>2, <3>2, <3>3, <3>4
  <2>3. CASE lb = b.cachesize /\ la = lb + 1
    <3>1. Len(x.memory) = la /\ \A k \in 1 .. la : x.memory[k] = IF k < la THEN a.memory[k + 1] ELSE n
      BY <1>1, <1>4, <1>12, <2>3
    <3>2. Len(y.memory) = lb /\ \A k \in 1 .. lb : y.memory[k] = IF k < lb THEN b.memory[k + 1] ELSE n
      BY <1>6, <1>12, <2>3
    <3>3. ASSUME NEW k \in 1 .. lb PROVE y.memory[k] = x.memory[k + 1]
      <4>0. k + 1 \in 1 .. la
        BY <1>1, <2>3
      <4>1. CASE k < lb
        <5>1. k + 1 \in 1 .. lb /\ (k + 1) + (la - lb) = (k + 1) + 1 /\ k + 1 < la
          BY <1>1, <2>3, <4>1
        <5> QED
          BY <1>3, <3>1, <3>2, <4>0, <4>1, <5>1
      <4>2. CASE k = lb
        <5>1. ~ (k < lb) /\ ~ (k + 1 < la)
          BY <1>1, <2>3, <4>2
        <5> QED
          BY <3>1, <3>2, <4>0, <5>1
      <4> QED
        BY <1>1, <4>1, <4>2
    <3>4. Len(x.memory) - Len(y.memory) = 1 /\ Len(x.memory) = a.cachesize
      BY <1>1, <2>3, <3>1, <3>2
    <3> QED
      BY <2>3, <3>2, <3>3, <3>4
  <2>4. lb < b.cachesize \/ (lb = b.cachesize /\ la = lb) \/ (lb = b.cachesize /\ la = lb + 1)
    BY <1>1
  <2> QED
    BY <2>1, <2>2, <2>3, <2>4
<1> QED
  BY <1>10, <1>11, <1>12

\* The trace, how far it has come, and what the caches hold; OPT against any
\* policy; LRU against LRU.
PageInv ==
    /\ addrList \in Seq(Pages) /\ addrIndex \in 0 .. Len(addrList)
    /\ caches = <<caches[1], caches[2]>>
    /\ \A i \in {1, 2} : IsCache(caches[i]) /\ HoldsOnce(caches[i]) /\ BitsOfPages(caches[i])
    /\ caches[1].policy = "OPT" =>
         SameSize(caches[1], caches[2]) /\ Lead(addrList, caches[1], caches[2], addrIndex + 1)
    /\ caches[1].policy = "LRU" => caches[2].policy = "LRU" /\ EndOf(caches[1], caches[2])

LEMMA PageInvImplies == PageInv => UseBitsFollowMemory /\ OptimalAndInclusive
<1> SUFFICES ASSUME PageInv PROVE UseBitsFollowMemory /\ OptimalAndInclusive
  OBVIOUS
<1>1. UseBitsFollowMemory
  <2>1. DOMAIN caches = {1, 2}
    BY DEF PageInv
  <2> QED
    BY <2>1 DEF PageInv, UseBitsFollowMemory, HoldsOnce, BitsOfPages
<1>2. ASSUME caches[1].policy = "OPT" PROVE caches[1].miss <= caches[2].miss
  <2>1. addrIndex + 1 \in 1 .. Len(addrList) + 1
    BY DEF PageInv
  <2> QED
    BY <1>2, <2>1, LeadMisses DEF PageInv
<1>3. ASSUME caches[1].policy = "LRU" PROVE ToSet(caches[2].memory) \subseteq ToSet(caches[1].memory)
  <2> DEFINE a == caches[1]
             b == caches[2]
  <2>1. /\ Len(a.memory) \in Nat /\ Len(b.memory) \in Nat /\ a.cachesize \in Nat /\ b.cachesize \in Nat
        /\ a.memory \in Seq(Pages) /\ b.memory \in Seq(Pages) /\ EndOf(a, b)
    BY <1>3 DEF PageInv, IsCache
  <2> HIDE DEF a, b
  <2>2. Len(b.memory) <= Len(a.memory)
    BY <2>1 DEF EndOf
  <2>3. ToSet(b.memory) \subseteq ToSet(a.memory)
    <3>6. DOMAIN b.memory = 1 .. Len(b.memory)
      BY <2>1
    <3> SUFFICES ASSUME NEW k \in 1 .. Len(b.memory) PROVE b.memory[k] \in ToSet(a.memory)
      BY <3>6, Zenon DEF ToSet
    <3>1. b.memory[k] = a.memory[k + (Len(a.memory) - Len(b.memory))]
      BY <2>1 DEF EndOf
    <3>2. ASSUME NEW la \in Nat, NEW lb \in Nat, lb <= la, NEW j \in 1 .. lb
          PROVE  j + (la - lb) \in 1 .. la
      BY <3>2
    <3>4. Len(a.memory) \in Nat /\ Len(b.memory) \in Nat /\ DOMAIN a.memory = 1 .. Len(a.memory)
      BY <2>1
    <3>5. k + (Len(a.memory) - Len(b.memory)) \in 1 .. Len(a.memory)
      BY <2>2, <3>2, <3>4
    <3>3. k + (Len(a.memory) - Len(b.memory)) \in DOMAIN a.memory
      BY <3>4, <3>5
    <3> QED
      BY <3>1, <3>3 DEF ToSet
  <2> QED
    BY <2>3 DEF a, b
<1> QED
  BY <1>1, <1>2, <1>3 DEF OptimalAndInclusive

LEMMA EmptyIs ==
    ASSUME NEW policy \in PagePolicies, NEW size \in Nat \ {0}
    PROVE  LET c == Empty(policy, size)
           IN  /\ IsCache(c) /\ HoldsOnce(c) /\ BitsOfPages(c)
               /\ c.policy = policy /\ c.cachesize = size /\ c.memory = <<>> /\ c.miss = 0
<1> DEFINE c == Empty(policy, size)
<1>1. /\ c.policy = policy /\ c.cachesize = size /\ c.memory = <<>> /\ c.miss = 0 /\ c.hits = 0 /\ c.ref = <<>>
      /\ c = [policy |-> c.policy, cachesize |-> c.cachesize, memory |-> c.memory, ref |-> c.ref,
              hits |-> c.hits, miss |-> c.miss]
  BY DEF Empty
<1> HIDE DEF c
<1>2. IsCache(c)
  BY <1>1 DEF IsCache
<1>3. HoldsOnce(c)
  BY <1>1 DEF HoldsOnce, IsInjective
<1>4. DOMAIN c.ref = {} /\ ToSet(c.memory) = {}
  BY <1>1 DEF ToSet
<1>5. BitsOfPages(c)
  BY <1>4 DEF BitsOfPages
<1> QED
  BY <1>1, <1>2, <1>3, <1>5 DEF c

LEMMA PageInitHolds == PageInit => PageInv
<1> SUFFICES ASSUME PageInit PROVE PageInv
  OBVIOUS
<1>1. addrList \in Seq(Pages) /\ addrIndex = 0
  <2>1. PICK m \in 1 .. MaxTrace : addrList \in [1 .. m -> 1 .. NumPages]
    BY DEF PageInit, Traces
  <2>2. m \in Nat
    BY <2>1
  <2> QED
    BY <2>1, <2>2 DEF PageInit, Pages
<1>2. addrIndex \in 0 .. Len(addrList)
  BY <1>1
<1>3. PICK size \in CacheSizes :
         \/ \E policy \in PagePolicies : caches = <<Empty("OPT", size), Empty(policy, size)>>
         \/ caches = <<Empty("LRU", size + 1), Empty("LRU", size)>>
  BY DEF PageInit
<1>4. size \in Nat \ {0} /\ size + 1 \in Nat \ {0}
  OBVIOUS
<1>5. ASSUME NEW policy \in PagePolicies, caches = <<Empty("OPT", size), Empty(policy, size)>>
      PROVE  PageInv
  <2> DEFINE a == Empty("OPT", size)
             b == Empty(policy, size)
  <2>1. caches = <<a, b>>
    BY <1>5
  <2>2. /\ IsCache(a) /\ HoldsOnce(a) /\ BitsOfPages(a)
        /\ a.policy = "OPT" /\ a.cachesize = size /\ a.memory = <<>> /\ a.miss = 0
        /\ IsCache(b) /\ HoldsOnce(b) /\ BitsOfPages(b)
        /\ b.policy = policy /\ b.cachesize = size /\ b.memory = <<>> /\ b.miss = 0
    BY <1>4, EmptyIs DEF PagePolicies
  <2> HIDE DEF a, b
  <2>3. ToSet(a.memory) = ToSet(b.memory) /\ SameSize(a, b)
    BY <2>2 DEF SameSize
  <2>4. Lead(addrList, a, b, addrIndex + 1)
    <3>1. a.memory = b.memory
      BY <2>2
    <3>2. ToSet(a.memory) = {} /\ IsFiniteSet({})
      BY <2>2, FS_EmptySet DEF ToSet
    <3>3. \A t : Near(addrList, {}, addrIndex + 1, t) = {}
      BY DEF Near
    <3>4. \A t : Cardinality(Near(addrList, ToSet(b.memory), addrIndex + 1, t))
                   - Cardinality(Near(addrList, ToSet(a.memory), addrIndex + 1, t)) = 0
      BY <3>1, <3>2, <3>3, FS_EmptySet
    <3>5. b.miss - a.miss = 0
      BY <2>2
    <3> QED
      BY <3>4, <3>5 DEF Lead
  <2>5. caches[1] = a /\ caches[2] = b
    BY <2>1
  <2> QED
    BY <1>1, <1>2, <2>1, <2>2, <2>3, <2>4, <2>5 DEF PageInv
<1>6. ASSUME caches = <<Empty("LRU", size + 1), Empty("LRU", size)>>
      PROVE  PageInv
  <2> DEFINE a == Empty("LRU", size + 1)
             b == Empty("LRU", size)
  <2>1. caches = <<a, b>>
    BY <1>6
  <2>2. /\ IsCache(a) /\ HoldsOnce(a) /\ BitsOfPages(a)
        /\ a.policy = "LRU" /\ a.cachesize = size + 1 /\ a.memory = <<>>
        /\ IsCache(b) /\ HoldsOnce(b) /\ BitsOfPages(b)
        /\ b.policy = "LRU" /\ b.cachesize = size /\ b.memory = <<>>
    BY <1>4, EmptyIs DEF PagePolicies
  <2> HIDE DEF a, b
  <2>3. EndOf(a, b)
    BY <2>2 DEF EndOf
  <2>5. caches[1] = a /\ caches[2] = b
    BY <2>1
  <2> QED
    BY <1>1, <1>2, <2>1, <2>2, <2>3, <2>5 DEF PageInv
<1> QED
  BY <1>3, <1>5, <1>6

LEMMA ReferenceHolds == ASSUME PageInv, Reference PROVE PageInv'
<1> DEFINE a == caches[1]
           b == caches[2]
           n == addrList[addrIndex + 1]
<1>1. /\ addrIndex \in 0 .. Len(addrList) - 1 /\ addrList \in Seq(Pages) /\ n \in Pages
      /\ addrIndex' = addrIndex + 1 /\ addrList' = addrList
  BY DEF PageInv, Reference
<1>2. /\ IsCache(a) /\ HoldsOnce(a) /\ BitsOfPages(a)
      /\ IsCache(b) /\ HoldsOnce(b) /\ BitsOfPages(b)
      /\ a.policy = "OPT" => SameSize(a, b) /\ Lead(addrList, a, b, addrIndex + 1)
      /\ a.policy = "LRU" => b.policy = "LRU" /\ EndOf(a, b)
  BY DEF PageInv
<1>3. \E x \in Access(a, n), y \in Access(b, n) : caches' = <<x, y>>
  BY DEF Reference
<1>4. PICK x \in Access(a, n) : \E y \in Access(b, n) : caches' = <<x, y>>
  BY <1>3
<1>5. PICK y \in Access(b, n) : caches' = <<x, y>>
  BY <1>4
<1> HIDE DEF a, b
<1>6. /\ IsCache(x) /\ HoldsOnce(x) /\ BitsOfPages(x) /\ x.policy = a.policy
      /\ IsCache(y) /\ HoldsOnce(y) /\ BitsOfPages(y) /\ y.policy = b.policy
  BY <1>1, <1>2, AccessIs
<1>7. x.policy = "OPT" => SameSize(x, y) /\ Lead(addrList, x, y, addrIndex + 2)
  BY <1>1, <1>2, <1>6, BeladyStep
<1>8. x.policy = "LRU" => y.policy = "LRU" /\ EndOf(x, y)
  BY <1>1, <1>2, <1>6, LruStep
<1>9. caches'[1] = x /\ caches'[2] = y /\ caches' = <<caches'[1], caches'[2]>>
  BY <1>5
<1>10. addrIndex' + 1 = addrIndex + 2 /\ addrIndex' \in 0 .. Len(addrList')
  BY <1>1
<1>11. x.policy = "OPT" => Lead(addrList', x, y, addrIndex' + 1)
  BY <1>1, <1>7, <1>10
<1> QED
  BY <1>1, <1>6, <1>8, <1>9, <1>7, <1>10, <1>11 DEF PageInv

-----------------------------------------------------------------------------
(* fork.py.                                                                *)

HIDE PageAssumption

\* The two tables agree, a parent has the smaller name, and both it and its child
\* live; of those that live only the root has no parent.
TreeInv ==
    /\ rules \in [local_reparent : BOOLEAN, leaf_only : BOOLEAN]
    /\ curr_index \in 1 .. MaxNames
    /\ process_list \subseteq 0 .. curr_index - 1 /\ root_name \in process_list
    /\ children \in [Names -> SUBSET Names]
    /\ parents \in [Names -> Names \cup {Gone}]
    /\ \A p, q \in Names : q \in children[p] <=> parents[q] = p
    /\ \A q \in Names : parents[q] # Gone => parents[q] < q /\ parents[q] \in process_list /\ q \in process_list
    /\ \A q \in process_list : parents[q] = Gone <=> q = root_name

Closed(S) == \A x \in S : children[x] \subseteq S

\* What collect_children finds: the process, its children, theirs, and nobody else.
LEMMA Collects ==
    ASSUME TreeInv, NEW p \in Names
    PROVE  /\ p \in collect_children(p)
           /\ collect_children(p) \subseteq {r \in Names : p <= r}
           /\ Closed(collect_children(p))
           /\ \A r \in collect_children(p) \ {p} : parents[r] \in collect_children(p)
<1> DEFINE IsTree(f) == f = [q \in Names |-> {q} \cup UNION {f[c] : c \in children[q]}]
           tree == CHOOSE f : IsTree(f)
           Under(q) == {r \in Names : \A S \in SUBSET Names : q \in S /\ Closed(S) => r \in S}
           D == [q \in Names |-> Under(q)]
<1>1. /\ MaxNames \in Nat \ {0}
      /\ \A q \in Names : children[q] \subseteq Names
      /\ \A q \in Names : \A c \in children[q] : c \in Names /\ parents[c] = q /\ q < c
  BY TreeAssumption DEF TreeInv, Names, Gone
<1>2. ASSUME NEW q \in Names PROVE q \in Under(q) /\ Closed(Under(q)) /\ Under(q) \subseteq Names
  BY <1>1 DEF Closed
<1>3. ASSUME NEW q \in Names PROVE Under(q) = {q} \cup UNION {Under(c) : c \in children[q]}
  <2> DEFINE S == {q} \cup UNION {Under(c) : c \in children[q]}
  <2>1. S \subseteq Under(q)
    <3>1. ASSUME NEW c \in children[q], NEW r \in Under(c) PROVE r \in Under(q)
      BY <1>1 DEF Closed
    <3> QED
      BY <1>2, <3>1
  <2>2. S \in SUBSET Names
    BY <1>1, <1>2
  <2>3. Closed(S)
    <3> SUFFICES ASSUME NEW x \in S PROVE children[x] \subseteq S
      BY DEF Closed
    <3>1. CASE x = q
      BY <1>1, <1>2, <3>1
    <3>2. ASSUME NEW c \in children[q], x \in Under(c) PROVE children[x] \subseteq S
      <4>1. Closed(Under(c))
        BY <1>1, <1>2
      <4>2. children[x] \subseteq Under(c)
        BY <3>2, <4>1 DEF Closed
      <4> QED
        BY <4>2
    <3> QED
      BY <3>1, <3>2
  <2>4. q \in S
    OBVIOUS
  <2>5. Under(q) \subseteq S
    <3> HIDE DEF S
    <3> QED
      BY <2>2, <2>3, <2>4
  <2> QED
    BY <2>1, <2>5
<1>4. IsTree(D)
  <2> HIDE DEF Under
  <2>1. \A q \in Names : Under(q) = {q} \cup UNION {D[c] : c \in children[q]}
    <3> SUFFICES ASSUME NEW q \in Names PROVE Under(q) = {q} \cup UNION {D[c] : c \in children[q]}
      OBVIOUS
    <3>1. \A c \in children[q] : D[c] = Under(c)
      BY <1>1
    <3>2. {D[c] : c \in children[q]} = {Under(c) : c \in children[q]}
      BY <3>1
    <3> QED
      BY <1>3, <3>2
  <2> QED
    BY <2>1
<1>5. IsTree(tree)
  <2> HIDE DEF IsTree
  <2> QED
    BY <1>4
<1>6. collect_children(p) = tree[p]
  BY DEF collect_children
<1> HIDE DEF tree, D, Under
<1>7. \A q \in Names : tree[q] = {q} \cup UNION {tree[c] : c \in children[q]}
  BY <1>5
<1> DEFINE Good(q) == /\ tree[q] \subseteq {r \in Names : q <= r}
                      /\ Closed(tree[q])
                      /\ \A r \in tree[q] \ {q} : parents[r] \in tree[q]
<1>8. ASSUME NEW q \in Names, \A c \in children[q] : Good(c) PROVE Good(q)
  <2>1. \A r \in tree[q] : r = q \/ \E c \in children[q] : r \in tree[c]
    BY <1>7
  <2>2. \A c \in children[q] : c \in tree[c] /\ tree[c] \subseteq tree[q]
    BY <1>1, <1>7
  <2>3. q \in tree[q]
    BY <1>7
  <2>4. tree[q] \subseteq {r \in Names : q <= r}
    <3>1. ASSUME NEW c \in children[q], NEW r \in tree[c] PROVE r \in Names /\ q <= r
      BY <1>1, <1>8 DEF Names
    <3> QED
      BY <2>1, <3>1 DEF Names
  <2>5. Closed(tree[q])
    BY <1>8, <2>1, <2>2 DEF Closed
  <2>6. \A r \in tree[q] \ {q} : parents[r] \in tree[q]
    <3> SUFFICES ASSUME NEW r \in tree[q], r # q PROVE parents[r] \in tree[q]
      OBVIOUS
    <3>1. PICK c \in children[q] : r \in tree[c]
      BY <2>1
    <3>2. CASE r = c
      BY <1>1, <2>3, <3>2
    <3>3. CASE r # c
      BY <1>8, <2>2, <3>1, <3>3
    <3> QED
      BY <3>2, <3>3
  <2> QED
    BY <2>4, <2>5, <2>6
<1> HIDE DEF Good
<1>9. \A q \in Names : Good(q)
  <2> DEFINE Bad == {k \in Nat : k < MaxNames /\ ~ Good(MaxNames - 1 - k)}
  <2> SUFFICES ASSUME NEW q \in Names, ~ Good(q) PROVE FALSE
    OBVIOUS
  <2>1. MaxNames - 1 - q \in Bad
    <3>1. MaxNames - 1 - q \in Nat /\ MaxNames - 1 - q < MaxNames /\ MaxNames - 1 - (MaxNames - 1 - q) = q
      BY <1>1 DEF Names
    <3> QED
      BY <3>1
  <2>2. Bad \in SUBSET Nat
    OBVIOUS
  <2>3. PICK k \in Bad : \A j \in Bad : k <= j
    <3> HIDE DEF Bad
    <3> QED
      BY <2>1, <2>2, LeastExists
  <2>4. MaxNames - 1 - k \in Names /\ ~ Good(MaxNames - 1 - k)
    BY <1>1, <2>3 DEF Names
  <2>5. PICK c \in children[MaxNames - 1 - k] : ~ Good(c)
    BY <1>8, <2>4
  <2>6. c \in Names /\ MaxNames - 1 - k < c
    BY <1>1, <2>4, <2>5
  <2>7. /\ MaxNames - 1 - c \in Nat /\ MaxNames - 1 - c < MaxNames /\ MaxNames - 1 - c < k
        /\ MaxNames - 1 - (MaxNames - 1 - c) = c
    BY <1>1, <2>3, <2>6 DEF Names
  <2>8. MaxNames - 1 - c \in Bad
    BY <2>5, <2>7
  <2> QED
    BY <2>3, <2>7, <2>8
<1>10. p \in tree[p]
  BY <1>7
<1> QED
  BY <1>6, <1>9, <1>10 DEF Good

\* The processes that live are those under the root.
LEMMA TreeInvImplies == TreeInv => TreeOK
<1> SUFFICES ASSUME TreeInv PROVE TreeOK
  OBVIOUS
<1> DEFINE C == collect_children(root_name)
<1>1. /\ process_list \subseteq Names /\ root_name \in Names /\ root_name = 0
      /\ process_list \subseteq Nat
  BY TreeAssumption DEF TreeInv, Names, root_name
<1>2. /\ root_name \in C /\ C \subseteq Names /\ Closed(C)
      /\ \A r \in C \ {root_name} : parents[r] \in C
  BY <1>1, Collects
<1> HIDE DEF C
<1>3. C \subseteq process_list
  <2> SUFFICES ASSUME NEW r \in C, r # root_name PROVE r \in process_list
    BY <1>1 DEF TreeInv
  <2>1. parents[r] \in Names
    BY <1>2
  <2>2. parents[r] # Gone
    BY <2>1 DEF Names, Gone
  <2> QED
    BY <1>2, <2>2 DEF TreeInv
<1>4. process_list \subseteq C
  <2> DEFINE Bad == process_list \ C
  <2> SUFFICES ASSUME Bad # {} PROVE FALSE
    OBVIOUS
  <2>1. Bad \in SUBSET Nat
    BY <1>1
  <2>2. PICK r \in Bad : \A y \in Bad : r <= y
    <3> HIDE DEF Bad
    <3> QED
      BY <2>1, LeastExists
  <2>3. r \in Names /\ r \in process_list /\ r # root_name /\ r \in Nat
    BY <1>1, <1>2
  <2>4. parents[r] < r /\ parents[r] \in process_list
    BY <2>3 DEF TreeInv
  <2>5. parents[r] \in C
    <3> SUFFICES ASSUME parents[r] \notin C PROVE FALSE
      OBVIOUS
    <3>1. r <= parents[r]
      BY <2>2, <2>4
    <3>2. parents[r] \in Nat
      BY <1>1, <2>4
    <3> QED
      BY <2>3, <2>4, <3>1, <3>2
  <2>6. r \in children[parents[r]]
    BY <1>1, <2>3, <2>4 DEF TreeInv
  <2> QED
    BY <1>2, <2>5, <2>6 DEF Closed
<1>5. parents[root_name] = Gone
  BY DEF TreeInv
<1> QED
  BY <1>3, <1>4, <1>5 DEF TreeOK, TreeInv, C

LEMMA TreeInitHolds == TreeInit => TreeInv
BY TreeAssumption DEF TreeInit, TreeInv, Names, root_name, Gone

LEMMA ForkHolds ==
    ASSUME TreeInv, NEW p \in process_list, do_fork(p) PROVE TreeInv'
<1> DEFINE c == curr_index
<1>1. /\ c \in Names /\ c \notin process_list /\ p \in Names /\ p # c /\ p < c /\ c + 1 \in 1 .. MaxNames
      /\ c \in Nat /\ c # root_name
  BY TreeAssumption DEF TreeInv, do_fork, Names, root_name
<1>2. parents[c] = Gone /\ \A q \in Names : c \notin children[q]
  BY <1>1 DEF TreeInv, Gone, Names
<1>3. children[c] = {}
  BY <1>1 DEF TreeInv, Gone, Names
<1>4. /\ process_list' = process_list \cup {c}
      /\ parents' = [parents EXCEPT ![c] = p]
      /\ curr_index' = c + 1 /\ rules' = rules
      /\ children' = [children EXCEPT ![c] = {}, ![p] = @ \cup {c}]
  BY DEF do_fork
<1> HIDE DEF c
<1>5. children' \in [Names -> SUBSET Names] /\ parents' \in [Names -> Names \cup {Gone}]
  BY <1>1, <1>4 DEF TreeInv
<1>6. /\ \A q \in Names : children'[q] = IF q = p THEN children[p] \cup {c} ELSE children[q]
      /\ \A q \in Names : parents'[q] = IF q = c THEN p ELSE parents[q]
  <2>1. children \in [Names -> SUBSET Names] /\ parents \in [Names -> Names \cup {Gone}]
    BY DEF TreeInv
  <2>2. \A q \in Names : children'[q] = IF q = p THEN children[p] \cup {c} ELSE children[q]
    BY <1>1, <1>3, <1>4, <2>1
  <2> QED
    BY <1>4, <2>1, <2>2
<1>7. ASSUME NEW r \in Names, NEW q \in Names PROVE q \in children'[r] <=> parents'[q] = r
  <2>1. q \in children[r] <=> parents[q] = r
    BY DEF TreeInv
  <2>2. CASE q = c
    <3>1. parents'[q] = p /\ q \notin children[r]
      BY <1>2, <1>6, <2>2
    <3> QED
      BY <1>6, <2>2, <3>1
  <2>3. CASE q # c
    BY <1>6, <2>1, <2>3
  <2> QED
    BY <2>2, <2>3
<1>8. process_list' \subseteq 0 .. curr_index' - 1 /\ root_name \in process_list'
  BY <1>1, <1>4 DEF TreeInv, c
<1>9. ASSUME NEW q \in Names, parents'[q] # Gone
      PROVE  parents'[q] < q /\ parents'[q] \in process_list' /\ q \in process_list'
  BY <1>1, <1>4, <1>6, <1>9 DEF TreeInv
<1>10. ASSUME NEW q \in process_list' PROVE parents'[q] = Gone <=> q = root_name
  <2>1. process_list \subseteq Names /\ p # Gone
    BY <1>1, TreeAssumption DEF TreeInv, Names, Gone
  <2> QED
    BY <1>1, <1>4, <1>6, <2>1 DEF TreeInv
<1> QED
  BY <1>1, <1>4, <1>5, <1>7, <1>8, <1>9, <1>10 DEF TreeInv

LEMMA ExitHolds ==
    ASSUME TreeInv, NEW p \in process_list, do_exit(p) PROVE TreeInv'
<1> DEFINE C == collect_children(p)
           h == IF rules.local_reparent THEN parents[p] ELSE root_name
           O == IF rules.local_reparent THEN children[p] ELSE C \ {p}
           E == {p} \cup IF rules.local_reparent THEN {} ELSE O
           kept == [q \in Names |-> IF q \in E THEN {} ELSE children[q]]
           given == [kept EXCEPT ![h] = @ \cup O]
<1>1. /\ process_list' = process_list \ {p}
      /\ children' = [given EXCEPT ![parents[p]] = @ \ {p}]
      /\ parents' = [q \in Names |-> CASE q = p -> Gone
                                       [] q \in O -> h
                                       [] OTHER -> parents[q]]
      /\ rules' = rules /\ curr_index' = curr_index
      /\ p # root_name
  BY DEF do_exit
<1>2. /\ p \in Names /\ parents[p] \in Names /\ parents[p] \in process_list /\ parents[p] < p
      /\ root_name \in Names /\ root_name < p /\ root_name \in process_list
      /\ process_list \subseteq Names /\ p \in Nat
  BY <1>1, TreeAssumption DEF TreeInv, Names, root_name
<1>3. /\ p \in C /\ C \subseteq {r \in Names : p <= r} /\ Closed(C)
      /\ \A r \in C \ {p} : parents[r] \in C
  BY <1>2, Collects
<1>4. /\ h \in Names /\ h \in process_list /\ h < p
      /\ O \subseteq Names /\ p \in E
      /\ \A r \in E : r \in Names /\ p <= r
      /\ \A o \in O : parents[o] \in E /\ p < o
      /\ \A q \in Names : parents[q] \in E => q \in O
  <2> HIDE DEF C
  <2>1. CASE rules.local_reparent
    <3>1. O = children[p] /\ E = {p} /\ h = parents[p]
      BY <2>1
    <3>2. \A q \in Names : q \in children[p] <=> parents[q] = p
      BY <1>2 DEF TreeInv
    <3>3. children[p] \subseteq Names
      BY <1>2 DEF TreeInv
    <3>4. \A q \in Names : parents[q] = p => p < q
      BY <1>2 DEF TreeInv, Names, Gone
    <3> HIDE DEF O, E, h
    <3>5. \A o \in O : parents[o] \in E /\ p < o
      BY <3>1, <3>2, <3>3, <3>4
    <3>6. \A q \in Names : parents[q] \in E => q \in O
      BY <3>1, <3>2
    <3>7. \A r \in E : r \in Names /\ p <= r
      BY <1>2, <3>1
    <3> QED
      BY <1>2, <3>1, <3>3, <3>5, <3>6, <3>7
  <2>2. CASE ~ rules.local_reparent
    <3>1. O = C \ {p} /\ E = C /\ h = root_name
      BY <1>3, <2>2
    <3>2. \A o \in C \ {p} : p < o
      BY <1>2, <1>3 DEF Names
    <3>3. ASSUME NEW q \in Names, parents[q] \in C PROVE q \in C \ {p}
      <4>1. parents[q] \in Names /\ q \in children[parents[q]]
        BY <1>3, <3>3 DEF TreeInv
      <4>2. q \in C
        BY <1>3, <3>3, <4>1 DEF Closed
      <4>3. parents[p] \notin C
        BY <1>2, <1>3 DEF Names
      <4> QED
        BY <3>3, <4>2, <4>3
    <3> HIDE DEF O, E, h
    <3> QED
      BY <1>2, <1>3, <3>1, <3>2, <3>3
  <2> QED
    BY <2>1, <2>2
<1> HIDE DEF C, h, O, E
<1>5. h \notin E /\ parents[p] \notin E /\ p \notin O /\ h # Gone /\ h # p
  BY <1>2, <1>4 DEF Names, Gone
<1>6. ASSUME NEW q \in Names
      PROVE  children'[q] = IF q \in E THEN {}
                            ELSE (children[q] \cup IF q = h THEN O ELSE {}) \ IF q = parents[p] THEN {p} ELSE {}
  <2>1. kept[q] = IF q \in E THEN {} ELSE children[q]
    OBVIOUS
  <2>2. given[q] = IF q = h THEN kept[q] \cup O ELSE kept[q]
    BY <1>4
  <2>3. DOMAIN given = Names
    OBVIOUS
  <2> HIDE DEF kept, given
  <2>4. children'[q] = IF q = parents[p] THEN given[q] \ {p} ELSE given[q]
    BY <1>1, <1>2, <2>3
  <2> QED
    BY <1>5, <2>1, <2>2, <2>4
<1>7. children' \in [Names -> SUBSET Names]
  <2>1. children' = [q \in Names |-> children'[q]]
    BY <1>1
  <2> HIDE DEF kept, given
  <2>2. \A q \in Names : children'[q] \subseteq Names
    <3> SUFFICES ASSUME NEW q \in Names PROVE children'[q] \subseteq Names
      OBVIOUS
    <3>1. children[q] \subseteq Names
      BY DEF TreeInv
    <3> QED
      <4>1. children'[q] \subseteq children[q] \cup O
        BY <1>6
      <4> QED
        BY <1>4, <3>1, <4>1
  <2> QED
    BY <2>1, <2>2
<1>8. /\ parents' \in [Names -> Names \cup {Gone}]
      /\ \A q \in Names : parents'[q] = IF q = p THEN Gone ELSE IF q \in O THEN h ELSE parents[q]
  BY <1>1, <1>4 DEF TreeInv
<1> HIDE DEF kept, given
<1>9. ASSUME NEW r \in Names, NEW q \in Names PROVE q \in children'[r] <=> parents'[q] = r
  <2>0. r # Gone
    BY DEF Names, Gone
  <2>1. q \in children[r] <=> parents[q] = r
    BY DEF TreeInv
  <2>2. CASE r \in E
    <3>1. q \notin children'[r]
      BY <1>6, <2>2
    <3>2. parents'[q] = IF q = p THEN Gone ELSE IF q \in O THEN h ELSE parents[q]
      BY <1>8
    <3>3. r # h /\ (q \notin O => parents[q] # r)
      BY <1>4, <1>5, <2>2
    <3> QED
      BY <2>0, <3>1, <3>2, <3>3
  <2>3. CASE r \notin E /\ q = p
    BY <1>5, <1>6, <1>8, <2>0, <2>1, <2>3
  <2>4. CASE r \notin E /\ q \in O
    <3>1. parents'[q] = h /\ q # p
      BY <1>5, <1>8, <2>4
    <3>2. q \notin children[r]
      BY <1>4, <2>1, <2>4
    <3>3. q \in children'[r] <=> r = h
      BY <1>6, <2>4, <3>1, <3>2
    <3> QED
      BY <3>1, <3>3
  <2>5. CASE r \notin E /\ q # p /\ q \notin O
    BY <1>6, <1>8, <2>1, <2>5
  <2> QED
    BY <2>2, <2>3, <2>4, <2>5
<1>10. ASSUME NEW q \in Names, parents'[q] # Gone
       PROVE  parents'[q] < q /\ parents'[q] \in process_list' /\ q \in process_list'
  <2>1. q # p
    BY <1>8, <1>10
  <2>2. CASE q \in O
    <3>1. h < q
      BY <1>2, <1>4, <2>2 DEF Names
    <3>2. parents[q] \in Names
      BY <1>4, <2>2
    <3>3. q \in process_list
      BY <3>2 DEF TreeInv, Names, Gone
    <3> QED
      BY <1>1, <1>4, <1>5, <1>8, <2>1, <2>2, <3>1, <3>3
  <2>3. CASE q \notin O
    <3>1. parents[q] # p
      BY <1>4, <2>3
    <3> QED
      BY <1>1, <1>8, <1>10, <2>1, <2>3, <3>1 DEF TreeInv
  <2> QED
    BY <2>2, <2>3
<1>11. ASSUME NEW q \in process_list' PROVE parents'[q] = Gone <=> q = root_name
  <2>1. q \in process_list /\ q # p /\ q \in Names
    BY <1>1, <1>2
  <2>2. root_name \notin O
    BY <1>2, <1>4 DEF root_name
  <2> QED
    BY <1>5, <1>8, <2>1, <2>2 DEF TreeInv
<1>12. root_name \in process_list' /\ process_list' \subseteq 0 .. curr_index' - 1
  BY <1>1, <1>2 DEF TreeInv
<1> QED
  BY <1>1, <1>7, <1>8, <1>9, <1>10, <1>11, <1>12 DEF TreeInv

LEMMA TreeStepHolds == ASSUME TreeInv, TreeStep PROVE TreeInv'
BY ForkHolds, ExitHolds DEF TreeStep

-----------------------------------------------------------------------------
(* The four translations: arithmetic first.                                *)

LEMMA DivMod ==
    ASSUME NEW n \in Nat \ {0}, NEW a \in Nat
    PROVE  a \div n \in Nat /\ a % n \in 0 .. n - 1 /\ a = n * (a \div n) + (a % n)
OBVIOUS

LEMMA SamePlace ==
    ASSUME NEW n \in Nat \ {0}, NEW q \in Nat, NEW p \in Nat, NEW r \in 0 .. n - 1, NEW s \in 0 .. n - 1,
           q * n + r = p * n + s
    PROVE  q = p /\ r = s
OBVIOUS

LEMMA Products ==
    ASSUME NEW m \in Nat \ {0}, NEW n \in Nat \ {0} PROVE m * n \in Nat \ {0}
OBVIOUS

LEMMA DivBelow ==
    ASSUME NEW n \in Nat \ {0}, NEW m \in Nat, NEW a \in 0 .. n * m - 1 PROVE a \div n \in 0 .. m - 1
OBVIOUS

LEMMA MulBelow ==
    ASSUME NEW n \in Nat \ {0}, NEW m \in Nat, NEW q \in 0 .. m - 1, NEW r \in 0 .. n - 1
    PROVE  q * n + r \in 0 .. n * m - 1
OBVIOUS

-----------------------------------------------------------------------------
(* Page tables: memory m with the directory in frame root and the frames   *)
(* used.                                                                   *)

NoEntry == [valid |-> 0, pfn |-> physPages - 1]

PageEntries == [valid : {0, 1}, pfn : Frames]

IsDir(m, root, d) == m[root][d].valid = 1

Entry(m, root, d, e) == m[m[root][d].pfn][e]

Maps(m, root, d, e) == IsDir(m, root, d) /\ Entry(m, root, d, e).valid = 1

FrameOf(m, root, d, e) == Entry(m, root, d, e).pfn

IsTable(m, root, f) == f = root \/ \E d \in Entries : IsDir(m, root, d) /\ m[root][d].pfn = f

\* Entries that are not valid are as initPageDir has left them; each table, and each
\* page, has a frame of its own.
Directory(m, root, used) ==
    /\ \A d \in Entries : ~ IsDir(m, root, d) => m[root][d] = NoEntry
    /\ \A d \in Entries : IsDir(m, root, d) => m[root][d].pfn \in used /\ m[root][d].pfn # root
    /\ \A d, e \in Entries : IsDir(m, root, d) /\ IsDir(m, root, e) /\ m[root][d].pfn = m[root][e].pfn => d = e

Pagetable(m, root, used) ==
    /\ \A d, e \in Entries : IsDir(m, root, d) /\ ~ Maps(m, root, d, e) => Entry(m, root, d, e) = NoEntry
    /\ \A d, e \in Entries : Maps(m, root, d, e) =>
         FrameOf(m, root, d, e) \in used /\ ~ IsTable(m, root, FrameOf(m, root, d, e))
    /\ \A d, e, c, b \in Entries :
         Maps(m, root, d, e) /\ Maps(m, root, c, b) /\ FrameOf(m, root, d, e) = FrameOf(m, root, c, b) =>
            d = c /\ e = b

Shape(m, root, used) ==
    /\ m \in [Frames -> [Entries -> PageEntries]]
    /\ used \subseteq Frames /\ root \in used
    /\ Directory(m, root, used)
    /\ Pagetable(m, root, used)

LEMMA EmptyTable ==
    /\ initPageDir = [e \in Entries |-> NoEntry] /\ initPageDir[0] = NoEntry
    /\ NoEntry \in PageEntries /\ NoEntry.valid = 0
    /\ physPages - 1 \in Frames /\ 0 \in Frames /\ 0 \in Entries
BY SpaceAssumption DEF initPageDir, Table, NoEntry, Entries, Frames, PageEntries

\* The memory with a page of the page table in frame pte, or a page in frame pp.
TableAdded(m, root, de, pte) ==
    initPageTablePage([m EXCEPT ![root][de] = [valid |-> 1, pfn |-> pte]], pte)

PageAdded(m, pte, te, pp) == fillPage([m EXCEPT ![pte][te] = [valid |-> 1, pfn |-> pp]], pp)

\* As many pages are mapped in m2, or one more.
SameMaps(m, m2, root) == \A d, e \in Entries : Maps(m2, root, d, e) <=> Maps(m, root, d, e)

OneMore(m, m2, root, de, te) ==
    \A d, e \in Entries : Maps(m2, root, d, e) <=> Maps(m, root, d, e) \/ (d = de /\ e = te)

LEMMA AddTable ==
    ASSUME NEW m, NEW root, NEW used, Shape(m, root, used),
           NEW de \in Entries, ~ IsDir(m, root, de), NEW pte \in Frames, pte \notin used,
           NEW m2, m2 = TableAdded(m, root, de, pte)
    PROVE  /\ Shape(m2, root, used \cup {pte})
           /\ SameMaps(m, m2, root)
           /\ IsDir(m2, root, de) /\ m2[root][de].pfn = pte
<1>1. /\ m \in [Frames -> [Entries -> PageEntries]] /\ used \subseteq Frames /\ root \in used
      /\ root \in Frames /\ root # pte
  BY DEF Shape
<1>2. /\ m2[root] = [m[root] EXCEPT ![de] = [valid |-> 1, pfn |-> pte]]
      /\ m2[pte] = [e \in Entries |-> NoEntry]
      /\ \A f \in Frames \ {root, pte} : m2[f] = m[f]
      /\ m2 \in [Frames -> [Entries -> PageEntries]]
  <2>1. [m EXCEPT ![root][de] = [valid |-> 1, pfn |-> pte]]
          = [m EXCEPT ![root] = [m[root] EXCEPT ![de] = [valid |-> 1, pfn |-> pte]]]
    OBVIOUS
  <2>2. [valid |-> 1, pfn |-> pte] \in PageEntries
    BY DEF PageEntries
  <2>3. [m[root] EXCEPT ![de] = [valid |-> 1, pfn |-> pte]] \in [Entries -> PageEntries]
    BY <1>1, <2>2
  <2>4. initPageDir = [e \in Entries |-> NoEntry] /\ initPageDir \in [Entries -> PageEntries]
    BY EmptyTable
  <2> QED
    BY <1>1, <2>1, <2>3, <2>4 DEF initPageTablePage, TableAdded
<1>3. /\ m2[root][de] = [valid |-> 1, pfn |-> pte]
      /\ \A e \in Entries : e # de => m2[root][e] = m[root][e]
      /\ \A e \in Entries : m2[pte][e] = NoEntry
  BY <1>1, <1>2
<1>4. /\ IsDir(m2, root, de) /\ m2[root][de].pfn = pte
      /\ \A d \in Entries : d # de => (IsDir(m2, root, d) <=> IsDir(m, root, d)) /\ m2[root][d].pfn = m[root][d].pfn
  <2>1. IsDir(m2, root, de) /\ m2[root][de].pfn = pte
    BY <1>3 DEF IsDir
  <2>2. ASSUME NEW d \in Entries, d # de
        PROVE  (IsDir(m2, root, d) <=> IsDir(m, root, d)) /\ m2[root][d].pfn = m[root][d].pfn
    BY <1>3, <2>2 DEF IsDir
  <2> QED
    BY <2>1, <2>2
<1>5. ASSUME NEW d \in Entries, IsDir(m, root, d)
      PROVE  d # de /\ m[root][d].pfn \in used /\ m[root][d].pfn # root /\ m[root][d].pfn # pte
             /\ m2[m[root][d].pfn] = m[m[root][d].pfn]
  <2>1. m[root][d].pfn \in used /\ m[root][d].pfn # root
    BY <1>5 DEF Shape, Directory
  <2> QED
    BY <1>1, <1>2, <1>5, <2>1
<1>6. ASSUME NEW d \in Entries, NEW e \in Entries
      PROVE  /\ Maps(m2, root, d, e) <=> Maps(m, root, d, e)
             /\ Maps(m, root, d, e) => FrameOf(m2, root, d, e) = FrameOf(m, root, d, e)
             /\ d # de /\ IsDir(m, root, d) => Entry(m2, root, d, e) = Entry(m, root, d, e)
             /\ Entry(m2, root, de, e) = NoEntry
  <2>1. Entry(m2, root, de, e) = NoEntry /\ ~ Maps(m2, root, de, e) /\ ~ Maps(m, root, de, e)
    <3>1. Entry(m2, root, de, e) = NoEntry
      BY <1>3, <1>4 DEF Entry
    <3>2. NoEntry.valid # 1
      BY DEF NoEntry
    <3> QED
      BY <3>1, <3>2 DEF Maps
  <2>2. d # de /\ IsDir(m, root, d) => Entry(m2, root, d, e) = Entry(m, root, d, e)
    BY <1>4, <1>5 DEF Entry
  <2>3. d # de => (Maps(m2, root, d, e) <=> Maps(m, root, d, e))
    BY <1>4, <2>2 DEF Maps
  <2>4. Maps(m, root, d, e) => d # de /\ IsDir(m, root, d)
    BY <2>1 DEF Maps
  <2> QED
    BY <2>1, <2>2, <2>3, <2>4 DEF FrameOf
<1>7. Directory(m2, root, used \cup {pte})
  <2>1. ASSUME NEW d \in Entries, ~ IsDir(m2, root, d) PROVE m2[root][d] = NoEntry
    BY <1>3, <1>4, <2>1 DEF Shape, Directory
  <2>2. ASSUME NEW d \in Entries, IsDir(m2, root, d)
        PROVE  m2[root][d].pfn \in used \cup {pte} /\ m2[root][d].pfn # root
    BY <1>1, <1>4, <1>5, <2>2
  <2>3. ASSUME NEW d \in Entries, NEW e \in Entries, IsDir(m2, root, d), IsDir(m2, root, e),
               m2[root][d].pfn = m2[root][e].pfn
        PROVE  d = e
    <3>1. CASE d = de \/ e = de
      BY <1>4, <1>5, <2>3, <3>1
    <3>2. CASE d # de /\ e # de
      BY <1>4, <2>3, <3>2 DEF Shape, Directory
    <3> QED
      BY <3>1, <3>2
  <2> QED
    BY <2>1, <2>2, <2>3 DEF Directory
<1>8. Pagetable(m2, root, used \cup {pte})
  <2>1. ASSUME NEW d \in Entries, NEW e \in Entries, IsDir(m2, root, d), ~ Maps(m2, root, d, e)
        PROVE  Entry(m2, root, d, e) = NoEntry
    <3>1. CASE d = de
      BY <1>6, <3>1
    <3>2. CASE d # de
      <4>1. IsDir(m, root, d) /\ ~ Maps(m, root, d, e)
        BY <1>4, <1>6, <2>1, <3>2
      <4>2. Entry(m, root, d, e) = NoEntry
        BY <4>1 DEF Shape, Pagetable
      <4> QED
        BY <1>6, <3>2, <4>1, <4>2
    <3> QED
      BY <3>1, <3>2
  <2>2. ASSUME NEW d \in Entries, NEW e \in Entries, Maps(m2, root, d, e)
        PROVE  FrameOf(m2, root, d, e) \in used \cup {pte} /\ ~ IsTable(m2, root, FrameOf(m2, root, d, e))
    <3>1. Maps(m, root, d, e) /\ FrameOf(m2, root, d, e) = FrameOf(m, root, d, e)
      BY <1>6, <2>2
    <3>2. FrameOf(m, root, d, e) \in used /\ ~ IsTable(m, root, FrameOf(m, root, d, e))
      BY <3>1 DEF Shape, Pagetable
    <3>3. ~ IsTable(m2, root, FrameOf(m, root, d, e))
      BY <1>4, <3>2 DEF IsTable
    <3> QED
      BY <3>1, <3>2, <3>3
  <2>3. ASSUME NEW d \in Entries, NEW e \in Entries, NEW c \in Entries, NEW b \in Entries,
               Maps(m2, root, d, e), Maps(m2, root, c, b), FrameOf(m2, root, d, e) = FrameOf(m2, root, c, b)
        PROVE  d = c /\ e = b
    <3>1. Maps(m, root, d, e) /\ Maps(m, root, c, b) /\ FrameOf(m, root, d, e) = FrameOf(m, root, c, b)
      BY <1>6, <2>3
    <3> QED
      BY <3>1 DEF Shape, Pagetable
  <2> QED
    BY <2>1, <2>2, <2>3 DEF Pagetable
<1> QED
  BY <1>1, <1>2, <1>4, <1>6, <1>7, <1>8 DEF Shape, SameMaps

\* A page, in a frame pp, by entry te of the table of directory entry de.
LEMMA AddPage ==
    ASSUME NEW m, NEW root, NEW used, Shape(m, root, used),
           NEW de \in Entries, IsDir(m, root, de), NEW te \in Entries, ~ Maps(m, root, de, te),
           NEW pp \in Frames, pp \notin used,
           NEW m2, m2 = PageAdded(m, m[root][de].pfn, te, pp)
    PROVE  /\ Shape(m2, root, used \cup {pp})
           /\ OneMore(m, m2, root, de, te)
<1> DEFINE pte == m[root][de].pfn
<1>1. /\ m \in [Frames -> [Entries -> PageEntries]] /\ used \subseteq Frames /\ root \in used
      /\ pte \in used /\ pte # root /\ root \in Frames /\ pte \in Frames /\ pp # pte /\ pp # root
  BY DEF Shape, Directory
<1>2. /\ m2[pte] = [m[pte] EXCEPT ![te] = [valid |-> 1, pfn |-> pp]]
      /\ \A f \in Frames \ {pte, pp} : m2[f] = m[f]
      /\ m2 \in [Frames -> [Entries -> PageEntries]]
  <2> DEFINE page == Table([valid |-> 0, pfn |-> 0])
  <2>1. [m EXCEPT ![pte][te] = [valid |-> 1, pfn |-> pp]]
          = [m EXCEPT ![pte] = [m[pte] EXCEPT ![te] = [valid |-> 1, pfn |-> pp]]]
    OBVIOUS
  <2>2. [valid |-> 1, pfn |-> pp] \in PageEntries
    BY DEF PageEntries
  <2>3. [m[pte] EXCEPT ![te] = [valid |-> 1, pfn |-> pp]] \in [Entries -> PageEntries]
    BY <1>1, <2>2
  <2>4. page \in [Entries -> PageEntries]
    BY EmptyTable DEF Table, PageEntries
  <2> HIDE DEF page
  <2>5. m2 = [[m EXCEPT ![pte] = [m[pte] EXCEPT ![te] = [valid |-> 1, pfn |-> pp]]] EXCEPT ![pp] = page]
    BY <2>1 DEF PageAdded, fillPage, page
  <2> HIDE DEF pte
  <2> QED
    BY <1>1, <2>3, <2>4, <2>5
<1> HIDE DEF pte
<1>3. /\ m2[root] = m[root]
      /\ m2[pte][te] = [valid |-> 1, pfn |-> pp]
      /\ \A e \in Entries : e # te => m2[pte][e] = m[pte][e]
  BY <1>1, <1>2
<1>4. /\ \A d \in Entries : IsDir(m2, root, d) <=> IsDir(m, root, d)
      /\ \A f : IsTable(m2, root, f) <=> IsTable(m, root, f)
  BY <1>3 DEF IsDir, IsTable
<1>5. ASSUME NEW d \in Entries, IsDir(m, root, d), d # de PROVE m2[m[root][d].pfn] = m[m[root][d].pfn]
  <2>1. m[root][d].pfn # pte /\ m[root][d].pfn \in used
    BY <1>5 DEF Shape, Directory, pte
  <2> QED
    BY <1>1, <1>2, <2>1
<1>6. ASSUME NEW d \in Entries, NEW e \in Entries, IsDir(m, root, d)
      PROVE  /\ d = de /\ e = te => Entry(m2, root, d, e) = [valid |-> 1, pfn |-> pp]
             /\ ~ (d = de /\ e = te) => Entry(m2, root, d, e) = Entry(m, root, d, e)
  <2>1. m2[root][d].pfn = m[root][d].pfn /\ m[root][de].pfn = pte
    BY <1>3 DEF pte
  <2>2. d # de => m2[m[root][d].pfn] = m[m[root][d].pfn]
    BY <1>5, <1>6
  <2> QED
    BY <1>3, <2>1, <2>2 DEF Entry
<1>7. ASSUME NEW d \in Entries, NEW e \in Entries
      PROVE  /\ Maps(m2, root, d, e) <=> Maps(m, root, d, e) \/ (d = de /\ e = te)
             /\ d = de /\ e = te => FrameOf(m2, root, d, e) = pp
             /\ Maps(m, root, d, e) => ~ (d = de /\ e = te) /\ FrameOf(m2, root, d, e) = FrameOf(m, root, d, e)
  <2>1. d = de /\ e = te => Maps(m2, root, d, e) /\ FrameOf(m2, root, d, e) = pp /\ ~ Maps(m, root, d, e)
    <3> SUFFICES ASSUME d = de, e = te
                 PROVE  Maps(m2, root, de, te) /\ FrameOf(m2, root, de, te) = pp /\ ~ Maps(m, root, de, te)
      OBVIOUS
    <3>1. IsDir(m2, root, de) /\ Entry(m2, root, de, te) = [valid |-> 1, pfn |-> pp]
      BY <1>4, <1>6
    <3> QED
      BY <3>1 DEF Maps, FrameOf
  <2>2. IsDir(m, root, d) /\ ~ (d = de /\ e = te) =>
          (Maps(m2, root, d, e) <=> Maps(m, root, d, e)) /\ FrameOf(m2, root, d, e) = FrameOf(m, root, d, e)
    BY <1>4, <1>6 DEF Maps, FrameOf
  <2>3. ~ IsDir(m, root, d) => ~ Maps(m2, root, d, e) /\ ~ Maps(m, root, d, e)
    BY <1>4 DEF Maps
  <2> QED
    BY <2>1, <2>2, <2>3
<1>8. Directory(m2, root, used \cup {pp})
  BY <1>3, <1>4 DEF Shape, Directory
<1>9. ~ IsTable(m, root, pp)
  <2>1. ASSUME NEW d \in Entries, IsDir(m, root, d) PROVE m[root][d].pfn # pp
    BY <2>1 DEF Shape, Directory
  <2> QED
    BY <1>1, <2>1 DEF IsTable
<1>10. Pagetable(m2, root, used \cup {pp})
  <2>1. ASSUME NEW d \in Entries, NEW e \in Entries, IsDir(m2, root, d), ~ Maps(m2, root, d, e)
        PROVE  Entry(m2, root, d, e) = NoEntry
    <3>1. IsDir(m, root, d) /\ ~ Maps(m, root, d, e) /\ ~ (d = de /\ e = te)
      BY <1>4, <1>7, <2>1
    <3>2. Entry(m, root, d, e) = NoEntry
      BY <3>1 DEF Shape, Pagetable
    <3> QED
      BY <1>6, <3>1, <3>2
  <2>2. ASSUME NEW d \in Entries, NEW e \in Entries, Maps(m, root, d, e)
        PROVE  FrameOf(m, root, d, e) \in used /\ ~ IsTable(m, root, FrameOf(m, root, d, e))
               /\ FrameOf(m, root, d, e) # pp
    BY <2>2 DEF Shape, Pagetable
  <2>3. ASSUME NEW d \in Entries, NEW e \in Entries, Maps(m2, root, d, e)
        PROVE  FrameOf(m2, root, d, e) \in used \cup {pp} /\ ~ IsTable(m2, root, FrameOf(m2, root, d, e))
    <3>1. CASE d = de /\ e = te
      BY <1>4, <1>7, <1>9, <3>1
    <3>2. CASE Maps(m, root, d, e)
      BY <1>4, <1>7, <2>2, <3>2
    <3> QED
      BY <1>7, <2>3, <3>1, <3>2
  <2>4. ASSUME NEW d \in Entries, NEW e \in Entries, NEW c \in Entries, NEW b \in Entries,
               Maps(m2, root, d, e), Maps(m2, root, c, b), FrameOf(m2, root, d, e) = FrameOf(m2, root, c, b)
        PROVE  d = c /\ e = b
    <3>1. CASE Maps(m, root, d, e) /\ Maps(m, root, c, b)
      <4>1. FrameOf(m, root, d, e) = FrameOf(m, root, c, b)
        BY <1>7, <2>4, <3>1
      <4> QED
        BY <3>1, <4>1 DEF Shape, Pagetable
    <3>2. CASE (d = de /\ e = te) /\ (c = de /\ b = te)
      BY <3>2
    <3>3. CASE Maps(m, root, d, e) /\ (c = de /\ b = te)
      <4>1. FrameOf(m2, root, c, b) = pp /\ FrameOf(m2, root, d, e) = FrameOf(m, root, d, e)
        BY <1>7, <3>3
      <4>2. FrameOf(m, root, d, e) # pp
        BY <2>2, <3>3
      <4> QED
        BY <2>4, <4>1, <4>2
    <3>4. CASE (d = de /\ e = te) /\ Maps(m, root, c, b)
      <4>1. FrameOf(m2, root, d, e) = pp /\ FrameOf(m2, root, c, b) = FrameOf(m, root, c, b)
        BY <1>7, <3>4
      <4>2. FrameOf(m, root, c, b) # pp
        BY <2>2, <3>4
      <4> QED
        BY <2>4, <4>1, <4>2
    <3> QED
      BY <1>7, <2>4, <3>1, <3>2, <3>3, <3>4
  <2> QED
    BY <2>1, <2>3, <2>4 DEF Pagetable
<1> QED
  BY <1>1, <1>2, <1>7, <1>8, <1>10 DEF Shape, OneMore

-----------------------------------------------------------------------------
Schemes == {"relocation", "segmentation", "linear", "multilevel"}

\* The pages of the address space.
SpacePages == IF space.scheme = "linear" THEN linearPages ELSE vaPages

IsSpace ==
    /\ space = [scheme |-> space.scheme, asize |-> space.asize, psize |-> space.psize,
                given |-> space.given, state |-> space.state]
    /\ space.scheme \in Schemes /\ asize \in Nat \ {0} /\ psize \in Nat \ {0}
    /\ space.scheme \in {"linear", "multilevel"} => asize = pageSize * SpacePages /\ psize = pageSize * physPages

\* A base that is given for segment 1 is its high end, which may be less than its length.
IsRegs(r) ==
    /\ r = [base0 |-> r.base0, len0 |-> r.len0, base1 |-> r.base1, len1 |-> r.len1]
    /\ r.base0 \in Nat /\ r.len0 \in Nat /\ r.base1 \in Int /\ r.len1 \in Nat

Relocated ==
    /\ space.state \in {"setup", "done", "error"}
    /\ space.state = "setup" => regs = NoRegs
    /\ space.state = "done" => regs.base0 + regs.len0 <= psize

Segmented ==
    /\ space.state \in {"setup", "done", "error"}
    /\ space.state = "setup" => regs = NoRegs
    /\ space.state = "done" =>
         /\ ~ Overlap(regs)
         /\ "base0" \notin space.given => regs.base0 + regs.len0 < psize
         /\ "base1" \notin space.given => findRoom(regs) /\ regs.base1 \in Nat

\* Each page that is valid has a frame in use of its own.
Linear ==
    /\ space.state \in {"setup", "done"}
    /\ pt \in Seq(Frames \cup {Invalid})
    /\ \A i \in 1 .. Len(pt) : pt[i] # Invalid => pt[i] \in usedPages
    /\ \A i, j \in 1 .. Len(pt) : pt[i] = pt[j] /\ pt[i] # Invalid => i = j

\* The page tables hold the pages allocated, and no others, until an assert fails.
Multilevel ==
    /\ memory \in [Frames -> [Entries -> PageEntries]]
    /\ allocatedVPs \subseteq 0 .. vaPages - 1
    /\ IF pdbr = Invalid
       THEN usedPages = {} /\ allocatedVPs = {} /\ space.state = "setup"
       ELSE /\ Shape(memory, pdbr, usedPages)
            /\ \/ /\ space.state = "setup"
                  /\ \A vp \in 0 .. vaPages - 1 :
                       vp \in allocatedVPs <=> Maps(memory, pdbr, vp \div pageSize, vp % pageSize)
               \/ space.state = "assert failed" /\ usedPages = Frames

SpaceInv ==
    /\ IsSpace /\ IsRegs(regs)
    /\ space.scheme = "relocation" => Relocated
    /\ space.scheme = "segmentation" => Segmented
    /\ space.scheme = "linear" => Linear
    /\ IF space.scheme = "multilevel" THEN Multilevel ELSE pdbr = Invalid

LEMMA Sizes ==
    /\ physPages \in Nat \ {0} /\ pageSize \in Nat \ {0} /\ linearPages \in Nat \ {0} /\ vaPages \in Nat \ {0}
    /\ vaPages = pageSize * pageSize
    /\ Frames = 0 .. physPages - 1 /\ Entries = 0 .. pageSize - 1 /\ Invalid = -1
<1>1. pageSize \in Nat \ {0} => pageSize * pageSize \in Nat \ {0}
  BY Products
<1> QED
  BY <1>1, SpaceAssumption DEF vaPages, Frames, Entries, Invalid

LEMMA AddressSpaceIs ==
    ASSUME NEW scheme \in Schemes, NEW a \in Nat \ {0}, NEW p \in Nat \ {0}, space = AddressSpace(scheme, a, p),
           scheme \in {"linear", "multilevel"} =>
             /\ a = pageSize * (IF scheme = "linear" THEN linearPages ELSE vaPages)
             /\ p = pageSize * physPages
    PROVE  IsSpace /\ space.state = "setup"
BY DEF AddressSpace, IsSpace, SpacePages, asize, psize

LEMMA SpaceInitHolds == SpaceInit => SpaceInv
<1> SUFFICES ASSUME SpaceInit PROVE SpaceInv
  OBVIOUS
<1>1. IsSpace /\ space.state = "setup"
  <2>1. CASE \E scheme \in {"relocation", "segmentation"}, a \in AddressSizes, p \in MemorySizes :
               a < p /\ space = AddressSpace(scheme, a, p)
    <3>1. PICK scheme \in {"relocation", "segmentation"}, a \in AddressSizes, p \in MemorySizes :
            space = AddressSpace(scheme, a, p)
      BY <2>1
    <3>2. a \in Nat \ {0} /\ p \in Nat \ {0}
      BY SpaceAssumption
    <3>3. scheme \in Schemes /\ scheme \notin {"linear", "multilevel"}
      BY DEF Schemes
    <3> QED
      BY <3>1, <3>2, <3>3, AddressSpaceIs
  <2>2. CASE space = AddressSpace("linear", pageSize * linearPages, pageSize * physPages)
    <3>1. pageSize * linearPages \in Nat \ {0} /\ pageSize * physPages \in Nat \ {0}
      BY Sizes, Products
    <3> QED
      BY <2>2, <3>1, AddressSpaceIs DEF Schemes
  <2>3. CASE space = AddressSpace("multilevel", pageSize * vaPages, pageSize * physPages)
    <3>1. pageSize * vaPages \in Nat \ {0} /\ pageSize * physPages \in Nat \ {0}
      BY Sizes, Products
    <3> QED
      BY <2>3, <3>1, AddressSpaceIs DEF Schemes
  <2> QED
    BY <2>1, <2>2, <2>3 DEF SpaceInit
<1>2. IsRegs(regs) /\ regs = NoRegs /\ pdbr = Invalid
  BY DEF SpaceInit, IsRegs, NoRegs
<1>3. Linear
  BY <1>1 DEF SpaceInit, Linear
<1>4. Multilevel
  <2>1. [valid |-> 0, pfn |-> 0] \in PageEntries
    BY EmptyTable DEF PageEntries
  <2> QED
    BY <1>1, <1>2, <2>1 DEF SpaceInit, Multilevel
<1> QED
  BY <1>1, <1>2, <1>3, <1>4 DEF SpaceInv, Relocated, Segmented

\* A step of the setup leaves the sizes alone.
LEMMA SpaceStays ==
    ASSUME IsSpace, NEW given, NEW state, space' = [space EXCEPT !.given = given, !.state = state]
    PROVE  /\ IsSpace' /\ space'.scheme = space.scheme /\ asize' = asize /\ psize' = psize
           /\ space'.given = given /\ space'.state = state
<1>1. space = [scheme |-> space.scheme, asize |-> space.asize, psize |-> space.psize,
               given |-> space.given, state |-> space.state]
  BY DEF IsSpace
<1>2. space' = [scheme |-> space.scheme, asize |-> space.asize, psize |-> space.psize,
                given |-> given, state |-> state]
  BY <1>1
<1>3. space'.scheme = space.scheme /\ asize' = asize /\ psize' = psize
  BY <1>2 DEF asize, psize
<1>4. SpacePages' = SpacePages
  BY <1>3 DEF SpacePages, vaPages
<1>5. IsSpace'
  BY <1>2, <1>3, <1>4 DEF IsSpace
<1> QED
  BY <1>2, <1>3, <1>5

LEMMA BecomesIs ==
    ASSUME IsSpace, NEW state, Becomes(state)
    PROVE  IsSpace' /\ space'.scheme = space.scheme /\ space'.state = state
<1>1. space = [scheme |-> space.scheme, asize |-> space.asize, psize |-> space.psize,
               given |-> space.given, state |-> space.state]
  BY DEF IsSpace
<1>2. space' = [space EXCEPT !.given = space.given, !.state = state]
  BY <1>1 DEF Becomes
<1> QED
  BY <1>2, SpaceStays

LEMMA RegsHold ==
    ASSUME SpaceInv, relocate \/ segment PROVE SpaceInv'
<1>1. IsSpace /\ asize \in Nat /\ psize \in Nat
  BY DEF SpaceInv, IsSpace
<1>2. /\ RandomLengths \subseteq Nat /\ RandomBases \subseteq Nat
      /\ \A name, given : /\ Register(name \in given, RandomLengths) \subseteq Nat
                           /\ Register(name \in given, RandomBases) \subseteq Nat
  <2>1. RandomLengths \subseteq Nat /\ RandomBases \subseteq Nat
    BY <1>1 DEF RandomLengths, RandomBases
  <2>2. 0 .. MaxRegister \subseteq Nat
    BY SpaceAssumption
  <2> QED
    BY <2>1, <2>2 DEF Register
<1>3. CASE relocate
  <2>1. PICK given \in SUBSET {"base0", "len0"} :
          \E base \in Register("base0" \in given, RandomBases),
             limit \in Register("len0" \in given, RandomLengths) :
            SetUp(given, [NoRegs EXCEPT !.base0 = base, !.len0 = limit], base + limit > psize)
    BY <1>3 DEF relocate
  <2>2. PICK base \in Register("base0" \in given, RandomBases),
             limit \in Register("len0" \in given, RandomLengths) :
            SetUp(given, [NoRegs EXCEPT !.base0 = base, !.len0 = limit], base + limit > psize)
    BY <2>1
  <2>3. base \in Nat /\ limit \in Nat
    BY <1>2
  <2> DEFINE state == IF base + limit > psize THEN "error" ELSE "done"
  <2>4. space' = [space EXCEPT !.given = given, !.state = state] /\ pdbr' = pdbr
    BY <2>2 DEF SetUp
  <2>5. regs' = [base0 |-> base, len0 |-> limit, base1 |-> 0, len1 |-> 0]
    BY <2>2 DEF SetUp, NoRegs
  <2>6. IsSpace' /\ space'.scheme = space.scheme /\ psize' = psize /\ space'.state = state
    BY <1>1, <2>4, SpaceStays
  <2>7. IsRegs(regs')
    BY <2>3, <2>5 DEF IsRegs
  <2>8. Relocated'
    <3>1. regs'.base0 = base /\ regs'.len0 = limit
      BY <2>5
    <3>2. ~ (base + limit > psize) => base + limit <= psize
      BY <1>1, <2>3
    <3> QED
      BY <2>6, <3>1, <3>2 DEF Relocated
  <2>9. space.scheme = "relocation" /\ pdbr = Invalid
    BY <1>3 DEF relocate, Reads, SpaceInv
  <2> QED
    BY <2>4, <2>6, <2>7, <2>8, <2>9 DEF SpaceInv, Invalid
<1>4. CASE segment
  <2>1. PICK given \in SUBSET {"base0", "len0", "base1", "len1"} :
          \E base0 \in Register("base0" \in given, RandomBases),
             len0  \in Register("len0" \in given, RandomLengths),
             end1  \in Register("base1" \in given, RandomBases),
             len1  \in Register("len1" \in given, RandomLengths) :
            LET r == [base0 |-> base0, len0 |-> len0, len1 |-> len1,
                      base1 |-> IF "base1" \in given THEN end1 - len1 ELSE end1]
            IN  /\ "base0" \notin given => base0 + len0 < psize
                /\ "base1" \notin given => findRoom(r)
                /\ SetUp(given, r, TooLong(r) \/ Overlap(r))
    BY <1>4 DEF segment
  <2>2. PICK base0 \in Register("base0" \in given, RandomBases),
             len0  \in Register("len0" \in given, RandomLengths),
             end1  \in Register("base1" \in given, RandomBases),
             len1  \in Register("len1" \in given, RandomLengths) :
            LET r == [base0 |-> base0, len0 |-> len0, len1 |-> len1,
                      base1 |-> IF "base1" \in given THEN end1 - len1 ELSE end1]
            IN  /\ "base0" \notin given => base0 + len0 < psize
                /\ "base1" \notin given => findRoom(r)
                /\ SetUp(given, r, TooLong(r) \/ Overlap(r))
    BY <2>1
  <2> DEFINE base1 == IF "base1" \in given THEN end1 - len1 ELSE end1
             r == [base0 |-> base0, len0 |-> len0, len1 |-> len1, base1 |-> base1]
             state == IF TooLong(r) \/ Overlap(r) THEN "error" ELSE "done"
  <2>3. base0 \in Nat /\ len0 \in Nat /\ end1 \in Nat /\ len1 \in Nat
    BY <1>2
  <2>4. base1 \in Int /\ ("base1" \notin given => base1 \in Nat)
    BY <2>3
  <2>5. /\ "base0" \notin given => base0 + len0 < psize
        /\ "base1" \notin given => findRoom(r)
        /\ SetUp(given, r, TooLong(r) \/ Overlap(r))
    BY <2>2
  <2> HIDE DEF base1
  <2>6. space' = [space EXCEPT !.given = given, !.state = state] /\ pdbr' = pdbr /\ regs' = r
    BY <2>5 DEF SetUp
  <2>7. /\ IsSpace' /\ space'.scheme = space.scheme /\ psize' = psize
        /\ space'.given = given /\ space'.state = state
    BY <1>1, <2>6, SpaceStays
  <2>8. regs'.base0 = base0 /\ regs'.len0 = len0 /\ regs'.base1 = base1 /\ regs'.len1 = len1
    BY <2>6
  <2>9. IsRegs(regs')
    BY <2>3, <2>4, <2>6 DEF IsRegs
  <2>10. (findRoom(regs)' <=> findRoom(r)) /\ (Overlap(regs)' <=> Overlap(r))
    BY <2>6, <2>7 DEF findRoom, Overlap
  <2>11. Segmented'
    <3>1. space'.state \in {"setup", "done", "error"} /\ space'.state # "setup"
          /\ (space'.state = "done" => ~ Overlap(r))
      BY <2>7
    <3> HIDE DEF r, state
    <3> QED
      BY <2>4, <2>5, <2>7, <2>8, <2>10, <3>1 DEF Segmented
  <2>12. space.scheme = "segmentation" /\ pdbr = Invalid
    BY <1>4 DEF segment, Reads, SpaceInv
  <2> QED
    BY <2>6, <2>7, <2>9, <2>11, <2>12 DEF SpaceInv, Invalid
<1> QED
  BY <1>3, <1>4

LEMMA LinearHolds ==
    ASSUME SpaceInv, linearPage PROVE SpaceInv'
<1>1. PICK u \in (Frames \ usedPages) \cup {Invalid} :
         /\ pt' = Append(pt, u)
         /\ usedPages' = IF u = Invalid THEN usedPages ELSE usedPages \cup {u}
  BY DEF linearPage
<1>2. space.scheme = "linear" /\ IsSpace /\ IsRegs(regs) /\ regs' = regs /\ pdbr' = pdbr /\ pdbr = Invalid /\ Linear
  BY DEF linearPage, SpaceInv, Reads
<1>3. IsSpace' /\ space'.scheme = space.scheme /\ space'.state \in {"setup", "done"}
  <2>1. Becomes(IF Len(pt') = linearPages THEN "done" ELSE "setup")
    BY DEF linearPage
  <2> QED
    BY <1>2, <2>1, BecomesIs
<1>4. /\ pt \in Seq(Frames \cup {Invalid}) /\ Len(pt) \in Nat
      /\ \A i \in 1 .. Len(pt) : pt[i] # Invalid => pt[i] \in usedPages
      /\ \A i, j \in 1 .. Len(pt) : pt[i] = pt[j] /\ pt[i] # Invalid => i = j
  BY <1>2 DEF Linear
<1>5. /\ pt' \in Seq(Frames \cup {Invalid}) /\ Len(pt') = Len(pt) + 1 /\ pt'[Len(pt) + 1] = u
      /\ \A i \in 1 .. Len(pt) : pt'[i] = pt[i]
  BY <1>1, <1>4, AppendProperties
<1>6. usedPages \subseteq usedPages' /\ (u # Invalid => u \in usedPages' /\ u \notin usedPages)
  BY <1>1
<1>7. \A i \in 1 .. Len(pt') : i \in 1 .. Len(pt) \/ i = Len(pt) + 1
  BY <1>4, <1>5
<1>8. \A i \in 1 .. Len(pt') : pt'[i] # Invalid => pt'[i] \in usedPages'
  BY <1>4, <1>5, <1>6, <1>7
<1>9. ASSUME NEW i \in 1 .. Len(pt'), NEW j \in 1 .. Len(pt'), pt'[i] = pt'[j], pt'[i] # Invalid PROVE i = j
  BY <1>4, <1>5, <1>6, <1>7, <1>9
<1>10. Linear'
  BY <1>3, <1>5, <1>8, <1>9 DEF Linear, Frames, Invalid
<1> QED
  BY <1>2, <1>3, <1>10 DEF SpaceInv, Invalid, IsRegs

LEMMA MoreFrames ==
    ASSUME NEW m, NEW root, NEW used, NEW more, used \subseteq more, more \subseteq Frames, Shape(m, root, used)
    PROVE  Shape(m, root, more)
<1>1. Directory(m, root, more)
  BY DEF Shape, Directory
<1>2. Pagetable(m, root, more)
  BY DEF Shape, Pagetable
<1> QED
  BY <1>1, <1>2 DEF Shape

\* The place of a virtual page in the page tables.
LEMMA Place ==
    ASSUME NEW vp \in 0 .. vaPages - 1
    PROVE  /\ vp \div pageSize \in Entries /\ vp % pageSize \in Entries
           /\ \A v \in 0 .. vaPages - 1 :
                v \div pageSize = vp \div pageSize /\ v % pageSize = vp % pageSize => v = vp
<1>1. pageSize \in Nat \ {0} /\ vaPages = pageSize * pageSize /\ Entries = 0 .. pageSize - 1
  BY Sizes
<1>2. vp \in Nat /\ vp \in 0 .. pageSize * pageSize - 1
  BY <1>1
<1>3. vp \div pageSize \in 0 .. pageSize - 1
  BY <1>1, <1>2, DivBelow
<1>4. vp % pageSize \in 0 .. pageSize - 1 /\ vp = pageSize * (vp \div pageSize) + (vp % pageSize)
  BY <1>1, <1>2, DivMod
<1>5. ASSUME NEW v \in 0 .. vaPages - 1, v \div pageSize = vp \div pageSize, v % pageSize = vp % pageSize
      PROVE  v = vp
  <2>1. v \in Nat
    BY <1>1
  <2>2. v = pageSize * (v \div pageSize) + (v % pageSize)
    BY <1>1, <2>1, DivMod
  <2> QED
    BY <1>4, <1>5, <2>2
<1> QED
  BY <1>1, <1>3, <1>4, <1>5

LEMMA ProcAllocHolds ==
    ASSUME SpaceInv, procAlloc PROVE SpaceInv'
<1>1. /\ space.scheme = "multilevel" /\ space.state = "setup" /\ space' = space /\ pdbr = Invalid
      /\ regs' = regs /\ allocatedVPs' = allocatedVPs /\ Multilevel
  BY DEF procAlloc, SpaceInv, Reads
<1>2. /\ usedPages = {} /\ allocatedVPs = {} /\ memory \in [Frames -> [Entries -> PageEntries]]
  BY <1>1 DEF Multilevel
<1>3. /\ pdbr' \in Frames /\ usedPages' = {pdbr'} /\ pdbr' # Invalid
      /\ memory' = [memory EXCEPT ![pdbr'] = initPageDir]
  <2>1. pdbr' \in Frames /\ usedPages' = {pdbr'} /\ memory' = [memory EXCEPT ![pdbr'] = initPageDir]
    BY <1>1, <1>2 DEF procAlloc, findFree, initPageTablePage
  <2> QED
    BY <2>1, Sizes
<1>4. initPageDir \in [Entries -> PageEntries] /\ \A e \in Entries : initPageDir[e] = NoEntry
  BY EmptyTable
<1>5. memory' \in [Frames -> [Entries -> PageEntries]] /\ \A e \in Entries : memory'[pdbr'][e] = NoEntry
  BY <1>2, <1>3, <1>4
<1>6. \A d \in Entries : ~ IsDir(memory', pdbr', d)
  BY <1>5, EmptyTable DEF IsDir
<1>7. \A d, e \in Entries : ~ Maps(memory', pdbr', d, e)
  BY <1>6 DEF Maps
<1>8. Shape(memory', pdbr', usedPages')
  BY <1>3, <1>5, <1>6, <1>7 DEF Shape, Directory, Pagetable
<1>9. \A vp \in 0 .. vaPages - 1 :
        vp \in allocatedVPs' <=> Maps(memory', pdbr', vp \div pageSize, vp % pageSize)
  BY <1>1, <1>2, <1>7, Place
<1>10. Multilevel'
  <2>1. vaPages' = vaPages
    BY DEF vaPages
  <2> QED
    BY <1>1, <1>2, <1>3, <1>5, <1>8, <1>9, <2>1 DEF Multilevel, Invalid
<1>11. IsSpace' /\ IsRegs(regs)'
  BY <1>1 DEF SpaceInv, IsSpace, IsRegs, SpacePages, vaPages, asize, psize
<1> QED
  BY <1>1, <1>10, <1>11 DEF SpaceInv

\* The tables are those of the pages in allocated.
Describes(m, root, allocated) ==
    \A vp \in 0 .. vaPages - 1 : vp \in allocated <=> Maps(m, root, vp \div pageSize, vp % pageSize)

\* What one more page makes of the tables.
LEMMA PageHolds ==
    ASSUME NEW root, NEW m, NEW used, NEW allocated, Shape(m, root, used), Describes(m, root, allocated),
           NEW vp \in 0 .. vaPages - 1, vp \notin allocated, NEW pp \in Frames, pp \notin used,
           NEW de, de = vp \div pageSize, NEW te, te = vp % pageSize, IsDir(m, root, de),
           NEW m2, m2 = PageAdded(m, m[root][de].pfn, te, pp)
    PROVE  Shape(m2, root, used \cup {pp}) /\ Describes(m2, root, allocated \cup {vp})
<1>1. de \in Entries /\ te \in Entries /\ ~ Maps(m, root, de, te)
  BY Place DEF Describes
<1>2. /\ Shape(m2, root, used \cup {pp})
      /\ OneMore(m, m2, root, de, te)
  BY <1>1, AddPage
<1>3. ASSUME NEW v \in 0 .. vaPages - 1
      PROVE  v \in allocated \cup {vp} <=> Maps(m2, root, v \div pageSize, v % pageSize)
  <2>1. v \div pageSize \in Entries /\ v % pageSize \in Entries
    BY Place
  <2>2. v \div pageSize = de /\ v % pageSize = te => v = vp
    BY Place
  <2>3. v \in allocated <=> Maps(m, root, v \div pageSize, v % pageSize)
    BY DEF Describes
  <2> QED
    BY <1>2, <2>1, <2>2, <2>3 DEF OneMore
<1> QED
  BY <1>2, <1>3 DEF Describes

LEMMA AllocPageHolds ==
    ASSUME SpaceInv, allocPage PROVE SpaceInv'
<1>1. /\ space.scheme = "multilevel" /\ IsSpace /\ IsRegs(regs)
      /\ space.state = "setup" /\ pdbr # Invalid
      /\ regs' = regs /\ pdbr' = pdbr /\ Multilevel
  BY DEF allocPage, SpaceInv, Reads
<1>2. /\ memory \in [Frames -> [Entries -> PageEntries]] /\ allocatedVPs \subseteq 0 .. vaPages - 1
      /\ Shape(memory, pdbr, usedPages) /\ Describes(memory, pdbr, allocatedVPs)
      /\ usedPages \subseteq Frames /\ pdbr \in Frames
  BY <1>1 DEF Multilevel, Shape, Describes
<1>3. PICK vp \in (0 .. vaPages - 1) \ allocatedVPs :
         /\ allocatedVPs' = allocatedVPs \cup {vp}
         /\ IF findFree(usedPages) = {}
            THEN Becomes("assert failed") /\ UNCHANGED <<usedPages, memory>>
            ELSE \E pp \in findFree(usedPages) : allocVirtualPage(vp, pp)
  BY DEF allocPage
<1>4. /\ vp \in 0 .. vaPages - 1 /\ vp \notin allocatedVPs /\ allocatedVPs' \subseteq 0 .. vaPages - 1
  BY <1>2, <1>3
<1> DEFINE de == vp \div pageSize
           te == vp % pageSize
<1>11. /\ de \in Entries /\ te \in Entries /\ ~ Maps(memory, pdbr, de, te)
  BY <1>2, <1>4, Place DEF Describes
<1>5. /\ initPageDir[0] = NoEntry /\ NoEntry.valid = 0
  BY EmptyTable
<1> DEFINE Full == Becomes("assert failed") /\ usedPages' = Frames /\ memory' = memory
           Done == /\ Becomes("setup") /\ Shape(memory', pdbr, usedPages')
                   /\ Describes(memory', pdbr, allocatedVPs')
<1>6. ASSUME findFree(usedPages) = {} PROVE Full
  BY <1>2, <1>3, <1>6 DEF findFree
<1>7. ASSUME findFree(usedPages) # {} PROVE Full \/ Done
  <2>1. PICK pp \in findFree(usedPages) : allocVirtualPage(vp, pp)
    BY <1>3, <1>7
  <2>2. pp \in Frames /\ pp \notin usedPages
    BY DEF findFree
  <2> DEFINE pde == getPageDirEntry(vp)
             used == usedPages \cup {pp}
  <2>3. pde = memory[pdbr][de]
    BY DEF getPageDirEntry
  <2>4. CASE pde.valid = 1
    <3>1. IsDir(memory, pdbr, de)
      BY <2>3, <2>4 DEF IsDir
    <3>2. memory[pde.pfn][te] = NoEntry
      BY <1>2, <1>4, <1>11, <2>3, <3>1 DEF Shape, Pagetable, Entry
    <3>3. usedPages' = used /\ setEntry(memory, pde.pfn, vp, pp)
      BY <2>1, <2>4 DEF allocVirtualPage
    <3>4. memory' = PageAdded(memory, pde.pfn, te, pp) /\ Becomes("setup")
      BY <1>5, <3>2, <3>3 DEF setEntry, PageAdded
    <3>5. Done
      BY <1>2, <1>3, <1>4, <1>11, <2>2, <2>3, <3>1, <3>3, <3>4, PageHolds
    <3> QED
      BY <3>5
  <2>5. CASE pde.valid # 1
    <3>1. ~ IsDir(memory, pdbr, de)
      BY <2>3, <2>5 DEF IsDir
    <3>2. pde = initPageDir[0]
      BY <1>2, <1>4, <1>11, <1>5, <2>3, <3>1 DEF Shape, Directory
    <3>3. CASE findFree(used) = {}
      <4>1. usedPages' = used /\ Becomes("assert failed") /\ memory' = memory
        BY <2>1, <2>5, <3>3 DEF allocVirtualPage
      <4>2. used = Frames
        BY <1>2, <2>2, <3>3 DEF findFree
      <4>3. Full
        BY <4>1, <4>2
      <4> QED
        BY <4>3
    <3>4. CASE findFree(used) # {}
      <4>1. PICK pte \in findFree(used) :
               /\ usedPages' = used \cup {pte}
               /\ setEntry(initPageTablePage([memory EXCEPT ![pdbr][de] =
                                                   [valid |-> 1, pfn |-> pte]], pte), pte, vp, pp)
        BY <2>1, <2>5, <3>2, <3>4 DEF allocVirtualPage
      <4> DEFINE m2 == TableAdded(memory, pdbr, de, pte)
      <4>2. pte \in Frames /\ pte \notin usedPages /\ pte # pp
        BY DEF findFree
      <4>3. /\ Shape(m2, pdbr, usedPages \cup {pte})
            /\ SameMaps(memory, m2, pdbr)
            /\ IsDir(m2, pdbr, de) /\ m2[pdbr][de].pfn = pte
        BY <1>2, <1>4, <1>11, <3>1, <4>2, AddTable
      <4>4. Describes(m2, pdbr, allocatedVPs)
        BY <1>2, <4>3, Place DEF Describes, SameMaps
      <4>5. ~ Maps(m2, pdbr, de, te)
        BY <1>4, <1>11, <4>3 DEF SameMaps
      <4>6. m2[pte][te] = NoEntry
        BY <1>4, <1>11, <4>3, <4>5 DEF Shape, Pagetable, Entry
      <4>7. memory' = PageAdded(m2, pte, te, pp) /\ Becomes("setup")
        BY <1>5, <4>1, <4>6 DEF setEntry, PageAdded, TableAdded
      <4>8. usedPages' = (usedPages \cup {pte}) \cup {pp}
        BY <4>1
      <4> DEFINE more == usedPages \cup {pte}
      <4> HIDE DEF m2, more, de, te
      <4>9. /\ Shape(memory', pdbr, more \cup {pp})
            /\ Describes(memory', pdbr, allocatedVPs \cup {vp})
        <5>1. Shape(m2, pdbr, more) /\ pp \notin more /\ IsDir(m2, pdbr, de) /\ m2[pdbr][de].pfn = pte
          BY <2>2, <4>2, <4>3 DEF more
        <5>2. de = vp \div pageSize /\ te = vp % pageSize
          BY DEF de, te
        <5> QED
          BY <1>4, <2>2, <4>4, <4>7, <5>1, <5>2, PageHolds
      <4>10. Done
        BY <1>3, <4>7, <4>8, <4>9 DEF more
      <4> QED
        BY <4>10
    <3> QED
      BY <3>3, <3>4
  <2> QED
    BY <2>4, <2>5
<1>8. vaPages' = vaPages /\ IsSpace' /\ space'.scheme = "multilevel" /\ IsRegs(regs)'
  <2>1. Becomes("assert failed") \/ Becomes("setup")
    BY <1>6, <1>7
  <2> QED
    BY <1>1, <2>1, BecomesIs DEF vaPages, IsRegs
<1>9. CASE Full
  <2>1. space'.state = "assert failed"
    BY <1>1, <1>9, BecomesIs
  <2>2. Shape(memory', pdbr, usedPages')
    BY <1>2, <1>9, MoreFrames
  <2>3. Multilevel'
    BY <1>1, <1>2, <1>4, <1>11, <1>8, <1>9, <2>1, <2>2 DEF Multilevel, Invalid
  <2> QED
    BY <1>8, <2>3 DEF SpaceInv
<1>10. CASE Done
  <2>1. space'.state = "setup"
    BY <1>1, <1>10, BecomesIs
  <2>2. memory' \in [Frames -> [Entries -> PageEntries]]
    BY <1>10 DEF Shape
  <2>3. Multilevel'
    BY <1>1, <1>4, <1>11, <1>8, <1>10, <2>1, <2>2 DEF Multilevel, Invalid, Describes
  <2> QED
    BY <1>8, <2>3 DEF SpaceInv
<1> QED
  BY <1>6, <1>7, <1>9, <1>10

LEMMA SpaceStepHolds ==
    ASSUME SpaceInv, SpaceStep PROVE SpaceInv'
BY RegsHold, LinearHolds, ProcAllocHolds, AllocPageHolds DEF SpaceStep

LEMMA SpaceStands ==
    ASSUME SpaceInv, UNCHANGED spaceVars PROVE SpaceInv'
<1>1. /\ space' = space /\ regs' = regs /\ pt' = pt /\ usedPages' = usedPages /\ memory' = memory
      /\ pdbr' = pdbr /\ allocatedVPs' = allocatedVPs
  BY DEF spaceVars
<1>2. psize' = psize /\ asize' = asize /\ vaPages' = vaPages
  BY <1>1 DEF psize, asize, vaPages
<1>3. Relocated => Relocated'
  BY <1>1, <1>2 DEF Relocated
<1>4. Segmented => Segmented'
  BY <1>1, <1>2 DEF Segmented, findRoom, Overlap
<1>5. Linear => Linear'
  BY <1>1 DEF Linear
<1>6. Multilevel => Multilevel'
  BY <1>1, <1>2 DEF Multilevel
<1>7. (IsSpace => IsSpace') /\ (IsRegs(regs) => IsRegs(regs)')
  BY <1>1, <1>2 DEF IsSpace, SpacePages, IsRegs
<1> QED
  BY <1>1, <1>3, <1>4, <1>5, <1>6, <1>7 DEF SpaceInv

\* Where a segment has an address: in segment 0, which grows up, or in segment 1.
LEMMA SegmentsApart ==
    ASSUME SpaceInv, HasRegs
    PROVE  /\ Checked => \A va, vb \in Valid : translate(va) = translate(vb) => va = vb
           /\ space.state # "error" => \A va \in Valid : PlacedByScript(va) => translate(va) \in 0 .. psize - 1
<1> DEFINE base0 == regs.base0
           len0  == regs.len0
           base1 == regs.base1
           len1  == regs.len1
           low(va)  == InFirst(va) /\ va < len0 /\ translate(va) = va + base0
           high(va) == ~ InFirst(va) /\ va + len1 >= asize /\ translate(va) = va + base1 + len1 - asize
           segments == space.scheme = "segmentation"
           done     == space.state = "done"
<1>1. asize \in Nat /\ psize \in Nat /\ base0 \in Nat /\ len0 \in Nat /\ base1 \in Int /\ len1 \in Nat
  BY DEF SpaceInv, IsSpace, IsRegs
<1>2. ASSUME NEW va \in Valid PROVE va \in 0 .. asize - 1 /\ (low(va) \/ high(va))
  BY DEF Valid, isValid, translate
<1>3. ~ segments => \A va : InFirst(va)
  BY DEF HasRegs, InFirst
<1>4. ~ segments => Relocated
  BY DEF SpaceInv, HasRegs
<1>5. segments => Segmented
  BY DEF SpaceInv
<1>6. ASSUME NEW va \in Valid, space.state # "error" PROVE done
  <2>1. space.state \in {"setup", "done", "error"} /\ (space.state = "setup" => regs = NoRegs)
    BY <1>4, <1>5 DEF Relocated, Segmented
  <2>2. regs = NoRegs => len0 = 0 /\ len1 = 0
    BY DEF NoRegs
  <2>3. len0 = 0 /\ len1 = 0 => ~ low(va) /\ ~ high(va)
    BY <1>1, <1>2
  <2> QED
    BY <1>2, <1>6, <2>1, <2>2, <2>3
<1>7. ASSUME Checked, done, segments PROVE base0 + len0 <= base1 \/ base1 + len1 <= base0
  <2>1. CASE "base1" \in space.given
    <3>1. base1 > base0 /\ ~ (len0 + base0 > base1 /\ base1 > base0)
      BY <1>5, <1>7, <2>1 DEF Segmented, Checked, Overlap
    <3> QED
      BY <1>1, <3>1
  <2>2. CASE "base1" \notin space.given
    <3>1. base1 > base0 + len0 \/ base1 + len1 < base0
      BY <1>5, <1>7, <2>2 DEF Segmented, findRoom
    <3> QED
      BY <1>1, <3>1
  <2> QED
    BY <2>1, <2>2
<1>8. ASSUME done, NEW va \in Valid, PlacedByScript(va), low(va) PROVE base0 + len0 <= psize
  <2>1. CASE segments
    <3>1. base0 + len0 < psize
      BY <1>5, <1>8, <2>1 DEF Segmented, PlacedByScript
    <3> QED
      BY <1>1, <3>1
  <2>2. CASE ~ segments
    BY <1>4, <1>8, <2>2 DEF Relocated
  <2> QED
    BY <2>1, <2>2
<1>9. ASSUME done, NEW va \in Valid, PlacedByScript(va), high(va) PROVE base1 + len1 < psize /\ base1 >= 0
  <2>1. segments /\ "base1" \notin space.given
    BY <1>3, <1>9 DEF PlacedByScript
  <2>2. findRoom(regs) /\ base1 \in Nat
    BY <1>5, <1>9, <2>1 DEF Segmented
  <2> QED
    BY <2>2 DEF findRoom
<1>10. ASSUME Checked, NEW va \in Valid, NEW vb \in Valid, translate(va) = translate(vb) PROVE va = vb
  <2>1. done /\ va \in 0 .. asize - 1 /\ vb \in 0 .. asize - 1
    BY <1>2, <1>6, <1>10 DEF Checked
  <2>2. CASE low(va) /\ low(vb)
    <3>1. va + base0 = vb + base0
      BY <1>10, <2>2
    <3> QED
      BY <1>1, <2>1, <3>1
  <2>3. CASE high(va) /\ high(vb)
    <3>1. va + base1 + len1 - asize = vb + base1 + len1 - asize
      BY <1>10, <2>3
    <3> QED
      BY <1>1, <2>1, <3>1
  <2>4. ASSUME NEW x \in 0 .. asize - 1, NEW y \in 0 .. asize - 1, low(x), high(y) PROVE translate(x) # translate(y)
    <3>1. segments
      BY <1>3, <2>4
    <3>2. base0 + len0 <= base1 \/ base1 + len1 <= base0
      BY <1>7, <1>10, <2>1, <3>1
    <3>3. /\ translate(x) = x + base0 /\ x < len0
          /\ translate(y) = y + base1 + len1 - asize /\ y + len1 >= asize
      BY <2>4
    <3> HIDE DEF base0, len0, base1, len1, low, high
    <3> QED
      BY <1>1, <3>2, <3>3
  <2> QED
    BY <1>2, <1>10, <2>1, <2>2, <2>3, <2>4
<1>11. ASSUME space.state # "error", NEW va \in Valid, PlacedByScript(va) PROVE translate(va) \in 0 .. psize - 1
  <2>1. done /\ va \in 0 .. asize - 1
    BY <1>2, <1>6, <1>11
  <2>2. CASE low(va)
    <3>1. base0 + len0 <= psize /\ translate(va) = va + base0 /\ va < len0
      BY <1>8, <1>11, <2>1, <2>2
    <3> QED
      BY <1>1, <2>1, <3>1
  <2>3. CASE high(va)
    <3>1. /\ base1 + len1 < psize /\ base1 >= 0
          /\ translate(va) = va + base1 + len1 - asize /\ va + len1 >= asize
      BY <1>9, <1>11, <2>1, <2>3
    <3> QED
      BY <1>1, <2>1, <3>1
  <2> QED
    BY <1>2, <1>11, <2>2, <2>3
<1> QED
  BY <1>10, <1>11

\* Where a page has a frame, and the frames of the page tables.
LEMMA PagesApart ==
    ASSUME SpaceInv, ~ HasRegs
    PROVE  /\ \A vp \in 0 .. SpacePages - 1 : translatePage(vp) # Invalid =>
                translatePage(vp) \in Frames /\ translatePage(vp) \notin TableFrames
           /\ \A vp, v \in 0 .. SpacePages - 1 :
                translatePage(vp) = translatePage(v) /\ translatePage(vp) # Invalid => vp = v
           /\ space.scheme = "multilevel" => \A vp \in 0 .. vaPages - 1 :
                translatePage(vp) # Invalid <=>
                  pdbr # Invalid /\ Maps(memory, pdbr, vp \div pageSize, vp % pageSize)
<1>0. space.scheme \in {"linear", "multilevel"}
  BY DEF SpaceInv, IsSpace, Schemes, HasRegs
<1>1. CASE space.scheme = "linear"
  <2>1. /\ pt \in Seq(Frames \cup {Invalid}) /\ Len(pt) \in Nat /\ TableFrames = {}
        /\ \A i, j \in 1 .. Len(pt) : pt[i] = pt[j] /\ pt[i] # Invalid => i = j
    BY <1>1 DEF SpaceInv, Linear, TableFrames
  <2>2. ASSUME NEW vp \in 0 .. SpacePages - 1, translatePage(vp) # Invalid
        PROVE  /\ vp + 1 \in 1 .. Len(pt) /\ translatePage(vp) = pt[vp + 1] /\ translatePage(vp) \in Frames
    <3>1. vp < Len(pt) /\ translatePage(vp) = pt[vp + 1]
      BY <1>1, <2>2 DEF translatePage
    <3>2. vp + 1 \in 1 .. Len(pt)
      BY <2>1, <3>1
    <3>3. pt[vp + 1] \in Frames \cup {Invalid}
      BY <2>1, <3>2, ElementOfSeq
    <3> QED
      BY <2>2, <3>1, <3>2, <3>3
  <2>3. ASSUME NEW vp \in 0 .. SpacePages - 1, NEW v \in 0 .. SpacePages - 1,
               translatePage(vp) = translatePage(v), translatePage(vp) # Invalid
        PROVE  vp = v
    <3>1. vp + 1 = v + 1
      BY <2>1, <2>2, <2>3
    <3> QED
      BY <3>1, Sizes
  <2> QED
    BY <1>1, <2>1, <2>2, <2>3
<1>2. CASE space.scheme = "multilevel"
  <2>1. Multilevel
    BY <1>2 DEF SpaceInv
  <2>2. ASSUME NEW vp \in 0 .. vaPages - 1
        PROVE  /\ translatePage(vp) # Invalid <=>
                    pdbr # Invalid /\ Maps(memory, pdbr, vp \div pageSize, vp % pageSize)
               /\ translatePage(vp) # Invalid =>
                    translatePage(vp) = FrameOf(memory, pdbr, vp \div pageSize, vp % pageSize)
    <3> DEFINE de == vp \div pageSize
               te == vp % pageSize
    <3>1. de \in Entries /\ te \in Entries
      BY Place
    <3>2. CASE pdbr = Invalid
      BY <1>2, <3>2 DEF translatePage
    <3>3. CASE pdbr # Invalid
      <4>1. Shape(memory, pdbr, usedPages)
        BY <2>1, <3>3 DEF Multilevel
      <4>2. memory[pdbr][de] \in PageEntries /\ memory[pdbr][de].valid \in {0, 1}
        <5>1. memory \in [Frames -> [Entries -> PageEntries]] /\ pdbr \in Frames
          BY <4>1 DEF Shape
        <5>2. memory[pdbr][de] \in PageEntries
          BY <3>1, <5>1
        <5> QED
          BY <5>2 DEF PageEntries
      <4>3. CASE ~ IsDir(memory, pdbr, de)
        <5>1. getPageDirEntry(vp).valid = 0
          BY <4>2, <4>3 DEF IsDir, getPageDirEntry
        <5>2. translatePage(vp) = Invalid
          BY <1>2, <5>1 DEF translatePage
        <5> QED
          BY <4>3, <5>2 DEF Maps
      <4>4. CASE IsDir(memory, pdbr, de)
        <5>1. getPageDirEntry(vp).valid = 1 /\ getPageDirEntry(vp).pfn = memory[pdbr][de].pfn
          BY <4>4 DEF IsDir, getPageDirEntry
        <5> DEFINE entry == Entry(memory, pdbr, de, te)
        <5>2. getPageTableEntry(vp, getPageDirEntry(vp).pfn) = entry
          BY <5>1 DEF getPageTableEntry, Entry
        <5>3. translatePage(vp) = IF entry.valid = 0 THEN Invalid ELSE entry.pfn
          BY <1>2, <3>3, <5>1, <5>2 DEF translatePage
        <5>4. entry.valid \in {0, 1} /\ entry.pfn \in Frames
          <6>1. memory[pdbr][de].pfn \in Frames
            BY <3>1, <4>1, <4>4 DEF Shape, Directory
          <6>2. memory \in [Frames -> [Entries -> PageEntries]]
            BY <4>1 DEF Shape
          <6>3. entry \in PageEntries
            BY <3>1, <6>1, <6>2 DEF Entry
          <6> QED
            BY <6>3 DEF PageEntries
        <5>5. entry.pfn # Invalid
          BY <5>4, Sizes
        <5> HIDE DEF entry
        <5>6. /\ translatePage(vp) # Invalid <=> entry.valid = 1
              /\ translatePage(vp) # Invalid => translatePage(vp) = entry.pfn
          BY <5>3, <5>4, <5>5
        <5> QED
          BY <3>3, <4>4, <5>6 DEF Maps, FrameOf, entry
      <4> QED
        BY <4>3, <4>4
    <3> QED
      BY <3>2, <3>3
  <2>3. pdbr # Invalid => Shape(memory, pdbr, usedPages)
    BY <2>1 DEF Multilevel
  <2>4. ASSUME NEW vp \in 0 .. vaPages - 1, translatePage(vp) # Invalid
        PROVE  translatePage(vp) \in Frames /\ translatePage(vp) \notin TableFrames
    <3> DEFINE de == vp \div pageSize
               te == vp % pageSize
    <3>1. /\ de \in Entries /\ te \in Entries /\ pdbr # Invalid /\ Maps(memory, pdbr, de, te)
          /\ translatePage(vp) = FrameOf(memory, pdbr, de, te)
      BY <2>2, <2>4, Place
    <3>2. /\ FrameOf(memory, pdbr, de, te) \in Frames
          /\ ~ IsTable(memory, pdbr, FrameOf(memory, pdbr, de, te))
      BY <2>3, <3>1 DEF Shape, Pagetable
    <3>3. \A f \in TableFrames : IsTable(memory, pdbr, f)
      BY <3>1 DEF TableFrames, IsTable, IsDir
    <3> QED
      BY <3>1, <3>2, <3>3
  <2>5. ASSUME NEW vp \in 0 .. vaPages - 1, NEW v \in 0 .. vaPages - 1,
               translatePage(vp) = translatePage(v), translatePage(vp) # Invalid
        PROVE  vp = v
    <3> DEFINE de == vp \div pageSize
               te == vp % pageSize
               dv == v \div pageSize
               tv == v % pageSize
    <3>1. /\ de \in Entries /\ te \in Entries /\ pdbr # Invalid /\ Maps(memory, pdbr, de, te)
          /\ translatePage(vp) = FrameOf(memory, pdbr, de, te)
      BY <2>2, <2>5, Place
    <3>2. /\ dv \in Entries /\ tv \in Entries /\ Maps(memory, pdbr, dv, tv)
          /\ translatePage(v) = FrameOf(memory, pdbr, dv, tv)
      BY <2>2, <2>5, Place
    <3>3. de = dv /\ te = tv
      BY <2>3, <2>5, <3>1, <3>2 DEF Shape, Pagetable
    <3> QED
      BY <3>3, Place
  <2>6. SpacePages = vaPages
    BY <1>2 DEF SpacePages
  <2> QED
    BY <1>2, <2>2, <2>4, <2>5, <2>6
<1> QED
  BY <1>0, <1>1, <1>2

LEMMA AddressesApart ==
    ASSUME SpaceInv, ~ HasRegs
    PROVE  /\ SpacePages \in Nat /\ asize = pageSize * SpacePages
           /\ \A va \in 0 .. asize - 1 : /\ va \div pageSize \in 0 .. SpacePages - 1
                                         /\ isValid(va) <=> translatePage(va \div pageSize) # Invalid
           /\ \A va, vb \in Valid : translate(va) = translate(vb) => va = vb
           /\ \A va \in Valid : /\ translate(va) \in 0 .. psize - 1
                                /\ translate(va) \div pageSize \notin TableFrames
<1>1. /\ pageSize \in Nat \ {0} /\ SpacePages \in Nat /\ physPages \in Nat /\ asize = pageSize * SpacePages
      /\ psize = pageSize * physPages /\ Frames = 0 .. physPages - 1
      /\ 0 .. asize - 1 \subseteq Nat
  <2>1. space.scheme \in {"linear", "multilevel"} /\ IsSpace
    BY DEF SpaceInv, IsSpace, Schemes, HasRegs
  <2> QED
    BY <2>1, Sizes DEF IsSpace, SpacePages
<1>2. ASSUME NEW va \in 0 .. asize - 1
      PROVE  /\ va \div pageSize \in 0 .. SpacePages - 1 /\ va % pageSize \in 0 .. pageSize - 1
             /\ va = pageSize * (va \div pageSize) + (va % pageSize)
  <2>1. va \in Nat /\ va \in 0 .. pageSize * SpacePages - 1
    BY <1>1
  <2> QED
    BY <1>1, <2>1, DivBelow, DivMod
<1>3. ASSUME NEW va \in 0 .. asize - 1, NEW pfn \in Frames
      PROVE  /\ pfn * pageSize + (va % pageSize) \in 0 .. psize - 1
             /\ (pfn * pageSize + (va % pageSize)) \div pageSize = pfn
             /\ (pfn * pageSize + (va % pageSize)) % pageSize = va % pageSize
  <2>1. pfn \in 0 .. physPages - 1 /\ pfn \in Nat /\ va % pageSize \in 0 .. pageSize - 1
    BY <1>1, <1>2
  <2>2. pfn * pageSize + (va % pageSize) \in 0 .. pageSize * physPages - 1
    BY <1>1, <2>1, MulBelow
  <2>3. /\ (pfn * pageSize + (va % pageSize)) \div pageSize = pfn
        /\ (pfn * pageSize + (va % pageSize)) % pageSize = va % pageSize
    BY <1>1, <2>1, DivOf
  <2> QED
    BY <1>1, <2>2, <2>3
<1>4. ASSUME NEW va \in 0 .. asize - 1
      PROVE  /\ isValid(va) <=> translatePage(va \div pageSize) # Invalid
             /\ translate(va) = translatePage(va \div pageSize) * pageSize + (va % pageSize)
  BY DEF translate, isValid
<1>5. ASSUME NEW va \in Valid
      PROVE  /\ va \in 0 .. asize - 1 /\ translatePage(va \div pageSize) # Invalid
             /\ translatePage(va \div pageSize) \in Frames
             /\ translatePage(va \div pageSize) \notin TableFrames
             /\ translate(va) \in 0 .. psize - 1
             /\ translate(va) \div pageSize = translatePage(va \div pageSize)
             /\ translate(va) % pageSize = va % pageSize
  <2>1. va \in 0 .. asize - 1 /\ isValid(va)
    BY DEF Valid
  <2>2. translatePage(va \div pageSize) # Invalid
    BY <1>4, <2>1
  <2>3. translatePage(va \div pageSize) \in Frames /\ translatePage(va \div pageSize) \notin TableFrames
    BY <1>2, <2>1, <2>2, PagesApart
  <2>4. translate(va) = translatePage(va \div pageSize) * pageSize + (va % pageSize)
    BY <1>4, <2>1
  <2> QED
    BY <1>3, <2>1, <2>2, <2>3, <2>4
<1>6. ASSUME NEW va \in Valid, NEW vb \in Valid, translate(va) = translate(vb) PROVE va = vb
  <2>1. translatePage(va \div pageSize) = translatePage(vb \div pageSize) /\ va % pageSize = vb % pageSize
    BY <1>5, <1>6
  <2>2. va \div pageSize = vb \div pageSize
    BY <1>2, <1>5, <2>1, PagesApart
  <2>3. /\ va = pageSize * (va \div pageSize) + (va % pageSize)
        /\ vb = pageSize * (vb \div pageSize) + (vb % pageSize)
    BY <1>2, <1>5
  <2> QED
    BY <2>1, <2>2, <2>3
<1>7. ASSUME NEW va \in Valid PROVE translate(va) \in 0 .. psize - 1 /\ translate(va) \div pageSize \notin TableFrames
  BY <1>5
<1> QED
  BY <1>1, <1>2, <1>4, <1>6, <1>7

LEMMA SpaceInvImplies ==
    ASSUME SpaceInv PROVE NoAliases /\ FailsOnlyWhenFull
<1>1. ASSUME Checked, NEW va \in Valid, NEW vb \in Valid, translate(va) = translate(vb) PROVE va = vb
  BY <1>1, SegmentsApart, AddressesApart
<1>2. Checked => Cardinality({translate(va) : va \in Valid}) = Cardinality(Valid)
  <2> SUFFICES ASSUME Checked PROVE Cardinality({translate(va) : va \in Valid}) = Cardinality(Valid)
    OBVIOUS
  <2> DEFINE f == [va \in Valid |-> translate(va)]
  <2>1. Valid \subseteq 0 .. asize - 1
    BY DEF Valid
  <2>2. IsFiniteSet(0 .. asize - 1)
    <3>1. asize - 1 \in Int
      BY DEF SpaceInv, IsSpace
    <3> QED
      BY <3>1, FS_Interval
  <2>3. IsFiniteSet(Valid)
    BY <2>1, <2>2, FS_Subset
  <2>4. /\ \A va \in Valid : f[va] = translate(va)
        /\ f = [va \in Valid |-> f[va]]
    OBVIOUS
  <2>5. \A va, vb \in Valid : f[va] = f[vb] => va = vb
    BY <1>1, <2>4
  <2>6. {f[va] : va \in Valid} = {translate(va) : va \in Valid}
    BY <2>4
  <2> HIDE DEF f
  <2>7. Cardinality({f[va] : va \in Valid}) = Cardinality(Valid)
    BY <2>3, <2>4, <2>5, ImageSize
  <2> QED
    BY <2>6, <2>7
<1>3. ASSUME space.state # "error", NEW va \in Valid, PlacedByScript(va)
      PROVE  translate(va) \in 0 .. psize - 1 /\ translate(va) \div pageSize \notin TableFrames
  <2>1. CASE HasRegs
    <3>1. TableFrames = {}
      BY <2>1 DEF SpaceInv, HasRegs, TableFrames
    <3> QED
      BY <1>3, <2>1, <3>1, SegmentsApart
  <2>2. CASE ~ HasRegs
    BY <2>2, AddressesApart
  <2> QED
    BY <2>1, <2>2
<1>4. Reads("multilevel", "setup") => {va \div pageSize : va \in Valid} = allocatedVPs
  <2> SUFFICES ASSUME Reads("multilevel", "setup") PROVE {va \div pageSize : va \in Valid} = allocatedVPs
    OBVIOUS
  <2>1. space.scheme = "multilevel" /\ space.state = "setup" /\ Multilevel /\ ~ HasRegs /\ SpacePages = vaPages
    BY DEF Reads, SpaceInv, HasRegs, SpacePages
  <2>2. allocatedVPs \subseteq 0 .. vaPages - 1
    BY <2>1 DEF Multilevel
  <2>3. ASSUME NEW vp \in 0 .. vaPages - 1 PROVE vp \in allocatedVPs <=> translatePage(vp) # Invalid
    <3>1. CASE pdbr = Invalid
      BY <2>1, <3>1, PagesApart DEF Multilevel
    <3>2. CASE pdbr # Invalid
      BY <2>1, <3>2, PagesApart DEF Multilevel
    <3> QED
      BY <3>1, <3>2
  <2>4. ASSUME NEW va \in Valid PROVE va \div pageSize \in allocatedVPs
    <3>1. va \in 0 .. asize - 1 /\ isValid(va)
      BY DEF Valid
    <3> QED
      BY <2>1, <2>3, <3>1, AddressesApart
  <2>5. ASSUME NEW vp \in allocatedVPs PROVE \E va \in Valid : vp = va \div pageSize
    <3> DEFINE va == vp * pageSize + 0
    <3>1. /\ pageSize \in Nat \ {0} /\ vaPages \in Nat /\ asize = pageSize * vaPages /\ vp \in 0 .. vaPages - 1
          /\ vp \in Nat /\ 0 \in 0 .. pageSize - 1
      BY <2>1, <2>2, Sizes, AddressesApart
    <3>2. va \in 0 .. asize - 1
      BY <3>1, MulBelow
    <3>3. va \div pageSize = vp
      BY <3>1, DivOf
    <3> HIDE DEF va
    <3>4. isValid(va)
      BY <2>1, <2>3, <3>1, <3>2, <3>3, AddressesApart
    <3> QED
      BY <3>2, <3>3, <3>4 DEF Valid
  <2> QED
    BY <2>4, <2>5
<1>5. FailsOnlyWhenFull
  <2>1. ASSUME space.state = "assert failed" PROVE usedPages = Frames
    <3>1. space.scheme = "multilevel"
      BY <2>1 DEF SpaceInv, IsSpace, Schemes, Relocated, Segmented, Linear
    <3> QED
      BY <2>1, <3>1 DEF SpaceInv, Multilevel
  <2> QED
    BY <2>1 DEF FailsOnlyWhenFull
<1> QED
  BY <1>2, <1>3, <1>4, <1>5 DEF NoAliases

-----------------------------------------------------------------------------
(* raid.py: arithmetic first.                                              *)

\* Below n, numbers that are the same modulo n after a shift are the same.
LEMMA SameShift ==
    ASSUME NEW n \in Nat \ {0}, NEW x \in 0 .. n - 1, NEW y \in 0 .. n - 1, NEW r \in Int,
           (x - r) % n = (y - r) % n
    PROVE  x = y
<1> DEFINE u == x - r
           v == y - r
           p == u \div n
           q == v \div n
           t == u % n
<1>0. u \in Int /\ v \in Int /\ t = v % n
  OBVIOUS
<1> HIDE DEF u, v
<1>9. u = n * p + t /\ v = n * q + t /\ p \in Int /\ q \in Int /\ t \in Int
  BY <1>0, IntMod
<1> HIDE DEF p, q, t
<1>1. x - r = n * p + t /\ y - r = n * q + t /\ p \in Int /\ q \in Int /\ t \in Int
  BY <1>9 DEF u, v
<1>2. x - y = n * (p - q)
  BY <1>1
<1>3. p = q
  <2>1. CASE p > q
    <3>1. n * (p - q) >= n
      BY <1>1, <2>1
    <3> QED
      BY <1>2, <3>1
  <2>2. CASE q > p
    <3>1. n * (p - q) <= -n
      BY <1>1, <2>2
    <3> QED
      BY <1>2, <3>1
  <2> QED
    BY <1>1, <2>1, <2>2
<1>4. p - q = 0 /\ n * (p - q) = 0
  BY <1>1, <1>3
<1> QED
  BY <1>2, <1>4

LEMMA NestedDiv ==
    ASSUME NEW n \in Nat \ {0}, NEW m \in Nat \ {0}, NEW a \in Nat
    PROVE  (a \div m) \div n = a \div (n * m) /\ n * m \in Nat \ {0}
<1> DEFINE q == a \div m
           r == a % m
           p == q \div n
           t == q % n
           k == n * m
           u == t * m + r
<1>1. q \in Nat /\ r \in 0 .. m - 1 /\ a = m * q + r
  BY DivMod
<1>2. p \in Nat /\ t \in 0 .. n - 1 /\ q = n * p + t
  BY <1>1, DivMod
<1>3. k \in Nat \ {0}
  OBVIOUS
<1> HIDE DEF q, r, p, t
<1>4. u \in 0 .. m * n - 1
  BY <1>1, <1>2, MulBelow
<1>5. m * n = k
  OBVIOUS
<1>6. a = p * k + u
  <2>1. m * q = m * (n * p) + m * t
    BY <1>2
  <2>2. m * (n * p) = p * k
    BY <1>2
  <2>3. m * t = t * m
    BY <1>2
  <2> QED
    BY <1>1, <1>2, <2>1, <2>2, <2>3
<1> HIDE DEF k, u
<1>7. a \div k = p
  BY <1>2, <1>3, <1>4, <1>5, <1>6, DivOf
<1> QED
  BY <1>3, <1>7 DEF k, p, q

-----------------------------------------------------------------------------
(* Where the blocks are.                                                   *)

LEMMA RaidTypes ==
    ASSUME raid \in Raids
    PROVE  /\ raid.numDisks \in Nat \ {0} /\ raid.chunkSize \in Nat \ {0}
           /\ raid.level # 0 => raid.numDisks > 1
           /\ raid.level = 1 => raid.numDisks % 2 = 0
           /\ raid.level \in {0, 1, 4, 5} /\ raid.raid5type \in {"LS", "LA"}
<1>1. MaxDisks \in Nat /\ MaxChunk \in Nat
  BY RaidAssumption
<1>2. /\ raid.numDisks \in 1 .. MaxDisks /\ raid.chunkSize \in 1 .. MaxChunk
      /\ raid.level # 0 => raid.numDisks > 1
      /\ raid.level = 1 => raid.numDisks % 2 = 0
      /\ raid.level \in {0, 1, 4, 5} /\ raid.raid5type \in {"LS", "LA"}
  BY DEF Raids
<1> QED
  BY <1>1, <1>2

LEMMA Chunks ==
    ASSUME raid \in Raids, NEW b \in Nat
    PROVE  /\ cnum(b) \in Nat /\ coff(b) \in 0 .. raid.chunkSize - 1
           /\ b = raid.chunkSize * cnum(b) + coff(b)
BY RaidTypes, DivMod DEF cnum, coff

\* Two places, of a block of chunk q and of one of chunk p, on the disks that hold
\* every n-th chunk.
LEMMA Striped ==
    ASSUME raid \in Raids, NEW n \in Nat \ {0}, NEW b \in Nat, NEW c \in Nat,
           cnum(b) % n = cnum(c) % n,
           (cnum(b) \div n) * raid.chunkSize + coff(b) = (cnum(c) \div n) * raid.chunkSize + coff(c)
    PROVE  b = c
<1>1. /\ raid.chunkSize \in Nat \ {0} /\ cnum(b) \in Nat /\ cnum(c) \in Nat
      /\ coff(b) \in 0 .. raid.chunkSize - 1 /\ coff(c) \in 0 .. raid.chunkSize - 1
      /\ b = raid.chunkSize * cnum(b) + coff(b) /\ c = raid.chunkSize * cnum(c) + coff(c)
  BY RaidTypes, Chunks
<1>2. /\ cnum(b) \div n \in Nat /\ cnum(b) = n * (cnum(b) \div n) + (cnum(b) % n)
      /\ cnum(c) \div n \in Nat /\ cnum(c) = n * (cnum(c) \div n) + (cnum(c) % n)
  BY <1>1, DivMod
<1>3. cnum(b) \div n = cnum(c) \div n /\ coff(b) = coff(c)
  <2> DEFINE q == cnum(b) \div n
             p == cnum(c) \div n
             k == raid.chunkSize
  <2>1. k \in Nat \ {0} /\ q \in Nat /\ p \in Nat /\ coff(b) \in 0 .. k - 1 /\ coff(c) \in 0 .. k - 1
        /\ q * k + coff(b) = p * k + coff(c)
    BY <1>1, <1>2
  <2> HIDE DEF q, p, k
  <2>2. q = p /\ coff(b) = coff(c)
    BY <2>1, SamePlace
  <2> QED
    BY <2>2 DEF q, p
<1>4. cnum(b) = cnum(c)
  BY <1>2, <1>3
<1> QED
  BY <1>1, <1>3, <1>4

LEMMA Place0 ==
    ASSUME raid \in Raids, NEW b \in Nat
    PROVE  /\ bmap0(b)[1] \in 0 .. raid.numDisks - 1
           /\ \A c \in Nat : bmap0(b) = bmap0(c) => b = c
<1>1. bmap0(b)[1] \in 0 .. raid.numDisks - 1
  BY RaidTypes, Chunks, DivMod DEF bmap0
<1>2. ASSUME NEW c \in Nat, bmap0(b) = bmap0(c) PROVE b = c
  <2>1. /\ cnum(b) % raid.numDisks = cnum(c) % raid.numDisks
        /\ (cnum(b) \div raid.numDisks) * raid.chunkSize + coff(b)
             = (cnum(c) \div raid.numDisks) * raid.chunkSize + coff(c)
    BY <1>2 DEF bmap0
  <2> QED
    BY <2>1, RaidTypes, Striped
<1> QED
  BY <1>1, <1>2

LEMMA Place1 ==
    ASSUME raid \in Raids, raid.level = 1, NEW b \in Nat
    PROVE  /\ \A copy \in {0, 1} : bmap1(b, copy)[1] \in 0 .. raid.numDisks - 1
           /\ bmap1(b, 0)[1] # bmap1(b, 1)[1]
           /\ \A c \in Nat, i, j \in {0, 1} : bmap1(b, i) = bmap1(c, j) => b = c
<1>1. pairs \in Nat \ {0} /\ raid.numDisks = 2 * pairs
  <2>1. /\ raid.numDisks \in Nat \ {0} /\ raid.numDisks > 1 /\ raid.numDisks % 2 = 0
    BY RaidTypes
  <2> QED
    BY <2>1 DEF pairs
<1>2. \A c \in Nat : cnum(c) % pairs \in 0 .. pairs - 1
  BY <1>1, Chunks, DivMod
<1>3. \A c \in Nat, i \in {0, 1} : bmap1(c, i)[1] = 2 * (cnum(c) % pairs) + i
  BY DEF bmap1
<1>4. \A copy \in {0, 1} : bmap1(b, copy)[1] \in 0 .. raid.numDisks - 1
  <2>1. ASSUME NEW copy \in {0, 1}, NEW d \in 0 .. pairs - 1 PROVE 2 * d + copy \in 0 .. 2 * pairs - 1
    BY <1>1
  <2> QED
    BY <1>1, <1>2, <1>3, <2>1
<1>5. bmap1(b, 0)[1] # bmap1(b, 1)[1]
  BY <1>1, <1>2, <1>3
<1>6. ASSUME NEW c \in Nat, NEW i \in {0, 1}, NEW j \in {0, 1}, bmap1(b, i) = bmap1(c, j) PROVE b = c
  <2>1. 2 * (cnum(b) % pairs) + i = 2 * (cnum(c) % pairs) + j
    BY <1>3, <1>6
  <2>2. ASSUME NEW d \in Nat, NEW e \in Nat, 2 * d + i = 2 * e + j PROVE d = e
    BY <2>2
  <2>3. cnum(b) % pairs = cnum(c) % pairs
    BY <1>1, <1>2, <2>1, <2>2
  <2>4. (cnum(b) \div pairs) * raid.chunkSize + coff(b) = (cnum(c) \div pairs) * raid.chunkSize + coff(c)
    BY <1>6 DEF bmap1
  <2> QED
    BY <1>1, <2>3, <2>4, Striped
<1> QED
  BY <1>4, <1>5, <1>6

\* A stripe has its parity on a disk that holds none of its data.
LEMMA Place45 ==
    ASSUME raid \in Raids, raid.level \in {4, 5}
    PROVE  /\ dataDisks \in Nat \ {0} /\ blocksInStripe \in Nat \ {0}
           /\ \A b \in Nat : /\ row(b) \in Nat /\ row(b) = b \div blocksInStripe
                             /\ bmap(b)[1] \in 0 .. raid.numDisks - 1
                             /\ pmap(row(b)) \in 0 .. raid.numDisks - 1
                             /\ bmap(b)[1] # pmap(row(b))
           /\ \A b, c \in Nat : bmap(b)[2] = bmap(c)[2] => row(b) = row(c)
           /\ \A b, c \in Nat : bmap(b) = bmap(c) => b = c
<1> DEFINE n == raid.numDisks
           k == raid.chunkSize
<1>1. n \in Nat \ {0} /\ k \in Nat \ {0} /\ n > 1 /\ raid.raid5type \in {"LS", "LA"}
  BY RaidTypes
<1>2. dataDisks \in Nat \ {0} /\ dataDisks = n - 1 /\ blocksInStripe = dataDisks * k
  BY <1>1 DEF dataDisks, blocksInStripe
<1>3. ASSUME NEW b \in Nat
      PROVE  /\ cnum(b) \in Nat /\ coff(b) \in 0 .. k - 1 /\ row(b) \in Nat
             /\ column(b) \in 0 .. dataDisks - 1 /\ cnum(b) = dataDisks * row(b) + column(b)
  <2>1. cnum(b) \in Nat /\ coff(b) \in 0 .. k - 1
    BY Chunks
  <2> QED
    BY <1>2, <2>1, DivMod DEF row, column
<1>4. blocksInStripe \in Nat \ {0} /\ \A b \in Nat : row(b) = b \div blocksInStripe
  BY <1>1, <1>2, NestedDiv DEF row, cnum
<1>5. ASSUME NEW b \in Nat PROVE row(row(b) * blocksInStripe) = row(b)
  <2>1. row(b) \in Nat /\ row(b) * blocksInStripe \in Nat
    <3>1. row(b) \in Nat
      BY <1>3
    <3>2. blocksInStripe \in Nat
      BY <1>4
    <3> QED
      BY ONLY <3>1, <3>2
  <2>2. row(row(b) * blocksInStripe) = (row(b) * blocksInStripe) \div blocksInStripe
    BY <1>4, <2>1
  <2>3. (row(b) * blocksInStripe + 0) \div blocksInStripe = row(b)
    BY <1>4, <2>1, DivOf
  <2> QED
    BY <2>1, <2>2, <2>3
<1>6. ASSUME NEW b \in Nat
      PROVE  pmap(row(b)) = IF raid.level = 5 THEN (n - 1) - (row(b) % n) ELSE n - 1
  BY <1>5 DEF pmap, pdisk5
<1>7. ASSUME NEW b \in Nat PROVE row(b) % n \in 0 .. n - 1
  BY <1>1, <1>3, DivMod
<1>8. ASSUME NEW b \in Nat PROVE pmap(row(b)) \in 0 .. n - 1
  BY <1>1, <1>6, <1>7
<1>9. ASSUME NEW b \in Nat
      PROVE  bmap(b)[1] = IF raid.level = 4 THEN column(b)
                          ELSE IF raid.raid5type = "LA" THEN column(b) + (IF column(b) >= pmap(row(b)) THEN 1 ELSE 0)
                          ELSE (column(b) - (row(b) % n)) % n
  <2>1. pmap(row(b)) = (IF raid.level = 5 THEN pdisk5(b) ELSE n - 1)
    BY <1>6 DEF pdisk5
  <2> QED
    BY <2>1 DEF bmap, disk5
<1> HIDE DEF n, k
<1>10. ASSUME NEW b \in Nat
       PROVE  bmap(b)[1] \in 0 .. n - 1 /\ bmap(b)[1] # pmap(row(b))
  <2> DEFINE col == column(b)
             par == pmap(row(b))
             r   == row(b) % n
  <2>1. col \in 0 .. n - 2 /\ par \in 0 .. n - 1 /\ r \in 0 .. n - 1
    <3>1. col \in 0 .. dataDisks - 1
      BY <1>3
    <3> QED
      BY <1>1, <1>2, <1>7, <1>8, <3>1
  <2>5. raid.level \in {4, 5}
    OBVIOUS
  <2>2. CASE raid.level = 4
    BY <1>1, <1>6, <1>9, <2>1, <2>2
  <2>3. CASE raid.level = 5 /\ raid.raid5type = "LA"
    BY <1>1, <1>9, <2>1, <2>3
  <2>4. CASE raid.level = 5 /\ raid.raid5type = "LS"
    <3>1. bmap(b)[1] = (col - r) % n /\ par = (n - 1) - r
      BY <1>6, <1>9, <2>4
    <3> HIDE DEF col, par, r
    <3>2. (col - r) % n \in 0 .. n - 1
      <4>1. col - r \in Int
        BY <1>1, <2>1
      <4> QED
        BY <1>1, <4>1, IntMod
    <3>3. ((n - 1) - r) % n = (n - 1) - r
      <4>1. (n - 1) - r \in 0 .. n - 1
        BY <1>1, <2>1
      <4>2. (0 * n + ((n - 1) - r)) % n = (n - 1) - r
        BY <1>1, <4>1, DivOf
      <4> QED
        BY <1>1, <2>1, <4>2
    <3>4. (col - r) % n # (n - 1) - r
      <4>1. SUFFICES ASSUME (col - r) % n = ((n - 1) - r) % n PROVE FALSE
        BY <3>3
      <4>2. col \in 0 .. n - 1 /\ n - 1 \in 0 .. n - 1 /\ r \in Int
        BY <1>1, <2>1
      <4>3. col = n - 1
        BY <1>1, <4>1, <4>2, SameShift
      <4> QED
        BY <1>1, <2>1, <4>3
    <3> QED
      BY <3>1, <3>2, <3>4 DEF par
  <2> QED
    BY <1>1, <2>2, <2>3, <2>4, <2>5
<1>11. ASSUME NEW b \in Nat, NEW c \in Nat, bmap(b)[2] = bmap(c)[2]
       PROVE  row(b) = row(c) /\ coff(b) = coff(c)
  <2>1. row(b) * k + coff(b) = row(c) * k + coff(c)
    BY <1>11 DEF bmap, k
  <2>2. row(b) \in Nat /\ row(c) \in Nat /\ coff(b) \in 0 .. k - 1 /\ coff(c) \in 0 .. k - 1
    BY <1>3
  <2> QED
    BY <1>1, <2>1, <2>2, SamePlace
<1>12. ASSUME NEW b \in Nat, NEW c \in Nat, bmap(b) = bmap(c) PROVE b = c
  <2>1. row(b) = row(c) /\ coff(b) = coff(c) /\ bmap(b)[1] = bmap(c)[1]
    BY <1>11, <1>12
  <2> DEFINE x   == column(b)
             y   == column(c)
             r   == row(b) % n
             par == pmap(row(b))
  <2>2. x \in 0 .. n - 2 /\ y \in 0 .. n - 2 /\ r \in 0 .. n - 1 /\ par \in 0 .. n - 1
    <3>1. x \in 0 .. dataDisks - 1 /\ y \in 0 .. dataDisks - 1
      BY <1>3
    <3> QED
      BY <1>1, <1>2, <1>7, <1>8, <3>1
  <2>8. /\ bmap(b)[1] = IF raid.level = 4 THEN x
                      ELSE IF raid.raid5type = "LA" THEN x + (IF x >= par THEN 1 ELSE 0) ELSE (x - r) % n
        /\ bmap(c)[1] = IF raid.level = 4 THEN y
                      ELSE IF raid.raid5type = "LA" THEN y + (IF y >= par THEN 1 ELSE 0) ELSE (y - r) % n
    BY <1>9, <2>1
  <2> HIDE DEF x, y, r, par
  <2>3. ASSUME raid.level = 4 PROVE x = y
    BY <2>1, <2>3, <2>8
  <2>4. ASSUME raid.level = 5, raid.raid5type = "LA" PROVE x = y
    <3>1. x + (IF x >= par THEN 1 ELSE 0) = y + (IF y >= par THEN 1 ELSE 0)
      BY <2>1, <2>4, <2>8
    <3> QED
      BY <1>1, <2>2, <3>1
  <2>5. ASSUME raid.level = 5, raid.raid5type = "LS" PROVE x = y
    <3>1. (x - r) % n = (y - r) % n
      BY <2>1, <2>5, <2>8
    <3>2. x \in 0 .. n - 1 /\ y \in 0 .. n - 1 /\ r \in Int
      BY <1>1, <2>2
    <3> QED
      BY <1>1, <3>1, <3>2, SameShift
  <2>6. x = y
    BY <1>1, <2>3, <2>4, <2>5
  <2>7. cnum(b) = cnum(c)
    BY <1>3, <2>1, <2>6 DEF x, y
  <2> QED
    BY <1>1, <2>1, <2>7, Chunks
<1> QED
  BY <1>2, <1>3, <1>4, <1>8, <1>10, <1>11, <1>12 DEF n

\* Cardinality of a place, and of two.
LEMMA OneOrTwo ==
    ASSUME NEW x, NEW y PROVE Cardinality({x}) = 1 /\ (x # y => Cardinality({x, y}) = 2)
<1>1. IsFiniteSet({x}) /\ Cardinality({x}) = 1
  BY FS_Singleton
<1>2. ASSUME x # y PROVE Cardinality({x, y}) = 2
  <2>1. {x, y} = {x} \cup {y} /\ y \notin {x}
    BY <1>2
  <2> QED
    BY <1>1, <2>1, FS_AddElement
<1> QED
  BY <1>1, <1>2

LEMMA Places == raid \in Raids => Placement
<1> SUFFICES ASSUME raid \in Raids PROVE Placement
  OBVIOUS
<1> DEFINE all == 0 .. MaxBlock + MaxRequest
           copies == [b \in all |-> CASE raid.level = 0 -> {bmap0(b)}
                                      [] raid.level = 1 -> {bmap1(b, 0), bmap1(b, 1)}
                                      [] OTHER -> {bmap(b)}]
           parity == [b \in all |-> IF raid.level \notin {4, 5} THEN {}
                                    ELSE {<<pmap(b \div blocksInStripe), bmap(b)[2]>>}]
           on(b) == {p[1] : p \in copies[b] \cup parity[b]}
           good(b) == /\ on(b) \subseteq 0 .. raid.numDisks - 1
                      /\ Cardinality(on(b)) = IF raid.level = 0 THEN 1 ELSE 2
                      /\ \A c \in all \ {b} : copies[b] \cap (copies[c] \cup parity[c]) = {}
<1>1. all \subseteq Nat
  BY RaidAssumption
<1>2. ASSUME NEW b \in all, raid.level = 0 PROVE good(b)
  <2>1. \A c \in all : copies[c] = {bmap0(c)} /\ parity[c] = {}
    BY <1>2
  <2> HIDE DEF copies, parity
  <2>2. on(b) = {bmap0(b)[1]}
    BY <2>1
  <2>3. bmap0(b)[1] \in 0 .. raid.numDisks - 1 /\ \A c \in all : bmap0(b) = bmap0(c) => b = c
    BY <1>1, Place0
  <2>4. Cardinality(on(b)) = 1
    BY <2>2, OneOrTwo
  <2>5. \A c \in all \ {b} : copies[b] \cap (copies[c] \cup parity[c]) = {}
    BY <2>1, <2>3
  <2> QED
    BY <1>2, <2>2, <2>3, <2>4, <2>5
<1>3. ASSUME NEW b \in all, raid.level = 1 PROVE good(b)
  <2>1. \A c \in all : copies[c] = {bmap1(c, 0), bmap1(c, 1)} /\ parity[c] = {}
    BY <1>3
  <2> HIDE DEF copies, parity
  <2>2. on(b) = {bmap1(b, 0)[1], bmap1(b, 1)[1]}
    BY <2>1
  <2>3. /\ bmap1(b, 0)[1] \in 0 .. raid.numDisks - 1 /\ bmap1(b, 1)[1] \in 0 .. raid.numDisks - 1
        /\ bmap1(b, 0)[1] # bmap1(b, 1)[1]
        /\ \A c \in all, i, j \in {0, 1} : bmap1(b, i) = bmap1(c, j) => b = c
    BY <1>1, <1>3, Place1
  <2>4. Cardinality(on(b)) = 2
    <3>1. Cardinality({bmap1(b, 0)[1], bmap1(b, 1)[1]}) = 2
      BY <2>3, OneOrTwo
    <3> QED
      BY <2>2, <3>1
  <2>5. \A c \in all \ {b} : copies[b] \cap (copies[c] \cup parity[c]) = {}
    BY <2>1, <2>3
  <2> QED
    BY <1>3, <2>2, <2>3, <2>4, <2>5
<1>4. ASSUME NEW b \in all, raid.level \in {4, 5} PROVE good(b)
  <2>1. \A c \in all : copies[c] = {bmap(c)} /\ parity[c] = {<<pmap(row(c)), bmap(c)[2]>>}
    <3>1. ASSUME NEW c \in all PROVE row(c) = c \div blocksInStripe
      BY <1>1, <1>4, Place45
    <3> QED
      BY <1>4, <3>1
  <2> HIDE DEF copies, parity
  <2>2. on(b) = {bmap(b)[1], pmap(row(b))}
    <3> DEFINE there == <<pmap(row(b)), bmap(b)[2]>>
    <3>1. there[1] = pmap(row(b)) /\ parity[b] = {there}
      BY <2>1
    <3> HIDE DEF there
    <3> QED
      BY <2>1, <3>1
  <2>3. /\ bmap(b)[1] \in 0 .. raid.numDisks - 1 /\ pmap(row(b)) \in 0 .. raid.numDisks - 1
        /\ bmap(b)[1] # pmap(row(b))
        /\ \A c \in all : bmap(b)[2] = bmap(c)[2] => row(b) = row(c)
        /\ \A c \in all : bmap(b) = bmap(c) => b = c
    BY <1>1, <1>4, Place45
  <2>4. Cardinality(on(b)) = 2
    <3>1. Cardinality({bmap(b)[1], pmap(row(b))}) = 2
      BY <2>3, OneOrTwo
    <3> QED
      BY <2>2, <3>1
  <2>5. ASSUME NEW c \in all \ {b} PROVE copies[b] \cap (copies[c] \cup parity[c]) = {}
    <3>1. bmap(b) # bmap(c)
      BY <2>3
    <3>2. ASSUME bmap(b) = <<pmap(row(c)), bmap(c)[2]>> PROVE FALSE
      <4>1. bmap(b)[1] = pmap(row(c)) /\ bmap(b)[2] = bmap(c)[2]
        BY <3>2
      <4> QED
        BY <2>3, <4>1
    <3> QED
      BY <2>1, <3>1, <3>2
  <2> QED
    BY <1>4, <2>2, <2>3, <2>4, <2>5
<1>5. \A b \in all : good(b)
  BY <1>2, <1>3, <1>4, RaidTypes
<1> QED
  BY <1>5 DEF Placement

-----------------------------------------------------------------------------
(* The writes of raid.py, stripe by stripe.                                *)

\* What was written and read for stripe s: parts of the stripe and their parity,
\* which can be computed.
PartsServed(s, R, W) ==
    LET here(o)    == {b \in Stripe(s) : bmap(b)[2] = o}
        changed(o) == {b \in here(o) : bmap(b) \in W}
        parity(o)  == <<pmap(s), o>>
    IN  /\ \A w \in W : \E b \in Stripe(s) : w \in {bmap(b), parity(bmap(b)[2])}
        /\ \A o \in {w[2] : w \in W} :
             /\ parity(o) \in W
             /\ IF parity(o) \in R THEN \A b \in changed(o) : bmap(b) \in R
                ELSE \A b \in here(o) : bmap(b) \in R \cup W

\* The part that is next begins in its stripe, and the last part has served the last.
RaidInv ==
    /\ raid \in Raids
    /\ \/ request = NoRequest
       \/ /\ raid.level \in {4, 5}
          /\ request.addr \in Nat /\ request.size \in Nat \ {0}
          /\ stripe \in Nat /\ begin \in Nat /\ left \in Nat
          /\ begin + left = request.addr + request.size
          /\ IF left = 0 THEN stripe > LastStripe
             ELSE stripe * blocksInStripe <= begin /\ begin < (stripe + 1) * blocksInStripe
          /\ writes # {} => PartsServed(stripe - 1, reads, writes)

LEMMA RaidInitHolds == RaidInit => RaidInv
BY DEF RaidInit, RaidInv

LEMMA DivBounds ==
    ASSUME NEW n \in Nat \ {0}, NEW a \in Nat, NEW s, s = a \div n
    PROVE  s \in Nat /\ s * n <= a /\ a < (s + 1) * n
OBVIOUS

LEMMA StripeOf ==
    ASSUME NEW n \in Nat \ {0}, NEW s \in Nat, NEW a \in Nat, s * n <= a, a < (s + 1) * n
    PROVE  a \div n = s
<1> DEFINE r == a - s * n
<1>1. r \in 0 .. n - 1
  OBVIOUS
<1>2. (s * n + r) \div n = s
  <2> HIDE DEF r
  <2> QED
    BY <1>1, DivOf
<1> QED
  BY <1>2

LEMMA InStripe ==
    ASSUME raid \in Raids, raid.level \in {4, 5}, NEW s \in Nat, NEW b \in Stripe(s)
    PROVE  b \in Nat /\ row(b) = s /\ bmap(b)[1] # pmap(s)
<1> DEFINE n == blocksInStripe
<1>1. n \in Nat \ {0} /\ \A c \in Nat : row(c) = c \div n /\ bmap(c)[1] # pmap(row(c))
  BY Place45
<1>2. b \in s * n .. (s + 1) * n - 1
  BY DEF Stripe
<1> HIDE DEF n
<1>3. b \in Nat /\ s * n <= b /\ b < (s + 1) * n
  BY <1>1, <1>2
<1>4. row(b) = s
  BY <1>1, <1>3, StripeOf
<1> QED
  BY <1>1, <1>3, <1>4

\* Whichever way the new parity is computed.
LEMMA PartServed ==
    ASSUME raid \in Raids, raid.level \in {4, 5}, NEW s \in Nat, NEW part, part \subseteq Stripe(s), NEW how \in BOOLEAN,
           NEW R, NEW W,
           R = (IF how THEN {bmap(b) : b \in part} \cup {<<pmap(s), bmap(b)[2]>> : b \in part}
                ELSE {bmap(b) : b \in Stripe(s) \ part}),
           W = UNION {{bmap(b), <<pmap(s), bmap(b)[2]>>} : b \in part}
    PROVE  PartsServed(s, R, W)
<1> DEFINE parity(o) == <<pmap(s), o>>
<1>1. \A b \in Stripe(s) : bmap(b)[1] # pmap(s)
  BY InStripe
<1>2. \A o : parity(o)[1] = pmap(s) /\ parity(o)[2] = o
  OBVIOUS
<1>3. /\ \A b \in part : bmap(b) \in W /\ parity(bmap(b)[2]) \in W
      /\ \A w \in W : \E b \in part : w \in {bmap(b), parity(bmap(b)[2])}
      /\ how => \A b \in part : bmap(b) \in R /\ parity(bmap(b)[2]) \in R
      /\ ~ how => /\ \A b \in Stripe(s) \ part : bmap(b) \in R
                  /\ \A r \in R : \E b \in Stripe(s) : r = bmap(b)
  OBVIOUS
<1> HIDE DEF parity
<1>4. ASSUME NEW w \in W PROVE \E b \in part : w[2] = bmap(b)[2]
  <2>1. PICK b \in part : w \in {bmap(b), parity(bmap(b)[2])}
    BY <1>3
  <2>2. parity(bmap(b)[2])[2] = bmap(b)[2]
    BY <1>2
  <2>3. w = bmap(b) \/ w = parity(bmap(b)[2])
    BY <2>1
  <2> QED
    BY <2>2, <2>3
<1>5. \A b \in Stripe(s) : bmap(b) \in W => \E c \in part : bmap(b) = bmap(c)
  BY <1>1, <1>2, <1>3
<1>6. ASSUME NEW o \in {w[2] : w \in W}
      PROVE  /\ parity(o) \in W
             /\ IF parity(o) \in R THEN \A b \in {b \in Stripe(s) : bmap(b)[2] = o /\ bmap(b) \in W} : bmap(b) \in R
                ELSE \A b \in {b \in Stripe(s) : bmap(b)[2] = o} : bmap(b) \in R \cup W
  <2>1. PICK b \in part : o = bmap(b)[2]
    BY <1>4
  <2>2. parity(o) \in W
    BY <1>3, <2>1
  <2>3. CASE how
    <3>1. parity(o) \in R
      BY <1>3, <2>1, <2>3
    <3> QED
      BY <1>3, <1>5, <2>2, <2>3, <3>1
  <2>4. CASE ~ how
    <3>1. parity(o) \notin R
      <4>1. SUFFICES ASSUME parity(o) \in R PROVE FALSE
        OBVIOUS
      <4>2. PICK c \in Stripe(s) : parity(o) = bmap(c)
        BY <1>3, <2>4, <4>1
      <4>3. bmap(c)[1] = pmap(s)
        BY <1>2, <4>2
      <4> QED
        BY <1>1, <4>3
    <3> QED
      BY <1>3, <2>2, <2>4, <3>1
  <2> QED
    BY <2>3, <2>4
<1> QED
  BY <1>3, <1>6 DEF PartsServed, parity

\* The mappings change with raid only.
LEMMA SameArray ==
    ASSUME raid' = raid
    PROVE  /\ blocksInStripe' = blocksInStripe
           /\ \A b : bmap(b)' = bmap(b)
           /\ \A s : pmap(s)' = pmap(s) /\ Stripe(s)' = Stripe(s)
<1>1. blocksInStripe' = blocksInStripe
  BY DEF blocksInStripe, dataDisks
<1>2. \A b : bmap(b)' = bmap(b)
  BY DEF bmap, disk5, column, row, pdisk5, cnum, coff, dataDisks
<1>3. \A s : pmap(s)' = pmap(s)
  BY <1>1 DEF pmap, pdisk5, row, cnum, dataDisks
<1>4. \A s : Stripe(s)' = Stripe(s)
  BY <1>1 DEF Stripe
<1> QED
  BY <1>1, <1>2, <1>3, <1>4

LEMMA RaidStands ==
    ASSUME RaidInv, UNCHANGED raidVars PROVE RaidInv'
<1>1. /\ raid' = raid /\ request' = request /\ stripe' = stripe /\ begin' = begin /\ left' = left
      /\ reads' = reads /\ writes' = writes
  BY DEF raidVars
<1>2. blocksInStripe' = blocksInStripe /\ LastStripe' = LastStripe
  BY <1>1, SameArray DEF LastStripe
<1>3. PartsServed(stripe - 1, reads, writes) => PartsServed(stripe - 1, reads, writes)'
  BY <1>1, SameArray DEF PartsServed
<1> QED
  BY <1>1, <1>2, <1>3 DEF RaidInv

LEMMA RaidStepHolds ==
    ASSUME RaidInv, RaidStep PROVE RaidInv'
<1>1. raid \in Raids /\ raid' = raid /\ raid' \in Raids
  BY DEF RaidInv, RaidStep, enqueue0, enqueue1, enqueue45_read, enqueue45_write, Serves, doPartialWrite, Return
<1>2. ASSUME request' = NoRequest PROVE RaidInv'
  BY <1>1, <1>2 DEF RaidInv, NoRequest
<1>3. CASE \E addr \in 0 .. MaxBlock, size \in 1 .. MaxRequest :
              \/ \E isWrite \in BOOLEAN : enqueue0(addr, size, isWrite) \/ enqueue1(addr, size, isWrite)
              \/ enqueue45_read(addr, size)
  <2>1. request' = request /\ ~ Writing
    BY <1>3 DEF enqueue0, enqueue1, enqueue45_read, Serves, Unoccupied
  <2> QED
    BY <1>2, <2>1 DEF Writing
<1>4. ASSUME NEW addr \in 0 .. MaxBlock, NEW size \in 1 .. MaxRequest, enqueue45_write(addr, size)
      PROVE  RaidInv'
  <2>1. addr \in Nat /\ size \in Nat \ {0}
    BY RaidAssumption
  <2>2. /\ raid.level \in {4, 5} /\ request' = [addr |-> addr, size |-> size]
        /\ stripe' = addr \div blocksInStripe /\ begin' = addr /\ left' = size /\ writes' = {}
    BY <1>4 DEF enqueue45_write
  <2>3. blocksInStripe \in Nat \ {0} /\ blocksInStripe' = blocksInStripe
    BY <1>1, <2>2, Place45, SameArray
  <2>4. /\ stripe' \in Nat /\ stripe' * blocksInStripe <= addr /\ addr < (stripe' + 1) * blocksInStripe
    <3> DEFINE n == blocksInStripe
    <3>1. n \in Nat \ {0} /\ stripe' = addr \div n
      BY <2>2, <2>3
    <3> HIDE DEF n
    <3>2. stripe' \in Nat /\ stripe' * n <= addr /\ addr < (stripe' + 1) * n
      BY <2>1, <3>1, DivBounds
    <3> QED
      BY <3>2 DEF n
  <2> QED
    BY <1>1, <2>1, <2>2, <2>3, <2>4 DEF RaidInv
<1>5. CASE doPartialWrite
  <2> DEFINE n == blocksInStripe
             p == PartEnd
             last == LastStripe
  <2>1. /\ raid.level \in {4, 5} /\ request' = request
        /\ request.addr \in Nat /\ request.size \in Nat \ {0}
        /\ stripe \in Nat /\ begin \in Nat /\ left \in Nat
        /\ begin + left = request.addr + request.size
        /\ IF left = 0 THEN stripe > last ELSE stripe * n <= begin /\ begin < (stripe + 1) * n
        /\ stripe <= last
    BY <1>5 DEF doPartialWrite, Writing, RaidInv
  <2>2. /\ n \in Nat \ {0} /\ n' = n /\ last' = last /\ last = (request.addr + request.size - 1) \div n
    BY <1>1, <2>1, Place45, SameArray DEF LastStripe
  <2>3. /\ left' = left - (p - begin) /\ begin' = p /\ stripe' = stripe + 1
        /\ reads' = PartReads(p)
        /\ writes' = UNION {{bmap(b), <<pmap(stripe), bmap(b)[2]>>} : b \in begin .. p - 1}
        /\ p = Lesser(begin + Lesser(left, n), (stripe + 1) * n)
    BY <1>5 DEF doPartialWrite, PartEnd
  <2>4. PartsServed(stripe, reads', writes') => PartsServed(stripe - 1, reads, writes)'
    <3>1. stripe' - 1 = stripe
      BY <2>1, <2>3
    <3>2. bmap(1)' = bmap(1)
      BY <1>1, SameArray
    <3> QED
      BY <1>1, <3>1, SameArray DEF PartsServed
  <2>5. Stripe(stripe) = stripe * n .. (stripe + 1) * n - 1
    BY DEF Stripe
  <2> DEFINE addr == request.addr
             size == request.size
  <2> HIDE DEF n, p, last
  <2>6. last \in Int
    <3>1. addr + size - 1 \in Int
      BY <2>1
    <3> QED
      BY <2>2, <3>1, IntMod
  <2>14. /\ addr \in Nat /\ size \in Nat \ {0} /\ begin + left = addr + size /\ last = (addr + size - 1) \div n
    BY <2>1, <2>2
  <2> HIDE DEF addr, size
  <2>7. left \in Nat \ {0} /\ stripe * n <= begin /\ begin < (stripe + 1) * n /\ stripe \in Nat /\ begin \in Nat
    BY <2>1, <2>6
  <2>8. /\ p \in Nat /\ begin < p /\ p <= begin + left /\ p <= (stripe + 1) * n
        /\ p = begin + left \/ p = (stripe + 1) * n
    <3>1. p = Lesser(begin + Lesser(left, n), (stripe + 1) * n) /\ n \in Nat \ {0}
      BY <2>2, <2>3
    <3> DEFINE t == stripe * n
               u == (stripe + 1) * n
    <3>2. t \in Nat /\ u = t + n
      BY <2>7, <3>1
    <3>3. t <= begin /\ begin < u /\ p = Lesser(begin + Lesser(left, n), u)
      BY <2>7, <3>1
    <3> HIDE DEF t, u
    \* The part ends with the request or with the stripe.
    <3>4. p \in Nat /\ begin < p /\ p <= begin + left /\ p <= u /\ (p = begin + left \/ p = u)
      <4>1. n \in Nat \ {0} /\ begin \in Nat /\ left \in Nat \ {0}
        BY <2>7, <3>1
      <4>2. CASE left < n
        BY <3>2, <3>3, <4>1, <4>2 DEF Lesser
      <4>3. CASE ~ (left < n)
        BY <3>2, <3>3, <4>1, <4>3 DEF Lesser
      <4> QED
        BY <4>2, <4>3
    <3> QED
      BY <3>4 DEF u
  <2>9. begin .. p - 1 \subseteq Stripe(stripe)
    <3>1. stripe * n \in Nat /\ (stripe + 1) * n \in Nat
      BY <2>1, <2>2
    <3> QED
      BY <2>1, <2>5, <2>7, <2>8, <3>1
  <2>10. PartsServed(stripe, reads', writes')
    <3> DEFINE part == begin .. p - 1
               how == Cardinality(part) + 1 <= n - Cardinality(part)
    <3>1. reads' = IF how THEN {bmap(b) : b \in part} \cup {<<pmap(stripe), bmap(b)[2]>> : b \in part}
                   ELSE {bmap(b) : b \in Stripe(stripe) \ part}
      BY <2>3 DEF PartReads, n
    <3>2. writes' = UNION {{bmap(b), <<pmap(stripe), bmap(b)[2]>>} : b \in part} /\ part \subseteq Stripe(stripe)
      BY <2>3, <2>9
    <3>3. how \in BOOLEAN
      OBVIOUS
    <3> HIDE DEF part, how
    <3> QED
      BY <1>1, <2>1, <3>1, <3>2, <3>3, PartServed
  <2>11. /\ left' \in Nat /\ begin' \in Nat /\ stripe' \in Nat /\ stripe' = stripe + 1
         /\ begin' + left' = request.addr + request.size
    <3>1. left' = left - (p - begin) /\ begin' = p /\ stripe' = stripe + 1
      BY <2>3
    <3>2. left - (p - begin) \in Nat /\ stripe + 1 \in Nat /\ p + (left - (p - begin)) = addr + size
      BY <2>7, <2>8, <2>14
    <3> QED
      BY <2>8, <3>1, <3>2 DEF addr, size
  <2>12. CASE left' = 0
    <3>1. addr + size - 1 \in Nat /\ stripe * n <= addr + size - 1 /\ addr + size - 1 < (stripe + 1) * n
      <4>1. stripe * n \in Nat /\ (stripe + 1) * n \in Nat
        BY <2>2, <2>7
      <4>2. left - (p - begin) = 0
        BY <2>3, <2>12
      <4>3. p = addr + size
        BY <2>7, <2>8, <2>14, <4>2
      <4> QED
        BY <2>7, <2>8, <2>14, <4>1, <4>3
    <3>2. last = stripe
      BY <2>2, <2>7, <2>14, <3>1, StripeOf
    <3>3. stripe' > last
      BY <2>7, <2>11, <3>2
    <3> QED
      BY <1>1, <2>1, <2>2, <2>4, <2>10, <2>11, <2>12, <3>3 DEF RaidInv, last, n
  <2>13. CASE left' # 0
    <3>1. p = (stripe + 1) * n
      <4>1. left - (p - begin) # 0
        BY <2>3, <2>13
      <4> QED
        BY <2>7, <2>8, <4>1
    <3>2. stripe' * n <= begin' /\ begin' < (stripe' + 1) * n
      <4>1. (stripe + 1 + 1) * n = (stripe + 1) * n + n
        BY <2>2, <2>7
      <4>2. stripe' = stripe + 1 /\ begin' = p
        BY <2>3
      <4>3. (stripe + 1) * n \in Nat
        BY <2>2, <2>7
      <4> QED
        BY <2>2, <3>1, <4>1, <4>2, <4>3
    <3> QED
      BY <1>1, <2>1, <2>2, <2>4, <2>10, <2>11, <2>13, <3>2 DEF RaidInv, n
  <2> QED
    BY <2>12, <2>13
<1>6. CASE Return
  BY <1>2, <1>6 DEF Return
<1> QED
  BY <1>3, <1>4, <1>5, <1>6 DEF RaidStep

LEMMA RaidInvImplies ==
    ASSUME RaidInv PROVE Placement /\ ParityComputable
<1>1. Placement
  BY Places DEF RaidInv
<1>2. ASSUME Writing, stripe > LastStripe PROVE left = 0 /\ begin = request.addr + request.size
  <2> DEFINE n == blocksInStripe
             a == request.addr + request.size - 1
             q == a \div n
  <2>1. /\ raid.level \in {4, 5} /\ request.addr \in Nat /\ request.size \in Nat \ {0}
        /\ stripe \in Nat /\ begin \in Nat /\ left \in Nat
        /\ begin + left = request.addr + request.size
        /\ left # 0 => stripe * n <= begin
        /\ stripe > q /\ n \in Nat \ {0}
    BY <1>2, Place45 DEF RaidInv, Writing, LastStripe
  <2>2. a \in Nat /\ begin + left = a + 1
    BY <2>1
  <2> HIDE DEF n, a
  <2>3. q \in Nat /\ a < (q + 1) * n
    BY <2>1, <2>2, DivBounds
  <2> HIDE DEF q
  <2>4. (q + 1) * n <= stripe * n
    BY <2>1, <2>3
  <2>5. left = 0
    <3>1. stripe * n \in Nat /\ (q + 1) * n \in Nat
      BY <2>1, <2>3
    <3> QED
      BY <2>1, <2>2, <2>3, <2>4, <3>1
  <2> QED
    BY <2>1, <2>5
<1>3. Writing /\ writes # {} => PartsServed(stripe - 1, reads, writes)
  BY DEF RaidInv, Writing
<1> QED
  BY <1>1, <1>2, <1>3 DEF ParityComputable, PartsServed

-----------------------------------------------------------------------------
(* malloc.py: blocks, and the addresses in them.                           *)

HeapBlocks == [addr : Int, size : Nat \ {0}]

In(x, b) == b.addr <= x /\ x < b.addr + b.size

Covers(list, x) == \E i \in DOMAIN list : In(x, list[i])

\* No address is in two blocks of the list.
Once(list) == \A x \in Int : \A i, j \in DOMAIN list : In(x, list[i]) /\ In(x, list[j]) => i = j

Held(map, a) == [addr |-> a, size |-> map[a]]

Holds(map, x) == \E a \in DOMAIN map : In(x, Held(map, a))

\* The blocks of the list and those of the map tile the heap.
Tiles(list, map) ==
    /\ list \in Seq(HeapBlocks) /\ Once(list)
    /\ DOMAIN map \subseteq Int /\ map \in [DOMAIN map -> Nat \ {0}]
    /\ \A x \in Int : \A a, b \in DOMAIN map : In(x, Held(map, a)) /\ In(x, Held(map, b)) => a = b
    /\ \A x \in Int : x \in Start .. Start + HeapSize - 1 <=> Covers(list, x) \/ Holds(map, x)
    /\ \A x \in Int : ~ (Covers(list, x) /\ Holds(map, x))

\* The blocks of the list are those of r and e.
Parts(list, r, e) ==
    \A x \in Int : /\ Covers(list, x) <=> Covers(r, x) \/ In(x, e)
                   /\ ~ (Covers(r, x) /\ In(x, e))

MapWith(map, a, s) == [b \in DOMAIN map \cup {a} |-> IF b = a THEN s ELSE map[b]]

SplitOff(list, i, s) == [list EXCEPT ![i] = [addr |-> @.addr + s, size |-> @.size - s]]

\* Each block ends before the next begins, and with a gap when strict.
Ascends(list, strict) ==
    \A i, j \in DOMAIN list : i < j =>
        /\ list[i].addr + list[i].size <= list[j].addr
        /\ strict => list[i].addr + list[i].size # list[j].addr

HeapInv ==
    /\ flags \in Flags
    /\ Tiles(freelist, sizemap)
    /\ flags.order = "ADDRSORT" => Ascends(freelist, flags.coalesce)

LEMMA BlockIs ==
    ASSUME NEW list \in Seq(HeapBlocks), NEW i \in DOMAIN list
    PROVE  list[i] \in HeapBlocks /\ list[i].addr \in Int /\ list[i].size \in Nat \ {0}
<1>1. list[i] \in HeapBlocks
  OBVIOUS
<1> QED
  BY <1>1 DEF HeapBlocks

LEMMA HeldIs ==
    ASSUME NEW map, DOMAIN map \subseteq Int, map \in [DOMAIN map -> Nat \ {0}], NEW a \in DOMAIN map
    PROVE  /\ Held(map, a) \in HeapBlocks /\ a \in Int /\ In(a, Held(map, a))
           /\ Held(map, a).addr = a /\ Held(map, a).size = map[a]
<1>1. Held(map, a).addr = a /\ Held(map, a).size = map[a] /\ a \in Int /\ map[a] \in Nat \ {0}
  BY DEF Held
<1>2. Held(map, a) \in HeapBlocks
  BY <1>1 DEF Held, HeapBlocks
<1>3. In(a, Held(map, a))
  BY <1>1 DEF In
<1> QED
  BY <1>1, <1>2, <1>3

LEMMA HeapInitHolds == HeapInit => HeapInv
<1> SUFFICES ASSUME HeapInit PROVE HeapInv
  OBVIOUS
<1> DEFINE b == [addr |-> Start, size |-> HeapSize]
<1>1. freelist = <<b>> /\ sizemap = <<>> /\ flags \in Flags
  BY DEF HeapInit
<1>2. b \in HeapBlocks /\ b.addr = Start /\ b.size = HeapSize /\ Start \in Int /\ HeapSize \in Nat
  BY HeapAssumption DEF HeapBlocks
<1> HIDE DEF b
<1>3. freelist \in Seq(HeapBlocks) /\ DOMAIN freelist = {1} /\ freelist[1] = b
  BY <1>1, <1>2
<1>4. Once(freelist)
  BY <1>3 DEF Once
<1>5. DOMAIN sizemap = {}
  BY <1>1
<1>6. sizemap \in [DOMAIN sizemap -> Nat \ {0}]
  <2>1. sizemap = [a \in {} |-> 0]
    BY <1>1
  <2> QED
    BY <2>1
<1>7. ASSUME NEW x \in Int
      PROVE  (x \in Start .. Start + HeapSize - 1 <=> Covers(freelist, x)) /\ ~ Holds(sizemap, x)
  <2>1. Covers(freelist, x) <=> In(x, b)
    BY <1>3 DEF Covers
  <2>2. In(x, b) <=> x \in Start .. Start + HeapSize - 1
    BY <1>2 DEF In
  <2>3. ~ Holds(sizemap, x)
    BY <1>5 DEF Holds
  <2> QED
    BY <2>1, <2>2, <2>3
<1>8. Ascends(freelist, flags.coalesce)
  BY <1>3 DEF Ascends
<1> QED
  BY <1>1, <1>3, <1>4, <1>5, <1>6, <1>7, <1>8 DEF HeapInv, Tiles

\* A block of the list goes to the map.
LEMMA GivenOut ==
    ASSUME NEW list, NEW map, Tiles(list, map), NEW r \in Seq(HeapBlocks), Once(r),
           NEW a \in Int, NEW s \in Nat \ {0}, NEW e \in HeapBlocks, e.addr = a, e.size = s,
           Parts(list, r, e),
           NEW new, new = MapWith(map, a, s)
    PROVE  Tiles(r, new)
<1>1. In(a, e)
  BY DEF In
<1>2. a \notin DOMAIN map
  <2> SUFFICES ASSUME a \in DOMAIN map PROVE FALSE
    OBVIOUS
  <2>1. In(a, Held(map, a))
    BY HeldIs DEF Tiles
  <2> QED
    BY <1>1, <2>1 DEF Holds, Tiles, Parts
<1>3. /\ DOMAIN new = DOMAIN map \cup {a} /\ new[a] = s
      /\ \A b \in DOMAIN map : b # a /\ new[b] = map[b]
  BY <1>2 DEF MapWith
<1>4. DOMAIN new \subseteq Int /\ new \in [DOMAIN new -> Nat \ {0}]
  <2>1. DOMAIN map \subseteq Int /\ \A b \in DOMAIN map : map[b] \in Nat \ {0}
    BY DEF Tiles
  <2>2. new = [b \in DOMAIN new |-> new[b]]
    BY DEF MapWith
  <2>3. \A b \in DOMAIN new : b \in Int /\ new[b] \in Nat \ {0}
    BY <1>3, <2>1
  <2> QED
    BY <2>2, <2>3
<1>5. ASSUME NEW x \in Int PROVE In(x, Held(new, a)) <=> In(x, e)
  BY <1>3 DEF Held, In
<1>6. \A b \in DOMAIN map : Held(new, b) = Held(map, b)
  BY <1>3 DEF Held
<1>7. ASSUME NEW x \in Int PROVE Holds(new, x) <=> Holds(map, x) \/ In(x, e)
  BY <1>3, <1>5, <1>6 DEF Holds
<1>8. \A x \in Int : \A b, c \in DOMAIN new : In(x, Held(new, b)) /\ In(x, Held(new, c)) => b = c
  <2> SUFFICES ASSUME NEW x \in Int, NEW b \in DOMAIN new, NEW c \in DOMAIN new,
                      In(x, Held(new, b)), In(x, Held(new, c))
               PROVE  b = c
    OBVIOUS
  <2>1. \A d \in DOMAIN map : In(x, Held(map, d)) => ~ In(x, e)
    BY DEF Tiles, Holds, Parts
  <2>2. CASE b = a \/ c = a
    BY <1>3, <1>5, <1>6, <2>1, <2>2
  <2>3. CASE b # a /\ c # a
    BY <1>3, <1>6, <2>3 DEF Tiles
  <2> QED
    BY <2>2, <2>3
<1>9. \A x \in Int : x \in Start .. Start + HeapSize - 1 <=> Covers(r, x) \/ Holds(new, x)
  BY <1>7 DEF Tiles, Parts
<1>10. \A x \in Int : ~ (Covers(r, x) /\ Holds(new, x))
  BY <1>7 DEF Tiles, Parts
<1> QED
  BY <1>4, <1>8, <1>9, <1>10 DEF Tiles

\* A block of the map comes back to the list.
LEMMA GivenBack ==
    ASSUME NEW list, NEW map, Tiles(list, map), NEW r \in Seq(HeapBlocks), Once(r), NEW a \in DOMAIN map,
           \A x \in Int : Covers(r, x) <=> Covers(list, x) \/ In(x, Held(map, a)),
           NEW new, new = [b \in DOMAIN map \ {a} |-> map[b]]
    PROVE  Tiles(r, new)
<1>1. DOMAIN new = DOMAIN map \ {a} /\ \A b \in DOMAIN new : new[b] = map[b]
  OBVIOUS
<1>2. DOMAIN new \subseteq Int /\ new \in [DOMAIN new -> Nat \ {0}]
  <2>1. DOMAIN map \subseteq Int /\ \A b \in DOMAIN map : map[b] \in Nat \ {0}
    BY DEF Tiles
  <2> QED
    BY <1>1, <2>1
<1>3. \A b \in DOMAIN new : Held(new, b) = Held(map, b)
  BY <1>1 DEF Held
<1>4. ASSUME NEW x \in Int
      PROVE  /\ Holds(map, x) <=> Holds(new, x) \/ In(x, Held(map, a))
             /\ ~ (Holds(new, x) /\ In(x, Held(map, a)))
  <2>1. Holds(map, x) <=> Holds(new, x) \/ In(x, Held(map, a))
    BY <1>1, <1>3 DEF Holds
  <2>2. ~ (Holds(new, x) /\ In(x, Held(map, a)))
    BY <1>1, <1>3 DEF Holds, Tiles
  <2> QED
    BY <2>1, <2>2
<1>5. \A x \in Int : \A b, c \in DOMAIN new : In(x, Held(new, b)) /\ In(x, Held(new, c)) => b = c
  BY <1>1, <1>3 DEF Tiles
<1>6. \A x \in Int : x \in Start .. Start + HeapSize - 1 <=> Covers(r, x) \/ Holds(new, x)
  BY <1>4 DEF Tiles
<1>7. \A x \in Int : ~ (Covers(r, x) /\ Holds(new, x))
  BY <1>4 DEF Tiles
<1> QED
  BY <1>2, <1>5, <1>6, <1>7 DEF Tiles

-----------------------------------------------------------------------------
(* malloc.                                                                 *)

LEMMA TakenIs ==
    ASSUME flags \in Flags, NEW n \in 1 .. MaxSize PROVE Taken(n) \in Nat \ {0}
<1>1. n \in Nat \ {0} /\ flags.align \in {-1, 2} /\ flags.headerSize \in {0, 1}
  BY HeapAssumption DEF Flags
<1>2. CASE flags.align = -1
  BY <1>1, <1>2 DEF Taken
<1>3. CASE flags.align = 2
  <2>1. ((n + 2 - 1) \div 2) * 2 \in Nat \ {0}
    BY <1>1
  <2> QED
    BY <1>1, <1>3, <2>1 DEF Taken
<1> QED
  BY <1>1, <1>2, <1>3

\* The list with the beginning of its block i taken away.
LEMMA SplitIs ==
    ASSUME NEW list \in Seq(HeapBlocks), NEW i \in DOMAIN list, NEW s \in Nat \ {0}, list[i].size > s,
           Once(list), NEW strict,
           NEW r, r = SplitOff(list, i, s),
           NEW e, e = [addr |-> list[i].addr, size |-> s]
    PROVE  /\ e \in HeapBlocks /\ e.addr = list[i].addr /\ e.size = s /\ e.addr \in Int
           /\ r \in Seq(HeapBlocks) /\ Once(r)
           /\ Parts(list, r, e)
           /\ Ascends(list, strict) => Ascends(r, strict)
<1> DEFINE rest == [addr |-> list[i].addr + s, size |-> list[i].size - s]
<1>1. /\ list[i] \in HeapBlocks /\ list[i].addr \in Int /\ list[i].size \in Nat
      /\ \A j \in DOMAIN list : list[j] \in HeapBlocks /\ list[j].addr \in Int /\ list[j].size \in Nat \ {0}
  BY BlockIs
<1>2. /\ rest \in HeapBlocks /\ rest.addr = list[i].addr + s /\ rest.size = list[i].size - s
      /\ e \in HeapBlocks /\ e.addr = list[i].addr /\ e.size = s
  BY <1>1 DEF HeapBlocks
<1>3. r = [list EXCEPT ![i] = rest]
  BY DEF SplitOff
<1> HIDE DEF rest
<1>4. r \in Seq(HeapBlocks) /\ DOMAIN r = DOMAIN list /\ r[i] = rest /\ \A j \in DOMAIN list : j # i => r[j] = list[j]
  BY <1>2, <1>3
<1>5. ASSUME NEW x \in Int
      PROVE  /\ In(x, list[i]) <=> In(x, rest) \/ In(x, e)
             /\ ~ (In(x, rest) /\ In(x, e))
  BY <1>1, <1>2 DEF In
<1>6. Once(r)
  <2> SUFFICES ASSUME NEW x \in Int, NEW j \in DOMAIN list, NEW k \in DOMAIN list, In(x, r[j]), In(x, r[k])
               PROVE  j = k
    BY <1>4 DEF Once
  <2>1. In(x, list[j]) /\ In(x, list[k])
    BY <1>4, <1>5
  <2> QED
    BY <2>1 DEF Once
<1>7. ASSUME NEW x \in Int
      PROVE  /\ Covers(list, x) <=> Covers(r, x) \/ In(x, e)
             /\ ~ (Covers(r, x) /\ In(x, e))
  <2>1. Covers(list, x) => Covers(r, x) \/ In(x, e)
    BY <1>4, <1>5 DEF Covers
  <2>2. In(x, e) => Covers(list, x)
    BY <1>5 DEF Covers
  <2>3. Covers(r, x) => Covers(list, x)
    BY <1>4, <1>5 DEF Covers
  <2>4. ASSUME NEW j \in DOMAIN list, In(x, r[j]), In(x, e) PROVE FALSE
    <3>1. In(x, list[i]) /\ In(x, list[j])
      BY <1>4, <1>5, <2>4
    <3>2. j = i
      BY <3>1 DEF Once
    <3> QED
      BY <1>4, <1>5, <2>4, <3>2
  <2> QED
    BY <1>4, <2>1, <2>2, <2>3, <2>4 DEF Covers
<1>8. ASSUME Ascends(list, strict) PROVE Ascends(r, strict)
  <2> SUFFICES ASSUME NEW j \in DOMAIN list, NEW k \in DOMAIN list, j < k
               PROVE  /\ r[j].addr + r[j].size <= r[k].addr
                      /\ strict => r[j].addr + r[j].size # r[k].addr
    BY <1>4 DEF Ascends
  <2>1. list[j].addr + list[j].size <= list[k].addr /\ (strict => list[j].addr + list[j].size # list[k].addr)
    BY <1>8 DEF Ascends
  <2>2. r[j].addr + r[j].size = list[j].addr + list[j].size
    <3>1. rest.addr + rest.size = list[i].addr + list[i].size
      BY <1>1, <1>2
    <3> QED
      BY <1>4, <3>1
  <2>3. r[k].addr \in Int /\ (r[k].addr = list[k].addr \/ r[k].addr > list[k].addr)
    <3>1. CASE k = i
      <4>1. r[k].addr = list[i].addr + s
        BY <1>2, <1>4, <3>1
      <4> QED
        BY <1>1, <3>1, <4>1
    <3>2. CASE k # i
      <4>1. r[k] = list[k] /\ list[k].addr \in Int
        BY <1>1, <1>4, <3>2
      <4> QED
        BY <4>1
    <3> QED
      BY <3>1, <3>2
  <2>4. list[j].addr + list[j].size \in Int /\ list[k].addr \in Int
    BY <1>1
  <2> QED
    BY <2>1, <2>2, <2>3, <2>4
<1> QED
  BY <1>1, <1>2, <1>4, <1>6, <1>7, <1>8 DEF Parts

\* The list without its block i.
LEMMA RemovedIs ==
    ASSUME NEW list \in Seq(HeapBlocks), NEW i \in DOMAIN list, Once(list), NEW strict,
           NEW r, r = RemoveAt(list, i)
    PROVE  /\ list[i] \in HeapBlocks /\ list[i].addr \in Int
           /\ r \in Seq(HeapBlocks) /\ Once(r)
           /\ Parts(list, r, list[i])
           /\ Ascends(list, strict) => Ascends(r, strict)
<1> DEFINE n == Len(list)
           from == [j \in 1 .. n - 1 |-> IF j < i THEN j ELSE j + 1]
<1>1. n \in Nat /\ i \in 1 .. n /\ DOMAIN list = 1 .. n
  OBVIOUS
<1>2. r \in Seq(HeapBlocks) /\ Len(r) = n - 1 /\ \A j \in 1 .. n - 1 : r[j] = IF j < i THEN list[j] ELSE list[j + 1]
  <2> DEFINE a == SubSeq(list, 1, i - 1)
             b == SubSeq(list, i + 1, Len(list))
  <2>1. a \in Seq(HeapBlocks) /\ Len(a) = i - 1 /\ \A j \in 1 .. i - 1 : a[j] = list[j]
    BY <1>1
  <2>2. b \in Seq(HeapBlocks) /\ Len(b) = n - i /\ \A j \in 1 .. n - i : b[j] = list[j + i]
    BY <1>1
  <2>3. r = a \o b
    BY DEF RemoveAt
  <2> HIDE DEF a, b
  <2>4. r \in Seq(HeapBlocks) /\ Len(r) = n - 1
    <3>1. r \in Seq(HeapBlocks) /\ Len(r) = Len(a) + Len(b)
      BY <2>1, <2>2, <2>3, ConcatProperties
    <3> QED
      BY <1>1, <2>1, <2>2, <3>1
  <2>5. ASSUME NEW j \in 1 .. n - 1 PROVE r[j] = IF j < i THEN list[j] ELSE list[j + 1]
    <3>1. r[j] = IF j <= i - 1 THEN a[j] ELSE b[j - (i - 1)]
      BY <1>1, <2>1, <2>2, <2>3, ConcatProperties
    <3>2. CASE j < i
      BY <1>1, <2>1, <3>1, <3>2
    <3>3. CASE ~ (j < i)
      <4>1. j - (i - 1) \in 1 .. n - i /\ (j - (i - 1)) + i = j + 1 /\ ~ (j <= i - 1)
        BY <1>1, <3>3
      <4> QED
        BY <2>2, <3>1, <3>3, <4>1
    <3> QED
      BY <3>2, <3>3
  <2> QED
    BY <2>4, <2>5
<1> HIDE DEF n
<1>3. DOMAIN r = 1 .. n - 1
  BY <1>1, <1>2
<1>4. /\ \A j \in 1 .. n - 1 : from[j] \in 1 .. n /\ from[j] # i /\ r[j] = list[from[j]]
      /\ \A j, k \in 1 .. n - 1 : j < k => from[j] < from[k]
      /\ \A m \in 1 .. n : m # i => \E j \in 1 .. n - 1 : from[j] = m
  <2>1. ASSUME NEW j \in 1 .. n - 1 PROVE from[j] \in 1 .. n /\ from[j] # i /\ r[j] = list[from[j]]
    BY <1>1, <1>2
  <2>2. ASSUME NEW j \in 1 .. n - 1, NEW k \in 1 .. n - 1, j < k PROVE from[j] < from[k]
    BY <1>1, <2>2
  <2>3. ASSUME NEW m \in 1 .. n, m # i PROVE \E j \in 1 .. n - 1 : from[j] = m
    <3>1. CASE m < i
      <4>1. m \in 1 .. n - 1 /\ from[m] = m
        BY <1>1, <3>1
      <4> QED
        BY <4>1
    <3>2. CASE m > i
      <4>1. m - 1 \in 1 .. n - 1 /\ from[m - 1] = m
        BY <1>1, <3>2
      <4> QED
        BY <4>1
    <3> QED
      BY <1>1, <2>3, <3>1, <3>2
  <2> QED
    BY <2>1, <2>2, <2>3
<1> HIDE DEF from
<1>5. Once(r)
  <2> SUFFICES ASSUME NEW x \in Int, NEW j \in 1 .. n - 1, NEW k \in 1 .. n - 1, In(x, r[j]), In(x, r[k])
               PROVE  j = k
    BY <1>3 DEF Once
  <2>1. In(x, list[from[j]]) /\ In(x, list[from[k]]) /\ from[j] \in DOMAIN list /\ from[k] \in DOMAIN list
    BY <1>1, <1>4
  <2>2. from[j] = from[k]
    BY <2>1 DEF Once
  <2>3. ~ (j < k) /\ ~ (k < j)
    <3>1. from[j] \in Int
      BY <1>1, <1>4
    <3> QED
      BY <1>4, <2>2, <3>1
  <2> QED
    BY <1>1, <2>3
<1>6. ASSUME NEW x \in Int
      PROVE  /\ Covers(list, x) <=> Covers(r, x) \/ In(x, list[i])
             /\ ~ (Covers(r, x) /\ In(x, list[i]))
  <2>1. ASSUME NEW m \in 1 .. n, m # i, In(x, list[m]) PROVE Covers(r, x)
    <3>1. PICK j \in 1 .. n - 1 : from[j] = m
      BY <1>4, <2>1
    <3> QED
      BY <1>3, <1>4, <2>1, <3>1 DEF Covers
  <2>2. Covers(r, x) => Covers(list, x)
    BY <1>1, <1>3, <1>4 DEF Covers
  <2>3. In(x, list[i]) => Covers(list, x)
    BY DEF Covers
  <2>4. ASSUME NEW j \in 1 .. n - 1, In(x, r[j]), In(x, list[i]) PROVE FALSE
    BY <1>1, <1>4, <2>4 DEF Once
  <2> QED
    BY <1>1, <1>3, <2>1, <2>2, <2>3, <2>4 DEF Covers
<1>7. ASSUME Ascends(list, strict) PROVE Ascends(r, strict)
  <2> SUFFICES ASSUME NEW j \in 1 .. n - 1, NEW k \in 1 .. n - 1, j < k
               PROVE  /\ r[j].addr + r[j].size <= r[k].addr
                      /\ strict => r[j].addr + r[j].size # r[k].addr
    BY <1>3 DEF Ascends
  <2>1. from[j] \in DOMAIN list /\ from[k] \in DOMAIN list /\ from[j] < from[k]
    BY <1>1, <1>4
  <2>2. r[j] = list[from[j]] /\ r[k] = list[from[k]]
    BY <1>4
  <2> QED
    BY <1>7, <2>1, <2>2 DEF Ascends
<1> QED
  BY <1>2, <1>5, <1>6, <1>7, BlockIs DEF Parts

LEMMA MallocHolds ==
    ASSUME HeapInv, NEW n \in 1 .. MaxSize, malloc(n) PROVE HeapInv'
<1> DEFINE size == Taken(n)
<1>1. PICK i \in DOMAIN freelist :
        /\ freelist[i].size >= size
        /\ IF freelist[i].size > size THEN Split(i, size) ELSE freelist' = RemoveAt(freelist, i)
        /\ addToMap(freelist[i].addr, size)
        /\ UNCHANGED flags
  BY DEF malloc, IsFound, Fits
<1>2. size \in Nat \ {0}
  BY TakenIs DEF HeapInv
<1> HIDE DEF size
<1> DEFINE a == freelist[i].addr
           strict == flags.coalesce
<1>3. /\ freelist \in Seq(HeapBlocks) /\ Once(freelist) /\ Tiles(freelist, sizemap)
      /\ flags' = flags /\ flags \in Flags
      /\ flags.order = "ADDRSORT" => Ascends(freelist, strict)
  BY <1>1 DEF HeapInv, Tiles
<1>4. sizemap' = MapWith(sizemap, a, size)
  BY <1>1 DEF addToMap, MapWith
<1>5. freelist[i].size \in Nat
  BY <1>3, BlockIs
<1>6. CASE freelist[i].size > size
  <2> DEFINE e == [addr |-> a, size |-> size]
  <2>1. freelist' = SplitOff(freelist, i, size)
    BY <1>1, <1>6 DEF Split, SplitOff
  <2>2. /\ e \in HeapBlocks /\ e.addr = a /\ e.size = size /\ a \in Int
        /\ freelist' \in Seq(HeapBlocks) /\ Once(freelist')
        /\ Parts(freelist, freelist', e)
        /\ Ascends(freelist, strict) => Ascends(freelist', strict)
    BY <1>2, <1>3, <1>6, <2>1, SplitIs
  <2> HIDE DEF a, e, strict
  <2>3. Tiles(freelist', sizemap')
    BY <1>2, <1>3, <1>4, <2>2, GivenOut
  <2> QED
    BY <1>3, <2>2, <2>3 DEF HeapInv, strict
<1>7. CASE freelist[i].size = size
  <2>1. freelist' = RemoveAt(freelist, i)
    BY <1>1, <1>2, <1>7
  <2>2. /\ freelist[i] \in HeapBlocks /\ freelist[i].addr = a /\ a \in Int
        /\ freelist' \in Seq(HeapBlocks) /\ Once(freelist')
        /\ Parts(freelist, freelist', freelist[i])
        /\ Ascends(freelist, strict) => Ascends(freelist', strict)
    BY <1>2, <1>3, <2>1, RemovedIs
  <2> HIDE DEF a, strict
  <2>3. Tiles(freelist', sizemap')
    BY <1>2, <1>3, <1>4, <1>7, <2>2, GivenOut
  <2> QED
    BY <1>3, <2>2, <2>3 DEF HeapInv, strict
<1> QED
  BY <1>1, <1>2, <1>5, <1>6, <1>7

-----------------------------------------------------------------------------
(* free: a permutation covers the same, and sorted() is one.               *)

CoversSame(list, r) == \A x \in Int : Covers(r, x) <=> Covers(list, x)

Rearranges(p, n) ==
    /\ p \in [1 .. n -> 1 .. n]
    /\ \A i, j \in 1 .. n : p[i] = p[j] => i = j
    /\ \A j \in 1 .. n : \E i \in 1 .. n : p[i] = j

Permute(list, p, n) == [i \in 1 .. n |-> list[p[i]]]

LEMMA Permuted ==
    ASSUME NEW list \in Seq(HeapBlocks), NEW n \in Nat, Len(list) = n, Once(list),
           NEW p, Rearranges(p, n)
    PROVE  LET r == Permute(list, p, n)
           IN  r \in Seq(HeapBlocks) /\ Once(r) /\ CoversSame(list, r)
<1> DEFINE r == Permute(list, p, n)
<1>1. DOMAIN list = 1 .. n /\ \A i \in 1 .. n : list[i] \in HeapBlocks
  BY BlockIs
<1>2. /\ r \in [1 .. n -> HeapBlocks] /\ DOMAIN r = 1 .. n
      /\ \A i \in 1 .. n : p[i] \in 1 .. n /\ r[i] = list[p[i]]
  BY <1>1 DEF Permute, Rearranges
<1> HIDE DEF r
<1>3. r \in Seq(HeapBlocks)
  BY <1>2, IsASeq
<1>4. Once(r)
  <2> SUFFICES ASSUME NEW x \in Int, NEW i \in 1 .. n, NEW j \in 1 .. n, In(x, r[i]), In(x, r[j])
               PROVE  i = j
    BY <1>2 DEF Once
  <2>1. In(x, list[p[i]]) /\ In(x, list[p[j]])
    BY <1>2
  <2>2. p[i] = p[j]
    BY <1>1, <1>2, <2>1 DEF Once
  <2> QED
    BY <2>2 DEF Rearranges
<1>5. ASSUME NEW x \in Int PROVE Covers(r, x) <=> Covers(list, x)
  <2>1. Covers(r, x) => Covers(list, x)
    BY <1>1, <1>2 DEF Covers
  <2>2. ASSUME NEW j \in 1 .. n, In(x, list[j]) PROVE Covers(r, x)
    <3>1. PICK i \in 1 .. n : p[i] = j
      BY DEF Rearranges
    <3> QED
      BY <1>2, <2>2, <3>1 DEF Covers
  <2> QED
    BY <1>1, <2>1, <2>2 DEF Covers
<1> QED
  BY <1>3, <1>4, <1>5 DEF CoversSame, r

\* In a strict total order of 1 .. n the number of elements before each is its place.
LEMMA Ranks ==
    ASSUME NEW n \in Nat, NEW B \in [1 .. n -> SUBSET (1 .. n)],
           \A i \in 1 .. n : i \notin B[i],
           \A i, j \in 1 .. n : i # j => i \in B[j] \/ j \in B[i],
           \A i, j \in 1 .. n : i \in B[j] => B[i] \subseteq B[j]
    PROVE  /\ \A i, j \in 1 .. n : i \in B[j] => Cardinality(B[i]) < Cardinality(B[j])
           /\ \A i, j \in 1 .. n : Cardinality(B[i]) = Cardinality(B[j]) => i = j
           /\ \A k \in 1 .. n : \E i \in 1 .. n : Cardinality(B[i]) = k - 1
<1> DEFINE rank == [i \in 1 .. n |-> Cardinality(B[i]) + 1]
<1>1. IsFiniteSet(1 .. n) /\ Cardinality(1 .. n) = n
  BY FS_Interval
<1>2. ASSUME NEW i \in 1 .. n PROVE IsFiniteSet(B[i]) /\ Cardinality(B[i]) \in 0 .. n - 1
  <2>1. B[i] \subseteq 1 .. n /\ i \notin B[i]
    OBVIOUS
  <2>2. IsFiniteSet(B[i]) /\ Cardinality(B[i]) <= n /\ (Cardinality(B[i]) = n => B[i] = 1 .. n)
    BY <1>1, <2>1, FS_Subset
  <2>3. Cardinality(B[i]) \in Nat
    BY <2>2, FS_CardinalityType
  <2> QED
    BY <2>1, <2>2, <2>3
<1>3. ASSUME NEW i \in 1 .. n, NEW j \in 1 .. n, i \in B[j] PROVE Cardinality(B[i]) < Cardinality(B[j])
  <2>1. B[i] \subseteq B[j] /\ B[i] # B[j]
    BY <1>3
  <2>2. Cardinality(B[i]) <= Cardinality(B[j]) /\ Cardinality(B[i]) # Cardinality(B[j])
    BY <1>2, <2>1, FS_Subset
  <2> QED
    BY <1>2, <2>2
<1>4. ASSUME NEW i \in 1 .. n, NEW j \in 1 .. n, Cardinality(B[i]) = Cardinality(B[j]) PROVE i = j
  <2>1. ~ (i \in B[j]) /\ ~ (j \in B[i])
    BY <1>2, <1>3, <1>4
  <2> QED
    BY <2>1
<1>5. rank \in Injection(1 .. n, 1 .. n)
  <2>1. ASSUME NEW i \in 1 .. n PROVE rank[i] \in 1 .. n
    BY <1>2
  <2>2. ASSUME NEW i \in 1 .. n, NEW j \in 1 .. n, rank[i] = rank[j] PROVE i = j
    BY <1>2, <1>4, <2>2
  <2>3. rank \in [1 .. n -> 1 .. n]
    BY <2>1
  <2> HIDE DEF rank
  <2> QED
    BY <2>2, <2>3 DEF Injection, IsInjective
<1>6. rank \in Surjection(1 .. n, 1 .. n)
  BY <1>1, <1>5, FS_Injection
<1>7. ASSUME NEW k \in 1 .. n PROVE \E i \in 1 .. n : Cardinality(B[i]) = k - 1
  <2>1. PICK i \in 1 .. n : rank[i] = k
    BY <1>6 DEF Surjection
  <2> QED
    BY <1>2, <2>1
<1> QED
  BY <1>3, <1>4, <1>7

LEMMA SortedIs ==
    ASSUME NEW list \in Seq(HeapBlocks), Once(list), flags \in Flags,
           flags.order \in {"ADDRSORT", "SIZESORT+", "SIZESORT-"}
    PROVE  /\ Sorted(list) \in Seq(HeapBlocks) /\ Once(Sorted(list)) /\ CoversSame(list, Sorted(list))
           /\ flags.order = "ADDRSORT" => Ascends(Sorted(list), FALSE)
<1> DEFINE n == Len(list)
           before(i) == {j \in DOMAIN list : Key(list[j]) < Key(list[i])
                                             \/ (Key(list[j]) = Key(list[i]) /\ j < i)}
           B == [i \in 1 .. n |-> before(i)]
           place(k) == CHOOSE i \in DOMAIN list : Cardinality(before(i)) = k - 1
           p == [k \in 1 .. n |-> place(k)]
<1>1. n \in Nat /\ DOMAIN list = 1 .. n
  OBVIOUS
<1>2. ASSUME NEW i \in 1 .. n PROVE Key(list[i]) \in Int
  <2>1. list[i].addr \in Int /\ list[i].size \in Int /\ -list[i].size \in Int
    BY <1>1, BlockIs
  <2> QED
    BY <2>1 DEF Key
<1>3. Sorted(list) = [k \in 1 .. n |-> list[place(k)]]
  BY <1>1 DEF Sorted
<1> HIDE DEF n
<1>4. /\ B \in [1 .. n -> SUBSET (1 .. n)]
      /\ \A i \in 1 .. n : i \notin B[i]
      /\ \A i, j \in 1 .. n : i # j => i \in B[j] \/ j \in B[i]
      /\ \A i, j \in 1 .. n : i \in B[j] => B[i] \subseteq B[j]
  <2>1. B \in [1 .. n -> SUBSET (1 .. n)]
    BY <1>1
  <2>2. \A i, j \in 1 .. n : i \in B[j] <=> Key(list[i]) < Key(list[j])
                                            \/ (Key(list[i]) = Key(list[j]) /\ i < j)
    BY <1>1
  <2> HIDE DEF B
  <2>3. \A i \in 1 .. n : i \notin B[i]
    BY <1>1, <1>2, <2>2
  <2>4. \A i, j \in 1 .. n : i # j => i \in B[j] \/ j \in B[i]
    BY <1>1, <1>2, <2>2
  <2>5. ASSUME NEW i \in 1 .. n, NEW j \in 1 .. n, i \in B[j] PROVE B[i] \subseteq B[j]
    <3> SUFFICES ASSUME NEW k \in 1 .. n, k \in B[i] PROVE k \in B[j]
      BY <2>1
    <3> QED
      BY <1>1, <1>2, <2>2, <2>5
  <2> QED
    BY <2>1, <2>3, <2>4, <2>5
<1>5. /\ \A i, j \in 1 .. n : i \in B[j] => Cardinality(B[i]) < Cardinality(B[j])
      /\ \A i, j \in 1 .. n : Cardinality(B[i]) = Cardinality(B[j]) => i = j
      /\ \A k \in 1 .. n : \E i \in 1 .. n : Cardinality(B[i]) = k - 1
  <2> HIDE DEF B
  <2> QED
    BY <1>1, <1>4, Ranks
<1>6. ASSUME NEW k \in 1 .. n
      PROVE  place(k) \in 1 .. n /\ p[k] = place(k) /\ Cardinality(B[p[k]]) = k - 1
  <2>1. \E i \in DOMAIN list : Cardinality(before(i)) = k - 1
    BY <1>1, <1>5
  <2>2. place(k) \in DOMAIN list /\ Cardinality(before(place(k))) = k - 1
    BY <2>1
  <2> HIDE DEF place, before
  <2> QED
    BY <1>1, <2>2
<1>7. Sorted(list) = [k \in 1 .. n |-> list[p[k]]] /\ p \in [1 .. n -> 1 .. n]
  BY <1>3, <1>6
<1>8. \A i \in 1 .. n : \A j \in 1 .. n : i \in B[j] =>
         Key(list[i]) < Key(list[j]) \/ (Key(list[i]) = Key(list[j]) /\ i < j)
  BY <1>1
<1> HIDE DEF p, B, place, before
<1>9. \A i, j \in 1 .. n : p[i] = p[j] => i = j
  <2> SUFFICES ASSUME NEW i \in 1 .. n, NEW j \in 1 .. n, p[i] = p[j] PROVE i = j
    OBVIOUS
  <2>1. i - 1 = j - 1
    BY <1>6
  <2> QED
    BY <2>1
<1>10. ASSUME NEW j \in 1 .. n PROVE \E i \in 1 .. n : p[i] = j
  <2>1. B[j] \subseteq 1 .. n /\ j \notin B[j]
    BY <1>4
  <2>2. IsFiniteSet(1 .. n) /\ Cardinality(1 .. n) = n
    BY <1>1, FS_Interval
  <2>3. IsFiniteSet(B[j]) /\ Cardinality(B[j]) <= n /\ Cardinality(B[j]) # n /\ Cardinality(B[j]) \in Nat
    BY <2>1, <2>2, FS_Subset, FS_CardinalityType
  <2>4. PICK k \in 1 .. n : Cardinality(B[j]) = k - 1
    <3>1. Cardinality(B[j]) + 1 \in 1 .. n
      BY <1>1, <2>3
    <3>2. Cardinality(B[j]) = (Cardinality(B[j]) + 1) - 1
      BY <2>3
    <3> QED
      BY <3>1, <3>2
  <2>5. Cardinality(B[p[k]]) = Cardinality(B[j]) /\ p[k] \in 1 .. n
    BY <1>6, <1>7, <2>4
  <2> QED
    BY <1>5, <2>5
<1>11. Sorted(list) \in Seq(HeapBlocks) /\ Once(Sorted(list)) /\ CoversSame(list, Sorted(list))
  <2>1. \A j \in 1 .. n : \E i \in 1 .. n : p[i] = j
    BY <1>10
  <2>2. Len(list) = n
    BY DEF n
  <2> HIDE DEF n
  <2>3. Rearranges(p, n) /\ Sorted(list) = Permute(list, p, n)
    BY <1>7, <1>9, <2>1 DEF Rearranges, Permute
  <2> QED
    BY <1>1, <2>2, <2>3, Permuted
<1>12. ASSUME flags.order = "ADDRSORT" PROVE Ascends(Sorted(list), FALSE)
  <2> SUFFICES ASSUME NEW i \in 1 .. n, NEW j \in 1 .. n, i < j
               PROVE  list[p[i]].addr + list[p[i]].size <= list[p[j]].addr
    BY <1>7 DEF Ascends
  <2> DEFINE b == list[p[i]]
             c == list[p[j]]
  <2>1. p[i] \in 1 .. n /\ p[j] \in 1 .. n /\ p[i] # p[j]
    BY <1>7, <1>9
  <2>2. p[i] \in B[p[j]]
    <3>1. ~ (p[j] \in B[p[i]])
      <4>1. Cardinality(B[p[i]]) = i - 1 /\ Cardinality(B[p[j]]) = j - 1
        BY <1>6
      <4>2. p[j] \in B[p[i]] => Cardinality(B[p[j]]) < Cardinality(B[p[i]])
        BY <1>5, <2>1
      <4> HIDE DEF n
      <4>3. ~ (j - 1 < i - 1)
        BY <1>1
      <4> QED
        BY <4>1, <4>2, <4>3
    <3> QED
      BY <1>4, <2>1, <3>1
  <2>3. b.addr \in Int /\ b.size \in Nat \ {0} /\ c.addr \in Int /\ c.size \in Nat \ {0}
    BY <1>1, <2>1, BlockIs
  <2>4. b.addr <= c.addr
    <3>1. Key(b) = b.addr /\ Key(c) = c.addr
      BY <1>12 DEF Key
    <3>2. Key(b) < Key(c) \/ Key(b) = Key(c)
      BY <1>8, <2>1, <2>2
    <3> HIDE DEF b, c
    <3> QED
      BY <2>3, <3>1, <3>2
  <2>5. ~ (In(c.addr, b) /\ In(c.addr, c))
    BY <1>1, <2>1, <2>3 DEF Once
  <2> HIDE DEF b, c
  <2>6. b.addr + b.size <= c.addr
    BY <2>3, <2>4, <2>5 DEF In
  <2> QED
    BY <2>6 DEF b, c
<1> QED
  BY <1>11, <1>12

LEMMA InsertIs ==
    ASSUME flags \in Flags, NEW e \in HeapBlocks, freelist \in Seq(HeapBlocks), Once(freelist),
           \A x \in Int : ~ (Covers(freelist, x) /\ In(x, e))
    PROVE  /\ Insert(e) \in Seq(HeapBlocks) /\ Once(Insert(e)) /\ Len(Insert(e)) = Len(freelist) + 1
           /\ Parts(Insert(e), freelist, e)
           /\ flags.order = "ADDRSORT" => Ascends(Insert(e), FALSE)
<1> DEFINE n == Len(freelist)
           list == Append(freelist, e)
<1>1. n \in Nat /\ DOMAIN freelist = 1 .. n
  OBVIOUS
<1>2. /\ list \in Seq(HeapBlocks) /\ Len(list) = n + 1 /\ DOMAIN list = 1 .. n + 1
      /\ list[n + 1] = e /\ \A i \in 1 .. n : list[i] = freelist[i]
  OBVIOUS
<1> HIDE DEF list, n
<1>3. Once(list)
  <2> SUFFICES ASSUME NEW x \in Int, NEW i \in 1 .. n + 1, NEW j \in 1 .. n + 1,
                      In(x, list[i]), In(x, list[j])
               PROVE  i = j
    BY <1>2 DEF Once
  <2>1. ASSUME NEW k \in 1 .. n, In(x, list[k]) PROVE ~ In(x, e)
    BY <1>1, <1>2, <2>1 DEF Covers
  <2>2. CASE i \in 1 .. n /\ j \in 1 .. n
    BY <1>1, <1>2, <2>2 DEF Once
  <2>3. CASE i = n + 1 /\ j \in 1 .. n
    BY <1>2, <2>1, <2>3
  <2>4. CASE i \in 1 .. n /\ j = n + 1
    BY <1>2, <2>1, <2>4
  <2> QED
    BY <1>1, <2>2, <2>3, <2>4
<1>4. Parts(list, freelist, e)
  <2> SUFFICES ASSUME NEW x \in Int PROVE Covers(list, x) <=> Covers(freelist, x) \/ In(x, e)
    BY DEF Parts
  <2>1. \A i \in 1 .. n + 1 : i \in 1 .. n \/ i = n + 1
    BY <1>1
  <2>2. \A i \in 1 .. n : i \in 1 .. n + 1
    BY <1>1
  <2>3. n + 1 \in 1 .. n + 1
    BY <1>1
  <2> QED
    BY <1>1, <1>2, <2>1, <2>2, <2>3 DEF Covers
<1>5. ASSUME NEW r, CoversSame(list, r) PROVE Parts(r, freelist, e)
  BY <1>4, <1>5 DEF CoversSame, Parts
<1>6. CASE flags.order = "INSERT-BACK"
  <2>1. Insert(e) = list
    BY <1>6 DEF Insert, list
  <2> QED
    BY <1>2, <1>3, <1>4, <1>6, <2>1 DEF n
<1>7. CASE flags.order = "INSERT-FRONT"
  <2> DEFINE p == [k \in 1 .. n + 1 |-> IF k = 1 THEN n + 1 ELSE k - 1]
             r == <<e>> \o freelist
  <2>1. Insert(e) = r
    BY <1>7 DEF Insert
  <2>2. r = [k \in 1 .. n + 1 |-> list[p[k]]]
    <3>1. <<e>> \in Seq(HeapBlocks) /\ Len(<<e>>) = 1 /\ <<e>>[1] = e
      OBVIOUS
    <3>2. r \in Seq(HeapBlocks) /\ Len(r) = 1 + n
      BY <3>1, ConcatProperties DEF n
    <3>3. \A k \in 1 .. 1 + n : r[k] = IF k <= 1 THEN <<e>>[k] ELSE freelist[k - 1]
      BY <3>1, ConcatProperties DEF n
    <3>4. ASSUME NEW k \in 1 .. n + 1 PROVE r[k] = list[p[k]]
      <4>1. CASE k = 1
        BY <1>1, <1>2, <3>1, <3>3, <4>1
      <4>2. CASE k # 1
        <5>1. k - 1 \in 1 .. n /\ ~ (k <= 1) /\ p[k] = k - 1 /\ k \in 1 .. 1 + n
          BY <1>1, <4>2
        <5> QED
          BY <1>2, <3>3, <5>1
      <4> QED
        BY <4>1, <4>2
    <3>5. DOMAIN r = 1 .. n + 1 /\ r = [k \in DOMAIN r |-> r[k]]
      BY <1>1, <3>2
    <3> HIDE DEF r, p
    <3> QED
      BY <3>4, <3>5
  <2>3. /\ p \in [1 .. n + 1 -> 1 .. n + 1]
        /\ \A i, j \in 1 .. n + 1 : p[i] = p[j] => i = j
    BY <1>1
  <2>4. ASSUME NEW j \in 1 .. n + 1 PROVE \E i \in 1 .. n + 1 : p[i] = j
    <3>1. CASE j = n + 1
      <4>1. 1 \in 1 .. n + 1 /\ p[1] = j
        BY <1>1, <3>1
      <4> QED
        BY <4>1
    <3>2. CASE j # n + 1
      <4>1. j + 1 \in 1 .. n + 1 /\ p[j + 1] = j
        BY <1>1, <3>2
      <4> QED
        BY <4>1
    <3> QED
      BY <3>1, <3>2
  <2> DEFINE m == n + 1
  <2>5. m \in Nat /\ m = n + 1
    BY <1>1
  <2> HIDE DEF p, r, m
  <2>6. r \in Seq(HeapBlocks) /\ Once(r) /\ CoversSame(list, r)
    <3>1. Rearranges(p, m) /\ r = Permute(list, p, m)
      BY <2>2, <2>3, <2>4, <2>5 DEF Rearranges, Permute
    <3> QED
      BY <1>2, <1>3, <2>5, <3>1, Permuted
  <2>7. Len(r) = n + 1
    BY <1>1, <2>2, <2>6
  <2> QED
    BY <1>5, <1>7, <2>1, <2>6, <2>7 DEF n
<1>8. CASE flags.order \in {"ADDRSORT", "SIZESORT+", "SIZESORT-"}
  <2>1. Insert(e) = Sorted(list)
    BY <1>8 DEF Insert, list
  <2>2. /\ Sorted(list) \in Seq(HeapBlocks) /\ Once(Sorted(list)) /\ CoversSame(list, Sorted(list))
        /\ flags.order = "ADDRSORT" => Ascends(Sorted(list), FALSE)
    BY <1>2, <1>3, <1>8, SortedIs
  <2>3. Len(Sorted(list)) = n + 1
    <3>1. DOMAIN Sorted(list) = DOMAIN list
      BY DEF Sorted
    <3> QED
      BY <1>1, <1>2, <2>2, <3>1
  <2> QED
    BY <1>5, <2>1, <2>2, <2>3 DEF n
<1>9. flags.order \in {"ADDRSORT", "SIZESORT+", "SIZESORT-", "INSERT-FRONT", "INSERT-BACK"}
  BY DEF Flags
<1> QED
  BY <1>6, <1>7, <1>8, <1>9

-----------------------------------------------------------------------------
(* Coalescing.                                                             *)

Joined(m, e) ==
    IF m # <<>> /\ Last(m).addr + Last(m).size = e.addr
    THEN [m EXCEPT ![Len(m)].size = @ + e.size]
    ELSE Append(m, e)

AllBelow(m, a) == \A i \in DOMAIN m : m[i].addr + m[i].size <= a

LEMMA Grown ==
    ASSUME NEW c \in HeapBlocks, NEW k
    PROVE  [c EXCEPT !.size = @ + k] = [addr |-> c.addr, size |-> c.size + k]
BY DEF HeapBlocks

LEMMA JoinedIs ==
    ASSUME NEW m \in Seq(HeapBlocks), Once(m), NEW e \in HeapBlocks,
           \A x \in Int : ~ (Covers(m, x) /\ In(x, e)),
           NEW r, r = Joined(m, e)
    PROVE  /\ r \in Seq(HeapBlocks) /\ Once(r) /\ Parts(r, m, e)
           /\ AllBelow(m, e.addr) /\ Ascends(m, TRUE) => Ascends(r, TRUE) /\ AllBelow(r, e.addr + e.size)
<1> DEFINE n == Len(m)
<1>1. /\ n \in Nat /\ DOMAIN m = 1 .. n /\ e.addr \in Int /\ e.size \in Nat \ {0}
      /\ \A i \in 1 .. n : m[i] \in HeapBlocks /\ m[i].addr \in Int /\ m[i].size \in Nat \ {0}
  BY BlockIs DEF HeapBlocks
<1>2. CASE m # <<>> /\ Last(m).addr + Last(m).size = e.addr
  <2> DEFINE b == [addr |-> m[n].addr, size |-> m[n].size + e.size]
  <2>1. n \in 1 .. n /\ m[n].addr + m[n].size = e.addr
    BY <1>1, <1>2 DEF Last
  <2>2. b \in HeapBlocks /\ b.addr = m[n].addr /\ b.size = m[n].size + e.size
    BY <1>1, <2>1 DEF HeapBlocks
  <2>3. r = [m EXCEPT ![n] = b]
    <3>1. r = [m EXCEPT ![n].size = @ + e.size]
      BY <1>2 DEF Joined
    <3>2. m[n] \in HeapBlocks
      BY <1>1, <2>1
    <3>3. [m[n] EXCEPT !.size = @ + e.size] = b
      <4> HIDE DEF n
      <4> QED
        BY <3>2, Grown
    <3> HIDE DEF n, b
    <3> QED
      BY <3>1, <3>3
  <2> HIDE DEF n, b
  <2>4. r \in Seq(HeapBlocks) /\ DOMAIN r = 1 .. n /\ r[n] = b /\ \A i \in 1 .. n : i # n => r[i] = m[i]
    BY <1>1, <2>1, <2>2, <2>3
  <2>5. ASSUME NEW x \in Int
        PROVE  (In(x, b) <=> In(x, m[n]) \/ In(x, e)) /\ ~ (In(x, m[n]) /\ In(x, e))
    <3>1. m[n].addr \in Int /\ m[n].size \in Nat \ {0}
      BY <1>1, <2>1
    <3> QED
      BY <1>1, <2>1, <2>2, <3>1 DEF In
  <2>6. ASSUME NEW x \in Int PROVE \A i \in 1 .. n : In(x, r[i]) <=> In(x, m[i]) \/ (i = n /\ In(x, e))
    BY <2>4, <2>5
  <2>7. Once(r)
    <3> SUFFICES ASSUME NEW x \in Int, NEW i \in 1 .. n, NEW j \in 1 .. n, In(x, r[i]), In(x, r[j])
                 PROVE  i = j
      BY <2>4 DEF Once
    <3>1. In(x, m[i]) /\ In(x, m[j]) => i = j
      BY <1>1 DEF Once
    <3>2. \A k \in 1 .. n : In(x, m[k]) => ~ In(x, e)
      BY <1>1 DEF Covers
    <3> QED
      BY <2>6, <3>1, <3>2
  <2>8. Parts(r, m, e)
    <3> SUFFICES ASSUME NEW x \in Int PROVE Covers(r, x) <=> Covers(m, x) \/ In(x, e)
      BY DEF Parts
    <3> QED
      BY <1>1, <2>1, <2>4, <2>6 DEF Covers
  <2>9. ASSUME AllBelow(m, e.addr), Ascends(m, TRUE) PROVE Ascends(r, TRUE)
    <3> SUFFICES ASSUME NEW i \in 1 .. n, NEW j \in 1 .. n, i < j
                 PROVE  r[i].addr + r[i].size <= r[j].addr /\ r[i].addr + r[i].size # r[j].addr
      BY <2>4 DEF Ascends
    <3>1. i # n
      BY <1>1
    <3>2. r[i] = m[i] /\ r[j].addr = m[j].addr
      BY <2>2, <2>4, <3>1
    <3> QED
      BY <1>1, <2>9, <3>2 DEF Ascends
  <2>10. ASSUME AllBelow(m, e.addr), NEW i \in 1 .. n PROVE r[i].addr + r[i].size <= e.addr + e.size
    <3>1. m[i].addr + m[i].size <= e.addr
      BY <1>1, <2>10 DEF AllBelow
    <3>2. CASE i = n
      <4>1. r[i].addr + r[i].size = m[n].addr + (m[n].size + e.size) /\ m[n].addr \in Int /\ m[n].size \in Int
        BY <1>1, <2>1, <2>2, <2>4, <3>2
      <4> QED
        BY <1>1, <2>1, <4>1
    <3>3. CASE i # n
      <4>1. r[i] = m[i] /\ m[i].addr \in Int /\ m[i].size \in Int
        BY <1>1, <2>4, <3>3
      <4> QED
        BY <1>1, <3>1, <4>1
    <3> QED
      BY <3>2, <3>3
  <2> QED
    BY <2>4, <2>7, <2>8, <2>9, <2>10 DEF AllBelow
<1>3. CASE ~ (m # <<>> /\ Last(m).addr + Last(m).size = e.addr)
  <2>1. r = Append(m, e)
    BY <1>3 DEF Joined
  <2>2. /\ r \in Seq(HeapBlocks) /\ DOMAIN r = 1 .. n + 1
        /\ r[n + 1] = e /\ \A i \in 1 .. n : r[i] = m[i]
    BY <2>1
  <2>3. n # 0 => n \in 1 .. n /\ m[n].addr + m[n].size # e.addr
    BY <1>1, <1>3 DEF Last
  <2> HIDE DEF n
  <2>4. /\ \A i \in 1 .. n + 1 : i \in 1 .. n \/ i = n + 1
        /\ \A i \in 1 .. n : i \in 1 .. n + 1
        /\ n + 1 \in 1 .. n + 1
    BY <1>1
  <2>5. Once(r)
    <3> SUFFICES ASSUME NEW x \in Int, NEW i \in 1 .. n + 1, NEW j \in 1 .. n + 1, In(x, r[i]), In(x, r[j])
                 PROVE  i = j
      BY <2>2 DEF Once
    <3>1. ASSUME NEW k \in 1 .. n, In(x, r[k]) PROVE ~ In(x, e)
      BY <1>1, <2>2, <3>1 DEF Covers
    <3>2. CASE i \in 1 .. n /\ j \in 1 .. n
      BY <1>1, <2>2, <3>2 DEF Once
    <3> QED
      BY <2>2, <2>4, <3>1, <3>2
  <2>6. Parts(r, m, e)
    <3> SUFFICES ASSUME NEW x \in Int PROVE Covers(r, x) <=> Covers(m, x) \/ In(x, e)
      BY DEF Parts
    <3> QED
      BY <1>1, <2>2, <2>4 DEF Covers
  <2>7. ASSUME AllBelow(m, e.addr), Ascends(m, TRUE) PROVE Ascends(r, TRUE)
    <3> SUFFICES ASSUME NEW i \in 1 .. n + 1, NEW j \in 1 .. n + 1, i < j
                 PROVE  r[i].addr + r[i].size <= r[j].addr /\ r[i].addr + r[i].size # r[j].addr
      BY <2>2 DEF Ascends
    <3>1. i \in 1 .. n
      BY <1>1
    <3>2. CASE j \in 1 .. n
      BY <1>1, <2>2, <2>7, <3>1, <3>2 DEF Ascends
    <3>3. CASE j = n + 1
      <4>1. m[i].addr + m[i].size <= e.addr
        BY <1>1, <2>7, <3>1 DEF AllBelow
      <4>2. m[i].addr + m[i].size # e.addr
        <5>1. CASE i = n
          BY <2>3, <3>1, <5>1, <1>1
        <5>2. CASE i # n
          <6>1. n \in 1 .. n /\ i < n
            BY <1>1, <3>1, <5>2
          <6>2. m[i].addr + m[i].size <= m[n].addr
            BY <1>1, <2>7, <3>1, <6>1 DEF Ascends
          <6>3. m[n].addr + m[n].size <= e.addr
            BY <1>1, <2>7, <6>1 DEF AllBelow
          <6>4. m[n].addr \in Int /\ m[n].size \in Nat \ {0} /\ m[i].addr \in Int /\ m[i].size \in Nat
            BY <1>1, <3>1, <6>1
          <6> QED
            BY <1>1, <6>2, <6>3, <6>4
        <5> QED
          BY <5>1, <5>2
      <4> QED
        BY <2>2, <3>1, <3>3, <4>1, <4>2
    <3> QED
      BY <2>4, <3>2, <3>3
  <2>8. ASSUME AllBelow(m, e.addr), NEW i \in 1 .. n + 1 PROVE r[i].addr + r[i].size <= e.addr + e.size
    <3>1. CASE i \in 1 .. n
      <4>1. m[i].addr + m[i].size <= e.addr
        BY <1>1, <2>8, <3>1 DEF AllBelow
      <4>2. r[i] = m[i]
        BY <2>2, <3>1
      <4>3. m[i].addr \in Int /\ m[i].size \in Int
        BY <1>1, <3>1
      <4> QED
        BY <1>1, <4>1, <4>2, <4>3
    <3>2. CASE i = n + 1
      BY <1>1, <2>2, <3>2
    <3> QED
      BY <2>4, <3>1, <3>2
  <2> QED
    BY <2>2, <2>5, <2>6, <2>7, <2>8 DEF AllBelow
<1> QED
  BY <1>2, <1>3

\* What coalescing makes of the first n blocks of the list, for each n up to k.
IsMerged(f, list, k) ==
    f = [n \in 0 .. k |-> IF n = 0 THEN <<>> ELSE Joined(f[n - 1], list[n])]

LEMMA MergedExists ==
    ASSUME NEW list, NEW k \in Nat PROVE \E f : IsMerged(f, list, k)
<1> DEFINE S == {n \in Nat : ~ \E f : IsMerged(f, list, n)}
<1>1. SUFFICES ASSUME S # {} PROVE FALSE
  OBVIOUS
<1>2. PICK n \in S : \A m \in S : n <= m
  BY <1>1, LeastExists
<1>3. n # 0
  <2> DEFINE f == [i \in 0 .. 0 |-> <<>>]
  <2>1. IsMerged(f, list, 0)
    BY DEF IsMerged
  <2> QED
    BY <2>1
<1>4. n \in Nat /\ n - 1 \in Nat /\ n - 1 \notin S
  BY <1>2, <1>3
<1>5. PICK f : IsMerged(f, list, n - 1)
  BY <1>4
<1> DEFINE g == [i \in 0 .. n |-> IF i = n THEN Joined(f[n - 1], list[n]) ELSE f[i]]
<1>6. ASSUME NEW i \in 0 .. n PROVE g[i] = IF i = 0 THEN <<>> ELSE Joined(g[i - 1], list[i])
  <2>1. CASE i = n
    BY <1>3, <1>4, <2>1
  <2>2. CASE i # n
    <3>1. i \in 0 .. n - 1 /\ g[i] = f[i] /\ (i # 0 => i - 1 \in 0 .. n /\ i - 1 # n /\ g[i - 1] = f[i - 1])
      BY <1>4, <2>2
    <3>2. f[i] = IF i = 0 THEN <<>> ELSE Joined(f[i - 1], list[i])
      BY <1>5, <3>1 DEF IsMerged
    <3> QED
      BY <3>1, <3>2
  <2> QED
    BY <2>1, <2>2
<1>7. DOMAIN g = 0 .. n /\ g = [i \in 0 .. n |-> g[i]]
  OBVIOUS
<1> HIDE DEF g
<1>8. IsMerged(g, list, n)
  BY <1>6, <1>7 DEF IsMerged
<1> QED
  BY <1>2, <1>8

\* The first k blocks of the list, merged.
MergedFrom(m, list, k) ==
    /\ m \in Seq(HeapBlocks) /\ Once(m)
    /\ \A x \in Int : Covers(m, x) <=> \E i \in 1 .. k : In(x, list[i])
    /\ Ascends(list, FALSE) =>
         Ascends(m, TRUE) /\ (k < Len(list) => AllBelow(m, list[k + 1].addr))

LEMMA MergeOne ==
    ASSUME NEW list \in Seq(HeapBlocks), Once(list), NEW k \in 1 .. Len(list), NEW m, MergedFrom(m, list, k - 1)
    PROVE  MergedFrom(Joined(m, list[k]), list, k)
<1> DEFINE r == Joined(m, list[k])
           e == list[k]
<1>1. Len(list) \in Nat /\ DOMAIN list = 1 .. Len(list) /\ k \in Nat /\ k - 1 \in Nat /\ (k - 1) + 1 = k /\ k - 1 < Len(list)
      /\ k <= Len(list) /\ k - 1 < k
  OBVIOUS
<1>2. e \in HeapBlocks /\ e.addr \in Int /\ e.size \in Nat
  BY <1>1, BlockIs
<1>3. ASSUME NEW x \in Int PROVE ~ (Covers(m, x) /\ In(x, e))
  <2> SUFFICES ASSUME NEW i \in 1 .. k - 1, In(x, list[i]), In(x, list[k]) PROVE FALSE
    BY DEF MergedFrom
  <2>1. i \in DOMAIN list /\ k \in DOMAIN list /\ i # k
    BY <1>1
  <2> QED
    BY <2>1 DEF Once
<1>4. /\ m \in Seq(HeapBlocks) /\ Once(m)
      /\ \A x \in Int : Covers(m, x) <=> \E i \in 1 .. k - 1 : In(x, list[i])
      /\ Ascends(list, FALSE) => Ascends(m, TRUE) /\ AllBelow(m, e.addr)
  BY <1>1 DEF MergedFrom
<1> HIDE DEF e
<1>5. /\ r \in Seq(HeapBlocks) /\ Once(r) /\ Parts(r, m, e)
      /\ AllBelow(m, e.addr) /\ Ascends(m, TRUE) => Ascends(r, TRUE) /\ AllBelow(r, e.addr + e.size)
  BY <1>2, <1>3, <1>4, JoinedIs DEF e
<1> HIDE DEF r
<1>6. ASSUME NEW x \in Int PROVE Covers(r, x) <=> \E i \in 1 .. k : In(x, list[i])
  <2>1. \A i \in 1 .. k : i = k \/ i \in 1 .. k - 1
    BY <1>1
  <2>2. k \in 1 .. k /\ \A i \in 1 .. k - 1 : i \in 1 .. k
    BY <1>1
  <2>3. Covers(r, x) <=> Covers(m, x) \/ In(x, list[k])
    BY <1>5 DEF Parts, e
  <2> QED
    BY <1>4, <2>1, <2>2, <2>3
<1>7. ASSUME Ascends(list, FALSE), k < Len(list) PROVE AllBelow(r, list[k + 1].addr)
  <2>1. AllBelow(r, e.addr + e.size)
    BY <1>4, <1>5, <1>7
  <2>2. k \in DOMAIN list /\ k + 1 \in DOMAIN list /\ k < k + 1
    BY <1>1, <1>7
  <2>3. e.addr + e.size <= list[k + 1].addr /\ list[k + 1].addr \in Int
    BY <1>7, <2>2, BlockIs DEF Ascends, e
  <2> DEFINE a == list[k + 1].addr
             b == e.addr + e.size
  <2>4. a \in Int /\ b \in Int /\ b <= a
    BY <1>2, <2>3
  <2> HIDE DEF a, b
  <2>5. ASSUME NEW i \in DOMAIN r PROVE r[i].addr + r[i].size <= a
    <3>1. r[i].addr + r[i].size <= b
      BY <2>1 DEF AllBelow, b
    <3>2. r[i].addr \in Int /\ r[i].size \in Int
      BY <1>5, BlockIs
    <3> QED
      BY <2>4, <3>1, <3>2
  <2> QED
    BY <2>5 DEF AllBelow, a
<1>8. Ascends(list, FALSE) => Ascends(r, TRUE)
  BY <1>4, <1>5
<1> QED
  BY <1>5, <1>6, <1>7, <1>8 DEF MergedFrom, r, e

LEMMA CoalescedIs ==
    ASSUME NEW list \in Seq(HeapBlocks), Once(list)
    PROVE  /\ Coalesced(list) \in Seq(HeapBlocks) /\ Once(Coalesced(list)) /\ CoversSame(list, Coalesced(list))
           /\ Ascends(list, FALSE) => Ascends(Coalesced(list), TRUE)
<1> DEFINE N == Len(list)
           f == CHOOSE f : IsMerged(f, list, N)
<1>1. N \in Nat /\ DOMAIN list = 1 .. N
  OBVIOUS
<1>2. Coalesced(list) = f[N]
  BY DEF Coalesced, IsMerged, Joined
<1>3. IsMerged(f, list, N)
  BY <1>1, MergedExists
<1> HIDE DEF f, N
<1>4. /\ f[0] = <<>>
      /\ \A n \in 1 .. N : f[n] = Joined(f[n - 1], list[n])
  <2>1. 0 \in 0 .. N /\ \A n \in 1 .. N : n \in 0 .. N /\ n # 0
    BY <1>1
  <2> QED
    BY <1>3, <2>1 DEF IsMerged
<1>5. MergedFrom(f[0], list, 0)
  <2>1. <<>> \in Seq(HeapBlocks) /\ DOMAIN <<>> = {} /\ 1 .. 0 = {}
    OBVIOUS
  <2> QED
    BY <1>4, <2>1 DEF MergedFrom, Once, Covers, Ascends, AllBelow
<1>6. ASSUME NEW n \in 1 .. N, MergedFrom(f[n - 1], list, n - 1) PROVE MergedFrom(f[n], list, n)
  BY <1>4, <1>6, MergeOne DEF N
<1>7. MergedFrom(f[N], list, N)
  <2> DEFINE S == {n \in 0 .. N : ~ MergedFrom(f[n], list, n)}
  <2>1. SUFFICES ASSUME S # {} PROVE FALSE
    BY <1>1
  <2>2. S \in SUBSET Nat
    BY <1>1
  <2>3. PICK n \in S : \A m \in S : n <= m
    BY <2>1, <2>2, LeastExists
  <2>4. n # 0
    BY <1>5, <2>3
  <2>5. n \in 1 .. N /\ n - 1 \in 0 .. N /\ n - 1 < n
    BY <1>1, <2>3, <2>4
  <2>6. MergedFrom(f[n - 1], list, n - 1)
    BY <2>2, <2>3, <2>5
  <2> QED
    BY <1>6, <2>3, <2>5, <2>6
<1>8. CoversSame(list, f[N])
  BY <1>1, <1>7 DEF MergedFrom, CoversSame, Covers
<1> QED
  BY <1>2, <1>7, <1>8 DEF MergedFrom

LEMMA FreeHolds ==
    ASSUME HeapInv, NEW a \in DOMAIN sizemap, free(a) PROVE HeapInv'
<1> DEFINE e == Held(sizemap, a)
           list == Insert(e)
           new == IF flags.coalesce THEN Coalesced(list) ELSE list
<1>1. /\ flags' = flags /\ flags \in Flags /\ flags.coalesce \in BOOLEAN
      /\ Tiles(freelist, sizemap)
      /\ freelist \in Seq(HeapBlocks) /\ Once(freelist) /\ e \in HeapBlocks
      /\ \A x \in Int : ~ (Covers(freelist, x) /\ In(x, e))
  <2>1. e \in HeapBlocks
    BY HeldIs DEF HeapInv, Tiles
  <2>2. \A x \in Int : ~ (Covers(freelist, x) /\ In(x, e))
    BY DEF HeapInv, Tiles, Holds
  <2> HIDE DEF e
  <2> QED
    BY <2>1, <2>2 DEF HeapInv, Tiles, free, Flags
<1>2. freelist' = new /\ sizemap' = [b \in DOMAIN sizemap \ {a} |-> sizemap[b]]
  BY DEF free, Held
<1>3. /\ list \in Seq(HeapBlocks) /\ Once(list) /\ Parts(list, freelist, e)
      /\ flags.order = "ADDRSORT" => Ascends(list, FALSE)
  <2> HIDE DEF e
  <2> QED
    BY <1>1, InsertIs
<1> HIDE DEF list, e
<1>4. /\ new \in Seq(HeapBlocks) /\ Once(new) /\ CoversSame(list, new)
      /\ flags.order = "ADDRSORT" => Ascends(new, flags.coalesce)
  <2>1. CASE flags.coalesce
    <3>1. new = Coalesced(list) /\ flags.coalesce = TRUE
      BY <1>1, <2>1
    <3> QED
      BY <1>3, <3>1, CoalescedIs
  <2>2. CASE ~ flags.coalesce
    <3>1. new = list /\ flags.coalesce = FALSE
      BY <1>1, <2>2
    <3> QED
      BY <1>3, <3>1 DEF CoversSame
  <2> QED
    BY <2>1, <2>2
<1> HIDE DEF new
<1>5. \A x \in Int : Covers(new, x) <=> Covers(freelist, x) \/ In(x, Held(sizemap, a))
  BY <1>3, <1>4 DEF CoversSame, Parts, e
<1>6. Tiles(freelist', sizemap')
  BY <1>1, <1>2, <1>4, <1>5, GivenBack
<1> QED
  BY <1>1, <1>2, <1>4, <1>6 DEF HeapInv

LEMMA HeapStepHolds == ASSUME HeapInv, HeapStep PROVE HeapInv'
BY MallocHolds, FreeHolds DEF HeapStep

LEMMA HeapInvImplies == ASSUME HeapInv PROVE Tiling /\ AddressOrder
<1>1. Tiles(freelist, sizemap) /\ DOMAIN freelist = 1 .. Len(freelist) /\ Len(freelist) \in Nat
  BY DEF HeapInv, Tiles
<1>2. Tiling
  <2> DEFINE in(x, addr, size) == x \in addr .. addr + size - 1
             free_at(x)  == {i \in DOMAIN freelist : in(x, freelist[i].addr, freelist[i].size)}
             taken_at(x) == {a \in DOMAIN sizemap : in(x, a, sizemap[a])}
  <2>1. SUFFICES ASSUME NEW x \in Start - 1 .. Start + HeapSize
                 PROVE  Cardinality(free_at(x)) + Cardinality(taken_at(x))
                          = IF in(x, Start, HeapSize) THEN 1 ELSE 0
    BY DEF Tiling
  <2>2. x \in Int
    BY HeapAssumption
  <2>3. \A i \in DOMAIN freelist : i \in free_at(x) <=> In(x, freelist[i])
    <3> SUFFICES ASSUME NEW i \in DOMAIN freelist
                 PROVE  x \in freelist[i].addr .. freelist[i].addr + freelist[i].size - 1 <=> In(x, freelist[i])
      OBVIOUS
    <3>1. freelist[i].addr \in Int /\ freelist[i].size \in Int
      BY <1>1, BlockIs DEF Tiles
    <3> QED
      BY <2>2, <3>1 DEF In
  <2>4. \A a \in DOMAIN sizemap : a \in taken_at(x) <=> In(x, Held(sizemap, a))
    <3> SUFFICES ASSUME NEW a \in DOMAIN sizemap
                 PROVE  x \in a .. a + sizemap[a] - 1 <=> In(x, Held(sizemap, a))
      OBVIOUS
    <3>1. a \in Int /\ sizemap[a] \in Int /\ Held(sizemap, a).addr = a /\ Held(sizemap, a).size = sizemap[a]
      BY <1>1, HeldIs DEF Tiles
    <3> QED
      BY <2>2, <3>1 DEF In
  <2> DEFINE F == free_at(x)
             T == taken_at(x)
  <2>5. F \subseteq DOMAIN freelist /\ T \subseteq DOMAIN sizemap
    OBVIOUS
  <2>6. (in(x, Start, HeapSize) <=> F # {} \/ T # {}) /\ (F = {} \/ T = {})
    <3>1. Covers(freelist, x) <=> F # {}
      BY <2>3 DEF Covers
    <3>2. Holds(sizemap, x) <=> T # {}
      BY <2>4 DEF Holds
    <3> QED
      BY <1>1, <2>2, <3>1, <3>2 DEF Tiles
  <2>7. (\A i, j \in F : i = j) /\ (\A a, b \in T : a = b)
    BY <1>1, <2>2, <2>3, <2>4 DEF Tiles, Once
  <2> HIDE DEF F, T
  <2>8. (F = {} \/ \E i : F = {i}) /\ (T = {} \/ \E a : T = {a})
    <3>1. ASSUME NEW i \in F PROVE F = {i}
      BY <2>7, <3>1
    <3>2. ASSUME NEW a \in T PROVE T = {a}
      BY <2>7, <3>2
    <3> QED
      BY <3>1, <3>2
  <2>9. /\ Cardinality(F) = IF F = {} THEN 0 ELSE 1
        /\ Cardinality(T) = IF T = {} THEN 0 ELSE 1
    BY <2>8, FS_EmptySet, FS_Singleton
  <2>10. Cardinality(F) + Cardinality(T) = IF in(x, Start, HeapSize) THEN 1 ELSE 0
    <3> HIDE DEF in
    <3> QED
      BY <2>6, <2>9
  <2> QED
    BY <2>10 DEF F, T
<1>3. AddressOrder
  <2> SUFFICES ASSUME flags.order = "ADDRSORT", NEW i \in 1 .. Len(freelist) - 1
               PROVE  /\ freelist[i].addr + freelist[i].size <= freelist[i + 1].addr
                      /\ flags.coalesce => freelist[i].addr + freelist[i].size # freelist[i + 1].addr
    BY DEF AddressOrder
  <2>1. i \in DOMAIN freelist /\ i + 1 \in DOMAIN freelist /\ i < i + 1
    BY <1>1
  <2>2. Ascends(freelist, flags.coalesce)
    BY DEF HeapInv
  <2> QED
    BY <2>1, <2>2 DEF Ascends
<1> QED
  BY <1>2, <1>3

-----------------------------------------------------------------------------
(* disk.py, with numbers that are not Decimal: when a request is chosen,   *)
(* the window holds one that is not done.                                  *)

DoneIn(st) == {i \in DOMAIN st : st[i] = "DONE"}

IsDrive(d) == /\ {"index", "state", "armTrack", "armTarget"} \subseteq DOMAIN d
              /\ d.armTrack \in Tracks /\ d.armTarget \in Tracks

\* The windows of BSATF follow each other; count requests done fill those before Base.
Base(count, W) == (count \div W) * W

\* Which requests are done, D, when count of them are.
InTurns(dk, D, count) ==
    /\ dk.policy = "FIFO" => D = 1 .. count
    /\ dk.policy \notin {"FIFO", "BSATF"} /\ dk.window # -1 =>
         \A i \in D : i < count + dk.window
    /\ dk.policy = "BSATF" /\ dk.window # -1 =>
         1 .. Base(count, dk.window) \subseteq D /\ D \subseteq 1 .. Base(count, dk.window) + dk.window

\* Where the window ends that requests are chosen from.
EndsAt(dk, count, win) ==
    /\ dk.window = -1 => win = -1
    /\ dk.policy \notin {"FIFO", "BSATF"} /\ dk.window # -1 =>
         count < win /\ win <= count + dk.window
    /\ dk.policy = "BSATF" /\ dk.window # -1 => win = Base(count, dk.window) + dk.window

\* A request that may be served when count are done.
MayServe(dk, i, count, win) ==
    /\ dk.policy = "FIFO" => i = count + 1
    /\ dk.policy # "FIFO" /\ dk.window # -1 => i <= win

Options == disk.policy \in Policies /\ disk.window \in (Nat \ {0}) \cup {-1}

Lists(blocks, queue, late, st, count) ==
    /\ queue \in Seq(blocks) /\ late \in Seq(blocks)
    /\ st \in Seq(ReqStates) /\ Len(st) = Len(queue)
    /\ count \in Nat /\ Cardinality(DoneIn(st)) = count

DiskInv ==
    /\ Options /\ Lists(OnDisk, requestQueue, lateRequests, requestState, requestCount) /\ IsDrive(drive)
    /\ InTurns(disk, DoneIn(requestState), requestCount)
    /\ outcome \in {"ready", "running", "done"}
    /\ outcome = "ready" =>
         requestCount = 0 /\ drive.index = 0 /\ requestQueue # <<>> /\ currWindow = disk.window
    /\ outcome = "running" =>
         /\ drive.index \in DOMAIN requestQueue /\ drive.index \notin DoneIn(requestState)
         /\ drive.state \in Moving
         /\ requestCount < Len(requestQueue)
         /\ lateRequests # <<>> => requestCount + 1 < Len(requestQueue)
         /\ currWindow \in Int /\ EndsAt(disk, requestCount, currWindow)
         /\ MayServe(disk, drive.index, requestCount, currWindow)
    /\ outcome = "done" => requestCount = Len(requestQueue) /\ lateRequests = <<>>

LEMMA UpTo ==
    ASSUME NEW n \in Nat PROVE IsFiniteSet(1 .. n) /\ Cardinality(1 .. n) = n
BY FS_Interval

LEMMA BaseIs ==
    ASSUME NEW W \in Nat \ {0}, NEW c \in Nat
    PROVE  Base(c, W) \in Nat /\ Base(c, W) <= c /\ c < Base(c, W) + W
BY DEF Base

LEMMA BaseNext ==
    ASSUME NEW W \in Nat \ {0}, NEW c \in Nat
    PROVE  /\ Base(c + 1, W) = IF c + 1 = Base(c, W) + W THEN c + 1 ELSE Base(c, W)
           /\ (c + 1) % W = 0 <=> c + 1 = Base(c, W) + W
<1> DEFINE q == c \div W
           r == c % W
           p == q + 1
<1>1. q \in Nat /\ r \in 0 .. W - 1 /\ c = q * W + r /\ p \in Nat
  OBVIOUS
<1>2. Base(c, W) = q * W
  BY DEF Base
<1>3. CASE r = W - 1
  <2>1. c + 1 = p * W + 0 /\ 0 \in 0 .. W - 1
    BY <1>1, <1>3
  <2>2. (c + 1) \div W = p /\ (c + 1) % W = 0
    <3> HIDE DEF p
    <3> QED
      BY <1>1, <2>1, DivOf
  <2>3. q * W + W = c + 1 /\ p * W = c + 1
    BY <1>1, <2>1, <1>3
  <2> HIDE DEF p, q, r
  <2> QED
    BY <1>2, <2>2, <2>3 DEF Base
<1>4. CASE r # W - 1
  <2> DEFINE t == r + 1
  <2>1. c + 1 = q * W + t /\ t \in 1 .. W - 1 /\ t \in 0 .. W - 1
    BY <1>1, <1>4
  <2>2. (c + 1) \div W = q /\ (c + 1) % W = t
    <3> HIDE DEF q, t
    <3> QED
      BY <1>1, <2>1, DivOf
  <2>3. c + 1 # q * W + W /\ t # 0
    <3>1. q * W \in Nat
      BY <1>1
    <3> HIDE DEF q, t
    <3> QED
      BY <2>1, <3>1
  <2> HIDE DEF q, r, t
  <2> QED
    BY <1>2, <2>2, <2>3 DEF Base
<1> QED
  BY <1>3, <1>4

-----------------------------------------------------------------------------
(* Serving request i.                                                      *)

LEMMA PlanIs ==
    ASSUME NEW d, IsDrive(d), NEW i, requestQueue[i] \in OnDisk, NEW a, NEW t
    PROVE  /\ IsDrive(PlanSeek(d, i, a, t)) /\ PlanSeek(d, i, a, t).index = i
           /\ PlanSeek(d, i, a, t).state \in Moving
<1> DEFINE track == blockToTrackMap(requestQueue[i])
           e == totalEst(d, a, requestQueue[i])
           plan == [d EXCEPT !.index = i, !.seekBegin = t, !.est = e]
<1>1. track \in Tracks
  BY DEF OnDisk, blockToTrackMap
<1>2. PlanSeek(d, i, a, t) = IF track = d.armTrack THEN [plan EXCEPT !.state = "ROTATE", !.rotBegin = t]
                             ELSE [plan EXCEPT !.state = "SEEK", !.armTarget = track]
  BY DEF PlanSeek
<1> HIDE DEF track, e
<1>3. IsDrive(plan) /\ plan.index = i
  BY DEF IsDrive
<1> HIDE DEF plan
<1> QED
  BY <1>1, <1>2, <1>3 DEF IsDrive, Moving

LEMMA ServeIs ==
    ASSUME NEW st, NEW count, Lists(OnDisk, requestQueue, lateRequests, st, count), NEW d, IsDrive(d),
           NEW i \in DOMAIN requestQueue, i \notin DoneIn(st), NEW a, NEW t, Serve(i, st, d, a, t)
    PROVE  /\ Lists(OnDisk, requestQueue', lateRequests', requestState', count)
           /\ DoneIn(requestState') = DoneIn(st)
           /\ IsDrive(drive') /\ drive'.index = i /\ drive'.state \in Moving
           /\ IF lateRequests = <<>>
              THEN lateRequests' = <<>> /\ Len(requestQueue') = Len(requestQueue)
              ELSE Len(requestQueue') = Len(requestQueue) + 1
<1> DEFINE plan  == PlanSeek(d, i, a, t)
           stays == d.index # 0 /\ StaysInTransfer(requestQueue[d.index], requestQueue[i], d.armTrack)
           next  == IF stays THEN [plan EXCEPT !.state = "XFER", !.rotBegin = t, !.xferBegin = t] ELSE plan
           added == IF lateRequests = <<>> THEN <<>> ELSE <<Head(lateRequests)>>
           more  == [k \in DOMAIN added |-> "NULL"]
           st2   == [st EXCEPT ![i] = next.state]
           n     == Len(requestQueue)
<1>1. /\ drive' = next /\ requestState' = st2 \o more
      /\ requestQueue' = requestQueue \o added
      /\ lateRequests' = SubSeq(lateRequests, 2, Len(lateRequests))
  BY DEF Serve
<1>2. /\ requestQueue \in Seq(OnDisk) /\ lateRequests \in Seq(OnDisk) /\ n \in Nat
      /\ st \in Seq(ReqStates) /\ Len(st) = n /\ i \in 1 .. n /\ DOMAIN requestQueue = 1 .. n
      /\ requestQueue[i] \in OnDisk
  BY DEF Lists
<1>3. IsDrive(plan) /\ plan.index = i /\ plan.state \in Moving
  BY <1>2, PlanIs
<1>4. IsDrive(next) /\ next.index = i /\ next.state \in Moving
  <2> HIDE DEF plan, stays
  <2> QED
    BY <1>3 DEF IsDrive, Moving
<1> HIDE DEF next, n
<1>5. /\ added \in Seq(OnDisk) /\ Len(added) = IF lateRequests = <<>> THEN 0 ELSE 1
      /\ DOMAIN added = 1 .. Len(added) /\ Len(added) \in Nat
  <2>1. added \in Seq(OnDisk) /\ Len(added) = IF lateRequests = <<>> THEN 0 ELSE 1
    BY <1>2
  <2> HIDE DEF added
  <2> QED
    BY <2>1, LenProperties
<1>6. more \in Seq({"NULL"}) /\ Len(more) = Len(added)
  <2>1. Len(added) \in Nat
    BY <1>5
  <2>2. more \in [1 .. Len(added) -> {"NULL"}]
    BY <1>5
  <2> HIDE DEF added, more
  <2> QED
    BY ONLY <2>1, <2>2, IsASeq
<1> HIDE DEF added, more
<1>7. /\ st2 \in Seq(ReqStates) /\ Len(st2) = n /\ DOMAIN st2 = 1 .. n
      /\ st2[i] # "DONE" /\ \A j \in 1 .. n : j # i => st2[j] = st[j]
  BY <1>2, <1>4 DEF Moving, ReqStates, Unfinished
<1> HIDE DEF st2
<1>8. /\ requestQueue' \in Seq(OnDisk) /\ Len(requestQueue') = n + Len(added)
  BY <1>1, <1>2, <1>5, ConcatProperties DEF n
<1>9. /\ more \in Seq(ReqStates) /\ Len(more) \in Nat
      /\ \A k \in 1 .. Len(more) : more[k] = "NULL"
  BY <1>6 DEF ReqStates, Unfinished
<1>10. /\ requestState' \in Seq(ReqStates) /\ Len(requestState') = n + Len(more)
       /\ \A j \in 1 .. n + Len(more) : requestState'[j] = IF j <= n THEN st2[j] ELSE more[j - n]
  <2>1. st2 \in Seq(ReqStates) /\ more \in Seq(ReqStates) /\ requestState' = st2 \o more /\ Len(st2) = n
    BY <1>1, <1>7, <1>9
  <2>2. /\ st2 \o more \in Seq(ReqStates) /\ Len(st2 \o more) = Len(st2) + Len(more)
        /\ \A j \in 1 .. Len(st2) + Len(more) : (st2 \o more)[j] = IF j <= Len(st2) THEN st2[j] ELSE more[j - Len(st2)]
    BY ONLY <2>1, ConcatProperties
  <2> QED
    BY <2>1, <2>2
<1>11. DoneIn(requestState') = DoneIn(st)
  <2>1. DOMAIN requestState' = 1 .. n + Len(more) /\ DOMAIN st = 1 .. n
    BY <1>2, <1>10
  <2>2. ASSUME NEW j \in 1 .. n + Len(more) PROVE j \in DoneIn(requestState') <=> j \in DoneIn(st)
    <3>1. CASE j \in 1 .. n
      <4>1. requestState'[j] = st2[j]
        BY <1>10, <3>1
      <4>2. st[i] # "DONE"
        BY <1>2, <2>1 DEF DoneIn
      <4> QED
        BY <1>7, <2>1, <3>1, <4>1, <4>2 DEF DoneIn
    <3>2. CASE j \notin 1 .. n
      <4>1. j - n \in 1 .. Len(more) /\ ~ (j <= n)
        BY <1>2, <1>9, <3>2
      <4>2. requestState'[j] = "NULL"
        BY <1>9, <1>10, <4>1
      <4> QED
        BY <2>1, <3>2, <4>2 DEF DoneIn
    <3> QED
      BY <3>1, <3>2
  <2>3. \A j \in 1 .. n : j \in 1 .. n + Len(more)
    BY <1>2, <1>9
  <2> QED
    BY <2>1, <2>2, <2>3 DEF DoneIn
<1>12. lateRequests' \in Seq(OnDisk) /\ (lateRequests = <<>> => lateRequests' = <<>>)
  BY <1>1, <1>2
<1>13. Lists(OnDisk, requestQueue', lateRequests', requestState', count)
  BY <1>6, <1>8, <1>10, <1>11, <1>12 DEF Lists
<1> QED
  BY <1>1, <1>4, <1>5, <1>8, <1>11, <1>12, <1>13 DEF n

-----------------------------------------------------------------------------
(* The next choice, when count requests are done and the window has moved. *)

\* Where the window ends before GetWindow moves it.
MovedTo(count, win) ==
    IF disk.policy = "BSATF" /\ disk.window # -1 /\ count > 0 /\ count % disk.window = 0
    THEN win = Base(count, disk.window) ELSE count < Len(requestQueue) => EndsAt(disk, count, win)

LEMMA WindowMoves ==
    ASSUME ~ Precise, Options, NEW count \in Nat, count < Len(requestQueue),
           NEW win \in Int, MovedTo(count, win)
    PROVE  LET w == IF disk.policy = "FIFO" THEN win ELSE GetWindow(win, count)
           IN  w \in Int /\ EndsAt(disk, count, w)
<1> DEFINE w == IF disk.policy = "FIFO" THEN win ELSE GetWindow(win, count)
<1>1. CASE disk.policy = "BSATF" /\ disk.window # -1
  <2>1. disk.window \in Nat \ {0} /\ fairWindow = disk.window /\ w = GetWindow(win, count)
    BY <1>1 DEF Options, fairWindow
  <2>2. CASE count > 0 /\ count % disk.window = 0
    <3>1. w = win + disk.window
      BY <1>1, <2>1, <2>2 DEF GetWindow, CapWindow
    <3>2. win = Base(count, disk.window)
      BY <1>1, <2>2 DEF MovedTo
    <3>3. EndsAt(disk, count, w)
      BY <1>1, <3>1, <3>2 DEF EndsAt
    <3>4. w \in Int
      BY <2>1, <3>1
    <3> QED
      BY <3>3, <3>4
  <2>3. CASE ~ (count > 0 /\ count % disk.window = 0)
    <3>1. w = win
      BY <2>1, <2>3 DEF GetWindow
    <3> QED
      BY <1>1, <2>3, <3>1 DEF MovedTo
  <2> QED
    BY <2>2, <2>3
<1>2. CASE ~ (disk.policy = "BSATF" /\ disk.window # -1)
  <2>1. w = win
    BY <1>2 DEF GetWindow, fairWindow
  <2> QED
    BY <1>2, <2>1 DEF MovedTo
<1> QED
  BY <1>1, <1>2

\* Among the first m requests, more than are done, is one that is not.
LEMMA SomeLeft ==
    ASSUME NEW count, NEW st, Lists(OnDisk, requestQueue, lateRequests, st, count),
           NEW m \in Nat, count < m, m <= Len(requestQueue)
    PROVE  \E i \in 1 .. m : i \in DOMAIN requestQueue /\ st[i] # "DONE"
<1>1. /\ DOMAIN st = 1 .. Len(requestQueue) /\ DOMAIN requestQueue = 1 .. Len(requestQueue)
      /\ Len(requestQueue) \in Nat /\ count \in Nat /\ Cardinality(DoneIn(st)) = count
  BY DEF Lists
<1>2. SUFFICES ASSUME \A i \in 1 .. m : st[i] = "DONE" PROVE FALSE
  BY <1>1
<1>3. 1 .. m \subseteq DoneIn(st)
  BY <1>1, <1>2 DEF DoneIn
<1>4. IsFiniteSet(DoneIn(st))
  <2>1. IsFiniteSet(1 .. Len(requestQueue)) /\ DoneIn(st) \subseteq 1 .. Len(requestQueue)
    BY <1>1, FS_Interval DEF DoneIn
  <2> QED
    BY <2>1, FS_Subset
<1>5. Cardinality(1 .. m) = m /\ Cardinality(1 .. m) <= Cardinality(DoneIn(st))
  BY <1>3, <1>4, FS_Subset, FS_Interval
<1> QED
  BY <1>1, <1>5

\* DoSSTF finds a request when there is one.
LEMMA NearestExists ==
    ASSUME NEW d, IsDrive(d), NEW S \in SUBSET DOMAIN requestQueue, S # {},
           requestQueue \in Seq(OnDisk)
    PROVE  DoSSTF(d, S) # {}
<1> DEFINE dist(i) == Distance(d, requestQueue[i])
           T == {dist(i) : i \in S}
<1>1. ASSUME NEW i \in S PROVE dist(i) \in Nat
  <2> DEFINE t == blockToTrackMap(requestQueue[i])
  <2>1. t \in Tracks
    <3>1. requestQueue[i] \in OnDisk
      OBVIOUS
    <3> QED
      BY <3>1 DEF OnDisk, blockToTrackMap
  <2>2. d.armTrack \in Tracks
    BY DEF IsDrive
  <2> HIDE DEF t
  <2>3. Apart(d.armTrack, t) \in Nat
    BY <2>1, <2>2 DEF Apart, Tracks
  <2> QED
    BY <2>3 DEF t, Distance
<1> HIDE DEF dist
<1>2. T \in SUBSET Nat /\ T # {}
  BY <1>1
<1>3. PICK x \in T : \A y \in T : x <= y
  BY <1>2, LeastExists
<1>4. PICK i \in S : dist(i) = x
  BY <1>3
<1>5. \A j \in S : dist(i) <= dist(j)
  BY <1>3, <1>4
<1>6. i \in DoSSTF(d, S)
  BY <1>5 DEF DoSSTF, dist
<1> QED
  BY <1>6

LEMMA ChoiceThere ==
    ASSUME Options, NEW count, NEW st, Lists(OnDisk, requestQueue, lateRequests, st, count),
           InTurns(disk, DoneIn(st), count), count < Len(requestQueue), NEW w \in Int, EndsAt(disk, count, w)
    PROVE  Undone(st, Candidates(count, w)) # {}
<1> DEFINE n == Len(requestQueue)
<1>1. n \in Nat /\ DOMAIN requestQueue = 1 .. n /\ DOMAIN st = 1 .. n /\ count \in Nat /\ count < n
  BY DEF Lists
<1>2. CASE disk.policy = "FIFO"
  <2>1. count + 1 \in 1 .. n /\ count + 1 \notin 1 .. count
    BY <1>1
  <2>2. st[count + 1] # "DONE"
    BY <1>1, <1>2, <2>1 DEF InTurns, DoneIn
  <2>3. count + 1 \in Candidates(count, w)
    BY <1>2, <2>1 DEF Candidates
  <2> QED
    BY <2>2, <2>3 DEF Undone
<1>3. CASE disk.policy # "FIFO" /\ disk.window = -1
  <2>1. w = -1
    BY <1>3 DEF EndsAt
  <2>2. PICK i \in 1 .. n : st[i] # "DONE"
    BY <1>1, SomeLeft
  <2>3. i \in Candidates(count, w)
    BY <1>3, <2>1 DEF Candidates
  <2> QED
    BY <2>2, <2>3 DEF Undone
<1>4. CASE disk.policy # "FIFO" /\ disk.window # -1
  <2> DEFINE m == IF w < n THEN w ELSE n
  <2>1. count < w
    <3>1. CASE disk.policy = "BSATF"
      <4>1. w = Base(count, disk.window) + disk.window /\ disk.window \in Nat \ {0}
        BY <1>4, <3>1 DEF EndsAt, Options
      <4> QED
        BY <1>1, <4>1, BaseIs
    <3>2. CASE disk.policy # "BSATF"
      BY <1>4, <3>2 DEF EndsAt
    <3> QED
      BY <3>1, <3>2
  <2>2. m \in Nat /\ count < m /\ m <= n /\ \A i \in 1 .. m : i <= w /\ i \in 1 .. n
    BY <1>1, <2>1
  <2> HIDE DEF m
  <2>3. PICK i \in 1 .. m : st[i] # "DONE"
    BY <2>2, SomeLeft
  <2>4. i \in Candidates(count, w)
    BY <1>4, <2>2 DEF Candidates
  <2> QED
    BY <2>3, <2>4 DEF Undone
<1> QED
  BY <1>2, <1>3, <1>4

LEMMA NextIO ==
    ASSUME ~ Precise, Options, disk' = disk, NEW count, NEW st, NEW win \in Int, NEW d, NEW a, NEW t,
           Lists(OnDisk, requestQueue, lateRequests, st, count), IsDrive(d), InTurns(disk, DoneIn(st), count),
           lateRequests # <<>> => count < Len(requestQueue), count <= Len(requestQueue),
           MovedTo(count, win),
           GetNextIO(st, count, win, d, a, t), requestCount' = count
    PROVE  DiskInv'
<1> DEFINE n == Len(requestQueue)
           w == IF disk.policy = "FIFO" THEN win ELSE GetWindow(win, count)
           ready == Undone(st, Candidates(count, w))
           near == IF disk.policy = "SSTF" THEN DoSSTF(d, ready) ELSE ready
<1>1. /\ outcome' = IF count = n THEN "done"
                    ELSE IF near = {} THEN "assertion failed"
                    ELSE IF Unsubtractable(d, a, near) THEN "TypeError"
                    ELSE "running"
      /\ currWindow' = IF outcome' = "done" THEN win ELSE w
      /\ IF outcome' = "running"
         THEN \E i \in DoSATF(d, a, near) : Serve(i, st, d, a, t)
         ELSE /\ drive' = d
              /\ requestState' = st
              /\ UNCHANGED <<requestQueue, lateRequests>>
  BY DEF GetNextIO
<1> HIDE DEF n, w, ready, near
<1>2. n \in Nat /\ count \in Nat /\ DOMAIN requestQueue = 1 .. n /\ requestQueue \in Seq(OnDisk) /\ count <= n
  BY DEF Lists, n
<1>3. OnDisk' = OnDisk /\ Options'
  BY DEF OnDisk, tracksBegin, tracksEnd, BlocksOn, Options
<1>6. CASE count = n
  <2>1. /\ outcome' = "done" /\ drive' = d /\ requestState' = st
        /\ requestQueue' = requestQueue /\ lateRequests' = lateRequests
    BY <1>1, <1>6
  <2>2. lateRequests = <<>>
    BY <1>6, <1>2 DEF n
  <2>3. Lists(OnDisk, requestQueue', lateRequests', requestState', requestCount')
    BY <2>1
  <2>4. InTurns(disk, DoneIn(requestState'), requestCount')
    BY <2>1
  <2> QED
    BY <1>3, <1>6, <2>1, <2>2, <2>3, <2>4 DEF DiskInv, n
<1>7. CASE count # n
  <2>1. count < n
    BY <1>2, <1>7
  <2>2. w \in Int /\ EndsAt(disk, count, w)
    BY <1>2, <2>1, WindowMoves DEF n, w
  <2>3. ready # {} /\ ready \subseteq DOMAIN requestQueue
    <3>1. ready # {}
      BY <2>1, <2>2, ChoiceThere DEF n, ready
    <3> QED
      BY <1>2, <3>1 DEF ready, Undone, Candidates, n
  <2>4. near # {} /\ near \subseteq ready
    BY <1>2, <2>3, NearestExists DEF near, DoSSTF
  <2>5. outcome' = "running" /\ currWindow' = w
    BY <1>1, <1>7, <2>4 DEF Unsubtractable
  <2>6. PICK i \in near : Serve(i, st, d, a, t)
    BY <1>1, <2>5 DEF DoSATF
  <2>7. i \in DOMAIN requestQueue /\ i \notin DoneIn(st) /\ MayServe(disk, i, count, w)
    <3>1. i \in Undone(st, Candidates(count, w))
      BY <2>4 DEF ready
    <3>2. st[i] # "DONE" /\ i \in Candidates(count, w)
      BY <3>1 DEF Undone
    <3>3. MayServe(disk, i, count, w)
      <4>1. ASSUME disk.window # -1, disk.policy # "FIFO" PROVE w # -1
        <5>1. CASE disk.policy = "BSATF"
          <6>1. w = Base(count, disk.window) + disk.window /\ disk.window \in Nat \ {0}
            BY <2>2, <4>1, <5>1 DEF EndsAt, Options
          <6>2. Base(count, disk.window) \in Nat
            BY <1>2, <6>1, BaseIs
          <6> QED
            BY <6>1, <6>2
        <5>2. CASE disk.policy # "BSATF"
          <6>1. count < w
            BY <2>2, <4>1, <5>2 DEF EndsAt
          <6> QED
            BY <1>2, <6>1
        <5> QED
          BY <5>1, <5>2
      <4> QED
        BY <3>2, <4>1 DEF Candidates, MayServe
    <3> QED
      BY <2>3, <2>4, <3>2, <3>3 DEF DoneIn
  <2>8. /\ Lists(OnDisk, requestQueue', lateRequests', requestState', count)
        /\ DoneIn(requestState') = DoneIn(st)
        /\ IsDrive(drive') /\ drive'.index = i /\ drive'.state \in Moving
        /\ IF lateRequests = <<>>
           THEN lateRequests' = <<>> /\ Len(requestQueue') = n
           ELSE Len(requestQueue') = n + 1
    BY <2>6, <2>7, ServeIs DEF n
  <2>10. /\ DOMAIN requestQueue' = 1 .. Len(requestQueue') /\ i \in DOMAIN requestQueue' /\ count < Len(requestQueue')
         /\ lateRequests' # <<>> => count + 1 < Len(requestQueue')
    <3> DEFINE k == Len(requestQueue')
    <3>1. DOMAIN requestQueue' = 1 .. k
      BY <2>8 DEF Lists
    <3>2. (k = n \/ k = n + 1) /\ (lateRequests' # <<>> => k = n + 1)
      BY <2>8
    <3> HIDE DEF k
    <3>3. i \in 1 .. k /\ count < k /\ (k = n + 1 => count + 1 < k)
      BY <1>2, <2>1, <2>7, <3>2
    <3> QED
      BY <3>1, <3>2, <3>3 DEF k
  <2> QED
    BY <1>3, <2>2, <2>5, <2>7, <2>8, <2>10 DEF DiskInv
<1> QED
  BY <1>6, <1>7

-----------------------------------------------------------------------------
(* One more request is done.                                               *)

LEMMA TurnNext ==
    ASSUME Options, NEW n \in Nat, Len(requestQueue) = n, NEW D \in SUBSET (1 .. n), NEW c \in Nat,
           Cardinality(D) = c, c < n, NEW i \in 1 .. n, i \notin D, NEW win \in Int,
           InTurns(disk, D, c), EndsAt(disk, c, win), MayServe(disk, i, c, win)
    PROVE  /\ InTurns(disk, D \cup {i}, c + 1)
           /\ UpdateWindow(win) \in Int /\ MovedTo(c + 1, UpdateWindow(win))
<1> DEFINE u == UpdateWindow(win)
<1>1. IsFiniteSet(D)
  BY UpTo, FS_Subset
<1>2. Cardinality(D \cup {i}) = c + 1 /\ IsFiniteSet(D \cup {i})
  BY <1>1, FS_AddElement
<1>3. CASE disk.policy = "FIFO"
  <2>1. D \cup {i} = 1 .. c + 1
    BY <1>3 DEF InTurns, MayServe
  <2>2. u \in Int
    BY DEF UpdateWindow
  <2>3. disk.window = -1 => u = -1
    BY DEF EndsAt, UpdateWindow
  <2> QED
    BY <1>3, <2>1, <2>2, <2>3 DEF InTurns, MovedTo, EndsAt
<1>4. CASE disk.policy # "FIFO" /\ disk.window = -1
  <2>1. u = -1
    BY <1>4 DEF EndsAt, UpdateWindow
  <2> QED
    BY <1>4, <2>1 DEF InTurns, MovedTo, EndsAt
<1>5. CASE disk.policy \notin {"FIFO", "BSATF"} /\ disk.window # -1
  <2> DEFINE W == disk.window
  <2>1. W \in Nat \ {0} /\ fairWindow = -1
    BY <1>5 DEF Options, fairWindow
  <2>2. c < win /\ win <= c + W /\ i <= win /\ \A j \in D : j < c + W
    BY <1>5 DEF EndsAt, MayServe, InTurns
  <2>3. u = IF win < n THEN win + 1 ELSE win
    BY <2>1, <2>2 DEF UpdateWindow
  <2> HIDE DEF u, W
  <2>4. \A j \in D \cup {i} : j < (c + 1) + W
    <3>1. \A j \in D : j \in Int
      OBVIOUS
    <3> QED
      BY <2>1, <2>2, <3>1
  <2>5. u \in Int /\ (c + 1 < n => c + 1 < u /\ u <= (c + 1) + W)
    BY <2>1, <2>2, <2>3
  <2> QED
    BY <1>5, <2>4, <2>5 DEF InTurns, MovedTo, EndsAt, W, u
<1>6. CASE disk.policy = "BSATF" /\ disk.window # -1
  <2> DEFINE W == disk.window
             b == Base(c, W)
             b2 == Base(c + 1, W)
  <2>1. W \in Nat \ {0} /\ fairWindow = W
    BY <1>6 DEF Options, fairWindow
  <2>2. win = b + W /\ i <= win /\ 1 .. b \subseteq D /\ D \subseteq 1 .. b + W
    BY <1>6 DEF EndsAt, MayServe, InTurns
  <2>3. u = win
    BY <2>1 DEF UpdateWindow
  <2> HIDE DEF W
  <2>4. b \in Nat /\ b <= c /\ c < b + W
    BY <2>1, BaseIs
  <2>5. /\ b2 = IF c + 1 = b + W THEN c + 1 ELSE b
        /\ (c + 1) % W = 0 <=> c + 1 = b + W
    BY <2>1, BaseNext
  <2> HIDE DEF u, b, b2
  <2>6. D \cup {i} \subseteq 1 .. b + W
    BY <2>1, <2>2, <2>4
  <2>7. CASE c + 1 = b + W
    <3> DEFINE e == b + W
    <3>5. e \in Nat
      BY <2>1, <2>4
    <3>1. Cardinality(1 .. b + W) = b + W /\ IsFiniteSet(1 .. b + W)
      <4> HIDE DEF e
      <4>1. Cardinality(1 .. e) = e /\ IsFiniteSet(1 .. e)
        BY <3>5, UpTo
      <4> QED
        BY <4>1 DEF e
    <3>2. D \cup {i} = 1 .. b + W
      BY <1>2, <2>6, <2>7, <3>1, FS_Subset
    <3>3. 1 .. b2 \subseteq D \cup {i} /\ D \cup {i} \subseteq 1 .. b2 + W
      BY <2>1, <2>4, <2>5, <2>7, <3>2
    <3>4. c + 1 > 0 /\ (c + 1) % W = 0 /\ u = b2 /\ u \in Int
      BY <2>1, <2>2, <2>3, <2>4, <2>5, <2>7
    <3> QED
      BY <1>6, <3>3, <3>4 DEF InTurns, MovedTo, W, u, b2
  <2>8. CASE c + 1 # b + W
    <3>1. 1 .. b2 \subseteq D \cup {i} /\ D \cup {i} \subseteq 1 .. b2 + W
      BY <2>2, <2>5, <2>6, <2>8
    <3>2. ~ ((c + 1) % W = 0) /\ u = b2 + W /\ u \in Int
      BY <2>1, <2>2, <2>3, <2>4, <2>5, <2>8
    <3>3. disk.window # -1 /\ EndsAt(disk, c + 1, u)
      BY <1>6, <3>2 DEF EndsAt, W, b2
    <3> QED
      BY <1>6, <3>1, <3>2, <3>3 DEF InTurns, MovedTo, W, u, b2
  <2> QED
    BY <2>7, <2>8
<1> QED
  BY <1>3, <1>4, <1>5, <1>6 DEF Options, Policies

LEMMA DriveMoved ==
    ASSUME NEW d, IsDrive(d), d.state \in Moving, NEW a, NEW t
    PROVE  IsDrive(Moved(d, a, t)) /\ Moved(d, a, t).index = d.index /\ Moved(d, a, t).state \in Moving
<1> DEFINE x == d.armX + (IF d.armTarget > d.armTrack THEN disk.seekSpeed ELSE -disk.seekSpeed)
           s == IF d.state = "SEEK" THEN DoneWithSeek(d, t) ELSE d
<1>1. IsDrive(s) /\ s.index = d.index /\ s.state \in Moving
  <2>1. DoneWithSeek(d, t) = IF x = d.armTarget * trackWidth
                             THEN [d EXCEPT !.armX = x, !.armTrack = d.armTarget, !.state = "ROTATE", !.rotBegin = t]
                             ELSE [d EXCEPT !.armX = x]
    BY DEF DoneWithSeek
  <2> HIDE DEF x
  <2> QED
    BY <2>1 DEF IsDrive, Moving
<1>2. Moved(d, a, t) = IF s.state = "ROTATE" THEN DoneWithRotation(s, a, t) ELSE s
  BY DEF Moved
<1> HIDE DEF s
<1>3. \/ DoneWithRotation(s, a, t) = [s EXCEPT !.state = "XFER", !.xferBegin = t]
      \/ DoneWithRotation(s, a, t) = s
  BY DEF DoneWithRotation
<1> QED
  BY <1>1, <1>2, <1>3 DEF IsDrive, Moving

LEMMA GoHolds ==
    ASSUME ~ Precise, DiskInv, Go PROVE DiskInv'
<1>1. /\ Options /\ Lists(OnDisk, requestQueue, lateRequests, requestState, 0) /\ IsDrive(drive)
      /\ InTurns(disk, DoneIn(requestState), 0) /\ currWindow = disk.window /\ Len(requestQueue) > 0
      /\ disk' = disk /\ requestCount' = 0
      /\ GetNextIO(requestState, 0, currWindow, drive, 0, 0)
  BY DEF DiskInv, Go, Lists
<1>2. EndsAt(disk, 0, currWindow)
  <2>1. disk.window # -1 => Base(0, disk.window) = 0
    BY <1>1 DEF Base, Options
  <2> QED
    BY <1>1, <2>1 DEF EndsAt, Options
<1>3. MovedTo(0, currWindow) /\ currWindow \in Int
  BY <1>1, <1>2 DEF MovedTo, Options
<1> QED
  BY <1>1, <1>3, NextIO

LEMMA AnimateHolds ==
    ASSUME ~ Precise, DiskInv, Animate PROVE DiskInv'
<1> DEFINE d == Moved(drive, angle', timer')
           n == Len(requestQueue)
           D == DoneIn(requestState)
           c == requestCount
           st2 == [requestState EXCEPT ![d.index] = "DONE"]
           d2 == [d EXCEPT !.state = "DONE"]
<1>1. /\ outcome = "running" /\ disk' = disk
      /\ IF DoneWithTransfer(d, angle')
         THEN /\ requestCount' = c + 1
              /\ GetNextIO(st2, c + 1, UpdateWindow(currWindow), d2, angle', timer')
         ELSE /\ drive' = d
              /\ requestState' = [requestState EXCEPT ![d.index] = d.state]
              /\ UNCHANGED <<requestQueue, lateRequests, requestCount, currWindow, outcome>>
  BY DEF Animate
<1>2. IsDrive(d) /\ d.index = drive.index /\ d.state \in Moving
  BY <1>1, DriveMoved DEF DiskInv
<1> HIDE DEF d
<1>3. /\ Options /\ Lists(OnDisk, requestQueue, lateRequests, requestState, c)
      /\ n \in Nat /\ DOMAIN requestQueue = 1 .. n /\ D \in SUBSET (1 .. n) /\ c \in Nat
      /\ DOMAIN requestState = 1 .. n /\ requestState \in Seq(ReqStates) /\ Len(requestState) = n
      /\ Cardinality(D) = c /\ c < n /\ InTurns(disk, D, c)
      /\ d.index \in 1 .. n /\ d.index \notin D
      /\ (lateRequests # <<>> => c + 1 < n)
      /\ currWindow \in Int /\ EndsAt(disk, c, currWindow) /\ MayServe(disk, d.index, c, currWindow)
  BY <1>1, <1>2 DEF DiskInv, Lists, DoneIn
<1>4. CASE DoneWithTransfer(d, angle')
  <2>1. st2 \in Seq(ReqStates) /\ Len(st2) = n /\ DoneIn(st2) = D \cup {d.index}
    BY <1>3 DEF DoneIn, ReqStates
  <2>2. Cardinality(D \cup {d.index}) = c + 1
    <3> HIDE DEF D, n, c
    <3>1. IsFiniteSet(D)
      BY <1>3, UpTo, FS_Subset
    <3> QED
      BY <1>3, <3>1, FS_AddElement
  <2>3. Lists(OnDisk, requestQueue, lateRequests, st2, c + 1)
    <3> HIDE DEF D, st2
    <3> QED
      BY <1>3, <2>1, <2>2 DEF Lists
  <2>4. /\ InTurns(disk, DoneIn(st2), c + 1)
        /\ UpdateWindow(currWindow) \in Int /\ MovedTo(c + 1, UpdateWindow(currWindow))
    <3> HIDE DEF n, D, c, st2
    <3> QED
      BY <1>3, <2>1, TurnNext DEF n
  <2>5. IsDrive(d2)
    BY <1>2 DEF IsDrive
  <2>6. /\ requestCount' = c + 1 /\ disk' = disk
        /\ GetNextIO(st2, c + 1, UpdateWindow(currWindow), d2, angle', timer')
        /\ c + 1 <= n /\ (lateRequests # <<>> => c + 1 < n)
    BY <1>1, <1>3, <1>4
  <2> DEFINE k == c + 1
             u == UpdateWindow(currWindow)
  <2> HIDE DEF st2, d2, D, c, k, u
  <2> QED
    BY <1>3, <2>3, <2>4, <2>5, <2>6, NextIO DEF k, u, n
<1>5. CASE ~ DoneWithTransfer(d, angle')
  <2>1. /\ drive' = d /\ requestState' = [requestState EXCEPT ![d.index] = d.state]
        /\ UNCHANGED <<requestQueue, lateRequests, requestCount, currWindow, outcome, disk>>
    BY <1>1, <1>5
  <2>2. requestState' \in Seq(ReqStates) /\ Len(requestState') = n /\ DoneIn(requestState') = D
    <3>1. d.state \in ReqStates /\ d.state # "DONE"
      BY <1>2 DEF Moving, ReqStates, Unfinished
    <3> QED
      BY <1>3, <2>1, <3>1 DEF DoneIn
  <2>3. OnDisk' = OnDisk /\ Options'
    BY <1>3, <2>1 DEF OnDisk, tracksBegin, tracksEnd, BlocksOn, Options
  <2>4. Lists(OnDisk', requestQueue', lateRequests', requestState', requestCount')
    BY <1>3, <2>1, <2>2, <2>3 DEF Lists
  <2> HIDE DEF n, D, c
  <2> QED
    BY <1>1, <1>2, <1>3, <2>1, <2>2, <2>3, <2>4 DEF DiskInv, n, D, c
<1> QED
  BY <1>4, <1>5

LEMMA DiskInitHolds == ASSUME DiskInit PROVE DiskInv
<1>1. PICK g \in Geometries, policy \in Policies, window \in Windows :
        /\ disk = [policy |-> policy, window |-> window, zoning |-> g.zoning, skew |-> g.skew,
                   rotateSpeed |-> g.rotateSpeed, seekSpeed |-> g.seekSpeed]
        /\ requestQueue \in UNION {[1 .. n -> g.blocks] : n \in 1 .. MaxRequests}
        /\ lateRequests \in UNION {[1 .. n -> g.blocks] : n \in 0 .. MaxLate}
        /\ requestState = [i \in DOMAIN requestQueue |-> "NULL"]
        /\ requestCount = 0
        /\ currWindow = window
        /\ drive = [state |-> "NULL", index |-> 0, armTrack |-> 0, armTarget |-> 0, armX |-> 0,
                    seekBegin |-> 0, rotBegin |-> 0, xferBegin |-> 0, est |-> 0]
        /\ outcome = "ready"
  BY DEF DiskInit
<1>2. Options /\ disk.window = window /\ disk.zoning = g.zoning
  BY <1>1, DiskAssumption DEF Options
<1>3. g.blocks \subseteq OnDisk
  <2> DEFINE p == BlocksIn(g.zoning[1])
             q == BlocksIn(g.zoning[2])
             r == BlocksIn(g.zoning[3])
  <2>1. /\ g.zoning[1] \in Nat \ {0, 1} /\ g.zoning[2] \in Nat \ {0, 1} /\ g.zoning[3] \in Nat \ {0, 1}
        /\ g.blocks \subseteq 0 .. p + q + r - 1
    BY DiskAssumption
  <2>2. ASSUME NEW z \in Nat \ {0, 1} PROVE BlocksIn(z) \in Nat
    <3> DEFINE h == 2 * (z \div 2)
    <3>1. h \in Nat \ {0}
      BY Z3
    <3> HIDE DEF h
    <3>2. 359 \div h \in Nat
      BY <3>1
    <3> QED
      BY <3>2 DEF BlocksIn, h
  <2>3. p \in Nat /\ q \in Nat /\ r \in Nat
    BY <2>1, <2>2
  <2>4. BlocksOn(0) = p /\ BlocksOn(1) = q /\ BlocksOn(2) = r
    BY <1>2 DEF BlocksOn
  <2> HIDE DEF p, q, r
  <2>5. /\ tracksBegin(0) = 0 /\ tracksEnd(0) = p - 1
        /\ tracksBegin(1) = p /\ tracksEnd(1) = p + q - 1
        /\ tracksBegin(2) = p + q /\ tracksEnd(2) = p + q + r - 1
    BY <2>3, <2>4 DEF tracksBegin, tracksEnd
  <2> SUFFICES ASSUME NEW b \in g.blocks PROVE b \in OnDisk
    OBVIOUS
  <2>6. b \in Int /\ 0 <= b /\ b <= p + q + r - 1
    BY <2>1, <2>3
  <2>7. \/ b \in tracksBegin(0) .. tracksEnd(0)
        \/ b \in tracksBegin(1) .. tracksEnd(1)
        \/ b \in tracksBegin(2) .. tracksEnd(2)
    BY <2>3, <2>5, <2>6
  <2>8. 0 \in Tracks /\ 1 \in Tracks /\ 2 \in Tracks
    BY DEF Tracks
  <2> QED
    BY <2>6, <2>7, <2>8 DEF OnDisk
<1>4. PICK n \in 1 .. MaxRequests : requestQueue \in [1 .. n -> g.blocks]
  BY <1>1
<1>5. PICK m \in 0 .. MaxLate : lateRequests \in [1 .. m -> g.blocks]
  BY <1>1
<1>6. n \in Nat \ {0} /\ m \in Nat
  BY DiskAssumption
<1>7. /\ requestQueue \in Seq(OnDisk) /\ Len(requestQueue) = n /\ requestQueue # <<>>
      /\ lateRequests \in Seq(OnDisk)
  BY <1>3, <1>4, <1>5, <1>6
<1>8. requestState \in Seq(ReqStates) /\ Len(requestState) = n /\ DoneIn(requestState) = {}
  <2>1. DOMAIN requestQueue = 1 .. n
    BY <1>4
  <2> QED
    BY <1>1, <1>6, <2>1 DEF ReqStates, Unfinished, DoneIn
<1>9. Lists(OnDisk, requestQueue, lateRequests, requestState, requestCount)
  BY <1>1, <1>7, <1>8, FS_EmptySet DEF Lists
<1>10. IsDrive(drive) /\ drive.index = 0
  BY <1>1 DEF IsDrive, Tracks
<1>11. InTurns(disk, {}, 0)
  <2>1. disk.window # -1 => Base(0, disk.window) = 0
    BY <1>2 DEF Base, Options
  <2> QED
    BY <1>2, <2>1 DEF InTurns
<1> QED
  BY <1>1, <1>2, <1>7, <1>8, <1>9, <1>10, <1>11 DEF DiskInv

LEMMA DiskInvImplies == ASSUME DiskInv PROVE ChoiceExists /\ ServedInOrder
<1> DEFINE n == Len(requestQueue)
           D == DoneIn(requestState)
           c == requestCount
           W == disk.window
<1>1. /\ Options /\ n \in Nat /\ DOMAIN requestQueue = 1 .. n /\ DOMAIN requestState = 1 .. n
      /\ D \in SUBSET (1 .. n) /\ c \in Nat /\ Cardinality(D) = c /\ InTurns(disk, D, c) /\ D = Served
  BY DEF DiskInv, Lists, DoneIn, Served
<1>2. ChoiceExists
  BY DEF DiskInv, ChoiceExists
<1>3. outcome = "done" => Served = DOMAIN requestQueue /\ lateRequests = <<>>
  <2>1. Cardinality(1 .. n) = n /\ IsFiniteSet(1 .. n)
    BY <1>1, UpTo
  <2>2. outcome = "done" => c = n /\ lateRequests = <<>>
    BY DEF DiskInv
  <2>3. c = n => D = 1 .. n
    <3> HIDE DEF D, c, n
    <3> QED
      BY <1>1, <2>1, FS_Subset
  <2> QED
    BY <1>1, <2>2, <2>3
<1>4. disk.policy = "FIFO" => \A i \in D : i <= c
  BY <1>1 DEF InTurns
<1>5. ASSUME W # -1, NEW i \in D, NEW j \in 1 .. i - 1, requestState[j] # "DONE"
      PROVE  IF disk.policy = "BSATF" THEN (i - 1) \div W = (j - 1) \div W ELSE i < c + W
  <2>1. W \in Nat \ {0} /\ i \in 1 .. n /\ j \in 1 .. n /\ j \notin D
    BY <1>1, <1>5 DEF Options, DoneIn
  <2>2. CASE disk.policy = "BSATF"
    <3> DEFINE q == c \div W
               b == Base(c, W)
    <3>1. 1 .. b \subseteq D /\ D \subseteq 1 .. b + W
      BY <1>1, <1>5, <2>2 DEF InTurns
    <3>2. b = q * W /\ b \in Nat /\ q \in Nat
      BY <1>1, <2>1 DEF Base
    <3> HIDE DEF q, b, D, W
    <3>3. b < j /\ j < i /\ i <= b + W
      BY <2>1, <3>1, <3>2
    <3> DEFINE s == i - 1 - b
               t == j - 1 - b
    <3>4. s \in 0 .. W - 1 /\ t \in 0 .. W - 1 /\ i - 1 = b + s /\ j - 1 = b + t
      BY <2>1, <3>2, <3>3
    <3> HIDE DEF s, t
    <3>5. (q * W + s) \div W = q /\ (q * W + t) \div W = q
      BY <2>1, <3>2, <3>4, DivOf
    <3> QED
      BY <2>2, <3>2, <3>4, <3>5
  <2>3. CASE disk.policy = "FIFO"
    <3>1. D = 1 .. c
      BY <1>1, <2>3 DEF InTurns
    <3> HIDE DEF D, c, n, W
    <3>2. j \in 1 .. c
      BY <1>1, <2>1, <3>1
    <3> QED
      BY <2>1, <3>1, <3>2
  <2>4. CASE disk.policy \notin {"FIFO", "BSATF"}
    BY <1>1, <1>5, <2>4 DEF InTurns
  <2> QED
    BY <2>2, <2>3, <2>4
<1>6. \A i \in D : i \in Int
  BY <1>1
<1> QED
  BY <1>1, <1>2, <1>3, <1>4, <1>5 DEF ServedInOrder

LEMMA DiskStands ==
    ASSUME DiskInv, UNCHANGED diskVars PROVE DiskInv'
<1>1. /\ disk' = disk /\ requestQueue' = requestQueue /\ requestState' = requestState
      /\ lateRequests' = lateRequests /\ requestCount' = requestCount
      /\ currWindow' = currWindow /\ drive' = drive /\ outcome' = outcome
  BY DEF diskVars
<1>2. OnDisk' = OnDisk /\ (Options <=> Options')
  BY <1>1 DEF OnDisk, tracksBegin, tracksEnd, BlocksOn, Options
<1> QED
  BY <1>1, <1>2 DEF DiskInv

LEMMA DiskStepHolds ==
    ASSUME ~ Precise, DiskInv, DiskStep PROVE DiskInv'
BY GoHolds, AnimateHolds DEF DiskStep

-----------------------------------------------------------------------------
(* schedular.py.  Of the jobs of an order p, those at the positions P are  *)
(* still to run: each makes itself and those after it wait.                *)

From(P, i) == {k \in P : i <= k}

Weight(l, p, P) == [i \in DOMAIN p |-> Cardinality(From(P, i)) * l[p[i]]]

LEMMA FromIs ==
    ASSUME NEW n \in Nat, NEW P \in SUBSET (1 .. n), NEW x \in P, NEW i \in 1 .. n
    PROVE  /\ Cardinality(From(P, i)) \in Nat
           /\ Cardinality(From(P \ {x}, i)) \in Nat
           /\ Cardinality(From(P, i)) = Cardinality(From(P \ {x}, i)) + (IF i <= x THEN 1 ELSE 0)
<1> DEFINE B == From(P, i)
<1>1. IsFiniteSet(1 .. n)
  BY FS_Interval
<1>2. B \in SUBSET (1 .. n) /\ From(P \ {x}, i) = B \ {x} /\ (x \in B <=> i <= x)
  BY DEF From
<1>3. IsFiniteSet(B) /\ IsFiniteSet(B \ {x})
  BY <1>1, <1>2, FS_Subset
<1> HIDE DEF B
<1>4. /\ Cardinality(B) \in Nat /\ Cardinality(B \ {x}) \in Nat
      /\ Cardinality(B \ {x}) = IF x \in B THEN Cardinality(B) - 1 ELSE Cardinality(B)
  BY <1>3, FS_CardinalityType, FS_RemoveElement
<1>5. /\ Cardinality(From(P \ {x}, i)) = Cardinality(B \ {x})
      /\ i <= x <=> x \in B
  BY <1>2
<1>6. Cardinality(B) = Cardinality(B \ {x}) + (IF i <= x THEN 1 ELSE 0)
  BY <1>4, <1>5
<1> QED
  BY <1>4, <1>5, <1>6 DEF B

\* When the shortest job runs, all that are left wait for it, and no order can do
\* better.
LEMMA Shortest ==
    ASSUME NEW n \in Nat, NEW J, NEW l \in [J -> Nat], NEW p \in [1 .. n -> J],
           NEW P \in SUBSET (1 .. n), NEW x \in P, \A i \in P : l[p[x]] <= l[p[i]]
    PROVE  SumOf(Weight(l, p, P \ {x}), P \ {x}) + l[p[x]] * Cardinality(P) <= SumOf(Weight(l, p, P), P)
<1> DEFINE R == P \ {x}
           w == Weight(l, p, P)
           v == Weight(l, p, R)
           c == l[p[x]]
           A == 0 .. x - 1
<1>1. /\ IsFiniteSet(P) /\ IsFiniteSet(R) /\ R \in SUBSET (1 .. n) /\ x \in 1 .. n
  <2>1. IsFiniteSet(1 .. n)
    BY FS_Interval
  <2> QED BY <2>1, FS_Subset
<1>2. c \in Nat /\ \A i \in 1 .. n : l[p[i]] \in Nat
  BY <1>1
<1>3. ASSUME NEW i \in 1 .. n
      PROVE  /\ v[i] \in Int /\ w[i] \in Int
             /\ w[i] = v[i] + (IF i <= x THEN l[p[i]] ELSE 0)
  <2> DEFINE a == Cardinality(From(P, i))
             b == Cardinality(From(R, i))
             m == l[p[i]]
  <2>1. a \in Nat /\ b \in Nat /\ a = b + (IF i <= x THEN 1 ELSE 0)
    <3>1. /\ Cardinality(From(P, i)) \in Nat
          /\ Cardinality(From(P \ {x}, i)) \in Nat
          /\ Cardinality(From(P, i)) = Cardinality(From(P \ {x}, i)) + (IF i <= x THEN 1 ELSE 0)
      <4>1. n \in Nat /\ P \in SUBSET (1 .. n) /\ x \in P /\ i \in 1 .. n
        OBVIOUS
      <4>2. Cardinality(From(P, i)) \in Nat
        BY ONLY <4>1, FromIs
      <4>3. Cardinality(From(P \ {x}, i)) \in Nat
        BY ONLY <4>1, FromIs
      <4>4. Cardinality(From(P, i)) = Cardinality(From(P \ {x}, i)) + (IF i <= x THEN 1 ELSE 0)
        BY ONLY <4>1, FromIs, SMTT(20)
      <4> QED BY <4>2, <4>3, <4>4
    <3> QED BY <3>1
  <2>4. m \in Nat
    BY <1>2
  <2>2. w[i] = a * m /\ v[i] = b * m
    BY DEF Weight
  <2> HIDE DEF a, b, m, w, v
  <2>3. a * m = b * m + (IF i <= x THEN m ELSE 0) /\ a * m \in Int /\ b * m \in Int
    <3>1. (b + 1) * m = b * m + m
      BY <2>1, <2>4
    <3> QED BY <2>1, <2>4, <3>1
  <2> QED BY <2>2, <2>3 DEF m
<1>4. SumOf(w, P) = w[x] + SumOf(w, R) /\ SumOf(w, R) \in Int /\ SumOf(v, R) \in Int
  <2>1. SumOf(w, P) = w[x] + SumOf(w, P \ {x})
    BY <1>1, <1>3, SumSteps
  <2>2. (\A i \in R : w[i] \in Int) /\ (\A i \in R : v[i] \in Int)
    BY <1>1, <1>3
  <2> HIDE DEF w, v
  <2>3. SumOf(w, R) \in Int /\ SumOf(v, R) \in Int
    BY <1>1, <2>2, SumSteps
  <2> QED BY <2>1, <2>3
<1>5. SumOf(v, R) + c * Cardinality(R \cap A) <= SumOf(w, R)
  <2>1. \A i \in R : /\ v[i] \in Int /\ w[i] \in Int /\ v[i] <= w[i]
                     /\ i \in A => v[i] + c <= w[i]
    <3> SUFFICES ASSUME NEW i \in R
                 PROVE  /\ v[i] \in Int /\ w[i] \in Int /\ v[i] <= w[i]
                        /\ i \in A => v[i] + c <= w[i]
      OBVIOUS
    <3>1. i \in 1 .. n /\ i \in P
      OBVIOUS
    <3>2. c <= l[p[i]] /\ l[p[i]] \in Nat
      BY <1>2, <3>1
    <3>3. i \in A => i <= x
      BY <1>1
    <3>4. /\ v[i] \in Int /\ w[i] \in Int
          /\ w[i] = v[i] + (IF i <= x THEN l[p[i]] ELSE 0)
      BY <1>3, <3>1
    <3> HIDE DEF v, w, A, c
    <3> QED BY <1>2, <3>2, <3>3, <3>4
  <2>2. c \in Int /\ IsFiniteSet(R)
    BY <1>1, <1>2
  <2> HIDE DEF v, w, A, R, c
  <2> QED BY <2>1, <2>2, SumAtLeast
<1>6. w[x] = c * Cardinality(From(P, x)) /\ Cardinality(From(P, x)) \in Nat
  <2>1. Cardinality(From(P, x)) \in Nat
    BY <1>1, FromIs
  <2>2. w[x] = Cardinality(From(P, x)) * c
    BY <1>1 DEF Weight
  <2> QED BY <1>2, <2>1, <2>2
<1>7. Cardinality(P) = Cardinality(R \cap A) + Cardinality(From(P, x)) /\ Cardinality(R \cap A) \in Nat
  <2>1. P = (R \cap A) \cup From(P, x)
    <3>1. \A k \in P : k \in Int /\ 0 <= k
      BY <1>1
    <3>2. ASSUME NEW k \in P, ~ (x <= k) PROVE k \in R \cap A
      BY <1>1, <3>1, <3>2
    <3>3. P \subseteq (R \cap A) \cup From(P, x)
      BY <3>2 DEF From
    <3>4. (R \cap A) \cup From(P, x) \subseteq P
      BY DEF From
    <3> QED BY <3>3, <3>4
  <2>2. (R \cap A) \cap From(P, x) = {}
    BY <1>1 DEF From
  <2>3. IsFiniteSet(R \cap A) /\ IsFiniteSet(From(P, x))
    BY <1>1, FS_Subset DEF From
  <2>4. Cardinality({}) = 0
    BY FS_EmptySet
  <2> DEFINE B == R \cap A
             C == From(P, x)
  <2> HIDE DEF B, C
  <2>5. /\ Cardinality(B \cup C) = Cardinality(B) + Cardinality(C) - Cardinality(B \cap C)
        /\ Cardinality(B) \in Nat /\ Cardinality(C) \in Nat
    <3>1. IsFiniteSet(B) /\ IsFiniteSet(C)
      BY <2>3 DEF B, C
    <3> QED BY <3>1, FS_Union, FS_CardinalityType
  <2>6. Cardinality(P) = Cardinality(B \cup C) /\ Cardinality(B \cap C) = 0
    BY <2>1, <2>2, <2>4 DEF B, C
  <2>7. Cardinality(P) = Cardinality(B) + Cardinality(C) /\ Cardinality(B) \in Nat
    BY <2>5, <2>6
  <2> QED BY <2>7 DEF B, C
<1>8. c * Cardinality(P) = c * Cardinality(R \cap A) + w[x] /\ c * Cardinality(R \cap A) \in Int /\ w[x] \in Int
  <2> DEFINE a == Cardinality(R \cap A)
             b == Cardinality(From(P, x))
  <2> HIDE DEF a, b, w, v, R, A, c
  <2>1. a \in Nat /\ b \in Nat /\ c \in Nat /\ w[x] = c * b /\ Cardinality(P) = a + b
    BY <1>2, <1>6, <1>7 DEF a, b
  <2>2. c * (a + b) = c * a + c * b /\ c * a \in Int /\ c * b \in Int
    BY <2>1
  <2> QED BY <2>1, <2>2 DEF a
<1>9. SumOf(v, R) + c * Cardinality(P) <= SumOf(w, P)
  <2> HIDE DEF w, v, R, A, c
  <2> QED BY <1>4, <1>5, <1>8
<1> QED BY <1>9

\* Before the first step, the weights are those of TotalIn.
LEMMA AllToRun ==
    ASSUME NEW n \in Nat, NEW J, NEW l \in [J -> Nat], NEW p \in [1 .. n -> J]
    PROVE  SumOf(Weight(l, p, 1 .. n), 1 .. n) = SumOf([i \in 1 .. n |-> (n - i + 1) * l[p[i]]], 1 .. n)
<1> DEFINE v == [i \in 1 .. n |-> (n - i + 1) * l[p[i]]]
<1>1. ASSUME NEW i \in 1 .. n PROVE v[i] \in Int /\ Weight(l, p, 1 .. n)[i] = v[i]
  <2>1. From(1 .. n, i) = i .. n
    BY DEF From
  <2>2. Cardinality(i .. n) = n - i + 1
    BY FS_Interval
  <2>3. Weight(l, p, 1 .. n)[i] = (n - i + 1) * l[p[i]]
    BY <2>1, <2>2 DEF Weight
  <2>4. l[p[i]] \in Nat
    OBVIOUS
  <2> DEFINE a == n - i + 1
             b == l[p[i]]
  <2>5. a \in Int /\ b \in Int /\ v[i] = a * b /\ Weight(l, p, 1 .. n)[i] = a * b
    BY <2>3, <2>4
  <2> HIDE DEF a, b, v
  <2> QED BY <2>5
<1>2. IsFiniteSet(1 .. n)
  BY FS_Interval
<1> HIDE DEF v
<1>3. SumOf(Weight(l, p, 1 .. n), 1 .. n) = SumOf(v, 1 .. n)
  BY <1>1, <1>2, SumSame
<1> QED BY <1>3 DEF v

-----------------------------------------------------------------------------
(* The invariant of schedular.py.                                          *)

Queued == {runlist[k].jobnum : k \in DOMAIN runlist}

\* What the job in place k has run so far.
Had(k) == jobs.length[runlist[k].jobnum] - runlist[k].runtime

JobTypes ==
    /\ jobs.policy \in Policy /\ jobs.quantum \in Nat \ {0} /\ jobs.length \in Seq(Nat \ {0})
    /\ runlist \in Seq([jobnum : Jobs, runtime : Nat \ {0}])
    /\ \A k, m \in DOMAIN runlist : k # m => runlist[k].jobnum # runlist[m].jobnum
    /\ thetime \in Nat
    /\ times \in [response : [Jobs -> Int], turnaround : [Jobs -> Int],
                  wait : [Jobs -> Int], lastran : [Jobs -> Int]]

Accounts ==
    /\ \A k \in DOMAIN runlist :
          /\ times.lastran[runlist[k].jobnum] = times.wait[runlist[k].jobnum] + Had(k)
          /\ times.turnaround[runlist[k].jobnum] = 0
    /\ \A j \in Jobs \ Queued :
          /\ times.lastran[j] = times.wait[j] + jobs.length[j]
          /\ times.turnaround[j] = times.lastran[j]

\* Round robin gives each job its turn; the others run no part of a job.
TurnsInOrder ==
    /\ jobs.policy = "RR" =>
         \A m \in DOMAIN runlist : \A k \in 1 .. m - 1 : Had(k) <= Had(m) /\ Had(m) <= Had(k) + jobs.quantum
    /\ jobs.policy # "RR" => \A k \in DOMAIN runlist : Had(k) = 0
    /\ jobs.policy = "SJF" =>
         \A m \in DOMAIN runlist : \A k \in 1 .. m - 1 : runlist[k].runtime <= runlist[m].runtime

Open(p) == {i \in DOMAIN p : p[i] \in Queued}

\* The least that the turnaround times can still add up to.
Bound(p) == SumOf(times.turnaround, Jobs) + thetime * Cardinality(Open(p))
              + SumOf(Weight(jobs.length, p, Open(p)), Open(p))

NoBetterOrder == jobs.policy = "SJF" => \A p \in SetToSeqs(Jobs) : Bound(p) <= TotalIn(p)

JobInv == JobTypes /\ Accounts /\ TurnsInOrder /\ NoBetterOrder

LEMMA JobFacts ==
    ASSUME JobTypes
    PROVE  /\ Jobs = 1 .. Len(jobs.length) /\ Len(jobs.length) \in Nat
           /\ \A j \in Jobs : /\ jobs.length[j] \in Nat \ {0} /\ times.wait[j] \in Int
                              /\ times.lastran[j] \in Int /\ times.turnaround[j] \in Int
                              /\ times.response[j] \in Int
           /\ jobs.quantum \in Nat \ {0} /\ thetime \in Nat
           /\ DOMAIN runlist = 1 .. Len(runlist) /\ Len(runlist) \in Nat
           /\ \A k \in DOMAIN runlist : runlist[k].jobnum \in Jobs /\ runlist[k].runtime \in Nat \ {0}
           /\ \A k \in DOMAIN runlist : Had(k) \in Int
<1> DEFINE E == [jobnum : Jobs, runtime : Nat \ {0}]
<1>1. runlist \in Seq(E) /\ jobs.length \in Seq(Nat \ {0})
  BY DEF JobTypes
<1>2. Jobs = 1 .. Len(jobs.length) /\ Len(jobs.length) \in Nat
      /\ \A j \in Jobs : jobs.length[j] \in Nat \ {0}
  BY <1>1 DEF Jobs
<1>3. DOMAIN runlist = 1 .. Len(runlist) /\ Len(runlist) \in Nat /\ \A k \in DOMAIN runlist : runlist[k] \in E
  <2> HIDE DEF E
  <2> QED BY <1>1
<1>4. \A k \in DOMAIN runlist : runlist[k].jobnum \in Jobs /\ runlist[k].runtime \in Nat \ {0}
  BY <1>3
<1>5. \A j \in Jobs : /\ times.wait[j] \in Int /\ times.lastran[j] \in Int /\ times.turnaround[j] \in Int
                      /\ times.response[j] \in Int
  BY DEF JobTypes
<1>6. \A k \in DOMAIN runlist : Had(k) \in Int
  BY <1>2, <1>4 DEF Had
<1> QED BY <1>2, <1>3, <1>4, <1>5, <1>6 DEF JobTypes

LEMMA TotalInIs ==
    ASSUME NEW p, IsFiniteSet(DOMAIN p)
    PROVE  TotalIn(p) = SumOf([i \in DOMAIN p |-> (Len(p) - i + 1) * jobs.length[p[i]]], DOMAIN p)
<1> DEFINE S == DOMAIN p
           v == [i \in S |-> (Len(p) - i + 1) * jobs.length[p[i]]]
           Eq(f) == f = [s \in SUBSET S |-> IF s = {} THEN 0
                          ELSE (Len(p) - (CHOOSE x \in s : TRUE) + 1) * jobs.length[p[CHOOSE x \in s : TRUE]]
                                 + f[s \ {CHOOSE x \in s : TRUE}]]
           g == CHOOSE f : Eq(f)
<1>1. TotalIn(p) = g[S]
  BY DEF TotalIn, MapThenSumSet, MapThenFoldSet
<1>2. ASSUME NEW f PROVE Eq(f) <=> IsSum(f, v, S)
  <2>1. ASSUME NEW s \in SUBSET S, s # {}
        PROVE  v[CHOOSE x \in s : TRUE]
                 = (Len(p) - (CHOOSE x \in s : TRUE) + 1) * jobs.length[p[CHOOSE x \in s : TRUE]]
    <3>1. (CHOOSE x \in s : TRUE) \in S
      BY <2>1
    <3> QED BY <3>1
  <2>2. [s \in SUBSET S |-> IF s = {} THEN 0
            ELSE (Len(p) - (CHOOSE x \in s : TRUE) + 1) * jobs.length[p[CHOOSE x \in s : TRUE]]
                   + f[s \ {CHOOSE x \in s : TRUE}]]
        = [s \in SUBSET S |-> IF s = {} THEN 0 ELSE v[CHOOSE x \in s : TRUE] + f[Rest(s)]]
    <3> HIDE DEF v
    <3> QED BY <2>1 DEF Rest
  <2> HIDE DEF v, S
  <2> QED BY <2>2 DEF IsSum
<1> HIDE DEF v, S, Eq
<1>3. IsSum(g, v, S)
  <2>1. IsSum(CHOOSE f : IsSum(f, v, S), v, S)
    BY SumExists DEF S
  <2> QED BY <1>2, <2>1
<1> HIDE DEF g
<1>4. g[S] = SumOf(v, S)
  BY <1>3, SumExists, SumUnique DEF SumOf, S
<1> QED BY <1>1, <1>4 DEF v, S

\* What is left of a job is what its entry says, if it has one.
LEMMA LeftIs ==
    ASSUME NEW j, JobTypes
    PROVE  /\ j \notin Queued => Left(j) = 0
           /\ \A m \in DOMAIN runlist : runlist[m].jobnum = j => Left(j) = runlist[m].runtime
<1> DEFINE S == DOMAIN runlist
           v == [k \in S |-> IF runlist[k].jobnum = j THEN runlist[k].runtime ELSE 0]
           Eq(f) == f = [s \in SUBSET S |-> IF s = {} THEN 0
                          ELSE (IF runlist[CHOOSE x \in s : TRUE].jobnum = j
                                THEN runlist[CHOOSE x \in s : TRUE].runtime ELSE 0)
                                 + f[s \ {CHOOSE x \in s : TRUE}]]
           g == CHOOSE f : Eq(f)
<1>1. Left(j) = g[S]
  BY DEF Left, MapThenSumSet, MapThenFoldSet
<1>2. ASSUME NEW f PROVE Eq(f) <=> IsSum(f, v, S)
  <2>1. ASSUME NEW s \in SUBSET S, s # {}
        PROVE  v[CHOOSE x \in s : TRUE] = IF runlist[CHOOSE x \in s : TRUE].jobnum = j
                                          THEN runlist[CHOOSE x \in s : TRUE].runtime ELSE 0
    <3>1. (CHOOSE x \in s : TRUE) \in S
      BY <2>1
    <3> QED BY <3>1
  <2>2. [s \in SUBSET S |-> IF s = {} THEN 0
            ELSE (IF runlist[CHOOSE x \in s : TRUE].jobnum = j
                  THEN runlist[CHOOSE x \in s : TRUE].runtime ELSE 0)
                   + f[s \ {CHOOSE x \in s : TRUE}]]
        = [s \in SUBSET S |-> IF s = {} THEN 0 ELSE v[CHOOSE x \in s : TRUE] + f[Rest(s)]]
    <3> HIDE DEF v
    <3> QED BY <2>1 DEF Rest
  <2> HIDE DEF v, S
  <2> QED BY <2>2 DEF IsSum
<1>3. /\ S = 1 .. Len(runlist) /\ Len(runlist) \in Nat
      /\ \A k \in S : runlist[k].runtime \in Nat
  BY JobFacts
<1>4. IsFiniteSet(S)
  <2> HIDE DEF S
  <2> QED BY <1>3, FS_Interval
<1>5. /\ \A k \in S : v[k] \in Int
      /\ \A k \in S : v[k] = IF runlist[k].jobnum = j THEN runlist[k].runtime ELSE 0
  BY <1>3
<1> HIDE DEF v, S, Eq
<1>6. IsSum(g, v, S)
  <2>1. IsSum(CHOOSE f : IsSum(f, v, S), v, S)
    BY <1>4, SumExists
  <2> QED BY <1>2, <2>1
<1> HIDE DEF g
<1>7. Left(j) = SumOf(v, S)
  BY <1>1, <1>4, <1>6, SumExists, SumUnique DEF SumOf
<1>8. j \notin Queued => Left(j) = 0
  <2> SUFFICES ASSUME j \notin Queued PROVE Left(j) = 0
    OBVIOUS
  <2>1. \A k \in S : v[k] = 0
    BY <1>5 DEF Queued, S
  <2> QED BY <1>4, <1>7, <2>1, SumOne
<1>9. ASSUME NEW m \in S, runlist[m].jobnum = j PROVE Left(j) = runlist[m].runtime
  <2>1. \A k \in S \ {m} : v[k] = 0
    BY <1>5, <1>9 DEF JobTypes, S
  <2>2. SumOf(v, S) = v[m] + SumOf(v, S \ {m})
    BY <1>4, <1>5, SumSteps
  <2>3. IsFiniteSet(S \ {m})
    BY <1>4, FS_Subset
  <2>4. SumOf(v, S \ {m}) = 0
    BY <2>1, <2>3, SumOne
  <2>5. v[m] = runlist[m].runtime /\ v[m] \in Int
    BY <1>5, <1>9
  <2> QED BY <1>7, <2>2, <2>4, <2>5
<1> QED BY <1>8, <1>9 DEF S

LEMMA TurnaroundIs ==
    ASSUME IsFiniteSet(Jobs) PROVE TotalTurnaround = SumOf(times.turnaround, Jobs)
<1> DEFINE v == times.turnaround
<1>1. TotalTurnaround = MapThenSumSet(LAMBDA x : v[x], Jobs)
  BY DEF TotalTurnaround
<1> HIDE DEF v
<1> QED BY <1>1, SumIs DEF v

LEMMA JobInvImplies == JobInv => TimesAddUp
<1> SUFFICES ASSUME JobInv PROVE TimesAddUp
  OBVIOUS
<1>1. JobTypes /\ Accounts /\ TurnsInOrder /\ NoBetterOrder
  BY DEF JobInv
<1>2. /\ Jobs = 1 .. Len(jobs.length) /\ Len(jobs.length) \in Nat
      /\ \A j \in Jobs : /\ jobs.length[j] \in Nat /\ times.wait[j] \in Int
                         /\ times.lastran[j] \in Int /\ times.turnaround[j] \in Int
      /\ jobs.quantum \in Nat
      /\ DOMAIN runlist = 1 .. Len(runlist) /\ Len(runlist) \in Nat
      /\ \A k \in DOMAIN runlist : Had(k) \in Int
  BY <1>1, JobFacts
<1>3. ASSUME NEW j \in Jobs PROVE times.lastran[j] = times.wait[j] + ServiceOf(j)
  <2>1. CASE j \in Queued
    <3>1. PICK k \in DOMAIN runlist : runlist[k].jobnum = j
      BY <2>1 DEF Queued
    <3>2. ServiceOf(j) = Had(k)
      BY <1>1, <3>1, LeftIs DEF ServiceOf, Had
    <3> QED BY <1>1, <3>1, <3>2 DEF Accounts
  <2>2. CASE j \notin Queued
    <3>1. ServiceOf(j) = jobs.length[j]
      BY <1>1, <1>2, <2>2, LeftIs DEF ServiceOf
    <3> QED BY <1>1, <2>2, <3>1 DEF Accounts
  <2> QED BY <2>1, <2>2
<1>4. ASSUME jobs.policy = "RR", NEW i \in Jobs, NEW j \in Jobs, Left(i) > 0, Left(j) > 0
      PROVE  ServiceOf(i) - ServiceOf(j) <= jobs.quantum
  <2>1. i \in Queued /\ j \in Queued
    BY <1>1, <1>4, LeftIs
  <2>2. PICK k \in DOMAIN runlist : runlist[k].jobnum = i
    BY <2>1 DEF Queued
  <2>3. PICK m \in DOMAIN runlist : runlist[m].jobnum = j
    BY <2>1 DEF Queued
  <2>4. ServiceOf(i) = Had(k) /\ ServiceOf(j) = Had(m)
    BY <1>1, <2>2, <2>3, LeftIs DEF ServiceOf, Had
  <2>5. Had(k) \in Int /\ Had(m) \in Int
    BY <1>2
  <2>6. k \in Nat /\ m \in Nat /\ k >= 1 /\ m >= 1
    BY <1>2
  <2>7. CASE k < m
    <3>1. k \in 1 .. m - 1
      BY <2>6, <2>7
    <3>2. Had(k) <= Had(m)
      BY <1>1, <1>4, <3>1 DEF TurnsInOrder
    <3> QED BY <1>2, <2>4, <2>5, <3>2
  <2>8. CASE m < k
    <3>1. m \in 1 .. k - 1
      BY <2>6, <2>8
    <3>2. Had(k) <= Had(m) + jobs.quantum
      BY <1>1, <1>4, <3>1 DEF TurnsInOrder
    <3> QED BY <1>2, <2>4, <2>5, <3>2
  <2>9. CASE k = m
    BY <1>2, <2>4, <2>5, <2>9
  <2> QED BY <2>6, <2>7, <2>8, <2>9
<1>5. ASSUME runlist = <<>> PROVE Queued = {}
  BY <1>5 DEF Queued
<1>6. runlist = <<>> => times.turnaround = times.lastran
  <2> SUFFICES ASSUME runlist = <<>> PROVE times.turnaround = times.lastran
    OBVIOUS
  <2>1. times.turnaround \in [Jobs -> Int] /\ times.lastran \in [Jobs -> Int]
    BY <1>1 DEF JobTypes
  <2>2. \A j \in Jobs : times.turnaround[j] = times.lastran[j]
    BY <1>1, <1>5 DEF Accounts
  <2> QED BY <2>1, <2>2
<1>7. ASSUME runlist = <<>>, jobs.policy = "SJF", NEW p \in SetToSeqs(Jobs)
      PROVE  TotalTurnaround <= TotalIn(p)
  <2>1. Open(p) = {}
    BY <1>5, <1>7 DEF Open
  <2>2. Cardinality(Open(p)) = 0
    BY <2>1, FS_EmptySet
  <2>3. SumOf(Weight(jobs.length, p, Open(p)), Open(p)) = 0
    BY <2>1, SumOne, FS_EmptySet
  <2>4. IsFiniteSet(Jobs)
    BY <1>2, FS_Interval
  <2>5. SumOf(times.turnaround, Jobs) \in Int
    BY <1>2, <2>4, SumSteps
  <2>6. thetime \in Nat
    BY <1>1 DEF JobTypes
  <2>7. Bound(p) = SumOf(times.turnaround, Jobs)
    BY <2>2, <2>3, <2>5, <2>6 DEF Bound
  <2>8. Bound(p) <= TotalIn(p)
    BY <1>1, <1>7 DEF NoBetterOrder
  <2> QED BY <2>4, <2>7, <2>8, TurnaroundIs
<1> QED BY <1>3, <1>4, <1>6, <1>7 DEF TimesAddUp

\* An order of 1 .. n has every number once.
IsOrder(p, n) ==
    /\ p \in [1 .. n -> 1 .. n] /\ DOMAIN p = 1 .. n /\ Len(p) = n
    /\ \A i, j \in 1 .. n : i # j => p[i] # p[j]
    /\ \A j \in 1 .. n : \E i \in 1 .. n : p[i] = j

LEMMA OrderIs ==
    ASSUME NEW n \in Nat, NEW p \in SetToSeqs(1 .. n)
    PROVE  IsOrder(p, n)
<1> DEFINE D == 1 .. n
<1>1. IsFiniteSet(D) /\ Cardinality(D) = n
  BY FS_Interval
<1>2. p \in [D -> D] /\ \A i, j \in D : i # j => p[i] # p[j]
  BY <1>1 DEF SetToSeqs
<1>3. p \in Injection(D, D)
  <2> HIDE DEF D
  <2> QED BY <1>2 DEF Injection, IsInjective
<1>4. p \in Surjection(D, D)
  <2> HIDE DEF D
  <2> QED BY <1>1, <1>3, FS_Injection
<1>5. \A j \in D : \E i \in D : p[i] = j
  <2> HIDE DEF D
  <2> QED BY <1>4 DEF Surjection
<1>6. Len(p) = n
  BY <1>2
<1> QED BY <1>2, <1>5, <1>6 DEF IsOrder

LEMMA JobInitHolds == JobInit => JobInv
<1> SUFFICES ASSUME JobInit PROVE JobInv
  OBVIOUS
<1>1. PICK policy \in Policy, quantum \in Quanta, n \in 1 .. MaxJobs :
        \E length \in [1 .. n -> 1 .. MaxLength] :
            /\ jobs = [policy |-> policy, quantum |-> quantum, length |-> length]
            /\ runlist \in {[k \in 1 .. n |-> [jobnum |-> order[k], runtime |-> length[order[k]]]] :
                              order \in InOrder(policy, length)}
            /\ thetime = 0
            /\ times = [response   |-> [j \in 1 .. n |-> -1],
                        turnaround |-> [j \in 1 .. n |-> 0],
                        wait       |-> [j \in 1 .. n |-> 0],
                        lastran    |-> [j \in 1 .. n |-> 0]]
  BY DEF JobInit
<1>2. PICK length \in [1 .. n -> 1 .. MaxLength] :
            /\ jobs = [policy |-> policy, quantum |-> quantum, length |-> length]
            /\ runlist \in {[k \in 1 .. n |-> [jobnum |-> order[k], runtime |-> length[order[k]]]] :
                              order \in InOrder(policy, length)}
            /\ thetime = 0
            /\ times = [response   |-> [j \in 1 .. n |-> -1],
                        turnaround |-> [j \in 1 .. n |-> 0],
                        wait       |-> [j \in 1 .. n |-> 0],
                        lastran    |-> [j \in 1 .. n |-> 0]]
  BY <1>1
<1>3. PICK order \in InOrder(policy, length) :
        runlist = [k \in 1 .. n |-> [jobnum |-> order[k], runtime |-> length[order[k]]]]
  BY <1>2
<1>4. n \in Nat /\ quantum \in Nat \ {0} /\ \A j \in 1 .. n : length[j] \in Nat \ {0}
  BY JobAssumption
<1>5. DOMAIN length = 1 .. n
  OBVIOUS
<1>6. /\ order \in SetToSeqs(1 .. n)
      /\ policy = "SJF" => \A k \in DOMAIN order : \A m \in 1 .. k - 1 :
                              length[order[m]] <= length[order[k]]
  <2>1. /\ order \in SetToSeqs(1 .. n)
        /\ \A k \in DOMAIN order : \A m \in 1 .. k - 1 :
              IF policy = "SJF" /\ length[order[m]] # length[order[k]]
              THEN length[order[m]] < length[order[k]] ELSE order[m] < order[k]
    BY <1>5 DEF InOrder
  <2>2. DOMAIN order = 1 .. n /\ order \in [1 .. n -> 1 .. n]
    BY <1>4, <2>1, OrderIs DEF IsOrder
  <2>3. ASSUME policy = "SJF", NEW k \in DOMAIN order, NEW m \in 1 .. k - 1
        PROVE  length[order[m]] <= length[order[k]]
    <3>1. m \in 1 .. n /\ k \in 1 .. n
      BY <1>4, <2>2
    <3>2. length[order[m]] \in Nat /\ length[order[k]] \in Nat
      BY <1>4, <2>2, <3>1
    <3>3. length[order[m]] # length[order[k]] => length[order[m]] < length[order[k]]
      BY <2>1, <2>3
    <3> QED BY <3>2, <3>3
  <2> QED BY <2>1, <2>3
<1>7. /\ order \in [1 .. n -> 1 .. n] /\ DOMAIN order = 1 .. n
      /\ \A i, j \in 1 .. n : i # j => order[i] # order[j]
      /\ \A j \in 1 .. n : \E i \in 1 .. n : order[i] = j
  BY <1>4, <1>6, OrderIs DEF IsOrder
<1>8. /\ jobs.policy = policy /\ jobs.quantum = quantum /\ jobs.length = length /\ Jobs = 1 .. n
      /\ times.response = [j \in 1 .. n |-> -1] /\ times.turnaround = [j \in 1 .. n |-> 0]
      /\ times.wait = [j \in 1 .. n |-> 0] /\ times.lastran = [j \in 1 .. n |-> 0]
  BY <1>2, <1>5 DEF Jobs
<1>15. /\ DOMAIN runlist = 1 .. n
       /\ \A k \in 1 .. n : runlist[k].jobnum = order[k] /\ runlist[k].runtime = length[order[k]]
  BY <1>3
<1>16. \A k \in 1 .. n : order[k] \in 1 .. n
  BY <1>7
<1>17. Jobs = 1 .. n
  BY <1>8
<1>18. jobs.length = length
  BY <1>8
<1>9. JobTypes
  <2>1. length \in [1 .. n -> Nat \ {0}]
    BY <1>4, <1>5
  <2>2. jobs.length \in Seq(Nat \ {0})
    BY <1>4, <1>8, <2>1
  <2>3. runlist \in [1 .. n -> [jobnum : Jobs, runtime : Nat \ {0}]]
    BY <1>3, <1>4, <1>7, <1>8
  <2>4. runlist \in Seq([jobnum : Jobs, runtime : Nat \ {0}])
    <3> DEFINE E == [jobnum : Jobs, runtime : Nat \ {0}]
    <3> HIDE DEF E
    <3>1. runlist \in [1 .. n -> E]
      BY <2>3 DEF E
    <3>2. runlist \in Seq(E)
      BY <1>4, <3>1
    <3> QED BY <3>2 DEF E
  <2>5. \A k, m \in DOMAIN runlist : k # m => runlist[k].jobnum # runlist[m].jobnum
    <3> SUFFICES ASSUME NEW k \in 1 .. n, NEW m \in 1 .. n, k # m
                 PROVE  runlist[k].jobnum # runlist[m].jobnum
      BY <1>15
    <3>1. order[k] # order[m]
      BY <1>7
    <3> QED BY <1>15, <3>1
  <2>6. times \in [response : [Jobs -> Int], turnaround : [Jobs -> Int],
                   wait : [Jobs -> Int], lastran : [Jobs -> Int]]
    BY <1>2, <1>8
  <2> QED BY <1>2, <1>4, <1>8, <2>2, <2>4, <2>5, <2>6 DEF JobTypes
<1>10. Queued = Jobs
  <2>1. \A j \in 1 .. n : \E i \in 1 .. n : order[i] = j
    BY <1>7
  <2>2. Queued = {order[k] : k \in 1 .. n}
    BY <1>15 DEF Queued
  <2> QED BY <1>16, <1>17, <2>1, <2>2
<1>11. \A k \in 1 .. n : Had(k) = 0
  <2> SUFFICES ASSUME NEW k \in 1 .. n PROVE Had(k) = 0
    OBVIOUS
  <2>1. Had(k) = length[order[k]] - length[order[k]]
    BY <1>15, <1>18 DEF Had
  <2>2. length[order[k]] \in Int
    BY <1>4, <1>16
  <2> QED BY <2>1, <2>2
<1>12. Accounts
  <2>1. \A k \in 1 .. n : runlist[k].jobnum \in 1 .. n
    BY <1>15, <1>16
  <2>2. \A j \in 1 .. n : times.lastran[j] = 0 /\ times.wait[j] = 0 /\ times.turnaround[j] = 0
    BY <1>8
  <2> QED BY <1>10, <1>11, <1>15, <2>1, <2>2 DEF Accounts
<1>13. TurnsInOrder
  <2>1. \A m \in DOMAIN runlist : \A k \in 1 .. m - 1 : k \in 1 .. n /\ m \in 1 .. n
    BY <1>4, <1>15
  <2>2. jobs.policy = "SJF" =>
           \A m \in DOMAIN runlist : \A k \in 1 .. m - 1 : runlist[k].runtime <= runlist[m].runtime
    <3> SUFFICES ASSUME policy = "SJF", NEW m \in DOMAIN runlist, NEW k \in 1 .. m - 1
                 PROVE  runlist[k].runtime <= runlist[m].runtime
      BY <1>8
    <3>1. k \in 1 .. n /\ m \in 1 .. n
      BY <2>1
    <3>2. length[order[k]] <= length[order[m]]
      BY <1>6, <1>7, <3>1
    <3> QED BY <1>15, <3>1, <3>2
  <2>3. jobs.quantum \in Nat
    BY <1>4, <1>8
  <2>4. \A m \in DOMAIN runlist : \A k \in 1 .. m - 1 : Had(k) = 0 /\ Had(m) = 0
    BY <1>11, <2>1
  <2>5. \A k \in DOMAIN runlist : Had(k) = 0
    BY <1>11, <1>15
  <2> QED BY <2>2, <2>3, <2>4, <2>5 DEF TurnsInOrder
<1>14. ASSUME NEW p \in SetToSeqs(Jobs) PROVE Bound(p) <= TotalIn(p)
  <2>1. p \in [1 .. n -> 1 .. n] /\ DOMAIN p = 1 .. n /\ Len(p) = n
    BY <1>4, <1>8, OrderIs DEF IsOrder
  <2>2. Open(p) = 1 .. n
    BY <1>8, <1>10, <2>1 DEF Open
  <2>3. IsFiniteSet(1 .. n) /\ Cardinality(1 .. n) = n
    BY <1>4, FS_Interval
  <2>4. SumOf(times.turnaround, Jobs) = 0
    BY <1>8, <2>3, SumOne
  <2> DEFINE v == [i \in DOMAIN p |-> (Len(p) - i + 1) * jobs.length[p[i]]]
  <2>5. TotalIn(p) = SumOf(v, 1 .. n)
    BY <2>1, <2>3, TotalInIs
  <2>6. jobs.length \in [1 .. n -> Nat]
    BY <1>4, <1>5, <1>8
  <2>7. \A i \in 1 .. n : v[i] = (n - i + 1) * jobs.length[p[i]]
    BY <2>1
  <2>11. /\ \A i \in 1 .. n : jobs.length[p[i]] \in Nat
         /\ \A i \in 1 .. n : v[i] \in Int
    <3>1. \A i \in 1 .. n : jobs.length[p[i]] \in Nat
      <4> HIDE DEF v
      <4> QED BY <2>1, <2>6
    <3> HIDE DEF v
    <3>2. ASSUME NEW i \in 1 .. n PROVE v[i] \in Int
      <4> DEFINE a == jobs.length[p[i]]
      <4>1. v[i] = (n - i + 1) * a /\ a \in Nat
        BY <2>7, <3>1
      <4> HIDE DEF a
      <4> QED BY <1>4, <4>1
    <3> QED BY <3>1, <3>2
  <2>8. SumOf(Weight(jobs.length, p, 1 .. n), 1 .. n) = SumOf(v, 1 .. n)
    <3> DEFINE l == jobs.length
               J == 1 .. n
    <3>1. l \in [J -> Nat] /\ p \in [1 .. n -> J]
      BY <2>1, <2>6
    <3>2. v = [i \in 1 .. n |-> (n - i + 1) * l[p[i]]]
      BY <2>1
    <3> HIDE DEF l, J, v
    <3>3. SumOf(Weight(l, p, 1 .. n), 1 .. n) = SumOf([i \in 1 .. n |-> (n - i + 1) * l[p[i]]], 1 .. n)
      BY ONLY <1>4, <3>1, AllToRun
    <3> QED BY <3>2, <3>3 DEF l
  <2>9. SumOf(v, 1 .. n) \in Int
    <3> HIDE DEF v
    <3> QED BY <2>3, <2>11, SumSteps
  <2>10. Bound(p) = SumOf(v, 1 .. n)
    BY <1>2, <1>4, <2>2, <2>3, <2>4, <2>8, <2>9 DEF Bound
  <2> QED BY <2>5, <2>9, <2>10
<1> QED BY <1>9, <1>12, <1>13, <1>14 DEF JobInv, NoBetterOrder

LEMMA TailIs ==
    ASSUME NEW E, NEW s \in Seq(E), s # <<>>
    PROVE  /\ Tail(s) \in Seq(E) /\ Len(s) \in Nat \ {0} /\ Head(s) = s[1]
           /\ DOMAIN Tail(s) = 1 .. Len(s) - 1
           /\ \A k \in 1 .. Len(s) - 1 : Tail(s)[k] = s[k + 1]
OBVIOUS

\* The times when job j has run until now.
Ran(j, now, turned) ==
    [times EXCEPT !.response[j]   = IF @ = -1 THEN thetime ELSE @,
                  !.wait[j]       = @ + (thetime - times.lastran[j]),
                  !.turnaround[j] = turned,
                  !.lastran[j]    = now]

\* What that changes.
RanFor(new, j, now, turned) ==
    /\ new \in [response : [Jobs -> Int], turnaround : [Jobs -> Int],
                wait : [Jobs -> Int], lastran : [Jobs -> Int]]
    /\ new.lastran[j] = now
    /\ new.wait[j] = times.wait[j] + (thetime - times.lastran[j])
    /\ new.turnaround[j] = turned
    /\ \A i \in Jobs : i # j => /\ new.lastran[i] = times.lastran[i]
                                /\ new.wait[i] = times.wait[i]
                                /\ new.turnaround[i] = times.turnaround[i]

LEMMA TimesAre ==
    ASSUME JobTypes, NEW j \in Jobs, NEW now \in Nat, NEW turned \in Int
    PROVE  RanFor(Ran(j, now, turned), j, now, turned)
<1>1. times \in [response : [Jobs -> Int], turnaround : [Jobs -> Int],
                 wait : [Jobs -> Int], lastran : [Jobs -> Int]]
  BY DEF JobTypes
<1>2. /\ times.response \in [Jobs -> Int] /\ times.turnaround \in [Jobs -> Int]
      /\ times.wait \in [Jobs -> Int] /\ times.lastran \in [Jobs -> Int]
  BY <1>1
<1>6. thetime \in Int
  BY JobFacts
<1> DEFINE response == [times.response EXCEPT ![j] = IF @ = -1 THEN thetime ELSE @]
           wait     == [times.wait EXCEPT ![j] = @ + (thetime - times.lastran[j])]
           lastran  == [times.lastran EXCEPT ![j] = now]
<1>3. response \in [Jobs -> Int] /\ wait \in [Jobs -> Int] /\ lastran \in [Jobs -> Int]
      /\ lastran[j] = now /\ wait[j] = times.wait[j] + (thetime - times.lastran[j])
      /\ \A i \in Jobs : i # j => lastran[i] = times.lastran[i] /\ wait[i] = times.wait[i]
  BY <1>2, <1>6
<1> DEFINE new == Ran(j, now, turned)
<1>8. new = Ran(j, now, turned)
  OBVIOUS
<1> HIDE DEF new
<1>4. /\ new.response = response /\ new.wait = wait /\ new.lastran = lastran
      /\ new = [response |-> new.response, turnaround |-> new.turnaround,
                wait |-> new.wait, lastran |-> new.lastran]
      /\ new.turnaround = [times.turnaround EXCEPT ![j] = turned]
  BY <1>1, <1>8 DEF Ran
<1> HIDE DEF response, wait, lastran
<1>5. /\ new.turnaround \in [Jobs -> Int] /\ new.turnaround[j] = turned
      /\ \A i \in Jobs : i # j => new.turnaround[i] = times.turnaround[i]
  BY <1>2, <1>4
<1>7. /\ new \in [response : [Jobs -> Int], turnaround : [Jobs -> Int],
                   wait : [Jobs -> Int], lastran : [Jobs -> Int]]
      /\ new.lastran[j] = now
      /\ new.wait[j] = times.wait[j] + (thetime - times.lastran[j])
      /\ \A i \in Jobs : i # j => new.lastran[i] = times.lastran[i] /\ new.wait[i] = times.wait[i]
  BY <1>3, <1>4, <1>5
<1>9. RanFor(new, j, now, turned)
  BY <1>5, <1>7 DEF RanFor
<1> QED BY <1>9 DEF new

LEMMA HeadFirst ==
    ASSUME JobTypes, jobs.policy = "SJF", TurnsInOrder, runlist # <<>>, NEW k \in DOMAIN runlist
    PROVE  /\ jobs.length[runlist[k].jobnum] = runlist[k].runtime
           /\ runlist[1].runtime <= runlist[k].runtime
<1>1. DOMAIN runlist = 1 .. Len(runlist) /\ Len(runlist) \in Nat
      /\ runlist[k].jobnum \in Jobs /\ runlist[k].runtime \in Nat
      /\ jobs.length[runlist[k].jobnum] \in Nat
  BY JobFacts
<1>2. jobs.length[runlist[k].jobnum] = runlist[k].runtime
  <2>1. Had(k) = 0
    BY DEF TurnsInOrder
  <2> QED BY <1>1, <2>1 DEF Had
<1>3. CASE k = 1
  BY <1>1, <1>2, <1>3
<1>4. CASE k # 1
  <2>1. 1 \in 1 .. k - 1
    BY <1>1, <1>4
  <2> QED BY <1>2, <2>1 DEF TurnsInOrder
<1> QED BY <1>3, <1>4

\* A job that runs to its end.
LEMMA CompletesHolds ==
    ASSUME JobInv, runlist # <<>>, UNCHANGED jobs, Completes(Head(runlist))
    PROVE  JobInv'
<1> DEFINE n == Len(runlist)
           h == Head(runlist)
           j == h.jobnum
           r == h.runtime
           E == [jobnum : Jobs, runtime : Nat \ {0}]
<1>1. JobTypes /\ Accounts /\ TurnsInOrder /\ NoBetterOrder /\ jobs' = jobs
  BY DEF JobInv
<1>2. /\ runlist' = Tail(runlist) /\ thetime' = thetime + r
      /\ times' = [times EXCEPT
            !.response[j]   = IF @ = -1 THEN thetime ELSE @,
            !.wait[j]       = @ + (thetime - times.lastran[j]),
            !.turnaround[j] = thetime',
            !.lastran[j]    = thetime']
  BY DEF Completes
<1>14. thetime' = thetime + r
  BY <1>2
<1>3. /\ DOMAIN runlist = 1 .. n /\ n \in Nat \ {0} /\ h = runlist[1]
      /\ runlist' \in Seq(E) /\ DOMAIN runlist' = 1 .. n - 1
      /\ \A k \in 1 .. n - 1 : runlist'[k] = runlist[k + 1]
  <2>1. runlist \in Seq(E)
    BY <1>1 DEF JobTypes
  <2> HIDE DEF E
  <2> QED BY <1>2, <2>1, TailIs
<1>4. /\ j \in Jobs /\ r \in Nat \ {0} /\ thetime \in Nat /\ thetime' \in Nat
      /\ jobs.length[j] \in Nat
      /\ times.lastran[j] \in Int /\ times.wait[j] \in Int /\ Had(1) = jobs.length[j] - r
  <2>1. 1 \in DOMAIN runlist /\ j = runlist[1].jobnum /\ r = runlist[1].runtime
    BY <1>3
  <2>2. j \in Jobs /\ r \in Nat \ {0} /\ thetime \in Nat
    BY <1>1, <2>1, JobFacts
  <2>3. thetime' \in Nat
    BY <1>2, <2>2
  <2> QED BY <1>1, <2>1, <2>2, <2>3, JobFacts DEF Had
<1>5. /\ times' \in [response : [Jobs -> Int], turnaround : [Jobs -> Int],
                     wait : [Jobs -> Int], lastran : [Jobs -> Int]]
      /\ times'.lastran[j] = thetime'
      /\ times'.wait[j] = times.wait[j] + (thetime - times.lastran[j])
      /\ times'.turnaround[j] = thetime'
      /\ \A i \in Jobs : i # j => /\ times'.lastran[i] = times.lastran[i]
                                  /\ times'.wait[i] = times.wait[i]
                                  /\ times'.turnaround[i] = times.turnaround[i]
  <2> DEFINE new == times'
             now == thetime'
  <2>1. /\ j \in Jobs /\ now \in Nat /\ now \in Int
        /\ new = Ran(j, now, now)
    BY <1>2, <1>4 DEF Ran
  <2> HIDE DEF new, now, j, h, r
  <2>3. RanFor(Ran(j, now, now), j, now, now)
    <3>1. JobTypes /\ j \in Jobs /\ now \in Nat /\ now \in Int
      BY <1>1, <2>1
    <3> QED BY ONLY <3>1, TimesAre
  <2>4. RanFor(new, j, now, now)
    BY <2>1, <2>3
  <2> QED BY <2>4 DEF new, now, RanFor
<1>6. Jobs' = Jobs
  BY <1>1 DEF Jobs
<1>7. ASSUME NEW k \in 1 .. n - 1
      PROVE  /\ k + 1 \in 1 .. n /\ runlist'[k] = runlist[k + 1] /\ runlist[k + 1].jobnum # j
             /\ runlist[k + 1].jobnum \in Jobs /\ Had(k)' = Had(k + 1)
  <2>1. k + 1 \in 1 .. n /\ k + 1 # 1 /\ 1 \in 1 .. n
    BY <1>3
  <2>2. runlist[k + 1].jobnum # j
    <3>1. \A i, m \in DOMAIN runlist : i # m => runlist[i].jobnum # runlist[m].jobnum
      BY <1>1 DEF JobTypes
    <3> QED BY <1>3, <2>1, <3>1
  <2>3. runlist[k + 1].jobnum \in Jobs
    BY <1>1, <1>3, <2>1, JobFacts
  <2>4. Had(k)' = Had(k + 1)
    BY <1>1, <1>3 DEF Had
  <2> QED BY <1>3, <2>1, <2>2, <2>3, <2>4
<1>8. j \in Queued /\ Queued' = Queued \ {j}
  <2>1. 1 \in DOMAIN runlist
    BY <1>3
  <2>2. j \in Queued
    BY <1>3, <2>1 DEF Queued
  <2>3. \A i \in Queued' : i \in Queued \ {j}
    <3> SUFFICES ASSUME NEW k \in 1 .. n - 1 PROVE runlist'[k].jobnum \in Queued \ {j}
      BY <1>3 DEF Queued
    <3> QED BY <1>3, <1>7 DEF Queued
  <2>4. \A i \in Queued \ {j} : i \in Queued'
    <3> SUFFICES ASSUME NEW m \in 1 .. n, runlist[m].jobnum # j PROVE runlist[m].jobnum \in Queued'
      BY <1>3 DEF Queued
    <3>1. m # 1 /\ m - 1 \in 1 .. n - 1 /\ (m - 1) + 1 = m
      BY <1>3
    <3>2. runlist'[m - 1] = runlist[m]
      BY <1>3, <3>1
    <3> QED BY <1>3, <3>1, <3>2 DEF Queued
  <2> QED BY <2>2, <2>3, <2>4
<1>9. JobTypes'
  <2>1. \A k, m \in 1 .. n - 1 : k # m => runlist'[k].jobnum # runlist'[m].jobnum
    <3> SUFFICES ASSUME NEW k \in 1 .. n - 1, NEW m \in 1 .. n - 1, k # m
                 PROVE  runlist[k + 1].jobnum # runlist[m + 1].jobnum
      BY <1>7
    <3>1. k + 1 # m + 1 /\ k + 1 \in DOMAIN runlist /\ m + 1 \in DOMAIN runlist
      BY <1>3, <1>7
    <3> QED BY <1>1, <3>1 DEF JobTypes
  <2>2. /\ jobs'.policy \in Policy /\ jobs'.quantum \in Nat \ {0} /\ jobs'.length \in Seq(Nat \ {0})
        /\ thetime' \in Nat
    BY <1>1, <1>4 DEF JobTypes
  <2>3. runlist' \in Seq([jobnum : Jobs', runtime : Nat \ {0}])
    BY <1>3, <1>6
  <2>4. times' \in [response : [Jobs' -> Int], turnaround : [Jobs' -> Int],
                    wait : [Jobs' -> Int], lastran : [Jobs' -> Int]]
    BY <1>5, <1>6
  <2>5. \A k, m \in DOMAIN runlist' : k # m => runlist'[k].jobnum # runlist'[m].jobnum
    BY <1>3, <2>1
  <2> QED BY <2>2, <2>3, <2>4, <2>5 DEF JobTypes
<1>10. Accounts'
  <2>1. ASSUME NEW k \in 1 .. n - 1
        PROVE  /\ times'.lastran[runlist'[k].jobnum] = times'.wait[runlist'[k].jobnum] + Had(k)'
               /\ times'.turnaround[runlist'[k].jobnum] = 0
    <3> DEFINE i == runlist[k + 1].jobnum
    <3>1. k + 1 \in DOMAIN runlist /\ i \in Jobs /\ i # j /\ runlist'[k].jobnum = i /\ Had(k)' = Had(k + 1)
      BY <1>3, <1>7
    <3>2. times.lastran[i] = times.wait[i] + Had(k + 1) /\ times.turnaround[i] = 0
      BY <1>1, <3>1 DEF Accounts
    <3> HIDE DEF i
    <3> QED BY <1>5, <3>1, <3>2
  <2>2. ASSUME NEW i \in Jobs \ Queued'
        PROVE  /\ times'.lastran[i] = times'.wait[i] + jobs'.length[i]
               /\ times'.turnaround[i] = times'.lastran[i]
    <3>1. CASE i = j
      <4>1. times.lastran[j] = times.wait[j] + Had(1)
        BY <1>1, <1>3 DEF Accounts
      <4>2. times'.lastran[j] = times'.wait[j] + jobs.length[j]
        <5> DEFINE a == times.lastran[j]
                   b == times.wait[j]
                   c == jobs.length[j]
                   d == times'.lastran[j]
                   e == times'.wait[j]
        <5>1. a \in Int /\ b \in Int /\ c \in Int /\ r \in Int /\ thetime \in Int
          BY <1>4
        <5>2. d = thetime + r /\ e = b + (thetime - a)
          BY <1>5, <1>14
        <5>3. a = b + (c - r)
          BY <1>4, <4>1
        <5> HIDE DEF a, b, c, d, e, r
        <5>4. d = e + c
          BY <5>1, <5>2, <5>3
        <5> QED BY <5>4 DEF c, d, e
      <4> QED BY <1>1, <1>5, <3>1, <4>2
    <3>2. CASE i # j
      <4>1. i \in Jobs \ Queued
        BY <1>8, <3>2
      <4> QED BY <1>1, <1>5, <3>2, <4>1 DEF Accounts
    <3> QED BY <3>1, <3>2
  <2> QED BY <1>3, <1>6, <2>1, <2>2 DEF Accounts
<1>11. TurnsInOrder'
  <2>1. ASSUME NEW m \in 1 .. n - 1, NEW k \in 1 .. m - 1
        PROVE  /\ k \in 1 .. n - 1 /\ m + 1 \in DOMAIN runlist /\ k + 1 \in 1 .. (m + 1) - 1
    BY <1>3
  <2>2. jobs.policy = "RR" => \A m \in 1 .. n - 1 : \A k \in 1 .. m - 1 :
           Had(k)' <= Had(m)' /\ Had(m)' <= Had(k)' + jobs.quantum
    <3> SUFFICES ASSUME jobs.policy = "RR", NEW m \in 1 .. n - 1, NEW k \in 1 .. m - 1
                 PROVE  Had(k)' <= Had(m)' /\ Had(m)' <= Had(k)' + jobs.quantum
      OBVIOUS
    <3>1. Had(k)' = Had(k + 1) /\ Had(m)' = Had(m + 1)
      BY <1>7, <2>1
    <3>2. Had(k + 1) <= Had(m + 1) /\ Had(m + 1) <= Had(k + 1) + jobs.quantum
      BY <1>1, <2>1 DEF TurnsInOrder
    <3> QED BY <3>1, <3>2
  <2>3. jobs.policy # "RR" => \A k \in 1 .. n - 1 : Had(k)' = 0
    BY <1>1, <1>3, <1>7 DEF TurnsInOrder
  <2>4. jobs.policy = "SJF" => \A m \in 1 .. n - 1 : \A k \in 1 .. m - 1 :
           runlist'[k].runtime <= runlist'[m].runtime
    <3> SUFFICES ASSUME jobs.policy = "SJF", NEW m \in 1 .. n - 1, NEW k \in 1 .. m - 1
                 PROVE  runlist'[k].runtime <= runlist'[m].runtime
      OBVIOUS
    <3>1. runlist'[k] = runlist[k + 1] /\ runlist'[m] = runlist[m + 1]
      BY <1>7, <2>1
    <3>2. runlist[k + 1].runtime <= runlist[m + 1].runtime
      BY <1>1, <2>1 DEF TurnsInOrder
    <3> QED BY <3>1, <3>2
  <2> QED BY <1>1, <1>3, <2>2, <2>3, <2>4 DEF TurnsInOrder
<1>12. ASSUME jobs.policy = "SJF", NEW p \in SetToSeqs(Jobs) PROVE Bound(p)' <= TotalIn(p)
  <2> DEFINE N == Len(jobs.length)
             l == jobs.length
             P == Open(p)
  <2>1. Jobs = 1 .. N /\ N \in Nat /\ l \in [Jobs -> Nat] /\ IsFiniteSet(Jobs)
    <3>1. Jobs = 1 .. N /\ N \in Nat
      BY <1>1, JobFacts
    <3>2. l \in [Jobs -> Nat]
      <4>1. l \in Seq(Nat \ {0}) /\ Jobs = DOMAIN l
        BY <1>1 DEF JobTypes, Jobs
      <4> HIDE DEF l
      <4> QED BY <4>1
    <3> HIDE DEF N, l
    <3>3. IsFiniteSet(1 .. N)
      BY ONLY <3>1, FS_Interval
    <3> QED BY <3>1, <3>2, <3>3
  <2>2. p \in [1 .. N -> Jobs] /\ DOMAIN p = 1 .. N /\ (\A i, k \in 1 .. N : i # k => p[i] # p[k])
        /\ \A i \in Jobs : \E k \in 1 .. N : p[k] = i
    <3>1. N \in Nat /\ p \in SetToSeqs(1 .. N) /\ Jobs = 1 .. N
      BY <2>1
    <3> HIDE DEF N
    <3>2. IsOrder(p, N)
      BY ONLY <3>1, OrderIs
    <3> QED BY <3>1, <3>2 DEF IsOrder
  <2>3. PICK x \in 1 .. N : p[x] = j
    BY <1>4, <2>2
  <2>4. P \in SUBSET (1 .. N) /\ x \in P /\ Open(p)' = P \ {x}
    <3> HIDE DEF N, j
    <3>1. P = {i \in 1 .. N : p[i] \in Queued} /\ Open(p)' = {i \in 1 .. N : p[i] \in Queued'}
      BY <2>2 DEF Open
    <3>2. \A i \in 1 .. N : p[i] = j <=> i = x
      BY <2>2, <2>3
    <3> HIDE DEF P
    <3> QED BY <1>8, <2>3, <3>1, <3>2
  <2>5. l[j] = r
    BY <1>1, <1>3, <1>12, HeadFirst
  <2>6. \A i \in P : l[p[x]] <= l[p[i]]
    <3> SUFFICES ASSUME NEW i \in P PROVE r <= l[p[i]]
      BY <2>3, <2>5
    <3>1. PICK k \in DOMAIN runlist : p[i] = runlist[k].jobnum
      BY DEF Open, Queued
    <3> QED BY <1>1, <1>3, <1>12, <3>1, HeadFirst
  <2> DEFINE T == SumOf(Weight(l, p, P), P)
             U == SumOf(Weight(l, p, P \ {x}), P \ {x})
             c == Cardinality(P)
             A == SumOf(times.turnaround, Jobs)
             B == SumOf(times'.turnaround, Jobs)
  <2>7. U + r * c <= T
    <3>1. \A i \in P : l[p[x]] <= l[p[i]]
      BY <2>6
    <3>2. SumOf(Weight(l, p, P \ {x}), P \ {x}) + l[p[x]] * Cardinality(P) <= SumOf(Weight(l, p, P), P)
      <4> DEFINE J == Jobs
      <4>1. l \in [J -> Nat] /\ p \in [1 .. N -> J]
        BY <2>1, <2>2
      <4> HIDE DEF N, l, P, J, T, U, c
      <4> QED BY <2>1, <2>4, <3>1, <4>1, Shortest
    <3> QED BY <2>3, <2>5, <3>2
  <2>8. c \in Nat /\ c >= 1 /\ Cardinality(P \ {x}) = c - 1
    <3>1. IsFiniteSet(P)
      <4> HIDE DEF P, N
      <4> QED BY <2>1, <2>4, FS_Subset
    <3> HIDE DEF P
    <3>2. c \in Nat /\ Cardinality(P \ {x}) = c - 1 /\ Cardinality(P \ {x}) \in Nat
      <4>1. IsFiniteSet(P \ {x})
        BY <3>1, FS_Subset
      <4> QED BY <2>4, <3>1, <4>1, FS_CardinalityType, FS_RemoveElement
    <3> QED BY <3>2
  <2>9. B = A + (thetime + r) /\ A \in Int
    <3> DEFINE v == times.turnaround
               w == times'.turnaround
    <3>1. \A i \in Jobs : v[i] \in Int /\ (i # j => w[i] = v[i])
      BY <1>1, <1>5, JobFacts
    <3>2. v[j] = 0
      BY <1>1, <1>3 DEF Accounts
    <3>3. w[j] = thetime + r /\ w[j] \in Int
      BY <1>2, <1>4, <1>5
    <3> HIDE DEF v, w, j, r
    <3>4. SumOf(w, Jobs) = SumOf(v, Jobs) + w[j] - v[j]
      <4>1. j \in Jobs /\ w[j] \in Int /\ IsFiniteSet(Jobs)
        BY <1>4, <2>1, <3>3
      <4> QED BY <3>1, <4>1, SumChange
    <3>5. SumOf(v, Jobs) \in Int
      BY <2>1, <3>1, SumSteps
    <3>6. SumOf(w, Jobs) = SumOf(v, Jobs) + (thetime + r)
      BY <3>2, <3>3, <3>4, <3>5
    <3> QED BY <3>5, <3>6 DEF v, w
  <2>10. T \in Int /\ U \in Int
    <3>1. \A Q \in SUBSET (1 .. N) : SumOf(Weight(l, p, Q), Q) \in Int
      <4> SUFFICES ASSUME NEW Q \in SUBSET (1 .. N) PROVE SumOf(Weight(l, p, Q), Q) \in Int
        OBVIOUS
      <4> HIDE DEF N
      <4>1. IsFiniteSet(Q)
        BY <2>1, FS_Interval, FS_Subset
      <4>2. \A i \in Q : Weight(l, p, Q)[i] \in Int
        <5> SUFFICES ASSUME NEW i \in Q PROVE Weight(l, p, Q)[i] \in Int
          OBVIOUS
        <5>1. IsFiniteSet(From(Q, i))
          BY <4>1, FS_Subset DEF From
        <5>2. Cardinality(From(Q, i)) \in Nat
          BY <5>1, FS_CardinalityType
        <5>3. l[p[i]] \in Nat
          BY <2>1, <2>2
        <5>4. Weight(l, p, Q)[i] = Cardinality(From(Q, i)) * l[p[i]]
          BY <2>2 DEF Weight
        <5> DEFINE a == Cardinality(From(Q, i))
                   b == l[p[i]]
        <5>5. a \in Nat /\ b \in Nat /\ Weight(l, p, Q)[i] = a * b
          BY <5>2, <5>3, <5>4
        <5> HIDE DEF a, b
        <5> QED BY <5>5
      <4> HIDE DEF l
      <4> QED BY <4>1, <4>2, SumSteps
    <3>2. P \in SUBSET (1 .. N) /\ P \ {x} \in SUBSET (1 .. N)
      BY <2>4
    <3> HIDE DEF P, N, l
    <3> QED BY <3>1, <3>2
  <2>11. Bound(p) = A + thetime * c + T
    BY DEF Bound
  <2>12. Bound(p)' = B + (thetime + r) * (c - 1) + U
    <3>1. Bound(p)' = SumOf(times'.turnaround, Jobs') + thetime' * Cardinality(Open(p)')
                        + SumOf(Weight(jobs'.length, p, Open(p)'), Open(p)')
      BY DEF Bound, Weight
    <3> HIDE DEF P, r
    <3> QED BY <1>1, <1>2, <1>6, <2>4, <2>8, <3>1 DEF r
  <2>13. Bound(p) <= TotalIn(p)
    BY <1>1, <1>12 DEF NoBetterOrder
  <2>14. B + (thetime + r) * (c - 1) + U <= A + thetime * c + T
    <3> HIDE DEF r, c, A, B, T, U
    <3>1. (thetime + r) * (c - 1) = thetime * c + r * c - (thetime + r) /\ thetime * c \in Int /\ r * c \in Int
      <4>1. thetime \in Int /\ r \in Int /\ c \in Int
        BY <1>4, <2>8
      <4>2. /\ (thetime + r) * (c - 1) = (thetime + r) * c - (thetime + r)
            /\ thetime * c \in Int /\ r * c \in Int
        BY ONLY <4>1
      <4>3. (thetime + r) * c = thetime * c + r * c
        BY ONLY <4>1
      <4> DEFINE tc == thetime * c
                 rc == r * c
                 sc == (thetime + r) * c
                 less == (thetime + r) * (c - 1)
      <4>4. less = sc - (thetime + r) /\ sc = tc + rc /\ tc \in Int /\ rc \in Int
        BY <4>2, <4>3
      <4> HIDE DEF tc, rc, sc, less
      <4>5. less = tc + rc - (thetime + r)
        BY ONLY <4>1, <4>4
      <4> QED BY <4>4, <4>5 DEF tc, rc, less
    <3> QED BY <1>4, <2>7, <2>8, <2>9, <2>10, <3>1
  <2>15. TotalIn(p) \in Int
    <3> DEFINE v == [i \in DOMAIN p |-> (Len(p) - i + 1) * l[p[i]]]
    <3>1. IsFiniteSet(DOMAIN p)
      <4> HIDE DEF N
      <4> QED BY <2>1, <2>2, FS_Interval
    <3>2. \A i \in DOMAIN p : v[i] \in Int
      <4> SUFFICES ASSUME NEW i \in 1 .. N PROVE v[i] \in Int
        BY <2>2
      <4> DEFINE a == Len(p) - i + 1
                 b == l[p[i]]
      <4>1. b \in Nat
        BY <2>1, <2>2
      <4>2. a \in Int
        <5>1. Len(p) = N
          BY <2>1, <2>2
        <5> HIDE DEF N
        <5> QED BY <2>1, <5>1
      <4>3. v[i] = a * b
        BY <2>2
      <4> HIDE DEF a, b, v
      <4> QED BY <4>1, <4>2, <4>3
    <3>3. TotalIn(p) = SumOf(v, DOMAIN p)
      BY <3>1, TotalInIs
    <3> HIDE DEF v
    <3> QED BY <3>1, <3>2, <3>3, SumSteps
  <2>16. Bound(p) \in Int /\ Bound(p)' \in Int
    <3> HIDE DEF r, c, A, B, T, U
    <3> DEFINE a == thetime * c
               b == (thetime + r) * (c - 1)
    <3>1. a \in Int /\ b \in Int
      BY <1>4, <2>8
    <3>2. Bound(p) = A + a + T /\ Bound(p)' = B + b + U
      BY <2>11, <2>12
    <3>3. B \in Int
      BY <1>4, <2>9
    <3> HIDE DEF a, b
    <3> QED BY <2>9, <2>10, <3>1, <3>2, <3>3
  <2> QED
    <3> HIDE DEF r, c, A, B, T, U
    <3> QED BY <2>11, <2>12, <2>13, <2>14, <2>15, <2>16
<1>13. NoBetterOrder'
  <2>1. \A p : TotalIn(p)' = TotalIn(p)
    BY <1>1 DEF TotalIn, MapThenSumSet, MapThenFoldSet
  <2> QED BY <1>1, <1>6, <1>12, <2>1 DEF NoBetterOrder
<1> QED BY <1>9, <1>10, <1>11, <1>13 DEF JobInv

\* Round robin: a job that takes more than a quantum goes to the end of the list.
LEMMA PreemptedHolds ==
    ASSUME JobInv, runlist # <<>>, UNCHANGED jobs, jobs.policy = "RR",
           Head(runlist).runtime > jobs.quantum, Preempted(Head(runlist))
    PROVE  JobInv'
<1>0. PICK n \in Nat \ {0} : n = Len(runlist)
  <2>1. runlist \in Seq([jobnum : Jobs, runtime : Nat \ {0}])
    BY DEF JobInv, JobTypes
  <2> DEFINE E == [jobnum : Jobs, runtime : Nat \ {0}]
  <2> HIDE DEF E
  <2>2. runlist \in Seq(E)
    BY <2>1 DEF E
  <2> QED BY <2>2, TailIs
<1> DEFINE h == Head(runlist)
           j == h.jobnum
           r == h.runtime
           q == jobs.quantum
           last == [h EXCEPT !.runtime = @ - q]
           E == [jobnum : Jobs, runtime : Nat \ {0}]
<1>1. JobTypes /\ Accounts /\ TurnsInOrder /\ NoBetterOrder /\ jobs' = jobs
  BY DEF JobInv
<1>2. /\ runlist' = Append(Tail(runlist), last) /\ thetime' = thetime + q
      /\ times' = [times EXCEPT
            !.response[j] = IF @ = -1 THEN thetime ELSE @,
            !.wait[j]     = @ + (thetime - times.lastran[j]),
            !.lastran[j]  = thetime']
  BY DEF Preempted
<1>3. /\ DOMAIN runlist = 1 .. n /\ n \in Nat \ {0} /\ h = runlist[1] /\ h \in E /\ Tail(runlist) \in Seq(E)
      /\ Len(Tail(runlist)) = n - 1
      /\ \A k \in 1 .. n - 1 : Tail(runlist)[k] = runlist[k + 1]
  <2>1. runlist \in Seq(E)
    BY <1>1 DEF JobTypes
  <2> HIDE DEF E
  <2>2. /\ Tail(runlist) \in Seq(E) /\ n \in Nat \ {0} /\ h = runlist[1] /\ DOMAIN runlist = 1 .. n
        /\ DOMAIN Tail(runlist) = 1 .. n - 1
        /\ \A k \in 1 .. n - 1 : Tail(runlist)[k] = runlist[k + 1]
    BY <1>0, <2>1, TailIs
  <2>3. h \in E
    BY <2>1, <2>2
  <2>4. Len(Tail(runlist)) = n - 1
    BY <2>2
  <2> QED BY <2>2, <2>3, <2>4
<1>4. /\ j \in Jobs /\ r \in Nat \ {0} /\ q \in Nat \ {0} /\ r > q /\ thetime \in Nat /\ thetime' \in Nat
      /\ jobs.length[j] \in Nat
      /\ times.lastran[j] \in Int /\ times.wait[j] \in Int /\ times.turnaround[j] \in Int
      /\ Had(1) = jobs.length[j] - r
  <2>1. 1 \in DOMAIN runlist /\ j = runlist[1].jobnum /\ r = runlist[1].runtime
    BY <1>3
  <2>2. j \in Jobs /\ r \in Nat \ {0} /\ thetime \in Nat /\ q \in Nat \ {0}
    BY <1>1, <2>1, JobFacts
  <2>3. thetime' \in Nat
    BY <1>2, <2>2
  <2> QED BY <1>1, <2>1, <2>2, <2>3, JobFacts DEF Had
<1>14. thetime' = thetime + q
  BY <1>2
<1>5. /\ times' \in [response : [Jobs -> Int], turnaround : [Jobs -> Int],
                     wait : [Jobs -> Int], lastran : [Jobs -> Int]]
      /\ times'.lastran[j] = thetime'
      /\ times'.wait[j] = times.wait[j] + (thetime - times.lastran[j])
      /\ times'.turnaround[j] = times.turnaround[j]
      /\ \A i \in Jobs : i # j => /\ times'.lastran[i] = times.lastran[i]
                                  /\ times'.wait[i] = times.wait[i]
                                  /\ times'.turnaround[i] = times.turnaround[i]
  <2> DEFINE new == times'
             now == thetime'
             old == times.turnaround[j]
  <2>1. j \in Jobs /\ now \in Nat /\ old \in Int
    BY <1>4
  <2>2. new = Ran(j, now, old)
    <3>1. times \in [response : [Jobs -> Int], turnaround : [Jobs -> Int],
                     wait : [Jobs -> Int], lastran : [Jobs -> Int]]
      BY <1>1 DEF JobTypes
    <3>2. [times.turnaround EXCEPT ![j] = old] = times.turnaround
      BY <3>1
    <3> HIDE DEF h, j, r, q
    <3> QED BY <1>2, <3>1, <3>2 DEF Ran
  <2> HIDE DEF new, now, old, j, h, r, q
  <2>3. RanFor(Ran(j, now, old), j, now, old)
    <3>1. JobTypes /\ j \in Jobs /\ now \in Nat /\ old \in Int
      BY <1>1, <2>1
    <3> QED BY ONLY <3>1, TimesAre
  <2>4. RanFor(new, j, now, old)
    BY <2>2, <2>3
  <2> QED BY <2>4 DEF new, now, old, RanFor
<1>6. Jobs' = Jobs
  BY <1>1 DEF Jobs
<1>15. last \in E /\ last.jobnum = j /\ last.runtime = r - q
  <2>1. h \in [jobnum : Jobs, runtime : Nat \ {0}] /\ r - q \in Nat \ {0}
    BY <1>3, <1>4
  <2> HIDE DEF h
  <2>2. last = [jobnum |-> j, runtime |-> r - q]
    BY <2>1
  <2>3. j \in Jobs
    BY <2>1
  <2> HIDE DEF j, r, last
  <2> QED BY <2>1, <2>2, <2>3
<1>16. /\ runlist' \in Seq(E) /\ DOMAIN runlist' = 1 .. n
       /\ \A k \in 1 .. n - 1 : runlist'[k] = runlist[k + 1]
       /\ runlist'[n] = last
  <2> DEFINE t == Tail(runlist)
  <2>1. t \in Seq(E) /\ Len(t) = n - 1 /\ \A k \in 1 .. n - 1 : t[k] = runlist[k + 1]
    BY <1>3
  <2> HIDE DEF t, last, E, h, q
  <2>2. /\ Append(t, last) \in Seq(E) /\ Len(Append(t, last)) = n
        /\ \A k \in 1 .. n - 1 : Append(t, last)[k] = t[k]
        /\ Append(t, last)[n] = last
    <3>1. n \in Nat /\ (n - 1) + 1 = n
      BY <1>3
    <3> QED BY <1>15, <2>1, <3>1
  <2>3. runlist' = Append(t, last)
    BY <1>2 DEF t
  <2> QED BY <2>1, <2>2, <2>3
<1>7. ASSUME NEW k \in 1 .. n - 1
      PROVE  /\ k + 1 \in 1 .. n /\ runlist'[k] = runlist[k + 1] /\ runlist[k + 1].jobnum # j
             /\ runlist[k + 1].jobnum \in Jobs /\ Had(k)' = Had(k + 1)
  <2>1. k + 1 \in 1 .. n /\ k + 1 # 1 /\ 1 \in 1 .. n
    BY <1>3
  <2>2. runlist[k + 1].jobnum # j
    <3>1. \A i, m \in DOMAIN runlist : i # m => runlist[i].jobnum # runlist[m].jobnum
      BY <1>1 DEF JobTypes
    <3> QED BY <1>3, <2>1, <3>1
  <2>3. runlist[k + 1].jobnum \in Jobs
    BY <1>1, <1>3, <2>1, JobFacts
  <2>4. Had(k)' = Had(k + 1)
    BY <1>1, <1>16 DEF Had
  <2> QED BY <1>16, <2>1, <2>2, <2>3, <2>4
<1>17. Had(n)' = Had(1) + q /\ n \in 1 .. n /\ Had(1) \in Int /\ \A k \in 1 .. n : Had(k) \in Int
  <2>1. Had(n)' = jobs.length[j] - (r - q)
    <3> HIDE DEF h, last, q
    <3> QED BY <1>1, <1>15, <1>16 DEF Had
  <2>2. n \in 1 .. n /\ 1 \in 1 .. n
    BY <1>3
  <2>3. \A k \in 1 .. n : Had(k) \in Int
    BY <1>1, <1>3, JobFacts
  <2> HIDE DEF r, q, j
  <2>4. Had(n)' = Had(1) + q
    BY <1>4, <2>1
  <2> QED BY <2>2, <2>3, <2>4
<1>8. Queued' = Queued
  <2>1. \A i \in Queued' : i \in Queued
    <3> SUFFICES ASSUME NEW k \in 1 .. n PROVE runlist'[k].jobnum \in Queued
      BY <1>16 DEF Queued
    <3>1. CASE k = n
      <4>1. 1 \in DOMAIN runlist
        BY <1>3
      <4>2. runlist'[k].jobnum = j
        BY <1>15, <1>16, <3>1
      <4> QED BY <1>3, <4>1, <4>2 DEF Queued
    <3>2. CASE k # n
      <4>1. k \in 1 .. n - 1
        BY <1>3, <3>2
      <4> QED BY <1>3, <1>7, <4>1 DEF Queued
    <3> QED BY <3>1, <3>2
  <2>2. \A i \in Queued : i \in Queued'
    <3> SUFFICES ASSUME NEW m \in 1 .. n PROVE runlist[m].jobnum \in Queued'
      BY <1>3 DEF Queued
    <3>1. CASE m = 1
      <4>1. n \in DOMAIN runlist'
        BY <1>16, <1>17
      <4>2. runlist'[n].jobnum = runlist[m].jobnum
        BY <1>3, <1>15, <1>16, <3>1
      <4> QED BY <4>1, <4>2 DEF Queued
    <3>2. CASE m # 1
      <4>1. m - 1 \in 1 .. n - 1 /\ (m - 1) + 1 = m /\ m - 1 \in 1 .. n
        BY <1>3, <3>2
      <4>2. runlist'[m - 1] = runlist[m]
        BY <1>16, <4>1
      <4>3. m - 1 \in DOMAIN runlist'
        BY <1>16, <4>1
      <4> QED BY <4>2, <4>3 DEF Queued
    <3> QED BY <3>1, <3>2
  <2> QED BY <2>1, <2>2
<1>9. JobTypes'
  <2>1. ASSUME NEW k \in 1 .. n, NEW m \in 1 .. n, k # m PROVE runlist'[k].jobnum # runlist'[m].jobnum
    <3>1. CASE k \in 1 .. n - 1 /\ m \in 1 .. n - 1
      <4>1. k + 1 # m + 1 /\ k + 1 \in DOMAIN runlist /\ m + 1 \in DOMAIN runlist
        BY <1>3, <1>7, <2>1, <3>1
      <4>2. runlist[k + 1].jobnum # runlist[m + 1].jobnum
        BY <1>1, <4>1 DEF JobTypes
      <4> QED BY <1>16, <3>1, <4>2
    <3>2. CASE k = n
      <4>1. m \in 1 .. n - 1
        BY <1>3, <2>1, <3>2
      <4> QED BY <1>7, <1>15, <1>16, <3>2, <4>1
    <3>3. CASE m = n
      <4>1. k \in 1 .. n - 1
        BY <1>3, <2>1, <3>3
      <4> QED BY <1>7, <1>15, <1>16, <3>3, <4>1
    <3>4. k = n \/ k \in 1 .. n - 1
      BY <1>3
    <3>5. m = n \/ m \in 1 .. n - 1
      BY <1>3
    <3> QED BY <3>1, <3>2, <3>3, <3>4, <3>5
  <2>2. /\ jobs'.policy \in Policy /\ jobs'.quantum \in Nat \ {0} /\ jobs'.length \in Seq(Nat \ {0})
        /\ thetime' \in Nat
    BY <1>1, <1>4 DEF JobTypes
  <2>3. runlist' \in Seq([jobnum : Jobs', runtime : Nat \ {0}])
    BY <1>6, <1>16
  <2>4. times' \in [response : [Jobs' -> Int], turnaround : [Jobs' -> Int],
                    wait : [Jobs' -> Int], lastran : [Jobs' -> Int]]
    BY <1>5, <1>6
  <2>5. \A k, m \in DOMAIN runlist' : k # m => runlist'[k].jobnum # runlist'[m].jobnum
    BY <1>16, <2>1
  <2> QED BY <2>2, <2>3, <2>4, <2>5 DEF JobTypes
<1>10. Accounts'
  <2>1. ASSUME NEW k \in 1 .. n
        PROVE  /\ times'.lastran[runlist'[k].jobnum] = times'.wait[runlist'[k].jobnum] + Had(k)'
               /\ times'.turnaround[runlist'[k].jobnum] = 0
    <3>1. CASE k \in 1 .. n - 1
      <4> DEFINE i == runlist[k + 1].jobnum
      <4>1. k + 1 \in DOMAIN runlist /\ i \in Jobs /\ i # j /\ runlist'[k].jobnum = i /\ Had(k)' = Had(k + 1)
        BY <1>3, <1>7, <3>1
      <4>2. times.lastran[i] = times.wait[i] + Had(k + 1) /\ times.turnaround[i] = 0
        BY <1>1, <4>1 DEF Accounts
      <4> HIDE DEF i
      <4> QED BY <1>5, <4>1, <4>2
    <3>2. CASE k = n
      <4>1. 1 \in DOMAIN runlist
        BY <1>3
      <4>2. times.lastran[j] = times.wait[j] + Had(1) /\ times.turnaround[j] = 0
        BY <1>1, <1>3, <4>1 DEF Accounts
      <4>3. runlist'[k].jobnum = j /\ Had(k)' = Had(1) + q
        BY <1>15, <1>16, <1>17, <3>2
      <4> DEFINE a == times.lastran[j]
                 b == times.wait[j]
                 d == times'.lastran[j]
                 e == times'.wait[j]
                 f == Had(1)
      <4>4. a \in Int /\ b \in Int /\ f \in Int /\ q \in Int /\ thetime \in Int
        BY <1>4, <1>17
      <4>5. d = thetime + q /\ e = b + (thetime - a) /\ a = b + f
        BY <1>5, <1>14, <4>2
      <4> HIDE DEF a, b, d, e, f, q
      <4>6. d = e + (f + q)
        BY <4>4, <4>5
      <4>7. times'.lastran[j] = times'.wait[j] + (Had(1) + q)
        BY <4>6 DEF d, e, f
      <4>8. times'.turnaround[j] = 0
        BY <1>5, <4>2
      <4> QED BY <4>3, <4>7, <4>8
    <3>3. k = n \/ k \in 1 .. n - 1
      BY <1>3
    <3> QED BY <3>1, <3>2, <3>3
  <2>2. ASSUME NEW i \in Jobs \ Queued
        PROVE  /\ times'.lastran[i] = times'.wait[i] + jobs'.length[i]
               /\ times'.turnaround[i] = times'.lastran[i]
    <3>1. i # j
      <4>1. 1 \in DOMAIN runlist
        BY <1>3
      <4> QED BY <1>3, <4>1 DEF Queued
    <3> QED BY <1>1, <1>5, <3>1 DEF Accounts
  <2> QED BY <1>6, <1>8, <1>16, <2>1, <2>2 DEF Accounts
<1>11. TurnsInOrder'
  <2>1. ASSUME NEW m \in 1 .. n, NEW k \in 1 .. m - 1
        PROVE  Had(k)' <= Had(m)' /\ Had(m)' <= Had(k)' + q
    <3>1. /\ k \in 1 .. n - 1 /\ k + 1 \in 1 .. n /\ 1 \in 1 .. (k + 1) - 1
          /\ m = n \/ (m \in 1 .. n - 1 /\ m + 1 \in 1 .. n /\ k + 1 \in 1 .. (m + 1) - 1)
      BY <1>3
    <3>2. Had(k)' = Had(k + 1)
      BY <1>7, <3>1
    <3>3. Had(1) <= Had(k + 1) /\ Had(k + 1) <= Had(1) + q
      BY <1>1, <1>3, <3>1 DEF TurnsInOrder
    <3>4. Had(1) \in Int /\ Had(k + 1) \in Int /\ q \in Int
      BY <1>4, <1>17, <3>1
    <3>5. CASE m = n
      <4>1. Had(m)' = Had(1) + q
        BY <1>17, <3>5
      <4> HIDE DEF q
      <4> QED BY <3>2, <3>3, <3>4, <4>1
    <3>6. CASE m \in 1 .. n - 1 /\ m + 1 \in 1 .. n /\ k + 1 \in 1 .. (m + 1) - 1
      <4>1. Had(m)' = Had(m + 1)
        BY <1>7, <3>6
      <4>2. Had(k + 1) <= Had(m + 1) /\ Had(m + 1) <= Had(k + 1) + q
        BY <1>1, <1>3, <3>6 DEF TurnsInOrder
      <4> QED BY <3>2, <4>1, <4>2
    <3> QED BY <3>1, <3>5, <3>6
  <2>2. \A m \in 1 .. n : \A k \in 1 .. m - 1 : Had(k)' <= Had(m)' /\ Had(m)' <= Had(k)' + q
    BY <2>1
  <2> QED BY <1>1, <1>16, <2>2 DEF TurnsInOrder
<1>13. NoBetterOrder'
  BY <1>1 DEF NoBetterOrder
<1> QED BY <1>9, <1>10, <1>11, <1>13 DEF JobInv

LEMMA JobStands ==
    ASSUME JobInv, UNCHANGED jobVars PROVE JobInv'
<1>1. jobs' = jobs /\ runlist' = runlist /\ thetime' = thetime /\ times' = times
  BY DEF jobVars
<1>2. Jobs' = Jobs /\ Queued' = Queued /\ \A k : Had(k)' = Had(k)
  BY <1>1 DEF Jobs, Queued, Had
<1>3. \A p : Open(p)' = Open(p) /\ Bound(p)' = Bound(p) /\ TotalIn(p)' = TotalIn(p)
  <2>1. \A p : Open(p)' = Open(p)
    BY <1>1, <1>2 DEF Open
  <2>2. \A p : TotalIn(p)' = TotalIn(p)
    BY <1>1 DEF TotalIn, MapThenSumSet, MapThenFoldSet
  <2>3. \A p : Bound(p)' = Bound(p)
    BY <1>1, <1>2, <2>1 DEF Bound
  <2> QED BY <2>1, <2>2, <2>3
<1> QED
  BY <1>1, <1>2, <1>3 DEF JobInv, JobTypes, Accounts, TurnsInOrder, NoBetterOrder

LEMMA JobStepHolds ==
    ASSUME JobInv, RunJob PROVE JobInv'
BY CompletesHolds, PreemptedHolds DEF RunJob

-----------------------------------------------------------------------------
(* A behaviour is one of one simulator; the variables of the others stand  *)
(* still.                                                                  *)

SimInv ==
    /\ simulator = "process-run" => ProcInv
    /\ simulator = "fork" => TreeInv
    /\ simulator = "translate" => SpaceInv
    /\ simulator = "raid" => RaidInv
    /\ simulator = "malloc" => HeapInv
    /\ simulator = "schedular" => JobInv
    /\ simulator = "generator" => ForkInv
    /\ simulator = "raid-graphics" => AnimInv
    /\ IF simulator = "disk" THEN EstInv /\ (~ Precise => DiskInv) ELSE outcome = "none"
    /\ IF simulator = "paging-policy" THEN PageInv ELSE caches = None

LEMMA InitHolds == Init => SimInv
<1> SUFFICES ASSUME Init PROVE SimInv
  OBVIOUS
<1>1. IF simulator = "disk" THEN EstInv /\ (~ Precise => DiskInv) ELSE outcome = "none"
  <2>1. DiskInit => DiskInv /\ requestQueue \in Seq(OnDisk) /\ lateRequests \in Seq(OnDisk)
    BY DiskInitHolds DEF DiskInv, Lists
  <2>2. DiskInit => EstInv
    BY <2>1, EstInitHolds
  <2> QED
    BY <2>1, <2>2 DEF Init, NoDisk
<1>2. IF simulator = "paging-policy" THEN PageInv ELSE caches = None
  BY PageInitHolds DEF Init, NoPages
<1> QED
  BY <1>1, <1>2, ProcInitHolds, TreeInitHolds, SpaceInitHolds, RaidInitHolds, HeapInitHolds, JobInitHolds,
     ForkInitHolds, AnimInitHolds
     DEF Init, SimInv

LEMMA FinishedStands == Finished => UNCHANGED vars
BY DEF Finished, Only, ProcFinished, TreeFinished, DiskFinished, AnimFinished, PageFinished,
       JobsFinished, SpaceFinished, ForkFinished, vars

LEMMA StandsStill ==
    ASSUME UNCHANGED vars, SimInv PROVE SimInv'
<1>1. simulator' = simulator /\ UNCHANGED procVars /\ UNCHANGED pageVars /\ UNCHANGED treeVars
      /\ UNCHANGED spaceVars /\ UNCHANGED raidVars /\ UNCHANGED heapVars /\ UNCHANGED diskVars
      /\ UNCHANGED jobVars /\ UNCHANGED forkVars /\ UNCHANGED animVars
  BY DEF vars
<1>2. ProcInv => ProcInv'
  BY <1>1 DEF procVars, ProcInv, ProcTypes, Single, CpuUsed, Ready, WaitsForIO, WaitsInPlace, OneEach
<1>3. PageInv => PageInv'
  BY <1>1 DEF pageVars, PageInv
<1>4. TreeInv => TreeInv'
  BY <1>1 DEF treeVars, TreeInv
<1>5. HeapInv => HeapInv'
  BY <1>1 DEF heapVars, HeapInv
<1>6. outcome' = outcome /\ (DiskInv => DiskInv') /\ (EstInv => EstInv')
  BY <1>1, DiskStands, EstStands DEF diskVars
<1> QED
  BY <1>1, <1>2, <1>3, <1>4, <1>5, <1>6, SpaceStands, RaidStands, JobStands, ForkStays,
     AnimStays
     DEF SimInv, pageVars

\* A step is one of the simulator's own.
LEMMA StepHolds ==
    ASSUME SimInv, Step
    PROVE  SimInv' /\ (simulator = "process-run" => SwitchesAsAsked) /\ (simulator = "disk" => EstimateExact)
<1> DEFINE Idle == UNCHANGED pageVars /\ UNCHANGED diskVars
<1>1. ASSUME Idle PROVE UNCHANGED caches /\ UNCHANGED outcome
  BY <1>1 DEF pageVars, diskVars
<1>2. CASE Running
  <2>1. Idle /\ simulator' = simulator /\ simulator = "process-run" /\ ProcTick
    BY <1>2 DEF Running, Only
  <2> QED
    BY <1>1, <2>1, TickHolds DEF SimInv
<1>3. CASE Only("paging-policy") /\ Reference
  <2>1. UNCHANGED diskVars /\ simulator' = simulator /\ simulator = "paging-policy"
    BY <1>3 DEF Only
  <2> QED
    BY <1>3, <2>1, ReferenceHolds DEF SimInv, diskVars
<1>4. CASE Only("fork") /\ TreeStep
  <2>1. Idle /\ simulator' = simulator /\ simulator = "fork"
    BY <1>4 DEF Only
  <2> QED
    BY <1>1, <1>4, <2>1, TreeStepHolds DEF SimInv
<1>5. CASE Only("translate") /\ SpaceStep
  <2>1. Idle /\ simulator' = simulator /\ simulator = "translate"
    BY <1>5 DEF Only
  <2> QED
    BY <1>1, <1>5, <2>1, SpaceStepHolds DEF SimInv
<1>6. CASE Only("raid") /\ RaidStep
  <2>1. Idle /\ simulator' = simulator /\ simulator = "raid"
    BY <1>6 DEF Only
  <2> QED
    BY <1>1, <1>6, <2>1, RaidStepHolds DEF SimInv
<1>7. CASE Only("malloc") /\ HeapStep
  <2>1. Idle /\ simulator' = simulator /\ simulator = "malloc"
    BY <1>7 DEF Only
  <2> QED
    BY <1>1, <1>7, <2>1, HeapStepHolds DEF SimInv
<1>8. CASE Turning
  <2>1. UNCHANGED pageVars /\ simulator' = simulator /\ simulator = "disk" /\ DiskStep
    BY <1>8 DEF Turning, Only
  <2> QED
    BY <2>1, DiskStepHolds, EstStepHolds DEF SimInv, pageVars
<1>10. CASE Only("schedular") /\ RunJob
  <2>1. Idle /\ simulator' = simulator /\ simulator = "schedular"
    BY <1>10 DEF Only
  <2> QED
    BY <1>1, <1>10, <2>1, JobStepHolds DEF SimInv
<1>11. CASE Forking
  <2>1. Idle /\ simulator' = simulator /\ simulator = "generator" /\ ForkStep
    BY <1>11 DEF Forking, Only
  <2> QED
    BY <1>1, <2>1, ForkStepHolds DEF SimInv
<1>9. CASE Animating
  <2>1. Idle /\ simulator' = simulator /\ simulator = "raid-graphics" /\ AnimStep
    BY <1>9 DEF Animating, Only
  <2> QED
    BY <1>1, <2>1, AnimStepHolds DEF SimInv
<1> QED
  BY <1>2, <1>3, <1>4, <1>5, <1>6, <1>7, <1>8, <1>9, <1>10, <1>11 DEF Step

LEMMA SimInvariance == FairSpec => []SimInv
<1>1. Init => SimInv
  BY InitHolds
<1>2. SimInv /\ [Step \/ Finished]_vars => SimInv'
  BY StepHolds, FinishedStands, StandsStill
<1> QED
  BY <1>1, <1>2, PTL DEF FairSpec

\* process-run.py: no assertion of the move_to methods fails, only the current
\* process runs and who waits has an I/O in flight, no two I/Os finish at one tick,
\* and with SWITCH_ON_IO no process is ready while the cpu is idle.
THEOREM ProcessTable == FairSpec => []WorkConserving
<1>1. SimInv => WorkConserving
  BY ProcInvImplies DEF SimInv, WorkConserving
<1> QED
  BY <1>1, SimInvariance, PTL

\* process-run.py: the cpu changes hands as README:198-208 says.
THEOREM SwitchesHold == FairSpec => Switching
<1>1. SimInv /\ [Step \/ Finished]_vars => [simulator = "process-run" => SwitchesAsAsked]_vars
  BY StepHolds, FinishedStands
<1> QED
  BY <1>1, SimInvariance, PTL DEF FairSpec, Switching

\* paging-policy.py: a cache holds a page once, and CLOCK has a bit for each page in
\* memory and for no other.
THEOREM UseBits == FairSpec => []UseBitsFollowMemory
<1>1. SimInv => UseBitsFollowMemory
  <2>1. ASSUME caches = None PROVE UseBitsFollowMemory
    BY <2>1 DEF None, UseBitsFollowMemory
  <2> QED
    BY <2>1, PageInvImplies DEF SimInv
<1> QED
  BY <1>1, SimInvariance, PTL

\* paging-policy.py: no policy has fewer misses than OPT on any trace (Belady), and
\* what is in a cache with LRU is in a larger one too.
THEOREM OptIsOptimal == FairSpec => []BestPolicy
<1>1. SimInv => BestPolicy
  BY PageInvImplies DEF SimInv, BestPolicy
<1> QED
  BY <1>1, SimInvariance, PTL

\* fork.py: whoever exits, and whoever inherits its children, the processes that live
\* are a tree under the root, and the two tables agree.
THEOREM TreeHolds == FairSpec => []ProcessTree
<1>1. SimInv => ProcessTree
  BY TreeInvImplies DEF SimInv, ProcessTree
<1> QED
  BY <1>1, SimInvariance, PTL

\* The four translations, whatever the sizes and the registers that are given: no two
\* addresses share a byte, none lies in a page table, those whose place the script chose
\* or checked are in memory, and the page tables describe the pages allocated until
\* memory is full.
THEOREM TranslationsHold == FairSpec => []Translations
<1>1. SimInv => Translations
  BY SpaceInvImplies DEF SimInv, Translations
<1> QED
  BY <1>1, SimInvariance, PTL

\* raid.py: blocks, mirrors and parity have places of their own, and what a partial
\* write has read when it writes is enough for the new parity.
THEOREM ParityHolds == FairSpec => []ParityKept
<1>1. SimInv => ParityKept
  BY RaidInvImplies DEF SimInv, ParityKept
<1> QED
  BY <1>1, SimInvariance, PTL

\* malloc.py: free and allocated blocks tile the heap, and a list in address order
\* stays so, without free neighbours when it is coalesced.
THEOREM HeapHolds == FairSpec => []HeapInOrder
<1>1. SimInv => HeapInOrder
  BY HeapInvImplies DEF SimInv, HeapInOrder
<1> QED
  BY <1>1, SimInvariance, PTL

\* disk.py: when a request is chosen the window holds one that is not done, so that
\* the asserts of DoSATF and DoSSTF hold.  Of disk-precise.py that is false.
THEOREM ChoiceHolds ==
    ASSUME ~ Precise PROVE FairSpec => []ChoiceExists
<1>1. SimInv => ChoiceExists
  BY DiskInvImplies DEF SimInv, ChoiceExists
<1> QED
  BY <1>1, SimInvariance, PTL

\* disk.py: all requests are served, and none waits for more later ones than its
\* window lets pass.
THEOREM RequestsHold ==
    ASSUME ~ Precise PROVE FairSpec => []RequestsServed
<1>1. SimInv => RequestsServed
  BY DiskInvImplies DEF SimInv, RequestsServed
<1> QED
  BY <1>1, SimInvariance, PTL

\* disk.py: a request is done when DoSATF estimated it would be, but for the turn
\* that the first block is late when the head stands on its beginning.
THEOREM EstimatesHold == FairSpec => EstimatesExact
<1>1. SimInv /\ [Step \/ Finished]_vars => [simulator = "disk" => EstimateExact]_vars
  BY StepHolds, FinishedStands
<1> QED
  BY <1>1, SimInvariance, PTL DEF FairSpec, EstimatesExact

\* schedular.py: running and waiting are all of a job's time, round robin gives no
\* job more than a quantum above another, and no order of the jobs has a smaller sum
\* of turnaround times than shortest job first.
THEOREM JobTimesHold == FairSpec => []JobTimes
<1>1. SimInv => JobTimes
  BY JobInvImplies DEF SimInv, JobTimes
<1> QED
  BY <1>1, SimInvariance, PTL

\* generator.py, for any number of commands and forks: code is generated for every
\* program but one that Parser has let wait for a child before it forks it, and a
\* process that has ended has waited for all its children, whichever order they ended
\* in; no wait finds nothing or a child without a name.
THEOREM AllReapedHolds == FairSpec => []AllReaped
<1>1. SimInv => AllReaped
  BY ForkInvReaps DEF SimInv, AllReaped
<1> QED
  BY <1>1, SimInvariance, PTL

\* raid-graphics.py: the operations done and those the requests still take are always
\* what the constructor worked out, so that the animation stops when no disk is busy
\* and every request has been counted; a read takes one copy of a mirror, and what a
\* disk does is what its copy is at.
THEOREM IOsHold == FairSpec => []IOsKept
<1>1. SimInv => IOsKept
  BY AnimInvImplies DEF SimInv, IOsKept
<1> QED
  BY <1>1, SimInvariance, PTL
=============================================================================
