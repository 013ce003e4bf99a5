------------------------------ MODULE RaidAnim -------------------------------
(***************************************************************************)
(* raid-graphics.py: requests to four striped or mirrored disks become     *)
(* reads and writes of the disks, which seek and transfer side by side.    *)
(* An action is one tick of Animate, with everything it calls.             *)
(*                                                                         *)
(* The script imports tkinter, so its / is the true division of Python 3:  *)
(* the row of a block may be a fraction of a row, and -m 4 and -m 5 end in *)
(* a TypeError (range of a float) before there is a request.  What the     *)
(* script has for these two levels is never reached and is not here.       *)
(***************************************************************************)
EXTENDS Integers, Sequences, SequencesExt, FiniteSets, FiniteSetsExt

CONSTANTS
    Mappings, RaidWindows, SeekSpeeds,   \* -m, -w and -S
    RaidAddrs,      \* logical addresses that are asked for
    MaxRaidReqs     \* bound: requests in the list

ASSUME AnimAssumption ==
    /\ Mappings \subseteq {0, 1}
    /\ SeekSpeeds \subseteq Int
    /\ RaidWindows \subseteq Int
    /\ RaidAddrs \subseteq Nat
    /\ MaxRaidReqs \in Nat

VARIABLES
    raidRun,        \* mapping, window and seek_speed of this run
    request_queue,  \* requests and the status of each of their parts
    disks,          \* what each disk does, for which request, and its head
    tally           \* requests counted and to count, and the window

animVars == <<raidRun, request_queue, disks, tally>>

disk_count == 4
Disks == 0 .. disk_count - 1

-----------------------------------------------------------------------------
(* Placement.  Rows are 20 high; y is where a block begins, exact for rows *)
(* of four blocks and of two.                                              *)

Row(logical, perRow) == (20 * logical) \div perRow

SetPhysicalAddress(logical) ==
    CASE raidRun.mapping = 0 -> [on |-> <<logical % 4>>, y |-> Row(logical, 4)]
      [] raidRun.mapping = 1 -> [on |-> <<2 * (logical % 2), 2 * (logical % 2) + 1>>, y |-> Row(logical, 2)]

Request(reqs, i) ==
    LET place == SetPhysicalAddress(reqs[i].logical)
    IN  [op |-> reqs[i].op, on |-> place.on, y |-> place.y,
         status |-> [k \in DOMAIN place.on |-> "NOT_STARTED"]]

\* request_count_needed: the operations the requests take on the disks.
Needed(reqs) ==
    LET writes == {i \in DOMAIN reqs : reqs[i].op = "write"}
        extra  == IF raidRun.mapping = 1 THEN 1 ELSE 0
    IN  Len(reqs) + extra * Cardinality(writes)

-----------------------------------------------------------------------------
(* Scheduling.  A state is [q |-> requests, d |-> disks, t |-> tally]; the *)
(* operators take and give sets of one state.                              *)

\* DoStripe- and DoMirrorScheduling: what part k of a request is to do next.
NextOp(r, k) == IF r.status[k] = "NOT_STARTED" THEN r.op ELSE "none"

Doing(op) == IF op = "read" THEN "DO_READ" ELSE "DO_WRITE"

\* Mutant: the other copy of a mirrored read is still to be read.
Started_both(r, k) == [r EXCEPT !.status[k] = Doing(NextOp(r, k))]

\* A mirrored read needs no second copy.
Started(r, k) ==
    LET one == raidRun.mapping = 1 /\ r.op = "read"
    IN  [r EXCEPT !.status = [j \in DOMAIN @ |-> IF j = k THEN Doing(NextOp(r, k))
                                                 ELSE IF one THEN "DONE" ELSE @[j]]]

\* StartRead, StartWrite, StartRequest, SetSeekDirection.
StartRequest(disk, r, i, op) ==
    [state |-> "SEEK", op |-> op, current |-> i, lastY |-> disk.targetY, targetY |-> r.y,
     head |-> disk.head, transfer |-> disk.transfer,
     delta |-> IF disk.head < r.y THEN raidRun.seek_speed ELSE -raidRun.seek_speed]

Part(r, d) == {k \in DOMAIN r.on : r.on[k] = d}

\* The first request of the window that has something for disk d.
ScheduleDisk(s, d) ==
    LET visible == {i \in DOMAIN s.q : s.t.window = -1 \/ i <= s.t.window}
        fits    == {i \in visible : \E k \in Part(s.q[i], d) : NextOp(s.q[i], k) # "none"}
        i == Min(fits)
        k == CHOOSE j \in Part(s.q[i], d) : TRUE
    IN  IF s.d[d].state # "NULL" \/ fits = {} THEN s
        ELSE [s EXCEPT !.q[i] = Started(s.q[i], k),
                       !.d[d] = StartRequest(@, s.q[i], i, NextOp(s.q[i], k))]

Schedule(S, d) == {ScheduleDisk(s, d) : s \in S}

GetNextIOs(s) ==
    IF s.t.request_count = s.t.needed THEN {[s EXCEPT !.t.is_done = TRUE]}
    ELSE Schedule(Schedule(Schedule(Schedule({s}, 0), 1), 2), 3)

-----------------------------------------------------------------------------
(* The end of an operation.                                                *)

\* RequestLevel0Done, RequestLevel1Done: a write of a mirror is done with both copies.
RequestDone(r, k) == [r EXCEPT !.status[k] = "DONE"]

IsDone(r) == \/ raidRun.mapping = 0
             \/ r.op = "read"
             \/ \A k \in DOMAIN r.status : r.status[k] = "DONE"

MarkDone(s, d) ==
    LET i == s.d[d].current
        r == RequestDone(s.q[i], CHOOSE k \in Part(s.q[i], d) : TRUE)
        t == [s.t EXCEPT !.request_count = @ + 1]
    IN  [q |-> [s.q EXCEPT ![i] = r],
         d |-> [s.d EXCEPT ![d].state = "NULL"],
         t |-> IF IsDone(r) THEN [t EXCEPT !.logical_requests = @ + 1,
                                           !.window = IF @ > 0 THEN @ + 1 ELSE @]
               ELSE t]

\* StartTransfer: the next row takes one tick, any other ten.
SeekArrived(disk) == disk.head = disk.targetY

StartTransfer(disk) ==
    [disk EXCEPT !.state = "XFER", !.transfer = IF disk.targetY = disk.lastY + 20 THEN 1 ELSE 10]

\* A head that has left the rows moves on and meets none of them: its position
\* stops at OffTheDisk.
OffTheDisk == 420

MoveHead(disk) ==
    [disk EXCEPT !.head = IF @ < -20 \/ @ >= OffTheDisk THEN @ ELSE @ + disk.delta]

AnimateDisk(s, d) ==
    LET disk  == IF s.d[d].state # "SEEK" THEN s.d[d]
                 ELSE IF SeekArrived(s.d[d]) THEN StartTransfer(s.d[d]) ELSE MoveHead(s.d[d])
        after == IF disk.state = "XFER" THEN [disk EXCEPT !.transfer = @ - 1] ELSE disk
        moved == [s EXCEPT !.d[d] = after]
    IN  IF after.state = "XFER" /\ after.transfer = 0 THEN UNION {GetNextIOs(x) : x \in {MarkDone(moved, d)}}
        ELSE {moved}

Turn(S, d) == UNION {AnimateDisk(s, d) : s \in S}

-----------------------------------------------------------------------------
Requests == UNION {[1 .. n -> [op : {"read", "write"}, logical : RaidAddrs]] : n \in 1 .. MaxRaidReqs}

AnimInit ==
    /\ raidRun \in [mapping : Mappings, window : RaidWindows, seek_speed : SeekSpeeds]
    /\ \E reqs \in Requests :
         /\ request_queue = [i \in DOMAIN reqs |-> Request(reqs, i)]
         /\ tally = [request_count |-> 0, needed |-> Needed(reqs), logical_requests |-> 0,
                     window |-> raidRun.window, started |-> FALSE, is_done |-> FALSE]
    /\ disks = [d \in Disks |-> [state |-> "NULL", op |-> "none", current |-> 0, lastY |-> -20,
                                 targetY |-> -20, head |-> 0, transfer |-> -1, delta |-> 0]]

Result(S) == \E s \in S : request_queue' = s.q /\ disks' = s.d /\ tally' = s.t

Now == [q |-> request_queue, d |-> disks, t |-> tally]

\* The key s.
StartAnimation ==
    /\ ~tally.started
    /\ Result(GetNextIOs([Now EXCEPT !.t.started = TRUE]))
    /\ UNCHANGED raidRun

AnimateDisks ==
    /\ tally.started /\ ~tally.is_done
    /\ Result(Turn(Turn(Turn(Turn({Now}, 0), 1), 2), 3))
    /\ UNCHANGED raidRun

AnimStep == StartAnimation \/ AnimateDisks

AnimFinished == tally.is_done /\ UNCHANGED animVars

AnimSpec == AnimInit /\ [][AnimStep \/ AnimFinished]_animVars /\ WF_animVars(AnimStep)

-----------------------------------------------------------------------------
Busy(i) == {d \in Disks : disks[d].state # "NULL" /\ disks[d].current = i}

\* Operations a request still takes: one for a read, whichever copy is taken.
ToDo(r) ==
    LET left == {k \in DOMAIN r.status : r.status[k] # "DONE"}
    IN  IF r.op = "read" /\ left # {} THEN 1 ELSE Cardinality(left)

\* Every operation is counted once: those done and those to come are what the
\* constructor worked out, so that the animation ends exactly when every request
\* has done all its reads and writes.
IOsCounted ==
    /\ tally.needed = tally.request_count
                        + MapThenSumSet(LAMBDA i : ToDo(request_queue[i]), DOMAIN request_queue)
    /\ tally.is_done => /\ tally.logical_requests = Len(request_queue)
                        /\ \A d \in Disks : disks[d].state = "NULL"

\* A read keeps one disk busy, and a disk that is busy does what its part of the
\* request is at: assert(self.status[index] == REQ_DO_WRITE).
CopiesAgree ==
    \A i \in DOMAIN request_queue :
        /\ request_queue[i].op = "read" => \A d, e \in Busy(i) : d = e
        /\ \A d \in Busy(i), k \in DOMAIN request_queue[i].on :
               request_queue[i].on[k] = d => request_queue[i].status[k] = Doing(disks[d].op)

\* The head, which starts at 0, can stand exactly where each request begins.
RowsAreReached ==
    \A i \in DOMAIN request_queue : request_queue[i].y % raidRun.seek_speed = 0

\* "check if done: if so, print stats and end animation" (raid-graphics.py:759).
AnimationEnds == <>tally.is_done
=============================================================================
