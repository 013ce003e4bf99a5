------------------------------- MODULE DiskSim -------------------------------
(***************************************************************************)
(* disk.py: a disk with three tracks, an arm, a rotating surface, and the  *)
(* policies that choose the next request.  Angles are in degrees, and      *)
(* rotateSpeed divides 360 and the angle at which each block begins.  An   *)
(* action is one tick of Animate, with everything it calls.                *)
(*                                                                         *)
(* disk-precise.py is the same program with Decimal numbers, but for the   *)
(* operators that test Precise.                                            *)
(***************************************************************************)
EXTENDS Integers, Sequences, SequencesExt, FiniteSets

CONSTANTS
    Precise,       \* disk-precise.py instead of disk.py
    Geometries,    \* -z, -o, -R and -S of the disks
    Windows,       \* -w
    MaxRequests,   \* bound: requests of -a
    MaxLate        \* bound: requests of -L

\* The blocks of a track with the given zone.
BlocksIn(zone) == (359 \div (2 * (zone \div 2))) + 1

ASSUME DiskAssumption ==
    /\ Precise \in BOOLEAN
    /\ \A g \in Geometries :
         /\ g.zoning \in [1 .. 3 -> Nat \ {0, 1}]
         /\ g.blocks \subseteq 0 .. BlocksIn(g.zoning[1]) + BlocksIn(g.zoning[2]) + BlocksIn(g.zoning[3]) - 1
    /\ Windows \subseteq (Nat \ {0}) \cup {-1}
    /\ MaxRequests \in Nat \ {0}
    /\ MaxLate \in Nat

\* A block and what lies between blocks are a number of ticks of a disk, and so is
\* a step from track to track; blocks of one size fill a track.
ASSUME AngleAssumption ==
    \A g \in Geometries :
      /\ g.skew \in Int
      /\ g.rotateSpeed \in Nat \ {0} /\ 360 % g.rotateSpeed = 0
      /\ g.seekSpeed \in Nat \ {0} /\ 40 % g.seekSpeed = 0
      /\ \A k \in 1 .. 3 :
           LET half == g.zoning[k] \div 2
           IN  /\ half < 180 /\ 360 % (2 * half) = 0
               /\ (2 * half) % g.rotateSpeed = 0 /\ (180 - half) % g.rotateSpeed = 0

VARIABLES
    disk,           \* the options of this run
    requestQueue,   \* the block of each request
    requestState,
    lateRequests,   \* requests that have not been added
    requestCount,   \* requests that are done
    currWindow,
    drive,          \* current request, state, arm, and when each phase began
    angle,
    timer,
    outcome         \* of the simulation

diskVars == <<disk, requestQueue, requestState, lateRequests, requestCount, currWindow,
              drive, angle, timer, outcome>>

-----------------------------------------------------------------------------
(* Zones and block layout: blocks are numbered from the outer track in.    *)

Tracks     == 0 .. 2
trackWidth == 40

Apart(x, y) == IF x > y THEN x - y ELSE y - x

blockAngleOffset(track) == disk.zoning[track + 1] \div 2

BlocksOn(track) == BlocksIn(disk.zoning[track + 1])

tracksBegin(track) == CASE track = 0 -> 0
                        [] track = 1 -> BlocksOn(0)
                        [] track = 2 -> BlocksOn(0) + BlocksOn(1)

tracksEnd(track) == tracksBegin(track) + BlocksOn(track) - 1

blockToTrackMap(b) == CHOOSE t \in Tracks : b \in tracksBegin(t) .. tracksEnd(t)

\* The middle of the block; 180 is where the arm stands.
blockToAngleMap(b) ==
    LET t == blockToTrackMap(b)
    IN  (2 * blockAngleOffset(t) * (b - tracksBegin(t) + t * disk.skew) + 180) % 360

Begins(b) == (blockToAngleMap(b) - blockAngleOffset(blockToTrackMap(b))) % 360
Ends(b)   == (blockToAngleMap(b) + blockAngleOffset(blockToTrackMap(b))) % 360

-----------------------------------------------------------------------------
(* Scheduling: st, count, win and d are the states of the requests, how    *)
(* many are done, the window and the drive when the choice is made.        *)

Undone(st, indices) == {i \in indices : st[i] # "DONE"}

Distance(d, b) == Apart(d.armTrack, blockToTrackMap(b))

SeekTicks(d, b) == (trackWidth \div disk.seekSpeed) * Distance(d, b)

\* Mutant: the disk does not turn while the arm moves.
angleAtArrival_still(d, a, b) == a

angleAtArrival(d, a, b) == a + SeekTicks(d, b) * disk.rotateSpeed

\* Seek, rotation and transfer, each times rotateSpeed.
totalEst(d, a, b) ==
    SeekTicks(d, b) * disk.rotateSpeed
      + ((Begins(b) - angleAtArrival(d, a, b)) % 360)
      + 2 * blockAngleOffset(blockToTrackMap(b))

\* The first of the lowest estimates, a set of one.
DoSATF(d, a, indices) ==
    LET est == [i \in indices |-> totalEst(d, a, requestQueue[i])]
    IN  {i \in indices : \A j \in indices : est[i] < est[j] \/ (est[i] = est[j] /\ i <= j)}

\* Of the requests that are not done, those on the nearest track.
DoSSTF(d, indices) ==
    {i \in indices : \A j \in indices :
        Distance(d, requestQueue[i]) <= Distance(d, requestQueue[j])}

fairWindow == IF disk.policy = "BSATF" THEN disk.window ELSE -1

\* Mutant: a window that stays where it is.
UpdateWindow_stays(win) == win

UpdateWindow(win) ==
    IF fairWindow = -1 /\ win > 0 /\ win < Len(requestQueue) THEN win + 1 ELSE win

\* disk-precise.py does not let the window pass the end of the queue.
CapWindow(win) == IF Precise /\ win > Len(requestQueue) THEN Len(requestQueue) ELSE win

\* Mutant: the window moves with every request.
GetWindow_always(win, count) ==
    IF fairWindow # -1 /\ count > 0 THEN CapWindow(win + fairWindow) ELSE win

GetWindow(win, count) ==
    IF fairWindow # -1 /\ count > 0 /\ count % fairWindow = 0
    THEN CapWindow(win + fairWindow) ELSE win

\* The requests a policy looks at; -1 is the whole queue.
Candidates(count, win) ==
    {i \in 1 .. Len(requestQueue) :
        IF disk.policy = "FIFO" THEN i = count + 1 ELSE win = -1 \/ i <= win}

\* disk-precise.py subtracts 360.0 from a Decimal when the arm arrives after the
\* head has passed 360.
Unsubtractable(d, a, indices) ==
    Precise /\ \E i \in indices : angleAtArrival(d, a, requestQueue[i]) > 360

PlanSeek(d, i, a, t) ==
    LET track == blockToTrackMap(requestQueue[i])
        plan  == [d EXCEPT !.index = i, !.seekBegin = t, !.est = totalEst(d, a, requestQueue[i])]
    IN  IF track = d.armTrack THEN [plan EXCEPT !.state = "ROTATE", !.rotBegin = t]
        ELSE [plan EXCEPT !.state = "SEEK", !.armTarget = track]

\* The special case of Animate: the next block begins where this one ends.
StaysInTransfer(b, next, track) ==
    /\ blockToTrackMap(b) = blockToTrackMap(next)
    /\ \/ b = tracksEnd(track) /\ next = tracksBegin(track)
       \/ next = b + 1

\* PlanSeek for request i, the special case, and AddRequest.
Serve(i, st, d, a, t) ==
    LET plan  == PlanSeek(d, i, a, t)
        stays == d.index # 0 /\ StaysInTransfer(requestQueue[d.index], requestQueue[i], d.armTrack)
        next  == IF stays THEN [plan EXCEPT !.state = "XFER", !.rotBegin = t, !.xferBegin = t] ELSE plan
        added == IF lateRequests = <<>> THEN <<>> ELSE <<Head(lateRequests)>>
    IN  /\ drive' = next
        /\ requestState' = [st EXCEPT ![i] = next.state] \o [k \in DOMAIN added |-> "NULL"]
        /\ requestQueue' = requestQueue \o added
        /\ lateRequests' = SubSeq(lateRequests, 2, Len(lateRequests))

GetNextIO(st, count, win, d, a, t) ==
    \E w \in {IF disk.policy = "FIFO" THEN win ELSE GetWindow(win, count)} :
    \E ready \in {Undone(st, Candidates(count, w))} :
    \E near \in {IF disk.policy = "SSTF" THEN DoSSTF(d, ready) ELSE ready} :
        /\ outcome' = IF count = Len(requestQueue) THEN "done"
                      ELSE IF near = {} THEN "assertion failed"
                      ELSE IF Unsubtractable(d, a, near) THEN "TypeError"
                      ELSE "running"
        /\ currWindow' = IF outcome' = "done" THEN win ELSE w
        /\ IF outcome' = "running"
           THEN \E i \in DoSATF(d, a, near) : Serve(i, st, d, a, t)
           ELSE /\ drive' = d
                /\ requestState' = st
                /\ UNCHANGED <<requestQueue, lateRequests>>

-----------------------------------------------------------------------------
Policies == {"FIFO", "SSTF", "SATF", "BSATF"}

DiskInit ==
    \E g \in Geometries, policy \in Policies, window \in Windows :
        /\ disk = [policy |-> policy, window |-> window, zoning |-> g.zoning, skew |-> g.skew,
                   rotateSpeed |-> g.rotateSpeed, seekSpeed |-> g.seekSpeed]
        /\ requestQueue \in UNION {[1 .. n -> g.blocks] : n \in 1 .. MaxRequests}
        /\ lateRequests \in UNION {[1 .. n -> g.blocks] : n \in 0 .. MaxLate}
        /\ requestState = [i \in DOMAIN requestQueue |-> "NULL"]
        /\ requestCount = 0
        /\ currWindow = window
        /\ drive = [state |-> "NULL", index |-> 0, armTrack |-> 0, armTarget |-> 0, armX |-> 0,
                    seekBegin |-> 0, rotBegin |-> 0, xferBegin |-> 0, est |-> 0]
        /\ angle = 0
        /\ timer = 0
        /\ outcome = "ready"

\* Go: the first request is chosen before the first tick.
Go ==
    /\ outcome = "ready"
    /\ GetNextIO(requestState, 0, currWindow, drive, 0, 0)
    /\ UNCHANGED <<disk, requestCount, angle, timer>>

\* DoneWithSeek: the arm moves, and has arrived when it is on its target.
DoneWithSeek(d, t) ==
    LET x == d.armX + (IF d.armTarget > d.armTrack THEN disk.seekSpeed ELSE -disk.seekSpeed)
    IN  IF x = d.armTarget * trackWidth
        THEN [d EXCEPT !.armX = x, !.armTrack = d.armTarget, !.state = "ROTATE", !.rotBegin = t]
        ELSE [d EXCEPT !.armX = x]

RadiallyCloseTo(a1, a2) == Apart(a1, a2) < disk.rotateSpeed

DoneWithRotation(d, a, t) ==
    IF RadiallyCloseTo(a, Begins(requestQueue[d.index]))
    THEN [d EXCEPT !.state = "XFER", !.xferBegin = t] ELSE d

DoneWithTransfer(d, a) == d.state = "XFER" /\ RadiallyCloseTo(a, Ends(requestQueue[d.index]))

\* What the state machine of Animate makes of the drive before it looks whether
\* the transfer is done.
Moved(d, a, t) ==
    LET seeked == IF d.state = "SEEK" THEN DoneWithSeek(d, t) ELSE d
    IN  IF seeked.state = "ROTATE" THEN DoneWithRotation(seeked, a, t) ELSE seeked

Animate ==
    /\ outcome = "running"
    /\ timer' = timer + 1
    /\ angle' = IF angle + disk.rotateSpeed >= 360 THEN 0 ELSE angle + disk.rotateSpeed
    /\ \E d \in {Moved(drive, angle', timer')} :
         IF DoneWithTransfer(d, angle')
         THEN /\ requestCount' = requestCount + 1
              /\ GetNextIO([requestState EXCEPT ![d.index] = "DONE"], requestCount + 1,
                           UpdateWindow(currWindow), [d EXCEPT !.state = "DONE"], angle', timer')
         ELSE /\ drive' = d
              /\ requestState' = [requestState EXCEPT ![d.index] = d.state]
              /\ UNCHANGED <<requestQueue, lateRequests, requestCount, currWindow, outcome>>
    /\ UNCHANGED disk

DiskStep == Go \/ Animate

DiskFinished == outcome \notin {"ready", "running"} /\ UNCHANGED diskVars

DiskSpec == DiskInit /\ [][DiskStep \/ DiskFinished]_diskVars

-----------------------------------------------------------------------------
Served == {i \in DOMAIN requestState : requestState[i] = "DONE"}

\* The asserts of DoSATF and DoSSTF: whenever a choice is made, the window has
\* moved far enough to hold a request that is not done.
ChoiceExists == outcome # "assertion failed"

\* Every request is served once, those added late too, and requests wait for
\* those before them as the policy promises: FIFO serves them in order, BSATF
\* "only moves onto the next window of requests when all requests in the current
\* window have been serviced" (answer.md:51), and a window of w lets at most
\* w - 1 earlier ones wait.
ServedInOrder ==
    /\ requestCount = Cardinality(Served)
    /\ outcome = "done" => Served = DOMAIN requestQueue /\ lateRequests = <<>>
    /\ disk.policy = "FIFO" => \A i \in Served : i <= requestCount
    /\ disk.window # -1 =>
         \A i \in Served : \A j \in 1 .. i - 1 :
            \/ requestState[j] = "DONE"
            \/ IF disk.policy = "BSATF"
               THEN (i - 1) \div disk.window = (j - 1) \div disk.window
               ELSE i < requestCount + disk.window

\* The first block, when the head stands on its beginning at time 0, is found to
\* be so a turn later ("XXX there is a weird bug in here", disk.py:426).
UnderTheHead == drive.seekBegin = 0 /\ drive.rotBegin = 0 /\ Begins(requestQueue[drive.index]) = 0

\* What DoSATF estimates is what the request takes; disk.py:687 compares them in
\* a comment ("INTERNAL ERROR: estimate was").
EstimateExact ==
    requestCount' > requestCount =>
        (timer' - drive.seekBegin) * disk.rotateSpeed = drive.est + (IF UnderTheHead THEN 360 ELSE 0)
=============================================================================
