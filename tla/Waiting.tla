------------------------------- MODULE Waiting -------------------------------
(***************************************************************************)
(* For TLC: programs in which some wait for others.  A behaviour is one of *)
(* mutex-nostarve.c, barrier.c or the servers; the variables of the others *)
(* have a value that means nothing.                                        *)
(***************************************************************************)
EXTENDS Barrier, EventServer

VARIABLES program, room1, room2, reg, passed

NS == INSTANCE NSMutex

mutexVars == <<room1, room2, reg, passed>>
all       == <<program, semVars, dataVars, mutexVars, serverVars>>

None == <<>>

NoThreads == sem = None /\ pc = [t \in Threads |-> "none"] /\ created = 0
NoMutex   == room1 = 0 /\ room2 = 0 /\ reg = None /\ passed = None
NoBarrier == count = 0 /\ posts = None
NoServer  == /\ server = None /\ conn = None /\ clients = None
             /\ read_fds = None /\ at = None /\ slot = None

AllInit ==
    \/ program = "mutex" /\ NS!Init /\ NoBarrier /\ NoServer
    \/ program = "barrier" /\ Init /\ NoMutex /\ NoServer
    \/ program = "server" /\ ServerInit /\ NoThreads /\ NoMutex /\ NoBarrier

Only(name) ==
    /\ program = name /\ UNCHANGED program
    /\ IF name = "mutex" THEN TRUE ELSE UNCHANGED mutexVars
    /\ IF name = "barrier" THEN TRUE ELSE UNCHANGED dataVars
    /\ IF name = "server" THEN UNCHANGED semVars ELSE UNCHANGED serverVars

Main       == Only("mutex") /\ NS!MainStep
Working(t) == Only("mutex") /\ NS!worker(t)
Meeting    == Only("barrier") /\ Step
Serving    == Only("server") /\ ServerStep

AllStep ==
    \/ Main
    \/ \E t \in Threads : Working(t)
    \/ Meeting
    \/ Serving
    \/ Only("server") /\ ClientStep

AllFinished ==
    \/ Only("mutex") /\ NS!Finished
    \/ Only("barrier") /\ Finished
    \/ Only("server") /\ ServerIdle

\* The fairness of the parts: each thread of the mutex runs that always can, and
\* some thread of the barrier, whose runs are finite; a server does not stop.
\* Nothing makes a client leave or take its answers.
AllSpec ==
    /\ AllInit /\ [][AllStep \/ AllFinished]_all
    /\ WF_all(Main)
    /\ \A t \in Threads : WF_all(Working(t))
    /\ WF_all(Meeting)
    /\ WF_all(Serving)

-----------------------------------------------------------------------------
\* mutex-nostarve.c: the turnstiles are one token, and at most one thread has it.
OneToken == program = "mutex" => NS!OneToken

\* mutex-nostarve.c: no thread is overtaken more than twice by another.
BoundedBypass == program = "mutex" => NS!BoundedBypass

\* mutex-nostarve.c: who has entered room 1 gets the lock.
NoStarvation ==
    \A t \in Threads :
        program = "mutex" /\ pc[t] = "counted" ~> program = "mutex" /\ pc[t] = "working"

\* All threads of barrier.c pass and return; and so do those of mutex-nostarve.c,
\* if from some moment on none comes back.
AllEnd ==
    <>[][program = "mutex" => ~NS!Comes_back]_all => <>(program = "server" \/ AllDone)

\* server_select.c: only a full table leaves a client out.
TableHolds == program = "server" => SlotsHold

Unanswered(c) ==
    program = "server" /\ conn[c].unread /\ conn[c].link # "reset" /\ ~Stranded(c)
Remains(c) == program = "server" /\ Stays(c)

\* server_select.c and server.c: a message is answered if its client has a place in
\* the table, unless the connection is reset or a reset one ends the process;
\* server.c owes the answer only if no other client stays for ever.
Answered ==
    \A c \in Customers :
        (server = "iterative" => \A d \in Customers \ {c} : []<>~Remains(d))
            => (Unanswered(c) ~> ~Unanswered(c) \/ at = "ended")

=============================================================================
