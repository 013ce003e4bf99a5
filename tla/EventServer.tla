----------------------------- MODULE EventServer -----------------------------
(***************************************************************************)
(* server_select.c, which keeps its clients in a table and asks select     *)
(* which of them are ready, and server.c, which talks to one client until  *)
(* it leaves.  A client connects once, sends a message when its last one   *)
(* has been read, takes its answers when it likes, and may leave at any    *)
(* time, also before it is accepted.  When it leaves with an answer that   *)
(* it has not taken, or an answer comes after it has left, the connection  *)
(* is reset.  Errors of select and accept are left out.                    *)
(***************************************************************************)
EXTENDS Integers, Sequences, SequencesExt, FiniteSets, FiniteSetsExt

CONSTANTS
    Customers,
    MAX_CLIENT,
    charMax       \* the table is of type char, and this its largest value

server_fd == 3

\* The descriptors of as many clients as the table has slots fit a char.
ASSUME ServerAssumption ==
    /\ IsFiniteSet(Customers)
    /\ MAX_CLIENT \in Nat \ {0} /\ charMax \in Nat
    /\ server_fd + MAX_CLIENT <= charMax

VARIABLES
    server,       \* "select" or "iterative"
    conn,         \* connections: state, descriptor, a message or an answer not
                  \* read, and whether the client is up, has left or has reset it
    clients,      \* the table
    read_fds,
    at, slot      \* what the server does next, and with which slot

serverVars == <<server, conn, clients, read_fds, at, slot>>

ServerInit ==
    /\ server \in {"select", "iterative"}
    /\ conn = [c \in Customers |-> [state |-> "away", fd |-> 0, unread |-> FALSE,
                                   answer |-> FALSE, link |-> "up"]]
    /\ clients = [i \in 1 .. MAX_CLIENT |-> 0]
    /\ read_fds = {}
    /\ at = IF server = "select" THEN "select" ELSE "accept"
    /\ slot = 1

-----------------------------------------------------------------------------
(* The clients.                                                            *)

Connect(c) == conn[c].state = "away" /\ conn' = [conn EXCEPT ![c].state = "queued"]

Connected(c) == conn[c].state \in {"queued", "open"} /\ conn[c].link = "up"

Send(c) == Connected(c) /\ ~conn[c].unread /\ conn' = [conn EXCEPT ![c].unread = TRUE]

Take(c) == Connected(c) /\ conn[c].answer /\ conn' = [conn EXCEPT ![c].answer = FALSE]

Leave(c) ==
    /\ Connected(c)
    /\ conn' = [conn EXCEPT ![c].link = IF conn[c].answer THEN "reset" ELSE "left",
                            ![c].answer = FALSE]

ClientStep ==
    /\ at # "ended"
    /\ \E c \in Customers : Connect(c) \/ Send(c) \/ Take(c) \/ Leave(c)
    /\ UNCHANGED <<server, clients, read_fds, at, slot>>

-----------------------------------------------------------------------------
(* Sockets: a new one has the lowest free descriptor, and one is readable  *)
(* when there is a message, an end or an error to read.                    *)

Open     == {c \in Customers : conn[c].state = "open"}
Queued   == {c \in Customers : conn[c].state = "queued"}
new_fd   == Min((server_fd + 1 .. server_fd + Cardinality(Customers)) \ {conn[c].fd : c \in Open})
Readable == {c \in Open : conn[c].unread \/ conn[c].link # "up"}

AsChar(fd) == IF fd > charMax THEN fd - 2 * (charMax + 1) ELSE fd

\* What a read finds.  A reset may throw away the message that came before it, and
\* its error may be reported once or at every read.
Found(c) ==
    {r \in {"message", "end", "error"} :
        /\ r = "message" => conn[c].unread
        /\ r = "end" => ~conn[c].unread /\ conn[c].link # "up"
        /\ r = "error" => conn[c].link = "reset"}

\* Mutant: the socket of a client that has left stays open.
Close_leaks(c) == conn' = conn

Close(c) == conn' = [conn EXCEPT ![c].state = "closed", ![c].fd = 0]

\* The read message is answered with send.  A client that has left resets the
\* connection; on one that is reset, send fails, or SIGPIPE ends the process.
Answer(c, next) ==
    /\ conn' = [conn EXCEPT ![c].unread = FALSE,
                            ![c].answer = conn[c].link = "up",
                            ![c].link = IF @ = "up" THEN "up" ELSE "reset"]
    /\ at' \in {next} \cup (IF conn[c].link = "reset" THEN {"ended"} ELSE {})

select ==
    /\ at = "select"
    /\ read_fds' = (IF Queued # {} THEN {server_fd} ELSE {})
                     \cup {conn[c].fd : c \in {d \in Readable : conn[d].fd \in ToSet(clients)}}
    /\ read_fds' # {}
    /\ at' = "accept"
    /\ UNCHANGED <<server, conn, clients, slot>>

\* The first free slot, if there is one.
Stored(fd) ==
    LET free == {i \in DOMAIN clients : clients[i] = 0}
    IN  IF free = {} THEN clients ELSE [clients EXCEPT ![Min(free)] = AsChar(fd)]

\* Mutant: a connection is accepted whether or not one is there.
accept_blocks ==
    /\ at = "accept"
    /\ \E c \in Queued :
         /\ conn' = [conn EXCEPT ![c].state = "open", ![c].fd = new_fd]
         /\ clients' = IF server = "select" THEN Stored(new_fd) ELSE clients
    /\ at' = IF server = "select" THEN "serve" ELSE "read"
    /\ UNCHANGED <<server, read_fds, slot>>

accept ==
    /\ at = "accept"
    /\ IF server = "select" /\ server_fd \notin read_fds THEN UNCHANGED <<conn, clients>>
       ELSE \E c \in Queued :
              /\ conn' = [conn EXCEPT ![c].state = "open", ![c].fd = new_fd]
              /\ clients' = IF server = "select" THEN Stored(new_fd) ELSE clients
    /\ at' = IF server = "select" THEN "serve" ELSE "read"
    /\ UNCHANGED <<server, read_fds, slot>>

\* One slot of the table.  Only the end of a connection frees it: an error is
\* answered like a message.
serve ==
    LET next == IF slot = MAX_CLIENT THEN "select" ELSE "serve" IN
    /\ at = "serve"
    /\ IF clients[slot] \notin read_fds THEN at' = next /\ UNCHANGED <<conn, clients>>
       ELSE \E c \in {d \in Open : conn[d].fd = clients[slot]} :
              \/ /\ "end" \in Found(c)
                 /\ Close(c) /\ clients' = [clients EXCEPT ![slot] = 0] /\ at' = next
              \/ /\ Found(c) \cap {"message", "error"} # {}
                 /\ Answer(c, next) /\ UNCHANGED clients
    /\ slot' = IF slot = MAX_CLIENT THEN 1 ELSE slot + 1
    /\ UNCHANGED <<server, read_fds>>

\* The inner loop of server.c, which an error ends like the end of a connection.
serveOne ==
    /\ at = "read"
    /\ \E c \in Readable :
         \/ "message" \in Found(c) /\ Answer(c, "read")
         \/ Found(c) \cap {"end", "error"} # {} /\ Close(c) /\ at' = "accept"
    /\ UNCHANGED <<server, clients, read_fds, slot>>

ServerStep == select \/ accept \/ serve \/ serveOne

\* The process has ended, or nobody has anything to say and the server waits.
ServerIdle ==
    /\ at # "serve"
    /\ at = "ended" \/ \A c \in Customers : conn[c].state = "closed" \/ conn[c].link # "up"
    /\ UNCHANGED serverVars

ServerSpec == ServerInit /\ [][ServerStep \/ ClientStep \/ ServerIdle]_serverVars

-----------------------------------------------------------------------------
\* A connection that found no slot: it is neither served nor closed.
Stranded(c) == server = "select" /\ conn[c].state = "open" /\ conn[c].fd \notin ToSet(clients)

\* A client that does not leave.
Stays(c) == conn[c].state = "open" /\ conn[c].link = "up"

\* Only a full table strands a client; and because it was full, the clients in the
\* table always have the lowest descriptors, which fit a char.
SlotsHold ==
    /\ \A c \in Customers : Stranded(c) => conn[c].fd > server_fd + MAX_CLIENT
    /\ \A i \in DOMAIN clients : clients[i] # 0 =>
         /\ clients[i] \in server_fd + 1 .. server_fd + MAX_CLIENT
         /\ \A j \in DOMAIN clients : clients[i] = clients[j] => i = j
=============================================================================
