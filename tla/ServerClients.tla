---------------------------- MODULE ServerClients ----------------------------
(***************************************************************************)
(* The connections of node/TcpManagementServer.cpp: one thread accepts,    *)
(* one thread per connection reads and answers, the broadcaster writes     *)
(* what Monitors are owed, and a fourth thread stops the server.  A socket *)
(* is closed by whoever comes first; closing it wakes the thread that is   *)
(* blocked on it.  Telemetry and the drain thread are in ManagementServer. *)
(***************************************************************************)
EXTENDS Naturals, Sequences, FiniteSets, SequencesExt

CONSTANTS
    Clients,     \* connections, each made once
    RoleOf,      \* the role a client says hello as
    MaxClients,  \* the values of MAX_CLIENTS to try, 32 in the code
    QueueLimit,  \* MAX_MONITOR_CONTROL_QUEUE
    Requests,    \* bound on the requests of each connection
    NoClient,    \* none of the clients
    Deaf         \* clients that may cease to read

LimitAssumption ==
    /\ MaxClients \subseteq Nat \ {0} /\ QueueLimit \in Nat \ {0}
    /\ Requests \in [Clients -> Nat]
    /\ RoleOf \in [Clients -> {"Manager", "Monitor"}]
    /\ Deaf \subseteq Clients /\ NoClient \notin Clients

VARIABLES
    running,   \* m_bRunning
    listening, \* m_nListenSocket is open
    backlog,   \* connections not accepted yet
    acceptor,  \* the accept thread and the connection it holds
    socket,    \* per client, the server's side: "none", "open", "closed"
    peer,      \* per client, its own side: "away", "here", "deaf", "left"
    inbox,     \* frames sent and not received
    role,      \* per client, m_nRole once the hello is in, else "none"
    thread,    \* the thread of each connection
    queue,     \* m_deqMonitorControlQueue
    writer,    \* the broadcaster and the answer it writes
    asked,     \* per client, requests sent
    replies,   \* per client, answers written to it
    stopper,   \* where stop() stands
    limit      \* MAX_CLIENTS

vars == <<running, listening, backlog, acceptor, socket, peer, inbox, role, thread,
          queue, writer, asked, replies, stopper, limit>>

clientVars == <<socket, inbox, role, thread>>

Idle == [at |-> "waits", client |-> NoClient, n |-> 0]
Ended == [Idle EXCEPT !.at = "ended"]
Asleep == [at |-> "none", n |-> 0]
Reading == [at |-> "reads", n |-> 0]

Init ==
    /\ running = TRUE /\ listening = TRUE
    /\ backlog = <<>> /\ acceptor = Idle
    /\ socket = [c \in Clients |-> "none"] /\ peer = [c \in Clients |-> "away"]
    /\ inbox = [c \in Clients |-> <<>>] /\ role = [c \in Clients |-> "none"]
    /\ thread = [c \in Clients |-> Asleep]
    /\ queue = <<>> /\ writer = Idle
    /\ asked = [c \in Clients |-> 0] /\ replies = [c \in Clients |-> <<>>]
    /\ stopper = "none" /\ limit \in MaxClients

-----------------------------------------------------------------------------
(***************************************************************************)
(* The clients.                                                            *)
(***************************************************************************)
ClientConnects(c) ==
    /\ peer[c] = "away" /\ listening
    /\ peer' = [peer EXCEPT ![c] = "here"] /\ backlog' = Append(backlog, c)
    /\ UNCHANGED <<running, listening, acceptor, clientVars, queue, writer, asked, replies, stopper>>

\* The hello comes first; a stranger may send anything.
ClientSends(c, f) ==
    /\ peer[c] \in {"here", "deaf"}
    /\ f.kind = "ask" => f.n = asked[c] + 1 /\ f.n <= Requests[c]
    /\ f.kind # "ask" => Requests[c] > 0 /\ asked[c] = 0 /\ inbox[c] = <<>> /\ role[c] = "none"
    /\ inbox' = [inbox EXCEPT ![c] = Append(@, f)]
    /\ asked' = [asked EXCEPT ![c] = IF f.kind = "ask" THEN f.n ELSE @]
    /\ UNCHANGED <<running, listening, backlog, acceptor, socket, peer, role, thread,
                   queue, writer, replies, stopper>>

ClientFallsDeaf(c) ==
    /\ c \in Deaf /\ peer[c] = "here" /\ peer' = [peer EXCEPT ![c] = "deaf"]
    /\ UNCHANGED <<running, listening, backlog, acceptor, clientVars, queue, writer,
                   asked, replies, stopper>>

ClientLeaves(c) ==
    /\ peer[c] \in {"here", "deaf"} /\ peer' = [peer EXCEPT ![c] = "left"]
    /\ UNCHANGED <<running, listening, backlog, acceptor, clientVars, queue, writer,
                   asked, replies, stopper>>

-----------------------------------------------------------------------------
(***************************************************************************)
(* acceptLoop.                                                             *)
(***************************************************************************)
Open == {c \in Clients : socket[c] = "open"}

\* accept() returns a connection, which is kept while the server runs, or
\* fails because the socket was closed.
AcceptReturns ==
    /\ acceptor.at = "waits"
    /\ IF ~running \/ ~listening THEN acceptor' = Ended /\ UNCHANGED backlog
       ELSE /\ backlog # <<>> /\ backlog' = Tail(backlog)
            /\ acceptor' = [Idle EXCEPT !.at = "adds", !.client = Head(backlog)]
    /\ UNCHANGED <<running, listening, clientVars, peer, queue, writer, asked, replies, stopper>>

HasRoom == Cardinality(Open) < limit

\* Under m_mtxClients: the connection and its thread are added together.
AcceptAdds ==
    /\ acceptor.at = "adds" /\ acceptor' = Idle
    /\ LET c == acceptor.client
       IN IF HasRoom
          THEN /\ socket' = [socket EXCEPT ![c] = IF running THEN "open" ELSE "closed"]
               /\ thread' = [thread EXCEPT ![c].at = IF running THEN "reads" ELSE "ended"]
          ELSE socket' = [socket EXCEPT ![c] = "closed"] /\ UNCHANGED thread
    /\ UNCHANGED <<running, listening, backlog, peer, inbox, role, queue, writer,
                   asked, replies, stopper>>

-----------------------------------------------------------------------------
(***************************************************************************)
(* clientLoop and bHandleFrame: one frame at a time, answered before the   *)
(* next is read.                                                           *)
(***************************************************************************)
\* The end of clientLoop closes the socket.
LeavesLoop(c) ==
    /\ thread' = [thread EXCEPT ![c] = [at |-> "ended", n |-> 0]]
    /\ socket' = [socket EXCEPT ![c] = "closed"]

\* The head of the loop tests m_bRunning; then recv() blocks.
Continues(c) ==
    IF running THEN thread' = [thread EXCEPT ![c] = Reading] /\ UNCHANGED socket
    ELSE LeavesLoop(c)

\* recv() fails on a closed socket and returns 0 once the peer has left.
ReadFails(c) ==
    /\ thread[c].at = "reads"
    /\ socket[c] = "closed" \/ (inbox[c] = <<>> /\ peer[c] = "left")
    /\ LeavesLoop(c)
    /\ UNCHANGED <<running, listening, backlog, acceptor, peer, inbox, role,
                   queue, writer, asked, replies, stopper>>

ReadFrame(c) ==
    /\ thread[c].at = "reads" /\ socket[c] = "open" /\ inbox[c] # <<>>
    /\ inbox' = [inbox EXCEPT ![c] = Tail(@)]
    /\ LET f == Head(inbox[c])
       IN IF role[c] = "none" /\ f.kind = "hello"
          THEN role' = [role EXCEPT ![c] = RoleOf[c]] /\ Continues(c)
          ELSE /\ UNCHANGED role
               /\ IF role[c] = "none" THEN LeavesLoop(c)
                  ELSE /\ thread' = [thread EXCEPT ![c] = [at |-> "answers", n |-> f.n]]
                       /\ UNCHANGED socket
    /\ UNCHANGED <<running, listening, backlog, acceptor, peer, queue, writer,
                   asked, replies, stopper>>

\* A write fails on a closed socket or to a peer that has left.
CanWrite(c) == socket[c] = "open" /\ peer[c] # "left"

Wrote(c, n) == replies' = [replies EXCEPT ![c] = Append(@, n)]

(***************************************************************************)
(* bSendControlMessage: a Manager is answered by this thread, within       *)
(* SO_SNDTIMEO; the answers to a Monitor go through the broadcaster.       *)
(***************************************************************************)
AnswerManager(c) ==
    /\ thread[c].at = "answers" /\ role[c] = "Manager"
    /\ IF CanWrite(c) /\ peer[c] # "deaf"
       THEN Wrote(c, thread[c].n) /\ Continues(c)
       ELSE LeavesLoop(c) /\ UNCHANGED replies
    /\ UNCHANGED <<running, listening, backlog, acceptor, peer, inbox, role,
                   queue, writer, asked, stopper>>

\* Defect: the thread of a Monitor writes past the queue.
AnswerMonitorDirectly(c) ==
    /\ thread[c].at = "answers" /\ role[c] = "Monitor"
    /\ \/ CanWrite(c) /\ Wrote(c, thread[c].n) /\ UNCHANGED queue
       \/ UNCHANGED replies /\ queue' = Append(queue, [client |-> c, n |-> thread[c].n])
    /\ Continues(c)
    /\ UNCHANGED <<running, listening, backlog, acceptor, peer, inbox, role,
                   writer, asked, stopper>>

AnswerMonitor(c) ==
    /\ thread[c].at = "answers" /\ role[c] = "Monitor"
    /\ IF Len(queue) < QueueLimit
       THEN /\ queue' = Append(queue, [client |-> c, n |-> thread[c].n])
            /\ Continues(c)
       ELSE LeavesLoop(c) /\ UNCHANGED queue
    /\ UNCHANGED <<running, listening, backlog, acceptor, peer, inbox, role,
                   writer, asked, replies, stopper>>

-----------------------------------------------------------------------------
(***************************************************************************)
(* monitorBroadcastLoop, the control messages.  The write has no timeout:  *)
(* it waits for a peer that does not read.                                 *)
(***************************************************************************)
WriterTakes ==
    /\ writer.at = "waits" /\ running /\ queue # <<>>
    /\ writer' = [at |-> "writes", client |-> Head(queue).client, n |-> Head(queue).n]
    /\ queue' = Tail(queue)
    /\ UNCHANGED <<running, listening, backlog, acceptor, clientVars, peer, asked, replies, stopper>>

WriterWrites ==
    /\ writer.at = "writes" /\ writer' = Idle
    /\ IF CanWrite(writer.client)
       THEN peer[writer.client] # "deaf" /\ Wrote(writer.client, writer.n) /\ UNCHANGED socket
       ELSE socket' = [socket EXCEPT ![writer.client] = "closed"] /\ UNCHANGED replies
    /\ UNCHANGED <<running, listening, backlog, acceptor, peer, inbox, role, thread, queue,
                   asked, stopper>>

WriterEnds ==
    /\ writer.at = "waits" /\ ~running /\ writer' = Ended
    /\ UNCHANGED <<running, listening, backlog, acceptor, clientVars, peer, queue, asked,
                   replies, stopper>>

-----------------------------------------------------------------------------
(***************************************************************************)
(* stop().                                                                 *)
(***************************************************************************)
StopBegins ==
    /\ stopper = "none" /\ stopper' = "listening"
    /\ running' = FALSE
    /\ UNCHANGED <<listening, backlog, acceptor, clientVars, peer, queue, writer, asked, replies>>

StopClosesListener ==
    /\ stopper = "listening" /\ stopper' = "acceptor"
    /\ queue' = <<>> /\ listening' = FALSE
    /\ UNCHANGED <<running, backlog, acceptor, clientVars, peer, writer, asked, replies>>

AcceptorGone == acceptor.at = "ended"

\* Defect: the sockets are left to the threads that read them.
StopClosesNoClient ==
    /\ stopper = "acceptor" /\ AcceptorGone /\ stopper' = "threads"
    /\ UNCHANGED <<running, listening, backlog, acceptor, clientVars, peer, queue,
                   writer, asked, replies>>

\* The accept thread is joined first, so that no connection is missed.
StopClosesClients ==
    /\ stopper = "acceptor" /\ AcceptorGone /\ stopper' = "threads"
    /\ socket' = [c \in Clients |-> IF socket[c] = "open" THEN "closed" ELSE socket[c]]
    /\ UNCHANGED <<running, listening, backlog, acceptor, inbox, role, thread, peer, queue,
                   writer, asked, replies>>

ThreadsGone == writer = Ended /\ \A c \in Clients : thread[c].at \in {"none", "ended"}

StopJoinsThreads ==
    /\ stopper = "threads" /\ ThreadsGone /\ stopper' = "done"
    /\ queue' = <<>>
    /\ UNCHANGED <<running, listening, backlog, acceptor, clientVars, peer, writer, asked, replies>>

-----------------------------------------------------------------------------
Frames ==
    {[kind |-> "hello", n |-> 0], [kind |-> "junk", n |-> 0]}
        \cup {[kind |-> "ask", n |-> n] : n \in UNION {1 .. Requests[c] : c \in Clients}}

ClientNext ==
    \E c \in Clients :
        \/ ClientConnects(c) \/ (\E f \in Frames : ClientSends(c, f))
        \/ ClientFallsDeaf(c) \/ ClientLeaves(c)

AcceptNext == AcceptReturns \/ AcceptAdds

ThreadNext(c) ==
    ReadFails(c) \/ ReadFrame(c) \/ AnswerManager(c) \/ AnswerMonitor(c)

WriterNext == WriterTakes \/ WriterWrites \/ WriterEnds

StopNext == StopClosesListener \/ StopClosesClients \/ StopJoinsThreads

Fixed == UNCHANGED limit

Next ==
    /\ Fixed
    /\ \/ ClientNext \/ AcceptNext \/ (\E c \in Clients : ThreadNext(c)) \/ WriterNext
       \/ StopBegins \/ StopNext

Spec == Init /\ [][Next]_vars

\* The threads of the server run; when to connect, ask or stop is up to others.
Fairness ==
    /\ WF_vars(AcceptNext /\ Fixed) /\ WF_vars(WriterNext /\ Fixed) /\ WF_vars(StopNext /\ Fixed)
    /\ \A c \in Clients : WF_vars(ThreadNext(c) /\ Fixed)

FairSpec == Spec /\ Fairness

-----------------------------------------------------------------------------
\* Types, and no more connections at a time than the limit.
TypeOK ==
    /\ running \in BOOLEAN /\ listening \in BOOLEAN
    /\ acceptor.at \in {"waits", "adds", "ended"}
    /\ socket \in [Clients -> {"none", "open", "closed"}]
    /\ role \in [Clients -> {"Manager", "Monitor", "none"}]
    /\ Len(queue) <= QueueLimit
    /\ Cardinality(Open) <= limit

(***************************************************************************)
(* The answers of a connection are the answers to its first requests, in   *)
(* their order, none twice and none left out, though two threads and a     *)
(* queue may be between a request and its answer.                          *)
(***************************************************************************)
AnswersInOrder == \A c \in Clients : replies[c] = [i \in 1 .. Len(replies[c]) |-> i]

(***************************************************************************)
(* When stop() has returned, no thread of the server is left: the comment  *)
(* in acceptLoop asks the server to own connections and threads so that    *)
(* stop can close every socket and collect every thread.                   *)
(***************************************************************************)
NoThreadOutlivesStop ==
    stopper = "done" => /\ acceptor = Ended /\ writer = Ended
                        /\ \A c \in Clients : thread[c].at \in {"none", "ended"}
                        /\ Open = {}

\* stop() returns, whatever clients do: also one that reads nothing while
\* the broadcaster writes to it.
StopReturns == stopper # "none" ~> stopper = "done"
=============================================================================
