----------------------------- MODULE FileTransfer -----------------------------
(***************************************************************************)
(* A file on its way from the Manager to a PC node: the endpoint of        *)
(* gui/manager/ManagerNetworkController.cpp with its connection and its    *)
(* upload, the TCP connections, and the node's clients with their upload   *)
(* sessions and preparation threads                                        *)
(* (gui/pc_node/PcNodeNetworkController.cpp, algorithm/FileUploadSession). *)
(*                                                                         *)
(* An upload is named by its request; its chain id, unique to the          *)
(* preparation, names it as well.  Each side handles one event at a time.  *)
(***************************************************************************)
EXTENDS Naturals, Sequences, FiniteSets

CONSTANTS
    MaxRequests,       \* uploads the Manager may be asked for, in this order
    Chunks,         \* chunks of a file
    ChunkSize,      \* bytes of a chunk frame, in units of a control frame
    BacklogLimit,   \* MAXIMUM_FILE_UPLOAD_SOCKET_BACKLOG, in the same units
    EndReserve,     \* FILE_UPLOAD_END_FRAME_RESERVE
    MaxConnections, \* bound on connections
    MaxStops        \* bound on stopping the node

SizesAssumption ==
    /\ MaxRequests \in Nat /\ MaxConnections \in Nat /\ Chunks \in Nat \ {0}
    /\ EndReserve \in Nat \ {0} /\ ChunkSize \in Nat \ {0}
    /\ BacklogLimit \in Nat /\ BacklogLimit >= ChunkSize + EndReserve

Links == 1 .. MaxConnections
NoLink == 0
NoRequest == 0

VARIABLES
    state,      \* stateConnection of the endpoint
    socket,     \* the connection of the endpoint, or NoLink
    upload,     \* optFileUpload: [req, next], req = NoRequest for none
    asked,      \* uploads asked for so far
    answered,   \* requests the Manager has an answer to
    open,       \* connections not yet closed
    buffer,     \* buffer[k]: frames in the write buffer of connection k
    wire,       \* wire[k]: frames on their way to the node
    back,       \* back[k]: answers on their way to the Manager
    used,       \* connections used so far
    client,     \* client[k]: the node's state for connection k
    thread,     \* thread[k]: the preparation thread of that client
    nodeUp,     \* m_bRunning of the node
    runtimeUp,  \* the runtime has not been stopped since the node started
    taken,      \* files the runtime was given: <<request, data>>
    stops

managerVars == <<state, socket, upload, asked, answered, used>>
linkVars == <<open, buffer, wire, back>>
nodeVars == <<client, thread, nodeUp, runtimeUp, taken, stops>>
vars == <<managerVars, linkVars, nodeVars>>

Hello == [frame |-> "hello", req |-> NoRequest, index |-> 0]
Begin(r) == [frame |-> "begin", req |-> r, index |-> 0]
Chunk(r, i) == [frame |-> "chunk", req |-> r, index |-> i]
End(r) == [frame |-> "end", req |-> r, index |-> Chunks]

\* What the socket still has to write (QTcpSocket::bytesToWrite).
Count(s, kinds) == Cardinality({i \in DOMAIN s : s[i].frame \in kinds})

Bytes(s) == ChunkSize * Count(s, {"chunk"}) + Count(s, {"hello", "begin", "end"})

NoUpload == [req |-> NoRequest, next |-> 1]
NoSession == [active |-> FALSE, req |-> NoRequest, next |-> 1, data |-> <<>>]
NewClient == [at |-> "none", hello |-> FALSE, session |-> NoSession, preparing |-> FALSE]
NoThread == [at |-> "none", req |-> NoRequest, data |-> <<>>, ok |-> FALSE]

Init ==
    /\ state = "Disconnected" /\ socket = NoLink /\ upload = NoUpload
    /\ asked = 0 /\ answered = {} /\ used = 0
    /\ open = {} /\ buffer = [k \in Links |-> <<>>]
    /\ wire = [k \in Links |-> <<>>] /\ back = [k \in Links |-> <<>>]
    /\ client = [k \in Links |-> NewClient] /\ thread = [k \in Links |-> NoThread]
    /\ nodeUp = TRUE /\ runtimeUp = TRUE /\ taken = {} /\ stops = 0

-----------------------------------------------------------------------------
(***************************************************************************)
(* bPumpFileUpload: chunks while the buffer has room, then the end frame.  *)
(* The result is the buffer and the upload that remain.                    *)
(***************************************************************************)
RoomForChunk(bytes) == bytes = 0 \/ bytes + ChunkSize <= BacklogLimit

\* Of the chunks that are left, those that find room one after the other.
Fitting(bytes, left) ==
    CHOOSE n \in 0 .. left :
        /\ \A m \in 0 .. left : m < n => RoomForChunk(bytes + m * ChunkSize)
        /\ n = left \/ ~RoomForChunk(bytes + n * ChunkSize)

Pumped(b, u) ==
    IF u.req = NoRequest THEN [buffer |-> b, upload |-> u]
    ELSE LET n == Fitting(Bytes(b), Chunks + 1 - u.next)
             filled == b \o [i \in 1 .. n |-> Chunk(u.req, u.next + i - 1)]
         IN IF u.next + n <= Chunks \/ Bytes(filled) > BacklogLimit - EndReserve
            THEN [buffer |-> filled, upload |-> [u EXCEPT !.next = @ + n]]
            ELSE [buffer |-> Append(filled, End(u.req)), upload |-> NoUpload]

\* connectEndpoint
Connect ==
    /\ state = "Disconnected" /\ used < MaxConnections
    /\ used' = used + 1
    /\ socket' = used + 1 /\ state' = "Connecting"
    /\ UNCHANGED <<upload, asked, answered, linkVars, nodeVars>>

\* The connected handler sends CLIENT_HELLO; the status requests are left out.
Established ==
    /\ state = "Connecting" /\ nodeUp
    /\ state' = "Connected"
    /\ open' = open \cup {socket}
    /\ buffer' = [buffer EXCEPT ![socket] = <<Hello>>]
    /\ client' = [client EXCEPT ![socket].at = "connected"]
    /\ UNCHANGED <<socket, upload, asked, answered, used, wire, back,
                   thread, nodeUp, runtimeUp, taken, stops>>

\* The disconnected and errorOccurred handlers of the current socket.
EndpointReset ==
    /\ state' = "Disconnected" /\ socket' = NoLink /\ upload' = NoUpload
    /\ UNCHANGED <<asked, answered, used>>

ConnectFails ==
    /\ state = "Connecting"
    /\ EndpointReset
    /\ UNCHANGED <<linkVars, nodeVars>>

\* A broken link, an abort by checkOfflineNodes, an invalid frame.
LinkLost ==
    /\ state = "Connected"
    /\ EndpointReset
    /\ open' = open \ {socket}
    /\ buffer' = [buffer EXCEPT ![socket] = <<>>]
    /\ back' = [back EXCEPT ![socket] = <<>>]
    /\ UNCHANGED <<wire, nodeVars>>

\* disconnectAll lets go of the socket before its handlers can run, and so
\* of the socket only.
DisconnectAll ==
    /\ state # "Disconnected"
    /\ state' = "Disconnected" /\ socket' = NoLink
    /\ open' = open \ {socket}
    /\ buffer' = [buffer EXCEPT ![socket] = <<>>]
    /\ back' = [back EXCEPT ![socket] = <<>>]
    /\ UNCHANGED <<upload, asked, answered, used, wire, nodeVars>>

\* bQueueFileUpload; a refused call changes nothing.
QueueFileUpload ==
    /\ asked < MaxRequests
    /\ asked' = asked + 1
    /\ IF state # "Connected" \/ upload.req # NoRequest
       THEN UNCHANGED <<upload, buffer>>
       ELSE LET r == asked + 1
                p == Pumped(Append(buffer[socket], Begin(r)), [req |-> r, next |-> 1])
            IN buffer' = [buffer EXCEPT ![socket] = p.buffer] /\ upload' = p.upload
    /\ UNCHANGED <<state, socket, answered, used, open, wire, back, nodeVars>>

\* The first frame leaves the buffer; bytesWritten pumps.
BytesWritten ==
    /\ state = "Connected" /\ buffer[socket] # <<>>
    /\ wire' = [wire EXCEPT ![socket] = Append(@, Head(buffer[socket]))]
    /\ LET p == Pumped(Tail(buffer[socket]), upload)
       IN buffer' = [buffer EXCEPT ![socket] = p.buffer] /\ upload' = p.upload
    /\ UNCHANGED <<state, socket, asked, answered, used, open, back, nodeVars>>

\* An answer to a request, told to the authentication controller.
ManagerReads ==
    /\ state = "Connected" /\ back[socket] # <<>>
    /\ answered' = answered \cup {Head(back[socket]).req}
    /\ back' = [back EXCEPT ![socket] = Tail(@)]
    /\ UNCHANGED <<state, socket, upload, asked, used, open, buffer, wire, nodeVars>>

-----------------------------------------------------------------------------
(***************************************************************************)
(* FileUploadSession.  A step that throws has the client's handler reset   *)
(* the session and answer with a refusal.                                  *)
(***************************************************************************)
Began(s, f) == [active |-> TRUE, req |-> f.req, next |-> 1, data |-> <<>>]

InOrder(s, f) == s.active /\ f.req = s.req /\ f.index = s.next /\ s.next <= Chunks

\* Defect: a chunk is put before those already received.
AppendedInFront(s, f) == [s EXCEPT !.next = @ + 1, !.data = <<<<f.req, f.index>>>> \o @]

Appended(s, f) == [s EXCEPT !.next = @ + 1, !.data = Append(@, <<f.req, f.index>>)]

Whole(s, f) == s.active /\ f.req = s.req /\ f.index = s.next - 1 /\ Len(s.data) = Chunks

Ack(r, ok) == [req |-> r, ok |-> ok]

Sends(k, m) == back' = [back EXCEPT ![k] = IF k \in open THEN Append(@, m) ELSE @]

\* An error answer names no request, so no one waits for it.
Complain(k) == UNCHANGED back

OnHello(k, f) ==
    IF f.frame = "hello"
    THEN client' = [client EXCEPT ![k].hello = TRUE] /\ UNCHANGED <<back, thread>>
    ELSE client' = [client EXCEPT ![k].at = "leaving"] /\ Complain(k) /\ UNCHANGED thread

OnBegin(k, f) ==
    IF client[k].preparing \/ client[k].session.active
    THEN /\ client' = [client EXCEPT ![k].session = NoSession]
         /\ Sends(k, Ack(f.req, FALSE)) /\ UNCHANGED thread
    ELSE /\ client' = [client EXCEPT ![k].session = Began(@, f)]
         /\ UNCHANGED <<back, thread>>

OnChunk(k, f) ==
    IF client[k].preparing THEN Complain(k) /\ UNCHANGED <<client, thread>>
    ELSE IF InOrder(client[k].session, f)
    THEN client' = [client EXCEPT ![k].session = Appended(@, f)] /\ UNCHANGED <<back, thread>>
    ELSE client' = [client EXCEPT ![k].session = NoSession] /\ Complain(k) /\ UNCHANGED thread

\* A whole file goes to a new thread; the one before it is joined.
OnEnd(k, f) ==
    IF client[k].preparing
    THEN Sends(k, Ack(f.req, FALSE)) /\ UNCHANGED <<client, thread>>
    ELSE IF Whole(client[k].session, f)
    THEN /\ client' = [client EXCEPT ![k].session = NoSession, ![k].preparing = TRUE]
         /\ thread' = [thread EXCEPT ![k] = [at |-> "running", req |-> f.req,
                                             data |-> client[k].session.data, ok |-> FALSE]]
         /\ UNCHANGED back
    ELSE /\ client' = [client EXCEPT ![k].session = NoSession]
         /\ Sends(k, Ack(f.req, FALSE)) /\ UNCHANGED thread

\* bHandleClientFrame and bHandleJson
NodeReads(k) ==
    /\ client[k].at = "connected" /\ wire[k] # <<>>
    /\ LET f == Head(wire[k])
       IN IF ~client[k].hello THEN OnHello(k, f)
          ELSE \/ f.frame = "begin" /\ OnBegin(k, f)
               \/ f.frame = "chunk" /\ OnChunk(k, f)
               \/ f.frame = "end" /\ OnEnd(k, f)
    /\ wire' = [wire EXCEPT ![k] = Tail(@)]
    /\ UNCHANGED <<managerVars, open, buffer, nodeUp, runtimeUp, taken, stops>>

\* msgApplyFilePayload on the preparation thread, then a call posted back.
ThreadApplies(k) ==
    /\ thread[k].at = "running"
    /\ taken' = taken \cup {<<thread[k].req, thread[k].data>>}
    /\ \E ok \in BOOLEAN : thread' = [thread EXCEPT ![k].at = "posted", ![k].ok = ok]
    /\ UNCHANGED <<managerVars, linkVars, client, nodeUp, runtimeUp, stops>>

\* Defect: the posted call answers successes only.
ThreadAnswersSuccess(k) ==
    /\ thread[k].at = "posted"
    /\ thread' = [thread EXCEPT ![k] = NoThread]
    /\ IF client[k].at = "none" THEN UNCHANGED <<client, back>>
       ELSE /\ client' = [client EXCEPT ![k].preparing = FALSE]
            /\ IF thread[k].ok THEN Sends(k, Ack(thread[k].req, TRUE)) ELSE UNCHANGED back
    /\ UNCHANGED <<managerVars, open, buffer, wire, nodeUp, runtimeUp, taken, stops>>

\* The posted call: nothing happens for a client that is gone.
ThreadAnswers(k) ==
    /\ thread[k].at = "posted"
    /\ thread' = [thread EXCEPT ![k] = NoThread]
    /\ IF client[k].at = "none" THEN UNCHANGED <<client, back>>
       ELSE /\ client' = [client EXCEPT ![k].preparing = FALSE]
            /\ Sends(k, Ack(thread[k].req, thread[k].ok))
    /\ UNCHANGED <<managerVars, open, buffer, wire, nodeUp, runtimeUp, taken, stops>>

(***************************************************************************)
(* The disconnected handler of the node takes the client out of the map;   *)
(* its state lives on until the socket is deleted by the event loop, whose *)
(* destructor joins the thread.                                            *)
(***************************************************************************)
ClientLeaves(k) ==
    /\ client[k].at = "leaving" \/ (client[k].at = "connected" /\ k \notin open /\ wire[k] = <<>>)
    /\ client' = [client EXCEPT ![k].at = "removed"]
    /\ open' = open \ {k}
    /\ buffer' = [buffer EXCEPT ![k] = <<>>] /\ wire' = [wire EXCEPT ![k] = <<>>]
    /\ back' = [back EXCEPT ![k] = <<>>]
    /\ IF socket = k THEN EndpointReset ELSE UNCHANGED managerVars
    /\ UNCHANGED <<thread, nodeUp, runtimeUp, taken, stops>>

SocketDeleted(k) ==
    /\ client[k].at = "removed" /\ thread[k].at # "running"
    /\ client' = [client EXCEPT ![k] = NewClient]
    /\ UNCHANGED <<managerVars, linkVars, thread, nodeUp, runtimeUp, taken, stops>>

(***************************************************************************)
(* stop() of the node: each abort runs the disconnected handler at once,   *)
(* so the map is empty when the threads in it are joined, and the runtime  *)
(* is stopped.  A client that is still in the map would be joined here.    *)
(***************************************************************************)
StillInMap == {}

NodeStops ==
    /\ nodeUp /\ stops < MaxStops
    /\ \A k \in StillInMap : thread[k].at # "running"
    /\ nodeUp' = FALSE /\ runtimeUp' = FALSE /\ stops' = stops + 1
    /\ client' = [k \in Links |-> IF client[k].at \in {"connected", "leaving"}
                                  THEN [client[k] EXCEPT !.at = "removed"] ELSE client[k]]
    /\ open' = {}
    /\ buffer' = [k \in Links |-> <<>>] /\ wire' = [k \in Links |-> <<>>]
    /\ back' = [k \in Links |-> <<>>]
    /\ IF socket \in open THEN EndpointReset ELSE UNCHANGED managerVars
    /\ UNCHANGED <<thread, taken>>

NodeStarts ==
    /\ ~nodeUp
    /\ nodeUp' = TRUE /\ runtimeUp' = TRUE
    /\ UNCHANGED <<managerVars, linkVars, client, thread, taken, stops>>

-----------------------------------------------------------------------------
ManagerNext ==
    Connect \/ Established \/ ConnectFails \/ LinkLost \/ DisconnectAll
        \/ QueueFileUpload \/ BytesWritten \/ ManagerReads

NodeNext ==
    \/ \E k \in Links : \/ NodeReads(k) \/ ThreadApplies(k) \/ ThreadAnswers(k)
                        \/ ClientLeaves(k) \/ SocketDeleted(k)
    \/ NodeStops \/ NodeStarts

Next == ManagerNext \/ NodeNext

Spec == Init /\ [][Next]_vars

\* Sockets are written and read, threads run; connecting is up to people.
Fairness ==
    /\ WF_vars(BytesWritten) /\ WF_vars(ManagerReads)
    /\ \A k \in Links : WF_vars(NodeReads(k)) /\ WF_vars(ThreadApplies(k)) /\ WF_vars(ThreadAnswers(k))

FairSpec == Spec /\ Fairness

-----------------------------------------------------------------------------
\* Types; one request names one upload on at most one connection.
TypeOK ==
    /\ state \in {"Disconnected", "Connecting", "Connected"} /\ socket \in Links \cup {NoLink}
    /\ (state = "Disconnected") = (socket = NoLink)
    /\ upload.req \in 0 .. asked /\ upload.next \in 1 .. Chunks + 1
    /\ answered \subseteq 1 .. asked /\ open \subseteq 1 .. used
    /\ \A k \in Links : /\ client[k].at \in {"none", "connected", "leaving", "removed"}
                        /\ thread[k].at \in {"none", "running", "posted"}
                        /\ client[k].session.next = Len(client[k].session.data) + 1
                        /\ thread[k].at = "running" => client[k].preparing

\* However chunks, end frames and new uploads mix in the write buffer, the
\* frames the pump puts there stay within the backlog limit; control frames
\* are on top of it.
BacklogBounded ==
    \A k \in Links :
        ChunkSize * Count(buffer[k], {"chunk"}) + Count(buffer[k], {"end"}) <= BacklogLimit

\* What a preparation thread hands to the runtime is the whole file of one
\* upload in its order, whatever connections came and went while an older
\* upload was still being pumped.
AcceptedUploadIsWhole ==
    \A t \in taken : t[2] = [i \in 1 .. Chunks |-> <<t[1], i>>]

\* An upload whose connection lives on is answered, with success or with a
\* refusal: the preparation of a round does not wait for it for ever.
NoUploadLeftUnanswered ==
    \A r \in 1 .. MaxRequests :
        (upload.req = r /\ state = "Connected") ~> (r \in answered \/ state # "Connected" \/ ~nodeUp)

=============================================================================
