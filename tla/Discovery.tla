------------------------------ MODULE Discovery ------------------------------
(***************************************************************************)
(* How the Manager finds a node and notices that it is gone: presence      *)
(* datagrams of a node (node/UdpDiscoveryService for a UAV,                *)
(* gui/pc_node and gui/attack_test for the other two roles) and the        *)
(* endpoint the Manager keeps for it                                       *)
(* (gui/manager/ManagerNetworkController.cpp).                             *)
(*                                                                         *)
(* One node of any role and one Manager.  Datagrams get lost, at most      *)
(* MaxLosses in a row; a datagram that is not lost arrives before the next *)
(* unit of time.  Times are ages, so no clock has to be bounded.           *)
(***************************************************************************)
EXTENDS Integers

CONSTANTS
    HeartbeatInterval,  \* m_durHeartbeatInterval
    OfflineTimeout,     \* m_durOfflineTimeout
    Hosts,              \* addresses the Manager may have, one after the other
    Scores,             \* nAddressScore of the addresses a node is seen under
    MaxLosses           \* presences lost in a row

TimesAssumption ==
    /\ HeartbeatInterval \in Nat \ {0} /\ MaxLosses \in Nat
    /\ OfflineTimeout \in Nat /\ OfflineTimeout > (MaxLosses + 1) * HeartbeatInterval
    /\ Hosts \in Nat \ {0} /\ Scores \subseteq Nat

Roles == {"uav", "pc", "tester"}
Nobody == 0
NoAddress == -1
Everyone == -2

VARIABLES
    role,       \* the role of the node
    up,         \* the node's discovery runs
    upFor,      \* for how long it has been up and not bound to another Manager
    target,     \* m_strManagerAddress: who scanned a UAV last
    beat,       \* time to the next heartbeat
    host,       \* the Manager's address, Nobody while it does not run
    heard,      \* the heartbeat port could be bound
    asked,      \* addresses of scans on their way to the node
    said,       \* presences on their way: [to, score]
    losses,     \* presences lost since the last one that arrived
    endpoint,   \* what the Manager knows: [known, score, state, silent]
    status,     \* a status request or answer is on its way
    scanned     \* a scan was sent in this unit of time

nodeVars == <<role, up, upFor, target, beat>>
netVars == <<asked, said, losses, status>>
managerVars == <<host, heard, endpoint, scanned>>
vars == <<nodeVars, netVars, managerVars>>

Unknown == [known |-> FALSE, score |-> NoAddress, state |-> "Disconnected", silent |-> 0]

Init ==
    /\ role \in Roles /\ up = FALSE /\ upFor = 0 /\ target = Nobody /\ beat = 0
    /\ host = Nobody /\ heard = FALSE /\ endpoint = Unknown
    /\ asked = {} /\ said = {} /\ losses = 0 /\ status = "none" /\ scanned = FALSE

-----------------------------------------------------------------------------
(***************************************************************************)
(* The node.                                                               *)
(***************************************************************************)
\* A node that is seen under several addresses sends from one of them.
Presence(to) == {[to |-> to, score |-> s] : s \in Scores}

\* A connection to the node before this start breaks now at the latest.
NodeStarts ==
    /\ ~up /\ up' = TRUE /\ upFor' = 0 /\ beat' = 0
    /\ IF endpoint.state = "Connected"
       THEN /\ endpoint' = [endpoint EXCEPT !.state = "Disconnected"]
            /\ status' = "none"
       ELSE UNCHANGED <<endpoint, status>>
    /\ UNCHANGED <<role, target, asked, said, losses, host, heard, scanned>>

\* The node is gone; a break of its connection need not reach the Manager.
NodeStops ==
    /\ up /\ up' = FALSE /\ upFor' = 0 /\ target' = Nobody
    /\ said' = {} /\ asked' = {} /\ status' = "none"
    /\ \E s \in {endpoint.state, "Disconnected"} : endpoint' = [endpoint EXCEPT !.state = s]
    /\ UNCHANGED <<role, beat, losses, host, heard, scanned>>

\* Only a UAV sends its heartbeats to the Manager it knows.
HeartbeatTarget == IF role = "uav" /\ target # Nobody THEN target ELSE Everyone

Heartbeat ==
    /\ up /\ beat = 0
    /\ beat' = HeartbeatInterval
    /\ \E p \in Presence(HeartbeatTarget) : said' = said \cup {p}
    /\ UNCHANGED <<role, up, upFor, target, asked, losses, status, managerVars>>

\* handleDatagram: the answer to a scan, by unicast.
AnswerScan(h) ==
    /\ up /\ h \in asked
    /\ asked' = asked \ {h}
    /\ target' = IF role = "uav" THEN h ELSE target
    /\ upFor' = IF target' = target \/ target = Nobody THEN upFor ELSE 0
    /\ \E p \in Presence(h) : said' = said \cup {p}
    /\ UNCHANGED <<role, up, beat, losses, status, managerVars>>

-----------------------------------------------------------------------------
(***************************************************************************)
(* The Manager.                                                            *)
(***************************************************************************)
\* The Manager's process starts at some address; the heartbeat port may be
\* taken, which is only logged.
ManagerStarts ==
    /\ host < Hosts /\ endpoint.state = "Disconnected"
    /\ host' = host + 1 /\ heard' \in BOOLEAN
    /\ endpoint' = Unknown
    /\ upFor' = 0
    /\ UNCHANGED <<role, up, target, beat, netVars, scanned>>

\* scanNodes, at most once in a unit of time
Scan ==
    /\ host # Nobody /\ up /\ ~scanned
    /\ asked' = asked \cup {host} /\ scanned' = TRUE
    /\ UNCHANGED <<nodeVars, said, losses, status, host, heard, endpoint>>

\* A datagram addressed to this Manager; heartbeats need the port.
Reaches(p) == p.to = host \/ (p.to = Everyone /\ heard)

\* Defect: presence of an endpoint already known is not noted.
RefreshedOnce(e, p) ==
    IF e.known THEN e ELSE [e EXCEPT !.known = TRUE, !.silent = 0, !.score = p.score]

\* processPresence: a better address is taken while there is no connection.
Refreshed(e, p) ==
    [e EXCEPT !.known = TRUE,
              !.silent = 0,
              !.score = IF @ = NoAddress \/ (e.state = "Disconnected" /\ p.score > @)
                        THEN p.score ELSE @]

OnPresence(p) ==
    /\ p \in said
    /\ said' = said \ {p}
    /\ IF host # Nobody /\ Reaches(p)
       THEN /\ endpoint' = Refreshed(endpoint, p) /\ losses' = 0
       ELSE UNCHANGED <<endpoint, losses>>
    /\ UNCHANGED <<nodeVars, asked, status, host, heard, scanned>>

\* connectEndpoint and its connected handler, which asks for the status.
Connect ==
    /\ endpoint.known /\ role # "tester" /\ endpoint.state = "Disconnected"
    /\ endpoint' = [endpoint EXCEPT !.state = "Connecting"]
    /\ UNCHANGED <<nodeVars, netVars, host, heard, scanned>>

Connected ==
    /\ endpoint.state = "Connecting" /\ up
    /\ endpoint' = [endpoint EXCEPT !.state = "Connected"]
    /\ status' = "asked"
    /\ UNCHANGED <<nodeVars, asked, said, losses, host, heard, scanned>>

ConnectFails ==
    /\ endpoint.state = "Connecting" /\ ~up
    /\ endpoint' = [endpoint EXCEPT !.state = "Disconnected"]
    /\ UNCHANGED <<nodeVars, netVars, host, heard, scanned>>

\* refreshStatus, a button.
RefreshStatus ==
    /\ endpoint.state = "Connected" /\ status = "none"
    /\ status' = "asked"
    /\ UNCHANGED <<nodeVars, asked, said, losses, managerVars>>

NodeAnswersStatus ==
    /\ status = "asked" /\ up /\ status' = "answered"
    /\ UNCHANGED <<nodeVars, asked, said, losses, managerVars>>

\* processNodeControlFrame: an answer over TCP proves that the node lives.
OnStatus ==
    /\ status = "answered" /\ status' = "none"
    /\ endpoint' = [endpoint EXCEPT !.silent = 0]
    /\ UNCHANGED <<nodeVars, asked, said, losses, host, heard, scanned>>

\* disconnectAll
DisconnectAll ==
    /\ endpoint.state # "Disconnected"
    /\ endpoint' = [endpoint EXCEPT !.state = "Disconnected"]
    /\ status' = "none"
    /\ UNCHANGED <<nodeVars, asked, said, losses, host, heard, scanned>>

\* checkOfflineNodes for an endpoint with a connection.
Offline(e) == e.known /\ e.silent >= OfflineTimeout

\* Defect: only the socket is aborted.
CheckOfflineForgets ==
    /\ endpoint.state # "Disconnected" /\ Offline(endpoint)
    /\ status' = "none"
    /\ UNCHANGED <<nodeVars, asked, said, losses, host, heard, endpoint, scanned>>

CheckOffline ==
    /\ endpoint.state # "Disconnected" /\ Offline(endpoint)
    /\ endpoint' = [endpoint EXCEPT !.state = "Disconnected"]
    /\ status' = "none"
    /\ UNCHANGED <<nodeVars, asked, said, losses, host, heard, scanned>>

-----------------------------------------------------------------------------
\* A presence or a scan that is lost.
Lose ==
    \/ /\ losses < MaxLosses
       /\ \E p \in said : Reaches(p) /\ said' = said \ {p}
       /\ losses' = losses + 1 /\ UNCHANGED asked
    \/ /\ \E h \in asked : asked' = asked \ {h}
       /\ UNCHANGED <<said, losses>>

LoseDatagram == Lose /\ UNCHANGED <<nodeVars, status, managerVars>>

\* Everything that is due happens before time goes on.
Least(a, b) == IF a < b THEN a ELSE b

Tick ==
    /\ said = {} /\ asked = {} /\ ~(up /\ beat = 0)
    /\ up \/ endpoint.silent < OfflineTimeout
    /\ beat' = IF beat > 0 THEN beat - 1 ELSE 0
    /\ upFor' = IF up /\ target \in {Nobody, host} THEN Least(upFor + 1, OfflineTimeout) ELSE 0
    /\ endpoint' = [endpoint EXCEPT !.silent = IF endpoint.known THEN Least(@ + 1, OfflineTimeout) ELSE 0]
    /\ scanned' = FALSE
    /\ UNCHANGED <<role, up, target, netVars, host, heard>>

NodeNext ==
    \/ NodeStarts \/ NodeStops \/ Heartbeat \/ NodeAnswersStatus
    \/ \E h \in 1 .. Hosts : AnswerScan(h)

ManagerNext ==
    \/ ManagerStarts \/ Scan \/ Connect \/ Connected \/ ConnectFails
    \/ RefreshStatus \/ OnStatus \/ DisconnectAll \/ CheckOffline
    \/ \E p \in said : OnPresence(p)

Next == NodeNext \/ ManagerNext \/ LoseDatagram \/ Tick

Spec == Init /\ [][Next]_vars

Fairness ==
    /\ WF_vars(Heartbeat) /\ WF_vars(Tick) /\ WF_vars(\E p \in said : OnPresence(p))
    /\ WF_vars(\E h \in 1 .. Hosts : AnswerScan(h))
    /\ WF_vars(Connected) /\ WF_vars(ConnectFails) /\ WF_vars(CheckOffline)

FairSpec == Spec /\ Fairness

-----------------------------------------------------------------------------
\* Types; only a node with a management port is connected to, and a status
\* exchange belongs to a connection.
TypeOK ==
    /\ role \in Roles /\ target \in 0 .. Hosts /\ beat \in 0 .. HeartbeatInterval
    /\ host \in 0 .. Hosts /\ losses \in 0 .. MaxLosses
    /\ endpoint.state \in {"Disconnected", "Connecting", "Connected"}
    /\ endpoint.silent \in 0 .. OfflineTimeout
    /\ endpoint.state # "Disconnected" => endpoint.known /\ role # "tester"
    /\ status # "none" => endpoint.state = "Connected"
    /\ endpoint.known => endpoint.score \in Scores

\* The offline timer takes down no connection of a node that has been up for
\* the whole timeout, as long as at most MaxLosses presences in a row are
\* lost, the heartbeat port is bound, and the node does not send its
\* heartbeats to a Manager that has moved.
LivingNodeStaysConnected ==
    (up /\ upFor >= OfflineTimeout /\ heard /\ target \in {Nobody, host})
        => ~Offline(endpoint)

\* The Manager does not take a node for connected that has left, also when
\* the break of the connection does not reach it: the offline timer sees it.
GoneNodeIsDropped == (~up) ~> (up \/ endpoint.state = "Disconnected")
=============================================================================
