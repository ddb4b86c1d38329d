----------------------------- MODULE MonitorLink -----------------------------
(***************************************************************************)
(* The UAV monitor and the node it watches:                                *)
(* gui/uav_monitor/UavMonitorNetworkController.cpp with its socket, its    *)
(* poll timer, its two stores and the queued refreshes of the display.     *)
(* The node answers what it is asked and sends events and metrics while a  *)
(* round runs; it may fall silent.  A record is named by its node and a    *)
(* number; a node numbers its records without gaps.  A store refuses a     *)
(* record it holds, so it is a set here.                                   *)
(*                                                                         *)
(* Metrics may be lost on purpose: the queue of a node drops what does not *)
(* fit, and a store that is full gives up what it has held longest.        *)
(***************************************************************************)
EXTENDS Naturals, Sequences, FiniteSets

CONSTANTS
    Nodes,              \* nodes the operator may watch
    ResponseTimeout,    \* m_durResponseTimeout, in poll intervals
    MetricQueueLimit,   \* MAX_METRIC_EVENT_QUEUE
    StoreLimit,         \* m_nMaximumRecordCount of a metric store
    MaxRecords,         \* bound on the records of all nodes together
    MaxResets,          \* bound on display resets
    MaxConnects,        \* bound on connectToNode and disconnectFromNode
    MaxWire             \* messages a connection takes before a write has to wait

TimeoutAssumption ==
    ResponseTimeout \in Nat \ {0, 1} /\ StoreLimit \in Nat \ {0}

Stores == {"observations", "metrics"}
NoNode == "none"

VARIABLES
    state,      \* m_stateConnection
    peer,       \* the node of the socket
    polling,    \* m_pPollTimer runs
    age,        \* polls since m_nLastResponseMilliseconds
    store,      \* store[s]: records of m_stoObservations, m_stoMetrics
    scheduled,  \* scheduled[s]: a queued refresh is on its way
    wire,       \* messages on their way from the node
    opening,    \* requests of the connected handler the node has to handle
    asked,      \* the node has a ping or status request to answer
    alive,      \* the node answers
    sent,       \* sent[n]: records a node has produced so far
    queued,     \* queued[n]: m_deqMetricQueue, records still to be broadcast
    lost,       \* history: metrics given up since connectToNode
    resets, connects

vars == <<state, peer, polling, age, store, scheduled, wire, opening, asked,
          alive, sent, queued, lost, resets, connects>>
nodeVars == <<alive, sent, queued, resets>>
viewVars == <<store, scheduled, lost>>

Init ==
    /\ state = "Disconnected" /\ peer = NoNode /\ polling = FALSE /\ age = 0
    /\ store = [s \in Stores |-> {}]
    /\ scheduled = [s \in Stores |-> FALSE]
    /\ wire = <<>> /\ opening = <<>> /\ asked = FALSE /\ alive = [n \in Nodes |-> TRUE]
    /\ sent = [n \in Nodes |-> 0] /\ queued = [n \in Nodes |-> <<>>] /\ lost = {}
    /\ resets = 0 /\ connects = 0

-----------------------------------------------------------------------------
Message(kind, n, k) == [kind |-> kind, from |-> n, n |-> k]

Records(n, ks) == {<<n, k>> : k \in ks}

\* abort() and reset(): what the socket and the decoder hold is gone.
Aborted == wire' = <<>> /\ opening' = <<>> /\ asked' = FALSE

ClearedStores == [s \in Stores |-> {}]

\* connectToNode: both views are told at once that their store is empty.
\* The disconnected handler of an established connection stops the timer.
ConnectToNode(n) ==
    /\ connects < MaxConnects /\ connects' = connects + 1
    /\ Aborted
    /\ polling' = (polling /\ state # "Connected")
    /\ store' = ClearedStores /\ lost' = {}
    /\ state' = "Connecting" /\ peer' = n /\ age' = 0
    /\ UNCHANGED <<scheduled, nodeVars>>

\* disconnectFromNode leaves the stores for reading.
DisconnectFromNode ==
    /\ connects < MaxConnects /\ connects' = connects + 1
    /\ Aborted /\ polling' = FALSE
    /\ state' = "Disconnected" /\ peer' = NoNode /\ age' = 0
    /\ UNCHANGED <<viewVars, nodeVars>>

\* Defect: the snapshot is asked for before the events.
SnapshotFirst == <<"snapshot", "hello">>

\* sendHello, requestMetricSnapshot.
OpeningRequests == <<"hello", "snapshot">>

\* The connected handler; refreshStatus is its third request.
Connected ==
    /\ state = "Connecting" /\ alive[peer]
    /\ state' = "Connected" /\ age' = 0 /\ polling' = TRUE
    /\ opening' = OpeningRequests /\ asked' = TRUE
    /\ UNCHANGED <<peer, wire, viewVars, nodeVars, connects>>

\* The disconnected handler, and errorOccurred without a connection.
Dropped ==
    /\ state' = "Disconnected" /\ peer' = NoNode /\ polling' = FALSE /\ age' = 0
    /\ UNCHANGED <<viewVars, nodeVars, connects>>

ConnectFails == state = "Connecting" /\ ~alive[peer] /\ Aborted /\ Dropped

\* A dead node's end of the connection is closed; what it sent before that
\* has arrived.
NodeCloses == state = "Connected" /\ wire = <<>> /\ ~alive[peer] /\ Aborted /\ Dropped

\* checkConnection, once per poll interval.
Poll ==
    /\ polling /\ state = "Connected"
    /\ IF age >= ResponseTimeout THEN Aborted /\ Dropped
       ELSE /\ asked' = TRUE /\ age' = age + 1
            /\ UNCHANGED <<state, peer, polling, wire, opening, viewVars, nodeVars, connects>>

-----------------------------------------------------------------------------
\* What a metric store holds when its owner has produced k records in order.
Newest(k) == {i \in 1 .. k : i + StoreLimit > k}

\* What a store gains from a message.
Gain(m, s) ==
    CASE m.kind = "record" -> Records(m.from, {m.n})
      [] m.kind = "snapshot" /\ s = "metrics" -> Records(m.from, Newest(m.n))
      [] OTHER -> {}

\* appendObservation, appendMetric and the snapshots schedule one refresh.
Touches(m, s) == m.kind = "record" \/ (m.kind = "snapshot" /\ s = "metrics")

\* bAppend gives up what is held longest when more does not fit: records that
\* were there before, whatever the order they came in.
Fits(held, gain, kept) ==
    /\ kept \subseteq held \cup gain /\ gain \subseteq held \cup kept
    /\ IF Cardinality(held \cup gain) <= StoreLimit THEN kept = held \cup gain
       ELSE Cardinality(kept) = StoreLimit

\* processTcpData, one message at a time: any message counts as an answer.
\* A display reset empties the observations and shows that at once.
OnMessage ==
    /\ state = "Connected" /\ wire # <<>>
    /\ age' = 0 /\ wire' = Tail(wire)
    /\ LET m == Head(wire)
           Resets(s) == m.kind = "reset" /\ s = "observations"
           Joined(s) == store[s] \cup Gain(m, s)
       IN /\ \E kept \in SUBSET Joined("metrics") :
                /\ Fits(store["metrics"], Gain(m, "metrics"), kept)
                /\ store' = [s \in Stores |-> IF Resets(s) THEN {}
                                              ELSE IF s = "metrics" THEN kept ELSE Joined(s)]
                /\ lost' = lost \cup (Joined("metrics") \ kept)
          /\ scheduled' = [s \in Stores |-> scheduled[s] \/ Touches(m, s)]
    /\ UNCHANGED <<state, peer, polling, opening, asked, nodeVars, connects>>

\* The queued refresh: the views read the store.
Refresh(s) ==
    /\ scheduled[s]
    /\ scheduled' = [scheduled EXCEPT ![s] = FALSE]
    /\ UNCHANGED <<state, peer, polling, age, store, lost, wire, opening, asked, nodeVars,
                   connects>>

-----------------------------------------------------------------------------
\* The node: answers, records of a round, a display reset at a new
\* configuration, and silence.
Answer ==
    /\ state = "Connected" /\ asked /\ opening = <<>> /\ alive[peer] /\ Len(wire) < MaxWire
    /\ asked' = FALSE /\ wire' = Append(wire, Message("answer", peer, 0))
    /\ UNCHANGED <<state, peer, polling, age, opening, viewVars, nodeVars, connects>>

\* The hello makes the connection one that gets events.  The snapshot has what
\* the store of the node still holds.
HandleOpening ==
    /\ state = "Connected" /\ opening # <<>> /\ alive[peer] /\ Len(wire) < MaxWire
    /\ opening' = Tail(opening)
    /\ IF Head(opening) = "snapshot"
       THEN /\ wire' = Append(wire, Message("snapshot", peer, sent[peer]))
            /\ lost' = lost \cup Records(peer, (1 .. sent[peer]) \ Newest(sent[peer]))
       ELSE UNCHANGED <<wire, lost>>
    /\ UNCHANGED <<state, peer, polling, age, asked, store, scheduled, nodeVars,
                   connects>>

\* Clients of monitorBroadcastLoop: a hello has made them monitors.
GetsEvents(n) ==
    state = "Connected" /\ peer = n /\ \A i \in DOMAIN opening : opening[i] # "hello"

\* The node keeps the metric and queues it for its monitors; a full queue
\* drops it (enqueueMonitorMetric).
SendRecord(n) ==
    /\ alive[n] /\ Cardinality(UNION {Records(m, 1 .. sent[m]) : m \in Nodes}) < MaxRecords
    /\ sent' = [sent EXCEPT ![n] = @ + 1]
    /\ IF Len(queued[n]) < MetricQueueLimit
       THEN queued' = [queued EXCEPT ![n] = Append(@, sent[n] + 1)] /\ UNCHANGED lost
       ELSE lost' = lost \cup Records(n, {sent[n] + 1}) /\ UNCHANGED queued
    /\ UNCHANGED <<state, peer, polling, age, opening, store, scheduled, wire, asked,
                   alive, resets, connects>>

\* monitorBroadcastLoop: the write waits for a monitor that does not read.
Broadcast(n) ==
    /\ alive[n] /\ queued[n] # <<>>
    /\ GetsEvents(n) => Len(wire) < MaxWire
    /\ queued' = [queued EXCEPT ![n] = Tail(@)]
    /\ wire' = IF GetsEvents(n) THEN Append(wire, Message("record", n, Head(queued[n])))
               ELSE wire
    /\ UNCHANGED <<state, peer, polling, age, opening, viewVars, asked, alive, sent, resets,
                   connects>>

SendReset ==
    /\ state = "Connected" /\ GetsEvents(peer) /\ alive[peer]
    /\ resets < MaxResets /\ Len(wire) < MaxWire
    /\ resets' = resets + 1
    /\ wire' = Append(wire, Message("reset", peer, 0))
    /\ UNCHANGED <<state, peer, polling, age, opening, viewVars, asked, alive, sent, queued,
                   connects>>

FallSilent(n) ==
    /\ alive[n] /\ alive' = [alive EXCEPT ![n] = FALSE]
    /\ UNCHANGED <<state, peer, polling, age, viewVars, wire, opening, asked, sent, queued,
                   resets, connects>>

Next ==
    \/ \E n \in Nodes : ConnectToNode(n) \/ SendRecord(n) \/ Broadcast(n) \/ FallSilent(n)
    \/ \E s \in Stores : Refresh(s)
    \/ DisconnectFromNode \/ Connected \/ ConnectFails \/ NodeCloses \/ Poll
    \/ OnMessage \/ Answer \/ HandleOpening \/ SendReset

Spec == Init /\ [][Next]_vars

\* The event loop, the timer and the network go on; the node need not close.
FairSpec ==
    /\ Spec
    /\ WF_vars(Connected) /\ WF_vars(ConnectFails) /\ WF_vars(Poll) /\ WF_vars(OnMessage)
    /\ \A s \in Stores : WF_vars(Refresh(s))

-----------------------------------------------------------------------------
\* Types; a connection is polled exactly while it stands.
TypeOK ==
    /\ state \in {"Disconnected", "Connecting", "Connected"}
    /\ (peer = NoNode) = (state = "Disconnected")
    /\ age \in 0 .. ResponseTimeout /\ asked \in BOOLEAN
    /\ polling = (state = "Connected")
    /\ wire # <<>> => state = "Connected"

\* While a node is watched, the stores hold records of that node only:
\* nothing of the node before gets through the abort.
StoresOfWatchedNode ==
    state # "Disconnected" =>
        \A s \in Stores : \A r \in store[s] : r[1] = peer

\* A monitor that connects in the middle of a round misses no metric but those
\* that were given up: once the snapshot has been read, it and the events before
\* and after it meet, although queue, snapshot and events overtake each other.
MetricsWithoutHole ==
    (state = "Connected" /\ opening = <<>> /\ \A i \in DOMAIN wire : wire[i].kind # "snapshot") =>
    \A r \in store["metrics"] : Records(r[1], 1 .. r[2]) \subseteq store["metrics"] \cup lost

\* A node that has fallen silent is not shown as connected for ever.
SilentNodeIsDropped ==
    \A n \in Nodes : (peer = n /\ ~alive[n]) ~> (peer # n \/ alive[n])
=============================================================================
