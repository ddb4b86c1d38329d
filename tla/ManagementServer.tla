--------------------------- MODULE ManagementServer ---------------------------
(***************************************************************************)
(* TcpManagementServer: what a node reports to the monitors while rounds   *)
(* run and end, how it tells the Manager that a round has drained, and how *)
(* it shuts down.                                                          *)
(*                                                                         *)
(* Three threads meet here: the broadcaster that writes the telemetry      *)
(* queues to the monitors, the drainer that waits for the runtimes and the *)
(* queues to fall silent and then acknowledges the round, and the thread   *)
(* that calls stop.  The sender and the receiver runtime of the node call  *)
(* in with telemetry and results.  A critical section of m_mtxMonitorQueue *)
(* or of m_mtxRoundDrain is one action, except where a condition variable  *)
(* is tested and the thread falls asleep: stop notifies without the lock.  *)
(***************************************************************************)
EXTENDS Naturals, Sequences, FiniteSets, SequencesExt

CONSTANTS
    Roles,        \* runtimes of the node that take part in a round
    MaxEvents,    \* MAX_MONITOR_EVENT_QUEUE
    MaxMetrics,   \* MAX_METRIC_EVENT_QUEUE
    MaxControl,   \* MAX_MONITOR_CONTROL_QUEUE
    BatchSize,    \* METRIC_BATCH_SIZE
    MaxRounds,    \* bound: rounds of the node
    MaxRequests   \* bound: answers queued for monitors

ASSUME ServerAssumption ==
    /\ Roles \subseteq {"sender", "receiver"} /\ Roles # {}
    /\ MaxEvents \in Nat \ {0} /\ MaxMetrics \in Nat \ {0}
    /\ MaxControl \in Nat \ {0} /\ BatchSize \in Nat \ {0}
    /\ MaxRounds \in Nat /\ MaxRequests \in Nat

VARIABLES
    (* members of TcpManagementServer *)
    running,       \* m_bRunning
    controlQueue,  \* length of m_deqMonitorControlQueue
    events,        \* m_deqMonitorQueue: the rounds and kinds of its messages
    metrics,       \* m_deqMetricQueue: the rounds of its records
    writeBusy,     \* m_bMonitorWriteBusy
    drainId,       \* m_optPendingRoundDrainId, 0 for none
    (* its threads *)
    broadcaster,   \* position of monitorBroadcastLoop
    preferMetrics, \* bPreferMetricBatch
    inHand,        \* the message monitorBroadcastLoop is writing
    drainer,       \* position of roundDrainLoop
    drainRound,    \* strRoundId of roundDrainLoop
    drainIdle,     \* whether prRoundState was silent
    stopper,       \* position of the thread in stop
    (* the runtimes of the node *)
    round,         \* the round that runs or ran last
    active,        \* roles whose runtime says that it is running
    ending,        \* ending[role]: position at the end of a round
    (* what has left the node *)
    acked,         \* rounds acknowledged as drained
    requests       \* history: answers queued for monitors (bounds the model)

queues     == <<controlQueue, events, metrics, writeBusy>>
threads    == <<broadcaster, preferMetrics, inHand, drainer, drainRound, drainIdle>>
runtimes   == <<round, active, ending>>
vars == <<running, queues, drainId, threads, stopper, runtimes, acked, requests>>

Nothing == [kind |-> "nothing", rounds |-> {}]
NoTelemetry == controlQueue = 0 /\ events = <<>> /\ metrics = <<>>
Event(r, kind) == [round |-> r, kind |-> kind]

Init ==
    /\ running = TRUE
    /\ controlQueue = 0 /\ events = <<>> /\ metrics = <<>> /\ writeBusy = FALSE
    /\ drainId = 0
    /\ broadcaster = "waiting" /\ preferMetrics = TRUE /\ inHand = Nothing
    /\ drainer = "top" /\ drainRound = 0 /\ drainIdle = FALSE
    /\ stopper = "none"
    /\ round = 0 /\ active = {} /\ ending = [role \in Roles |-> "no"]
    /\ acked = {} /\ requests = 0
-----------------------------------------------------------------------------
(* What the runtimes call.                                                 *)

(* A full queue gives up a normal packet for a failure, otherwise the new  *)
(* message is dropped.                                                     *)
Displaced(kind) ==
    {n \in DOMAIN events : kind = "failure" /\ events[n].kind = "packet"}
EarliestDisplaced(kind) ==
    CHOOSE n \in Displaced(kind) : \A m \in Displaced(kind) : n <= m

EnqueueMonitorObservation(kind) ==
    /\ \E role \in Roles : role \in active \/ ending[role] = "metrics"
    /\ events' =
         IF Len(events) < MaxEvents THEN Append(events, Event(round, kind))
         ELSE IF Displaced(kind) = {} THEN events
         ELSE Append(RemoveAt(events, EarliestDisplaced(kind)), Event(round, kind))
    /\ UNCHANGED <<running, controlQueue, metrics, writeBusy, drainId, threads,
                   stopper, runtimes, acked, requests>>

(* A monitor asks for a snapshot or a status; the answer is queued.        *)
EnqueueControl ==
    /\ requests < MaxRequests
    /\ controlQueue < MaxControl
    /\ controlQueue' = controlQueue + 1
    /\ requests' = requests + 1
    /\ UNCHANGED <<running, events, metrics, writeBusy, drainId, threads, stopper,
                   runtimes, acked>>

BeginRound ==
    /\ round < MaxRounds
    /\ \A role \in Roles : ending[role] = "no" /\ role \notin active
    /\ round' = round + 1
    /\ active' = Roles
    /\ UNCHANGED <<running, queues, drainId, threads, stopper, ending, acked, requests>>

(* The receiver clears its running flag before its metrics and its result  *)
(* leave it, the sender afterwards.                                        *)
EndRound(role) ==
    /\ role \in active /\ ending[role] = "no"
    /\ ending' = [ending EXCEPT ![role] = "metrics"]
    /\ active' = IF role = "receiver" THEN active \ {role} ELSE active
    /\ UNCHANGED <<running, queues, drainId, threads, stopper, round, acked, requests>>

EnqueueMonitorMetric ==
    metrics' = IF Len(metrics) < MaxMetrics THEN Append(metrics, round) ELSE metrics

(* The receiver measures every interval it verifies. *)
EmitVerification ==
    /\ "receiver" \in active
    /\ EnqueueMonitorMetric
    /\ UNCHANGED <<running, controlQueue, events, writeBusy, drainId, threads,
                   stopper, runtimes, acked, requests>>

(* The summary of the round, after its other telemetry. *)
EmitSummary(role) ==
    /\ ending[role] = "metrics"
    /\ ending' = [ending EXCEPT ![role] = "result"]
    /\ EnqueueMonitorMetric
    /\ UNCHANGED <<running, controlQueue, events, writeBusy, drainId, threads,
                   stopper, round, active, acked, requests>>

(* The result goes to every client; monitors get it through the queue. *)
BroadcastControlMessage(role) ==
    /\ ending[role] = "result"
    /\ ending' = [ending EXCEPT ![role] = "drain"]
    /\ \/ UNCHANGED controlQueue
       \/ controlQueue < MaxControl /\ controlQueue' = controlQueue + 1
    /\ UNCHANGED <<running, events, metrics, writeBusy, drainId, threads, stopper,
                   round, active, acked, requests>>

(* The drain is asked for under m_mtxRoundDrain, which the drainer holds    *)
(* until it sleeps.                                                        *)
RequestRoundDrainAcknowledgement(role) ==
    /\ ending[role] = "drain"
    /\ drainer # "dozing"
    /\ drainId' = round
    /\ drainer' = IF drainer = "asleep" THEN "top" ELSE drainer
    /\ ending' = [ending EXCEPT ![role] = "leaving"]
    /\ UNCHANGED <<running, queues, broadcaster, preferMetrics, inHand, drainRound,
                   drainIdle, stopper, round, active, acked, requests>>

LeaveRound(role) ==
    /\ ending[role] = "leaving"
    /\ ending' = [ending EXCEPT ![role] = "no"]
    /\ active' = active \ {role}
    /\ UNCHANGED <<running, queues, drainId, threads, stopper, round, acked, requests>>
-----------------------------------------------------------------------------
(* monitorBroadcastLoop                                                    *)

(* Defect: the turn never changes. *)
NeverAlternated == preferMetrics

TakesMetrics == metrics # <<>> /\ (events = <<>> \/ preferMetrics)
Alternated == IF metrics # <<>> /\ events # <<>> THEN ~preferMetrics ELSE preferMetrics

WriteControl ==
    /\ controlQueue > 0
    /\ controlQueue' = controlQueue - 1
    /\ inHand' = [kind |-> "control", rounds |-> {}]
    /\ UNCHANGED <<events, metrics>>

WriteMetrics ==
    LET n == IF Len(metrics) < BatchSize THEN Len(metrics) ELSE BatchSize
    IN  /\ inHand' = [kind |-> "metrics", rounds |-> {metrics[m] : m \in 1 .. n}]
        /\ metrics' = SubSeq(metrics, n + 1, Len(metrics))
        /\ UNCHANGED <<controlQueue, events>>

TakeControl ==
    /\ broadcaster = "waiting"
    /\ WriteControl
    /\ writeBusy' = TRUE /\ broadcaster' = "writing"
    /\ UNCHANGED <<running, drainId, preferMetrics, drainer, drainRound, drainIdle,
                   stopper, runtimes, acked, requests>>

TakeEvent ==
    /\ broadcaster = "waiting"
    /\ controlQueue = 0 /\ events # <<>> /\ ~TakesMetrics
    /\ inHand' = [kind |-> "event", rounds |-> {Head(events).round}]
    /\ events' = Tail(events)
    /\ preferMetrics' = Alternated
    /\ writeBusy' = TRUE /\ broadcaster' = "writing"
    /\ UNCHANGED <<running, controlQueue, metrics, drainId, drainer, drainRound,
                   drainIdle, stopper, runtimes, acked, requests>>

TakeMetrics ==
    /\ broadcaster = "waiting"
    /\ controlQueue = 0 /\ TakesMetrics
    /\ Len(metrics) >= BatchSize \/ events # <<>> \/ ~running
    /\ WriteMetrics
    /\ preferMetrics' = Alternated
    /\ writeBusy' = TRUE /\ broadcaster' = "writing"
    /\ UNCHANGED <<running, drainId, drainer, drainRound, drainIdle, stopper,
                   runtimes, acked, requests>>

(* A small batch waits for more records; the lock is free meanwhile.       *)
WaitForBatch ==
    /\ broadcaster = "waiting"
    /\ controlQueue = 0 /\ TakesMetrics
    /\ Len(metrics) < BatchSize /\ events = <<>> /\ running
    /\ broadcaster' = "batching"
    /\ UNCHANGED <<running, queues, drainId, preferMetrics, inHand, drainer,
                   drainRound, drainIdle, stopper, runtimes, acked, requests>>

(* The wait is over, after 25 ms or because something came.  Nobody looks   *)
(* whether the records are still there; a batch without records throws.    *)
BatchReady ==
    /\ broadcaster = "batching"
    /\ preferMetrics' = IF events # <<>> THEN FALSE ELSE preferMetrics
    /\ WriteControl \/ (controlQueue = 0 /\ WriteMetrics)
    /\ writeBusy' = TRUE
    /\ broadcaster' = IF inHand'.kind = "metrics" /\ inHand'.rounds = {}
                      THEN "terminated" ELSE "writing"
    /\ UNCHANGED <<running, drainId, drainer, drainRound, drainIdle, stopper,
                   runtimes, acked, requests>>

Written ==
    /\ broadcaster = "writing"
    /\ writeBusy' = FALSE
    /\ inHand' = Nothing
    /\ broadcaster' = "waiting"
    /\ UNCHANGED <<running, controlQueue, events, metrics, drainId, preferMetrics,
                   drainer, drainRound, drainIdle, stopper, runtimes, acked, requests>>

BroadcasterReturns ==
    /\ broadcaster = "waiting"
    /\ ~running /\ NoTelemetry
    /\ broadcaster' = "returned"
    /\ UNCHANGED <<running, queues, drainId, preferMetrics, inHand, drainer,
                   drainRound, drainIdle, stopper, runtimes, acked, requests>>
-----------------------------------------------------------------------------
(* roundDrainLoop                                                          *)

DrainerStep == UNCHANGED <<running, queues, broadcaster, preferMetrics, inHand,
                           stopper, runtimes, requests>>

(* The predicate of m_cndRoundDrain is evaluated with the lock held. *)
DrainerTests ==
    /\ drainer = "top"
    /\ drainer' = IF ~running THEN "returned"
                  ELSE IF drainId = 0 THEN "dozing" ELSE "looking"
    /\ drainRound' = IF running THEN drainId ELSE drainRound
    /\ UNCHANGED <<drainId, drainIdle, acked>> /\ DrainerStep

DrainerSleeps ==
    /\ drainer = "dozing"
    /\ drainer' = "asleep"
    /\ UNCHANGED <<drainId, drainRound, drainIdle, acked>> /\ DrainerStep

LookAtRuntimes ==
    /\ drainer = "looking"
    /\ drainIdle' = (active = {})
    /\ drainer' = "counting"
    /\ UNCHANGED <<drainId, drainRound, acked>> /\ DrainerStep

(* Defect: the message that is being written is forgotten. *)
QueuesDrained == NoTelemetry

TelemetryDrained == NoTelemetry /\ ~writeBusy

(* Not silent yet: look again in 25 ms. *)
LookAtQueues ==
    /\ drainer = "counting"
    /\ drainer' = IF drainIdle /\ TelemetryDrained THEN "deciding" ELSE "top"
    /\ UNCHANGED <<drainId, drainRound, drainIdle, acked>> /\ DrainerStep

DrainDecided ==
    /\ drainer = "deciding"
    /\ IF drainId = drainRound THEN drainId' = 0 /\ drainer' = "acknowledging"
       ELSE drainer' = "top" /\ UNCHANGED drainId
    /\ UNCHANGED <<drainRound, drainIdle, acked>> /\ DrainerStep

SendDrainAcknowledgement ==
    /\ drainer = "acknowledging"
    /\ acked' = acked \cup {drainRound}
    /\ drainer' = "top"
    /\ UNCHANGED <<drainId, drainRound, drainIdle>> /\ DrainerStep
-----------------------------------------------------------------------------
(* stop                                                                    *)

StopBegins ==
    /\ stopper = "none"
    /\ running' = FALSE
    /\ stopper' = "notifying"
    /\ UNCHANGED <<queues, drainId, threads, runtimes, acked, requests>>

(* notify_all reaches a drainer that sleeps, not one about to sleep. *)
NotifyDrainer ==
    /\ stopper = "notifying"
    /\ drainer' = IF drainer = "asleep" THEN "top" ELSE drainer
    /\ stopper' = "clearing"
    /\ UNCHANGED <<running, queues, drainId, broadcaster, preferMetrics, inHand,
                   drainRound, drainIdle, runtimes, acked, requests>>

ClearQueues ==
    /\ stopper = "clearing"
    /\ controlQueue' = 0 /\ events' = <<>> /\ metrics' = <<>>
    /\ stopper' = "joining"
    /\ UNCHANGED <<running, writeBusy, drainId, threads, runtimes, acked, requests>>

JoinThreads ==
    /\ stopper = "joining"
    /\ broadcaster = "returned" /\ drainer = "returned"
    /\ controlQueue' = 0 /\ events' = <<>> /\ metrics' = <<>>
    /\ writeBusy' = FALSE /\ drainId' = 0
    /\ stopper' = "stopped"
    /\ UNCHANGED <<running, threads, runtimes, acked, requests>>
-----------------------------------------------------------------------------
Alive == broadcaster # "terminated"

Broadcaster ==
    \/ TakeControl \/ TakeEvent \/ TakeMetrics \/ WaitForBatch \/ BatchReady
    \/ Written \/ BroadcasterReturns

Drainer ==
    \/ DrainerTests \/ DrainerSleeps \/ LookAtRuntimes \/ LookAtQueues
    \/ DrainDecided \/ SendDrainAcknowledgement

Stopper == NotifyDrainer \/ ClearQueues \/ JoinThreads

Report(role) ==
    \/ EmitSummary(role) \/ BroadcastControlMessage(role)
    \/ RequestRoundDrainAcknowledgement(role) \/ LeaveRound(role)

Environment ==
    \/ \E kind \in {"packet", "failure"} : EnqueueMonitorObservation(kind)
    \/ EmitVerification \/ EnqueueControl \/ BeginRound \/ StopBegins

Next ==
    /\ Alive
    /\ \/ Broadcaster \/ Drainer \/ Stopper \/ Environment
       \/ \E role \in Roles : EndRound(role) \/ Report(role)

Spec == Init /\ [][Next]_vars

(* Threads are scheduled, and a write to a Monitor ends because the Monitor *)
(* reads or its connection is closed: its socket has no send timeout.  (See *)
(* ServerClients for one that stops reading.)  A round need not end, only   *)
(* the report of one that has.                                              *)
Fairness ==
    /\ WF_vars(Alive /\ Broadcaster) /\ WF_vars(Alive /\ Drainer)
    /\ WF_vars(Alive /\ Stopper)
    /\ \A role \in Roles : WF_vars(Alive /\ Report(role))

FairSpec == Spec /\ Fairness
-----------------------------------------------------------------------------
(* Type correctness, with the limits of the three queues and a drainer that *)
(* only ever looks for a round that exists.                                *)
TypeOK ==
    /\ running \in BOOLEAN /\ writeBusy \in BOOLEAN /\ preferMetrics \in BOOLEAN
    /\ controlQueue \in 0 .. MaxControl
    /\ Len(events) <= MaxEvents /\ Len(metrics) <= MaxMetrics
    /\ drainId \in 0 .. round /\ drainRound \in 0 .. round
    /\ acked \subseteq 1 .. round
    /\ writeBusy = (inHand # Nothing) \/ ~running

(* A round is acknowledged as drained only when its runtimes have ended and *)
(* all telemetry they produced for it is written                           *)
(* (requestRoundDrainAcknowledgement, roundDrainLoop).                     *)
Outstanding ==
    {events[n].round : n \in DOMAIN events} \cup {metrics[n] : n \in DOMAIN metrics}
    \cup inHand.rounds
    \cup (IF \E role \in Roles : role \in active \/ ending[role] = "metrics"
          THEN {round} ELSE {})

(* The drain that was asked for is acknowledged unless a runtime of the     *)
(* node is still at work, a newer round has begun or the node stops.       *)
AtWork == \E role \in active : ending[role] = "no"
DrainAcknowledged ==
    \A r \in 1 .. MaxRounds :
        drainId = r ~> (r \in acked \/ AtWork \/ round > r \/ ~running)

(* Events and metrics are sent in turns: neither queue starves the other,   *)
(* and both get on when answers to monitors are queued.                    *)
MetricsNotStarved == metrics # <<>> ~> (inHand.kind = "metrics" \/ ~running)
EventsNotStarved == events # <<>> ~> (inHand.kind = "event" \/ ~running)

=============================================================================
