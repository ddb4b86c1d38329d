---------------------------- MODULE MCNodeServer ----------------------------
(* TcpManagementServer in its two halves, which share m_bRunning and stop:  *)
(*   "connections"  clients that connect, ask, cease to read and leave;     *)
(*   "telemetry"    two rounds with full telemetry queues and their drain,  *)
(*                  the server being stopped in the first one or not;       *)
(*   "answers"      one round while a Monitor's request is answered.        *)
(* running and stopper belong to the half that is looked at.                *)
EXTENDS ManagementServer

CONSTANTS
    \* of ServerClients
    Clients, RoleOf, MaxClients, QueueLimit, Requests, NoClient, Deaf

VARIABLES
    half,
    listening, backlog, acceptor, socket, peer, inbox, role, thread, queue,
    writer, asked, replies, limit

Connections == INSTANCE ServerClients

ASSUME ConnectionsAssumption == Connections!LimitAssumption

(* The values of the run: a Manager that asks once and a Monitor that asks  *)
(* twice and may cease to read.                                             *)
TheirRoles == [c \in Clients |-> IF c = "manager" THEN "Manager" ELSE "Monitor"]
TheirRequests == [c \in Clients |-> IF c = "manager" THEN 1 ELSE 2]

connectionVars ==
    <<listening, backlog, acceptor, socket, peer, inbox, role, thread, queue,
      writer, asked, replies, limit>>

telemetryVars ==
    <<queues, drainId, threads, runtimes, acked, requests>>

allVars == <<vars, connectionVars, half>>
-----------------------------------------------------------------------------
MCInit ==
    /\ half \in {"connections", "telemetry", "answers"}
    /\ Init /\ Connections!Init
    /\ half # "connections" => limit = 1

(* With room for one client only, none falls deaf, each asks once and the   *)
(* server goes on: less to explore, and the second client is turned away.   *)
ConnectionsNext ==
    /\ half = "connections"
    /\ Connections!Next
    /\ limit = 1 => /\ \A c \in Clients : peer'[c] # "deaf" /\ asked'[c] <= 1
                    /\ running'

TelemetryNext ==
    /\ half \in {"telemetry", "answers"}
    /\ Next
    /\ IF half = "telemetry" THEN requests' = 0 ELSE round' <= 1
    /\ round = 2 /\ running => running'

MCNext ==
    /\ UNCHANGED half
    /\ \/ ConnectionsNext /\ UNCHANGED telemetryVars
       \/ TelemetryNext /\ UNCHANGED connectionVars

InConnections(A) == half = "connections" /\ A
InTelemetry(A) == half # "connections" /\ Alive /\ A

MCSpec ==
    /\ MCInit /\ [][MCNext]_allVars
    /\ WF_(Connections!vars)(InConnections(Connections!AcceptNext /\ Connections!Fixed))
    /\ WF_(Connections!vars)(InConnections(Connections!WriterNext /\ Connections!Fixed))
    /\ WF_(Connections!vars)(InConnections(Connections!StopNext /\ Connections!Fixed))
    /\ \A c \in Clients :
          WF_(Connections!vars)(InConnections(Connections!ThreadNext(c) /\ Connections!Fixed))
    /\ WF_vars(InTelemetry(Broadcaster)) /\ WF_vars(InTelemetry(Drainer))
    /\ WF_vars(InTelemetry(Stopper))
    /\ \A r \in Roles : WF_vars(InTelemetry(Report(r)))
-----------------------------------------------------------------------------
(* The answers of a connection are the answers to its first requests, in    *)
(* their order, though two threads and a queue may be between a request and *)
(* its answer (bSendControlMessage, monitorBroadcastLoop).                  *)
AnswersInOrder == half = "connections" => Connections!AnswersInOrder

(* stop closes the sockets its threads block on and returns, also when a    *)
(* Monitor has ceased to read, and no thread or socket is left behind it    *)
(* (stop, clientLoop, monitorBroadcastLoop).                                *)
StopReturns ==
    /\ []Connections!NoThreadOutlivesStop
    /\ half = "connections" => Connections!StopReturns

(* Telemetry that is acknowledged as drained is written (roundDrainLoop).   *)
DrainWritten == [][half = "connections" \/ \A r \in acked' \ acked : r \notin Outstanding]_allVars

(* The drain that was asked for is acknowledged, unless the node is still   *)
(* at work or stops, and until then neither telemetry queue starves the     *)
(* other (requestRoundDrainAcknowledgement, roundDrainLoop,                 *)
(* monitorBroadcastLoop).                                                   *)
TelemetryMovesOn ==
    half # "connections" => DrainAcknowledged /\ MetricsNotStarved /\ EventsNotStarved
=============================================================================
