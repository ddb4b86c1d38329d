--------------------------- MODULE MCLinks ---------------------------
(***************************************************************************)
(* The links between the processes, one part at a time:                    *)
(*   "sendPath"  a PC node writes what its sender hands it (PcSendPath);   *)
(*   "upload"    the Manager transfers files to a PC node (FileTransfer);  *)
(*   "discovery" a node is found, kept and given up (Discovery);           *)
(*   "monitor"   a Monitor watches two UAV nodes (MonitorLink).            *)
(* The parts share no variable: a behaviour runs one of them, and the      *)
(* variables of the others keep their initial values.                      *)
(***************************************************************************)
EXTENDS Integers, Sequences

CONSTANTS
    Packets, QueueLimit, BatchLimit, MaxRounds, MaxCloses,
    MaxRequests, Chunks, ChunkSize, BacklogLimit, EndReserve, MaxConnections, MaxStops,
    HeartbeatInterval, OfflineTimeout, Hosts, Scores, MaxLosses,
    Nodes, ResponseTimeout, MetricQueueLimit, StoreLimit, MaxRecords, MaxResets, MaxConnects, MaxWire

VARIABLES
    part,
    running, queue, sendScheduled, fault, posted, main, worker, sendClient,
    written, told, closes, wiped,
    state, socket, upload, uploadsAsked, answered, used, open, buffer, wire,
    back, client, thread, nodeUp, runtimeUp, taken, stops,
    role, up, upFor, target, beat, host, heard, asked, said, losses, endpoint,
    status, scanned,
    viewState, peer, polling, age, store, scheduled, viewWire, opening,
    pinged, alive, sent, queued, lost, resets, connects

SendPath ==
    INSTANCE PcSendPath WITH scheduled <- sendScheduled, client <- sendClient

Upload == INSTANCE FileTransfer WITH asked <- uploadsAsked

Found == INSTANCE Discovery

Watched ==
    INSTANCE MonitorLink WITH state <- viewState, wire <- viewWire, asked <- pinged

ASSUME LinksAssumption ==
    /\ SendPath!LimitsAssumption /\ Upload!SizesAssumption
    /\ Found!TimesAssumption /\ Watched!TimeoutAssumption

sendVars ==
    <<running, queue, sendScheduled, fault, posted, main, worker, sendClient,
      written, told, closes, wiped>>
uploadVars ==
    <<state, socket, upload, uploadsAsked, answered, used, open, buffer, wire,
      back, client, thread, nodeUp, runtimeUp, taken, stops>>
foundVars ==
    <<role, up, upFor, target, beat, host, heard, asked, said, losses, endpoint,
      status, scanned>>
watchedVars ==
    <<viewState, peer, polling, age, store, scheduled, viewWire, opening,
      pinged, alive, sent, queued, lost, resets, connects>>
allVars == <<part, sendVars, uploadVars, foundVars, watchedVars>>
-----------------------------------------------------------------------------
MCInit ==
    /\ part \in {"sendPath", "upload", "discovery", "monitor"}
    /\ SendPath!Init /\ Upload!Init /\ Found!Init /\ Watched!Init
    /\ part # "discovery" => role = "uav"

MCNext ==
    /\ UNCHANGED part
    /\ \/ /\ part = "sendPath" /\ SendPath!Next
          /\ UNCHANGED <<uploadVars, foundVars, watchedVars>>
       \/ /\ part = "upload" /\ Upload!Next
          /\ UNCHANGED <<sendVars, foundVars, watchedVars>>
       \/ /\ part = "discovery" /\ Found!Next
          /\ UNCHANGED <<sendVars, uploadVars, watchedVars>>
       \/ /\ part = "monitor" /\ Watched!Next
          /\ UNCHANGED <<sendVars, uploadVars, foundVars>>

(* The fairness of each part, for the behaviours that take that part.       *)
SendPathFairness ==
    /\ WF_sendVars(part = "sendPath" /\ SendPath!WorkerNext)
    /\ WF_sendVars(part = "sendPath" /\ SendPath!MainProceeds)

UploadFairness ==
    /\ WF_uploadVars(part = "upload" /\ Upload!BytesWritten)
    /\ WF_uploadVars(part = "upload" /\ Upload!ManagerReads)
    /\ \A k \in Upload!Links :
          /\ WF_uploadVars(part = "upload" /\ Upload!NodeReads(k))
          /\ WF_uploadVars(part = "upload" /\ Upload!ThreadApplies(k))
          /\ WF_uploadVars(part = "upload" /\ Upload!ThreadAnswers(k))

DiscoveryFairness ==
    /\ WF_foundVars(part = "discovery" /\ Found!Heartbeat)
    /\ WF_foundVars(part = "discovery" /\ Found!Tick)
    /\ WF_foundVars(part = "discovery" /\ Found!Connected)
    /\ WF_foundVars(part = "discovery" /\ Found!ConnectFails)
    /\ WF_foundVars(part = "discovery" /\ Found!CheckOffline)
    /\ WF_foundVars(part = "discovery" /\ \E p \in said : Found!OnPresence(p))

MonitorFairness ==
    /\ WF_watchedVars(part = "monitor" /\ Watched!Connected)
    /\ WF_watchedVars(part = "monitor" /\ Watched!ConnectFails)
    /\ WF_watchedVars(part = "monitor" /\ Watched!Poll)

MCSpec ==
    /\ MCInit /\ [][MCNext]_allVars
    /\ SendPathFairness /\ UploadFairness /\ DiscoveryFairness
    /\ MonitorFairness
-----------------------------------------------------------------------------
(* Whoever waits for an answer gets one: an upload that was begun is        *)
(* answered, at the latest when its connection is given up, and the result  *)
(* of a round reaches the client that is connected (FileTransfer,           *)
(* NoUploadLeftUnanswered; PcSendPath, NoResultWaitsForEver).               *)
NobodyWaitsForEver ==
    Upload!NoUploadLeftUnanswered /\ SendPath!NoResultWaitsForEver

(* A peer that has fallen silent is given up, by the Manager's offline      *)
(* check and by the Monitor's poll timer, so that neither shows a dead node *)
(* as connected for ever (Discovery, GoneNodeIsDropped; MonitorLink,        *)
(* SilentNodeIsDropped).                                                    *)
SilentPeersAreDropped ==
    Found!GoneNodeIsDropped /\ Watched!SilentNodeIsDropped

(* What a PC node has queued is on its way to the socket, and a client that *)
(* hears a round was completed may rely on all of it having been written,   *)
(* unless a RoundStart has wiped a fault before the round was told.         *)
NoDatagramStranded == SendPath!NoDatagramStranded /\ SendPath!CompletedIsWritten

(* An upload is taken whole or not at all, and what is buffered for it      *)
(* stays within the limit.                                                  *)
AcceptedUploadIsWhole == Upload!AcceptedUploadIsWhole /\ Upload!BacklogBounded

(* A node that lives stays connected.                                       *)
LivingNodeStaysConnected == Found!LivingNodeStaysConnected

(* A Monitor holds the records of the node it watches, and no metric is     *)
(* missing among them but those that a full queue or store has given up.    *)
MetricsWithoutHole == Watched!MetricsWithoutHole /\ Watched!StoresOfWatchedNode
=============================================================================
