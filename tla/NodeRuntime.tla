------------------------------ MODULE NodeRuntime ------------------------------
(***************************************************************************)
(* AuthenticationNodeRuntime: the control calls of a node, dispatched to    *)
(* the sender and the receiver runtime, and the archive of results.         *)
(*                                                                         *)
(* m_mtxConfig guards the sender context and the archive contexts.  Calls   *)
(* that change the sender keep it while they stop and join the sender's     *)
(* worker; whoever reports a result takes it to look up the archive.  The   *)
(* runtimes themselves are reduced to what the node runtime sees of them:   *)
(* when they run, when a worker is gone, what a result belongs to.          *)
(*                                                                         *)
(* stop of the sender joins its worker without a lock.  Two threads that    *)
(* are in the join of one std::thread at the same time are a data race: it  *)
(* may go well, and it may end the process, because the second join throws  *)
(* out of a function that is noexcept (JoinsOverlap).                       *)
(***************************************************************************)
EXTENDS Naturals, FiniteSets

CONSTANTS
    Clients,    \* threads of the management server that carry control calls
    Service,    \* the thread that calls stop of the node agent
    OwnChains,  \* key chains this node may be configured to send with
    PeerChains, \* key chains of the senders it may be told to trust
    MaxRounds,  \* bound: start commands
    MaxCalls    \* bound: control calls

ASSUME NodeAssumption ==
    /\ Service \notin Clients /\ "free" \notin Clients \cup {Service}
    /\ OwnChains \subseteq Nat \ {0} /\ PeerChains \subseteq Nat \ {0}
    /\ OwnChains \cap PeerChains = {}
    /\ MaxRounds \in Nat /\ MaxCalls \in Nat

VARIABLES
    lock,      \* the thread that holds m_mtxConfig, or "free"
    context,   \* chain of m_optSenderContext, 0 when there is none
    archive,   \* m_mapArchiveContexts: chain |-> fault plan noted for it
    sender,    \* AuthenticationSenderRuntime
    receiver,  \* AuthenticationReceiverRuntime
    call,      \* call[t]: the control call thread t is carrying out
    answer,    \* answer[t]: the acknowledgement of the last call
    results,   \* what the control event handler got
    silenced,  \* history: results given up by a call that reports nothing
    opened,    \* history: results that rounds have been started for
    rounds, calls, \* history: bounds
    terminated \* the process was ended by std::terminate

nodeVars == <<lock, context, archive, sender, receiver, call, answer, results, silenced,
              opened, rounds, calls>>
vars == <<nodeVars, terminated>>

Threads == Clients \cup {Service}
Chains == OwnChains \cup PeerChains

Idle == [op |-> "none", at |-> "idle", arg |-> {}, was |-> FALSE]
NoAnswer == [op |-> "none", ok |-> TRUE]

(* The sender: its flags under m_mtxState, and where its worker is.  report *)
(* is the result callback, which has to archive before it hands out.        *)
(* joinable is m_thrWorker.joinable(): started and not joined yet.          *)
NoSender == [payload |-> 0, fault |-> FALSE, running |-> FALSE, hold |-> FALSE,
             stopping |-> FALSE, round |-> 0, worker |-> "off", joinable |-> FALSE]

(* The receiver: contexts, those still active, and results that its worker  *)
(* or a stopping thread has collected and not handed out yet.               *)
NoReceiver == [contexts |-> {}, active |-> {}, hold |-> FALSE, round |-> 0,
               batch |-> {}]

Init ==
    /\ lock = "free" /\ context = 0
    /\ archive = [c \in {} |-> FALSE]
    /\ sender = NoSender /\ receiver = NoReceiver
    /\ call = [t \in Threads |-> Idle]
    /\ answer = [t \in Threads |-> NoAnswer]
    /\ results = {} /\ silenced = {} /\ opened = {}
    /\ rounds = 0 /\ calls = 0 /\ terminated = FALSE
-----------------------------------------------------------------------------
(* Bookkeeping of calls. *)

At(t, op, at) == call[t].op = op /\ call[t].at = at
Goto(t, at) == call' = [call EXCEPT ![t].at = at]

Answer(t, ok) ==
    /\ call' = [call EXCEPT ![t] = Idle]
    /\ answer' = [answer EXCEPT ![t] = [op |-> call[t].op, ok |-> ok]]

Counted == calls < MaxCalls /\ calls' = calls + 1

Begin(t, op, at, arg) ==
    /\ call[t] = Idle /\ Counted
    /\ call' = [call EXCEPT ![t] = [op |-> op, at |-> at, arg |-> arg, was |-> FALSE]]
    /\ answer' = [answer EXCEPT ![t] = NoAnswer]

SenderResult == [round |-> sender.round, role |-> "sender", chain |-> sender.payload]
ReceiverResult(c) == [round |-> receiver.round, role |-> "receiver", chain |-> c]

(* emitResult looks up the archive context under the lock; a missing one    *)
(* only costs the archive, not the result.                                  *)
Noted(res) ==
    IF res.chain \in DOMAIN archive
    THEN IF archive[res.chain] THEN "fault" ELSE "none"
    ELSE "unarchived"

Emitted(res, applied) ==
    results \cup {[res |-> res, applied |-> applied, noted |-> Noted(res)]}
-----------------------------------------------------------------------------
(* The sender's worker.  It reports its outcome unless it was stopped; a    *)
(* late worker reports the overrun even then.                               *)
SenderEnds ==
    /\ sender.worker = "run"
    /\ \/ sender' = [sender EXCEPT !.worker = "report"]
       \/ /\ sender.stopping
          /\ sender' = [sender EXCEPT !.worker = "exit"]
    /\ UNCHANGED <<lock, context, archive, receiver, call, answer, results, silenced,
                   opened, rounds, calls>>

SenderReports ==
    /\ sender.worker = "report"
    /\ lock = "free"
    /\ results' = IF sender.payload # 0 THEN Emitted(SenderResult, sender.fault)
                  ELSE results
    /\ sender' = [sender EXCEPT !.worker = "exit"]
    /\ UNCHANGED <<lock, context, archive, receiver, call, answer, silenced, opened,
                   rounds, calls>>

SenderExits ==
    /\ sender.worker = "exit"
    /\ sender' = [sender EXCEPT !.worker = "off", !.running = FALSE, !.hold = FALSE]
    /\ UNCHANGED <<lock, context, archive, receiver, call, answer, results, silenced,
                   opened, rounds, calls>>

(* The receiver's worker ends a context and hands the result out later. *)
ReceiverEnds(c) ==
    /\ c \in receiver.active
    /\ receiver' = [receiver EXCEPT !.active = @ \ {c},
                                    !.hold = @ /\ receiver.active # {c},
                                    !.batch = @ \cup {ReceiverResult(c)}]
    /\ UNCHANGED <<lock, context, archive, sender, call, answer, results, silenced,
                   opened, rounds, calls>>

ReceiverReports(res) ==
    /\ res \in receiver.batch
    /\ lock = "free"
    /\ results' = Emitted(res, FALSE)
    /\ receiver' = [receiver EXCEPT !.batch = @ \ {res}]
    /\ UNCHANGED <<lock, context, archive, sender, call, answer, silenced, opened,
                   rounds, calls>>
-----------------------------------------------------------------------------
(* SENDER_AUTH_CONFIG: the check for a running round comes before the lock. *)

SenderConfigBegins(t, c) ==
    /\ Begin(t, "senderConfig", "check", {c})
    /\ UNCHANGED <<lock, context, archive, sender, receiver, results, silenced, opened,
                   rounds>>

(* Defect: no such check. *)
SenderConfigUnchecked(t) ==
    /\ At(t, "senderConfig", "check")
    /\ Goto(t, "lock")
    /\ UNCHANGED <<lock, context, archive, sender, receiver, answer, results, silenced,
                   opened, rounds, calls>>

SenderConfigChecks(t) ==
    /\ At(t, "senderConfig", "check")
    /\ IF sender.running THEN Answer(t, FALSE)
       ELSE Goto(t, "lock") /\ UNCHANGED answer
    /\ UNCHANGED <<lock, context, archive, sender, receiver, results, silenced, opened,
                   rounds, calls>>

(* stop(false) of the sender, as far as its join. *)
StopSilently == sender' = [sender EXCEPT !.stopping = TRUE]

SenderGone == sender.worker = "off"

(* What stop(false) gives up: the result of a round that had not reported. *)
UnreportedBySender ==
    {r \in opened : r.role = "sender" /\ r.round = sender.round}

SenderConfigLocks(t) ==
    /\ At(t, "senderConfig", "lock")
    /\ lock = "free"
    /\ lock' = t
    /\ StopSilently
    /\ Goto(t, "join")
    /\ UNCHANGED <<context, archive, receiver, answer, results, silenced, opened,
                   rounds, calls>>

ResetConfiguration == [NoSender EXCEPT !.stopping = TRUE]

SenderConfigApplies(t) ==
    /\ At(t, "senderConfig", "join")
    /\ SenderGone
    /\ context' \in call[t].arg
    /\ archive' = [x \in (DOMAIN archive \ OwnChains) \cup call[t].arg |->
                      IF x \in call[t].arg THEN FALSE ELSE archive[x]]
    /\ sender' = ResetConfiguration
    /\ silenced' = silenced \cup UnreportedBySender
    /\ lock' = "free"
    /\ Answer(t, TRUE)
    /\ UNCHANGED <<receiver, results, opened, rounds, calls>>
-----------------------------------------------------------------------------
(* TEXT_PAYLOAD and a completed file upload: no look at a running round.    *)

PayloadBegins(t, c) ==
    /\ Begin(t, "payload", "lock", {c})
    /\ UNCHANGED <<lock, context, archive, sender, receiver, results, silenced, opened,
                   rounds>>

PayloadLocks(t) ==
    /\ At(t, "payload", "lock")
    /\ lock = "free"
    /\ IF call[t].arg # {context}
       THEN Answer(t, FALSE) /\ UNCHANGED <<lock, sender>>
       ELSE lock' = t /\ StopSilently /\ Goto(t, "join") /\ UNCHANGED answer
    /\ UNCHANGED <<context, archive, receiver, results, silenced, opened, rounds,
                   calls>>

(* configure of the sender refuses a schedule it cannot keep; by then the   *)
(* round has been stopped.  It does not touch the fault plan.               *)
PayloadApplies(t, feasible) ==
    /\ At(t, "payload", "join")
    /\ SenderGone
    /\ sender' = [sender EXCEPT !.running = FALSE, !.hold = FALSE, !.joinable = FALSE,
                                !.payload = IF feasible THEN context ELSE @]
    /\ silenced' = silenced \cup UnreportedBySender
    /\ lock' = "free"
    /\ Answer(t, feasible)
    /\ UNCHANGED <<context, archive, receiver, results, opened, rounds, calls>>
-----------------------------------------------------------------------------
(* RECEIVER_AUTH_CONTEXTS: the runtime is configured without the lock, the  *)
(* archive is brought up to date under it afterwards.                       *)

ReceiverConfigBegins(t, cs) ==
    /\ Begin(t, "receiverConfig", "check", cs)
    /\ UNCHANGED <<lock, context, archive, sender, receiver, results, silenced, opened,
                   rounds>>

ReceiverConfigChecks(t) ==
    /\ At(t, "receiverConfig", "check")
    /\ IF receiver.active # {} THEN Answer(t, FALSE)
       ELSE Goto(t, "configure") /\ UNCHANGED answer
    /\ UNCHANGED <<lock, context, archive, sender, receiver, results, silenced, opened,
                   rounds, calls>>

ReceiverConfigApplies(t) ==
    /\ At(t, "receiverConfig", "configure")
    /\ receiver' = [receiver EXCEPT !.contexts = call[t].arg, !.active = {},
                                    !.hold = FALSE]
    /\ silenced' = silenced \cup {ReceiverResult(c) : c \in receiver.active}
    /\ Goto(t, "lock")
    /\ UNCHANGED <<lock, context, archive, sender, answer, results, opened, rounds,
                   calls>>

(* Defect: the local chain is evicted with the others. *)
KeptForReceivers == receiver.contexts
KeptInArchive ==
    receiver.contexts \cup (IF context # 0 THEN {context} ELSE {})

ReceiverConfigArchives(t) ==
    /\ At(t, "receiverConfig", "lock")
    /\ lock = "free"
    /\ archive' = [x \in (DOMAIN archive \cap KeptInArchive) \cup receiver.contexts |->
                      IF x \in receiver.contexts THEN FALSE ELSE archive[x]]
    /\ Answer(t, TRUE)
    /\ UNCHANGED <<lock, context, sender, receiver, results, silenced, opened, rounds,
                   calls>>

(* FAULT_INJECTION_CONFIG, for the current chain of an idle prepared sender. *)
Fault(t, c) ==
    /\ call[t] = Idle /\ Counted
    /\ lock = "free"
    /\ LET ok == /\ context = c /\ sender.payload # 0 /\ ~sender.running
       IN  /\ sender' = [sender EXCEPT !.fault = @ \/ ok]
           /\ archive' = IF ok /\ c \in DOMAIN archive
                         THEN [archive EXCEPT ![c] = TRUE] ELSE archive
           /\ answer' = [answer EXCEPT ![t] = [op |-> "fault", ok |-> ok]]
    /\ UNCHANGED <<lock, context, receiver, call, results, silenced, opened, rounds>>
-----------------------------------------------------------------------------
(* ROUND_START: the receiver first, then the sender.  Either may find the   *)
(* start time too near; then both are stopped.  No lock is taken.           *)

StartUnsynchronized(t) ==
    /\ call[t] = Idle /\ Counted
    /\ answer' = [answer EXCEPT ![t] = [op |-> "unsynchronized", ok |-> FALSE]]
    /\ UNCHANGED <<lock, context, archive, sender, receiver, call, results, silenced,
                   opened, rounds>>

Configured == sender.payload # 0 \/ receiver.contexts # {}

StartBegins(t, late) ==
    /\ rounds < MaxRounds
    /\ rounds' = rounds + 1
    /\ LET refused == ~Configured \/ (receiver.contexts # {} /\ late)
           next == IF refused THEN "stopSender"
                   ELSE IF sender.payload # 0 THEN "request" ELSE "done"
           now == [receiver EXCEPT !.active = receiver.contexts, !.hold = FALSE,
                                   !.round = rounds + 1]
       IN  /\ Begin(t, IF refused THEN "startFails" ELSE "start", next, {rounds + 1})
           /\ IF refused \/ receiver.contexts = {}
              THEN UNCHANGED <<receiver, opened, silenced>>
              ELSE /\ receiver' = now
                   /\ opened' = opened \cup {[round |-> rounds + 1, role |-> "receiver",
                                              chain |-> c] : c \in receiver.contexts}
                   /\ silenced' = silenced \cup {ReceiverResult(c) : c \in receiver.active}
    /\ UNCHANGED <<lock, context, archive, sender, results>>

StartRequests(t) ==
    /\ At(t, "start", "request")
    /\ StopSilently
    /\ Goto(t, "join")
    /\ UNCHANGED <<lock, context, archive, receiver, answer, results, silenced, opened,
                   rounds, calls>>

StartSender(t, late) ==
    /\ At(t, "start", "join")
    /\ SenderGone
    /\ silenced' = silenced \cup UnreportedBySender
    /\ LET refused == late \/ sender.payload = 0
           serial == CHOOSE r \in call[t].arg : TRUE
           started == [round |-> serial, role |-> "sender", chain |-> sender.payload]
       IN  IF refused
           THEN /\ sender' = [sender EXCEPT !.running = FALSE, !.hold = FALSE,
                                            !.joinable = FALSE]
                /\ call' = [call EXCEPT ![t].op = "startFails", ![t].at = "stopSender"]
                /\ UNCHANGED opened
           ELSE /\ sender' = [sender EXCEPT !.running = TRUE, !.hold = FALSE,
                                            !.stopping = FALSE, !.worker = "run",
                                            !.round = serial, !.joinable = TRUE]
                /\ opened' = opened \cup {started}
                /\ Goto(t, "done")
    /\ UNCHANGED <<lock, context, archive, receiver, answer, results, rounds, calls>>

StartDone(t) ==
    /\ At(t, "start", "done")
    /\ Answer(t, TRUE)
    /\ UNCHANGED <<lock, context, archive, sender, receiver, results, silenced, opened,
                   rounds, calls>>
-----------------------------------------------------------------------------
(* stop of both runtimes: by ROUND_STOP, by a start that failed, and by the *)
(* service.  The sender's result is archived like any other, on this thread. *)

Stoppers == {"stop", "startFails", "serviceStop"}

StopBegins(t) ==
    /\ Begin(t, IF t = Service THEN "serviceStop" ELSE "stop", "stopSender", {})
    /\ UNCHANGED <<lock, context, archive, sender, receiver, results, silenced, opened,
                   rounds>>

StopRequests(t) ==
    /\ call[t].op \in Stoppers /\ call[t].at = "stopSender"
    /\ call' = [call EXCEPT ![t].at = "stopJoin", ![t].was = sender.running]
    /\ StopSilently
    /\ UNCHANGED <<lock, context, archive, receiver, answer, results, silenced, opened,
                   rounds, calls>>

StopJoins(t) ==
    /\ call[t].at = "stopJoin"
    /\ SenderGone
    /\ sender' = [sender EXCEPT !.joinable = FALSE]
    /\ Goto(t, IF call[t].was THEN "stopReport" ELSE "stopClear")
    /\ UNCHANGED <<lock, context, archive, receiver, answer, results, silenced,
                   opened, rounds, calls>>

StopReports(t) ==
    /\ call[t].at = "stopReport"
    /\ lock = "free"
    /\ results' = IF sender.payload # 0 THEN Emitted(SenderResult, sender.fault)
                  ELSE results
    /\ Goto(t, "stopClear")
    /\ UNCHANGED <<lock, context, archive, sender, receiver, answer, silenced, opened,
                   rounds, calls>>

StopClears(t) ==
    /\ call[t].at = "stopClear"
    /\ sender' = [sender EXCEPT !.running = FALSE, !.hold = FALSE]
    /\ Goto(t, "stopReceiver")
    /\ UNCHANGED <<lock, context, archive, receiver, answer, results, silenced, opened,
                   rounds, calls>>

(* Defects: a failed start leaves the receiver alone; the results are *)
(* not collected.                                                           *)
StopReceiverUnlessFailed(t) ==
    /\ call[t].at = "stopReceiver"
    /\ receiver' = IF call[t].op = "startFails" THEN receiver
                   ELSE [receiver EXCEPT
                      !.active = {}, !.hold = FALSE,
                      !.batch = @ \cup {ReceiverResult(c) : c \in receiver.active}]
    /\ Goto(t, "stopDeliver")
    /\ UNCHANGED <<lock, context, archive, sender, answer, results, silenced, opened,
                   rounds, calls>>
StopReceiverSilently(t) ==
    /\ call[t].at = "stopReceiver"
    /\ receiver' = [receiver EXCEPT !.active = {}, !.hold = FALSE]
    /\ Goto(t, "stopDeliver")
    /\ UNCHANGED <<lock, context, archive, sender, answer, results, silenced, opened,
                   rounds, calls>>

StopReceiver(t) ==
    /\ call[t].at = "stopReceiver"
    /\ receiver' = [receiver EXCEPT
                      !.active = {}, !.hold = FALSE,
                      !.batch = @ \cup {ReceiverResult(c) : c \in receiver.active}]
    /\ Goto(t, "stopDeliver")
    /\ UNCHANGED <<lock, context, archive, sender, answer, results, silenced, opened,
                   rounds, calls>>

(* clearFault belongs to ROUND_STOP and does nothing while a round runs. *)
FaultKept(t) == call[t].op # "stop" \/ sender.running

(* The results are handed out before the call returns; only ROUND_STOP      *)
(* clears the fault plan, and only in the runtime.                          *)
StopAnswers(t) ==
    /\ call[t].at = "stopDeliver"
    /\ receiver.batch = {}
    /\ sender' = [sender EXCEPT !.fault = @ /\ FaultKept(t)]
    /\ Answer(t, call[t].op # "startFails")
    /\ UNCHANGED <<lock, context, archive, receiver, results, silenced, opened, rounds,
                   calls>>
-----------------------------------------------------------------------------
(* ROUND_PAUSE and ROUND_RESUME: the sender first, then the receiver; each  *)
(* may refuse, and what the first accepted is not taken back.               *)

RoundCommandBegins(t, op) ==
    /\ Begin(t, op, "toSender", {})
    /\ UNCHANGED <<lock, context, archive, sender, receiver, results, silenced, opened,
                   rounds>>

ToSender(t, refuses) ==
    /\ call[t].at = "toSender"
    /\ LET reached == sender.running
           held == call[t].op = "pause"
       IN  IF reached /\ refuses
           THEN Answer(t, FALSE) /\ UNCHANGED sender
           ELSE /\ sender' = IF reached THEN [sender EXCEPT !.hold = held] ELSE sender
                /\ Goto(t, "toReceiver")
                /\ UNCHANGED answer
    /\ UNCHANGED <<lock, context, archive, receiver, results, silenced, opened, rounds,
                   calls>>

(* Defect: a refusal of the receiver is not passed on. *)
ToReceiverUnheard(t, refuses) ==
    /\ call[t].at = "toReceiver"
    /\ LET reached == receiver.active # {} /\ ~refuses
       IN  receiver' = IF reached THEN [receiver EXCEPT !.hold = (call[t].op = "pause")]
                       ELSE receiver
    /\ Answer(t, TRUE)
    /\ UNCHANGED <<lock, context, archive, sender, results, silenced, opened, rounds,
                   calls>>

ToReceiver(t, refuses) ==
    /\ call[t].at = "toReceiver"
    /\ LET reached == receiver.active # {}
       IN  /\ receiver' = IF reached /\ ~refuses
                          THEN [receiver EXCEPT !.hold = (call[t].op = "pause")]
                          ELSE receiver
           /\ Answer(t, ~(reached /\ refuses))
    /\ UNCHANGED <<lock, context, archive, sender, results, silenced, opened, rounds,
                   calls>>
-----------------------------------------------------------------------------
SenderWorker == SenderEnds \/ SenderReports \/ SenderExits
ReceiverWorker ==
    \/ \E c \in PeerChains : ReceiverEnds(c)
    \/ \E res \in receiver.batch : ReceiverReports(res)

CallBegins(t) ==
    \/ \E c \in OwnChains : SenderConfigBegins(t, c) \/ PayloadBegins(t, c) \/ Fault(t, c)
    \/ \E cs \in SUBSET PeerChains \ {{}} : ReceiverConfigBegins(t, cs)
    \/ StartUnsynchronized(t)
    \/ \E late \in BOOLEAN : StartBegins(t, late)
    \/ StopBegins(t)
    \/ \E op \in {"pause", "resume"} : RoundCommandBegins(t, op)

CallProceeds(t) ==
    \/ SenderConfigChecks(t) \/ SenderConfigLocks(t) \/ SenderConfigApplies(t)
    \/ PayloadLocks(t) \/ (\E feasible \in BOOLEAN : PayloadApplies(t, feasible))
    \/ ReceiverConfigChecks(t) \/ ReceiverConfigApplies(t) \/ ReceiverConfigArchives(t)
    \/ StartRequests(t) \/ (\E late \in BOOLEAN : StartSender(t, late)) \/ StartDone(t)
    \/ StopRequests(t) \/ StopJoins(t) \/ StopReports(t) \/ StopClears(t)
    \/ StopReceiver(t) \/ StopAnswers(t)
    \/ \E refuses \in BOOLEAN : ToSender(t, refuses) \/ ToReceiver(t, refuses)

(* The service stops the node once. *)
ServiceStops == answer[Service] = NoAnswer /\ StopBegins(Service)

Step ==
    \/ SenderWorker \/ ReceiverWorker
    \/ \E t \in Clients : CallBegins(t)
    \/ ServiceStops
    \/ \E t \in Threads : CallProceeds(t)

(* Between joinable() and join() of the sender's worker. *)
Joining(t) == call[t].at \in {"join", "stopJoin"}

(* The thread object is written by whoever joins it and by a start. *)
HandleWritten(t, u) == sender.joinable \/ call[t].op = "start" \/ call[u].op = "start"

(* Two threads use the thread object at once and the process ends.  Where   *)
(* it goes well instead, the steps of the two are those of StopJoins,       *)
(* PayloadApplies, SenderConfigApplies and StartSender.                     *)
JoinsOverlap ==
    /\ \E t, u \in Threads :
          t # u /\ Joining(t) /\ Joining(u) /\ HandleWritten(t, u)
    /\ terminated' = TRUE
    /\ UNCHANGED nodeVars

Next ==
    /\ ~terminated
    /\ \/ Step /\ UNCHANGED terminated
       \/ JoinsOverlap

Spec == Init /\ [][Next]_vars

(* The node is not shut down while a round is being started; a shutdown     *)
(* that meets a start clears the flag of the round that begins.             *)
Starting == \E t \in Clients : call[t].op \in {"start", "startFails"}
ShutDownApartFromStart ==
    (Starting' => answer[Service] = NoAnswer /\ call'[Service] = Idle)

OrderlySpec == Init /\ [][Next /\ ShutDownApartFromStart]_vars
-----------------------------------------------------------------------------
TypeOK ==
    /\ lock \in Threads \cup {"free"}
    /\ context \in OwnChains \cup {0}
    /\ DOMAIN archive \subseteq Chains
    /\ sender.payload \in OwnChains \cup {0}
    /\ sender.worker \in {"off", "run", "report", "exit"}
    /\ sender.hold => sender.running
    /\ sender.worker # "off" => sender.joinable
    /\ lock # "free" => call[lock].at = "join"
    /\ receiver.contexts \subseteq PeerChains
    /\ receiver.active \subseteq receiver.contexts

(* A result is handed out even when it cannot be archived, and archiving    *)
(* never keeps it back: the worker that reports never waits for a call that *)
(* waits for the worker (emitResult and its comment on archiving).          *)
ArchiveNeverBlocks ==
    sender.worker = "report" /\ lock # "free" => call[lock].at # "join"

(* A round that ran under a fault plan is never archived without it.        *)
FaultIsNoted == \A r \in results : r.applied => r.noted = "fault"

(* A start that is refused leaves nothing behind, although the receiver may *)
(* have been started already (msgApplyRoundCommand).                        *)
RefusedStartIsUndone ==
    \A t \in Clients : answer[t] = [op |-> "startFails", ok |-> FALSE]
        => sender.worker = "off" /\ ~sender.running /\ receiver.active = {}

(* An accepted pause holds for both roles of the node.                      *)
PauseHoldsBoth ==
    \A t \in Clients : answer[t] = [op |-> "pause", ok |-> TRUE]
        => /\ sender.running => sender.hold
           /\ receiver.active # {} => receiver.hold

(* Once everything is quiet, each round that was started has reported, for  *)
(* every role and chain, unless a later call took its place.  A process     *)
(* that overlapping joins have ended is never quiet.                        *)
AllReported ==
    /\ sender.worker = "off" /\ receiver.active = {} /\ receiver.batch = {}
    /\ \A t \in Threads : call[t] = Idle
    => opened \subseteq {r.res : r \in results} \cup silenced

(* Every control call is answered and stop of the service returns, unless   *)
(* two threads were in the join of the sender's worker at once and that     *)
(* ended the process (stop, configure, start of the sender).                *)
EveryCallAnswered ==
    \A t \in Threads : call[t] # Idle ~> call[t] = Idle \/ terminated
=============================================================================
