----------------------------- MODULE ManagerRound -----------------------------
(***************************************************************************)
(* The Manager's coordination of a round over its participants: the        *)
(* requests that configure them, the fault plan, the start with its roll   *)
(* back, pause, resume and stop, and the results and drain confirmations   *)
(* that let the Manager call the round complete                            *)
(* (gui/manager/ManagerAuthenticationController.cpp, with the buttons of   *)
(* ManagerMainWindow.cpp that call it).                                    *)
(*                                                                         *)
(* The Manager runs in one Qt thread, so every handler is one step.  The   *)
(* participants are reached over TCP links that keep order and lose what   *)
(* is under way when they break.  What a participant does with a message   *)
(* is its contract, checked in NodeRuntime and ManagementServer: it        *)
(* answers every request, and once it has accepted a start it reports each *)
(* of its results and then, on a node agent, that its queues are drained.  *)
(***************************************************************************)
EXTENDS Naturals, FiniteSets, Sequences, SequencesExt

CONSTANTS
    Endpoints,      \* the endpoints of UAV and PC nodes the Manager knows
    PcNodes,        \* those that run the PC GUI instead of the node agent
    SenderChoices,  \* the sets of Senders an operator may select
    TesterPresent,  \* whether an attack tester was discovered
    Budgets         \* what one behaviour may use of rounds, plans, commands and breaks

ASSUME NodesAssumption ==
    /\ IsFiniteSet(Endpoints) /\ PcNodes \subseteq Endpoints /\ SenderChoices \subseteq SUBSET Endpoints
    /\ Budgets \subseteq [rounds : Nat, plans : Nat, commands : Nat, breaks : Nat]

VARIABLES
    prepared,   \* m_bPreparedConfigurationCurrent of the window
    mgr,        \* the members of the controller, see MgrType
    link,       \* link[n]: the TCP connection to n is up
    toNode,     \* toNode[n]: control messages under way to n
    toMgr,      \* toMgr[n]: control messages under way from n
    node,       \* node[n]: what participant n has accepted, what it owes
    budget      \* what is left of each bound

vars == <<prepared, mgr, link, toNode, toMgr, node, budget>>

NoRound == 0
NoPlan == 0

(***************************************************************************)
(* The requests of one preparation.  Each Sender gets its configuration    *)
(* and its payload, each node that hears another Sender gets its contexts  *)
(* and, when a tester was discovered, one source mapping per context.      *)
(***************************************************************************)
Heard(n, senders) == senders \ {n}

SenderRequests(r, senders) ==
    [round : {r}, node : senders, kind : {"sender", "payload"}, about : {NoPlan}]

ReceiverRequests(r, parts, senders) ==
    {[round |-> r, node |-> n, kind |-> "receiver", about |-> NoPlan] :
        n \in {m \in parts : Heard(m, senders) # {}}}

MappingRequests(r, parts, senders) ==
    IF ~TesterPresent THEN {}
    ELSE {[round |-> r, node |-> p[1], kind |-> "mapping", about |-> p[2]] :
            p \in {q \in parts \X senders : q[1] # q[2]}}

Requests(r, parts, senders) ==
    SenderRequests(r, senders) \cup ReceiverRequests(r, parts, senders)
        \cup MappingRequests(r, parts, senders)

(***************************************************************************)
(* A result is known to the Manager by endpoint, role and Sender.          *)
(***************************************************************************)
ResultsOf(n, senders) ==
    {<<n, "Sender", s>> : s \in senders \cap {n}}
        \cup {<<n, "Receiver", s>> : s \in Heard(n, senders)}

ExpectedResults(parts, senders) ==
    Cardinality(UNION {ResultsOf(n, senders) : n \in parts})

\* Messages to a node: a request, a fault plan, a round command.
Ask(req) == [type |-> "Ask", req |-> req]
Plan(r, p) == [type |-> "Plan", round |-> r, plan |-> p]
Command(c, r, senders) == [type |-> c, round |-> r, senders |-> senders]

\* Messages to the Manager.
Answer(req, ok) == [type |-> "Answer", req |-> req, ok |-> ok]
PlanAnswer(p, ok) == [type |-> "PlanAnswer", plan |-> p, ok |-> ok]
Result(r, key) == [type |-> "Result", round |-> r, key |-> key]
Drained(r) == [type |-> "Drained", round |-> r]

(***************************************************************************)
(* resetPreparedRound: everything but m_bRoundRunning.                     *)
(***************************************************************************)
Blank(m) ==
    [round |-> NoRound, parts |-> {}, senders |-> {}, pend |-> {}, rejected |-> FALSE,
     ready |-> FALSE, planned |-> NoPlan, pendPlan |-> NoPlan, planRejected |-> FALSE,
     planReady |-> FALSE, got |-> {}, drained |-> {}, expected |-> 0,
     running |-> m.running, paused |-> FALSE]

Init ==
    /\ prepared = FALSE
    /\ mgr = Blank([running |-> FALSE])
    /\ link = [n \in Endpoints |-> TRUE]
    /\ toNode = [n \in Endpoints |-> <<>>]
    /\ toMgr = [n \in Endpoints |-> <<>>]
    /\ node = [n \in Endpoints |-> [held |-> {}, plan |-> NoPlan, owes |-> {}, drain |-> NoRound,
                                acked |-> NoRound, paused |-> FALSE, refused |-> FALSE]]
    /\ budget \in Budgets

-----------------------------------------------------------------------------
(***************************************************************************)
(* Preparing.  The snapshots of the call name the connected nodes; all of  *)
(* them take part.                                                         *)
(***************************************************************************)
Connected == {n \in Endpoints : link[n]}

\* The messages a set of requests puts on the link of n, in the order of the loops.
AskedOf(n, reqs) ==
    LET asks(kind) == SetToSeq({Ask(q) : q \in {a \in reqs : a.node = n /\ a.kind = kind}})
    IN  asks("sender") \o asks("payload") \o asks("receiver") \o asks("mapping")

\* The Senders are asked before the Receivers; a refused send ends the loop.
SentBeforeFailure(reqs, sent) ==
    /\ sent \subseteq reqs /\ sent # reqs
    /\ (\E q \in sent : q.kind \in {"receiver", "mapping"}) =>
          {q \in reqs : q.kind \in {"sender", "payload"}} \subseteq sent
    /\ \A q \in sent : q.kind = "payload" => [q EXCEPT !.kind = "sender"] \in sent
    /\ \A q \in sent : q.kind = "mapping" => [q EXCEPT !.kind = "receiver", !.about = NoPlan] \in sent

\* The button is enabled while no round runs.
PrepareEnabled == ~mgr.running

PrepareDone(r, parts, senders) ==
    LET reqs == Requests(r, parts, senders)
    IN /\ prepared' = TRUE
       /\ mgr' = [Blank(mgr) EXCEPT !.round = r, !.parts = parts, !.senders = senders,
                                    !.pend = reqs, !.expected = ExpectedResults(parts, senders)]
       /\ toNode' = [n \in Endpoints |-> toNode[n] \o AskedOf(n, reqs)]

PrepareFails(r, parts, senders) ==
    /\ prepared' = FALSE
    /\ mgr' = Blank(mgr)
    /\ \E sent \in SUBSET Requests(r, parts, senders) :
          /\ SentBeforeFailure(Requests(r, parts, senders), sent)
          /\ toNode' = [n \in Endpoints |-> toNode[n] \o AskedOf(n, sent)]

Unacceptable(parts, senders) ==
    mgr.running \/ senders = {} \/ Cardinality(parts) < 2 \/ ~(senders \subseteq parts)

PrepareRound(senders) ==
    /\ PrepareEnabled /\ budget.rounds > 0
    /\ LET r == budget.rounds
       IN IF Unacceptable(Connected, senders)
          THEN prepared' = FALSE /\ mgr' = Blank(mgr) /\ UNCHANGED toNode
          ELSE PrepareDone(r, Connected, senders) \/ PrepareFails(r, Connected, senders)
    /\ budget' = [budget EXCEPT !.rounds = @ - 1]
    /\ UNCHANGED <<link, toMgr, node>>

\* An edit of the inputs makes the preparation stale for the window.
EditInputs ==
    /\ prepared
    /\ prepared' = FALSE
    /\ UNCHANGED <<mgr, link, toNode, toMgr, node, budget>>

-----------------------------------------------------------------------------
(***************************************************************************)
(* bConfigureFaultPlan for one of the Senders.                             *)
(***************************************************************************)
ConfigureFaultPlan(s) ==
    /\ mgr.ready /\ ~mgr.running /\ s \in mgr.senders /\ mgr.pendPlan = NoPlan
    /\ budget.plans > 0
    /\ LET p == budget.plans
           asked == [mgr EXCEPT !.planned = p, !.planReady = FALSE, !.planRejected = FALSE]
       IN IF link[s]
          THEN /\ mgr' = [asked EXCEPT !.pendPlan = p]
               /\ toNode' = [toNode EXCEPT ![s] = Append(@, Plan(mgr.round, p))]
          ELSE mgr' = [asked EXCEPT !.planRejected = TRUE] /\ UNCHANGED toNode
    /\ budget' = [budget EXCEPT !.plans = @ - 1]
    /\ UNCHANGED <<prepared, link, toMgr, node>>

\* bBroadcastRoundCommand reaches every participant whose link is up and
\* reports failure when one is not.
AllReached == \A n \in mgr.parts : link[n]

Broadcast(cmds) ==
    toNode' = [n \in Endpoints |->
        IF n \in mgr.parts /\ link[n]
        THEN toNode[n] \o [i \in DOMAIN cmds |-> Command(cmds[i], mgr.round, mgr.senders)]
        ELSE toNode[n]]

FaultPlanSettled == mgr.planned = NoPlan \/ mgr.planReady

StartEnabled == prepared /\ mgr.ready /\ FaultPlanSettled /\ ~mgr.running

StartAllowed ==
    /\ mgr.ready /\ ~mgr.running
    /\ mgr.pendPlan = NoPlan /\ ~mgr.planRejected /\ FaultPlanSettled

\* bStartRound: a start that does not reach everyone is rolled back by a Stop.
StartRound ==
    /\ StartEnabled
    /\ prepared' = FALSE
    /\ IF ~StartAllowed THEN UNCHANGED <<mgr, toNode>>
       ELSE IF AllReached
       THEN /\ Broadcast(<<"Start">>)
            /\ mgr' = [mgr EXCEPT !.got = {}, !.running = TRUE, !.paused = FALSE]
       ELSE /\ Broadcast(<<"Start", "Stop">>)
            /\ mgr' = [mgr EXCEPT !.got = {}]
    /\ UNCHANGED <<link, toMgr, node, budget>>

\* bPauseRound, while the pause boundary still lies within the round.
PauseRound ==
    /\ mgr.running /\ ~mgr.paused /\ budget.commands > 0
    /\ Broadcast(<<"Pause">>)
    /\ mgr' = [mgr EXCEPT !.paused = AllReached]
    /\ budget' = [budget EXCEPT !.commands = @ - 1]
    /\ UNCHANGED <<prepared, link, toMgr, node>>

ResumeRound ==
    /\ mgr.running /\ mgr.paused /\ budget.commands > 0
    /\ Broadcast(<<"Resume">>)
    /\ mgr' = [mgr EXCEPT !.paused = ~AllReached]
    /\ budget' = [budget EXCEPT !.commands = @ - 1]
    /\ UNCHANGED <<prepared, link, toMgr, node>>

StopRound ==
    /\ mgr.running /\ budget.commands > 0
    /\ Broadcast(<<"Stop">>)
    /\ mgr' = IF AllReached THEN [mgr EXCEPT !.running = FALSE, !.paused = FALSE] ELSE mgr
    /\ budget' = [budget EXCEPT !.commands = @ - 1]
    /\ UNCHANGED <<prepared, link, toMgr, node>>

-----------------------------------------------------------------------------
(***************************************************************************)
(* processNodeControlJson: the handler of each answer.                     *)
(***************************************************************************)
\* A configuration or mapping answer; one nobody waits for is ignored.
OnAnswer(m) ==
    LET left == mgr.pend \ {m.req}
    IN IF m.req \notin mgr.pend THEN mgr
       ELSE IF ~m.ok THEN [mgr EXCEPT !.pend = left, !.rejected = TRUE]
       ELSE [mgr EXCEPT !.pend = left, !.ready = @ \/ (left = {} /\ ~mgr.rejected)]

\* Defect: Any answer to a fault plan counts as consent.
OnPlanAnswerUnread(m) ==
    IF m.plan # mgr.pendPlan THEN mgr
    ELSE [mgr EXCEPT !.pendPlan = NoPlan, !.planReady = TRUE]

OnPlanAnswer(m) ==
    IF m.plan # mgr.pendPlan THEN mgr
    ELSE IF ~m.ok
    THEN [mgr EXCEPT !.pendPlan = NoPlan, !.planRejected = TRUE, !.planReady = FALSE]
    ELSE [mgr EXCEPT !.pendPlan = NoPlan, !.planReady = TRUE]

\* Defect: One result too many is waited for.
CompleteOneTooLate(m) ==
    IF m.running /\ Cardinality(m.got) > m.expected
         /\ Cardinality(m.drained) >= Cardinality(m.parts)
    THEN [m EXCEPT !.running = FALSE, !.paused = FALSE]
    ELSE m

\* completeRoundIfReady
Complete(m) ==
    IF m.running /\ Cardinality(m.got) >= m.expected
         /\ Cardinality(m.drained) >= Cardinality(m.parts)
    THEN [m EXCEPT !.running = FALSE, !.paused = FALSE]
    ELSE m

OnResult(m) ==
    IF m.round # mgr.round THEN mgr
    ELSE Complete([mgr EXCEPT !.got = @ \cup {m.key}])

\* Defect: The drain of any round is taken for this one's.
OnDrainedOfAnyRound(n, m) ==
    IF n \notin mgr.parts THEN mgr
    ELSE Complete([mgr EXCEPT !.drained = @ \cup {n}])

OnDrained(n, m) ==
    IF m.round # mgr.round \/ n \notin mgr.parts THEN mgr
    ELSE Complete([mgr EXCEPT !.drained = @ \cup {n}])

Handled(n, m) ==
    CASE m.type = "Answer" -> OnAnswer(m)
      [] m.type = "PlanAnswer" -> OnPlanAnswer(m)
      [] m.type = "Result" -> OnResult(m)
      [] m.type = "Drained" -> OnDrained(n, m)

ManagerReceives(n) ==
    /\ toMgr[n] # <<>>
    /\ mgr' = Handled(n, Head(toMgr[n]))
    /\ toMgr' = [toMgr EXCEPT ![n] = Tail(@)]
    /\ UNCHANGED <<prepared, link, toNode, node, budget>>

(***************************************************************************)
(* A link that breaks loses what is under way, and nodesChanged runs       *)
(* handleNodeStateChanged: a preparation with open requests is cancelled   *)
(* once one of its participants is gone.                                   *)
(***************************************************************************)
\* Defect: The disconnect of a participant goes unnoticed.
NeverCancelled(up) == mgr

Cancelled(up) ==
    IF (mgr.pend # {} \/ mgr.pendPlan # NoPlan) /\ ~(mgr.parts \subseteq up)
    THEN [mgr EXCEPT !.pend = {}, !.pendPlan = NoPlan, !.rejected = TRUE, !.ready = FALSE,
                     !.planRejected = TRUE, !.planReady = FALSE]
    ELSE mgr

LinkBreaks(n) ==
    /\ link[n] /\ budget.breaks > 0
    /\ link' = [link EXCEPT ![n] = FALSE]
    /\ toNode' = [toNode EXCEPT ![n] = <<>>]
    /\ toMgr' = [toMgr EXCEPT ![n] = <<>>]
    /\ mgr' = Cancelled(Connected \ {n})
    /\ budget' = [budget EXCEPT !.breaks = @ - 1]
    /\ UNCHANGED <<prepared, node>>

LinkRestored(n) ==
    /\ ~link[n]
    /\ link' = [link EXCEPT ![n] = TRUE]
    /\ UNCHANGED <<prepared, mgr, toNode, toMgr, node, budget>>

-----------------------------------------------------------------------------
(***************************************************************************)
(* The answers to round commands are only shown to the operator, so the    *)
(* model leaves them out.                                                  *)
(*                                                                         *)
(* The participants, by their contract.  A request of a newer preparation  *)
(* replaces what the node held of an older one.                            *)
(***************************************************************************)
Reply(n, m) == toMgr' = [toMgr EXCEPT ![n] = Append(@, m)]

HeldWith(n, req) == {q \in node[n].held : q.round = req.round} \cup {req}

NodeAnswers(n, m) ==
    \E ok \in BOOLEAN :
        /\ Reply(n, Answer(m.req, ok))
        /\ node' = IF ok THEN [node EXCEPT ![n].held = HeldWith(n, m.req)] ELSE node

NodeTakesPlan(n, m) ==
    \E ok \in BOOLEAN :
        /\ Reply(n, PlanAnswer(m.plan, ok))
        /\ node' = [node EXCEPT ![n].plan = IF ok THEN m.plan ELSE @]

NodeStarts(n, m) ==
    /\ \E ok \in BOOLEAN :
        node' = IF ok
                   THEN [node EXCEPT ![n].paused = FALSE, ![n].acked = NoRound,
                           ![n].owes = {Result(m.round, k) : k \in ResultsOf(n, m.senders)}]
                   ELSE [node EXCEPT ![n].refused = TRUE]
    /\ UNCHANGED toMgr

\* A pause or resume outside a round, or too late, is refused and changes nothing.
NodePauses(n, m) ==
    /\ \E ok \in BOOLEAN :
        node' = [node EXCEPT ![n].paused = IF ok THEN m.type = "Pause" ELSE @]
    /\ UNCHANGED toMgr

NodeStops(n, m) ==
    /\ node' = [node EXCEPT ![n].paused = FALSE]
    /\ UNCHANGED toMgr

NodeReceives(n) ==
    /\ toNode[n] # <<>>
    /\ LET m == Head(toNode[n])
       IN \/ m.type = "Ask" /\ NodeAnswers(n, m)
          \/ m.type = "Plan" /\ NodeTakesPlan(n, m)
          \/ m.type = "Start" /\ NodeStarts(n, m)
          \/ m.type \in {"Pause", "Resume"} /\ NodePauses(n, m)
          \/ m.type = "Stop" /\ NodeStops(n, m)
    /\ toNode' = [toNode EXCEPT ![n] = Tail(@)]
    /\ UNCHANGED <<prepared, mgr, link, budget>>

\* What a node sends while nobody is connected is lost.
Broadcasts(n, m) ==
    toMgr' = [toMgr EXCEPT ![n] = IF link[n] THEN Append(@, m) ELSE @]

\* The handler of a result in NodeAgentService: broadcast, then ask for the
\* drain.  The PC node's handler broadcasts only.
NodeReports(n) ==
    /\ ~node[n].paused
    /\ \E res \in node[n].owes :
          /\ Broadcasts(n, res)
          /\ node' = [node EXCEPT ![n].owes = @ \ {res},
                                  ![n].drain = IF n \in PcNodes THEN @ ELSE res.round]
    /\ UNCHANGED <<prepared, mgr, link, toNode, budget>>

NodeDrains(n) ==
    /\ node[n].drain # NoRound
    /\ Broadcasts(n, Drained(node[n].drain))
    /\ node' = [node EXCEPT ![n].drain = NoRound, ![n].acked = node[n].drain]
    /\ UNCHANGED <<prepared, mgr, link, toNode, budget>>

-----------------------------------------------------------------------------
Operator ==
    \/ \E S \in SenderChoices : PrepareRound(S)
    \/ EditInputs \/ \E s \in Endpoints : ConfigureFaultPlan(s)
    \/ StartRound \/ PauseRound \/ ResumeRound \/ StopRound

Next ==
    \/ Operator
    \/ \E n \in Endpoints : \/ ManagerReceives(n) \/ NodeReceives(n) \/ NodeReports(n)
                        \/ NodeDrains(n) \/ LinkBreaks(n) \/ LinkRestored(n)

Spec == Init /\ [][Next]_vars

\* The event loop of the Manager and the threads of the nodes keep running;
\* the operator and the network may do nothing.
Fairness ==
    \A n \in Endpoints : /\ WF_vars(ManagerReceives(n)) /\ WF_vars(NodeReceives(n))
                     /\ WF_vars(NodeReports(n)) /\ WF_vars(NodeDrains(n))

FairSpec == Spec /\ Fairness

-----------------------------------------------------------------------------
Keys == UNION {ResultsOf(n, S) : n \in Endpoints, S \in SenderChoices}

MgrType ==
    [round : Nat, parts : SUBSET Endpoints, senders : SUBSET Endpoints,
     pend : SUBSET UNION {Requests(mgr.round, mgr.parts, mgr.senders)},
     rejected : BOOLEAN, ready : BOOLEAN, planned : Nat, pendPlan : Nat,
     planRejected : BOOLEAN, planReady : BOOLEAN, got : SUBSET Keys,
     drained : SUBSET mgr.parts, expected : Nat, running : BOOLEAN, paused : BOOLEAN]

TypeOK ==
    /\ prepared \in BOOLEAN
    /\ mgr \in MgrType
    /\ mgr.senders \subseteq mgr.parts
    /\ mgr.paused => mgr.running
    /\ link \in [Endpoints -> BOOLEAN]

(***************************************************************************)
(* When the Manager calls the configuration ready, every participant holds *)
(* every request of this very preparation: an answer to an older one, a    *)
(* refusal among the answers or a link that broke in between never counts. *)
(***************************************************************************)
ReadyMeansHeld ==
    mgr.ready => Requests(mgr.round, mgr.parts, mgr.senders)
                    \subseteq UNION {node[n].held : n \in mgr.parts}

(***************************************************************************)
(* A round starts only on a preparation its participants hold and with the *)
(* last fault plan of that preparation in force at some Sender.            *)
(***************************************************************************)
Starts == ~mgr.running /\ mgr'.running

StartsAsPlanned ==
    [][Starts => /\ ReadyMeansHeld
                 /\ mgr.planned # NoPlan => \E s \in mgr.senders : node[s].plan = mgr.planned]_vars

(***************************************************************************)
(* No one pulls the preparation from under a running round: it keeps its   *)
(* participants until the Manager has left it.                             *)
(***************************************************************************)
RunningRoundIsWhole == mgr.running => mgr.parts # {} /\ mgr.expected > 0

(***************************************************************************)
(* The Manager leaves a round by itself only when no participant owes a    *)
(* result of it any more and each has confirmed its drain since the start  *)
(* of this round: results and confirmations of an earlier round, or of an  *)
(* earlier start, are never taken for it, and it still has its participants. *)
(***************************************************************************)
Completes == mgr.running /\ ~mgr'.running /\ toNode' = toNode

CompletionIsEarned ==
    [][Completes => /\ RunningRoundIsWhole
                  /\ \A n \in mgr.parts : node[n].owes = {} /\ node[n].acked = mgr.round]_vars

(***************************************************************************)
(* The window never waits for ever for the confirmation of a preparation   *)
(* or of a fault plan, even if a participant disappears.                   *)
(***************************************************************************)
NoEndlessWait == (mgr.pend # {} \/ mgr.pendPlan # NoPlan) ~> (mgr.pend = {} /\ mgr.pendPlan = NoPlan)

(***************************************************************************)
(* A round that every participant accepted, over links that hold, is left  *)
(* by the Manager without the operator, unless it is kept paused.          *)
(***************************************************************************)
Undisturbed == \A n \in Endpoints : link[n] /\ ~node[n].refused
Unpaused == ~mgr.paused /\ \A n \in Endpoints : ~node[n].paused

EveryRoundEnds == ([]Undisturbed /\ <>[]Unpaused) => (mgr.running ~> ~mgr.running)
=============================================================================
