------------------------- MODULE NodeRuntimeProofs -------------------------
(***************************************************************************)
(* The runtime of a node, for every set of clients, every choice of chains *)
(* and any number of rounds and calls: a round that ran under a fault plan *)
(* is never archived without it. For a node with one Manager: a start that *)
(* is refused leaves nothing behind, an accepted pause holds for sender    *)
(* and receiver, and, when no shutdown meets a start, every round that was *)
(* started is accounted for once the node is quiet.                        *)
(*                                                                         *)
(* The calls of the threads interleave with each other and with the two    *)
(* workers, and only the configuration of the sender is locked. NodeInv is *)
(* therefore mostly about who is where: which places belong to which call  *)
(* (Proper), who holds the lock (LockInv), and that the fault plan of the  *)
(* sender is the one noted for its chain (FaultInv).                       *)
(*                                                                         *)
(* ManagerInv adds what the calls of the one Manager have achieved by each *)
(* of their places: UndoneInv follows a stop through the sender and the    *)
(* receiver, PausedInv a pause. It needs the clients to be one: a second   *)
(* Manager may start a round between the two halves of a pause or while a  *)
(* refused start is undone, and TLC shows both properties violated then.   *)
(*                                                                         *)
(* For the reports, OwedInv says of every result a started round owes and  *)
(* nobody has seen yet who will deliver it: an active context or the batch *)
(* of the receiver, the worker of the sender, or a thread that is about to *)
(* report in its place.                                                    *)
(***************************************************************************)
EXTENDS NodeRuntime, TLAPS

(* The control calls; startFails is the stop that undoes a refused start.  *)
Ops == {"none", "senderConfig", "payload", "receiverConfig", "start", "startFails", "stop",
        "serviceStop", "pause", "resume"}

(* The places and the argument of each call.                               *)
Proper(c) ==
    /\ c.op = "none" => c.at = "idle"
    /\ c.op = "senderConfig" => c.at \in {"check", "lock", "join"} /\ c.arg \subseteq OwnChains
    /\ c.op = "payload" => c.at \in {"lock", "join"} /\ c.arg \subseteq OwnChains
    /\ c.op = "receiverConfig" => c.at \in {"check", "configure", "lock"}
                                  /\ c.arg \subseteq PeerChains
    /\ c.op = "start" => c.at \in {"request", "join", "done"} /\ c.arg # {}
    /\ c.op \in Stoppers => c.at \in {"stopSender", "stopJoin", "stopReport", "stopClear",
                                      "stopReceiver", "stopDeliver"}
    /\ c.op \in {"pause", "resume"} => c.at \in {"toSender", "toReceiver"}

(* The result of a round for a role and chain.                             *)
ResultType == [round : Nat, role : {"sender", "receiver"}, chain : Nat]

(* The sender.                                                             *)
SenderType ==
    [payload : OwnChains \cup {0}, fault : BOOLEAN, running : BOOLEAN, hold : BOOLEAN,
     stopping : BOOLEAN, round : Nat, worker : {"off", "run", "report", "exit"},
     joinable : BOOLEAN]

(* The receiver.                                                           *)
ReceiverType ==
    [contexts : SUBSET PeerChains, active : SUBSET PeerChains, hold : BOOLEAN,
     round : Nat, batch : SUBSET ResultType]

(* Where a call may be.                                                    *)
Places == {"idle", "check", "lock", "join", "configure", "request", "done", "stopSender",
           "stopJoin", "stopReport", "stopClear", "stopReceiver", "stopDeliver", "toSender",
           "toReceiver"}

(* A call.                                                                 *)
CallType == [op : Ops, at : Places, arg : SUBSET Nat, was : BOOLEAN]

(* The types of the members of the node.                                   *)
MembersType ==
    /\ context \in OwnChains \cup {0} /\ rounds \in Nat
    /\ DOMAIN archive \subseteq Chains /\ archive \in [DOMAIN archive -> BOOLEAN]
    /\ sender \in SenderType
    /\ receiver \in ReceiverType /\ receiver.active \subseteq receiver.contexts

(* Every thread is in a place of its call.                                 *)
CallsType ==
    /\ call \in [Threads -> CallType]
    /\ \A t \in Threads : Proper(call[t])

(* The acknowledgements.                                                   *)
AnswersType ==
    answer \in [Threads -> [op : Ops \cup {"fault", "unsynchronized"}, ok : BOOLEAN]]

(* The lock is held exactly by the call that waits for the worker under    *)
(* it.                                                                     *)
LockInv ==
    /\ lock \in Threads \cup {"free"}
    /\ \A t \in Threads :
           (lock = t) <=> (call[t].op \in {"senderConfig", "payload"} /\ call[t].at = "join")

(* Only a running sender is on hold, and a worker that runs can be joined. *)
HoldInv ==
    /\ sender.hold => sender.running
    /\ sender.worker # "off" => sender.joinable

(* A fault plan in the sender is the one noted in the archive.             *)
FaultInv ==
    /\ context # 0 => context \in DOMAIN archive
    /\ sender.payload \in {0, context}
    /\ sender.fault => sender.payload # 0 /\ archive[context]

(* The inductive invariant of the node.                                    *)
NodeInv ==
    /\ MembersType /\ CallsType /\ AnswersType
    /\ LockInv /\ HoldInv /\ FaultInv /\ FaultIsNoted

(* The agent does nothing but stop the node.                               *)
ServiceInv ==
    /\ call[Service].op \in {"none", "serviceStop"}
    /\ answer[Service].op \in {"none", "serviceStop"}

(* What a stop of the Manager m has achieved in each of its places.        *)
UndoneInv(m) ==
    /\ call[m].at \in {"stopReport", "stopClear", "stopReceiver", "stopDeliver"}
           => sender.worker = "off"
    /\ call[m].at \in {"stopReceiver", "stopDeliver"} => ~sender.running
    /\ call[m].at = "stopDeliver" => receiver.active = {}

(* Whoever runs is on hold.                                                *)
BothHold ==
    /\ sender.running => sender.hold
    /\ receiver.active # {} => receiver.hold

(* What a pause of m has achieved when it turns to the receiver.           *)
PausedInv(m) ==
    /\ answer[m].op # "none" => call[m].op = "none"
    /\ At(m, "pause", "toReceiver") => (sender.running => sender.hold)

(* The inductive invariant of a node with the Manager m.                   *)
ManagerInv(m) ==
    ServiceInv /\ UndoneInv(m) /\ PausedInv(m) /\ RefusedStartIsUndone /\ PauseHoldsBoth

(* Results that have been handed out or given up.                          *)
Settled == {r.res : r \in results} \cup silenced

(* Results the receiver still has to hand out.                             *)
ReceiverOwes == {ReceiverResult(c) : c \in receiver.active} \cup receiver.batch

(* Thread t stops the sender and reports in its place.                     *)
OwedByStop(t) ==
    \/ call[t].at = "stopJoin" /\ call[t].was
    \/ call[t].at = "stopReport"

(* Somebody is bound to report for the sender.                             *)
OwedBySender ==
    \/ sender.worker = "run" /\ ~sender.stopping
    \/ sender.worker = "report"
    \/ \E t \in Threads : call[t].at = "join" \/ OwedByStop(t)

(* o is the result of the sender, and somebody is bound to report it.      *)
SenderOwes(o) == o = SenderResult /\ sender.payload # 0 /\ OwedBySender

(* No shutdown is under way during a start, and a worker belongs to a      *)
(* running sender.                                                         *)
ApartInv ==
    /\ Starting => call[Service].op = "none"
    /\ \A t \in Threads : call[t].at \in {"stopReport", "stopClear"} => sender.worker = "off"
    /\ sender.worker # "off" => sender.running

(* A result that has neither been seen nor given up is owed by somebody.   *)
OwedInv == \A o \in opened \ Settled : o \in ReceiverOwes \/ SenderOwes(o)

(* The inductive invariant of the reports.                                 *)
ReportInv == ServiceInv /\ ApartInv /\ OwedInv

(* The steps of OrderlySpec.                                               *)
OrderlyNext == Next /\ ShutDownApartFromStart

-----------------------------------------------------------------------------
(* What the assumption says of the constants.                              *)
LEMMA Constants ==
    /\ Service \in Threads /\ Clients \subseteq Threads /\ "free" \notin Threads
    /\ OwnChains \subseteq Nat \ {0} /\ PeerChains \subseteq Nat \ {0}
    /\ OwnChains \cap PeerChains = {} /\ Service \notin Clients
BY NodeAssumption DEF Threads

(* The members of the two enumerations, one by one.                        *)
LEMMA Words ==
   /\ "none" \in Ops /\ "senderConfig" \in Ops /\ "payload" \in Ops
   /\ "receiverConfig" \in Ops /\ "start" \in Ops /\ "startFails" \in Ops
   /\ "stop" \in Ops /\ "serviceStop" \in Ops /\ "pause" \in Ops /\ "resume" \in Ops
   /\ "idle" \in Places /\ "check" \in Places /\ "lock" \in Places /\ "join" \in Places
   /\ "configure" \in Places /\ "request" \in Places /\ "done" \in Places
   /\ "stopSender" \in Places /\ "stopJoin" \in Places /\ "stopReport" \in Places
   /\ "stopClear" \in Places /\ "stopReceiver" \in Places /\ "stopDeliver" \in Places
   /\ "toSender" \in Places /\ "toReceiver" \in Places
BY DEF Ops, Places

(* The results a round may have.                                           *)
LEMMA ResultsTyped ==
    ASSUME MembersType
    PROVE  /\ \A c \in PeerChains : ReceiverResult(c) \in ResultType
           /\ SenderResult \in ResultType
BY Constants DEF MembersType, ReceiverType, SenderType, ReceiverResult, SenderResult,
   ResultType

(* Every step keeps the types of the members.                              *)
(* Apart from the history of the process every step is one of the calls    *)
(* and of the workers, or none.                                            *)
LEMMA NextIsStep ==
    ASSUME [Next]_vars PROVE [Step]_nodeVars
  BY DEF Next, JoinsOverlap, vars

LEMMA MembersStep ==
    ASSUME NodeInv, [Step]_nodeVars
    PROVE  MembersType'
<1>1. CASE SenderEnds
  BY <1>1 DEF SenderEnds, MembersType, SenderType, ReceiverType, NodeInv
<1>2. CASE SenderReports
  BY <1>2 DEF SenderReports, MembersType, SenderType, ReceiverType, NodeInv
<1>3. CASE SenderExits
  BY <1>3 DEF SenderExits, MembersType, SenderType, ReceiverType, NodeInv
<1>4. ASSUME NEW c \in PeerChains, ReceiverEnds(c) PROVE MembersType'
  <2>1. MembersType
    BY DEF NodeInv
  <2>2. \A x \in PeerChains : ReceiverResult(x) \in ResultType
    BY <2>1, ResultsTyped
  <2> QED
    BY <1>4, <2>1, <2>2 DEF ReceiverEnds, MembersType, ReceiverType
<1>5. ASSUME NEW res \in receiver.batch, ReceiverReports(res) PROVE MembersType'
  BY <1>5 DEF ReceiverReports, MembersType, ReceiverType, NodeInv, ResultType
<1>6. ASSUME NEW t \in Clients, NEW c \in OwnChains, SenderConfigBegins(t, c)
      PROVE  MembersType'
  BY <1>6 DEF SenderConfigBegins, NodeInv, MembersType
<1>7. ASSUME NEW t \in Clients, NEW c \in OwnChains, PayloadBegins(t, c)
      PROVE  MembersType'
  BY <1>7 DEF PayloadBegins, NodeInv, MembersType
<1>8. ASSUME NEW t \in Clients, NEW c \in OwnChains, Fault(t, c) PROVE MembersType'
  BY <1>8 DEF Fault, MembersType, SenderType, ReceiverType, NodeInv
<1>9. ASSUME NEW t \in Clients, NEW cs \in SUBSET PeerChains,
             ReceiverConfigBegins(t, cs)
      PROVE  MembersType'
  BY <1>9 DEF ReceiverConfigBegins, NodeInv, MembersType
<1>10. ASSUME NEW t \in Clients, StartUnsynchronized(t) PROVE MembersType'
  BY <1>10 DEF StartUnsynchronized, NodeInv, MembersType
<1>11. ASSUME NEW t \in Clients, NEW late \in BOOLEAN, StartBegins(t, late)
       PROVE  MembersType'
  <2>1. MembersType
    BY DEF NodeInv
  <2>2. \/ receiver' = receiver
        \/ receiver' = [receiver EXCEPT !.active = receiver.contexts, !.hold = FALSE,
                                     !.round = rounds + 1]
    BY <1>11 DEF StartBegins
  <2>3. rounds' = rounds + 1 /\ UNCHANGED <<context, archive, sender>>
    BY <1>11 DEF StartBegins
  <2>4. receiver' \in ReceiverType /\ receiver'.active \subseteq receiver'.contexts
    <3>1. CASE receiver' = receiver
      BY <2>1, <3>1 DEF MembersType
    <3>2. CASE receiver' = [receiver EXCEPT !.active = receiver.contexts,
                                            !.hold = FALSE, !.round = rounds + 1]
      <4>1. receiver \in ReceiverType /\ rounds + 1 \in Nat
        BY <2>1 DEF MembersType
      <4>2. \A n \in Nat : receiver' = [receiver EXCEPT !.active = receiver.contexts,
                                                        !.hold = FALSE, !.round = n]
               => receiver' \in ReceiverType /\ receiver'.active \subseteq receiver'.contexts
        BY <4>1 DEF ReceiverType
      <4> QED
        BY <3>2, <4>1, <4>2
    <3> QED
      BY <2>2, <3>1, <3>2
  <2> QED
    BY <2>1, <2>3, <2>4 DEF MembersType
<1>12. ASSUME NEW t \in Threads, StopBegins(t) PROVE MembersType'
  BY <1>12 DEF StopBegins, NodeInv, MembersType
<1>13. ASSUME NEW t \in Clients, NEW op \in {"pause", "resume"},
              RoundCommandBegins(t, op)
       PROVE  MembersType'
  BY <1>13 DEF RoundCommandBegins, NodeInv, MembersType
<1>14. ASSUME NEW t \in Threads, SenderConfigChecks(t) PROVE MembersType'
  BY <1>14 DEF SenderConfigChecks, NodeInv, MembersType
<1>15. ASSUME NEW t \in Threads, SenderConfigLocks(t) PROVE MembersType'
  BY <1>15 DEF SenderConfigLocks, StopSilently, At, MembersType, SenderType,
     ReceiverType, NodeInv
<1>16. ASSUME NEW t \in Threads, SenderConfigApplies(t) PROVE MembersType'
  BY <1>16 DEF SenderConfigApplies, SenderGone, ResetConfiguration, NoSender, At,
     MembersType, CallsType, SenderType, ReceiverType, NodeInv, Chains, Proper, LockInv,
     FaultInv
<1>17. ASSUME NEW t \in Threads, PayloadLocks(t) PROVE MembersType'
  BY <1>17 DEF PayloadLocks, StopSilently, At, MembersType, SenderType, ReceiverType,
     NodeInv
<1>18. ASSUME NEW t \in Threads, NEW feasible \in BOOLEAN, PayloadApplies(t, feasible)
       PROVE  MembersType'
  BY <1>18 DEF PayloadApplies, SenderGone, At, MembersType, SenderType, ReceiverType,
     NodeInv, Chains, LockInv, FaultInv
<1>19. ASSUME NEW t \in Threads, ReceiverConfigChecks(t) PROVE MembersType'
  BY <1>19 DEF ReceiverConfigChecks, NodeInv, MembersType
<1>20. ASSUME NEW t \in Threads, ReceiverConfigApplies(t) PROVE MembersType'
  BY <1>20 DEF ReceiverConfigApplies, ReceiverResult, At, MembersType, CallsType,
     ReceiverType, NodeInv, Chains, Proper, LockInv, FaultInv
<1>21. ASSUME NEW t \in Threads, ReceiverConfigArchives(t) PROVE MembersType'
  BY <1>21 DEF ReceiverConfigArchives, KeptInArchive, At, MembersType, ReceiverType,
     NodeInv, Chains, LockInv, FaultInv
<1>22. ASSUME NEW t \in Threads, StartRequests(t) PROVE MembersType'
  BY <1>22 DEF StartRequests, StopSilently, At, MembersType, SenderType, ReceiverType,
     NodeInv
<1>23. ASSUME NEW t \in Threads, NEW late \in BOOLEAN, StartSender(t, late)
       PROVE  MembersType'
  <2>1. MembersType
    BY DEF NodeInv
  <2>2. At(t, "start", "join")
    BY <1>23 DEF StartSender
  <2>3. (CHOOSE r \in call[t].arg : TRUE) \in Nat
    BY <2>2 DEF At, NodeInv, CallsType, CallType, Proper
  <2>4. UNCHANGED <<context, archive, receiver, rounds>>
    BY <1>23 DEF StartSender
  <2>5. sender' \in SenderType
    <3>1. sender \in SenderType
      BY <2>1 DEF MembersType
    <3>2. \/ sender' = [sender EXCEPT !.running = FALSE, !.hold = FALSE,
                                      !.joinable = FALSE]
          \/ sender' = [sender EXCEPT !.running = TRUE, !.hold = FALSE, !.stopping = FALSE,
                                      !.worker = "run", !.joinable = TRUE,
                                      !.round = CHOOSE r \in call[t].arg : TRUE]
      BY <1>23 DEF StartSender
    <3> QED
      BY <2>3, <3>1, <3>2 DEF SenderType
  <2> QED
    BY <2>1, <2>4, <2>5 DEF MembersType
<1>24. ASSUME NEW t \in Threads, StartDone(t) PROVE MembersType'
  BY <1>24 DEF StartDone, NodeInv, MembersType
<1>25. ASSUME NEW t \in Threads, StopRequests(t) PROVE MembersType'
  BY <1>25 DEF StopRequests, StopSilently, MembersType, SenderType, ReceiverType,
     NodeInv
<1>26. ASSUME NEW t \in Threads, StopJoins(t) PROVE MembersType'
  BY <1>26 DEF StopJoins, SenderGone, NodeInv, MembersType, SenderType, ReceiverType
<1>27. ASSUME NEW t \in Threads, StopReports(t) PROVE MembersType'
  BY <1>27 DEF StopReports, NodeInv, MembersType
<1>28. ASSUME NEW t \in Threads, StopClears(t) PROVE MembersType'
  BY <1>28 DEF StopClears, MembersType, SenderType, ReceiverType, NodeInv
<1>29. ASSUME NEW t \in Threads, StopReceiver(t) PROVE MembersType'
  <2>1. MembersType
    BY DEF NodeInv
  <2>2. \A x \in PeerChains : ReceiverResult(x) \in ResultType
    BY <2>1, ResultsTyped
  <2>3. receiver.batch \cup {ReceiverResult(c) : c \in receiver.active} \in SUBSET ResultType
    BY <2>1, <2>2 DEF MembersType, ReceiverType
  <2>4. receiver' = [receiver EXCEPT !.active = {},
                                     !.hold = FALSE,
                    !.batch = @ \cup {ReceiverResult(c) : c \in receiver.active}]
    BY <1>29 DEF StopReceiver
  <2>5. receiver' \in ReceiverType /\ receiver'.active = {}
    BY <2>1, <2>3, <2>4 DEF MembersType, ReceiverType
  <2>6. UNCHANGED <<context, archive, sender, rounds>>
    BY <1>29 DEF StopReceiver
  <2> QED
    BY <2>1, <2>5, <2>6 DEF MembersType
<1>30. ASSUME NEW t \in Threads, StopAnswers(t) PROVE MembersType'
  BY <1>30 DEF StopAnswers, FaultKept, MembersType, SenderType, ReceiverType, NodeInv
<1>31. ASSUME NEW t \in Threads, NEW refuses \in BOOLEAN, ToSender(t, refuses)
       PROVE  MembersType'
  <2>1. \/ sender' = sender
        \/ \E h \in BOOLEAN : sender' = [sender EXCEPT !.hold = h]
    BY <1>31 DEF ToSender
  <2>2. sender' \in SenderType
    BY <2>1 DEF NodeInv, MembersType, SenderType
  <2> QED
    BY <1>31, <2>2 DEF ToSender, NodeInv, MembersType
<1>32. ASSUME NEW t \in Threads, NEW refuses \in BOOLEAN, ToReceiver(t, refuses)
       PROVE  MembersType'
  BY <1>32 DEF ToReceiver, MembersType, ReceiverType, NodeInv
<1>33. CASE UNCHANGED nodeVars
  BY <1>33 DEF nodeVars, MembersType, ReceiverType, NodeInv
<1> QED
  BY <1>1, <1>2, <1>3, <1>4, <1>5, <1>6, <1>7, <1>8, <1>9, <1>10, <1>11, <1>12, <1>13,
     <1>14, <1>15, <1>16, <1>17, <1>18, <1>19, <1>20, <1>21, <1>22, <1>23, <1>24, <1>25,
     <1>26, <1>27, <1>28, <1>29, <1>30, <1>31, <1>32, <1>33, Service \in Threads,
     Clients \subseteq Threads DEF Threads, Step, SenderWorker, ReceiverWorker,
     CallBegins, CallProceeds, ServiceStops

(* Every step leaves every thread in a place of its call.                  *)
LEMMA CallsStep ==
    ASSUME NodeInv, [Step]_nodeVars
    PROVE  CallsType'
<1>1. CASE SenderEnds
  BY <1>1 DEF SenderEnds, NodeInv, CallsType
<1>2. CASE SenderReports
  BY <1>2 DEF SenderReports, NodeInv, CallsType
<1>3. CASE SenderExits
  BY <1>3 DEF SenderExits, NodeInv, CallsType
<1>4. ASSUME NEW c \in PeerChains, ReceiverEnds(c) PROVE CallsType'
  BY <1>4 DEF ReceiverEnds, NodeInv, CallsType
<1>5. ASSUME NEW res \in receiver.batch, ReceiverReports(res) PROVE CallsType'
  BY <1>5 DEF ReceiverReports, NodeInv, CallsType
<1>6. ASSUME NEW t \in Clients, NEW c \in OwnChains, SenderConfigBegins(t, c)
      PROVE  CallsType'
  <2>1. call' \in [Threads -> CallType] /\ \A u \in Threads \ {t} : call'[u] = call[u]
    BY <1>6, Words, Constants DEF SenderConfigBegins, Begin, CallsType, CallType,
       NodeInv
  <2>2. Proper(call'[t])
    BY <1>6, Constants DEF SenderConfigBegins, Begin, At, CallsType, Proper, Stoppers,
       NodeInv, Ops
  <2> QED
    BY <2>1, <2>2 DEF CallsType, NodeInv
<1>7. ASSUME NEW t \in Clients, NEW c \in OwnChains, PayloadBegins(t, c)
      PROVE  CallsType'
  <2>1. call' \in [Threads -> CallType] /\ \A u \in Threads \ {t} : call'[u] = call[u]
    BY <1>7, Words, Constants DEF PayloadBegins, Begin, CallsType, CallType, NodeInv
  <2>2. Proper(call'[t])
    BY <1>7, Constants DEF PayloadBegins, Begin, At, CallsType, Proper, Stoppers,
       NodeInv, Ops
  <2> QED
    BY <2>1, <2>2 DEF CallsType, NodeInv
<1>8. ASSUME NEW t \in Clients, NEW c \in OwnChains, Fault(t, c) PROVE CallsType'
  BY <1>8 DEF Fault, NodeInv, CallsType
<1>9. ASSUME NEW t \in Clients, NEW cs \in SUBSET PeerChains,
             ReceiverConfigBegins(t, cs)
      PROVE  CallsType'
  <2>1. call' \in [Threads -> CallType] /\ \A u \in Threads \ {t} : call'[u] = call[u]
    BY <1>9, Words, Constants DEF ReceiverConfigBegins, Begin, CallsType, CallType,
       NodeInv
  <2>2. Proper(call'[t])
    BY <1>9, Constants DEF ReceiverConfigBegins, Begin, At, CallsType, Proper, Stoppers,
       NodeInv, Ops
  <2> QED
    BY <2>1, <2>2 DEF CallsType, NodeInv
<1>10. ASSUME NEW t \in Clients, StartUnsynchronized(t) PROVE CallsType'
  BY <1>10 DEF StartUnsynchronized, NodeInv, CallsType
<1>11. ASSUME NEW t \in Clients, NEW late \in BOOLEAN, StartBegins(t, late)
       PROVE  CallsType'
  <2>0. rounds + 1 \in Nat
    BY DEF NodeInv, MembersType
  <2>1. call' \in [Threads -> CallType] /\ \A u \in Threads \ {t} : call'[u] = call[u]
    BY <1>11, Words, <2>0 DEF StartBegins, Begin, CallsType, CallType, NodeInv
  <2>2. Proper(call'[t])
    BY <1>11, Constants DEF StartBegins, Begin, At, CallsType, Proper, Stoppers,
       NodeInv, Ops
  <2> QED
    BY <2>1, <2>2 DEF CallsType, NodeInv
<1>12. ASSUME NEW t \in Threads, StopBegins(t) PROVE CallsType'
  <2>1. call' \in [Threads -> CallType] /\ \A u \in Threads \ {t} : call'[u] = call[u]
    BY <1>12, Words DEF StopBegins, Begin, CallsType, CallType, NodeInv
  <2>2. Proper(call'[t])
    BY <1>12 DEF StopBegins, Begin, At, CallsType, Proper, NodeInv, Ops
  <2> QED
    BY <2>1, <2>2 DEF CallsType, NodeInv
<1>13. ASSUME NEW t \in Clients, NEW op \in {"pause", "resume"},
              RoundCommandBegins(t, op)
       PROVE  CallsType'
  <2>1. call' \in [Threads -> CallType] /\ \A u \in Threads \ {t} : call'[u] = call[u]
    BY <1>13, Words DEF RoundCommandBegins, Begin, CallsType, CallType, NodeInv
  <2>2. Proper(call'[t])
    BY <1>13, Constants DEF RoundCommandBegins, Begin, At, CallsType, Proper, Stoppers,
       NodeInv, Ops
  <2> QED
    BY <2>1, <2>2 DEF CallsType, NodeInv
<1>14. ASSUME NEW t \in Threads, SenderConfigChecks(t) PROVE CallsType'
  <2>1. \/ call' = [call EXCEPT ![t] = Idle]
        \/ call' = [call EXCEPT ![t].at = "lock"]
    BY <1>14 DEF SenderConfigChecks, Goto, Answer
  <2>2. call' \in [Threads -> CallType] /\ \A u \in Threads \ {t} : call'[u] = call[u]
    <3>1. CASE call' = [call EXCEPT ![t] = Idle]
      BY <3>1, Words DEF Idle, NodeInv, CallsType, CallType
    <3>2. CASE call' = [call EXCEPT ![t].at = "lock"]
      BY <3>2, Words DEF NodeInv, CallsType, CallType
    <3> QED
      BY <2>1, <3>1, <3>2
  <2>3. Proper(call'[t])
    BY <1>14, <2>1 DEF SenderConfigChecks, Idle, At, CallsType, CallType, Proper,
       Stoppers, NodeInv, Ops
  <2> QED
    BY <2>2, <2>3 DEF CallsType, NodeInv
<1>15. ASSUME NEW t \in Threads, SenderConfigLocks(t) PROVE CallsType'
  <2>1. call' \in [Threads -> CallType] /\ \A u \in Threads \ {t} : call'[u] = call[u]
    BY <1>15, Words DEF SenderConfigLocks, Goto, CallsType, CallType, NodeInv
  <2>2. Proper(call'[t])
    BY <1>15 DEF SenderConfigLocks, Goto, At, CallsType, Proper, NodeInv, Ops
  <2> QED
    BY <2>1, <2>2 DEF CallsType, NodeInv
<1>16. ASSUME NEW t \in Threads, SenderConfigApplies(t) PROVE CallsType'
  <2>1. call' \in [Threads -> CallType] /\ \A u \in Threads \ {t} : call'[u] = call[u]
    BY <1>16, Words DEF SenderConfigApplies, Answer, Idle, CallsType, CallType, NodeInv
  <2>2. Proper(call'[t])
    BY <1>16 DEF SenderConfigApplies, Answer, Idle, At, CallsType, Proper, Stoppers,
       NodeInv, Ops
  <2> QED
    BY <2>1, <2>2 DEF CallsType, NodeInv
<1>17. ASSUME NEW t \in Threads, PayloadLocks(t) PROVE CallsType'
  <2>1. \/ call' = [call EXCEPT ![t] = Idle]
        \/ call' = [call EXCEPT ![t].at = "join"]
    BY <1>17 DEF PayloadLocks, Goto, Answer
  <2>2. call' \in [Threads -> CallType] /\ \A u \in Threads \ {t} : call'[u] = call[u]
    <3>1. CASE call' = [call EXCEPT ![t] = Idle]
      BY <3>1, Words DEF Idle, NodeInv, CallsType, CallType
    <3>2. CASE call' = [call EXCEPT ![t].at = "join"]
      BY <3>2, Words DEF NodeInv, CallsType, CallType
    <3> QED
      BY <2>1, <3>1, <3>2
  <2>3. Proper(call'[t])
    BY <1>17, <2>1 DEF PayloadLocks, Idle, At, CallsType, CallType, Proper, Stoppers,
       NodeInv, Ops
  <2> QED
    BY <2>2, <2>3 DEF CallsType, NodeInv
<1>18. ASSUME NEW t \in Threads, NEW feasible \in BOOLEAN, PayloadApplies(t, feasible)
       PROVE  CallsType'
  <2>1. call' \in [Threads -> CallType] /\ \A u \in Threads \ {t} : call'[u] = call[u]
    BY <1>18, Words DEF PayloadApplies, Answer, Idle, CallsType, CallType, NodeInv
  <2>2. Proper(call'[t])
    BY <1>18 DEF PayloadApplies, Answer, Idle, At, CallsType, Proper, Stoppers, NodeInv,
       Ops
  <2> QED
    BY <2>1, <2>2 DEF CallsType, NodeInv
<1>19. ASSUME NEW t \in Threads, ReceiverConfigChecks(t) PROVE CallsType'
  <2>1. \/ call' = [call EXCEPT ![t] = Idle]
        \/ call' = [call EXCEPT ![t].at = "configure"]
    BY <1>19 DEF ReceiverConfigChecks, Goto, Answer
  <2>2. call' \in [Threads -> CallType] /\ \A u \in Threads \ {t} : call'[u] = call[u]
    <3>1. CASE call' = [call EXCEPT ![t] = Idle]
      BY <3>1, Words DEF Idle, NodeInv, CallsType, CallType
    <3>2. CASE call' = [call EXCEPT ![t].at = "configure"]
      BY <3>2, Words DEF NodeInv, CallsType, CallType
    <3> QED
      BY <2>1, <3>1, <3>2
  <2>3. Proper(call'[t])
    BY <1>19, <2>1 DEF ReceiverConfigChecks, Idle, At, CallsType, CallType, Proper,
       Stoppers, NodeInv, Ops
  <2> QED
    BY <2>2, <2>3 DEF CallsType, NodeInv
<1>20. ASSUME NEW t \in Threads, ReceiverConfigApplies(t) PROVE CallsType'
  <2>1. call' \in [Threads -> CallType] /\ \A u \in Threads \ {t} : call'[u] = call[u]
    BY <1>20, Words DEF ReceiverConfigApplies, Goto, CallsType, CallType, NodeInv
  <2>2. Proper(call'[t])
    BY <1>20 DEF ReceiverConfigApplies, Goto, At, CallsType, Proper, NodeInv, Ops
  <2> QED
    BY <2>1, <2>2 DEF CallsType, NodeInv
<1>21. ASSUME NEW t \in Threads, ReceiverConfigArchives(t) PROVE CallsType'
  <2>1. call' \in [Threads -> CallType] /\ \A u \in Threads \ {t} : call'[u] = call[u]
    BY <1>21, Words DEF ReceiverConfigArchives, Answer, Idle, CallsType, CallType,
       NodeInv
  <2>2. Proper(call'[t])
    BY <1>21 DEF ReceiverConfigArchives, Answer, Idle, At, CallsType, Proper, Stoppers,
       NodeInv, Ops
  <2> QED
    BY <2>1, <2>2 DEF CallsType, NodeInv
<1>22. ASSUME NEW t \in Threads, StartRequests(t) PROVE CallsType'
  <2>1. call' \in [Threads -> CallType] /\ \A u \in Threads \ {t} : call'[u] = call[u]
    BY <1>22, Words DEF StartRequests, Goto, CallsType, CallType, NodeInv
  <2>2. Proper(call'[t])
    BY <1>22 DEF StartRequests, Goto, At, CallsType, Proper, NodeInv, Ops
  <2> QED
    BY <2>1, <2>2 DEF CallsType, NodeInv
<1>23. ASSUME NEW t \in Threads, NEW late \in BOOLEAN, StartSender(t, late)
       PROVE  CallsType'
  <2>1. call' \in [Threads -> CallType] /\ \A u \in Threads \ {t} : call'[u] = call[u]
    BY <1>23, Words DEF StartSender, Goto, CallsType, CallType, NodeInv
  <2>2. Proper(call'[t])
    BY <1>23 DEF StartSender, Goto, At, CallsType, CallType, Proper, NodeInv, Ops
  <2> QED
    BY <2>1, <2>2 DEF CallsType, NodeInv
<1>24. ASSUME NEW t \in Threads, StartDone(t) PROVE CallsType'
  <2>1. call' \in [Threads -> CallType] /\ \A u \in Threads \ {t} : call'[u] = call[u]
    BY <1>24, Words DEF StartDone, Answer, Idle, CallsType, CallType, NodeInv
  <2>2. Proper(call'[t])
    BY <1>24 DEF StartDone, Answer, Idle, At, CallsType, Proper, Stoppers, NodeInv, Ops
  <2> QED
    BY <2>1, <2>2 DEF CallsType, NodeInv
<1>25. ASSUME NEW t \in Threads, StopRequests(t) PROVE CallsType'
  <2>0. sender.running \in BOOLEAN
    BY DEF NodeInv, MembersType, SenderType
  <2>1. call' \in [Threads -> CallType] /\ \A u \in Threads \ {t} : call'[u] = call[u]
    BY <1>25, Words, <2>0 DEF StopRequests, CallsType, CallType, NodeInv
  <2>2. Proper(call'[t])
    BY <1>25 DEF StopRequests, At, CallsType, Proper, NodeInv, Ops
  <2> QED
    BY <2>1, <2>2 DEF CallsType, NodeInv
<1>26. ASSUME NEW t \in Threads, StopJoins(t) PROVE CallsType'
  <2>1. call' \in [Threads -> CallType] /\ \A u \in Threads \ {t} : call'[u] = call[u]
    BY <1>26, Words DEF StopJoins, Goto, CallsType, CallType, NodeInv
  <2>2. Proper(call'[t])
    BY <1>26 DEF StopJoins, Goto, At, CallsType, Proper, NodeInv, Ops
  <2> QED
    BY <2>1, <2>2 DEF CallsType, NodeInv
<1>27. ASSUME NEW t \in Threads, StopReports(t) PROVE CallsType'
  <2>1. call' \in [Threads -> CallType] /\ \A u \in Threads \ {t} : call'[u] = call[u]
    BY <1>27, Words DEF StopReports, Goto, CallsType, CallType, NodeInv
  <2>2. Proper(call'[t])
    BY <1>27 DEF StopReports, Goto, At, CallsType, Proper, NodeInv, Ops
  <2> QED
    BY <2>1, <2>2 DEF CallsType, NodeInv
<1>28. ASSUME NEW t \in Threads, StopClears(t) PROVE CallsType'
  <2>1. call' \in [Threads -> CallType] /\ \A u \in Threads \ {t} : call'[u] = call[u]
    BY <1>28, Words DEF StopClears, Goto, CallsType, CallType, NodeInv
  <2>2. Proper(call'[t])
    BY <1>28 DEF StopClears, Goto, At, CallsType, Proper, NodeInv, Ops
  <2> QED
    BY <2>1, <2>2 DEF CallsType, NodeInv
<1>29. ASSUME NEW t \in Threads, StopReceiver(t) PROVE CallsType'
  <2>1. call' \in [Threads -> CallType] /\ \A u \in Threads \ {t} : call'[u] = call[u]
    BY <1>29, Words DEF StopReceiver, Goto, CallsType, CallType, NodeInv
  <2>2. Proper(call'[t])
    BY <1>29 DEF StopReceiver, Goto, At, CallsType, Proper, NodeInv, Ops
  <2> QED
    BY <2>1, <2>2 DEF CallsType, NodeInv
<1>30. ASSUME NEW t \in Threads, StopAnswers(t) PROVE CallsType'
  <2>1. call' \in [Threads -> CallType] /\ \A u \in Threads \ {t} : call'[u] = call[u]
    BY <1>30, Words DEF StopAnswers, Answer, Idle, CallsType, CallType, NodeInv
  <2>2. Proper(call'[t])
    BY <1>30 DEF StopAnswers, Answer, Idle, At, CallsType, Proper, Stoppers, NodeInv,
       Ops
  <2> QED
    BY <2>1, <2>2 DEF CallsType, NodeInv
<1>31. ASSUME NEW t \in Threads, NEW refuses \in BOOLEAN, ToSender(t, refuses)
       PROVE  CallsType'
  <2>1. \/ call' = [call EXCEPT ![t] = Idle]
        \/ call' = [call EXCEPT ![t].at = "toReceiver"]
    BY <1>31 DEF ToSender, Goto, Answer
  <2>2. call' \in [Threads -> CallType] /\ \A u \in Threads \ {t} : call'[u] = call[u]
    <3>1. CASE call' = [call EXCEPT ![t] = Idle]
      BY <3>1, Words DEF Idle, NodeInv, CallsType, CallType
    <3>2. CASE call' = [call EXCEPT ![t].at = "toReceiver"]
      BY <3>2, Words DEF NodeInv, CallsType, CallType
    <3> QED
      BY <2>1, <3>1, <3>2
  <2>3. Proper(call'[t])
    BY <1>31, <2>1 DEF ToSender, Idle, At, CallsType, CallType, Proper, Stoppers,
       NodeInv, Ops
  <2> QED
    BY <2>2, <2>3 DEF CallsType, NodeInv
<1>32. ASSUME NEW t \in Threads, NEW refuses \in BOOLEAN, ToReceiver(t, refuses)
       PROVE  CallsType'
  <2>1. call' \in [Threads -> CallType] /\ \A u \in Threads \ {t} : call'[u] = call[u]
    BY <1>32, Words DEF ToReceiver, Answer, Idle, CallsType, CallType, NodeInv
  <2>2. Proper(call'[t])
    BY <1>32 DEF ToReceiver, Answer, Idle, At, CallsType, Proper, Stoppers, NodeInv, Ops
  <2> QED
    BY <2>1, <2>2 DEF CallsType, NodeInv
<1>33. CASE UNCHANGED nodeVars
  BY <1>33 DEF nodeVars, CallsType, NodeInv
<1> QED
  BY <1>1, <1>2, <1>3, <1>4, <1>5, <1>6, <1>7, <1>8, <1>9, <1>10, <1>11, <1>12, <1>13,
     <1>14, <1>15, <1>16, <1>17, <1>18, <1>19, <1>20, <1>21, <1>22, <1>23, <1>24, <1>25,
     <1>26, <1>27, <1>28, <1>29, <1>30, <1>31, <1>32, <1>33, Service \in Threads,
     Clients \subseteq Threads DEF Threads, Step, SenderWorker, ReceiverWorker,
     CallBegins, CallProceeds, ServiceStops

(* Every step keeps the types of the acknowledgements.                     *)
LEMMA AnswersStep ==
    ASSUME NodeInv, [Step]_nodeVars
    PROVE  AnswersType'
<1>1. CASE SenderEnds
  BY <1>1 DEF SenderEnds, NodeInv, AnswersType
<1>2. CASE SenderReports
  BY <1>2 DEF SenderReports, NodeInv, AnswersType
<1>3. CASE SenderExits
  BY <1>3 DEF SenderExits, NodeInv, AnswersType
<1>4. ASSUME NEW c \in PeerChains, ReceiverEnds(c) PROVE AnswersType'
  BY <1>4 DEF ReceiverEnds, NodeInv, AnswersType
<1>5. ASSUME NEW res \in receiver.batch, ReceiverReports(res) PROVE AnswersType'
  BY <1>5 DEF ReceiverReports, NodeInv, AnswersType
<1>6. ASSUME NEW t \in Clients, NEW c \in OwnChains, SenderConfigBegins(t, c)
      PROVE  AnswersType'
  BY <1>6 DEF SenderConfigBegins, Begin, AnswersType, Ops, NodeInv, NoAnswer
<1>7. ASSUME NEW t \in Clients, NEW c \in OwnChains, PayloadBegins(t, c)
      PROVE  AnswersType'
  BY <1>7 DEF PayloadBegins, Begin, AnswersType, Ops, NodeInv, NoAnswer
<1>8. ASSUME NEW t \in Clients, NEW c \in OwnChains, Fault(t, c) PROVE AnswersType'
  BY <1>8 DEF Fault, AnswersType, Ops, NodeInv, NoAnswer
<1>9. ASSUME NEW t \in Clients, NEW cs \in SUBSET PeerChains,
             ReceiverConfigBegins(t, cs)
      PROVE  AnswersType'
  BY <1>9 DEF ReceiverConfigBegins, Begin, AnswersType, Ops, NodeInv, NoAnswer
<1>10. ASSUME NEW t \in Clients, StartUnsynchronized(t) PROVE AnswersType'
  BY <1>10 DEF StartUnsynchronized, AnswersType, Ops, NodeInv, NoAnswer
<1>11. ASSUME NEW t \in Clients, NEW late \in BOOLEAN, StartBegins(t, late)
       PROVE  AnswersType'
  BY <1>11 DEF StartBegins, Begin, AnswersType, Ops, NodeInv, NoAnswer
<1>12. ASSUME NEW t \in Threads, StopBegins(t) PROVE AnswersType'
  BY <1>12 DEF StopBegins, Begin, AnswersType, Ops, NodeInv, NoAnswer
<1>13. ASSUME NEW t \in Clients, NEW op \in {"pause", "resume"},
              RoundCommandBegins(t, op)
       PROVE  AnswersType'
  BY <1>13 DEF RoundCommandBegins, Begin, AnswersType, Ops, NodeInv, NoAnswer
<1>14. ASSUME NEW t \in Threads, SenderConfigChecks(t) PROVE AnswersType'
  <2>1. call[t].op \in Ops
    BY DEF NodeInv, CallsType, CallType
  <2>2. answer' = answer \/ answer' = [answer EXCEPT ![t] = [op |-> call[t].op, ok |-> FALSE]]
    BY <1>14 DEF SenderConfigChecks, Answer
  <2>3. CASE answer' = answer
    BY <2>3 DEF AnswersType, NodeInv
  <2>4. CASE answer' = [answer EXCEPT ![t] = [op |-> call[t].op, ok |-> FALSE]]
    BY <2>1, <2>4 DEF AnswersType, NodeInv
  <2> QED
    BY <2>2, <2>3, <2>4
<1>15. ASSUME NEW t \in Threads, SenderConfigLocks(t) PROVE AnswersType'
  BY <1>15 DEF SenderConfigLocks, NodeInv, AnswersType
<1>16. ASSUME NEW t \in Threads, SenderConfigApplies(t) PROVE AnswersType'
  <2>1. call[t].op \in Ops
    BY DEF NodeInv, CallsType, CallType
  <2> QED
    BY <1>16, <2>1, Words DEF SenderConfigApplies, Answer, AnswersType, NodeInv
<1>17. ASSUME NEW t \in Threads, PayloadLocks(t) PROVE AnswersType'
  <2>1. call[t].op \in Ops
    BY DEF NodeInv, CallsType, CallType
  <2>2. answer' = answer \/ answer' = [answer EXCEPT ![t] = [op |-> call[t].op, ok |-> FALSE]]
    BY <1>17 DEF PayloadLocks, Answer
  <2>3. CASE answer' = answer
    BY <2>3 DEF AnswersType, NodeInv
  <2>4. CASE answer' = [answer EXCEPT ![t] = [op |-> call[t].op, ok |-> FALSE]]
    BY <2>1, <2>4 DEF AnswersType, NodeInv
  <2> QED
    BY <2>2, <2>3, <2>4
<1>18. ASSUME NEW t \in Threads, NEW feasible \in BOOLEAN, PayloadApplies(t, feasible)
       PROVE  AnswersType'
  <2>1. call[t].op \in Ops
    BY DEF NodeInv, CallsType, CallType
  <2> QED
    BY <1>18, <2>1, Words DEF PayloadApplies, Answer, AnswersType, NodeInv
<1>19. ASSUME NEW t \in Threads, ReceiverConfigChecks(t) PROVE AnswersType'
  <2>1. call[t].op \in Ops
    BY DEF NodeInv, CallsType, CallType
  <2>2. answer' = answer \/ answer' = [answer EXCEPT ![t] = [op |-> call[t].op, ok |-> FALSE]]
    BY <1>19 DEF ReceiverConfigChecks, Answer
  <2>3. CASE answer' = answer
    BY <2>3 DEF AnswersType, NodeInv
  <2>4. CASE answer' = [answer EXCEPT ![t] = [op |-> call[t].op, ok |-> FALSE]]
    BY <2>1, <2>4 DEF AnswersType, NodeInv
  <2> QED
    BY <2>2, <2>3, <2>4
<1>20. ASSUME NEW t \in Threads, ReceiverConfigApplies(t) PROVE AnswersType'
  BY <1>20 DEF ReceiverConfigApplies, NodeInv, AnswersType
<1>21. ASSUME NEW t \in Threads, ReceiverConfigArchives(t) PROVE AnswersType'
  <2>1. call[t].op \in Ops
    BY DEF NodeInv, CallsType, CallType
  <2> QED
    BY <1>21, <2>1, Words DEF ReceiverConfigArchives, Answer, AnswersType, NodeInv
<1>22. ASSUME NEW t \in Threads, StartRequests(t) PROVE AnswersType'
  BY <1>22 DEF StartRequests, NodeInv, AnswersType
<1>23. ASSUME NEW t \in Threads, NEW late \in BOOLEAN, StartSender(t, late)
       PROVE  AnswersType'
  BY <1>23 DEF StartSender, NodeInv, AnswersType
<1>24. ASSUME NEW t \in Threads, StartDone(t) PROVE AnswersType'
  <2>1. call[t].op \in Ops
    BY DEF NodeInv, CallsType, CallType
  <2> QED
    BY <1>24, <2>1, Words DEF StartDone, Answer, AnswersType, NodeInv
<1>25. ASSUME NEW t \in Threads, StopRequests(t) PROVE AnswersType'
  BY <1>25 DEF StopRequests, NodeInv, AnswersType
<1>26. ASSUME NEW t \in Threads, StopJoins(t) PROVE AnswersType'
  BY <1>26 DEF StopJoins, NodeInv, AnswersType
<1>27. ASSUME NEW t \in Threads, StopReports(t) PROVE AnswersType'
  BY <1>27 DEF StopReports, NodeInv, AnswersType
<1>28. ASSUME NEW t \in Threads, StopClears(t) PROVE AnswersType'
  BY <1>28 DEF StopClears, NodeInv, AnswersType
<1>29. ASSUME NEW t \in Threads, StopReceiver(t) PROVE AnswersType'
  BY <1>29 DEF StopReceiver, NodeInv, AnswersType
<1>30. ASSUME NEW t \in Threads, StopAnswers(t) PROVE AnswersType'
  <2>1. call[t].op \in Ops
    BY DEF NodeInv, CallsType, CallType
  <2> QED
    BY <1>30, <2>1, Words DEF StopAnswers, Answer, AnswersType, NodeInv
<1>31. ASSUME NEW t \in Threads, NEW refuses \in BOOLEAN, ToSender(t, refuses)
       PROVE  AnswersType'
  <2>1. call[t].op \in Ops
    BY DEF NodeInv, CallsType, CallType
  <2>2. answer' = answer \/ answer' = [answer EXCEPT ![t] = [op |-> call[t].op, ok |-> FALSE]]
    BY <1>31 DEF ToSender, Answer
  <2>3. CASE answer' = answer
    BY <2>3 DEF AnswersType, NodeInv
  <2>4. CASE answer' = [answer EXCEPT ![t] = [op |-> call[t].op, ok |-> FALSE]]
    BY <2>1, <2>4 DEF AnswersType, NodeInv
  <2> QED
    BY <2>2, <2>3, <2>4
<1>32. ASSUME NEW t \in Threads, NEW refuses \in BOOLEAN, ToReceiver(t, refuses)
       PROVE  AnswersType'
  <2>1. call[t].op \in Ops
    BY DEF NodeInv, CallsType, CallType
  <2> QED
    BY <1>32, <2>1, Words DEF ToReceiver, Answer, AnswersType, NodeInv, ReceiverType
<1>33. CASE UNCHANGED nodeVars
  BY <1>33 DEF nodeVars, AnswersType, Ops, NodeInv, NoAnswer
<1> QED
  BY <1>1, <1>2, <1>3, <1>4, <1>5, <1>6, <1>7, <1>8, <1>9, <1>10, <1>11, <1>12, <1>13,
     <1>14, <1>15, <1>16, <1>17, <1>18, <1>19, <1>20, <1>21, <1>22, <1>23, <1>24, <1>25,
     <1>26, <1>27, <1>28, <1>29, <1>30, <1>31, <1>32, <1>33, Service \in Threads,
     Clients \subseteq Threads DEF Threads, Step, SenderWorker, ReceiverWorker,
     CallBegins, CallProceeds, ServiceStops

(* Every step keeps the lock with the one who took it.                     *)
LEMMA LockStep ==
    ASSUME NodeInv, [Step]_nodeVars
    PROVE  LockInv'
<1>1. CASE SenderEnds
  BY <1>1 DEF SenderEnds, NodeInv, LockInv
<1>2. CASE SenderReports
  BY <1>2 DEF SenderReports, NodeInv, LockInv
<1>3. CASE SenderExits
  BY <1>3 DEF SenderExits, NodeInv, LockInv
<1>4. ASSUME NEW c \in PeerChains, ReceiverEnds(c) PROVE LockInv'
  BY <1>4 DEF ReceiverEnds, NodeInv, LockInv
<1>5. ASSUME NEW res \in receiver.batch, ReceiverReports(res) PROVE LockInv'
  BY <1>5 DEF ReceiverReports, NodeInv, LockInv
<1>6. ASSUME NEW t \in Clients, NEW c \in OwnChains, SenderConfigBegins(t, c)
      PROVE  LockInv'
  BY <1>6 DEF SenderConfigBegins, Begin, LockInv, NodeInv, Idle, NoAnswer, Ops
<1>7. ASSUME NEW t \in Clients, NEW c \in OwnChains, PayloadBegins(t, c) PROVE LockInv'
  BY <1>7 DEF PayloadBegins, Begin, LockInv, NodeInv, Idle, NoAnswer, Ops
<1>8. ASSUME NEW t \in Clients, NEW c \in OwnChains, Fault(t, c) PROVE LockInv'
  BY <1>8 DEF Fault, NodeInv, LockInv
<1>9. ASSUME NEW t \in Clients, NEW cs \in SUBSET PeerChains,
             ReceiverConfigBegins(t, cs)
      PROVE  LockInv'
  BY <1>9 DEF ReceiverConfigBegins, Begin, LockInv, NodeInv, Idle, NoAnswer, Ops
<1>10. ASSUME NEW t \in Clients, StartUnsynchronized(t) PROVE LockInv'
  BY <1>10 DEF StartUnsynchronized, NodeInv, LockInv
<1>11. ASSUME NEW t \in Clients, NEW late \in BOOLEAN, StartBegins(t, late)
       PROVE  LockInv'
  BY <1>11 DEF StartBegins, Begin, LockInv, NodeInv, Idle, NoAnswer, Ops
<1>12. ASSUME NEW t \in Threads, StopBegins(t) PROVE LockInv'
  BY <1>12 DEF StopBegins, Begin, LockInv, NodeInv, Idle, NoAnswer, Ops
<1>13. ASSUME NEW t \in Clients, NEW op \in {"pause", "resume"},
              RoundCommandBegins(t, op)
       PROVE  LockInv'
  BY <1>13 DEF RoundCommandBegins, Begin, LockInv, NodeInv, Idle, NoAnswer, Ops
<1>14. ASSUME NEW t \in Threads, SenderConfigChecks(t) PROVE LockInv'
  BY <1>14 DEF SenderConfigChecks, Answer, Goto, At, LockInv, CallsType, CallType,
     NodeInv, Idle, NoAnswer, Ops
<1>15. ASSUME NEW t \in Threads, SenderConfigLocks(t) PROVE LockInv'
  BY <1>15, Constants DEF SenderConfigLocks, Goto, At, LockInv, CallsType, NodeInv,
     NoAnswer, Ops
<1>16. ASSUME NEW t \in Threads, SenderConfigApplies(t) PROVE LockInv'
  BY <1>16, Constants DEF SenderConfigApplies, SenderGone, Answer, At, LockInv,
     CallsType, NodeInv, Idle, NoAnswer, Ops
<1>17. ASSUME NEW t \in Threads, PayloadLocks(t) PROVE LockInv'
  BY <1>17, Constants DEF PayloadLocks, Answer, Goto, At, LockInv, CallsType, CallType,
     NodeInv, Idle, NoAnswer, Ops
<1>18. ASSUME NEW t \in Threads, NEW feasible \in BOOLEAN, PayloadApplies(t, feasible)
       PROVE  LockInv'
  BY <1>18, Constants DEF PayloadApplies, SenderGone, Answer, At, LockInv, CallsType,
     NodeInv, Idle, NoAnswer, Ops
<1>19. ASSUME NEW t \in Threads, ReceiverConfigChecks(t) PROVE LockInv'
  BY <1>19 DEF ReceiverConfigChecks, Answer, Goto, At, LockInv, CallsType, CallType,
     NodeInv, Idle, NoAnswer, Ops
<1>20. ASSUME NEW t \in Threads, ReceiverConfigApplies(t) PROVE LockInv'
  BY <1>20 DEF ReceiverConfigApplies, Goto, At, LockInv, NodeInv, NoAnswer, Ops
<1>21. ASSUME NEW t \in Threads, ReceiverConfigArchives(t) PROVE LockInv'
  BY <1>21, Constants DEF ReceiverConfigArchives, Answer, At, LockInv, NodeInv, Idle,
     NoAnswer, Ops
<1>22. ASSUME NEW t \in Threads, StartRequests(t) PROVE LockInv'
  BY <1>22 DEF StartRequests, Goto, At, LockInv, NodeInv, NoAnswer, Ops
<1>23. ASSUME NEW t \in Threads, NEW late \in BOOLEAN, StartSender(t, late)
       PROVE  LockInv'
  BY <1>23 DEF StartSender, SenderGone, Goto, At, LockInv, CallsType, CallType, NodeInv,
     NoAnswer, Ops
<1>24. ASSUME NEW t \in Threads, StartDone(t) PROVE LockInv'
  BY <1>24 DEF StartDone, Answer, At, LockInv, NodeInv, Idle, NoAnswer, Ops
<1>25. ASSUME NEW t \in Threads, StopRequests(t) PROVE LockInv'
  BY <1>25 DEF StopRequests, LockInv, CallsType, NodeInv, NoAnswer, Ops
<1>26. ASSUME NEW t \in Threads, StopJoins(t) PROVE LockInv'
  BY <1>26 DEF StopJoins, SenderGone, Goto, LockInv, NodeInv, NoAnswer, Ops
<1>27. ASSUME NEW t \in Threads, StopReports(t) PROVE LockInv'
  BY <1>27 DEF StopReports, Goto, LockInv, NodeInv, NoAnswer, Ops
<1>28. ASSUME NEW t \in Threads, StopClears(t) PROVE LockInv'
  BY <1>28 DEF StopClears, Goto, LockInv, NodeInv, NoAnswer, Ops
<1>29. ASSUME NEW t \in Threads, StopReceiver(t) PROVE LockInv'
  BY <1>29 DEF StopReceiver, Goto, LockInv, NodeInv, NoAnswer, Ops
<1>30. ASSUME NEW t \in Threads, StopAnswers(t) PROVE LockInv'
  BY <1>30 DEF StopAnswers, Answer, LockInv, NodeInv, Idle, NoAnswer, Ops
<1>31. ASSUME NEW t \in Threads, NEW refuses \in BOOLEAN, ToSender(t, refuses)
       PROVE  LockInv'
  BY <1>31 DEF ToSender, Answer, Goto, LockInv, CallsType, CallType, NodeInv, Idle,
     NoAnswer, Ops
<1>32. ASSUME NEW t \in Threads, NEW refuses \in BOOLEAN, ToReceiver(t, refuses)
       PROVE  LockInv'
  BY <1>32 DEF ToReceiver, Answer, LockInv, NodeInv, Idle, NoAnswer, Ops
<1>33. CASE UNCHANGED nodeVars
  BY <1>33 DEF nodeVars, LockInv, NodeInv, NoAnswer
<1> QED
  BY <1>1, <1>2, <1>3, <1>4, <1>5, <1>6, <1>7, <1>8, <1>9, <1>10, <1>11, <1>12, <1>13,
     <1>14, <1>15, <1>16, <1>17, <1>18, <1>19, <1>20, <1>21, <1>22, <1>23, <1>24, <1>25,
     <1>26, <1>27, <1>28, <1>29, <1>30, <1>31, <1>32, <1>33, Service \in Threads,
     Clients \subseteq Threads DEF Threads, Step, SenderWorker, ReceiverWorker,
     CallBegins, CallProceeds, ServiceStops

(* Every step keeps HoldInv.                                               *)
LEMMA HoldStep ==
    ASSUME NodeInv, [Step]_nodeVars
    PROVE  HoldInv'
<1>1. CASE SenderEnds
  BY <1>1 DEF SenderEnds, HoldInv, MembersType, SenderType, NodeInv
<1>2. CASE SenderReports
  BY <1>2 DEF SenderReports, HoldInv, NodeInv
<1>3. CASE SenderExits
  BY <1>3 DEF SenderExits, HoldInv
<1>4. ASSUME NEW c \in PeerChains, ReceiverEnds(c) PROVE HoldInv'
  BY <1>4 DEF ReceiverEnds, NodeInv, HoldInv
<1>5. ASSUME NEW res \in receiver.batch, ReceiverReports(res) PROVE HoldInv'
  BY <1>5 DEF ReceiverReports, NodeInv, HoldInv
<1>6. ASSUME NEW t \in Clients, NEW c \in OwnChains, SenderConfigBegins(t, c)
      PROVE  HoldInv'
  BY <1>6 DEF SenderConfigBegins, NodeInv, HoldInv
<1>7. ASSUME NEW t \in Clients, NEW c \in OwnChains, PayloadBegins(t, c) PROVE HoldInv'
  BY <1>7 DEF PayloadBegins, NodeInv, HoldInv
<1>8. ASSUME NEW t \in Clients, NEW c \in OwnChains, Fault(t, c) PROVE HoldInv'
  BY <1>8 DEF Fault, HoldInv, NodeInv
<1>9. ASSUME NEW t \in Clients, NEW cs \in SUBSET PeerChains,
             ReceiverConfigBegins(t, cs)
      PROVE  HoldInv'
  BY <1>9 DEF ReceiverConfigBegins, NodeInv, HoldInv
<1>10. ASSUME NEW t \in Clients, StartUnsynchronized(t) PROVE HoldInv'
  BY <1>10 DEF StartUnsynchronized, NodeInv, HoldInv
<1>11. ASSUME NEW t \in Clients, NEW late \in BOOLEAN, StartBegins(t, late)
       PROVE  HoldInv'
  BY <1>11 DEF StartBegins, NodeInv, HoldInv
<1>12. ASSUME NEW t \in Threads, StopBegins(t) PROVE HoldInv'
  BY <1>12 DEF StopBegins, NodeInv, HoldInv
<1>13. ASSUME NEW t \in Clients, NEW op \in {"pause", "resume"},
              RoundCommandBegins(t, op)
       PROVE  HoldInv'
  BY <1>13 DEF RoundCommandBegins, NodeInv, HoldInv
<1>14. ASSUME NEW t \in Threads, SenderConfigChecks(t) PROVE HoldInv'
  BY <1>14 DEF SenderConfigChecks, NodeInv, HoldInv
<1>15. ASSUME NEW t \in Threads, SenderConfigLocks(t) PROVE HoldInv'
  BY <1>15 DEF SenderConfigLocks, StopSilently, At, HoldInv, NodeInv
<1>16. ASSUME NEW t \in Threads, SenderConfigApplies(t) PROVE HoldInv'
  BY <1>16 DEF SenderConfigApplies, SenderGone, ResetConfiguration, NoSender, At,
     HoldInv
<1>17. ASSUME NEW t \in Threads, PayloadLocks(t) PROVE HoldInv'
  BY <1>17 DEF PayloadLocks, StopSilently, At, HoldInv, MembersType, SenderType, NodeInv
<1>18. ASSUME NEW t \in Threads, NEW feasible \in BOOLEAN, PayloadApplies(t, feasible)
       PROVE  HoldInv'
  BY <1>18 DEF PayloadApplies, SenderGone, At, HoldInv
<1>19. ASSUME NEW t \in Threads, ReceiverConfigChecks(t) PROVE HoldInv'
  BY <1>19 DEF ReceiverConfigChecks, NodeInv, HoldInv
<1>20. ASSUME NEW t \in Threads, ReceiverConfigApplies(t) PROVE HoldInv'
  BY <1>20 DEF ReceiverConfigApplies, NodeInv, HoldInv
<1>21. ASSUME NEW t \in Threads, ReceiverConfigArchives(t) PROVE HoldInv'
  BY <1>21 DEF ReceiverConfigArchives, NodeInv, HoldInv
<1>22. ASSUME NEW t \in Threads, StartRequests(t) PROVE HoldInv'
  BY <1>22 DEF StartRequests, StopSilently, At, HoldInv, NodeInv
<1>23. ASSUME NEW t \in Threads, NEW late \in BOOLEAN, StartSender(t, late)
       PROVE  HoldInv'
  BY <1>23 DEF StartSender, SenderGone, At, HoldInv, MembersType, SenderType, NodeInv
<1>24. ASSUME NEW t \in Threads, StartDone(t) PROVE HoldInv'
  BY <1>24 DEF StartDone, NodeInv, HoldInv
<1>25. ASSUME NEW t \in Threads, StopRequests(t) PROVE HoldInv'
  BY <1>25 DEF StopRequests, StopSilently, HoldInv, NodeInv
<1>26. ASSUME NEW t \in Threads, StopJoins(t) PROVE HoldInv'
  BY <1>26 DEF StopJoins, SenderGone, NodeInv, HoldInv
<1>27. ASSUME NEW t \in Threads, StopReports(t) PROVE HoldInv'
  BY <1>27 DEF StopReports, NodeInv, HoldInv
<1>28. ASSUME NEW t \in Threads, StopClears(t) PROVE HoldInv'
  BY <1>28 DEF StopClears, NodeInv, HoldInv
<1>29. ASSUME NEW t \in Threads, StopReceiver(t) PROVE HoldInv'
  BY <1>29 DEF StopReceiver, NodeInv, HoldInv
<1>30. ASSUME NEW t \in Threads, StopAnswers(t) PROVE HoldInv'
  BY <1>30 DEF StopAnswers, FaultKept, HoldInv, NodeInv
<1>31. ASSUME NEW t \in Threads, NEW refuses \in BOOLEAN, ToSender(t, refuses)
       PROVE  HoldInv'
  BY <1>31 DEF ToSender, HoldInv, MembersType, SenderType, NodeInv
<1>32. ASSUME NEW t \in Threads, NEW refuses \in BOOLEAN, ToReceiver(t, refuses)
       PROVE  HoldInv'
  BY <1>32 DEF ToReceiver, NodeInv, HoldInv
<1>33. CASE UNCHANGED nodeVars
  BY <1>33 DEF nodeVars, HoldInv, NodeInv
<1> QED
  BY <1>1, <1>2, <1>3, <1>4, <1>5, <1>6, <1>7, <1>8, <1>9, <1>10, <1>11, <1>12, <1>13,
     <1>14, <1>15, <1>16, <1>17, <1>18, <1>19, <1>20, <1>21, <1>22, <1>23, <1>24, <1>25,
     <1>26, <1>27, <1>28, <1>29, <1>30, <1>31, <1>32, <1>33, Service \in Threads,
     Clients \subseteq Threads DEF Threads, Step, SenderWorker, ReceiverWorker,
     CallBegins, CallProceeds, ServiceStops

(* Every step keeps the fault plan noted.                                  *)
LEMMA FaultStep ==
    ASSUME NodeInv, [Step]_nodeVars
    PROVE  FaultInv'
<1>1. CASE SenderEnds
  BY <1>1 DEF SenderEnds, FaultInv, MembersType, SenderType, ReceiverType, NodeInv
<1>2. CASE SenderReports
  BY <1>2 DEF SenderReports, FaultInv, ReceiverType, NodeInv
<1>3. CASE SenderExits
  BY <1>3 DEF SenderExits, FaultInv, ReceiverType, NodeInv
<1>4. ASSUME NEW c \in PeerChains, ReceiverEnds(c) PROVE FaultInv'
  BY <1>4 DEF ReceiverEnds, NodeInv, FaultInv
<1>5. ASSUME NEW res \in receiver.batch, ReceiverReports(res) PROVE FaultInv'
  BY <1>5 DEF ReceiverReports, NodeInv, FaultInv
<1>6. ASSUME NEW t \in Clients, NEW c \in OwnChains, SenderConfigBegins(t, c)
      PROVE  FaultInv'
  BY <1>6 DEF SenderConfigBegins, NodeInv, FaultInv
<1>7. ASSUME NEW t \in Clients, NEW c \in OwnChains, PayloadBegins(t, c) PROVE FaultInv'
  BY <1>7 DEF PayloadBegins, NodeInv, FaultInv
<1>8. ASSUME NEW t \in Clients, NEW c \in OwnChains, Fault(t, c) PROVE FaultInv'
  BY <1>8 DEF Fault, FaultInv, MembersType, SenderType, ReceiverType, NodeInv
<1>9. ASSUME NEW t \in Clients, NEW cs \in SUBSET PeerChains,
             ReceiverConfigBegins(t, cs)
      PROVE  FaultInv'
  BY <1>9 DEF ReceiverConfigBegins, NodeInv, FaultInv
<1>10. ASSUME NEW t \in Clients, StartUnsynchronized(t) PROVE FaultInv'
  BY <1>10 DEF StartUnsynchronized, NodeInv, FaultInv
<1>11. ASSUME NEW t \in Clients, NEW late \in BOOLEAN, StartBegins(t, late)
       PROVE  FaultInv'
  BY <1>11 DEF StartBegins, NodeInv, FaultInv
<1>12. ASSUME NEW t \in Threads, StopBegins(t) PROVE FaultInv'
  BY <1>12 DEF StopBegins, NodeInv, FaultInv
<1>13. ASSUME NEW t \in Clients, NEW op \in {"pause", "resume"},
              RoundCommandBegins(t, op)
       PROVE  FaultInv'
  BY <1>13 DEF RoundCommandBegins, NodeInv, FaultInv
<1>14. ASSUME NEW t \in Threads, SenderConfigChecks(t) PROVE FaultInv'
  BY <1>14 DEF SenderConfigChecks, NodeInv, FaultInv
<1>15. ASSUME NEW t \in Threads, SenderConfigLocks(t) PROVE FaultInv'
  BY <1>15 DEF SenderConfigLocks, StopSilently, At, FaultInv, ReceiverType, NodeInv
<1>16. ASSUME NEW t \in Threads, SenderConfigApplies(t) PROVE FaultInv'
  BY <1>16 DEF SenderConfigApplies, SenderGone, ResetConfiguration, NoSender, At,
     FaultInv, ReceiverType
<1>17. ASSUME NEW t \in Threads, PayloadLocks(t) PROVE FaultInv'
  BY <1>17 DEF PayloadLocks, StopSilently, At, FaultInv, MembersType, SenderType,
     ReceiverType, NodeInv
<1>18. ASSUME NEW t \in Threads, NEW feasible \in BOOLEAN, PayloadApplies(t, feasible)
       PROVE  FaultInv'
  BY <1>18 DEF PayloadApplies, SenderGone, At, FaultInv, ReceiverType, NodeInv
<1>19. ASSUME NEW t \in Threads, ReceiverConfigChecks(t) PROVE FaultInv'
  BY <1>19 DEF ReceiverConfigChecks, NodeInv, FaultInv
<1>20. ASSUME NEW t \in Threads, ReceiverConfigApplies(t) PROVE FaultInv'
  BY <1>20 DEF ReceiverConfigApplies, NodeInv, FaultInv
<1>21. ASSUME NEW t \in Threads, ReceiverConfigArchives(t) PROVE FaultInv'
  BY <1>21, Constants DEF ReceiverConfigArchives, KeptInArchive, At, FaultInv,
     MembersType, ReceiverType, NodeInv
<1>22. ASSUME NEW t \in Threads, StartRequests(t) PROVE FaultInv'
  BY <1>22 DEF StartRequests, StopSilently, At, FaultInv, ReceiverType, NodeInv
<1>23. ASSUME NEW t \in Threads, NEW late \in BOOLEAN, StartSender(t, late)
       PROVE  FaultInv'
  <2>1. UNCHANGED <<context, archive>>
    BY <1>23 DEF StartSender
  <2>2. sender'.payload = sender.payload /\ sender'.fault = sender.fault
    BY <1>23 DEF StartSender, NodeInv, MembersType, SenderType
  <2> QED
    BY <2>1, <2>2 DEF NodeInv, FaultInv
<1>24. ASSUME NEW t \in Threads, StartDone(t) PROVE FaultInv'
  BY <1>24 DEF StartDone, NodeInv, FaultInv
<1>25. ASSUME NEW t \in Threads, StopRequests(t) PROVE FaultInv'
  BY <1>25 DEF StopRequests, StopSilently, FaultInv, ReceiverType, NodeInv
<1>26. ASSUME NEW t \in Threads, StopJoins(t) PROVE FaultInv'
  BY <1>26 DEF StopJoins, NodeInv, FaultInv
<1>27. ASSUME NEW t \in Threads, StopReports(t) PROVE FaultInv'
  BY <1>27 DEF StopReports, NodeInv, FaultInv
<1>28. ASSUME NEW t \in Threads, StopClears(t) PROVE FaultInv'
  BY <1>28 DEF StopClears, FaultInv, ReceiverType, NodeInv
<1>29. ASSUME NEW t \in Threads, StopReceiver(t) PROVE FaultInv'
  BY <1>29 DEF StopReceiver, NodeInv, FaultInv
<1>30. ASSUME NEW t \in Threads, StopAnswers(t) PROVE FaultInv'
  BY <1>30 DEF StopAnswers, FaultKept, FaultInv, MembersType, SenderType, ReceiverType,
     NodeInv
<1>31. ASSUME NEW t \in Threads, NEW refuses \in BOOLEAN, ToSender(t, refuses)
       PROVE  FaultInv'
  BY <1>31 DEF ToSender, FaultInv, MembersType, SenderType, ReceiverType, NodeInv
<1>32. ASSUME NEW t \in Threads, NEW refuses \in BOOLEAN, ToReceiver(t, refuses)
       PROVE  FaultInv'
  BY <1>32 DEF ToReceiver, NodeInv, FaultInv
<1>33. CASE UNCHANGED nodeVars
  BY <1>33 DEF nodeVars, FaultInv, ReceiverType, NodeInv
<1> QED
  BY <1>1, <1>2, <1>3, <1>4, <1>5, <1>6, <1>7, <1>8, <1>9, <1>10, <1>11, <1>12, <1>13,
     <1>14, <1>15, <1>16, <1>17, <1>18, <1>19, <1>20, <1>21, <1>22, <1>23, <1>24, <1>25,
     <1>26, <1>27, <1>28, <1>29, <1>30, <1>31, <1>32, <1>33, Service \in Threads,
     Clients \subseteq Threads DEF Threads, Step, SenderWorker, ReceiverWorker,
     CallBegins, CallProceeds, ServiceStops

(* Every result handed out is archived as it ran.                          *)
LEMMA NotedStep ==
    ASSUME NodeInv, [Step]_nodeVars
    PROVE  FaultIsNoted'
<1>1. CASE SenderEnds
  BY <1>1 DEF SenderEnds, NodeInv, FaultIsNoted
<1>2. CASE SenderReports
  BY <1>2 DEF SenderReports, Emitted, Noted, SenderResult, FaultInv, NodeInv,
     FaultIsNoted
<1>3. CASE SenderExits
  BY <1>3 DEF SenderExits, NodeInv, FaultIsNoted
<1>4. ASSUME NEW c \in PeerChains, ReceiverEnds(c) PROVE FaultIsNoted'
  BY <1>4 DEF ReceiverEnds, NodeInv, FaultIsNoted
<1>5. ASSUME NEW res \in receiver.batch, ReceiverReports(res) PROVE FaultIsNoted'
  BY <1>5 DEF ReceiverReports, Emitted, Noted, FaultInv, NodeInv, FaultIsNoted
<1>6. ASSUME NEW t \in Clients, NEW c \in OwnChains, SenderConfigBegins(t, c)
      PROVE  FaultIsNoted'
  BY <1>6 DEF SenderConfigBegins, NodeInv, FaultIsNoted
<1>7. ASSUME NEW t \in Clients, NEW c \in OwnChains, PayloadBegins(t, c)
      PROVE  FaultIsNoted'
  BY <1>7 DEF PayloadBegins, NodeInv, FaultIsNoted
<1>8. ASSUME NEW t \in Clients, NEW c \in OwnChains, Fault(t, c) PROVE FaultIsNoted'
  BY <1>8 DEF Fault, NodeInv, FaultIsNoted
<1>9. ASSUME NEW t \in Clients, NEW cs \in SUBSET PeerChains,
             ReceiverConfigBegins(t, cs)
      PROVE  FaultIsNoted'
  BY <1>9 DEF ReceiverConfigBegins, NodeInv, FaultIsNoted
<1>10. ASSUME NEW t \in Clients, StartUnsynchronized(t) PROVE FaultIsNoted'
  BY <1>10 DEF StartUnsynchronized, NodeInv, FaultIsNoted
<1>11. ASSUME NEW t \in Clients, NEW late \in BOOLEAN, StartBegins(t, late)
       PROVE  FaultIsNoted'
  BY <1>11 DEF StartBegins, NodeInv, FaultIsNoted
<1>12. ASSUME NEW t \in Threads, StopBegins(t) PROVE FaultIsNoted'
  BY <1>12 DEF StopBegins, NodeInv, FaultIsNoted
<1>13. ASSUME NEW t \in Clients, NEW op \in {"pause", "resume"},
              RoundCommandBegins(t, op)
       PROVE  FaultIsNoted'
  BY <1>13 DEF RoundCommandBegins, NodeInv, FaultIsNoted
<1>14. ASSUME NEW t \in Threads, SenderConfigChecks(t) PROVE FaultIsNoted'
  BY <1>14 DEF SenderConfigChecks, NodeInv, FaultIsNoted
<1>15. ASSUME NEW t \in Threads, SenderConfigLocks(t) PROVE FaultIsNoted'
  BY <1>15 DEF SenderConfigLocks, NodeInv, FaultIsNoted
<1>16. ASSUME NEW t \in Threads, SenderConfigApplies(t) PROVE FaultIsNoted'
  BY <1>16 DEF SenderConfigApplies, NodeInv, FaultIsNoted
<1>17. ASSUME NEW t \in Threads, PayloadLocks(t) PROVE FaultIsNoted'
  BY <1>17 DEF PayloadLocks, NodeInv, FaultIsNoted
<1>18. ASSUME NEW t \in Threads, NEW feasible \in BOOLEAN, PayloadApplies(t, feasible)
       PROVE  FaultIsNoted'
  BY <1>18 DEF PayloadApplies, NodeInv, FaultIsNoted
<1>19. ASSUME NEW t \in Threads, ReceiverConfigChecks(t) PROVE FaultIsNoted'
  BY <1>19 DEF ReceiverConfigChecks, NodeInv, FaultIsNoted
<1>20. ASSUME NEW t \in Threads, ReceiverConfigApplies(t) PROVE FaultIsNoted'
  BY <1>20 DEF ReceiverConfigApplies, NodeInv, FaultIsNoted
<1>21. ASSUME NEW t \in Threads, ReceiverConfigArchives(t) PROVE FaultIsNoted'
  BY <1>21 DEF ReceiverConfigArchives, NodeInv, FaultIsNoted
<1>22. ASSUME NEW t \in Threads, StartRequests(t) PROVE FaultIsNoted'
  BY <1>22 DEF StartRequests, NodeInv, FaultIsNoted
<1>23. ASSUME NEW t \in Threads, NEW late \in BOOLEAN, StartSender(t, late)
       PROVE  FaultIsNoted'
  BY <1>23 DEF StartSender, NodeInv, FaultIsNoted
<1>24. ASSUME NEW t \in Threads, StartDone(t) PROVE FaultIsNoted'
  BY <1>24 DEF StartDone, NodeInv, FaultIsNoted
<1>25. ASSUME NEW t \in Threads, StopRequests(t) PROVE FaultIsNoted'
  BY <1>25 DEF StopRequests, NodeInv, FaultIsNoted
<1>26. ASSUME NEW t \in Threads, StopJoins(t) PROVE FaultIsNoted'
  BY <1>26 DEF StopJoins, NodeInv, FaultIsNoted
<1>27. ASSUME NEW t \in Threads, StopReports(t) PROVE FaultIsNoted'
  BY <1>27 DEF StopReports, Emitted, Noted, SenderResult, FaultInv, NodeInv,
     FaultIsNoted
<1>28. ASSUME NEW t \in Threads, StopClears(t) PROVE FaultIsNoted'
  BY <1>28 DEF StopClears, NodeInv, FaultIsNoted
<1>29. ASSUME NEW t \in Threads, StopReceiver(t) PROVE FaultIsNoted'
  BY <1>29 DEF StopReceiver, NodeInv, FaultIsNoted
<1>30. ASSUME NEW t \in Threads, StopAnswers(t) PROVE FaultIsNoted'
  BY <1>30 DEF StopAnswers, NodeInv, FaultIsNoted
<1>31. ASSUME NEW t \in Threads, NEW refuses \in BOOLEAN, ToSender(t, refuses)
       PROVE  FaultIsNoted'
  BY <1>31 DEF ToSender, NodeInv, FaultIsNoted
<1>32. ASSUME NEW t \in Threads, NEW refuses \in BOOLEAN, ToReceiver(t, refuses)
       PROVE  FaultIsNoted'
  BY <1>32 DEF ToReceiver, NodeInv, FaultIsNoted
<1>33. CASE UNCHANGED nodeVars
  BY <1>33 DEF nodeVars, FaultInv, NodeInv, FaultIsNoted
<1> QED
  BY <1>1, <1>2, <1>3, <1>4, <1>5, <1>6, <1>7, <1>8, <1>9, <1>10, <1>11, <1>12, <1>13,
     <1>14, <1>15, <1>16, <1>17, <1>18, <1>19, <1>20, <1>21, <1>22, <1>23, <1>24, <1>25,
     <1>26, <1>27, <1>28, <1>29, <1>30, <1>31, <1>32, <1>33, Service \in Threads,
     Clients \subseteq Threads DEF Threads, Step, SenderWorker, ReceiverWorker,
     CallBegins, CallProceeds, ServiceStops

(* The invariant holds at first.                                           *)
LEMMA NodeInit ==
    ASSUME Init
    PROVE  NodeInv
<1>1. NoSender \in SenderType /\ NoReceiver \in ReceiverType
  BY DEF NoSender, NoReceiver, SenderType, ReceiverType
<1>2. MembersType
  BY <1>1 DEF Init, MembersType, NoReceiver
<1>3. Idle \in CallType /\ Proper(Idle)
  BY Words DEF Idle, CallType, Proper, Stoppers
<1>4. CallsType
  BY <1>3 DEF Init, CallsType
<1>5. AnswersType
  BY Words DEF Init, AnswersType, NoAnswer
<1>6. LockInv
  BY Constants DEF Init, LockInv, Idle
<1>7. HoldInv /\ FaultInv /\ FaultIsNoted
  BY DEF Init, HoldInv, FaultInv, FaultIsNoted, NoSender
<1> QED
  BY <1>2, <1>4, <1>5, <1>6, <1>7 DEF NodeInv

(* Every step keeps it.                                                    *)
LEMMA NodeStep ==
    ASSUME NodeInv, [Step]_nodeVars
    PROVE  NodeInv'
<1>1. MembersType' /\ CallsType' /\ AnswersType'
  BY MembersStep, CallsStep, AnswersStep
<1>2. LockInv' /\ HoldInv' /\ FaultInv' /\ FaultIsNoted'
  BY LockStep, HoldStep, FaultStep, NotedStep
<1> QED
  BY <1>1, <1>2 DEF NodeInv

(* The node keeps the invariant, whatever its clients call and however the *)
(* calls interleave.                                                       *)
THEOREM NodeInvariant == Spec => []NodeInv
<1>1. Init => NodeInv
  BY NodeInit
<1>2. NodeInv /\ [Next]_vars => NodeInv'
  BY NextIsStep, NodeStep
<1> QED
  BY <1>1, <1>2, PTL DEF Spec

(* It implies the types.                                                   *)
LEMMA NodeInvTypes ==
    ASSUME NodeInv
    PROVE  TypeOK
<1>1. /\ lock \in Threads \cup {"free"} /\ context \in OwnChains \cup {0}
      /\ DOMAIN archive \subseteq Chains
  BY DEF NodeInv, MembersType, LockInv
<1>2. /\ sender.payload \in OwnChains \cup {0}
      /\ sender.worker \in {"off", "run", "report", "exit"}
      /\ receiver.contexts \subseteq PeerChains
      /\ receiver.active \subseteq receiver.contexts
  BY DEF NodeInv, MembersType, SenderType, ReceiverType
<1>3. /\ sender.hold => sender.running
      /\ sender.worker # "off" => sender.joinable
      /\ lock # "free" => call[lock].at = "join"
  BY DEF NodeInv, HoldInv, LockInv
<1> QED
  BY <1>1, <1>2, <1>3 DEF TypeOK

(* The variables keep their types.                                         *)
THEOREM NodeTyping == Spec => []TypeOK
BY NodeInvariant, NodeInvTypes, PTL

(* A round that ran under a fault plan is never archived without it        *)
(* (emitResult, msgPrepareSenderPayload).                                  *)
THEOREM FaultNoted == Spec => []FaultIsNoted
<1>1. NodeInv => FaultIsNoted
  BY DEF NodeInv
<1> QED
  BY NodeInvariant, <1>1, PTL

(* The agent goes on to do nothing but stop.                               *)
LEMMA ServiceStep ==
    ASSUME NEW m, Clients = {m}, NodeInv, ManagerInv(m), [Step]_nodeVars
    PROVE  ServiceInv'
<1>1. CASE SenderEnds
  BY <1>1 DEF SenderEnds, ManagerInv, ServiceInv
<1>2. CASE SenderReports
  BY <1>2 DEF SenderReports, ManagerInv, ServiceInv
<1>3. CASE SenderExits
  BY <1>3 DEF SenderExits, ManagerInv, ServiceInv
<1>4. ASSUME NEW c \in PeerChains, ReceiverEnds(c) PROVE ServiceInv'
  BY <1>4 DEF ReceiverEnds, ManagerInv, ServiceInv
<1>5. ASSUME NEW res \in receiver.batch, ReceiverReports(res) PROVE ServiceInv'
  BY <1>5 DEF ReceiverReports, ManagerInv, ServiceInv
<1>6. ASSUME NEW t \in Clients, NEW c \in OwnChains, SenderConfigBegins(t, c)
      PROVE  ServiceInv'
  BY <1>6, Constants DEF SenderConfigBegins, Begin, ManagerInv, ServiceInv, NoAnswer
<1>7. ASSUME NEW t \in Clients, NEW c \in OwnChains, PayloadBegins(t, c)
      PROVE  ServiceInv'
  BY <1>7, Constants DEF PayloadBegins, Begin, ManagerInv, ServiceInv, NoAnswer
<1>8. ASSUME NEW t \in Clients, NEW c \in OwnChains, Fault(t, c) PROVE ServiceInv'
  BY <1>8, Constants DEF Fault, ManagerInv, ServiceInv, NoAnswer
<1>9. ASSUME NEW t \in Clients, NEW cs \in SUBSET PeerChains,
             ReceiverConfigBegins(t, cs)
      PROVE  ServiceInv'
  BY <1>9, Constants DEF ReceiverConfigBegins, Begin, ManagerInv, ServiceInv, NoAnswer
<1>10. ASSUME NEW t \in Clients, StartUnsynchronized(t) PROVE ServiceInv'
  BY <1>10, Constants DEF StartUnsynchronized, ManagerInv, ServiceInv, NoAnswer
<1>11. ASSUME NEW t \in Clients, NEW late \in BOOLEAN, StartBegins(t, late)
       PROVE  ServiceInv'
  BY <1>11, Constants DEF StartBegins, Begin, ManagerInv, ServiceInv, NoAnswer
<1>12. ASSUME NEW t \in Threads, StopBegins(t) PROVE ServiceInv'
  BY <1>12 DEF StopBegins, Begin, ManagerInv, ServiceInv, NoAnswer
<1>13. ASSUME NEW t \in Clients, NEW op \in {"pause", "resume"},
              RoundCommandBegins(t, op)
       PROVE  ServiceInv'
  BY <1>13, Constants DEF RoundCommandBegins, Begin, ManagerInv, ServiceInv, NoAnswer
<1>14. ASSUME NEW t \in Threads, SenderConfigChecks(t) PROVE ServiceInv'
  <2>1. t # Service
    BY <1>14 DEF SenderConfigChecks, At, ManagerInv, ServiceInv
  <2>2. call'[Service] = call[Service] /\ answer'[Service] = answer[Service]
    <3>1. \/ UNCHANGED answer
          \/ answer' = [answer EXCEPT ![t] = [op |-> call[t].op, ok |-> FALSE]]
      BY <1>14 DEF SenderConfigChecks, Answer
    <3>2. answer'[Service] = answer[Service]
      BY <2>1, <3>1, Constants DEF NodeInv, AnswersType
    <3>3. \/ call' = [call EXCEPT ![t] = Idle]
          \/ \E at \in Places : call' = [call EXCEPT ![t].at = at]
      BY <1>14, Words DEF SenderConfigChecks, Answer, Goto
    <3> QED
      BY <2>1, <3>2, <3>3, Constants DEF NodeInv, CallsType
  <2> QED
    BY <2>2 DEF ManagerInv, ServiceInv
<1>15. ASSUME NEW t \in Threads, SenderConfigLocks(t) PROVE ServiceInv'
  BY <1>15 DEF SenderConfigLocks, Goto, At, ManagerInv, ServiceInv, NoAnswer
<1>16. ASSUME NEW t \in Threads, SenderConfigApplies(t) PROVE ServiceInv'
  BY <1>16 DEF SenderConfigApplies, SenderGone, Answer, At, ManagerInv, ServiceInv,
     NoAnswer
<1>17. ASSUME NEW t \in Threads, PayloadLocks(t) PROVE ServiceInv'
  <2>1. t # Service
    BY <1>17 DEF PayloadLocks, At, ManagerInv, ServiceInv
  <2>2. call'[Service] = call[Service] /\ answer'[Service] = answer[Service]
    <3>1. \/ UNCHANGED answer
          \/ answer' = [answer EXCEPT ![t] = [op |-> call[t].op, ok |-> FALSE]]
      BY <1>17 DEF PayloadLocks, Answer
    <3>2. answer'[Service] = answer[Service]
      BY <2>1, <3>1, Constants DEF NodeInv, AnswersType
    <3>3. \/ call' = [call EXCEPT ![t] = Idle]
          \/ \E at \in Places : call' = [call EXCEPT ![t].at = at]
      BY <1>17, Words DEF PayloadLocks, Answer, Goto
    <3> QED
      BY <2>1, <3>2, <3>3, Constants DEF NodeInv, CallsType
  <2> QED
    BY <2>2 DEF ManagerInv, ServiceInv
<1>18. ASSUME NEW t \in Threads, NEW feasible \in BOOLEAN, PayloadApplies(t, feasible)
       PROVE  ServiceInv'
  BY <1>18 DEF PayloadApplies, SenderGone, Answer, At, ManagerInv, ServiceInv, NoAnswer
<1>19. ASSUME NEW t \in Threads, ReceiverConfigChecks(t) PROVE ServiceInv'
  <2>1. t # Service
    BY <1>19 DEF ReceiverConfigChecks, At, ManagerInv, ServiceInv
  <2>2. call'[Service] = call[Service] /\ answer'[Service] = answer[Service]
    <3>1. \/ UNCHANGED answer
          \/ answer' = [answer EXCEPT ![t] = [op |-> call[t].op, ok |-> FALSE]]
      BY <1>19 DEF ReceiverConfigChecks, Answer
    <3>2. answer'[Service] = answer[Service]
      BY <2>1, <3>1, Constants DEF NodeInv, AnswersType
    <3>3. \/ call' = [call EXCEPT ![t] = Idle]
          \/ \E at \in Places : call' = [call EXCEPT ![t].at = at]
      BY <1>19, Words DEF ReceiverConfigChecks, Answer, Goto
    <3> QED
      BY <2>1, <3>2, <3>3, Constants DEF NodeInv, CallsType
  <2> QED
    BY <2>2 DEF ManagerInv, ServiceInv
<1>20. ASSUME NEW t \in Threads, ReceiverConfigApplies(t) PROVE ServiceInv'
  BY <1>20 DEF ReceiverConfigApplies, Goto, At, ManagerInv, ServiceInv, NoAnswer
<1>21. ASSUME NEW t \in Threads, ReceiverConfigArchives(t) PROVE ServiceInv'
  BY <1>21 DEF ReceiverConfigArchives, Answer, At, ManagerInv, ServiceInv, NoAnswer
<1>22. ASSUME NEW t \in Threads, StartRequests(t) PROVE ServiceInv'
  BY <1>22 DEF StartRequests, Goto, At, ManagerInv, ServiceInv, NoAnswer
<1>23. ASSUME NEW t \in Threads, NEW late \in BOOLEAN, StartSender(t, late)
       PROVE  ServiceInv'
  BY <1>23 DEF StartSender, SenderGone, Goto, At, ManagerInv, NodeInv, CallsType,
     ServiceInv, NoAnswer, Threads
<1>24. ASSUME NEW t \in Threads, StartDone(t) PROVE ServiceInv'
  BY <1>24 DEF StartDone, Answer, At, ManagerInv, ServiceInv, NoAnswer
<1>25. ASSUME NEW t \in Threads, StopRequests(t) PROVE ServiceInv'
  BY <1>25 DEF StopRequests, ManagerInv, NodeInv, CallsType, ServiceInv, NoAnswer,
     Threads
<1>26. ASSUME NEW t \in Threads, StopJoins(t) PROVE ServiceInv'
  BY <1>26 DEF StopJoins, SenderGone, Goto, ManagerInv, ServiceInv, NoAnswer
<1>27. ASSUME NEW t \in Threads, StopReports(t) PROVE ServiceInv'
  BY <1>27 DEF StopReports, Goto, ManagerInv, ServiceInv, NoAnswer
<1>28. ASSUME NEW t \in Threads, StopClears(t) PROVE ServiceInv'
  BY <1>28 DEF StopClears, Goto, ManagerInv, ServiceInv, NoAnswer
<1>29. ASSUME NEW t \in Threads, StopReceiver(t) PROVE ServiceInv'
  BY <1>29 DEF StopReceiver, Goto, ManagerInv, ServiceInv, NoAnswer
<1>30. ASSUME NEW t \in Threads, StopAnswers(t) PROVE ServiceInv'
  BY <1>30 DEF StopAnswers, Answer, ManagerInv, ServiceInv, NoAnswer, Idle
<1>31. ASSUME NEW t \in Threads, NEW refuses \in BOOLEAN, ToSender(t, refuses)
       PROVE  ServiceInv'
  <2>1. t # Service
    BY <1>31 DEF ToSender, At, ManagerInv, ServiceInv, NodeInv, CallsType, Proper,
       Stoppers
  <2>2. call'[Service] = call[Service] /\ answer'[Service] = answer[Service]
    <3>1. \/ UNCHANGED answer
          \/ answer' = [answer EXCEPT ![t] = [op |-> call[t].op, ok |-> FALSE]]
      BY <1>31 DEF ToSender, Answer
    <3>2. answer'[Service] = answer[Service]
      BY <2>1, <3>1, Constants DEF NodeInv, AnswersType
    <3>3. \/ call' = [call EXCEPT ![t] = Idle]
          \/ \E at \in Places : call' = [call EXCEPT ![t].at = at]
      BY <1>31, Words DEF ToSender, Answer, Goto
    <3> QED
      BY <2>1, <3>2, <3>3, Constants DEF NodeInv, CallsType
  <2> QED
    BY <2>2 DEF ManagerInv, ServiceInv
<1>32. ASSUME NEW t \in Threads, NEW refuses \in BOOLEAN, ToReceiver(t, refuses)
       PROVE  ServiceInv'
  BY <1>32 DEF ToReceiver, Answer, ManagerInv, ServiceInv, NoAnswer, Idle
<1>33. CASE UNCHANGED nodeVars
  BY <1>33 DEF nodeVars, ManagerInv, ServiceInv, NoAnswer, At
<1> QED
  BY <1>1, <1>2, <1>3, <1>4, <1>5, <1>6, <1>7, <1>8, <1>9, <1>10, <1>11, <1>12, <1>13,
     <1>14, <1>15, <1>16, <1>17, <1>18, <1>19, <1>20, <1>21, <1>22, <1>23, <1>24, <1>25,
     <1>26, <1>27, <1>28, <1>29, <1>30, <1>31, <1>32, <1>33, Service \in Threads,
     Clients \subseteq Threads DEF Threads, Step, SenderWorker, ReceiverWorker,
     CallBegins, CallProceeds, ServiceStops

(* Every step keeps what the stop of the Manager has achieved.             *)
LEMMA UndoneStep ==
    ASSUME NEW m, Clients = {m}, NodeInv, ManagerInv(m), [Step]_nodeVars
    PROVE  UndoneInv(m)'
<1>1. CASE SenderEnds
  BY <1>1 DEF SenderEnds, ManagerInv, UndoneInv, ReceiverType
<1>2. CASE SenderReports
  BY <1>2 DEF SenderReports, ManagerInv, UndoneInv, ReceiverType
<1>3. CASE SenderExits
  BY <1>3 DEF SenderExits, ManagerInv, UndoneInv, ReceiverType
<1>4. ASSUME NEW c \in PeerChains, ReceiverEnds(c) PROVE UndoneInv(m)'
  BY <1>4 DEF ReceiverEnds, ReceiverResult, ManagerInv, UndoneInv, ReceiverType
<1>5. ASSUME NEW res \in receiver.batch, ReceiverReports(res) PROVE UndoneInv(m)'
  BY <1>5 DEF ReceiverReports, ManagerInv, UndoneInv, ReceiverType
<1>6. ASSUME NEW t \in Clients, NEW c \in OwnChains, SenderConfigBegins(t, c)
      PROVE  UndoneInv(m)'
  BY <1>6 DEF SenderConfigBegins, Begin, ManagerInv, UndoneInv, ReceiverType
<1>7. ASSUME NEW t \in Clients, NEW c \in OwnChains, PayloadBegins(t, c)
      PROVE  UndoneInv(m)'
  BY <1>7 DEF PayloadBegins, Begin, ManagerInv, UndoneInv, ReceiverType
<1>8. ASSUME NEW t \in Clients, NEW c \in OwnChains, Fault(t, c) PROVE UndoneInv(m)'
  BY <1>8 DEF Fault, ManagerInv, UndoneInv, ReceiverType
<1>9. ASSUME NEW t \in Clients, NEW cs \in SUBSET PeerChains,
             ReceiverConfigBegins(t, cs)
      PROVE  UndoneInv(m)'
  BY <1>9 DEF ReceiverConfigBegins, Begin, ManagerInv, UndoneInv, ReceiverType
<1>10. ASSUME NEW t \in Clients, StartUnsynchronized(t) PROVE UndoneInv(m)'
  BY <1>10 DEF StartUnsynchronized, ManagerInv, UndoneInv
<1>11. ASSUME NEW t \in Clients, NEW late \in BOOLEAN, StartBegins(t, late)
       PROVE  UndoneInv(m)'
  BY <1>11 DEF StartBegins, Begin, ReceiverResult, UndoneInv, ReceiverType, Idle
<1>12. ASSUME NEW t \in Threads, StopBegins(t) PROVE UndoneInv(m)'
  BY <1>12 DEF StopBegins, Begin, ManagerInv, UndoneInv, ReceiverType
<1>13. ASSUME NEW t \in Clients, NEW op \in {"pause", "resume"},
              RoundCommandBegins(t, op)
       PROVE  UndoneInv(m)'
  BY <1>13 DEF RoundCommandBegins, Begin, ManagerInv, UndoneInv, ReceiverType
<1>14. ASSUME NEW t \in Threads, SenderConfigChecks(t) PROVE UndoneInv(m)'
  BY <1>14 DEF SenderConfigChecks, Answer, Goto, At, ManagerInv, NodeInv, CallsType,
     CallType, UndoneInv, ReceiverType, Idle, Threads
<1>15. ASSUME NEW t \in Threads, SenderConfigLocks(t) PROVE UndoneInv(m)'
  BY <1>15 DEF SenderConfigLocks, StopSilently, Goto, At, ManagerInv, UndoneInv,
     ReceiverType
<1>16. ASSUME NEW t \in Threads, SenderConfigApplies(t) PROVE UndoneInv(m)'
  BY <1>16 DEF SenderConfigApplies, SenderGone, ResetConfiguration, NoSender, Answer,
     At, ManagerInv, UndoneInv, ReceiverType, Idle
<1>17. ASSUME NEW t \in Threads, PayloadLocks(t) PROVE UndoneInv(m)'
  BY <1>17 DEF PayloadLocks, StopSilently, Answer, Goto, At, ManagerInv, NodeInv,
     CallsType, CallType, UndoneInv, ServiceInv, ReceiverType, Idle, Threads
<1>18. ASSUME NEW t \in Threads, NEW feasible \in BOOLEAN, PayloadApplies(t, feasible)
       PROVE  UndoneInv(m)'
  BY <1>18 DEF PayloadApplies, SenderGone, Answer, At, ManagerInv, UndoneInv,
     ReceiverType, Idle
<1>19. ASSUME NEW t \in Threads, ReceiverConfigChecks(t) PROVE UndoneInv(m)'
  BY <1>19 DEF ReceiverConfigChecks, Answer, Goto, At, ManagerInv, NodeInv, CallsType,
     CallType, UndoneInv, ReceiverType, Idle, Threads
<1>20. ASSUME NEW t \in Threads, ReceiverConfigApplies(t) PROVE UndoneInv(m)'
  BY <1>20 DEF ReceiverConfigApplies, ReceiverResult, Goto, At, ManagerInv, UndoneInv,
     ReceiverType
<1>21. ASSUME NEW t \in Threads, ReceiverConfigArchives(t) PROVE UndoneInv(m)'
  BY <1>21 DEF ReceiverConfigArchives, Answer, At, ManagerInv, UndoneInv, ReceiverType,
     Idle
<1>22. ASSUME NEW t \in Threads, StartRequests(t) PROVE UndoneInv(m)'
  BY <1>22 DEF StartRequests, StopSilently, Goto, At, ManagerInv, UndoneInv,
     ReceiverType
<1>23. ASSUME NEW t \in Threads, NEW late \in BOOLEAN, StartSender(t, late)
       PROVE  UndoneInv(m)'
  BY <1>23 DEF StartSender, SenderGone, Goto, At, ManagerInv, NodeInv, CallsType,
     CallType, UndoneInv, ServiceInv, ReceiverType, Threads
<1>24. ASSUME NEW t \in Threads, StartDone(t) PROVE UndoneInv(m)'
  BY <1>24 DEF StartDone, Answer, At, ManagerInv, UndoneInv, ReceiverType, Idle
<1>25. ASSUME NEW t \in Threads, StopRequests(t) PROVE UndoneInv(m)'
  BY <1>25 DEF StopRequests, StopSilently, ManagerInv, NodeInv, CallsType, UndoneInv,
     ReceiverType, Threads
<1>26. ASSUME NEW t \in Threads, StopJoins(t) PROVE UndoneInv(m)'
  BY <1>26 DEF StopJoins, SenderGone, Goto, ManagerInv, UndoneInv, ReceiverType
<1>27. ASSUME NEW t \in Threads, StopReports(t) PROVE UndoneInv(m)'
  BY <1>27 DEF StopReports, Goto, ManagerInv, UndoneInv, ReceiverType
<1>28. ASSUME NEW t \in Threads, StopClears(t) PROVE UndoneInv(m)'
  BY <1>28 DEF StopClears, Goto, ManagerInv, UndoneInv, ReceiverType
<1>29. ASSUME NEW t \in Threads, StopReceiver(t) PROVE UndoneInv(m)'
  BY <1>29 DEF StopReceiver, ReceiverResult, Goto, ManagerInv, UndoneInv, ReceiverType
<1>30. ASSUME NEW t \in Threads, StopAnswers(t) PROVE UndoneInv(m)'
  BY <1>30 DEF StopAnswers, FaultKept, Answer, ManagerInv, UndoneInv, ReceiverType
<1>31. ASSUME NEW t \in Threads, NEW refuses \in BOOLEAN, ToSender(t, refuses)
       PROVE  UndoneInv(m)'
  BY <1>31 DEF ToSender, Answer, Goto, ManagerInv, NodeInv, CallsType, CallType,
     UndoneInv, ServiceInv, ReceiverType, Proper, Idle, Stoppers, Threads
<1>32. ASSUME NEW t \in Threads, NEW refuses \in BOOLEAN, ToReceiver(t, refuses)
       PROVE  UndoneInv(m)'
  BY <1>32 DEF ToReceiver, Answer, ManagerInv, UndoneInv, ReceiverType, Idle
<1>33. CASE UNCHANGED nodeVars
  BY <1>33 DEF nodeVars, ManagerInv, UndoneInv, ReceiverType, At
<1> QED
  BY <1>1, <1>2, <1>3, <1>4, <1>5, <1>6, <1>7, <1>8, <1>9, <1>10, <1>11, <1>12, <1>13,
     <1>14, <1>15, <1>16, <1>17, <1>18, <1>19, <1>20, <1>21, <1>22, <1>23, <1>24, <1>25,
     <1>26, <1>27, <1>28, <1>29, <1>30, <1>31, <1>32, <1>33, Service \in Threads,
     Clients \subseteq Threads DEF Threads, Step, SenderWorker, ReceiverWorker,
     CallBegins, CallProceeds, ServiceStops

(* Every step keeps what the pause of the Manager has achieved.            *)
LEMMA PausedStep ==
    ASSUME NEW m, Clients = {m}, NodeInv, ManagerInv(m), [Step]_nodeVars
    PROVE  PausedInv(m)'
<1>1. CASE SenderEnds
  BY <1>1 DEF SenderEnds, ManagerInv, NodeInv, PausedInv, HoldInv, MembersType,
     SenderType, AnswersType, NoAnswer, At
<1>2. CASE SenderReports
  BY <1>2 DEF SenderReports, ManagerInv, PausedInv, HoldInv, AnswersType, NoAnswer, At
<1>3. CASE SenderExits
  BY <1>3 DEF SenderExits, ManagerInv, PausedInv, HoldInv, AnswersType, NoAnswer, At
<1>4. ASSUME NEW c \in PeerChains, ReceiverEnds(c) PROVE PausedInv(m)'
  BY <1>4 DEF ReceiverEnds, ManagerInv, PausedInv, At
<1>5. ASSUME NEW res \in receiver.batch, ReceiverReports(res) PROVE PausedInv(m)'
  BY <1>5 DEF ReceiverReports, ManagerInv, PausedInv, At
<1>6. ASSUME NEW t \in Clients, NEW c \in OwnChains, SenderConfigBegins(t, c)
      PROVE  PausedInv(m)'
  BY <1>6 DEF SenderConfigBegins, Begin, ManagerInv, NodeInv, PausedInv, HoldInv,
     AnswersType, NoAnswer, Threads, At
<1>7. ASSUME NEW t \in Clients, NEW c \in OwnChains, PayloadBegins(t, c)
      PROVE  PausedInv(m)'
  BY <1>7 DEF PayloadBegins, Begin, ManagerInv, NodeInv, PausedInv, HoldInv,
     AnswersType, NoAnswer, Threads, At
<1>8. ASSUME NEW t \in Clients, NEW c \in OwnChains, Fault(t, c) PROVE PausedInv(m)'
  BY <1>8 DEF Fault, PausedInv, HoldInv, AnswersType, Idle, NoAnswer, At
<1>9. ASSUME NEW t \in Clients, NEW cs \in SUBSET PeerChains,
             ReceiverConfigBegins(t, cs)
      PROVE  PausedInv(m)'
  BY <1>9 DEF ReceiverConfigBegins, Begin, ManagerInv, NodeInv, PausedInv, HoldInv,
     AnswersType, NoAnswer, Threads, At
<1>10. ASSUME NEW t \in Clients, StartUnsynchronized(t) PROVE PausedInv(m)'
  BY <1>10 DEF StartUnsynchronized, PausedInv, HoldInv, AnswersType, Idle, NoAnswer, At
<1>11. ASSUME NEW t \in Clients, NEW late \in BOOLEAN, StartBegins(t, late)
       PROVE  PausedInv(m)'
  BY <1>11 DEF StartBegins, Begin, ManagerInv, NodeInv, PausedInv, HoldInv, AnswersType,
     NoAnswer, Threads, At
<1>12. ASSUME NEW t \in Threads, StopBegins(t) PROVE PausedInv(m)'
  BY <1>12 DEF StopBegins, Begin, ManagerInv, NodeInv, PausedInv, HoldInv, AnswersType,
     NoAnswer, At
<1>13. ASSUME NEW t \in Clients, NEW op \in {"pause", "resume"},
              RoundCommandBegins(t, op)
       PROVE  PausedInv(m)'
  BY <1>13 DEF RoundCommandBegins, Begin, ManagerInv, NodeInv, PausedInv, HoldInv,
     AnswersType, NoAnswer, Threads, At
<1>14. ASSUME NEW t \in Threads, SenderConfigChecks(t) PROVE PausedInv(m)'
  BY <1>14 DEF SenderConfigChecks, Answer, Goto, At, ManagerInv, NodeInv, CallsType,
     PausedInv, HoldInv, AnswersType, Idle, NoAnswer, Threads
<1>15. ASSUME NEW t \in Threads, SenderConfigLocks(t) PROVE PausedInv(m)'
  BY <1>15 DEF SenderConfigLocks, StopSilently, Goto, At, ManagerInv, PausedInv,
     HoldInv, AnswersType, NoAnswer
<1>16. ASSUME NEW t \in Threads, SenderConfigApplies(t) PROVE PausedInv(m)'
  BY <1>16 DEF SenderConfigApplies, SenderGone, ResetConfiguration, NoSender, Answer,
     At, ManagerInv, NodeInv, CallsType, PausedInv, HoldInv, AnswersType, Idle, NoAnswer
<1>17. ASSUME NEW t \in Threads, PayloadLocks(t) PROVE PausedInv(m)'
  BY <1>17 DEF PayloadLocks, StopSilently, Answer, Goto, At, ManagerInv, NodeInv,
     CallsType, CallType, PausedInv, ServiceInv, HoldInv, AnswersType, Idle, NoAnswer,
     Threads
<1>18. ASSUME NEW t \in Threads, NEW feasible \in BOOLEAN, PayloadApplies(t, feasible)
       PROVE  PausedInv(m)'
  BY <1>18 DEF PayloadApplies, SenderGone, Answer, At, ManagerInv, NodeInv, CallsType,
     PausedInv, HoldInv, AnswersType, Idle, NoAnswer
<1>19. ASSUME NEW t \in Threads, ReceiverConfigChecks(t) PROVE PausedInv(m)'
  BY <1>19 DEF ReceiverConfigChecks, Answer, Goto, At, ManagerInv, NodeInv, CallsType,
     CallType, PausedInv, HoldInv, AnswersType, Idle, NoAnswer, Threads
<1>20. ASSUME NEW t \in Threads, ReceiverConfigApplies(t) PROVE PausedInv(m)'
  BY <1>20 DEF ReceiverConfigApplies, Goto, At, ManagerInv, PausedInv, HoldInv,
     AnswersType, NoAnswer
<1>21. ASSUME NEW t \in Threads, ReceiverConfigArchives(t) PROVE PausedInv(m)'
  BY <1>21 DEF ReceiverConfigArchives, Answer, At, ManagerInv, NodeInv, CallsType,
     PausedInv, HoldInv, AnswersType, Idle, NoAnswer
<1>22. ASSUME NEW t \in Threads, StartRequests(t) PROVE PausedInv(m)'
  BY <1>22 DEF StartRequests, StopSilently, Goto, At, ManagerInv, PausedInv, HoldInv,
     AnswersType, NoAnswer
<1>23. ASSUME NEW t \in Threads, NEW late \in BOOLEAN, StartSender(t, late)
       PROVE  PausedInv(m)'
  BY <1>23 DEF StartSender, SenderGone, Goto, At, ManagerInv, NodeInv, CallsType,
     CallType, PausedInv, ServiceInv, HoldInv, AnswersType, NoAnswer, Threads
<1>24. ASSUME NEW t \in Threads, StartDone(t) PROVE PausedInv(m)'
  BY <1>24 DEF StartDone, Answer, At, ManagerInv, NodeInv, CallsType, PausedInv,
     HoldInv, AnswersType, Idle, NoAnswer
<1>25. ASSUME NEW t \in Threads, StopRequests(t) PROVE PausedInv(m)'
  BY <1>25 DEF StopRequests, StopSilently, ManagerInv, NodeInv, CallsType, PausedInv,
     HoldInv, AnswersType, NoAnswer, Threads, At
<1>26. ASSUME NEW t \in Threads, StopJoins(t) PROVE PausedInv(m)'
  BY <1>26 DEF StopJoins, SenderGone, Goto, ManagerInv, PausedInv, HoldInv, AnswersType,
     NoAnswer, At
<1>27. ASSUME NEW t \in Threads, StopReports(t) PROVE PausedInv(m)'
  BY <1>27 DEF StopReports, Goto, ManagerInv, PausedInv, HoldInv, AnswersType, NoAnswer,
     At
<1>28. ASSUME NEW t \in Threads, StopClears(t) PROVE PausedInv(m)'
  BY <1>28 DEF StopClears, Goto, ManagerInv, PausedInv, HoldInv, AnswersType, NoAnswer,
     At
<1>29. ASSUME NEW t \in Threads, StopReceiver(t) PROVE PausedInv(m)'
  BY <1>29 DEF StopReceiver, Goto, ManagerInv, PausedInv, HoldInv, AnswersType,
     NoAnswer, At
<1>30. ASSUME NEW t \in Threads, StopAnswers(t) PROVE PausedInv(m)'
  BY <1>30 DEF StopAnswers, FaultKept, Answer, ManagerInv, NodeInv, CallsType,
     PausedInv, HoldInv, AnswersType, Idle, NoAnswer, At
<1>31. ASSUME NEW t \in Threads, NEW refuses \in BOOLEAN, ToSender(t, refuses)
       PROVE  PausedInv(m)'
  BY <1>31 DEF ToSender, Answer, Goto, ManagerInv, NodeInv, CallsType, CallType,
     PausedInv, ServiceInv, HoldInv, MembersType, SenderType, AnswersType, Proper, Idle,
     Stoppers, NoAnswer, Threads, At
<1>32. ASSUME NEW t \in Threads, NEW refuses \in BOOLEAN, ToReceiver(t, refuses)
       PROVE  PausedInv(m)'
  BY <1>32 DEF ToReceiver, Answer, ManagerInv, NodeInv, CallsType, PausedInv, HoldInv,
     AnswersType, Idle, NoAnswer, At
<1>33. CASE UNCHANGED nodeVars
  BY <1>33 DEF nodeVars, ManagerInv, PausedInv, HoldInv, AnswersType, NoAnswer, At
<1> QED
  BY <1>1, <1>2, <1>3, <1>4, <1>5, <1>6, <1>7, <1>8, <1>9, <1>10, <1>11, <1>12, <1>13,
     <1>14, <1>15, <1>16, <1>17, <1>18, <1>19, <1>20, <1>21, <1>22, <1>23, <1>24, <1>25,
     <1>26, <1>27, <1>28, <1>29, <1>30, <1>31, <1>32, <1>33, Service \in Threads,
     Clients \subseteq Threads DEF Threads, Step, SenderWorker, ReceiverWorker,
     CallBegins, CallProceeds, ServiceStops

(* Nothing starts before the refused start is answered and after.          *)
LEMMA RefusedStep ==
    ASSUME NEW m, Clients = {m}, NodeInv, ManagerInv(m), [Step]_nodeVars
    PROVE  RefusedStartIsUndone'
<1>1. CASE SenderEnds
  BY <1>1 DEF SenderEnds, ManagerInv, RefusedStartIsUndone, UndoneInv, PausedInv,
     HoldInv, ReceiverType, AnswersType, NoAnswer
<1>2. CASE SenderReports
  BY <1>2 DEF SenderReports, ManagerInv, RefusedStartIsUndone, UndoneInv, PausedInv,
     HoldInv, ReceiverType, AnswersType, NoAnswer
<1>3. CASE SenderExits
  BY <1>3 DEF SenderExits, ManagerInv, RefusedStartIsUndone, UndoneInv, PausedInv,
     HoldInv, ReceiverType, AnswersType, NoAnswer
<1>4. ASSUME NEW c \in PeerChains, ReceiverEnds(c) PROVE RefusedStartIsUndone'
  BY <1>4 DEF ReceiverEnds, ReceiverResult, ManagerInv, RefusedStartIsUndone, UndoneInv,
     PausedInv, HoldInv, ReceiverType, AnswersType, NoAnswer
<1>5. ASSUME NEW res \in receiver.batch, ReceiverReports(res)
      PROVE  RefusedStartIsUndone'
  BY <1>5 DEF ReceiverReports, ManagerInv, RefusedStartIsUndone, UndoneInv, PausedInv,
     HoldInv, ReceiverType, AnswersType, NoAnswer
<1>6. ASSUME NEW t \in Clients, NEW c \in OwnChains, SenderConfigBegins(t, c)
      PROVE  RefusedStartIsUndone'
  BY <1>6 DEF SenderConfigBegins, Begin, ManagerInv, RefusedStartIsUndone, UndoneInv,
     PausedInv, HoldInv, ReceiverType, AnswersType, NoAnswer
<1>7. ASSUME NEW t \in Clients, NEW c \in OwnChains, PayloadBegins(t, c)
      PROVE  RefusedStartIsUndone'
  BY <1>7 DEF PayloadBegins, Begin, ManagerInv, RefusedStartIsUndone, UndoneInv,
     PausedInv, HoldInv, ReceiverType, AnswersType, NoAnswer
<1>8. ASSUME NEW t \in Clients, NEW c \in OwnChains, Fault(t, c)
      PROVE  RefusedStartIsUndone'
  BY <1>8 DEF Fault, ManagerInv, RefusedStartIsUndone, UndoneInv, PausedInv, HoldInv,
     ReceiverType, AnswersType, NoAnswer
<1>9. ASSUME NEW t \in Clients, NEW cs \in SUBSET PeerChains,
             ReceiverConfigBegins(t, cs)
      PROVE  RefusedStartIsUndone'
  BY <1>9 DEF ReceiverConfigBegins, Begin, ManagerInv, RefusedStartIsUndone, UndoneInv,
     PausedInv, HoldInv, ReceiverType, AnswersType, NoAnswer
<1>10. ASSUME NEW t \in Clients, StartUnsynchronized(t) PROVE RefusedStartIsUndone'
  BY <1>10 DEF StartUnsynchronized, ManagerInv, RefusedStartIsUndone, UndoneInv,
     PausedInv, HoldInv, ReceiverType, AnswersType, NoAnswer
<1>11. ASSUME NEW t \in Clients, NEW late \in BOOLEAN, StartBegins(t, late)
       PROVE  RefusedStartIsUndone'
  BY <1>11 DEF StartBegins, Begin, ReceiverResult, NodeInv, RefusedStartIsUndone,
     UndoneInv, PausedInv, HoldInv, ReceiverType, AnswersType, NoAnswer, Threads
<1>12. ASSUME NEW t \in Threads, StopBegins(t) PROVE RefusedStartIsUndone'
  BY <1>12 DEF StopBegins, Begin, ManagerInv, RefusedStartIsUndone, UndoneInv,
     PausedInv, HoldInv, ReceiverType, AnswersType, NoAnswer
<1>13. ASSUME NEW t \in Clients, NEW op \in {"pause", "resume"},
              RoundCommandBegins(t, op)
       PROVE  RefusedStartIsUndone'
  BY <1>13 DEF RoundCommandBegins, Begin, ManagerInv, RefusedStartIsUndone, UndoneInv,
     PausedInv, HoldInv, ReceiverType, AnswersType, NoAnswer
<1>14. ASSUME NEW t \in Threads, SenderConfigChecks(t) PROVE RefusedStartIsUndone'
  BY <1>14 DEF SenderConfigChecks, Answer, At, ManagerInv, NodeInv,
     RefusedStartIsUndone, UndoneInv, PausedInv, HoldInv, ReceiverType, AnswersType,
     NoAnswer, Threads
<1>15. ASSUME NEW t \in Threads, SenderConfigLocks(t) PROVE RefusedStartIsUndone'
  BY <1>15 DEF SenderConfigLocks, StopSilently, At, ManagerInv, RefusedStartIsUndone,
     UndoneInv, PausedInv, HoldInv, ReceiverType, AnswersType, NoAnswer
<1>16. ASSUME NEW t \in Threads, SenderConfigApplies(t) PROVE RefusedStartIsUndone'
  BY <1>16 DEF SenderConfigApplies, SenderGone, ResetConfiguration, NoSender, Answer,
     At, ManagerInv, RefusedStartIsUndone, UndoneInv, PausedInv, HoldInv, ReceiverType,
     AnswersType, NoAnswer
<1>17. ASSUME NEW t \in Threads, PayloadLocks(t) PROVE RefusedStartIsUndone'
  BY <1>17 DEF PayloadLocks, StopSilently, Answer, At, ManagerInv, NodeInv,
     RefusedStartIsUndone, UndoneInv, PausedInv, ServiceInv, HoldInv, ReceiverType,
     AnswersType, NoAnswer, Threads
<1>18. ASSUME NEW t \in Threads, NEW feasible \in BOOLEAN, PayloadApplies(t, feasible)
       PROVE  RefusedStartIsUndone'
  BY <1>18 DEF PayloadApplies, SenderGone, Answer, At, ManagerInv, RefusedStartIsUndone,
     UndoneInv, PausedInv, HoldInv, ReceiverType, AnswersType, NoAnswer
<1>19. ASSUME NEW t \in Threads, ReceiverConfigChecks(t) PROVE RefusedStartIsUndone'
  BY <1>19 DEF ReceiverConfigChecks, Answer, At, ManagerInv, NodeInv,
     RefusedStartIsUndone, UndoneInv, PausedInv, HoldInv, ReceiverType, AnswersType,
     NoAnswer, Threads
<1>20. ASSUME NEW t \in Threads, ReceiverConfigApplies(t) PROVE RefusedStartIsUndone'
  BY <1>20 DEF ReceiverConfigApplies, ReceiverResult, At, ManagerInv,
     RefusedStartIsUndone, UndoneInv, PausedInv, HoldInv, ReceiverType, AnswersType,
     NoAnswer
<1>21. ASSUME NEW t \in Threads, ReceiverConfigArchives(t) PROVE RefusedStartIsUndone'
  BY <1>21 DEF ReceiverConfigArchives, Answer, At, ManagerInv, RefusedStartIsUndone,
     UndoneInv, PausedInv, HoldInv, ReceiverType, AnswersType, NoAnswer
<1>22. ASSUME NEW t \in Threads, StartRequests(t) PROVE RefusedStartIsUndone'
  BY <1>22 DEF StartRequests, StopSilently, At, ManagerInv, RefusedStartIsUndone,
     UndoneInv, PausedInv, HoldInv, ReceiverType, AnswersType, NoAnswer
<1>23. ASSUME NEW t \in Threads, NEW late \in BOOLEAN, StartSender(t, late)
       PROVE  RefusedStartIsUndone'
  BY <1>23 DEF StartSender, SenderGone, At, ManagerInv, RefusedStartIsUndone, UndoneInv,
     PausedInv, ServiceInv, HoldInv, ReceiverType, AnswersType, NoAnswer, Threads
<1>24. ASSUME NEW t \in Threads, StartDone(t) PROVE RefusedStartIsUndone'
  BY <1>24 DEF StartDone, Answer, At, ManagerInv, RefusedStartIsUndone, UndoneInv,
     PausedInv, HoldInv, ReceiverType, AnswersType, NoAnswer
<1>25. ASSUME NEW t \in Threads, StopRequests(t) PROVE RefusedStartIsUndone'
  BY <1>25 DEF StopRequests, StopSilently, ManagerInv, RefusedStartIsUndone, UndoneInv,
     PausedInv, HoldInv, ReceiverType, AnswersType, NoAnswer
<1>26. ASSUME NEW t \in Threads, StopJoins(t) PROVE RefusedStartIsUndone'
  BY <1>26 DEF StopJoins, ManagerInv, RefusedStartIsUndone
<1>27. ASSUME NEW t \in Threads, StopReports(t) PROVE RefusedStartIsUndone'
  BY <1>27 DEF StopReports, ManagerInv, RefusedStartIsUndone
<1>28. ASSUME NEW t \in Threads, StopClears(t) PROVE RefusedStartIsUndone'
  BY <1>28 DEF StopClears, ManagerInv, RefusedStartIsUndone, UndoneInv, PausedInv,
     HoldInv, ReceiverType, AnswersType, NoAnswer
<1>29. ASSUME NEW t \in Threads, StopReceiver(t) PROVE RefusedStartIsUndone'
  BY <1>29 DEF StopReceiver, ReceiverResult, ManagerInv, RefusedStartIsUndone,
     UndoneInv, PausedInv, HoldInv, ReceiverType, AnswersType, NoAnswer
<1>30. ASSUME NEW t \in Threads, StopAnswers(t) PROVE RefusedStartIsUndone'
  BY <1>30 DEF StopAnswers, FaultKept, Answer, ManagerInv, RefusedStartIsUndone,
     UndoneInv, PausedInv, HoldInv, ReceiverType, AnswersType, NoAnswer
<1>31. ASSUME NEW t \in Threads, NEW refuses \in BOOLEAN, ToSender(t, refuses)
       PROVE  RefusedStartIsUndone'
  BY <1>31 DEF ToSender, Answer, ManagerInv, NodeInv, CallsType, RefusedStartIsUndone,
     UndoneInv, PausedInv, HoldInv, ReceiverType, AnswersType, Proper, Stoppers,
     NoAnswer, Threads
<1>32. ASSUME NEW t \in Threads, NEW refuses \in BOOLEAN, ToReceiver(t, refuses)
       PROVE  RefusedStartIsUndone'
  BY <1>32 DEF ToReceiver, Answer, ManagerInv, NodeInv, CallsType, RefusedStartIsUndone,
     UndoneInv, PausedInv, HoldInv, ReceiverType, AnswersType, Proper, Stoppers,
     NoAnswer
<1>33. CASE UNCHANGED nodeVars
  BY <1>33 DEF nodeVars, ManagerInv, RefusedStartIsUndone, UndoneInv, PausedInv, HoldInv,
     ReceiverType, AnswersType, NoAnswer, At
<1> QED
  BY <1>1, <1>2, <1>3, <1>4, <1>5, <1>6, <1>7, <1>8, <1>9, <1>10, <1>11, <1>12, <1>13,
     <1>14, <1>15, <1>16, <1>17, <1>18, <1>19, <1>20, <1>21, <1>22, <1>23, <1>24, <1>25,
     <1>26, <1>27, <1>28, <1>29, <1>30, <1>31, <1>32, <1>33, Service \in Threads,
     Clients \subseteq Threads DEF Threads, Step, SenderWorker, ReceiverWorker,
     CallBegins, CallProceeds, ServiceStops

(* What is on hold stays on hold until the next call of the Manager.       *)
LEMMA PauseHoldsStep ==
    ASSUME NEW m, Clients = {m}, NodeInv, ManagerInv(m), [Step]_nodeVars
    PROVE  PauseHoldsBoth'
<1>1. CASE SenderEnds
  BY <1>1 DEF SenderEnds, ManagerInv, NodeInv, PauseHoldsBoth, PausedInv, HoldInv,
     MembersType, SenderType, ReceiverType, AnswersType, NoAnswer
<1>2. CASE SenderReports
  BY <1>2 DEF SenderReports, ManagerInv, PauseHoldsBoth, PausedInv, HoldInv,
     ReceiverType, AnswersType, NoAnswer
<1>3. CASE SenderExits
  BY <1>3 DEF SenderExits, ManagerInv, PauseHoldsBoth, PausedInv, HoldInv, ReceiverType,
     AnswersType, NoAnswer
<1>4. ASSUME NEW c \in PeerChains, ReceiverEnds(c) PROVE PauseHoldsBoth'
  BY <1>4 DEF ReceiverEnds, ReceiverResult, ManagerInv, NodeInv, PauseHoldsBoth,
     PausedInv, HoldInv, ReceiverType, AnswersType, NoAnswer, Threads
<1>5. ASSUME NEW res \in receiver.batch, ReceiverReports(res) PROVE PauseHoldsBoth'
  BY <1>5 DEF ReceiverReports, ManagerInv, PauseHoldsBoth, PausedInv, HoldInv,
     ReceiverType, AnswersType, NoAnswer
<1>6. ASSUME NEW t \in Clients, NEW c \in OwnChains, SenderConfigBegins(t, c)
      PROVE  PauseHoldsBoth'
  BY <1>6 DEF SenderConfigBegins, Begin, ManagerInv, PauseHoldsBoth, PausedInv, HoldInv,
     ReceiverType, AnswersType, NoAnswer
<1>7. ASSUME NEW t \in Clients, NEW c \in OwnChains, PayloadBegins(t, c)
      PROVE  PauseHoldsBoth'
  BY <1>7 DEF PayloadBegins, Begin, ManagerInv, PauseHoldsBoth, PausedInv, HoldInv,
     ReceiverType, AnswersType, NoAnswer
<1>8. ASSUME NEW t \in Clients, NEW c \in OwnChains, Fault(t, c) PROVE PauseHoldsBoth'
  BY <1>8 DEF Fault, ManagerInv, PauseHoldsBoth, PausedInv, HoldInv, ReceiverType,
     AnswersType, NoAnswer
<1>9. ASSUME NEW t \in Clients, NEW cs \in SUBSET PeerChains,
             ReceiverConfigBegins(t, cs)
      PROVE  PauseHoldsBoth'
  BY <1>9 DEF ReceiverConfigBegins, Begin, ManagerInv, PauseHoldsBoth, PausedInv,
     HoldInv, ReceiverType, AnswersType, NoAnswer
<1>10. ASSUME NEW t \in Clients, StartUnsynchronized(t) PROVE PauseHoldsBoth'
  BY <1>10 DEF StartUnsynchronized, ManagerInv, PauseHoldsBoth, PausedInv, HoldInv,
     ReceiverType, AnswersType, NoAnswer
<1>11. ASSUME NEW t \in Clients, NEW late \in BOOLEAN, StartBegins(t, late)
       PROVE  PauseHoldsBoth'
  BY <1>11 DEF StartBegins, Begin, ReceiverResult, NodeInv, PauseHoldsBoth, PausedInv,
     HoldInv, ReceiverType, AnswersType, NoAnswer, Threads
<1>12. ASSUME NEW t \in Threads, StopBegins(t) PROVE PauseHoldsBoth'
  BY <1>12 DEF StopBegins, Begin, ManagerInv, PauseHoldsBoth, PausedInv, HoldInv,
     ReceiverType, AnswersType, NoAnswer
<1>13. ASSUME NEW t \in Clients, NEW op \in {"pause", "resume"},
              RoundCommandBegins(t, op)
       PROVE  PauseHoldsBoth'
  BY <1>13 DEF RoundCommandBegins, Begin, ManagerInv, PauseHoldsBoth, PausedInv,
     HoldInv, ReceiverType, AnswersType, NoAnswer
<1>14. ASSUME NEW t \in Threads, SenderConfigChecks(t) PROVE PauseHoldsBoth'
  BY <1>14 DEF SenderConfigChecks, Answer, At, ManagerInv, NodeInv, PauseHoldsBoth,
     PausedInv, HoldInv, ReceiverType, AnswersType, NoAnswer, Threads
<1>15. ASSUME NEW t \in Threads, SenderConfigLocks(t) PROVE PauseHoldsBoth'
  BY <1>15 DEF SenderConfigLocks, StopSilently, At, ManagerInv, PauseHoldsBoth,
     PausedInv, HoldInv, ReceiverType, AnswersType, NoAnswer
<1>16. ASSUME NEW t \in Threads, SenderConfigApplies(t) PROVE PauseHoldsBoth'
  BY <1>16 DEF SenderConfigApplies, SenderGone, ResetConfiguration, NoSender, Answer,
     At, ManagerInv, PauseHoldsBoth, PausedInv, HoldInv, ReceiverType, AnswersType,
     NoAnswer
<1>17. ASSUME NEW t \in Threads, PayloadLocks(t) PROVE PauseHoldsBoth'
  BY <1>17 DEF PayloadLocks, StopSilently, Answer, At, ManagerInv, NodeInv,
     PauseHoldsBoth, PausedInv, ServiceInv, HoldInv, ReceiverType, AnswersType,
     NoAnswer, Threads
<1>18. ASSUME NEW t \in Threads, NEW feasible \in BOOLEAN, PayloadApplies(t, feasible)
       PROVE  PauseHoldsBoth'
  BY <1>18 DEF PayloadApplies, SenderGone, Answer, At, ManagerInv, PauseHoldsBoth,
     PausedInv, HoldInv, ReceiverType, AnswersType, NoAnswer
<1>19. ASSUME NEW t \in Threads, ReceiverConfigChecks(t) PROVE PauseHoldsBoth'
  BY <1>19 DEF ReceiverConfigChecks, Answer, At, ManagerInv, NodeInv, PauseHoldsBoth,
     PausedInv, HoldInv, ReceiverType, AnswersType, NoAnswer, Threads
<1>20. ASSUME NEW t \in Threads, ReceiverConfigApplies(t) PROVE PauseHoldsBoth'
  BY <1>20 DEF ReceiverConfigApplies, ReceiverResult, At, ManagerInv, PauseHoldsBoth,
     PausedInv, HoldInv, ReceiverType, AnswersType, NoAnswer
<1>21. ASSUME NEW t \in Threads, ReceiverConfigArchives(t) PROVE PauseHoldsBoth'
  BY <1>21 DEF ReceiverConfigArchives, Answer, At, ManagerInv, PauseHoldsBoth,
     PausedInv, HoldInv, ReceiverType, AnswersType, NoAnswer
<1>22. ASSUME NEW t \in Threads, StartRequests(t) PROVE PauseHoldsBoth'
  BY <1>22 DEF StartRequests, StopSilently, At, ManagerInv, PauseHoldsBoth, PausedInv,
     HoldInv, ReceiverType, AnswersType, NoAnswer
<1>23. ASSUME NEW t \in Threads, NEW late \in BOOLEAN, StartSender(t, late)
       PROVE  PauseHoldsBoth'
  BY <1>23 DEF StartSender, SenderGone, At, ManagerInv, PauseHoldsBoth, PausedInv,
     ServiceInv, HoldInv, ReceiverType, AnswersType, NoAnswer, Threads
<1>24. ASSUME NEW t \in Threads, StartDone(t) PROVE PauseHoldsBoth'
  BY <1>24 DEF StartDone, Answer, At, ManagerInv, PauseHoldsBoth, PausedInv, HoldInv,
     ReceiverType, AnswersType, NoAnswer
<1>25. ASSUME NEW t \in Threads, StopRequests(t) PROVE PauseHoldsBoth'
  BY <1>25 DEF StopRequests, StopSilently, ManagerInv, PauseHoldsBoth, PausedInv,
     HoldInv, ReceiverType, AnswersType, NoAnswer
<1>26. ASSUME NEW t \in Threads, StopJoins(t) PROVE PauseHoldsBoth'
  BY <1>26 DEF StopJoins, ManagerInv, PauseHoldsBoth
<1>27. ASSUME NEW t \in Threads, StopReports(t) PROVE PauseHoldsBoth'
  BY <1>27 DEF StopReports, ManagerInv, PauseHoldsBoth
<1>28. ASSUME NEW t \in Threads, StopClears(t) PROVE PauseHoldsBoth'
  BY <1>28 DEF StopClears, ManagerInv, PauseHoldsBoth, PausedInv, HoldInv, ReceiverType,
     AnswersType, NoAnswer
<1>29. ASSUME NEW t \in Threads, StopReceiver(t) PROVE PauseHoldsBoth'
  BY <1>29 DEF StopReceiver, ReceiverResult, ManagerInv, PauseHoldsBoth, PausedInv,
     HoldInv, ReceiverType, AnswersType, NoAnswer
<1>30. ASSUME NEW t \in Threads, StopAnswers(t) PROVE PauseHoldsBoth'
  BY <1>30 DEF StopAnswers, FaultKept, Answer, ManagerInv, NodeInv, CallsType,
     PauseHoldsBoth, PausedInv, HoldInv, ReceiverType, AnswersType, Proper, NoAnswer
<1>31. ASSUME NEW t \in Threads, NEW refuses \in BOOLEAN, ToSender(t, refuses)
       PROVE  PauseHoldsBoth'
  BY <1>31 DEF ToSender, Answer, ManagerInv, NodeInv, CallsType, PauseHoldsBoth,
     PausedInv, ServiceInv, HoldInv, ReceiverType, AnswersType, Proper, Stoppers,
     NoAnswer, Threads
<1>32. ASSUME NEW t \in Threads, NEW refuses \in BOOLEAN, ToReceiver(t, refuses)
       PROVE  PauseHoldsBoth'
  <2>1. t = m /\ call[m].at = "toReceiver" /\ call[m].op \in {"pause", "resume"}
    BY <1>32 DEF ToReceiver, ManagerInv, ServiceInv, NodeInv, CallsType, CallType, Ops,
       Proper, Stoppers, Threads
  <2>2. \E ok \in BOOLEAN : /\ answer' = [answer EXCEPT ![m] = [op |-> call[m].op, ok |-> ok]]
                            /\ ok = ~(receiver.active # {} /\ refuses)
    BY <1>32, <2>1 DEF ToReceiver, Answer
  <2>5. PICK ok \in BOOLEAN : /\ answer'[m] = [op |-> call[m].op, ok |-> ok]
                             /\ ok = ~(receiver.active # {} /\ refuses)
    BY <2>2, Constants DEF NodeInv, AnswersType
  <2>3. CASE call[m].op # "pause"
    BY <2>5, <2>3 DEF PauseHoldsBoth
  <2>4. CASE call[m].op = "pause"
    <3>1. (sender.running => sender.hold) /\ sender' = sender
      BY <1>32, <2>1, <2>4 DEF ToReceiver, ManagerInv, PausedInv, At
    <3>2. /\ receiver'.active = receiver.active
          /\ receiver.active # {} /\ ~refuses => receiver'.hold
      BY <1>32, <2>1, <2>4 DEF ToReceiver, NodeInv, MembersType, ReceiverType
    <3>3. CASE receiver.active # {} /\ refuses
      <4>1. ok = FALSE
        BY <2>5, <3>3
      <4>2. answer'[m] # [op |-> "pause", ok |-> TRUE]
        BY <2>5, <4>1
      <4> QED
        BY <4>2 DEF PauseHoldsBoth
    <3>4. CASE ~(receiver.active # {} /\ refuses)
      BY <3>1, <3>2, <3>4 DEF PauseHoldsBoth
    <3> QED
      BY <3>3, <3>4
  <2> QED
    BY <2>3, <2>4
<1>33. CASE UNCHANGED nodeVars
  BY <1>33 DEF nodeVars, ManagerInv, PauseHoldsBoth, PausedInv, HoldInv, ReceiverType,
     AnswersType, NoAnswer, At
<1> QED
  BY <1>1, <1>2, <1>3, <1>4, <1>5, <1>6, <1>7, <1>8, <1>9, <1>10, <1>11, <1>12, <1>13,
     <1>14, <1>15, <1>16, <1>17, <1>18, <1>19, <1>20, <1>21, <1>22, <1>23, <1>24, <1>25,
     <1>26, <1>27, <1>28, <1>29, <1>30, <1>31, <1>32, <1>33, Service \in Threads,
     Clients \subseteq Threads DEF Threads, Step, SenderWorker, ReceiverWorker,
     CallBegins, CallProceeds, ServiceStops


(* Every step keeps the invariant of a node with one Manager.              *)
LEMMA ManagerStep ==
    ASSUME NEW m, Clients = {m}, NodeInv, ManagerInv(m), [Step]_nodeVars
    PROVE  ManagerInv(m)'
BY ServiceStep, UndoneStep, PausedStep, RefusedStep, PauseHoldsStep DEF ManagerInv

(* It holds at first.                                                      *)
LEMMA ManagerInit ==
    ASSUME NEW m, Clients = {m}, Init
    PROVE  ManagerInv(m)
BY DEF Init, ManagerInv, ServiceInv, UndoneInv, PausedInv, RefusedStartIsUndone,
   PauseHoldsBoth, At, Idle, NoAnswer, NoSender, Threads

(* The node keeps it.                                                      *)
THEOREM ManagerInvariant ==
    ASSUME NEW CONSTANT m, Clients = {m}
    PROVE  Spec => []ManagerInv(m)
<1>1. Init => ManagerInv(m)
  BY ManagerInit
<1>2. NodeInv /\ ManagerInv(m) /\ [Next]_vars => ManagerInv(m)'
  BY NextIsStep, ManagerStep
<1> QED
  BY <1>1, <1>2, NodeInvariant, PTL DEF Spec

(* With one Manager, a start that is refused leaves nothing behind         *)
(* (msgApplyRoundCommand).                                                 *)
THEOREM RefusedStartUndone ==
    ASSUME NEW CONSTANT m, Clients = {m}
    PROVE  Spec => []RefusedStartIsUndone
<1>1. ManagerInv(m) => RefusedStartIsUndone
  BY DEF ManagerInv
<1> QED
  BY ManagerInvariant, <1>1, PTL

(* With one Manager, an accepted pause holds for both roles of the node    *)
(* (msgApplyRoundCommand).                                                 *)
THEOREM PauseHolds ==
    ASSUME NEW CONSTANT m, Clients = {m}
    PROVE  Spec => []PauseHoldsBoth
<1>1. ManagerInv(m) => PauseHoldsBoth
  BY DEF ManagerInv
<1> QED
  BY ManagerInvariant, <1>1, PTL

(* What has been handed out or given up stays so.                          *)
LEMMA HistoryStep ==
    ASSUME [Step]_nodeVars
    PROVE  results \subseteq results' /\ silenced \subseteq silenced'
<1>1. CASE SenderEnds
  BY <1>1 DEF SenderEnds
<1>2. CASE SenderReports
  BY <1>2 DEF SenderReports, Emitted, Noted, SenderResult
<1>3. CASE SenderExits
  BY <1>3 DEF SenderExits
<1>4. ASSUME NEW c \in PeerChains, ReceiverEnds(c)
      PROVE  results \subseteq results' /\ silenced \subseteq silenced'
  BY <1>4 DEF ReceiverEnds
<1>5. ASSUME NEW res \in receiver.batch, ReceiverReports(res)
      PROVE  results \subseteq results' /\ silenced \subseteq silenced'
  BY <1>5 DEF ReceiverReports, Emitted, Noted
<1>6. ASSUME NEW t \in Clients, NEW c \in OwnChains, SenderConfigBegins(t, c)
      PROVE  results \subseteq results' /\ silenced \subseteq silenced'
  BY <1>6 DEF SenderConfigBegins
<1>7. ASSUME NEW t \in Clients, NEW c \in OwnChains, PayloadBegins(t, c)
      PROVE  results \subseteq results' /\ silenced \subseteq silenced'
  BY <1>7 DEF PayloadBegins
<1>8. ASSUME NEW t \in Clients, NEW c \in OwnChains, Fault(t, c)
      PROVE  results \subseteq results' /\ silenced \subseteq silenced'
  BY <1>8 DEF Fault
<1>9. ASSUME NEW t \in Clients, NEW cs \in SUBSET PeerChains,
             ReceiverConfigBegins(t, cs)
      PROVE  results \subseteq results' /\ silenced \subseteq silenced'
  BY <1>9 DEF ReceiverConfigBegins
<1>10. ASSUME NEW t \in Clients, StartUnsynchronized(t)
       PROVE  results \subseteq results' /\ silenced \subseteq silenced'
  BY <1>10 DEF StartUnsynchronized
<1>11. ASSUME NEW t \in Clients, NEW late \in BOOLEAN, StartBegins(t, late)
       PROVE  results \subseteq results' /\ silenced \subseteq silenced'
  BY <1>11 DEF StartBegins, ReceiverResult
<1>12. ASSUME NEW t \in Threads, StopBegins(t)
       PROVE  results \subseteq results' /\ silenced \subseteq silenced'
  BY <1>12 DEF StopBegins
<1>13. ASSUME NEW t \in Clients, NEW op \in {"pause", "resume"},
              RoundCommandBegins(t, op)
       PROVE  results \subseteq results' /\ silenced \subseteq silenced'
  BY <1>13 DEF RoundCommandBegins
<1>14. ASSUME NEW t \in Threads, SenderConfigChecks(t)
       PROVE  results \subseteq results' /\ silenced \subseteq silenced'
  BY <1>14 DEF SenderConfigChecks
<1>15. ASSUME NEW t \in Threads, SenderConfigLocks(t)
       PROVE  results \subseteq results' /\ silenced \subseteq silenced'
  BY <1>15 DEF SenderConfigLocks
<1>16. ASSUME NEW t \in Threads, SenderConfigApplies(t)
       PROVE  results \subseteq results' /\ silenced \subseteq silenced'
  BY <1>16 DEF SenderConfigApplies, SenderGone, At
<1>17. ASSUME NEW t \in Threads, PayloadLocks(t)
       PROVE  results \subseteq results' /\ silenced \subseteq silenced'
  BY <1>17 DEF PayloadLocks
<1>18. ASSUME NEW t \in Threads, NEW feasible \in BOOLEAN, PayloadApplies(t, feasible)
       PROVE  results \subseteq results' /\ silenced \subseteq silenced'
  BY <1>18 DEF PayloadApplies, SenderGone, At
<1>19. ASSUME NEW t \in Threads, ReceiverConfigChecks(t)
       PROVE  results \subseteq results' /\ silenced \subseteq silenced'
  BY <1>19 DEF ReceiverConfigChecks
<1>20. ASSUME NEW t \in Threads, ReceiverConfigApplies(t)
       PROVE  results \subseteq results' /\ silenced \subseteq silenced'
  BY <1>20 DEF ReceiverConfigApplies, ReceiverResult, At
<1>21. ASSUME NEW t \in Threads, ReceiverConfigArchives(t)
       PROVE  results \subseteq results' /\ silenced \subseteq silenced'
  BY <1>21 DEF ReceiverConfigArchives
<1>22. ASSUME NEW t \in Threads, StartRequests(t)
       PROVE  results \subseteq results' /\ silenced \subseteq silenced'
  BY <1>22 DEF StartRequests
<1>23. ASSUME NEW t \in Threads, NEW late \in BOOLEAN, StartSender(t, late)
       PROVE  results \subseteq results' /\ silenced \subseteq silenced'
  BY <1>23 DEF StartSender, SenderGone, At
<1>24. ASSUME NEW t \in Threads, StartDone(t)
       PROVE  results \subseteq results' /\ silenced \subseteq silenced'
  BY <1>24 DEF StartDone
<1>25. ASSUME NEW t \in Threads, StopRequests(t)
       PROVE  results \subseteq results' /\ silenced \subseteq silenced'
  BY <1>25 DEF StopRequests
<1>26. ASSUME NEW t \in Threads, StopJoins(t)
       PROVE  results \subseteq results' /\ silenced \subseteq silenced'
  BY <1>26 DEF StopJoins
<1>27. ASSUME NEW t \in Threads, StopReports(t)
       PROVE  results \subseteq results' /\ silenced \subseteq silenced'
  BY <1>27 DEF StopReports, Emitted, Noted, SenderResult
<1>28. ASSUME NEW t \in Threads, StopClears(t)
       PROVE  results \subseteq results' /\ silenced \subseteq silenced'
  BY <1>28 DEF StopClears
<1>29. ASSUME NEW t \in Threads, StopReceiver(t)
       PROVE  results \subseteq results' /\ silenced \subseteq silenced'
  BY <1>29 DEF StopReceiver
<1>30. ASSUME NEW t \in Threads, StopAnswers(t)
       PROVE  results \subseteq results' /\ silenced \subseteq silenced'
  BY <1>30 DEF StopAnswers
<1>31. ASSUME NEW t \in Threads, NEW refuses \in BOOLEAN, ToSender(t, refuses)
       PROVE  results \subseteq results' /\ silenced \subseteq silenced'
  BY <1>31 DEF ToSender
<1>32. ASSUME NEW t \in Threads, NEW refuses \in BOOLEAN, ToReceiver(t, refuses)
       PROVE  results \subseteq results' /\ silenced \subseteq silenced'
  BY <1>32 DEF ToReceiver
<1>33. CASE UNCHANGED nodeVars
  BY <1>33 DEF nodeVars
<1> QED
  BY <1>1, <1>2, <1>3, <1>4, <1>5, <1>6, <1>7, <1>8, <1>9, <1>10, <1>11, <1>12, <1>13,
     <1>14, <1>15, <1>16, <1>17, <1>18, <1>19, <1>20, <1>21, <1>22, <1>23, <1>24, <1>25,
     <1>26, <1>27, <1>28, <1>29, <1>30, <1>31, <1>32, <1>33, Service \in Threads,
     Clients \subseteq Threads DEF Threads, Step, SenderWorker, ReceiverWorker,
     CallBegins, CallProceeds, ServiceStops

(* Every orderly step keeps ApartInv.                                      *)
LEMMA ApartStep ==
    ASSUME NEW m, Clients = {m}, NodeInv, ReportInv, ShutDownApartFromStart, [Step]_nodeVars
    PROVE  ApartInv'
<1>1. CASE SenderEnds
  BY <1>1 DEF SenderEnds, ReportInv, ApartInv, Starting, ShutDownApartFromStart,
     NodeInv, MembersType, SenderType
<1>2. CASE SenderReports
  BY <1>2 DEF SenderReports, ReportInv, ApartInv, Starting, ShutDownApartFromStart
<1>3. CASE SenderExits
  BY <1>3 DEF SenderExits, ReportInv, ApartInv, Starting, ShutDownApartFromStart
<1>4. ASSUME NEW c \in PeerChains, ReceiverEnds(c) PROVE ApartInv'
  BY <1>4 DEF ReceiverEnds, ReportInv, ApartInv, Starting
<1>5. ASSUME NEW res \in receiver.batch, ReceiverReports(res) PROVE ApartInv'
  BY <1>5 DEF ReceiverReports, ReportInv, ApartInv, Starting
<1>6. ASSUME NEW t \in Clients, NEW c \in OwnChains, SenderConfigBegins(t, c)
      PROVE  ApartInv'
  BY <1>6 DEF SenderConfigBegins, Begin, ReportInv, ApartInv, Starting,
     ShutDownApartFromStart
<1>7. ASSUME NEW t \in Clients, NEW c \in OwnChains, PayloadBegins(t, c) PROVE ApartInv'
  BY <1>7 DEF PayloadBegins, Begin, ReportInv, ApartInv, Starting,
     ShutDownApartFromStart
<1>8. ASSUME NEW t \in Clients, NEW c \in OwnChains, Fault(t, c) PROVE ApartInv'
  BY <1>8 DEF Fault, ReportInv, ApartInv, Starting, ShutDownApartFromStart
<1>9. ASSUME NEW t \in Clients, NEW cs \in SUBSET PeerChains,
             ReceiverConfigBegins(t, cs)
      PROVE  ApartInv'
  BY <1>9 DEF ReceiverConfigBegins, Begin, ReportInv, ApartInv, Starting,
     ShutDownApartFromStart
<1>10. ASSUME NEW t \in Clients, StartUnsynchronized(t) PROVE ApartInv'
  BY <1>10 DEF StartUnsynchronized, ReportInv, ApartInv, Starting,
     ShutDownApartFromStart
<1>11. ASSUME NEW t \in Clients, NEW late \in BOOLEAN, StartBegins(t, late)
       PROVE  ApartInv'
  BY <1>11 DEF StartBegins, Begin, ReportInv, ApartInv, Starting,
     ShutDownApartFromStart, Idle
<1>12. ASSUME NEW t \in Threads, StopBegins(t) PROVE ApartInv'
  BY <1>12 DEF StopBegins, Begin, ReportInv, ApartInv, Starting, ShutDownApartFromStart
<1>13. ASSUME NEW t \in Clients, NEW op \in {"pause", "resume"},
              RoundCommandBegins(t, op)
       PROVE  ApartInv'
  BY <1>13 DEF RoundCommandBegins, Begin, ReportInv, ApartInv, Starting,
     ShutDownApartFromStart
<1>14. ASSUME NEW t \in Threads, SenderConfigChecks(t) PROVE ApartInv'
  BY <1>14 DEF SenderConfigChecks, Answer, Goto, At, ReportInv, ApartInv, Starting,
     ShutDownApartFromStart, NodeInv, CallsType, Idle
<1>15. ASSUME NEW t \in Threads, SenderConfigLocks(t) PROVE ApartInv'
  BY <1>15 DEF SenderConfigLocks, StopSilently, Goto, At, ReportInv, ApartInv, Starting,
     ShutDownApartFromStart
<1>16. ASSUME NEW t \in Threads, SenderConfigApplies(t) PROVE ApartInv'
  BY <1>16 DEF SenderConfigApplies, SenderGone, ResetConfiguration, NoSender, Answer,
     At, ReportInv, ApartInv, ServiceInv, Starting, ShutDownApartFromStart
<1>17. ASSUME NEW t \in Threads, PayloadLocks(t) PROVE ApartInv'
  BY <1>17 DEF PayloadLocks, StopSilently, Answer, Goto, At, ReportInv, ApartInv,
     Starting, ShutDownApartFromStart, NodeInv, CallsType, CallType, Idle, MembersType,
     SenderType
<1>18. ASSUME NEW t \in Threads, NEW feasible \in BOOLEAN, PayloadApplies(t, feasible)
       PROVE  ApartInv'
  BY <1>18 DEF PayloadApplies, SenderGone, Answer, At, ReportInv, ApartInv, ServiceInv,
     Starting, ShutDownApartFromStart
<1>19. ASSUME NEW t \in Threads, ReceiverConfigChecks(t) PROVE ApartInv'
  BY <1>19 DEF ReceiverConfigChecks, Answer, Goto, At, ReportInv, ApartInv, Starting,
     ShutDownApartFromStart, NodeInv, CallsType, CallType, Idle
<1>20. ASSUME NEW t \in Threads, ReceiverConfigApplies(t) PROVE ApartInv'
  BY <1>20 DEF ReceiverConfigApplies, Goto, At, ReportInv, ApartInv, Starting,
     ShutDownApartFromStart
<1>21. ASSUME NEW t \in Threads, ReceiverConfigArchives(t) PROVE ApartInv'
  BY <1>21 DEF ReceiverConfigArchives, Answer, At, ReportInv, ApartInv, Starting,
     ShutDownApartFromStart, Idle
<1>22. ASSUME NEW t \in Threads, StartRequests(t) PROVE ApartInv'
  BY <1>22 DEF StartRequests, StopSilently, Goto, At, ReportInv, ApartInv, Starting,
     ShutDownApartFromStart
<1>23. ASSUME NEW t \in Threads, NEW late \in BOOLEAN, StartSender(t, late)
       PROVE  ApartInv'
  <2>1. t = m /\ call[m].op = "start" /\ call[Service].op = "none"
    BY <1>23 DEF StartSender, At, ReportInv, ServiceInv, ApartInv, Starting, Threads
  <2>2. /\ call'[Service].op = "none"
        /\ \A u \in Threads : call'[u].at \notin {"stopReport", "stopClear"}
    <3>1. call[Service].at = "idle"
      BY <2>1, Constants DEF NodeInv, CallsType, Proper
    <3>2. call'[Service] = call[Service]
      BY <1>23, <2>1, Constants DEF StartSender, Goto, NodeInv, CallsType
    <3>3. call'[m].at \in {"stopSender", "done"}
      BY <1>23, <2>1 DEF StartSender, Goto, NodeInv, CallsType, CallType
    <3> QED
      BY <2>1, <3>1, <3>2, <3>3 DEF Threads
  <2>3. sender'.worker # "off" => sender'.running
    BY <1>23 DEF StartSender, SenderGone, NodeInv, MembersType, SenderType
  <2> QED
    BY <2>2, <2>3 DEF ApartInv
<1>24. ASSUME NEW t \in Threads, StartDone(t) PROVE ApartInv'
  BY <1>24 DEF StartDone, Answer, At, ReportInv, ApartInv, Starting,
     ShutDownApartFromStart, Idle
<1>25. ASSUME NEW t \in Threads, StopRequests(t) PROVE ApartInv'
  BY <1>25 DEF StopRequests, StopSilently, ReportInv, ApartInv, Starting,
     ShutDownApartFromStart, NodeInv, CallsType, Threads
<1>26. ASSUME NEW t \in Threads, StopJoins(t) PROVE ApartInv'
  BY <1>26 DEF StopJoins, SenderGone, Goto, ReportInv, ApartInv, Starting,
     ShutDownApartFromStart
<1>27. ASSUME NEW t \in Threads, StopReports(t) PROVE ApartInv'
  BY <1>27 DEF StopReports, Goto, ReportInv, ApartInv, Starting, ShutDownApartFromStart
<1>28. ASSUME NEW t \in Threads, StopClears(t) PROVE ApartInv'
  BY <1>28 DEF StopClears, Goto, ReportInv, ApartInv, Starting, ShutDownApartFromStart
<1>29. ASSUME NEW t \in Threads, StopReceiver(t) PROVE ApartInv'
  BY <1>29 DEF StopReceiver, Goto, ReportInv, ApartInv, Starting, ShutDownApartFromStart
<1>30. ASSUME NEW t \in Threads, StopAnswers(t) PROVE ApartInv'
  BY <1>30 DEF StopAnswers, FaultKept, Answer, ReportInv, ApartInv, Starting,
     ShutDownApartFromStart, Idle
<1>31. ASSUME NEW t \in Threads, NEW refuses \in BOOLEAN, ToSender(t, refuses)
       PROVE  ApartInv'
  BY <1>31 DEF ToSender, Answer, Goto, ReportInv, ApartInv, Starting,
     ShutDownApartFromStart, NodeInv, CallsType, CallType, Idle, MembersType, SenderType
<1>32. ASSUME NEW t \in Threads, NEW refuses \in BOOLEAN, ToReceiver(t, refuses)
       PROVE  ApartInv'
  BY <1>32 DEF ToReceiver, Answer, ReportInv, ApartInv, Starting,
     ShutDownApartFromStart, Idle
<1>33. CASE UNCHANGED nodeVars
  BY <1>33 DEF nodeVars, ReportInv, ApartInv, Starting, ShutDownApartFromStart
<1> QED
  BY <1>1, <1>2, <1>3, <1>4, <1>5, <1>6, <1>7, <1>8, <1>9, <1>10, <1>11, <1>12, <1>13,
     <1>14, <1>15, <1>16, <1>17, <1>18, <1>19, <1>20, <1>21, <1>22, <1>23, <1>24, <1>25,
     <1>26, <1>27, <1>28, <1>29, <1>30, <1>31, <1>32, <1>33, Service \in Threads,
     Clients \subseteq Threads DEF Threads, Step, SenderWorker, ReceiverWorker,
     CallBegins, CallProceeds, ServiceStops

(* What the receiver owes, it hands out or goes on to owe.                 *)
LEMMA ReceiverOwesStep ==
    ASSUME NEW m, Clients = {m}, NodeInv, ReportInv, [Step]_nodeVars
    PROVE  \A o \in ReceiverOwes : o \in ReceiverOwes' \cup Settled'
<1>1. CASE SenderEnds
  BY <1>1 DEF SenderEnds, ReceiverOwes, ReceiverResult
<1>2. CASE SenderReports
  BY <1>2 DEF SenderReports, ReceiverOwes, ReceiverResult
<1>3. CASE SenderExits
  BY <1>3 DEF SenderExits, ReceiverOwes, ReceiverResult
<1>4. ASSUME NEW c \in PeerChains, ReceiverEnds(c)
      PROVE  \A o \in ReceiverOwes : o \in ReceiverOwes' \cup Settled'
  BY <1>4 DEF ReceiverEnds, ReceiverResult, ReceiverOwes, Settled, ReceiverType
<1>5. ASSUME NEW res \in receiver.batch, ReceiverReports(res)
      PROVE  \A o \in ReceiverOwes : o \in ReceiverOwes' \cup Settled'
  <2>1. results' = results \cup {[res |-> res, applied |-> FALSE, noted |-> Noted(res)]}
    BY <1>5 DEF ReceiverReports, Emitted
  <2>2. [res |-> res, applied |-> FALSE, noted |-> Noted(res)].res \in {r.res : r \in results'}
    BY <2>1
  <2>3. res \in Settled'
    BY <2>2 DEF Settled
  <2>4. ReceiverOwes \subseteq ReceiverOwes' \cup {res}
    BY <1>5 DEF ReceiverReports, ReceiverOwes, ReceiverResult, ReceiverType
  <2> QED
    BY <2>3, <2>4
<1>6. ASSUME NEW t \in Clients, NEW c \in OwnChains, SenderConfigBegins(t, c)
      PROVE  \A o \in ReceiverOwes : o \in ReceiverOwes' \cup Settled'
  BY <1>6 DEF SenderConfigBegins, ReceiverOwes, ReceiverResult
<1>7. ASSUME NEW t \in Clients, NEW c \in OwnChains, PayloadBegins(t, c)
      PROVE  \A o \in ReceiverOwes : o \in ReceiverOwes' \cup Settled'
  BY <1>7 DEF PayloadBegins, ReceiverOwes, ReceiverResult
<1>8. ASSUME NEW t \in Clients, NEW c \in OwnChains, Fault(t, c)
      PROVE  \A o \in ReceiverOwes : o \in ReceiverOwes' \cup Settled'
  BY <1>8 DEF Fault, ReceiverOwes, ReceiverResult
<1>9. ASSUME NEW t \in Clients, NEW cs \in SUBSET PeerChains,
             ReceiverConfigBegins(t, cs)
      PROVE  \A o \in ReceiverOwes : o \in ReceiverOwes' \cup Settled'
  BY <1>9 DEF ReceiverConfigBegins, ReceiverOwes, ReceiverResult
<1>10. ASSUME NEW t \in Clients, StartUnsynchronized(t)
       PROVE  \A o \in ReceiverOwes : o \in ReceiverOwes' \cup Settled'
  BY <1>10 DEF StartUnsynchronized, ReceiverOwes, ReceiverResult
<1>11. ASSUME NEW t \in Clients, NEW late \in BOOLEAN, StartBegins(t, late)
       PROVE  \A o \in ReceiverOwes : o \in ReceiverOwes' \cup Settled'
  BY <1>11 DEF StartBegins, ReceiverResult, ReceiverOwes, Settled, NodeInv, MembersType,
     ReceiverType
<1>12. ASSUME NEW t \in Threads, StopBegins(t)
       PROVE  \A o \in ReceiverOwes : o \in ReceiverOwes' \cup Settled'
  BY <1>12 DEF StopBegins, ReceiverOwes, ReceiverResult
<1>13. ASSUME NEW t \in Clients, NEW op \in {"pause", "resume"},
              RoundCommandBegins(t, op)
       PROVE  \A o \in ReceiverOwes : o \in ReceiverOwes' \cup Settled'
  BY <1>13 DEF RoundCommandBegins, ReceiverOwes, ReceiverResult
<1>14. ASSUME NEW t \in Threads, SenderConfigChecks(t)
       PROVE  \A o \in ReceiverOwes : o \in ReceiverOwes' \cup Settled'
  BY <1>14 DEF SenderConfigChecks, ReceiverOwes, ReceiverResult
<1>15. ASSUME NEW t \in Threads, SenderConfigLocks(t)
       PROVE  \A o \in ReceiverOwes : o \in ReceiverOwes' \cup Settled'
  BY <1>15 DEF SenderConfigLocks, ReceiverOwes, ReceiverResult
<1>16. ASSUME NEW t \in Threads, SenderConfigApplies(t)
       PROVE  \A o \in ReceiverOwes : o \in ReceiverOwes' \cup Settled'
  BY <1>16 DEF SenderConfigApplies, ReceiverOwes, ReceiverResult
<1>17. ASSUME NEW t \in Threads, PayloadLocks(t)
       PROVE  \A o \in ReceiverOwes : o \in ReceiverOwes' \cup Settled'
  BY <1>17 DEF PayloadLocks, ReceiverOwes, ReceiverResult
<1>18. ASSUME NEW t \in Threads, NEW feasible \in BOOLEAN, PayloadApplies(t, feasible)
       PROVE  \A o \in ReceiverOwes : o \in ReceiverOwes' \cup Settled'
  BY <1>18 DEF PayloadApplies, ReceiverOwes, ReceiverResult
<1>19. ASSUME NEW t \in Threads, ReceiverConfigChecks(t)
       PROVE  \A o \in ReceiverOwes : o \in ReceiverOwes' \cup Settled'
  BY <1>19 DEF ReceiverConfigChecks, ReceiverOwes, ReceiverResult
<1>20. ASSUME NEW t \in Threads, ReceiverConfigApplies(t)
       PROVE  \A o \in ReceiverOwes : o \in ReceiverOwes' \cup Settled'
  BY <1>20 DEF ReceiverConfigApplies, ReceiverResult, At, ReceiverOwes, Settled,
     ReceiverType
<1>21. ASSUME NEW t \in Threads, ReceiverConfigArchives(t)
       PROVE  \A o \in ReceiverOwes : o \in ReceiverOwes' \cup Settled'
  BY <1>21 DEF ReceiverConfigArchives, ReceiverOwes, ReceiverResult
<1>22. ASSUME NEW t \in Threads, StartRequests(t)
       PROVE  \A o \in ReceiverOwes : o \in ReceiverOwes' \cup Settled'
  BY <1>22 DEF StartRequests, ReceiverOwes, ReceiverResult
<1>23. ASSUME NEW t \in Threads, NEW late \in BOOLEAN, StartSender(t, late)
       PROVE  \A o \in ReceiverOwes : o \in ReceiverOwes' \cup Settled'
  BY <1>23 DEF StartSender, ReceiverOwes, ReceiverResult
<1>24. ASSUME NEW t \in Threads, StartDone(t)
       PROVE  \A o \in ReceiverOwes : o \in ReceiverOwes' \cup Settled'
  BY <1>24 DEF StartDone, ReceiverOwes, ReceiverResult
<1>25. ASSUME NEW t \in Threads, StopRequests(t)
       PROVE  \A o \in ReceiverOwes : o \in ReceiverOwes' \cup Settled'
  BY <1>25 DEF StopRequests, ReceiverOwes, ReceiverResult
<1>26. ASSUME NEW t \in Threads, StopJoins(t)
       PROVE  \A o \in ReceiverOwes : o \in ReceiverOwes' \cup Settled'
  BY <1>26 DEF StopJoins, ReceiverOwes, ReceiverResult
<1>27. ASSUME NEW t \in Threads, StopReports(t)
       PROVE  \A o \in ReceiverOwes : o \in ReceiverOwes' \cup Settled'
  BY <1>27 DEF StopReports, ReceiverOwes, ReceiverResult
<1>28. ASSUME NEW t \in Threads, StopClears(t)
       PROVE  \A o \in ReceiverOwes : o \in ReceiverOwes' \cup Settled'
  BY <1>28 DEF StopClears, ReceiverOwes, ReceiverResult
<1>29. ASSUME NEW t \in Threads, StopReceiver(t)
       PROVE  \A o \in ReceiverOwes : o \in ReceiverOwes' \cup Settled'
  BY <1>29 DEF StopReceiver, ReceiverResult, ReceiverOwes, Settled, ReceiverType
<1>30. ASSUME NEW t \in Threads, StopAnswers(t)
       PROVE  \A o \in ReceiverOwes : o \in ReceiverOwes' \cup Settled'
  BY <1>30 DEF StopAnswers, ReceiverOwes, ReceiverResult
<1>31. ASSUME NEW t \in Threads, NEW refuses \in BOOLEAN, ToSender(t, refuses)
       PROVE  \A o \in ReceiverOwes : o \in ReceiverOwes' \cup Settled'
  BY <1>31 DEF ToSender, ReceiverOwes, ReceiverResult
<1>32. ASSUME NEW t \in Threads, NEW refuses \in BOOLEAN, ToReceiver(t, refuses)
       PROVE  \A o \in ReceiverOwes : o \in ReceiverOwes' \cup Settled'
  BY <1>32 DEF ToReceiver, ReceiverOwes, Settled, ReceiverResult, ReceiverType
<1>33. CASE UNCHANGED nodeVars
  BY <1>33 DEF nodeVars, ReceiverOwes, Settled, ReceiverResult, ReceiverType
<1> QED
  BY <1>1, <1>2, <1>3, <1>4, <1>5, <1>6, <1>7, <1>8, <1>9, <1>10, <1>11, <1>12, <1>13,
     <1>14, <1>15, <1>16, <1>17, <1>18, <1>19, <1>20, <1>21, <1>22, <1>23, <1>24, <1>25,
     <1>26, <1>27, <1>28, <1>29, <1>30, <1>31, <1>32, <1>33, Service \in Threads,
     Clients \subseteq Threads DEF Threads, Step, SenderWorker, ReceiverWorker,
     CallBegins, CallProceeds, ServiceStops

(* What the sender owes is handed out, given up or goes on to be owed.     *)
LEMMA SenderOwesStep ==
    ASSUME NEW m, Clients = {m}, NodeInv, ReportInv, [Step]_nodeVars
    PROVE  \A o \in opened : SenderOwes(o) => SenderOwes(o)' \/ o \in Settled'
<1>1. CASE SenderEnds
  BY <1>1 DEF SenderEnds, SenderOwes, OwedBySender, OwedByStop, Settled, SenderResult,
     ReportInv, ApartInv, NodeInv, MembersType, SenderType, UnreportedBySender
<1>2. CASE SenderReports
  <2>1. CASE sender.payload = 0
    BY <2>1 DEF SenderOwes
  <2>2. CASE sender.payload # 0
    <3> DEFINE new == [res |-> SenderResult, applied |-> sender.fault,
                       noted |-> Noted(SenderResult)]
    <3>1. new \in results'
      BY <1>2, <2>2 DEF SenderReports, Emitted
    <3>2. new.res \in Settled'
      BY <3>1 DEF Settled
    <3> QED
      BY <3>2 DEF SenderOwes
  <2> QED
    BY <2>1, <2>2
<1>3. CASE SenderExits
  BY <1>3 DEF SenderExits, SenderOwes, OwedBySender, OwedByStop, Settled, SenderResult,
     ReportInv, ApartInv, UnreportedBySender
<1>4. ASSUME NEW c \in PeerChains, ReceiverEnds(c)
      PROVE  \A o \in opened : SenderOwes(o) => SenderOwes(o)' \/ o \in Settled'
  BY <1>4 DEF ReceiverEnds, SenderOwes, OwedBySender, OwedByStop, SenderResult
<1>5. ASSUME NEW res \in receiver.batch, ReceiverReports(res)
      PROVE  \A o \in opened : SenderOwes(o) => SenderOwes(o)' \/ o \in Settled'
  BY <1>5 DEF ReceiverReports, SenderOwes, OwedBySender, OwedByStop, SenderResult
<1>6. ASSUME NEW t \in Clients, NEW c \in OwnChains, SenderConfigBegins(t, c)
      PROVE  \A o \in opened : SenderOwes(o) => SenderOwes(o)' \/ o \in Settled'
  BY <1>6 DEF SenderConfigBegins, Begin, SenderOwes, OwedBySender, OwedByStop, Settled,
     SenderResult, ReportInv, ApartInv, UnreportedBySender, Idle
<1>7. ASSUME NEW t \in Clients, NEW c \in OwnChains, PayloadBegins(t, c)
      PROVE  \A o \in opened : SenderOwes(o) => SenderOwes(o)' \/ o \in Settled'
  BY <1>7 DEF PayloadBegins, Begin, SenderOwes, OwedBySender, OwedByStop, Settled,
     SenderResult, ReportInv, ApartInv, UnreportedBySender, Idle
<1>8. ASSUME NEW t \in Clients, NEW c \in OwnChains, Fault(t, c)
      PROVE  \A o \in opened : SenderOwes(o) => SenderOwes(o)' \/ o \in Settled'
  BY <1>8 DEF Fault, SenderOwes, OwedBySender, OwedByStop, Settled, SenderResult,
     ReportInv, ApartInv, UnreportedBySender
<1>9. ASSUME NEW t \in Clients, NEW cs \in SUBSET PeerChains,
             ReceiverConfigBegins(t, cs)
      PROVE  \A o \in opened : SenderOwes(o) => SenderOwes(o)' \/ o \in Settled'
  BY <1>9 DEF ReceiverConfigBegins, Begin, SenderOwes, OwedBySender, OwedByStop,
     Settled, SenderResult, ReportInv, ApartInv, UnreportedBySender, Idle
<1>10. ASSUME NEW t \in Clients, StartUnsynchronized(t)
       PROVE  \A o \in opened : SenderOwes(o) => SenderOwes(o)' \/ o \in Settled'
  BY <1>10 DEF StartUnsynchronized, SenderOwes, OwedBySender, OwedByStop, SenderResult
<1>11. ASSUME NEW t \in Clients, NEW late \in BOOLEAN, StartBegins(t, late)
       PROVE  \A o \in opened : SenderOwes(o) => SenderOwes(o)' \/ o \in Settled'
  BY <1>11 DEF StartBegins, Begin, SenderOwes, OwedBySender, OwedByStop, Settled,
     SenderResult, ReportInv, ApartInv, UnreportedBySender, Idle
<1>12. ASSUME NEW t \in Threads, StopBegins(t)
       PROVE  \A o \in opened : SenderOwes(o) => SenderOwes(o)' \/ o \in Settled'
  BY <1>12 DEF StopBegins, Begin, SenderOwes, OwedBySender, OwedByStop, Settled,
     SenderResult, ReportInv, ApartInv, UnreportedBySender, Idle
<1>13. ASSUME NEW t \in Clients, NEW op \in {"pause", "resume"},
              RoundCommandBegins(t, op)
       PROVE  \A o \in opened : SenderOwes(o) => SenderOwes(o)' \/ o \in Settled'
  BY <1>13 DEF RoundCommandBegins, Begin, SenderOwes, OwedBySender, OwedByStop, Settled,
     SenderResult, ReportInv, ApartInv, UnreportedBySender, Idle
<1>14. ASSUME NEW t \in Threads, SenderConfigChecks(t)
       PROVE  \A o \in opened : SenderOwes(o) => SenderOwes(o)' \/ o \in Settled'
  BY <1>14 DEF SenderConfigChecks, Answer, Goto, At, SenderOwes, OwedBySender,
     OwedByStop, Settled, SenderResult, ReportInv, ApartInv, NodeInv, CallsType,
     UnreportedBySender
<1>15. ASSUME NEW t \in Threads, SenderConfigLocks(t)
       PROVE  \A o \in opened : SenderOwes(o) => SenderOwes(o)' \/ o \in Settled'
  BY <1>15 DEF SenderConfigLocks, StopSilently, Goto, At, SenderOwes, OwedBySender,
     OwedByStop, Settled, SenderResult, ReportInv, ApartInv, NodeInv, CallsType,
     UnreportedBySender
<1>16. ASSUME NEW t \in Threads, SenderConfigApplies(t)
       PROVE  \A o \in opened : SenderOwes(o) => SenderOwes(o)' \/ o \in Settled'
  BY <1>16 DEF SenderConfigApplies, SenderGone, ResetConfiguration, NoSender, Answer,
     At, SenderOwes, OwedBySender, OwedByStop, Settled, SenderResult, ReportInv,
     ApartInv, UnreportedBySender
<1>17. ASSUME NEW t \in Threads, PayloadLocks(t)
       PROVE  \A o \in opened : SenderOwes(o) => SenderOwes(o)' \/ o \in Settled'
  BY <1>17 DEF PayloadLocks, StopSilently, Answer, Goto, At, SenderOwes, OwedBySender,
     OwedByStop, Settled, SenderResult, ReportInv, ApartInv, NodeInv, MembersType,
     SenderType, CallsType, CallType, UnreportedBySender
<1>18. ASSUME NEW t \in Threads, NEW feasible \in BOOLEAN, PayloadApplies(t, feasible)
       PROVE  \A o \in opened : SenderOwes(o) => SenderOwes(o)' \/ o \in Settled'
  BY <1>18 DEF PayloadApplies, SenderGone, Answer, At, SenderOwes, OwedBySender,
     OwedByStop, Settled, SenderResult, ReportInv, ApartInv, UnreportedBySender
<1>19. ASSUME NEW t \in Threads, ReceiverConfigChecks(t)
       PROVE  \A o \in opened : SenderOwes(o) => SenderOwes(o)' \/ o \in Settled'
  BY <1>19 DEF ReceiverConfigChecks, Answer, Goto, At, SenderOwes, OwedBySender,
     OwedByStop, Settled, SenderResult, ReportInv, ApartInv, NodeInv, CallsType,
     UnreportedBySender
<1>20. ASSUME NEW t \in Threads, ReceiverConfigApplies(t)
       PROVE  \A o \in opened : SenderOwes(o) => SenderOwes(o)' \/ o \in Settled'
  BY <1>20 DEF ReceiverConfigApplies, Goto, At, SenderOwes, OwedBySender, OwedByStop,
     Settled, SenderResult, ReportInv, ApartInv, UnreportedBySender
<1>21. ASSUME NEW t \in Threads, ReceiverConfigArchives(t)
       PROVE  \A o \in opened : SenderOwes(o) => SenderOwes(o)' \/ o \in Settled'
  BY <1>21 DEF ReceiverConfigArchives, Answer, At, SenderOwes, OwedBySender, OwedByStop,
     Settled, SenderResult, ReportInv, ApartInv, UnreportedBySender
<1>22. ASSUME NEW t \in Threads, StartRequests(t)
       PROVE  \A o \in opened : SenderOwes(o) => SenderOwes(o)' \/ o \in Settled'
  BY <1>22 DEF StartRequests, StopSilently, Goto, At, SenderOwes, OwedBySender,
     OwedByStop, Settled, SenderResult, ReportInv, ApartInv, NodeInv, CallsType,
     UnreportedBySender
<1>23. ASSUME NEW t \in Threads, NEW late \in BOOLEAN, StartSender(t, late)
       PROVE  \A o \in opened : SenderOwes(o) => SenderOwes(o)' \/ o \in Settled'
  BY <1>23 DEF StartSender, SenderGone, Goto, At, SenderOwes, OwedBySender, OwedByStop,
     Settled, SenderResult, ReportInv, ApartInv, UnreportedBySender
<1>24. ASSUME NEW t \in Threads, StartDone(t)
       PROVE  \A o \in opened : SenderOwes(o) => SenderOwes(o)' \/ o \in Settled'
  BY <1>24 DEF StartDone, Answer, At, SenderOwes, OwedBySender, OwedByStop, Settled,
     SenderResult, ReportInv, ApartInv, UnreportedBySender
<1>25. ASSUME NEW t \in Threads, StopRequests(t)
       PROVE  \A o \in opened : SenderOwes(o) => SenderOwes(o)' \/ o \in Settled'
  BY <1>25 DEF StopRequests, StopSilently, SenderOwes, OwedBySender, OwedByStop,
     Settled, SenderResult, ReportInv, ApartInv, NodeInv, CallsType, UnreportedBySender
<1>26. ASSUME NEW t \in Threads, StopJoins(t)
       PROVE  \A o \in opened : SenderOwes(o) => SenderOwes(o)' \/ o \in Settled'
  BY <1>26 DEF StopJoins, SenderGone, Goto, SenderOwes, OwedBySender, OwedByStop,
     Settled, SenderResult, ReportInv, ApartInv, UnreportedBySender
<1>27. ASSUME NEW t \in Threads, StopReports(t)
       PROVE  \A o \in opened : SenderOwes(o) => SenderOwes(o)' \/ o \in Settled'
  <2>1. CASE sender.payload = 0
    BY <2>1 DEF SenderOwes
  <2>2. CASE sender.payload # 0
    <3> DEFINE new == [res |-> SenderResult, applied |-> sender.fault,
                       noted |-> Noted(SenderResult)]
    <3>1. new \in results'
      BY <1>27, <2>2 DEF StopReports, Emitted
    <3>2. new.res \in Settled'
      BY <3>1 DEF Settled
    <3> QED
      BY <3>2 DEF SenderOwes
  <2> QED
    BY <2>1, <2>2
<1>28. ASSUME NEW t \in Threads, StopClears(t)
       PROVE  \A o \in opened : SenderOwes(o) => SenderOwes(o)' \/ o \in Settled'
  BY <1>28 DEF StopClears, Goto, SenderOwes, OwedBySender, OwedByStop, Settled,
     SenderResult, ReportInv, ApartInv, UnreportedBySender
<1>29. ASSUME NEW t \in Threads, StopReceiver(t)
       PROVE  \A o \in opened : SenderOwes(o) => SenderOwes(o)' \/ o \in Settled'
  BY <1>29 DEF StopReceiver, Goto, SenderOwes, OwedBySender, OwedByStop, Settled,
     SenderResult, ReportInv, ApartInv, UnreportedBySender
<1>30. ASSUME NEW t \in Threads, StopAnswers(t)
       PROVE  \A o \in opened : SenderOwes(o) => SenderOwes(o)' \/ o \in Settled'
  BY <1>30 DEF StopAnswers, FaultKept, Answer, SenderOwes, OwedBySender, OwedByStop,
     Settled, SenderResult, ReportInv, ApartInv, UnreportedBySender
<1>31. ASSUME NEW t \in Threads, NEW refuses \in BOOLEAN, ToSender(t, refuses)
       PROVE  \A o \in opened : SenderOwes(o) => SenderOwes(o)' \/ o \in Settled'
  BY <1>31 DEF ToSender, Answer, Goto, SenderOwes, OwedBySender, OwedByStop, Settled,
     SenderResult, ReportInv, ApartInv, NodeInv, MembersType, SenderType, CallsType,
     UnreportedBySender
<1>32. ASSUME NEW t \in Threads, NEW refuses \in BOOLEAN, ToReceiver(t, refuses)
       PROVE  \A o \in opened : SenderOwes(o) => SenderOwes(o)' \/ o \in Settled'
  BY <1>32 DEF ToReceiver, Answer, SenderOwes, OwedBySender, OwedByStop, Settled,
     SenderResult, ReportInv, ApartInv, UnreportedBySender
<1>33. CASE UNCHANGED nodeVars
  BY <1>33 DEF nodeVars, SenderOwes, OwedBySender, OwedByStop, Settled, SenderResult,
     ReportInv, ApartInv, UnreportedBySender
<1> QED
  BY <1>1, <1>2, <1>3, <1>4, <1>5, <1>6, <1>7, <1>8, <1>9, <1>10, <1>11, <1>12, <1>13,
     <1>14, <1>15, <1>16, <1>17, <1>18, <1>19, <1>20, <1>21, <1>22, <1>23, <1>24, <1>25,
     <1>26, <1>27, <1>28, <1>29, <1>30, <1>31, <1>32, <1>33, Service \in Threads,
     Clients \subseteq Threads DEF Threads, Step, SenderWorker, ReceiverWorker,
     CallBegins, CallProceeds, ServiceStops

(* A round that starts has somebody to report it.                          *)
LEMMA OpenedStep ==
    ASSUME NEW m, Clients = {m}, NodeInv, ReportInv, [Step]_nodeVars
    PROVE  \A o \in opened' \ opened : o \in ReceiverOwes' \/ SenderOwes(o)'
<1>1. CASE SenderEnds
  BY <1>1 DEF SenderEnds
<1>2. CASE SenderReports
  BY <1>2 DEF SenderReports
<1>3. CASE SenderExits
  BY <1>3 DEF SenderExits
<1>4. ASSUME NEW c \in PeerChains, ReceiverEnds(c)
      PROVE  \A o \in opened' \ opened : o \in ReceiverOwes' \/ SenderOwes(o)'
  BY <1>4 DEF ReceiverEnds
<1>5. ASSUME NEW res \in receiver.batch, ReceiverReports(res)
      PROVE  \A o \in opened' \ opened : o \in ReceiverOwes' \/ SenderOwes(o)'
  BY <1>5 DEF ReceiverReports
<1>6. ASSUME NEW t \in Clients, NEW c \in OwnChains, SenderConfigBegins(t, c)
      PROVE  \A o \in opened' \ opened : o \in ReceiverOwes' \/ SenderOwes(o)'
  BY <1>6 DEF SenderConfigBegins
<1>7. ASSUME NEW t \in Clients, NEW c \in OwnChains, PayloadBegins(t, c)
      PROVE  \A o \in opened' \ opened : o \in ReceiverOwes' \/ SenderOwes(o)'
  BY <1>7 DEF PayloadBegins
<1>8. ASSUME NEW t \in Clients, NEW c \in OwnChains, Fault(t, c)
      PROVE  \A o \in opened' \ opened : o \in ReceiverOwes' \/ SenderOwes(o)'
  BY <1>8 DEF Fault
<1>9. ASSUME NEW t \in Clients, NEW cs \in SUBSET PeerChains,
             ReceiverConfigBegins(t, cs)
      PROVE  \A o \in opened' \ opened : o \in ReceiverOwes' \/ SenderOwes(o)'
  BY <1>9 DEF ReceiverConfigBegins
<1>10. ASSUME NEW t \in Clients, StartUnsynchronized(t)
       PROVE  \A o \in opened' \ opened : o \in ReceiverOwes' \/ SenderOwes(o)'
  BY <1>10 DEF StartUnsynchronized
<1>11. ASSUME NEW t \in Clients, NEW late \in BOOLEAN, StartBegins(t, late)
       PROVE  \A o \in opened' \ opened : o \in ReceiverOwes' \/ SenderOwes(o)'
  <2>1. CASE opened' = opened
    BY <2>1
  <2>2. CASE opened' # opened
    <3>1. /\ opened' = opened \cup {[round |-> rounds + 1, role |-> "receiver", chain |-> c]
                                     : c \in receiver.contexts}
          /\ receiver' = [receiver EXCEPT !.active = receiver.contexts, !.hold = FALSE,
                                          !.round = rounds + 1]
      BY <1>11, <2>2 DEF StartBegins
    <3>2. receiver'.active = receiver.contexts /\ receiver'.round = rounds + 1
      BY <3>1 DEF ReceiverType
    <3>3. \A c \in receiver.contexts :
             [round |-> rounds + 1, role |-> "receiver", chain |-> c] \in ReceiverOwes'
      BY <3>2 DEF ReceiverOwes, ReceiverResult
    <3> QED
      BY <3>1, <3>3
  <2> QED
    BY <2>1, <2>2
<1>12. ASSUME NEW t \in Threads, StopBegins(t)
       PROVE  \A o \in opened' \ opened : o \in ReceiverOwes' \/ SenderOwes(o)'
  BY <1>12 DEF StopBegins
<1>13. ASSUME NEW t \in Clients, NEW op \in {"pause", "resume"},
              RoundCommandBegins(t, op)
       PROVE  \A o \in opened' \ opened : o \in ReceiverOwes' \/ SenderOwes(o)'
  BY <1>13 DEF RoundCommandBegins
<1>14. ASSUME NEW t \in Threads, SenderConfigChecks(t)
       PROVE  \A o \in opened' \ opened : o \in ReceiverOwes' \/ SenderOwes(o)'
  BY <1>14 DEF SenderConfigChecks
<1>15. ASSUME NEW t \in Threads, SenderConfigLocks(t)
       PROVE  \A o \in opened' \ opened : o \in ReceiverOwes' \/ SenderOwes(o)'
  BY <1>15 DEF SenderConfigLocks
<1>16. ASSUME NEW t \in Threads, SenderConfigApplies(t)
       PROVE  \A o \in opened' \ opened : o \in ReceiverOwes' \/ SenderOwes(o)'
  BY <1>16 DEF SenderConfigApplies
<1>17. ASSUME NEW t \in Threads, PayloadLocks(t)
       PROVE  \A o \in opened' \ opened : o \in ReceiverOwes' \/ SenderOwes(o)'
  BY <1>17 DEF PayloadLocks
<1>18. ASSUME NEW t \in Threads, NEW feasible \in BOOLEAN, PayloadApplies(t, feasible)
       PROVE  \A o \in opened' \ opened : o \in ReceiverOwes' \/ SenderOwes(o)'
  BY <1>18 DEF PayloadApplies
<1>19. ASSUME NEW t \in Threads, ReceiverConfigChecks(t)
       PROVE  \A o \in opened' \ opened : o \in ReceiverOwes' \/ SenderOwes(o)'
  BY <1>19 DEF ReceiverConfigChecks
<1>20. ASSUME NEW t \in Threads, ReceiverConfigApplies(t)
       PROVE  \A o \in opened' \ opened : o \in ReceiverOwes' \/ SenderOwes(o)'
  BY <1>20 DEF ReceiverConfigApplies
<1>21. ASSUME NEW t \in Threads, ReceiverConfigArchives(t)
       PROVE  \A o \in opened' \ opened : o \in ReceiverOwes' \/ SenderOwes(o)'
  BY <1>21 DEF ReceiverConfigArchives
<1>22. ASSUME NEW t \in Threads, StartRequests(t)
       PROVE  \A o \in opened' \ opened : o \in ReceiverOwes' \/ SenderOwes(o)'
  BY <1>22 DEF StartRequests
<1>23. ASSUME NEW t \in Threads, NEW late \in BOOLEAN, StartSender(t, late)
       PROVE  \A o \in opened' \ opened : o \in ReceiverOwes' \/ SenderOwes(o)'
  <2>1. CASE opened' = opened
    BY <2>1
  <2>2. CASE opened' # opened
    <3> DEFINE serial == CHOOSE r \in call[t].arg : TRUE
    <3>1. /\ opened' = opened
                    \cup {[round |-> serial, role |-> "sender", chain |-> sender.payload]}
          /\ sender' = [sender EXCEPT !.running = TRUE, !.hold = FALSE, !.stopping = FALSE,
                                      !.worker = "run", !.round = serial,
                                      !.joinable = TRUE]
          /\ sender.payload # 0
      BY <1>23, <2>2 DEF StartSender
    <3> HIDE DEF serial
    <3>2. /\ sender'.payload = sender.payload /\ sender'.round = serial
          /\ sender'.worker = "run" /\ ~sender'.stopping
      BY <3>1
    <3>3. \A o : o = [round |-> serial, role |-> "sender", chain |-> sender.payload]
                  => SenderOwes(o)'
      BY <3>1, <3>2 DEF SenderOwes, SenderResult, OwedBySender
    <3> QED
      BY <3>1, <3>3
  <2> QED
    BY <2>1, <2>2
<1>24. ASSUME NEW t \in Threads, StartDone(t)
       PROVE  \A o \in opened' \ opened : o \in ReceiverOwes' \/ SenderOwes(o)'
  BY <1>24 DEF StartDone
<1>25. ASSUME NEW t \in Threads, StopRequests(t)
       PROVE  \A o \in opened' \ opened : o \in ReceiverOwes' \/ SenderOwes(o)'
  BY <1>25 DEF StopRequests
<1>26. ASSUME NEW t \in Threads, StopJoins(t)
       PROVE  \A o \in opened' \ opened : o \in ReceiverOwes' \/ SenderOwes(o)'
  BY <1>26 DEF StopJoins
<1>27. ASSUME NEW t \in Threads, StopReports(t)
       PROVE  \A o \in opened' \ opened : o \in ReceiverOwes' \/ SenderOwes(o)'
  BY <1>27 DEF StopReports
<1>28. ASSUME NEW t \in Threads, StopClears(t)
       PROVE  \A o \in opened' \ opened : o \in ReceiverOwes' \/ SenderOwes(o)'
  BY <1>28 DEF StopClears
<1>29. ASSUME NEW t \in Threads, StopReceiver(t)
       PROVE  \A o \in opened' \ opened : o \in ReceiverOwes' \/ SenderOwes(o)'
  BY <1>29 DEF StopReceiver
<1>30. ASSUME NEW t \in Threads, StopAnswers(t)
       PROVE  \A o \in opened' \ opened : o \in ReceiverOwes' \/ SenderOwes(o)'
  BY <1>30 DEF StopAnswers
<1>31. ASSUME NEW t \in Threads, NEW refuses \in BOOLEAN, ToSender(t, refuses)
       PROVE  \A o \in opened' \ opened : o \in ReceiverOwes' \/ SenderOwes(o)'
  BY <1>31 DEF ToSender
<1>32. ASSUME NEW t \in Threads, NEW refuses \in BOOLEAN, ToReceiver(t, refuses)
       PROVE  \A o \in opened' \ opened : o \in ReceiverOwes' \/ SenderOwes(o)'
  BY <1>32 DEF ToReceiver
<1>33. CASE UNCHANGED nodeVars
  BY <1>33 DEF nodeVars, ReceiverOwes, ReceiverResult, SenderOwes, OwedBySender,
     SenderResult, ReceiverType
<1> QED
  BY <1>1, <1>2, <1>3, <1>4, <1>5, <1>6, <1>7, <1>8, <1>9, <1>10, <1>11, <1>12, <1>13,
     <1>14, <1>15, <1>16, <1>17, <1>18, <1>19, <1>20, <1>21, <1>22, <1>23, <1>24, <1>25,
     <1>26, <1>27, <1>28, <1>29, <1>30, <1>31, <1>32, <1>33, Service \in Threads,
     Clients \subseteq Threads DEF Threads, Step, SenderWorker, ReceiverWorker,
     CallBegins, CallProceeds, ServiceStops

(* Every step keeps every result owed, seen or given up.                   *)
LEMMA OwedStep ==
    ASSUME NEW m, Clients = {m}, NodeInv, ReportInv, [Step]_nodeVars
    PROVE  OwedInv'
<1>1. Settled \subseteq Settled'
  BY HistoryStep DEF Settled
<1> SUFFICES ASSUME NEW o \in opened', o \notin Settled'
             PROVE  o \in ReceiverOwes' \/ SenderOwes(o)'
  BY DEF OwedInv
<1>2. CASE o \notin opened
  BY <1>2, OpenedStep
<1>3. CASE o \in opened
  <2>1. o \in ReceiverOwes \/ SenderOwes(o)
    BY <1>1, <1>3 DEF ReportInv, OwedInv
  <2>2. CASE o \in ReceiverOwes
    BY <2>2, ReceiverOwesStep
  <2>3. CASE SenderOwes(o)
    BY <2>3, <1>3, SenderOwesStep
  <2> QED
    BY <2>1, <2>2, <2>3
<1> QED
  BY <1>2, <1>3

(* Every orderly step keeps the invariant of the reports.                  *)
LEMMA ReportServiceStep ==
    ASSUME NEW m, Clients = {m}, NodeInv, ManagerInv(m), ReportInv, [OrderlyNext]_vars
    PROVE  ReportInv'
<1>1. [Step]_nodeVars
  BY NextIsStep DEF OrderlyNext
<1>2. ServiceInv' /\ OwedInv'
  BY <1>1, ServiceStep, OwedStep
<1>3. CASE OrderlyNext
  BY <1>1, <1>2, <1>3, ApartStep DEF OrderlyNext, ReportInv
<1>4. CASE UNCHANGED vars
  BY <1>2, <1>4 DEF ReportInv, ApartInv, Starting, vars, nodeVars
<1> QED
  BY <1>3, <1>4

(* It holds at first.                                                      *)
LEMMA ReportInit ==
    ASSUME Init
    PROVE  ReportInv
BY Constants DEF Init, ReportInv, ServiceInv, ApartInv, OwedInv, Starting, Idle,
   NoAnswer, NoSender, Settled

(* In a quiet node nobody owes anything.                                   *)
LEMMA QuietIsReported ==
    ASSUME NodeInv, ReportInv
    PROVE  AllReported
<1> SUFFICES ASSUME sender.worker = "off", receiver.active = {}, receiver.batch = {},
                    \A t \in Threads : call[t] = Idle,
                    NEW o \in opened
             PROVE  o \in Settled
  BY DEF AllReported, Settled
<1>1. o \notin ReceiverOwes
  BY DEF ReceiverOwes
<1>2. ~OwedBySender
  BY DEF OwedBySender, OwedByStop, Idle
<1> QED
  BY <1>1, <1>2 DEF ReportInv, OwedInv, SenderOwes

(* With one Manager and no shutdown during a start, every round that was   *)
(* started has reported for each role and chain once the node is quiet,    *)
(* unless a later call took its place (emitResult, msgApplyRoundCommand).  *)
(* Overlapping joins may end the process; it is never quiet then.          *)
THEOREM EveryRoundAccounted ==
    ASSUME NEW CONSTANT m, Clients = {m}
    PROVE  OrderlySpec => []AllReported
<1>1. Init => NodeInv /\ ManagerInv(m) /\ ReportInv
  BY NodeInit, ManagerInit, ReportInit
<1>2. /\ NodeInv /\ ManagerInv(m) /\ ReportInv /\ [OrderlyNext]_vars
      => NodeInv' /\ ManagerInv(m)' /\ ReportInv'
  <2>1. [OrderlyNext]_vars => [Next]_vars
    BY DEF OrderlyNext
  <2> QED
    BY <2>1, NextIsStep, NodeStep, ManagerStep, ReportServiceStep
<1>3. NodeInv /\ ReportInv => AllReported
  BY QuietIsReported
<1> QED
  BY <1>1, <1>2, <1>3, PTL DEF OrderlySpec, OrderlyNext

=============================================================================
