----------------------------- MODULE TeslaRound -----------------------------
(***************************************************************************)
(* One authentication round end to end: the Manager that issues the round  *)
(* commands, a sender that keeps the promise of SenderSchedule, a receiver *)
(* with one trusted context, command connections that deliver in order but *)
(* at any time, and a datagram network that loses, delays, repeats and     *)
(* reorders.  The receiver's clock is off by a constant skew.              *)
(*                                                                         *)
(* The question is the security condition of TESLA: a packet the receiver  *)
(* stores arrived before the sender disclosed the key that authenticates   *)
(* it.  It rests on sender and receiver following the same timeline.       *)
(***************************************************************************)
EXTENDS ReceiverContext, Integers

CONSTANTS
    TotalPacketCount, \* data packets of the round
    StartLead,        \* preparation time the nodes demand (100 ms)
    ManagerLead,      \* notice the Manager gives (2000 ms)
    Skews,            \* receiver clock minus sender clock
    MaxPauses,        \* bound: pauses the Manager issues
    MaxTime           \* bound: last tick

ASSUME TeslaAssumption ==
    /\ TotalPacketCount \in Nat \ {0}
    /\ StartLead \in Nat /\ ManagerLead \in Nat \ {0}
    /\ Skews \subseteq -ClockTolerance .. ClockTolerance
    /\ ClockTolerance <= StartLead
    /\ MaxPauses \in Nat /\ MaxTime \in Nat

VARIABLES
    (* the sender, as SenderSchedule *)
    now, sending, timeline, hold, reached, disclosed, tx,
    manager,     \* members of ManagerAuthenticationController
    toSender,    \* round commands on their way to the sender
    toReceiver,  \* round commands on their way to the receiver
    skew,        \* the receiver reads now + skew
    receiver,    \* the ReceiverState of the one context
    network,     \* datagrams sent; each may arrive any number of times
    inbox,       \* m_deqDatagrams with the time of arrival
    late,        \* history: the datagram in the inbox came after its key, or
                 \* after a later one, from which its key can be computed
    unsafe,      \* history: packets stored although they came after their key
    split,       \* history: the nodes did not agree on a pause
    failed,      \* history: a broadcast missed a node (bounds the model)
    pauses       \* history: pauses issued (bounds the model)

senderVars   == <<now, sending, timeline, hold, reached, disclosed, tx>>
receiverVars == <<receiver, inbox, late, unsafe>>
vars == <<senderVars, manager, toSender, toReceiver, skew, receiverVars, network,
          split, failed, pauses>>

Sender == INSTANCE SenderSchedule WITH Timestamps <- 0 .. 2 * MaxTime

LastInterval == LastLogicalInterval(TotalPacketCount)
LocalTime == now + skew

Command(op, k, ts) == [op |-> op, interval |-> k, ts |-> ts]

Init ==
    /\ Sender!Init
    /\ manager = [running |-> FALSE, paused |-> FALSE, first |-> 1, start |-> 0,
                  pauseAfter |-> 0, pauseTs |-> 0]
    /\ toSender = <<>> /\ toReceiver = <<>>
    /\ skew \in Skews
    /\ receiver = Unstarted(TotalPacketCount)
    /\ network = {} /\ inbox = <<>> /\ late = FALSE /\ unsafe = {}
    /\ split = FALSE /\ failed = FALSE /\ pauses = 0
-----------------------------------------------------------------------------
(* The Manager.  A command goes to every participant whose connection is   *)
(* up.  When one is not, the call fails although the others have been told *)
(* already; the model then stops issuing commands (failed).                *)

Nodes == {"sender", "receiver"}

Broadcast(command, up) ==
    /\ ~failed
    /\ toSender' = IF "sender" \in up THEN Append(toSender, command) ELSE toSender
    /\ toReceiver' = IF "receiver" \in up THEN Append(toReceiver, command)
                     ELSE toReceiver
    /\ failed' = (up # Nodes)
    /\ split' = (split \/ failed')
    /\ UNCHANGED <<senderVars, skew, receiverVars, network>>

(* A start that fails is rolled back by a stop. *)
StartRound ==
    /\ ~manager.running /\ manager.start = 0
    /\ now + ManagerLead <= MaxTime
    /\ Broadcast(Command("start", 1, now + ManagerLead), Nodes)
    /\ manager' = [manager EXCEPT !.running = TRUE, !.start = now + ManagerLead]
    /\ UNCHANGED pauses

StartFails(up) ==
    /\ up # Nodes
    /\ ~manager.running /\ manager.start = 0 /\ ~failed
    /\ LET orders == <<Command("start", 1, now + ManagerLead), Command("stop", 0, 0)>>
       IN  /\ toSender' = IF "sender" \in up THEN toSender \o orders ELSE toSender
           /\ toReceiver' = IF "receiver" \in up THEN toReceiver \o orders ELSE toReceiver
    /\ manager' = [manager EXCEPT !.start = now + ManagerLead]
    /\ failed' = TRUE /\ split' = TRUE
    /\ UNCHANGED <<senderVars, skew, receiverVars, network, pauses>>

(* The boundary is the end of the next interval of the Manager's timeline. *)
Elapsed == IF now > manager.start THEN now - manager.start ELSE 0
PauseAfter == manager.first + Elapsed \div IntervalLength + 1
PauseTime == manager.start + (PauseAfter - manager.first + 1) * IntervalLength

PauseRound(up) ==
    /\ manager.running /\ ~manager.paused
    /\ pauses < MaxPauses
    /\ PauseAfter < LastInterval
    /\ Broadcast(Command("pause", PauseAfter, PauseTime), up)
    /\ manager' = IF up = Nodes
                  THEN [manager EXCEPT !.paused = TRUE, !.pauseAfter = PauseAfter,
                                       !.pauseTs = PauseTime]
                  ELSE manager
    /\ pauses' = pauses + 1

ResumeTime ==
    (IF now > manager.pauseTs THEN now ELSE manager.pauseTs) + ManagerLead

ResumeRound(up) ==
    /\ manager.running /\ manager.paused
    /\ ResumeTime <= MaxTime
    /\ Broadcast(Command("resume", manager.pauseAfter + 1, ResumeTime), up)
    /\ manager' = IF up = Nodes
                  THEN [manager EXCEPT !.paused = FALSE, !.start = ResumeTime,
                                       !.first = manager.pauseAfter + 1]
                  ELSE manager
    /\ UNCHANGED pauses

StopRound(up) ==
    /\ manager.running
    /\ Broadcast(Command("stop", 0, 0), up)
    /\ manager' = IF up = Nodes
                  THEN [manager EXCEPT !.running = FALSE, !.paused = FALSE]
                  ELSE manager
    /\ UNCHANGED pauses
-----------------------------------------------------------------------------
(* The sender node.                                                        *)

SenderCommand(op) ==
    /\ toSender # <<>> /\ Head(toSender).op = op
    /\ toSender' = Tail(toSender)
    /\ UNCHANGED <<manager, toReceiver, skew, receiverVars, network, failed,
                   pauses>>

SenderStarts ==
    /\ SenderCommand("start")
    /\ IF Head(toSender).ts > now + StartLead THEN Sender!Begin(Head(toSender).ts)
       ELSE UNCHANGED senderVars
    /\ UNCHANGED split

SenderPauses ==
    /\ SenderCommand("pause")
    /\ Head(toSender).ts > now
    /\ Sender!Pause(Head(toSender).interval)
    /\ UNCHANGED split

(* requestPause refuses the boundary, or accepts one that is too late, or  *)
(* loses it to the pause or the resume that it is carrying out.            *)
PauseTakesNoEffect(command) ==
    \/ ~sending \/ hold # 0
    \/ command.ts <= now
    \/ command.interval <= reached
    \/ sending /\ reached < LastSegment(timeline).first

SenderMissesPause ==
    /\ SenderCommand("pause")
    /\ PauseTakesNoEffect(Head(toSender))
    /\ split' = TRUE
    /\ UNCHANGED senderVars

SenderResumes ==
    /\ SenderCommand("resume")
    /\ IF /\ sending /\ hold # 0
          /\ Head(toSender).interval = hold + 1
          /\ Head(toSender).ts > now + StartLead
       THEN Sender!Resume(Head(toSender).ts)
       ELSE UNCHANGED senderVars
    /\ UNCHANGED split

SenderStops ==
    /\ SenderCommand("stop")
    /\ IF sending THEN Sender!Finish ELSE UNCHANGED senderVars
    /\ UNCHANGED split

SenderSends ==
    /\ \E dg \in Datagrams(TotalPacketCount) :
        /\ Sender!Send(dg)
        /\ network' = network \cup {dg}
    /\ UNCHANGED <<manager, toSender, toReceiver, skew, receiverVars, split, failed,
                   pauses>>

SenderAdvances ==
    /\ Sender!ReachNext \/ Sender!Finish
    /\ UNCHANGED <<manager, toSender, toReceiver, skew, receiverVars, network, split,
                   failed, pauses>>
-----------------------------------------------------------------------------
(* The receiver node.                                                      *)

ReceiverCommand(op) ==
    /\ toReceiver # <<>> /\ Head(toReceiver).op = op
    /\ toReceiver' = Tail(toReceiver)
    /\ UNCHANGED <<senderVars, manager, toSender, skew, inbox, late, unsafe,
                   network, failed, pauses>>

ReceiverStarts ==
    /\ ReceiverCommand("start")
    /\ receiver' = IF Head(toReceiver).ts > LocalTime + StartLead
                   THEN Started(TotalPacketCount, Head(toReceiver).ts) ELSE receiver
    /\ UNCHANGED split

(* requestPause looks at the clock but not at the interval in progress. *)
ReceiverPauses ==
    /\ ReceiverCommand("pause")
    /\ LET command == Head(toReceiver)
       IN  receiver' = IF command.ts <= LocalTime \/ RefusesPause(receiver, command.interval)
                       THEN receiver
                       ELSE WithPause(receiver, command.interval, command.ts)
    /\ UNCHANGED split

ReceiverResumes ==
    /\ ReceiverCommand("resume")
    /\ LET command == Head(toReceiver)
           refused == \/ command.ts <= LocalTime + StartLead
                      \/ RefusesResume(receiver, command.interval, command.ts)
       IN  /\ receiver' = IF refused THEN receiver
                          ELSE WithResume(receiver, command.interval, command.ts)
           /\ split' = (split \/ refused)

ReceiverStops ==
    /\ ReceiverCommand("stop")
    /\ receiver' = Stopped(receiver)
    /\ UNCHANGED split

(* A datagram is stamped with the local time when it arrives and is looked *)
(* at later.                                                               *)
Arrive(dg) ==
    /\ receiver.active
    /\ inbox = <<>>
    /\ inbox' = <<[dg |-> dg, recv |-> LocalTime]>>
    /\ late' = \E k \in disclosed : k >= dg.interval
    /\ UNCHANGED <<senderVars, manager, toSender, toReceiver, skew, receiver, unsafe,
                   network, split, failed,
                   pauses>>

Process ==
    /\ inbox # <<>>
    /\ LET dg == Head(inbox).dg
       IN  /\ receiver' = Ticked(Processed(receiver, dg, "genuine", Head(inbox).recv),
                                 LocalTime)
           /\ unsafe' = IF /\ dg.packet # 0 /\ late
                           /\ receiver'.baseline # receiver.baseline
                           /\ receiver.baseline[dg.packet] = NoPacket
                           /\ receiver'.baseline[dg.packet] # NoPacket
                        THEN unsafe \cup {dg.packet} ELSE unsafe
    /\ inbox' = <<>> /\ late' = FALSE
    /\ UNCHANGED <<senderVars, manager, toSender, toReceiver, skew, network, split,
                   failed, pauses>>

Timeout ==
    /\ Expired(receiver, LocalTime)
    /\ receiver' = TimedOut(receiver)
    /\ UNCHANGED <<senderVars, manager, toSender, toReceiver, skew, inbox, late,
                   unsafe, network, split, failed,
                   pauses>>

Tick ==
    /\ now < MaxTime
    /\ Sender!Tick
    /\ UNCHANGED <<manager, toSender, toReceiver, skew, receiverVars, network, split,
                   failed, pauses>>

Next ==
    \/ StartRound
    \/ \E up \in SUBSET Nodes :
        PauseRound(up) \/ ResumeRound(up) \/ StopRound(up) \/ StartFails(up)
    \/ SenderStarts \/ SenderPauses \/ SenderMissesPause \/ SenderResumes
    \/ SenderStops \/ SenderSends \/ SenderAdvances
    \/ ReceiverStarts \/ ReceiverPauses \/ ReceiverResumes \/ ReceiverStops
    \/ (\E dg \in network : Arrive(dg)) \/ Process \/ Timeout
    \/ Tick

Spec == Init /\ [][Next]_vars
-----------------------------------------------------------------------------
(* The security condition of TESLA: whatever the receiver stores arrived    *)
(* before the sender had disclosed its key (bIsPacketTimeSafe).             *)
StoredBeforeDisclosure == unsafe = {}

(* It holds as long as sender and receiver agree on the pauses: the sender  *)
(* carried out every pause it was sent, the receiver took every resume, and *)
(* no command is still on its way.                                          *)
Agreed == ~split /\ toSender = <<>> /\ toReceiver = <<>>
SafeWhileAgreed == Agreed => StoredBeforeDisclosure

(* A key that has been learned has settled every packet of its interval:    *)
(* nothing that could still be verified is left unverified                  *)
(* (setVerifiedIntervals: an interval is verified once).                    *)
NothingPendingBehindKey ==
    Agreed => \A p \in Slots(receiver) :
        receiver.baseline[p] # NoPacket /\ receiver.baseline[p].status = "Pending"
            => IntervalOfPacket(p) \notin receiver.keys
=============================================================================
