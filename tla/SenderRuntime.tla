---------------------------- MODULE SenderRuntime ----------------------------
(***************************************************************************)
(* AuthenticationSenderRuntime: one worker thread transmits the prepared   *)
(* datagrams of a round on an absolute schedule while control threads      *)
(* start, pause, resume, stop and reconfigure it.                          *)
(*                                                                         *)
(* The m_ members guarded by m_mtxState are the first group of variables.  *)
(* Every critical section of m_mtxState is one action, so the model keeps  *)
(* each point where another thread can run between two of them.  start,    *)
(* stop, configure and resetConfiguration have one caller at a time (ctl); *)
(* requestPause, resume and the fault calls may come at any moment.        *)
(* A call that throws changes nothing and has no action, except where      *)
(* something already happened before the exception (RejectApply).          *)
(*                                                                         *)
(* Time is a tick counter that both the wall and the steady clock follow.  *)
(* Nothing forces the worker to run before the next tick, so it may be     *)
(* late by any amount.                                                     *)
(***************************************************************************)
EXTENDS AuthenticationRound

CONSTANTS
    TotalPacketCount, \* data packets of the round
    StartLead,      \* preparation time start and resume demand (100 ms)
    StartLeads,     \* distances from now of the start timestamps tried
    PauseLeads,     \* distances from now of the pause timestamps tried
    ResumeLeads,    \* distances from now of the resume timestamps tried
    FaultDelays,    \* extra delays a fault policy may ask for
    Calls,          \* lifecycle calls made: start, stop, configure, reset
    WordModulus,    \* 2^32: interval differences are uint32
    MaxRuns,        \* bound: calls of start that are accepted
    MaxPauses,      \* bound: calls of requestPause accepted in a run
    MaxTime         \* bound: last tick

ASSUME SenderAssumption ==
    /\ TotalPacketCount \in Nat \ {0}
    /\ StartLead \in Nat /\ WordModulus \in Nat \ {0}
    /\ Calls \subseteq {"start", "stop", "configure", "reset"}
    /\ StartLeads \subseteq Nat /\ PauseLeads \subseteq Nat
    /\ ResumeLeads \subseteq Nat /\ FaultDelays \subseteq Nat
    /\ MaxRuns \in Nat /\ MaxPauses \in Nat /\ MaxTime \in Nat

VARIABLES
    now,             \* the clock
    (* members of Impl guarded by m_mtxState *)
    configured,      \* m_bConfigured, with context and workload present
    fault,           \* m_optFaultDetails.has_value()
    running,         \* m_bRunning
    paused,          \* m_bPaused
    stopRequested,   \* m_bStopRequested
    run,             \* m_strRoundId as the serial number of the start call
    startTs,         \* m_u64StartTimestampMilliseconds
    current,         \* m_u32CurrentInterval
    pauseAfter,      \* m_optPauseAfterInterval, 0 when empty
    pauseTs,         \* m_u64PauseTimestampMilliseconds
    resumeInterval,  \* m_optResumeInterval, 0 when empty
    resumeTs,        \* m_u64ResumeTimestampMilliseconds
    sent,            \* m_u32SentDataPacketCount
    (* the worker thread *)
    pc, interval, index, segStart, segFirst, waitTs, delay, overrun,
    (* the control call in progress *)
    ctl,
    (* what leaves the runtime *)
    tx,              \* the datagram handed to the socket last, with its run
    disclosed,       \* keys transmitted in the current run
    chain,           \* of the configured chain: its first run, and the keys
                     \* transmitted in all of its runs
    results,         \* results[r]: what the result handler got for run r
    (* history *)
    boundary,        \* the pause accepted last and not resumed
    pauses,          \* pauses accepted in this run (bounds the model)
    silenced         \* runs cut short by a call that reports no result

members == <<configured, fault, running, paused, stopRequested, run, startTs,
             current, pauseAfter, pauseTs, resumeInterval, resumeTs, sent>>
worker  == <<pc, interval, index, segStart, segFirst, waitTs, delay, overrun>>
output  == <<tx, disclosed, chain, results>>
history == <<boundary, pauses, silenced>>
vars    == <<now, members, worker, ctl, output, history>>

DataIntervals == 1 .. DataIntervalCount(TotalPacketCount)
LastInterval == LastLogicalInterval(TotalPacketCount)

NoBoundary == [after |-> 0, ahead |-> FALSE, clear |-> FALSE, resuming |-> FALSE]
NoDatagram == [interval |-> 0, packet |-> 0, key |-> 0]
Idle == [op |-> "none", step |-> "idle", was |-> FALSE]

(* A chain that no round has used, configured after the runs so far. *)
NewChain(runs) == [first |-> runs + 1, keys |-> {}]

(* Defect: a worker that waits for the resume misses the stop. *)
PauseSleepsOn == {"waitStart", "waitInterval", "waitSend", "waitDelay",
                  "waitPause", "waitResume"}
Waiting == {"waitStart", "waitInterval", "waitSend", "waitDelay",
            "waitPause", "paused", "waitResume"}

Init ==
    /\ now = 0
    /\ configured = FALSE /\ fault = FALSE /\ running = FALSE
    /\ paused = FALSE /\ stopRequested = FALSE
    /\ run = 0 /\ startTs = 0 /\ current = 0
    /\ pauseAfter = 0 /\ pauseTs = 0 /\ resumeInterval = 0 /\ resumeTs = 0
    /\ sent = 0
    /\ pc = "off"
    /\ interval = 1 /\ index = 1 /\ segStart = 0 /\ segFirst = 1
    /\ waitTs = 0 /\ delay = 0 /\ overrun = FALSE
    /\ ctl = Idle
    /\ tx = [run |-> 0, dg |-> NoDatagram]
    /\ disclosed = {} /\ chain = NewChain(0)
    /\ results = [r \in 1 .. MaxRuns |-> <<>>]
    /\ boundary = NoBoundary /\ pauses = 0 /\ silenced = {}

(* AuthenticationRuntimeResult as emitResult fills it in. *)
Result(status) == [status |-> status, sent |-> sent]

EmitResult(status) ==
    results' = [results EXCEPT ![run] = Append(@, Result(status))]
-----------------------------------------------------------------------------
(* stop(bReportResult), and the stop(false) that start, configure and      *)
(* resetConfiguration begin with: raise the flag, join the worker, report  *)
(* if the round was running when the flag was raised, clear the flags.     *)

(* Defect: the flag is read after the join. *)
StopReportReadAfterJoin == ctl.op = "stop" /\ running

(* Only a caller that asked for it, and that found the round running when   *)
(* it raised the flag, reports the stop.                                   *)
StopReports == ctl.op = "stop" /\ ctl.was

Joinable == pc \in {"off", "done"}

StopRequest(op) ==
    /\ ctl = Idle
    /\ op = "start" => run < MaxRuns
    /\ ctl' = [op |-> op, step |-> "join", was |-> running]
    /\ stopRequested' = TRUE
    /\ silenced' = IF running /\ op # "stop" THEN silenced \cup {run} ELSE silenced
    /\ UNCHANGED <<now, configured, fault, running, paused, run, startTs,
                   current, pauseAfter, pauseTs, resumeInterval, resumeTs,
                   sent, worker, output, boundary, pauses>>

Join ==
    /\ ctl.step = "join"
    /\ Joinable
    /\ pc' = IF pc = "done" THEN "off" ELSE pc
    /\ ctl' = [ctl EXCEPT !.step = IF StopReports THEN "report" ELSE "clear"]
    /\ UNCHANGED <<now, members, interval, index, segStart, segFirst, waitTs,
                   delay, overrun, output, history>>

ReportStopped ==
    /\ ctl.step = "report"
    /\ EmitResult("Stopped")
    /\ ctl' = [ctl EXCEPT !.step = "clear"]
    /\ UNCHANGED <<now, members, worker, tx, disclosed, chain, history>>

ClearFlags ==
    /\ ctl.step = "clear"
    /\ running' = FALSE
    /\ paused' = FALSE
    /\ ctl' = IF ctl.op = "stop" THEN Idle ELSE [ctl EXCEPT !.step = "apply"]
    /\ UNCHANGED <<now, configured, fault, stopRequested, run, startTs, current,
                   pauseAfter, pauseTs, resumeInterval, resumeTs, sent, worker,
                   output, history>>

(* A new sender context brings a new key chain; a new payload for the       *)
(* context the runtime already has keeps the chain.                        *)
ApplyConfigure ==
    /\ ctl.step = "apply" /\ ctl.op = "configure"
    /\ \/ chain' = NewChain(run)
       \/ configured /\ UNCHANGED chain
    /\ configured' = TRUE
    /\ running' = FALSE
    /\ paused' = FALSE
    /\ ctl' = Idle
    /\ UNCHANGED <<now, fault, stopRequested, run, startTs, current, pauseAfter,
                   pauseTs, resumeInterval, resumeTs, sent, worker, tx, disclosed,
                   results, history>>

ApplyReset ==
    /\ ctl.step = "apply" /\ ctl.op = "reset"
    /\ configured' = FALSE
    /\ fault' = FALSE
    /\ running' = FALSE
    /\ paused' = FALSE
    /\ ctl' = Idle
    /\ UNCHANGED <<now, stopRequested, run, startTs, current, pauseAfter, pauseTs,
                   resumeInterval, resumeTs, sent, worker, output, history>>

(* The second half of start: validate, initialise the round, spawn run().   *)
(* The chain stays configured, so a start without configure uses it again. *)
ApplyStart ==
    /\ ctl.step = "apply" /\ ctl.op = "start"
    /\ configured
    /\ \E lead \in StartLeads :
        /\ now + lead > now + StartLead
        /\ startTs' = now + lead
    /\ run' = run + 1
    /\ stopRequested' = FALSE
    /\ running' = TRUE
    /\ paused' = FALSE
    /\ pauseAfter' = 0
    /\ resumeInterval' = 0
    /\ current' = 0
    /\ sent' = 0
    /\ pc' = "waitStart"
    /\ ctl' = Idle
    /\ disclosed' = {}
    /\ boundary' = NoBoundary
    /\ pauses' = 0
    /\ UNCHANGED <<now, configured, fault, pauseTs, resumeTs, interval, index,
                   segStart, segFirst, waitTs, delay, overrun, tx, chain,
                   results, silenced>>

(* The validation throws after the old round was already stopped. *)
RejectApply ==
    /\ ctl.step = "apply" /\ ctl.op \in {"start", "configure"}
    /\ ctl' = Idle
    /\ UNCHANGED <<now, members, worker, output, history>>

ConfigureFault ==
    /\ ~running /\ configured
    /\ fault' = TRUE
    /\ UNCHANGED <<now, configured, running, paused, stopRequested, run, startTs,
                   current, pauseAfter, pauseTs, resumeInterval, resumeTs, sent,
                   worker, ctl, output, history>>

ClearFault ==
    /\ ~running
    /\ fault' = FALSE
    /\ UNCHANGED <<now, configured, running, paused, stopRequested, run, startTs,
                   current, pauseAfter, pauseTs, resumeInterval, resumeTs, sent,
                   worker, ctl, output, history>>

(* requestPause.  boundary records whether the pause was scheduled for an   *)
(* interval the worker had not begun (ahead), with no resume outstanding    *)
(* (clear), or while the worker waited for the time of one (resuming).      *)
RequestPause(k, lead) ==
    /\ running
    /\ pauses < MaxPauses
    /\ k # 0 /\ k >= current
    /\ lead > 0
    /\ k <= LastInterval
    /\ pauseAfter' = k
    /\ pauseTs' = now + lead
    /\ boundary' = [after |-> k, ahead |-> k > current,
                    clear |-> resumeInterval = 0,
                    resuming |-> pc = "waitResume"]
    /\ pauses' = pauses + 1
    /\ UNCHANGED <<now, configured, fault, running, paused, stopRequested, run,
                   startTs, current, resumeInterval, resumeTs, sent, worker,
                   ctl, output, silenced>>

Resume(r, lead) ==
    /\ running
    /\ pauseAfter # 0
    /\ r = pauseAfter + 1
    /\ lead > StartLead
    /\ now + lead > pauseTs
    /\ resumeInterval' = r
    /\ resumeTs' = now + lead
    /\ boundary' = NoBoundary
    /\ UNCHANGED <<now, configured, fault, running, paused, stopRequested, run,
                   startTs, current, pauseAfter, pauseTs, sent, worker, ctl,
                   output, pauses, silenced>>
-----------------------------------------------------------------------------
(* The worker: run().                                                      *)

(* u32IntervalIndex - u32SegmentFirstInterval in uint32 arithmetic. *)
IntervalsSince(first, i) == IF i >= first THEN i - first ELSE i + WordModulus - first

IntervalStart == segStart + IntervalLength * IntervalsSince(segFirst, interval)

PacketGap == IF DatagramCount(TotalPacketCount, interval) > 1
             THEN IntervalLength \div DatagramCount(TotalPacketCount, interval) ELSE 0

SendTarget == IntervalStart + PacketGap * (index - 1)

(* The wait predicates return false once a stop was requested. *)
WaitInterrupted ==
    /\ pc \in Waiting
    /\ stopRequested
    /\ pc' = IF pc = "waitStart" THEN "finish" ELSE "tail"
    /\ UNCHANGED <<now, members, interval, index, segStart, segFirst, waitTs,
                   delay, overrun, ctl, output, history>>

StartReached ==
    /\ pc = "waitStart" /\ ~stopRequested
    /\ now >= startTs
    /\ segStart' = now
    /\ pc' = "head"
    /\ UNCHANGED <<now, members, interval, index, segFirst, waitTs, delay,
                   overrun, ctl, output, history>>

(* The loop head publishes the interval it is about to wait for. *)
BeginInterval ==
    /\ pc = "head"
    /\ IF interval > LastInterval \/ stopRequested
       THEN /\ pc' = "tail"
            /\ UNCHANGED current
       ELSE /\ pc' = "waitInterval"
            /\ current' = interval
    /\ UNCHANGED <<now, configured, fault, running, paused, stopRequested, run,
                   startTs, pauseAfter, pauseTs, resumeInterval, resumeTs, sent,
                   interval, index, segStart, segFirst, waitTs, delay, overrun,
                   ctl, output, history>>

IntervalReached ==
    /\ pc = "waitInterval" /\ ~stopRequested
    /\ now >= IntervalStart
    /\ index' = 1 /\ delay' = 0
    /\ pc' = "waitSend"
    /\ UNCHANGED <<now, members, interval, segStart, segFirst, waitTs, overrun,
                   ctl, output, history>>

NextDatagram ==
    IF index < DatagramCount(TotalPacketCount, interval)
    THEN index' = index + 1 /\ pc' = "waitSend"
    ELSE index' = index /\ pc' = "intervalDone"

(* The fault policy drops the datagram: no deadline check, not counted. *)
DropDatagram ==
    /\ pc = "waitSend" /\ ~stopRequested
    /\ fault
    /\ now >= SendTarget
    /\ NextDatagram
    /\ UNCHANGED <<now, members, interval, segStart, segFirst, waitTs, delay,
                   overrun, ctl, output, history>>

DelayDatagram(ticks) ==
    /\ pc = "waitSend" /\ ~stopRequested
    /\ fault
    /\ now >= SendTarget
    /\ ticks > 0
    /\ delay' = ticks
    /\ pc' = "waitDelay"
    /\ UNCHANGED <<now, members, interval, index, segStart, segFirst, waitTs,
                   overrun, ctl, output, history>>

MayTransmit ==
    /\ pc \in {"waitSend", "waitDelay"} /\ ~stopRequested
    /\ now >= SendTarget + delay

KeysOf(dg) == IF dg.key # 0 THEN {dg.key} ELSE {}

Transmit ==
    /\ MayTransmit
    /\ LET dg == Datagram(TotalPacketCount, interval, index)
       IN  /\ tx' = [run |-> run, dg |-> dg]
           /\ disclosed' = disclosed \cup KeysOf(dg)
           /\ chain' = [chain EXCEPT !.keys = @ \cup KeysOf(dg)]
    /\ pc' = "afterSend"
    /\ UNCHANGED <<now, members, interval, index, segStart, segFirst, waitTs,
                   delay, overrun, ctl, results, history>>

(* The socket refuses the datagram, which counts as an overrun. *)
TransmitFails ==
    /\ MayTransmit
    /\ overrun' = TRUE
    /\ pc' = "tail"
    /\ UNCHANGED <<now, members, interval, index, segStart, segFirst, waitTs,
                   delay, ctl, output, history>>

(* The deadline is read after the send returned. *)
AfterSend ==
    /\ pc = "afterSend"
    /\ IF now >= IntervalStart + IntervalLength + delay
       THEN /\ overrun' = TRUE
            /\ pc' = "tail"
            /\ UNCHANGED <<index, sent, delay>>
       ELSE /\ sent' = IF index <= DataPacketCount(TotalPacketCount, interval)
                       THEN sent + 1 ELSE sent
            /\ delay' = 0
            /\ NextDatagram
            /\ UNCHANGED overrun
    /\ UNCHANGED <<now, configured, fault, running, paused, stopRequested, run,
                   startTs, current, pauseAfter, pauseTs, resumeInterval,
                   resumeTs, interval, segStart, segFirst, waitTs, ctl,
                   output, history>>

IntervalDone ==
    /\ pc = "intervalDone"
    /\ pc' = IF stopRequested THEN "tail" ELSE "pauseCheck"
    /\ UNCHANGED <<now, members, interval, index, segStart, segFirst, waitTs,
                   delay, overrun, ctl, output, history>>

(* Defect: the pause is noticed one interval late. *)
PauseDueOneLate == pauseAfter # 0 /\ pauseAfter + 1 = interval
PauseDue == pauseAfter = interval

PauseCheck ==
    /\ pc = "pauseCheck"
    /\ IF PauseDue
       THEN /\ waitTs' = pauseTs
            /\ pc' = "waitPause"
            /\ UNCHANGED interval
       ELSE /\ interval' = interval + 1
            /\ pc' = "head"
            /\ UNCHANGED waitTs
    /\ UNCHANGED <<now, members, index, segStart, segFirst, delay, overrun, ctl,
                   output, history>>

EnterPause ==
    /\ pc = "waitPause" /\ ~stopRequested
    /\ now >= waitTs
    /\ paused' = TRUE
    /\ pc' = "paused"
    /\ UNCHANGED <<now, configured, fault, running, stopRequested, run, startTs,
                   current, pauseAfter, pauseTs, resumeInterval, resumeTs, sent,
                   interval, index, segStart, segFirst, waitTs, delay, overrun,
                   ctl, output, history>>

(* Defect: the new segment begins one interval late. *)
SegmentFirstSkipsOne == resumeInterval + 1
SegmentFirst == resumeInterval

LeavePause ==
    /\ pc = "paused" /\ ~stopRequested
    /\ resumeInterval # 0
    /\ segFirst' = SegmentFirst
    /\ waitTs' = resumeTs
    /\ paused' = FALSE
    /\ pc' = "waitResume"
    /\ UNCHANGED <<now, configured, fault, running, stopRequested, run, startTs,
                   current, pauseAfter, pauseTs, resumeInterval, resumeTs, sent,
                   interval, index, segStart, delay, overrun, ctl, output, history>>

(* The new segment starts; both pause and resume requests are erased. *)
ResumeReached ==
    /\ pc = "waitResume" /\ ~stopRequested
    /\ now >= waitTs
    /\ segStart' = now /\ waitTs' = 0
    /\ pauseAfter' = 0
    /\ resumeInterval' = 0
    /\ interval' = interval + 1
    /\ pc' = "head"
    /\ UNCHANGED <<now, configured, fault, running, paused, stopRequested, run,
                   startTs, current, pauseTs, resumeTs, sent, index, segFirst,
                   delay, overrun, ctl, output, history>>

(* Defect: a stopped round counts as completed. *)
OutcomeIgnoresStop == IF overrun THEN "reportOverrun" ELSE "reportCompleted"

(* After the loop the worker reads the stop flag once more and reports. *)
Outcome == CASE overrun -> "reportOverrun"
             [] ~overrun /\ ~stopRequested -> "reportCompleted"
             [] OTHER -> "finish"

LoopEnded ==
    /\ pc = "tail"
    /\ pc' = Outcome
    /\ UNCHANGED <<now, members, interval, index, segStart, segFirst, waitTs,
                   delay, overrun, ctl, output, history>>

ReportOutcome ==
    /\ pc \in {"reportOverrun", "reportCompleted"}
    /\ EmitResult(IF pc = "reportOverrun" THEN "InvalidSchedulingOverrun"
                  ELSE "Completed")
    /\ pc' = "finish"
    /\ UNCHANGED <<now, members, interval, index, segStart, segFirst, waitTs,
                   delay, overrun, ctl, tx, disclosed, chain, history>>

(* The thread function returns, and its locals with it. *)
FinishWithoutDuplicateResult ==
    /\ pc = "finish"
    /\ running' = FALSE
    /\ paused' = FALSE
    /\ pc' = "done"
    /\ interval' = 1 /\ index' = 1 /\ segStart' = 0 /\ segFirst' = 1
    /\ waitTs' = 0 /\ delay' = 0 /\ overrun' = FALSE
    /\ UNCHANGED <<now, configured, fault, stopRequested, run, startTs, current,
                   pauseAfter, pauseTs, resumeInterval, resumeTs, sent, ctl,
                   output, history>>
-----------------------------------------------------------------------------
Tick ==
    /\ now < MaxTime
    /\ now' = now + 1
    /\ UNCHANGED <<members, worker, ctl, output, history>>

Worker ==
    \/ WaitInterrupted \/ StartReached \/ BeginInterval \/ IntervalReached
    \/ DropDatagram \/ (\E ticks \in FaultDelays : DelayDatagram(ticks))
    \/ Transmit \/ TransmitFails \/ AfterSend \/ IntervalDone \/ PauseCheck
    \/ EnterPause \/ LeavePause \/ ResumeReached
    \/ LoopEnded \/ ReportOutcome \/ FinishWithoutDuplicateResult

ControlCall ==
    \/ \E op \in Calls : StopRequest(op)
    \/ ConfigureFault \/ ClearFault
    \/ \E k \in 1 .. LastInterval, lead \in PauseLeads : RequestPause(k, lead)
    \/ \E r \in 2 .. LastInterval + 1, lead \in ResumeLeads : Resume(r, lead)

(* The rest of a call that has begun. *)
ControlProgress ==
    \/ Join \/ ReportStopped \/ ClearFlags
    \/ ApplyConfigure \/ ApplyReset \/ ApplyStart \/ RejectApply

Next == Tick \/ Worker \/ ControlCall \/ ControlProgress

Spec == Init /\ [][Next]_vars

(* Threads are scheduled and time passes; nobody has to call anything. *)
Fairness == WF_vars(Tick) /\ WF_vars(Worker) /\ WF_vars(ControlProgress)
FairSpec == Spec /\ Fairness
-----------------------------------------------------------------------------
MembersType ==
    /\ configured \in BOOLEAN /\ fault \in BOOLEAN /\ running \in BOOLEAN
    /\ paused \in BOOLEAN /\ stopRequested \in BOOLEAN
    /\ run \in 0 .. MaxRuns /\ startTs \in Nat /\ current \in 0 .. LastInterval
    /\ pauseAfter \in 0 .. LastInterval /\ pauseTs \in Nat
    /\ resumeInterval \in 0 .. LastInterval + 1 /\ resumeTs \in Nat
    /\ sent \in Nat

WorkerType ==
    /\ pc \in Waiting \cup {"off", "head", "afterSend", "intervalDone",
                            "pauseCheck", "tail", "reportOverrun",
                            "reportCompleted", "finish", "done"}
    /\ interval \in 0 .. LastInterval + 1
    /\ index \in Nat /\ segStart \in Nat /\ waitTs \in Nat /\ delay \in Nat
    /\ segFirst \in 0 .. LastInterval + 1
    /\ overrun \in BOOLEAN

ControlType ==
    ctl \in [ op : {"none", "start", "stop", "configure", "reset"},
             step : {"idle", "join", "report", "clear", "apply"},
             was : BOOLEAN ]

DatagramType == [ interval : 0 .. LastInterval, packet : 0 .. TotalPacketCount,
                  key : {0} \cup DataIntervals ]

ResultType == [ status : {"Stopped", "Completed", "InvalidSchedulingOverrun"},
                sent : Nat ]

OutputType ==
    /\ tx \in [ run : 0 .. MaxRuns, dg : DatagramType ]
    /\ disclosed \subseteq DataIntervals
    /\ chain \in [ first : Nat, keys : SUBSET DataIntervals ]
    /\ results \in [ 1 .. MaxRuns -> Seq(ResultType) ]

HistoryType ==
    /\ boundary \in [ after : 0 .. LastInterval, ahead : BOOLEAN, clear : BOOLEAN,
                      resuming : BOOLEAN ]
    /\ pauses \in Nat
    /\ silenced \subseteq 1 .. MaxRuns

(* Type correctness: every member, local and output of the runtime stays    *)
(* in its range; in particular only keys of data intervals are transmitted *)
(* (AuthenticationSenderRuntime::Impl, run).                               *)
TypeOK ==
    /\ now \in Nat
    /\ MembersType /\ WorkerType /\ ControlType /\ OutputType /\ HistoryType

(* The TESLA sender rule, in the first round of a chain: no data packet     *)
(* leaves the node once the key that authenticates it has left it, whatever *)
(* pauses, faults, stops and earlier rounds of other chains there were      *)
(* (run, optDisclosureForPacket, configure).  A second start on the same    *)
(* chain, which start does not refuse, is outside of it.                    *)
NoDataAfterKey ==
    run = chain.first /\ tx.run = run /\ tx.dg.packet # 0
        => tx.dg.interval \notin chain.keys

HeldBack == tx.run = run => tx.dg.interval <= boundary.after

(* A pause scheduled ahead of the worker, with no resume outstanding, holds *)
(* back every later interval until it is resumed (requestPause, run).       *)
EarlyPauseHonoured ==
    boundary.after # 0 /\ boundary.ahead /\ boundary.clear => HeldBack

(* A pause scheduled ahead of the worker holds back every later interval    *)
(* also when it is accepted while the worker, released from the previous    *)
(* pause, waits for the time to go on (the resets at the end of the pause   *)
(* block of run).                                                           *)
PauseAheadHonoured ==
    boundary.after # 0 /\ boundary.ahead /\ boundary.resuming => HeldBack

(* A round that is over, and that no call silenced, has reported a result   *)
(* (stop, run, finishWithoutDuplicateResult).                               *)
EveryRoundReported ==
    ctl = Idle /\ ~running =>
        \A r \in 1 .. run : r \in silenced \/ results[r] # <<>>

(* What a result says is true and final: no datagram of the round leaves    *)
(* the node after it, Completed without a fault plan means every data       *)
(* packet was sent within its deadline, and the only second result is that  *)
(* of a stop whose look at the running flag came before the worker's own    *)
(* report (stop, finishWithoutDuplicateResult).                             *)
TruthfulStep ==
    /\ tx' # tx => results[run] = <<>>
    /\ \A r \in 1 .. MaxRuns :
          LET n == Len(results'[r])
              new == results'[r][n]
          IN results'[r] # results[r] =>
                /\ new.status = "Completed" /\ ~fault => new.sent = TotalPacketCount
                /\ n > 1 => /\ n = 2 /\ new.status = "Stopped"
                            /\ results[r][1].status # "Stopped"

(* The worker is always stoppable: a call that joins it returns.            *)
AlwaysStoppable == ctl.step = "join" ~> ctl.step # "join"

(* A round that is not left paused comes to its end by itself, also after   *)
(* it was paused and resumed.                                               *)
RoundEnds == running ~> (~running \/ (paused /\ resumeInterval = 0))
=============================================================================
