------------------------ MODULE SenderRuntimeProofs ------------------------
(***************************************************************************)
(* Proofs about AuthenticationSenderRuntime, for every round and every     *)
(* interleaving of its threads: its types and the rule of the key          *)
(* (SenderInv), its promises to the callers (PauseInv, ReportInv,          *)
(* CountInv and ResultInv), and that it implements SenderSchedule          *)
(* (TimelineInv and FollowInv).                                            *)
(***************************************************************************)
EXTENDS MCSenderRuntime, AuthenticationRoundProofs

(* The worker is inside the loop over the intervals. *)
InInterval == {"waitInterval", "waitSend", "waitDelay", "afterSend",
               "intervalDone", "pauseCheck", "waitPause", "paused", "waitResume"}

(* The worker is inside the loop over the datagrams of an interval. *)
InDatagram == {"waitSend", "waitDelay", "afterSend"}

WorkerInv ==
    /\ interval # 0
    /\ pc \in InInterval => interval <= LastInterval
    /\ pc \in InDatagram => index \in 1 .. DatagramCount(TotalPacketCount, interval)
    /\ pc \in {"off", "waitStart", "done"} => interval = 1

ControlInv ==
    /\ ctl.step \in {"report", "clear", "apply"} => pc = "off"
    /\ ctl.op = "start" => run < MaxRuns
    /\ running => run # 0

(* While the worker lives, every key it has sent is DisclosureDelay behind  *)
(* the interval it is working on.                                          *)
DisclosureInv ==
    /\ tx.run <= run
    /\ pc \notin {"off", "done"} =>
           \A k \in disclosed : k + DisclosureDelay <= interval

(* The rule of the key within a round. *)
RoundRule == tx.run = run /\ tx.dg.packet # 0 => tx.dg.interval \notin disclosed

(* A configured chain is first used by the next round; during its first    *)
(* round its keys that were sent are those of the round.                   *)
ChainInv ==
    /\ chain.first <= run + 1
    /\ pc \notin {"off", "done"} => chain.first <= run
    /\ run < chain.first => chain.keys = {}
    /\ run = chain.first => chain.keys = disclosed

SenderInv ==
    TypeOK /\ WorkerInv /\ ControlInv /\ DisclosureInv /\ RoundRule /\ ChainInv

(* Interval numbers of a round are natural numbers. *)
LEMMA LastIntervalType ==
    /\ TotalPacketCount \in Nat \ {0}
    /\ LastInterval \in Nat \ {0}
    /\ 0 \in 0 .. LastInterval /\ {0, 1} \subseteq 0 .. LastInterval + 1
    /\ LastInterval = LastLogicalInterval(TotalPacketCount)
    /\ DataIntervals = 1 .. DataIntervalCount(TotalPacketCount)
    /\ DisclosureDelay \in Nat \ {0}
    /\ IntervalLength \in Nat
BY IntervalCounts, SenderAssumption, RoundAssumption DEF LastInterval,
   DataIntervals

(* What the worker hands to the socket: a datagram of the round whose key,  *)
(* if it discloses one, is DisclosureDelay behind the interval it is in.   *)
LEMMA TransmittedDatagram ==
    ASSUME TypeOK, WorkerInv, pc \in InDatagram
    PROVE  LET dg == Datagram(TotalPacketCount, interval, index)
           IN  /\ dg \in [ interval : 1 .. LastInterval,
                            packet : 0 .. TotalPacketCount,
                            key : {0} \cup DataIntervals ]
               /\ dg.interval = interval
               /\ dg.key # 0 => dg.key + DisclosureDelay = interval
<1>1. interval \in 1 .. LastInterval
  BY LastIntervalType DEF TypeOK, WorkerType, WorkerInv, InDatagram, InInterval
<1>2. index \in 1 .. DatagramCount(TotalPacketCount, interval)
  BY DEF WorkerInv
<1> QED
  BY <1>1, <1>2, LastIntervalType, DatagramFields

(* Reporting keeps every list of results well typed. *)
LEMMA AppendedResult ==
    ASSUME TypeOK, NEW status \in {"Stopped", "Completed",
    "InvalidSchedulingOverrun"},
           EmitResult(status)
    PROVE  results' \in [ 1 .. MaxRuns -> Seq(ResultType) ]
<1>1. Result(status) \in ResultType
  BY DEF Result, ResultType, TypeOK, MembersType
<1>2. \A s \in Seq(ResultType) : Append(s, Result(status)) \in Seq(ResultType)
  BY <1>1
<1> HIDE DEF Result
<1> QED
  BY <1>2 DEF EmitResult, TypeOK, OutputType

(* Every step preserves type correctness.                                  *)
LEMMA TypeStep ==
    ASSUME SenderInv, [Next]_vars
    PROVE  TypeOK'
<1> USE DEF SenderInv, TypeOK
<1>1. CASE Tick
  <2>1. now' \in Nat /\ MembersType' /\ WorkerType' /\ ControlType' /\
     OutputType' /\ HistoryType'
    BY <1>1 DEF Tick, members, MembersType, worker, WorkerType, ControlType,
       output, OutputType, history, HistoryType
  <2> QED
    BY <2>1
<1>2. CASE WaitInterrupted
  <2>1. WorkerType'
    BY <1>2 DEF WaitInterrupted, WorkerType, Waiting
  <2>2. now' \in Nat /\ MembersType' /\ ControlType' /\ OutputType' /\
     HistoryType'
    BY <1>2 DEF WaitInterrupted, members, MembersType, ControlType, output,
       OutputType, history, HistoryType
  <2> QED
    BY <2>1, <2>2
<1>3. CASE StartReached
  <2>1. WorkerType'
    BY <1>3, LastIntervalType DEF StartReached, WorkerType, Waiting
  <2>2. now' \in Nat /\ MembersType' /\ ControlType' /\ OutputType' /\
     HistoryType'
    BY <1>3 DEF StartReached, members, MembersType, ControlType, output,
       OutputType, history, HistoryType
  <2> QED
    BY <2>1, <2>2
<1>4. CASE BeginInterval
  <2>1. MembersType'
    BY <1>4, LastIntervalType DEF BeginInterval, MembersType, WorkerType,
       WorkerInv
  <2>2. WorkerType'
    BY <1>4 DEF BeginInterval, WorkerType, Waiting
  <2>3. now' \in Nat /\ ControlType' /\ OutputType' /\ HistoryType'
    BY <1>4 DEF BeginInterval, ControlType, output, OutputType, history,
       HistoryType
  <2> QED
    BY <2>1, <2>2, <2>3
<1>5. CASE IntervalReached
  <2>1. WorkerType'
    BY <1>5 DEF IntervalReached, WorkerType, Waiting
  <2>2. now' \in Nat /\ MembersType' /\ ControlType' /\ OutputType' /\
     HistoryType'
    BY <1>5 DEF IntervalReached, members, MembersType, ControlType, output,
       OutputType, history, HistoryType
  <2> QED
    BY <2>1, <2>2
<1>6. CASE DropDatagram
  <2>1. WorkerType'
    BY <1>6 DEF DropDatagram, WorkerType, NextDatagram, Waiting
  <2>2. now' \in Nat /\ MembersType' /\ ControlType' /\ OutputType' /\
     HistoryType'
    BY <1>6 DEF DropDatagram, members, MembersType, ControlType, output,
       OutputType, history, HistoryType
  <2> QED
    BY <2>1, <2>2
<1>7. ASSUME NEW ticks \in FaultDelays, DelayDatagram(ticks) PROVE TypeOK'
  <2>1. WorkerType'
    BY <1>7, SenderAssumption DEF DelayDatagram, WorkerType, Waiting
  <2>2. now' \in Nat /\ MembersType' /\ ControlType' /\ OutputType' /\
     HistoryType'
    BY <1>7 DEF DelayDatagram, members, MembersType, ControlType, output,
       OutputType, history, HistoryType
  <2> QED
    BY <2>1, <2>2
<1>8. CASE Transmit
  <2> DEFINE dg == Datagram(TotalPacketCount, interval, index)
  <2>1. dg \in DatagramType
    <3>1. pc \in InDatagram
      BY <1>8 DEF Transmit, MayTransmit, InDatagram
    <3>2. dg \in [ interval : 1 .. LastInterval, packet : 0 .. TotalPacketCount,
                   key : {0} \cup DataIntervals ]
      BY <3>1, TransmittedDatagram
    <3> HIDE DEF dg
    <3>3. 1 .. LastInterval \subseteq 0 .. LastInterval
      BY LastIntervalType
    <3> QED
      BY <3>2, <3>3 DEF DatagramType
  <2>2. OutputType'
    <3> HIDE DEF dg
    <3>1. /\ tx' = [run |-> run, dg |-> dg]
          /\ disclosed' = disclosed \cup KeysOf(dg)
          /\ chain' = [chain EXCEPT !.keys = @ \cup KeysOf(dg)]
          /\ UNCHANGED results
      BY <1>8 DEF Transmit, dg
    <3>2. KeysOf(dg) \subseteq DataIntervals
      BY <2>1 DEF DatagramType, KeysOf
    <3> QED
      BY <2>1, <3>1, <3>2 DEF OutputType, MembersType
  <2>3. WorkerType'
    BY <1>8 DEF Transmit, WorkerType
  <2>4. now' \in Nat /\ MembersType' /\ ControlType' /\ HistoryType'
    BY <1>8 DEF Transmit, members, history, MembersType, ControlType,
       HistoryType
  <2> QED
    BY <2>2, <2>3, <2>4
<1>9. CASE TransmitFails
  <2>1. WorkerType'
    BY <1>9 DEF TransmitFails, WorkerType, MayTransmit, Waiting
  <2>2. now' \in Nat /\ MembersType' /\ ControlType' /\ OutputType' /\
     HistoryType'
    BY <1>9 DEF TransmitFails, members, MembersType, ControlType, output,
       OutputType, history, HistoryType
  <2> QED
    BY <2>1, <2>2
<1>10. CASE AfterSend
  <2>1. MembersType'
    BY <1>10 DEF AfterSend, MembersType
  <2>2. index' \in Nat /\ delay' \in Nat
    BY <1>10 DEF AfterSend, NextDatagram, WorkerType
  <2>3. WorkerType'
    BY <1>10, <2>2 DEF AfterSend, NextDatagram, WorkerType, Waiting
  <2>4. now' \in Nat /\ ControlType' /\ OutputType' /\ HistoryType'
    BY <1>10 DEF AfterSend, output, history, ControlType, OutputType,
       HistoryType
  <2> QED
    BY <2>1, <2>3, <2>4
<1>11. CASE IntervalDone
  <2>1. WorkerType'
    BY <1>11 DEF IntervalDone, WorkerType, Waiting
  <2>2. now' \in Nat /\ MembersType' /\ ControlType' /\ OutputType' /\
     HistoryType'
    BY <1>11 DEF IntervalDone, members, MembersType, ControlType, output,
       OutputType, history, HistoryType
  <2> QED
    BY <2>1, <2>2
<1>12. CASE PauseCheck
  <2>1. WorkerType'
    BY <1>12, LastIntervalType DEF PauseCheck, WorkerType, WorkerInv,
       InInterval, MembersType, Waiting
  <2>2. now' \in Nat /\ MembersType' /\ ControlType' /\ OutputType' /\
     HistoryType'
    BY <1>12 DEF PauseCheck, members, MembersType, ControlType, output,
       OutputType, history, HistoryType
  <2> QED
    BY <2>1, <2>2
<1>13. CASE EnterPause
  <2>1. MembersType'
    BY <1>13, LastIntervalType DEF EnterPause, MembersType
  <2>2. WorkerType'
    BY <1>13 DEF EnterPause, WorkerType, Waiting
  <2>3. now' \in Nat /\ ControlType' /\ OutputType' /\ HistoryType'
    BY <1>13 DEF EnterPause, ControlType, output, OutputType, history,
       HistoryType
  <2> QED
    BY <2>1, <2>2, <2>3
<1>14. CASE LeavePause
  <2>1. MembersType'
    BY <1>14, LastIntervalType DEF LeavePause, MembersType
  <2>2. WorkerType'
    BY <1>14, LastIntervalType DEF LeavePause, WorkerType, SegmentFirst,
       MembersType, Waiting
  <2>3. now' \in Nat /\ ControlType' /\ OutputType' /\ HistoryType'
    BY <1>14 DEF LeavePause, ControlType, output, OutputType, history,
       HistoryType
  <2> QED
    BY <2>1, <2>2, <2>3
<1>15. CASE ResumeReached
  <2>1. MembersType'
    BY <1>15, LastIntervalType DEF ResumeReached, MembersType
  <2>2. WorkerType'
    BY <1>15, LastIntervalType DEF ResumeReached, WorkerType, WorkerInv,
       InInterval, Waiting
  <2>3. now' \in Nat /\ ControlType' /\ OutputType' /\ HistoryType'
    BY <1>15 DEF ResumeReached, ControlType, output, OutputType, history,
       HistoryType
  <2> QED
    BY <2>1, <2>2, <2>3
<1>16. CASE LoopEnded
  <2>1. WorkerType'
    BY <1>16 DEF LoopEnded, WorkerType, Outcome, Waiting
  <2>2. now' \in Nat /\ MembersType' /\ ControlType' /\ OutputType' /\
     HistoryType'
    BY <1>16 DEF LoopEnded, members, MembersType, ControlType, output,
       OutputType, history, HistoryType
  <2> QED
    BY <2>1, <2>2
<1>17. CASE ReportOutcome
  <2>1. OutputType'
    BY <1>17, AppendedResult DEF ReportOutcome, OutputType
  <2>2. WorkerType'
    BY <1>17 DEF ReportOutcome, WorkerType
  <2>3. now' \in Nat /\ MembersType' /\ ControlType' /\ HistoryType'
    BY <1>17 DEF ReportOutcome, members, history, MembersType, ControlType,
                HistoryType
  <2> QED
    BY <2>1, <2>2, <2>3
<1>18. CASE FinishWithoutDuplicateResult
  <2>1. MembersType'
    BY <1>18, LastIntervalType DEF FinishWithoutDuplicateResult, MembersType
  <2>2. WorkerType'
    BY <1>18, LastIntervalType DEF FinishWithoutDuplicateResult, WorkerType,
       Waiting
  <2>3. now' \in Nat /\ ControlType' /\ OutputType' /\ HistoryType'
    BY <1>18 DEF FinishWithoutDuplicateResult, ControlType, output, OutputType,
       history, HistoryType
  <2> QED
    BY <2>1, <2>2, <2>3
<1>19. ASSUME NEW op \in Calls, StopRequest(op) PROVE TypeOK'
  <2>1. MembersType'
    BY <1>19, LastIntervalType DEF StopRequest, MembersType
  <2>2. ControlType'
    BY <1>19, SenderAssumption DEF StopRequest, ControlType, MembersType
  <2>3. HistoryType'
    BY <1>19, LastIntervalType DEF StopRequest, HistoryType, ControlInv,
       MembersType
  <2>4. now' \in Nat /\ WorkerType' /\ OutputType'
    BY <1>19 DEF StopRequest, worker, WorkerType, output, OutputType
  <2> QED
    BY <2>1, <2>2, <2>3, <2>4
<1>20. CASE ConfigureFault
  <2>1. MembersType'
    BY <1>20, LastIntervalType DEF ConfigureFault, MembersType
  <2>2. now' \in Nat /\ WorkerType' /\ ControlType' /\ OutputType' /\
     HistoryType'
    BY <1>20 DEF ConfigureFault, worker, WorkerType, ControlType, output,
       OutputType, history, HistoryType
  <2> QED
    BY <2>1, <2>2
<1>21. CASE ClearFault
  <2>1. MembersType'
    BY <1>21, LastIntervalType DEF ClearFault, MembersType
  <2>2. now' \in Nat /\ WorkerType' /\ ControlType' /\ OutputType' /\
     HistoryType'
    BY <1>21 DEF ClearFault, worker, WorkerType, ControlType, output,
       OutputType, history, HistoryType
  <2> QED
    BY <2>1, <2>2
<1>22. ASSUME NEW k \in 1 .. LastInterval, NEW lead \in PauseLeads,
   RequestPause(k, lead) PROVE TypeOK'
  <2>1. MembersType'
    BY <1>22, LastIntervalType, SenderAssumption DEF RequestPause, MembersType
  <2>2. HistoryType'
    BY <1>22, LastIntervalType DEF RequestPause, HistoryType
  <2>3. now' \in Nat /\ WorkerType' /\ ControlType' /\ OutputType'
    BY <1>22 DEF RequestPause, worker, WorkerType, ControlType, output,
       OutputType
  <2> QED
    BY <2>1, <2>2, <2>3
<1>23. ASSUME NEW r \in 2 .. LastInterval + 1, NEW lead \in ResumeLeads,
   Resume(r, lead) PROVE TypeOK'
  <2>1. MembersType'
    BY <1>23, LastIntervalType, SenderAssumption DEF Resume, MembersType
  <2>2. HistoryType'
    BY <1>23, LastIntervalType DEF Resume, HistoryType, NoBoundary
  <2>3. now' \in Nat /\ WorkerType' /\ ControlType' /\ OutputType'
    BY <1>23 DEF Resume, worker, WorkerType, ControlType, output, OutputType
  <2> QED
    BY <2>1, <2>2, <2>3
<1>24. CASE Join
  <2>1. WorkerType'
    BY <1>24 DEF Join, WorkerType, Waiting
  <2>2. ControlType'
    BY <1>24 DEF Join, ControlType
  <2>3. now' \in Nat /\ MembersType' /\ OutputType' /\ HistoryType'
    BY <1>24 DEF Join, members, MembersType, output, OutputType, history,
       HistoryType
  <2> QED
    BY <2>1, <2>2, <2>3
<1>25. CASE ReportStopped
  <2>1. OutputType'
    BY <1>25, AppendedResult DEF ReportStopped, OutputType
  <2>2. ControlType'
    BY <1>25 DEF ReportStopped, ControlType
  <2>3. now' \in Nat /\ MembersType' /\ WorkerType' /\ HistoryType'
    BY <1>25 DEF ReportStopped, members, worker, history, MembersType,
       WorkerType,
                HistoryType
  <2> QED
    BY <2>1, <2>2, <2>3
<1>26. CASE ClearFlags
  <2>1. MembersType'
    BY <1>26, LastIntervalType DEF ClearFlags, MembersType
  <2>2. ControlType'
    BY <1>26 DEF ClearFlags, ControlType, Idle
  <2>3. now' \in Nat /\ WorkerType' /\ OutputType' /\ HistoryType'
    BY <1>26 DEF ClearFlags, worker, WorkerType, output, OutputType, history,
       HistoryType
  <2> QED
    BY <2>1, <2>2, <2>3
<1>27. CASE ApplyConfigure
  <2>1. MembersType'
    BY <1>27, LastIntervalType DEF ApplyConfigure, MembersType
  <2>2. ControlType'
    BY <1>27 DEF ApplyConfigure, ControlType, Idle
  <2>3. now' \in Nat /\ WorkerType' /\ HistoryType'
    BY <1>27 DEF ApplyConfigure, worker, WorkerType, history, HistoryType
  <2>4. OutputType'
    <3>1. NewChain(run) \in [ first : Nat, keys : SUBSET DataIntervals ]
      BY DEF NewChain, MembersType
    <3>2. /\ chain' = NewChain(run) \/ chain' = chain
          /\ UNCHANGED <<tx, disclosed, results>>
      BY <1>27 DEF ApplyConfigure
    <3> QED BY <3>1, <3>2 DEF OutputType
  <2> QED
    BY <2>1, <2>2, <2>3, <2>4
<1>28. CASE ApplyReset
  <2>1. MembersType'
    BY <1>28, LastIntervalType DEF ApplyReset, MembersType
  <2>2. ControlType'
    BY <1>28 DEF ApplyReset, ControlType, Idle
  <2>3. now' \in Nat /\ WorkerType' /\ OutputType' /\ HistoryType'
    BY <1>28 DEF ApplyReset, worker, WorkerType, output, OutputType, history,
       HistoryType
  <2> QED
    BY <2>1, <2>2, <2>3
<1>29. CASE ApplyStart
  <2>1. run' \in 0 .. MaxRuns /\ startTs' \in Nat
    BY <1>29, SenderAssumption DEF ApplyStart, MembersType, ControlInv
  <2>2. MembersType'
    BY <1>29, <2>1, LastIntervalType DEF ApplyStart, MembersType
  <2>3. WorkerType' /\ ControlType'
    BY <1>29 DEF ApplyStart, WorkerType, ControlType, Waiting, Idle
  <2>4. now' \in Nat /\ OutputType' /\ HistoryType'
    BY <1>29, LastIntervalType DEF ApplyStart, OutputType, HistoryType,
       NoBoundary
  <2> QED
    BY <2>2, <2>3, <2>4
<1>30. CASE RejectApply
  <2>1. ControlType'
    BY <1>30 DEF RejectApply, ControlType, Idle
  <2>2. now' \in Nat /\ MembersType' /\ WorkerType' /\ OutputType' /\
     HistoryType'
    BY <1>30 DEF RejectApply, members, MembersType, worker, WorkerType, output,
       OutputType, history, HistoryType
  <2> QED
    BY <2>1, <2>2
<1>31. CASE UNCHANGED vars
  BY <1>31 DEF vars, members, worker, output, history, MembersType, WorkerType,
     ControlType, OutputType, HistoryType
<1> QED
  BY <1>1, <1>2, <1>3, <1>4, <1>5, <1>6, <1>7, <1>8, <1>9, <1>10, <1>11, <1>12,
     <1>13, <1>14, <1>15, <1>16, <1>17, <1>18, <1>19, <1>20, <1>21, <1>22,
     <1>23, <1>24, <1>25, <1>26, <1>27, <1>28, <1>29, <1>30, <1>31 DEF Next,
     Worker, ControlCall, ControlProgress

(* Every step keeps what the worker knows at its place in run().           *)
LEMMA WorkerStep ==
    ASSUME SenderInv, [Next]_vars
    PROVE  WorkerInv'
<1> USE DEF SenderInv, TypeOK, WorkerType, WorkerInv, InInterval, InDatagram,
   Waiting
<1>1. CASE Tick
  BY <1>1 DEF Tick, worker
<1>2. CASE WaitInterrupted
  BY <1>2 DEF WaitInterrupted
<1>3. CASE StartReached
  BY <1>3 DEF StartReached
<1>4. CASE BeginInterval
  BY <1>4, LastIntervalType DEF BeginInterval
<1>5. CASE IntervalReached
  <2>1. interval \in 1 .. LastInterval /\ interval' = interval
    BY <1>5 DEF IntervalReached
  <2>2. DatagramCount(TotalPacketCount, interval) \in Nat \ {0}
    BY <2>1, LastIntervalType, DatagramCounts
  <2> QED
    BY <1>5, <2>1, <2>2 DEF IntervalReached
<1>6. CASE DropDatagram
  <2>1. interval \in 1 .. LastInterval /\ interval' = interval
    BY <1>6 DEF DropDatagram
  <2>2. DatagramCount(TotalPacketCount, interval) \in Nat \ {0}
    BY <2>1, LastIntervalType, DatagramCounts
  <2> QED
    BY <1>6, <2>1, <2>2 DEF DropDatagram, NextDatagram
<1>7. ASSUME NEW ticks \in FaultDelays, DelayDatagram(ticks) PROVE WorkerInv'
  BY <1>7 DEF DelayDatagram
<1>8. CASE Transmit
  BY <1>8 DEF Transmit, MayTransmit
<1>9. CASE TransmitFails
  BY <1>9 DEF TransmitFails, MayTransmit
<1>10. CASE AfterSend
  <2>1. interval \in 1 .. LastInterval /\ interval' = interval
    BY <1>10 DEF AfterSend
  <2>2. DatagramCount(TotalPacketCount, interval) \in Nat \ {0}
    BY <2>1, LastIntervalType, DatagramCounts
  <2> QED
    BY <1>10, <2>1, <2>2 DEF AfterSend, NextDatagram
<1>11. CASE IntervalDone
  BY <1>11 DEF IntervalDone
<1>12. CASE PauseCheck
  BY <1>12, LastIntervalType DEF PauseCheck
<1>13. CASE EnterPause
  BY <1>13 DEF EnterPause
<1>14. CASE LeavePause
  BY <1>14 DEF LeavePause
<1>15. CASE ResumeReached
  BY <1>15, LastIntervalType DEF ResumeReached
<1>16. CASE LoopEnded
  BY <1>16 DEF LoopEnded, Outcome
<1>17. CASE ReportOutcome
  BY <1>17 DEF ReportOutcome
<1>18. CASE FinishWithoutDuplicateResult
  BY <1>18 DEF FinishWithoutDuplicateResult
<1>19. ASSUME NEW op \in Calls, StopRequest(op) PROVE WorkerInv'
  BY <1>19 DEF StopRequest, worker
<1>20. ASSUME NEW k \in 1 .. LastInterval, NEW lead \in PauseLeads,
             RequestPause(k, lead)
      PROVE  WorkerInv'
  BY <1>20 DEF RequestPause, worker
<1>21. ASSUME NEW r \in 2 .. LastInterval + 1, NEW lead \in ResumeLeads,
             Resume(r, lead)
      PROVE  WorkerInv'
  BY <1>21 DEF Resume, worker
<1>22. CASE Join
  BY <1>22 DEF Join, Joinable
<1>23. CASE ConfigureFault \/ ClearFault \/ ReportStopped \/ ClearFlags
         \/ ApplyConfigure \/ ApplyReset \/ RejectApply
  BY <1>23 DEF ConfigureFault, ClearFault, ReportStopped, ClearFlags,
     ApplyConfigure, ApplyReset, RejectApply, worker
<1>24. CASE ApplyStart
  <2>1. pc = "off"
    BY <1>24 DEF ApplyStart, ControlInv
  <2> QED
    BY <1>24, <2>1 DEF ApplyStart
<1>25. CASE UNCHANGED vars
  BY <1>25 DEF vars, worker
<1> QED
  BY <1>1, <1>2, <1>3, <1>4, <1>5, <1>6, <1>7, <1>8, <1>9, <1>10, <1>11, <1>12,
     <1>13, <1>14, <1>15, <1>16, <1>17, <1>18, <1>19, <1>20, <1>21, <1>22,
     <1>23, <1>24, <1>25 DEF Next, Worker, ControlCall, ControlProgress

(* Every step keeps what a control call knows about the worker.             *)
LEMMA ControlStep ==
    ASSUME SenderInv, [Next]_vars
    PROVE  ControlInv'
<1> USE DEF SenderInv, TypeOK, MembersType, WorkerType, ControlType, ControlInv,
           Waiting
<1>1. CASE Tick
  BY <1>1 DEF Tick, members, worker
<1>2. CASE WaitInterrupted
  BY <1>2 DEF WaitInterrupted, members
<1>3. CASE StartReached
  BY <1>3 DEF StartReached, members
<1>4. CASE BeginInterval
  BY <1>4 DEF BeginInterval, members
<1>5. CASE IntervalReached
  BY <1>5 DEF IntervalReached, members
<1>6. CASE DropDatagram
  BY <1>6 DEF DropDatagram, NextDatagram, members
<1>7. CASE Transmit
  BY <1>7 DEF Transmit, MayTransmit, members
<1>8. CASE TransmitFails
  BY <1>8 DEF TransmitFails, MayTransmit, members
<1>9. CASE AfterSend
  BY <1>9 DEF AfterSend, NextDatagram, members
<1>10. CASE IntervalDone
  BY <1>10 DEF IntervalDone, members
<1>11. CASE PauseCheck
  BY <1>11 DEF PauseCheck, members
<1>12. CASE EnterPause
  BY <1>12 DEF EnterPause, members
<1>13. CASE LeavePause
  BY <1>13 DEF LeavePause, members
<1>14. CASE ResumeReached
  BY <1>14 DEF ResumeReached, members
<1>15. CASE LoopEnded
  BY <1>15 DEF LoopEnded, members
<1>16. CASE ReportOutcome
  BY <1>16 DEF ReportOutcome, members
<1>17. ASSUME NEW ticks \in FaultDelays, DelayDatagram(ticks) PROVE ControlInv'
  BY <1>17 DEF DelayDatagram, members
<1>18. CASE FinishWithoutDuplicateResult
  BY <1>18 DEF FinishWithoutDuplicateResult
<1>19. ASSUME NEW op \in Calls, StopRequest(op) PROVE ControlInv'
  BY <1>19 DEF StopRequest, worker, Idle
<1>20. ASSUME NEW k \in 1 .. LastInterval, NEW lead \in PauseLeads,
             RequestPause(k, lead)
      PROVE  ControlInv'
  BY <1>20 DEF RequestPause, worker
<1>21. ASSUME NEW r \in 2 .. LastInterval + 1, NEW lead \in ResumeLeads,
             Resume(r, lead)
      PROVE  ControlInv'
  BY <1>21 DEF Resume, worker
<1>22. CASE Join
  BY <1>22 DEF Join, Joinable, members
<1>23. CASE ConfigureFault \/ ClearFault \/ ReportStopped
  BY <1>23 DEF ConfigureFault, ClearFault, ReportStopped, members, worker
<1>24. CASE ClearFlags \/ ApplyConfigure \/ ApplyReset \/ RejectApply
  BY <1>24 DEF ClearFlags, ApplyConfigure, ApplyReset, RejectApply, Idle,
     members,
              worker
<1>25. CASE ApplyStart
  BY <1>25, SenderAssumption DEF ApplyStart, Idle
<1>26. CASE UNCHANGED vars
  BY <1>26 DEF vars, members, worker
<1> QED
  BY <1>1, <1>2, <1>3, <1>4, <1>5, <1>6, <1>7, <1>8, <1>9, <1>10, <1>11, <1>12,
     <1>13, <1>14, <1>15, <1>16, <1>17, <1>18, <1>19, <1>20, <1>21, <1>22,
     <1>23, <1>24, <1>25, <1>26 DEF Next, Worker, ControlCall, ControlProgress

(* A step that sends nothing, starts no round and does not take the worker  *)
(* back to an earlier interval keeps what is known of the disclosed keys.  *)
LEMMA QuietStep ==
    ASSUME SenderInv,
           UNCHANGED <<tx, disclosed, chain, run>>,
           \/ pc' \in {"off", "done"}
           \/ /\ pc \notin {"off", "done"}
              /\ interval' \in Nat /\ interval <= interval'
    PROVE  DisclosureInv' /\ RoundRule' /\ ChainInv'
<1>1. /\ interval \in Nat /\ DisclosureDelay \in Nat
      /\ \A k \in disclosed : k \in Nat
  BY LastIntervalType DEF SenderInv, TypeOK, WorkerType, OutputType,
     DataIntervals
<1>2. DisclosureInv'
  BY <1>1 DEF SenderInv, DisclosureInv
<1>3. RoundRule'
  BY DEF SenderInv, RoundRule
<1>4. ChainInv'
  BY DEF SenderInv, ChainInv
<1> QED
  BY <1>2, <1>3, <1>4

(* A configured chain is new or the one the runtime has. *)
LEMMA ChainConfigured ==
    ASSUME ChainInv, run \in Nat, pc = "off",
           UNCHANGED <<run, pc, disclosed>>,
           chain' = NewChain(run) \/ chain' = chain
    PROVE  ChainInv'
<1>1. CASE chain' = NewChain(run)
  <2>1. chain'.first = run + 1 /\ chain'.keys = {}
    BY <1>1 DEF NewChain
  <2> QED BY <2>1 DEF ChainInv
<1>2. CASE chain' = chain
  BY <1>2 DEF ChainInv
<1> QED BY <1>1, <1>2

(* Every step keeps the disclosed keys behind the worker, and therefore    *)
(* behind the data packets it sends.                                       *)
LEMMA DisclosureStep ==
    ASSUME SenderInv, [Next]_vars
    PROVE  DisclosureInv' /\ RoundRule' /\ ChainInv'
<1> USE DEF SenderInv, TypeOK, WorkerType, Waiting
<1>1. CASE Tick \/ UNCHANGED vars
  BY <1>1, QuietStep DEF Tick, vars, members, worker, output
<1>2. CASE WaitInterrupted
  BY <1>2, QuietStep DEF WaitInterrupted, members, worker, output
<1>3. CASE StartReached
  BY <1>3, QuietStep DEF StartReached, members, worker, output
<1>4. CASE BeginInterval
  BY <1>4, QuietStep DEF BeginInterval, members, worker, output
<1>5. CASE IntervalReached
  BY <1>5, QuietStep DEF IntervalReached, members, worker, output
<1>6. CASE DropDatagram
  BY <1>6, QuietStep DEF DropDatagram, NextDatagram, members, worker, output
<1>7. CASE TransmitFails
  BY <1>7, QuietStep DEF TransmitFails, MayTransmit, members, worker, output
<1>8. CASE AfterSend
  BY <1>8, QuietStep DEF AfterSend, NextDatagram, members, worker, output
<1>9. CASE IntervalDone
  BY <1>9, QuietStep DEF IntervalDone, members, worker, output
<1>10. CASE PauseCheck
  BY <1>10, QuietStep DEF PauseCheck, members, worker, output
<1>11. CASE EnterPause
  BY <1>11, QuietStep DEF EnterPause, members, worker, output
<1>12. CASE LeavePause
  BY <1>12, QuietStep DEF LeavePause, members, worker, output
<1>13. CASE ResumeReached
  BY <1>13, QuietStep DEF ResumeReached, members, worker, output
<1>14. CASE LoopEnded
  BY <1>14, QuietStep DEF LoopEnded, Outcome, members, worker, output
<1>15. CASE ReportOutcome
  BY <1>15, QuietStep DEF ReportOutcome, members, worker, output
<1>16. ASSUME NEW ticks \in FaultDelays, DelayDatagram(ticks)
      PROVE  DisclosureInv' /\ RoundRule' /\ ChainInv'
  BY <1>16, QuietStep DEF DelayDatagram, members, worker, output
<1>17. CASE FinishWithoutDuplicateResult
  BY <1>17, QuietStep DEF FinishWithoutDuplicateResult, members, worker, output
<1>18. ASSUME NEW op \in Calls, StopRequest(op)
      PROVE  DisclosureInv' /\ RoundRule' /\ ChainInv'
  BY <1>18, QuietStep DEF StopRequest, members, worker, output
<1>19. ASSUME NEW k \in 1 .. LastInterval, NEW lead \in PauseLeads,
             RequestPause(k, lead)
      PROVE  DisclosureInv' /\ RoundRule' /\ ChainInv'
  BY <1>19, QuietStep DEF RequestPause, members, worker, output
<1>20. ASSUME NEW r \in 2 .. LastInterval + 1, NEW lead \in ResumeLeads,
             Resume(r, lead)
      PROVE  DisclosureInv' /\ RoundRule' /\ ChainInv'
  BY <1>20, QuietStep DEF Resume, members, worker, output
<1>21. CASE Join
  BY <1>21, QuietStep DEF Join, members, worker, output
<1>22. CASE ConfigureFault \/ ClearFault \/ ReportStopped \/ ClearFlags
         \/ ApplyReset \/ RejectApply
  BY <1>22, QuietStep DEF ConfigureFault, ClearFault, ReportStopped,
     ClearFlags, ApplyReset, RejectApply, members, worker, output
<1>23. CASE Transmit
  <2> DEFINE dg == Datagram(TotalPacketCount, interval, index)
  <2>1. /\ interval \in Nat /\ run \in Nat /\ DisclosureDelay \in Nat \ {0}
        /\ \A k \in disclosed : k \in Nat /\ k + DisclosureDelay <= interval
    <3>1. pc \notin {"off", "done"}
      BY <1>23 DEF Transmit, MayTransmit
    <3>2. \A k \in disclosed : k + DisclosureDelay <= interval
      BY <3>1 DEF DisclosureInv
    <3>3. \A k \in disclosed : k \in Nat
      BY LastIntervalType DEF OutputType, DataIntervals
    <3> QED BY <3>2, <3>3, LastIntervalType DEF MembersType
  <2>2. /\ dg.interval = interval
        /\ dg.key \in {0} \cup DataIntervals
        /\ dg.key # 0 => dg.key + DisclosureDelay = interval
    BY <1>23, TransmittedDatagram DEF Transmit, MayTransmit, InDatagram
  <2>3. /\ tx' = [run |-> run, dg |-> dg]
        /\ disclosed' = disclosed \cup KeysOf(dg)
        /\ UNCHANGED <<run, interval>>
    BY <1>23 DEF Transmit, members
  <2> HIDE DEF dg
  <2>4. \A k \in disclosed' : k \in Nat /\ k + DisclosureDelay <= interval'
    BY <2>1, <2>2, <2>3, LastIntervalType DEF DataIntervals, KeysOf
  <2>5. DisclosureInv'
    BY <2>1, <2>3, <2>4 DEF DisclosureInv
  <2>6. interval \notin disclosed'
    BY <2>1, <2>3, <2>4
  <2>7. ChainInv'
    <3>1. chain' = [chain EXCEPT !.keys = @ \cup KeysOf(dg)]
      BY <1>23 DEF Transmit, dg
    <3>2. chain'.first = chain.first /\ chain'.keys = chain.keys \cup KeysOf(dg)
      BY <3>1 DEF OutputType
    <3>3. /\ chain.first <= run /\ chain.first \in Nat
          /\ run = chain.first => chain.keys = disclosed
      BY <1>23 DEF Transmit, MayTransmit, ChainInv, OutputType
    <3> QED
      BY <2>1, <2>3, <3>2, <3>3 DEF ChainInv
  <2> QED
    BY <2>2, <2>3, <2>5, <2>6, <2>7 DEF RoundRule
<1>24. CASE ApplyStart
  <2>1. /\ tx.run <= run /\ tx.run \in Nat /\ run \in Nat /\ chain.first \in Nat
        /\ run' = run + 1 /\ tx' = tx /\ disclosed' = {} /\ chain' = chain
    BY <1>24 DEF ApplyStart, OutputType, MembersType, DisclosureInv
  <2> QED
    BY <2>1 DEF DisclosureInv, RoundRule, ChainInv
<1>25. CASE ApplyConfigure
  <2>1. /\ pc = "off" /\ run \in Nat
        /\ UNCHANGED <<tx, disclosed, run, pc, interval>>
    BY <1>25 DEF ApplyConfigure, ControlInv, MembersType, worker
  <2>2. DisclosureInv' /\ RoundRule'
    BY <2>1 DEF DisclosureInv, RoundRule
  <2>3. chain' = NewChain(run) \/ chain' = chain
    BY <1>25 DEF ApplyConfigure
  <2>4. ChainInv'
    BY <2>1, <2>3, ChainConfigured
  <2> QED
    BY <2>2, <2>4
<1> QED
  BY <1>1, <1>2, <1>3, <1>4, <1>5, <1>6, <1>7, <1>8, <1>9, <1>10, <1>11, <1>12,
     <1>13, <1>14, <1>15, <1>16, <1>17, <1>18, <1>19, <1>20, <1>21, <1>22,
     <1>23, <1>24, <1>25 DEF Next, Worker, ControlCall, ControlProgress

(* A runtime that was just constructed satisfies the invariant. *)
LEMMA SenderInit == Init => SenderInv
<1> SUFFICES ASSUME Init PROVE SenderInv
  OBVIOUS
<1>1. TypeOK
  <2>1. MembersType
    <3>1. 0 \in 0 .. MaxRuns /\ 0 \in 0 .. LastInterval /\ 0 \in 0 ..
       LastInterval + 1
      BY LastIntervalType, SenderAssumption
    <3> QED
      BY <3>1 DEF Init, MembersType
  <2>2. WorkerType
    BY LastIntervalType DEF Init, WorkerType
  <2>3. ControlType
    BY DEF Init, ControlType, Idle
  <2>4. NoDatagram \in DatagramType
    BY LastIntervalType DEF NoDatagram, DatagramType
  <2>5. tx \in [ run : 0 .. MaxRuns, dg : DatagramType ]
    BY <2>4, SenderAssumption DEF Init
  <2>6. OutputType
    BY <2>5 DEF Init, OutputType, NewChain
  <2>7. HistoryType
    BY LastIntervalType DEF Init, HistoryType, NoBoundary
  <2> QED
    BY <2>1, <2>2, <2>3, <2>6, <2>7 DEF Init, TypeOK
<1>2. WorkerInv /\ ControlInv /\ DisclosureInv /\ RoundRule /\ ChainInv
  BY DEF Init, WorkerInv, InInterval, InDatagram, ControlInv, DisclosureInv,
         RoundRule, ChainInv, NewChain, Idle, NoDatagram
<1> QED
  BY <1>1, <1>2 DEF SenderInv

(* SenderInv is an inductive invariant of the runtime.                     *)
THEOREM SenderInvariant == Spec => []SenderInv
<1>1. Init => SenderInv
  BY SenderInit
<1>2. SenderInv /\ [Next]_vars => SenderInv'
  BY TypeStep, WorkerStep, ControlStep, DisclosureStep DEF SenderInv
<1> QED
  BY <1>1, <1>2, PTL DEF Spec

(* Type correctness: the worker, the control calls and the outputs of       *)
(* AuthenticationSenderRuntime stay in their ranges; in particular every   *)
(* datagram it sends is one of the round.                                  *)
THEOREM SenderTyping == Spec => []TypeOK
<1>1. SenderInv => TypeOK
  BY DEF SenderInv
<1> QED
  BY <1>1, SenderInvariant, PTL

(* The TESLA sender rule: in the first round of a chain, once a key was     *)
(* sent, no data packet that it authenticates is sent any more, in any     *)
(* interleaving of run() with the control calls and after any earlier      *)
(* rounds.  start does not refuse a chain that was used before.            *)
THEOREM SenderRule == Spec => []NoDataAfterKey
<1>1. SenderInv => NoDataAfterKey
  BY DEF SenderInv, RoundRule, ChainInv, NoDataAfterKey
<1> QED
  BY <1>1, SenderInvariant, PTL
-----------------------------------------------------------------------------
(***************************************************************************)
(* Three promises of AuthenticationSenderRuntime to its callers, for every *)
(* round and every interleaving of its threads: a pause that was accepted  *)
(* ahead of the worker holds back what lies behind it, a round that is     *)
(* over has told its result, and what a result says is true and final.     *)
(*                                                                         *)
(* Each rests on an invariant of its own beside SenderInv. PauseInv ties   *)
(* the pause that is set to the position of the worker. ReportInv says who *)
(* still owes the result of the round: the worker, or the stop that found  *)
(* it running. CountInv ties the counter of sent packets to the position   *)
(* of the worker, and ResultInv says which results may still come.         *)
(***************************************************************************)

(* The pause in force was requested ahead of the worker, and no resume was *)
(* then outstanding.                                                       *)
Early == boundary.after # 0 /\ boundary.ahead /\ boundary.clear

(* Where the worker stands: current is the interval it has begun, and it   *)
(* moves on only at the head of its loop. An early pause is still the one  *)
(* that is set, and the worker has not passed it.                          *)
PauseInv ==
    /\ interval <= current + 1
    /\ pc \in InInterval => interval = current
    /\ pc \in {"waitStart", "head"} => interval = current + 1
    /\ tx.run = run => tx.dg.interval <= current
    /\ pc = "waitResume" => resumeInterval # 0
    /\ Early => /\ pauseAfter = boundary.after /\ resumeInterval = 0
                /\ interval <= pauseAfter /\ HeldBack

(* The result of this round was given, or configure, start or reset        *)
(* silenced it.                                                            *)
Reported(r) == r \in silenced \/ results[r] # <<>>

(* The result of the current round is still to come: from the worker, or   *)
(* from the stop that found the round running.                             *)
Owed == \/ ctl = Idle /\ running
        \/ ctl.op = "stop" /\ ctl.was /\ ctl.step \in {"join", "report"}

(* Every round but one that is still owed its result was reported, and a   *)
(* worker at work owes one.                                                *)
ReportInv ==
    /\ \A r \in 1 .. run : Reported(r) \/ (r = run /\ Owed)
    /\ pc \notin {"off", "done"} => running
    /\ ctl = Idle /\ pc \notin {"off", "done"} => ~stopRequested
    /\ ctl = Idle /\ pc = "finish" => Reported(run)

(* Steps that touch neither the pause nor the position.                    *)
LEMMA PauseInvKept ==
    ASSUME PauseInv,
           UNCHANGED <<interval, current, tx, run, resumeInterval, pauseAfter, boundary>>,
           pc' \in InInterval => pc \in InInterval,
           pc' \in {"waitStart", "head"} => pc \in {"waitStart", "head"},
           pc' = "waitResume" => pc = "waitResume"
    PROVE  PauseInv'
BY DEF PauseInv, Early, HeldBack

(* No step of the runtime breaks PauseInv; the ones that matter are the    *)
(* test after an interval (PauseCheck) and the calls of requestPause and   *)
(* resume.                                                                 *)
LEMMA PauseStep ==
    ASSUME SenderInv, PauseInv, [Next]_vars
    PROVE  PauseInv'
<1> USE DEF InInterval
<1>1. CASE Tick \/ UNCHANGED vars
  BY <1>1, PauseInvKept DEF Tick, vars, members, worker, output, history
<1>2. CASE WaitInterrupted \/ StartReached \/ IntervalReached \/ DropDatagram
           \/ (\E ticks \in FaultDelays : DelayDatagram(ticks)) \/ TransmitFails
           \/ AfterSend \/ IntervalDone \/ EnterPause \/ LoopEnded \/ ReportOutcome
  BY <1>2, PauseInvKept DEF WaitInterrupted, StartReached, IntervalReached,
     DropDatagram,
     DelayDatagram, TransmitFails, MayTransmit, AfterSend, IntervalDone, EnterPause,
     LoopEnded, Outcome,
     ReportOutcome, NextDatagram, members, output, history, Waiting
<1>3. CASE BeginInterval
  <2>1. /\ interval \in Nat /\ current \in Nat /\ interval = current + 1
        /\ tx.dg.interval \in Nat
        /\ UNCHANGED <<interval, tx, run, boundary, pauseAfter, resumeInterval>>
    BY <1>3, LastIntervalType DEF BeginInterval, PauseInv, SenderInv, TypeOK,
       MembersType, WorkerType, OutputType, DatagramType, output, history
  <2>2. CASE current' = current /\ pc' = "tail"
    BY <2>1, <2>2 DEF PauseInv, Early, HeldBack
  <2>3. CASE current' = interval /\ pc' = "waitInterval"
    BY <2>1, <2>3 DEF PauseInv, Early, HeldBack
  <2> QED BY <1>3, <2>2, <2>3 DEF BeginInterval
<1>4. CASE Transmit
  <2>1. /\ tx'.run = run /\ tx'.dg.interval = interval /\ pc \in InInterval
    BY <1>4, TransmittedDatagram DEF Transmit, MayTransmit, SenderInv, InDatagram
  <2>2. /\ interval = current /\ pc' = "afterSend"
        /\ UNCHANGED <<interval, current, run, boundary, pauseAfter, resumeInterval>>
    BY <1>4, <2>1 DEF Transmit, PauseInv, members, history
  <2>3. interval \in Nat
    BY LastIntervalType DEF SenderInv, TypeOK, WorkerType
  <2> HIDE DEF InInterval
  <2>4. pc' \in InInterval /\ pc' \notin {"waitStart", "head", "waitResume"}
    BY <2>2 DEF InInterval
  <2> QED BY <2>1, <2>2, <2>3, <2>4 DEF PauseInv, Early, HeldBack
<1>5. CASE PauseCheck
  BY <1>5, LastIntervalType DEF PauseCheck, PauseDue, PauseInv, Early, HeldBack,
     SenderInv, TypeOK, MembersType, WorkerType, members, output, history
<1>6. CASE LeavePause
  BY <1>6 DEF LeavePause, PauseInv, Early, HeldBack, output, history
<1>7. CASE ResumeReached
  BY <1>7, LastIntervalType DEF ResumeReached, PauseInv, Early, HeldBack, SenderInv,
     TypeOK, MembersType, output, history
<1>8. CASE FinishWithoutDuplicateResult
  BY <1>8, LastIntervalType DEF FinishWithoutDuplicateResult, PauseInv, Early,
     HeldBack, SenderInv, TypeOK, MembersType, output, history, HistoryType
<1>9. CASE \E op \in Calls : StopRequest(op)
  BY <1>9, PauseInvKept DEF StopRequest, worker, output
<1>10. CASE ConfigureFault \/ ClearFault
  BY <1>10, PauseInvKept DEF ConfigureFault, ClearFault, worker, output, history
<1>11. ASSUME NEW k \in 1 .. LastInterval, NEW lead \in PauseLeads,
              RequestPause(k, lead)
      PROVE  PauseInv'
  <2>1. /\ k \in Nat /\ current \in Nat /\ interval \in Nat
        /\ tx.dg.interval \in Nat
    BY LastIntervalType DEF SenderInv, TypeOK, MembersType, WorkerType, OutputType,
       DatagramType
  <2>2. /\ pauseAfter' = k
        /\ boundary' = [after |-> k, ahead |-> k > current, clear |-> resumeInterval = 0,
                        resuming |-> pc = "waitResume"]
        /\ UNCHANGED <<interval, current, tx, run, resumeInterval, pc>>
    BY <1>11 DEF RequestPause, worker, output
  <2>3. boundary'.ahead /\ boundary'.clear => current < k /\ resumeInterval = 0
    BY <2>2
  <2>4. boundary'.after = k
    BY <2>2
  <2>5. Early' => /\ pauseAfter' = boundary'.after /\ resumeInterval' = 0
                  /\ interval' <= pauseAfter' /\ HeldBack'
    BY <2>1, <2>2, <2>3, <2>4 DEF PauseInv, Early, HeldBack
  <2> QED BY <2>2, <2>5 DEF PauseInv
<1>12. CASE \E r \in 2 .. LastInterval + 1, lead \in ResumeLeads : Resume(r, lead)
  BY <1>12 DEF Resume, PauseInv, Early, HeldBack, NoBoundary, worker, output
<1>13. CASE Join \/ ReportStopped \/ ClearFlags \/ ApplyConfigure \/ ApplyReset \/ RejectApply
  BY <1>13, PauseInvKept DEF Join, ReportStopped, ClearFlags, ApplyConfigure,
     ApplyReset, RejectApply,
     members, worker, output, history
<1>14. CASE ApplyStart
  BY <1>14 DEF ApplyStart, PauseInv, Early, HeldBack, NoBoundary, SenderInv,
     WorkerInv, ControlInv, DisclosureInv, TypeOK, MembersType, OutputType
<1> QED
  BY <1>1, <1>2, <1>3, <1>4, <1>5, <1>6, <1>7, <1>8, <1>9, <1>10, <1>11, <1>12,
     <1>13, <1>14
     DEF Next, Worker, ControlCall, ControlProgress

(* Before the first round nothing is paused.                               *)
LEMMA PauseInit == Init => PauseInv
BY DEF Init, PauseInv, Early, InInterval, NoBoundary, NoDatagram

(* What lies behind a pause that was accepted ahead of the worker is not   *)
(* sent until the resume (run, requestPause, resume).                      *)
THEOREM PausesAreHonoured == Spec => []EarlyPauseHonoured
<1>1. Init => SenderInv /\ PauseInv
  BY SenderInit, PauseInit
<1>2. SenderInv /\ PauseInv /\ [Next]_vars => (SenderInv /\ PauseInv)'
  BY TypeStep, WorkerStep, ControlStep, DisclosureStep, PauseStep DEF SenderInv
<1>3. PauseInv => EarlyPauseHonoured
  BY DEF PauseInv, Early, EarlyPauseHonoured
<1> QED
  BY <1>1, <1>2, <1>3, PTL DEF Spec

(* Steps that neither report nor end a round.                              *)
LEMMA ReportInvKept ==
    ASSUME ReportInv,
           UNCHANGED <<run, results, silenced, ctl, running, stopRequested>>,
           pc' \notin {"off", "done"} => pc \notin {"off", "done"},
           pc' = "finish" => stopRequested \/ pc = "finish",
           pc' = "finish" => pc \notin {"off", "done"}
    PROVE  ReportInv'
BY DEF ReportInv, Reported, Owed

(* emitResult reports the current round and leaves the others as they      *)
(* were.                                                                   *)
LEMMA AppendedResults ==
    ASSUME SenderInv, run # 0, NEW status, EmitResult(status), run' = run,
           silenced' = silenced
    PROVE  /\ Reported(run)'
           /\ \A r \in 1 .. run : Reported(r) => Reported(r)'
<1>1. run \in 1 .. MaxRuns /\ run \in Nat
  BY DEF SenderInv, TypeOK, MembersType
<1>2. results \in [1 .. MaxRuns -> Seq(ResultType)]
  BY DEF SenderInv, TypeOK, OutputType
<1>3. Append(results[run], Result(status)) # <<>>
  BY <1>1, <1>2
<1> HIDE DEF Result
<1> QED
  BY <1>1, <1>2, <1>3 DEF EmitResult, Reported

(* No step of the runtime forgets a result.                                *)
LEMMA ReportStep ==
    ASSUME SenderInv, ReportInv, [Next]_vars
    PROVE  ReportInv'
<1>1. CASE Tick \/ UNCHANGED vars
  BY <1>1, ReportInvKept DEF Tick, vars, members, worker, output, history
<1>2. CASE WaitInterrupted \/ StartReached \/ BeginInterval \/ IntervalReached \/ DropDatagram
           \/ (\E ticks \in FaultDelays : DelayDatagram(ticks)) \/ Transmit
           \/ TransmitFails
           \/ AfterSend \/ IntervalDone \/ PauseCheck \/ EnterPause \/ LeavePause
           \/ ResumeReached \/ LoopEnded
  BY <1>2, ReportInvKept DEF WaitInterrupted, StartReached, BeginInterval,
     IntervalReached, DropDatagram,
     DelayDatagram, Transmit, TransmitFails, MayTransmit, AfterSend, IntervalDone,
     PauseCheck, EnterPause, LeavePause,
     ResumeReached, LoopEnded, Outcome, NextDatagram, members, output, history,
     Waiting, SenderInv, TypeOK, MembersType, WorkerType
<1>3. CASE ReportOutcome
  <2>1. run # 0 /\ UNCHANGED <<run, silenced, ctl, running, stopRequested>> /\ pc' = "finish"
    BY <1>3 DEF ReportOutcome, ReportInv, SenderInv, ControlInv, members, history
  <2>2. /\ Reported(run)'
        /\ \A r \in 1 .. run : Reported(r) => Reported(r)'
    BY <1>3, <2>1, AppendedResults DEF ReportOutcome, history
  <2> QED
    BY <1>3, <2>1, <2>2 DEF ReportInv, Owed, ReportOutcome
<1>4. CASE FinishWithoutDuplicateResult
  BY <1>4 DEF FinishWithoutDuplicateResult, ReportInv, Reported, Owed, output,
     history
<1>5. ASSUME NEW op \in Calls, StopRequest(op) PROVE ReportInv'
  <2>1. /\ ctl = Idle /\ ctl'.op = op /\ ctl'.step = "join" /\ ctl'.was = running
        /\ ctl' # Idle
        /\ silenced' = IF running /\ op # "stop" THEN silenced \cup {run} ELSE silenced
        /\ UNCHANGED <<run, results, running, pc>>
    BY <1>5 DEF StopRequest, worker, output, Idle
  <2>2. Idle.op # "stop"
    BY DEF Idle
  <2> HIDE DEF Idle
  <2> QED
    BY <2>1, <2>2 DEF ReportInv, Reported, Owed
<1>6. CASE ConfigureFault \/ ClearFault
  BY <1>6, ReportInvKept DEF ConfigureFault, ClearFault, worker, output, history
<1>7. CASE \E k \in 1 .. LastInterval, lead \in PauseLeads : RequestPause(k, lead)
  BY <1>7, ReportInvKept DEF RequestPause, worker, output
<1>8. CASE \E r \in 2 .. LastInterval + 1, lead \in ResumeLeads : Resume(r, lead)
  BY <1>8, ReportInvKept DEF Resume, worker, output
<1>9. CASE Join
  <2>1. /\ ctl.step = "join" /\ pc \in {"off", "done"} /\ pc' = "off"
        /\ ctl'.op = ctl.op /\ ctl'.was = ctl.was
        /\ ctl'.step = IF ctl.op = "stop" /\ ctl.was THEN "report" ELSE "clear"
        /\ ctl # Idle /\ ctl' # Idle
        /\ UNCHANGED <<run, results, silenced, running>>
    BY <1>9 DEF Join, Joinable, StopReports, members, output, history, SenderInv,
       TypeOK, ControlType, Idle
  <2> HIDE DEF Idle
  <2> QED
    BY <2>1 DEF ReportInv, Reported, Owed
<1>10. CASE ReportStopped
  <2>1. /\ ctl.step = "report" /\ pc = "off" /\ pc' = "off" /\ ctl'.step = "clear"
        /\ ctl' # Idle /\ ctl # Idle
        /\ EmitResult("Stopped") /\ UNCHANGED <<run, silenced>>
    BY <1>10 DEF ReportStopped, SenderInv, TypeOK, ControlType, ControlInv, Idle,
       members, worker, history
  <2>2. CASE run = 0
    BY <2>1, <2>2 DEF ReportInv, Owed
  <2>3. CASE run # 0
    <3>1. /\ Reported(run)'
          /\ \A r \in 1 .. run : Reported(r) => Reported(r)'
      BY <2>1, <2>3, AppendedResults
    <3> HIDE DEF Idle
    <3> QED
      BY <2>1, <3>1 DEF ReportInv, Owed
  <2> QED BY <2>2, <2>3
<1>11. CASE ClearFlags \/ ApplyConfigure \/ ApplyReset \/ RejectApply
  <2>1. /\ ctl.step \in {"clear", "apply"} /\ pc = "off" /\ pc' = "off"
        /\ ctl # Idle
        /\ UNCHANGED <<run, results, silenced>>
    BY <1>11 DEF ClearFlags, ApplyConfigure, ApplyReset, RejectApply, SenderInv,
       ControlInv, Idle, members, worker, output, history
  <2>2. \A r \in 1 .. run : Reported(r)
    BY <2>1 DEF ReportInv, Owed
  <2> QED
    BY <2>1, <2>2 DEF ReportInv, Reported
<1>12. CASE ApplyStart
  <2>1. /\ ctl # Idle /\ ctl.step = "apply"
        /\ run \in Nat /\ run' = run + 1 /\ ctl' = Idle /\ running' = TRUE
        /\ stopRequested' = FALSE /\ pc' = "waitStart"
        /\ UNCHANGED <<results, silenced>>
    BY <1>12 DEF ApplyStart, SenderInv, TypeOK, MembersType, Idle
  <2>2. \A r \in 1 .. run : Reported(r)
    BY <2>1 DEF ReportInv, Owed
  <2>3. \A r \in 1 .. run' : r \in 1 .. run \/ r = run'
    BY <2>1
  <2> HIDE DEF Idle
  <2> QED
    BY <2>1, <2>2, <2>3 DEF ReportInv, Reported, Owed
<1> QED
  BY <1>1, <1>2, <1>3, <1>4, <1>5, <1>6, <1>7, <1>8, <1>9, <1>10, <1>11, <1>12
     DEF Next, Worker, ControlCall, ControlProgress

(* Before the first round no result is owed.                               *)
LEMMA ReportInit == Init => ReportInv
BY DEF Init, ReportInv

(* Whoever ends a round of the sender, its worker or stop, reports it,     *)
(* unless the caller that replaced it silenced it (run, stop).             *)
THEOREM RoundsAreReported == Spec => []EveryRoundReported
<1>1. Init => SenderInv /\ ReportInv
  BY SenderInit, ReportInit
<1>2. SenderInv /\ ReportInv /\ [Next]_vars => (SenderInv /\ ReportInv)'
  BY TypeStep, WorkerStep, ControlStep, DisclosureStep, ReportStep DEF SenderInv
<1>3. ReportInv => EveryRoundReported
  BY DEF ReportInv, Reported, Owed, EveryRoundReported, Idle
<1> QED
  BY <1>1, <1>2, <1>3, PTL DEF Spec

(* Data packets of the intervals before i.                                 *)
Before(i) == IF i <= DataIntervalCount(TotalPacketCount)
             THEN (i - 1) * PacketsPerInterval ELSE TotalPacketCount

(* Without a fault plan the counter of sent packets follows the worker.    *)
CountInv ==
    ~fault =>
        /\ pc \in {"waitStart", "head", "waitInterval"} => sent = Before(interval)
        /\ pc \in InDatagram =>
              sent = Before(interval) + (IF interval <= DataIntervalCount(TotalPacketCount)
                                         THEN index - 1 ELSE 0)
        /\ pc \in {"intervalDone", "pauseCheck", "waitPause", "paused", "waitResume"} =>
              sent = Before(interval + 1)
        /\ pc = "tail" /\ ~stopRequested /\ ~overrun => sent = TotalPacketCount
        /\ pc = "reportCompleted" => sent = TotalPacketCount

(* There are no packets before the first interval, and all of them lie     *)
(* before the intervals that only disclose keys.                           *)
LEMMA BeforeType ==
    /\ \A i \in Nat \ {0} : Before(i) \in Nat
    /\ Before(1) = 0
    /\ \A i \in Nat : i > LastInterval => Before(i) = TotalPacketCount
<1>1. /\ DataIntervalCount(TotalPacketCount) \in Nat \ {0}
      /\ DataIntervalCount(TotalPacketCount) < LastInterval /\ LastInterval \in Nat
  BY LastIntervalType, IntervalCounts
<1>2. \A i \in Nat \ {0} : (i - 1) * PacketsPerInterval \in Nat
  BY PacketProductNext
<1>3. 0 * PacketsPerInterval = 0
  BY RoundAssumption
<1> QED
  BY <1>1, <1>2, <1>3, LastIntervalType DEF Before

(* The packets of an interval are those between it and the next.           *)
LEMMA BeforeNext ==
    ASSUME NEW i \in 1 .. DataIntervalCount(TotalPacketCount)
    PROVE  Before(i) + DataPacketCount(TotalPacketCount, i) = Before(i + 1)
<1> DEFINE q == (TotalPacketCount - 1) \div PacketsPerInterval
<1>1. /\ q \in Nat /\ q * PacketsPerInterval <= TotalPacketCount - 1
      /\ TotalPacketCount - 1 < q * PacketsPerInterval + PacketsPerInterval
      /\ DataIntervalCount(TotalPacketCount) = q + 1
  BY PacketDivision, LastIntervalType DEF DataIntervalCount
<1>2. i \in Nat \ {0} /\ i <= q + 1 /\ q * PacketsPerInterval \in Nat
  BY <1>1, PacketProductMonotone
<1>3. /\ (i - 1) * PacketsPerInterval \in Nat /\ i * PacketsPerInterval \in Nat
      /\ i * PacketsPerInterval = (i - 1) * PacketsPerInterval + PacketsPerInterval
  BY <1>2, PacketProductNext, PacketProductMonotone
<1>4. i <= q => i * PacketsPerInterval <= q * PacketsPerInterval
  BY <1>1, <1>2, PacketProductMonotone
<1>5. i = q + 1 => (i - 1) * PacketsPerInterval = q * PacketsPerInterval
  BY <1>1, <1>2
<1>6. /\ (i + 1) - 1 = i /\ TotalPacketCount \in Nat \ {0}
      /\ PacketsPerInterval \in Nat \ {0}
  BY <1>2, LastIntervalType, RoundAssumption
<1> HIDE DEF q
<1>7. CASE i <= q
  <2>1. i * PacketsPerInterval < TotalPacketCount
    BY <1>1, <1>3, <1>4, <1>6, <1>7
  <2>2. DataPacketCount(TotalPacketCount, i) = PacketsPerInterval
    BY <1>1, <1>2, <1>3, <1>6, <2>1
       DEF DataPacketCount, LastPacketIndex, FirstPacketIndex
  <2>3. Before(i) = (i - 1) * PacketsPerInterval /\ Before(i + 1) = i * PacketsPerInterval
    BY <1>1, <1>2, <1>6, <1>7 DEF Before
  <2> QED BY <1>3, <2>2, <2>3
<1>8. CASE i = q + 1
  <2>1. ~(i * PacketsPerInterval < TotalPacketCount)
    BY <1>1, <1>2, <1>3, <1>5, <1>6, <1>8
  <2>2. DataPacketCount(TotalPacketCount, i) = TotalPacketCount - (i - 1) * PacketsPerInterval
    BY <1>1, <1>2, <1>3, <1>6, <1>8, <2>1
       DEF DataPacketCount, LastPacketIndex, FirstPacketIndex
  <2>3. Before(i) = (i - 1) * PacketsPerInterval /\ Before(i + 1) = TotalPacketCount
    BY <1>1, <1>2, <1>6, <1>8 DEF Before
  <2> QED BY <1>3, <1>6, <2>2, <2>3
<1> QED BY <1>1, <1>2, <1>7, <1>8

(* No step of the runtime breaks CountInv.                                 *)
LEMMA CountStep ==
    ASSUME SenderInv, ReportInv, CountInv, [Next]_vars
    PROVE  CountInv'
<1> USE DEF InDatagram
<1>0. /\ interval \in Nat \ {0} /\ index \in Nat /\ sent \in Nat
      /\ overrun \in BOOLEAN /\ stopRequested \in BOOLEAN
      /\ fault \in BOOLEAN
      /\ DataIntervalCount(TotalPacketCount) \in Nat \ {0}
  BY LastIntervalType, IntervalCounts
     DEF SenderInv, TypeOK, WorkerType, MembersType, WorkerInv
<1>1. CASE Tick \/ UNCHANGED vars
  BY <1>1 DEF Tick, vars, members, worker, CountInv, Before
<1>2. CASE WaitInterrupted
  BY <1>2 DEF WaitInterrupted, members, CountInv, Before
<1>3. CASE StartReached \/ EnterPause \/ LeavePause \/ IntervalDone
  BY <1>3 DEF StartReached, EnterPause, LeavePause, IntervalDone, members, CountInv,
     Before
<1>4. CASE BeginInterval
  BY <1>4, <1>0, BeforeType DEF BeginInterval, CountInv, Before
<1>5. CASE IntervalReached
  BY <1>5, <1>0, BeforeType DEF IntervalReached, members, CountInv, Before
<1>6. CASE DropDatagram \/ (\E ticks \in FaultDelays : DelayDatagram(ticks))
  BY <1>6 DEF DropDatagram, DelayDatagram, members, CountInv
<1>7. CASE Transmit \/ TransmitFails
  BY <1>7 DEF Transmit, TransmitFails, MayTransmit, members, CountInv, Before
<1>8. CASE AfterSend
  <2>1. pc = "afterSend" /\ UNCHANGED <<fault, interval, stopRequested>>
    BY <1>8 DEF AfterSend
  <2>2. CASE pc' = "tail" /\ overrun'
    BY <2>2 DEF CountInv
  <2>3. CASE /\ sent' = IF index <= DataPacketCount(TotalPacketCount, interval)
                        THEN sent + 1 ELSE sent
             /\ NextDatagram
    <3>1. CASE interval <= DataIntervalCount(TotalPacketCount)
      <4>1. /\ DatagramCount(TotalPacketCount, interval)
               = DataPacketCount(TotalPacketCount, interval)
            /\ interval \in 1 .. DataIntervalCount(TotalPacketCount)
            /\ index \in 1 .. DatagramCount(TotalPacketCount, interval)
        BY <3>1, <1>0, <2>1 DEF DatagramCount, SenderInv, WorkerInv
      <4>2. /\ DataPacketCount(TotalPacketCount, interval) \in Nat
            /\ Before(interval) \in Nat
            /\ Before(interval) + DataPacketCount(TotalPacketCount, interval)
               = Before(interval + 1)
        <5>1. interval \in 1 .. LastInterval
          BY <2>1, LastIntervalType
             DEF SenderInv, WorkerInv, InInterval, TypeOK, WorkerType
        <5> QED
          BY <4>1, <5>1, BeforeNext, BeforeType, DatagramCounts, LastIntervalType,
             <1>0
      <4>3. sent' = sent + 1
        BY <2>3, <4>1
      <4>4. fault \/ sent = Before(interval) + (index - 1)
        BY <2>1, <3>1 DEF CountInv
      <4>5. CASE index < DatagramCount(TotalPacketCount, interval)
        <5>1. index' = index + 1 /\ pc' = "waitSend"
          BY <2>3, <4>5 DEF NextDatagram
        <5>2. fault \/ sent' = Before(interval) + (index' - 1)
          BY <4>2, <4>3, <4>4, <5>1, <1>0
        <5> QED BY <5>1, <5>2, <2>1, <3>1 DEF CountInv, Before
      <4>6. CASE ~(index < DatagramCount(TotalPacketCount, interval))
        <5>1. index = DatagramCount(TotalPacketCount, interval) /\ pc' = "intervalDone"
          BY <2>3, <4>1, <4>2, <4>6, <1>0 DEF NextDatagram
        <5>2. fault \/ sent' = Before(interval + 1)
          BY <4>1, <4>2, <4>3, <4>4, <5>1, <1>0
        <5> QED BY <5>1, <5>2, <2>1 DEF CountInv, Before
      <4> QED BY <4>5, <4>6
    <3>2. CASE ~(interval <= DataIntervalCount(TotalPacketCount))
      <4>1. /\ DatagramCount(TotalPacketCount, interval) = 1
            /\ DataPacketCount(TotalPacketCount, interval) = 0
            /\ index = 1
        BY <3>2, <1>0, <2>1 DEF DatagramCount, DataPacketCount, SenderInv, WorkerInv
      <4>2. sent' = sent /\ pc' = "intervalDone"
        BY <2>3, <4>1 DEF NextDatagram
      <4>3. fault \/ sent = TotalPacketCount
        BY <2>1, <3>2, LastIntervalType DEF CountInv, Before
      <4>4. Before(interval + 1) = TotalPacketCount
        BY <3>2, <1>0 DEF Before
      <4> QED BY <4>2, <4>3, <4>4, <2>1 DEF CountInv, Before
    <3> QED BY <3>1, <3>2
  <2> QED BY <1>8, <2>2, <2>3 DEF AfterSend
<1>9. CASE PauseCheck
  BY <1>9, <1>0 DEF PauseCheck, members, CountInv, Before
<1>10. CASE ResumeReached
  BY <1>10, <1>0 DEF ResumeReached, CountInv, Before
<1>11. CASE LoopEnded
  BY <1>11, <1>0 DEF LoopEnded, Outcome, members, CountInv, Before
<1>12. CASE ReportOutcome
  BY <1>12 DEF ReportOutcome, members, CountInv
<1>13. CASE FinishWithoutDuplicateResult
  BY <1>13 DEF FinishWithoutDuplicateResult, CountInv
<1>14. ASSUME NEW op \in Calls, StopRequest(op) PROVE CountInv'
  BY <1>14 DEF StopRequest, worker, CountInv, Before
<1>15. CASE ConfigureFault \/ ClearFault
  BY <1>15 DEF ConfigureFault, ClearFault, ReportInv, worker, CountInv
<1>16. CASE \E k \in 1 .. LastInterval, lead \in PauseLeads : RequestPause(k, lead)
  BY <1>16 DEF RequestPause, worker, CountInv, Before
<1>17. CASE \E r \in 2 .. LastInterval + 1, lead \in ResumeLeads : Resume(r, lead)
  BY <1>17 DEF Resume, worker, CountInv, Before
<1>18. CASE Join
  BY <1>18 DEF Join, Joinable, members, CountInv, Before
<1>19. CASE ReportStopped \/ ClearFlags \/ ApplyConfigure \/ ApplyReset \/ RejectApply
  <2>1. pc = "off" /\ pc' = "off"
    BY <1>19 DEF ReportStopped, ClearFlags, ApplyConfigure, ApplyReset, RejectApply,
       worker, SenderInv, ControlInv
  <2> QED BY <2>1 DEF CountInv
<1>20. CASE ApplyStart
  <2>1. interval' = 1 /\ sent' = 0 /\ pc' = "waitStart"
    BY <1>20 DEF ApplyStart, SenderInv, ControlInv, WorkerInv
  <2> QED BY <2>1, BeforeType DEF CountInv, Before
<1> QED
  BY <1>1, <1>2, <1>3, <1>4, <1>5, <1>6, <1>7, <1>8, <1>9, <1>10, <1>11, <1>12,
     <1>13, <1>14, <1>15,
     <1>16, <1>17, <1>18, <1>19, <1>20
     DEF Next, Worker, ControlCall, ControlProgress

(* The round has no result yet, or one that its worker gave.               *)
Open(r) == \/ results[r] = <<>>
           \/ Len(results[r]) = 1 /\ results[r][1].status # "Stopped"

(* A worker at work has reported nothing yet, and a stop that is to report *)
(* finds at most the result of the worker.                                 *)
ResultInv ==
    /\ pc \notin {"off", "finish", "done"} => results[run] = <<>>
    /\ running /\ ctl.step # "clear" => Open(run)
    /\ StopReports /\ ctl.step \in {"join", "report"} => Open(run)
    /\ ctl.step = "apply" => ~running
    /\ ctl.step = "report" => StopReports
    /\ \A r \in 1 .. MaxRuns : r > run => results[r] = <<>>

(* Steps that neither report nor move the call or the worker out of its    *)
(* round.                                                                  *)
LEMMA ResultInvKept ==
    ASSUME ResultInv, UNCHANGED <<run, results, ctl, running>>,
           pc' \notin {"off", "finish", "done"} => pc \notin {"off", "finish", "done"}
    PROVE  ResultInv'
BY DEF ResultInv, Open, StopReports

(* emitResult appends one result to the current round.                     *)
LEMMA OneMoreResult ==
    ASSUME SenderInv, run # 0, NEW status, EmitResult(status)
    PROVE  /\ results'[run] = Append(results[run], Result(status))
           /\ results[run] \in Seq(ResultType)
           /\ \A r \in 1 .. MaxRuns : r # run => results'[r] = results[r]
BY DEF EmitResult, SenderInv, TypeOK, OutputType, MembersType

(* No step of the runtime breaks ResultInv.                                *)
LEMMA ResultStep ==
    ASSUME SenderInv, ReportInv, ResultInv, [Next]_vars
    PROVE  ResultInv'
<1>1. CASE Tick \/ UNCHANGED vars
  BY <1>1, ResultInvKept DEF Tick, vars, members, worker, output
<1>2. CASE WaitInterrupted \/ StartReached \/ BeginInterval \/ IntervalReached \/ DropDatagram
           \/ (\E ticks \in FaultDelays : DelayDatagram(ticks)) \/ Transmit
           \/ TransmitFails
           \/ AfterSend \/ IntervalDone \/ PauseCheck \/ EnterPause \/ LeavePause
           \/ ResumeReached \/ LoopEnded
  BY <1>2, ResultInvKept DEF WaitInterrupted, StartReached, BeginInterval,
     IntervalReached, DropDatagram,
     DelayDatagram, Transmit, TransmitFails, MayTransmit, AfterSend, IntervalDone,
     PauseCheck, EnterPause, LeavePause,
     ResumeReached, LoopEnded, NextDatagram, members, output, Waiting
<1>3. CASE ReportOutcome
  <2>1. /\ run # 0 /\ pc' = "finish" /\ UNCHANGED <<run, ctl, running>>
        /\ results[run] = <<>> /\ run \in Nat
    BY <1>3 DEF ReportOutcome, ReportInv, ResultInv, SenderInv, ControlInv, TypeOK,
       MembersType, members
  <2>2. PICK status \in {"InvalidSchedulingOverrun", "Completed"} : EmitResult(status)
    BY <1>3 DEF ReportOutcome
  <2>3. /\ results'[run] = Append(results[run], Result(status))
        /\ \A r \in 1 .. MaxRuns : r # run => results'[r] = results[r]
    BY <2>1, <2>2, OneMoreResult
  <2>4. Result(status).status = status
    BY DEF Result
  <2> HIDE DEF Result
  <2>5. Open(run)'
    BY <2>1, <2>3, <2>4 DEF Open
  <2> QED
    BY <2>1, <2>3, <2>5 DEF ResultInv, StopReports
<1>4. CASE FinishWithoutDuplicateResult
  BY <1>4 DEF FinishWithoutDuplicateResult, ResultInv, Open, StopReports, output
<1>5. ASSUME NEW op \in Calls, StopRequest(op) PROVE ResultInv'
  BY <1>5 DEF StopRequest, ResultInv, Open, StopReports, worker, output, Idle
<1>6. CASE ConfigureFault \/ ClearFault
  BY <1>6, ResultInvKept DEF ConfigureFault, ClearFault, worker, output
<1>7. CASE \E k \in 1 .. LastInterval, lead \in PauseLeads : RequestPause(k, lead)
  BY <1>7, ResultInvKept DEF RequestPause, worker, output
<1>8. CASE \E r \in 2 .. LastInterval + 1, lead \in ResumeLeads : Resume(r, lead)
  BY <1>8, ResultInvKept DEF Resume, worker, output
<1>9. CASE Join
  <2>1. /\ ctl.step = "join" /\ pc' = "off" /\ ctl'.op = ctl.op
        /\ ctl'.was = ctl.was
        /\ ctl'.step = IF StopReports THEN "report" ELSE "clear"
        /\ UNCHANGED <<run, results, running>>
    BY <1>9 DEF Join, Joinable, members, output, SenderInv, TypeOK, ControlType
  <2> QED
    BY <2>1 DEF ResultInv, Open, StopReports
<1>10. CASE ReportStopped
  <2>1. /\ ctl'.step = "clear" /\ pc' = "off" /\ UNCHANGED <<run, running>>
    BY <1>10 DEF ReportStopped, SenderInv, TypeOK, ControlType, ControlInv, members,
       worker
  <2>2. \A r \in 1 .. MaxRuns : r > run => results'[r] = results[r]
    <3>1. \A r \in 1 .. MaxRuns : r # run => results'[r] = results[r]
      BY <1>10 DEF ReportStopped, EmitResult, SenderInv, TypeOK, OutputType
    <3> QED BY <3>1 DEF SenderInv, TypeOK, MembersType
  <2> QED
    BY <2>1, <2>2 DEF ResultInv
<1>11. CASE ClearFlags \/ ApplyConfigure \/ ApplyReset \/ RejectApply
  BY <1>11 DEF ClearFlags, ApplyConfigure, ApplyReset, RejectApply, SenderInv,
     ControlInv, Idle, members, worker, output,
     ResultInv, Open, StopReports, TypeOK, ControlType
<1>12. CASE ApplyStart
  <2>1. /\ run \in Nat /\ run < MaxRuns /\ run' = run + 1 /\ ctl' = Idle
        /\ UNCHANGED results
    BY <1>12 DEF ApplyStart, SenderInv, ControlInv, TypeOK, MembersType
  <2>2. /\ run' \in 1 .. MaxRuns /\ results[run'] = <<>>
        /\ \A r \in 1 .. MaxRuns : r > run' => r > run
    BY <2>1, SenderAssumption DEF ResultInv
  <2> QED
    BY <2>1, <2>2 DEF ResultInv, Open, StopReports, Idle
<1> QED
  BY <1>1, <1>2, <1>3, <1>4, <1>5, <1>6, <1>7, <1>8, <1>9, <1>10, <1>11, <1>12
     DEF Next, Worker, ControlCall, ControlProgress

(* A step that reports tells the truth, and none sends data after its      *)
(* round was reported.                                                     *)
LEMMA TruthfulResults ==
    ASSUME SenderInv, ReportInv, CountInv, ResultInv, [Next]_vars
    PROVE  [TruthfulStep]_vars
<1> SUFFICES TruthfulStep
  OBVIOUS
<1>1. tx' # tx => Transmit
  BY DEF Next, Worker, ControlCall, ControlProgress, WaitInterrupted, StartReached,
     BeginInterval, IntervalReached, DropDatagram,
     DelayDatagram, TransmitFails, AfterSend, IntervalDone, PauseCheck, EnterPause,
     LeavePause,
     ResumeReached, LoopEnded, NextDatagram, ReportOutcome,
     FinishWithoutDuplicateResult, Tick, StopRequest, ConfigureFault,
     ClearFault, RequestPause, Resume, Join, ReportStopped, ClearFlags,
     ApplyConfigure, ApplyReset, ApplyStart, RejectApply, vars, output
<1>2. Transmit => results[run] = <<>>
  BY DEF Transmit, MayTransmit, ResultInv
<1>3. results' # results => ReportOutcome \/ ReportStopped
  BY DEF Next, Worker, ControlCall, ControlProgress, WaitInterrupted, StartReached,
     BeginInterval, IntervalReached, DropDatagram,
     DelayDatagram, Transmit, TransmitFails, AfterSend, IntervalDone, PauseCheck,
     EnterPause, LeavePause,
     ResumeReached, LoopEnded, NextDatagram, FinishWithoutDuplicateResult, Tick,
     StopRequest, ConfigureFault,
     ClearFault, RequestPause, Resume, Join, ClearFlags, ApplyConfigure, ApplyReset,
     ApplyStart, RejectApply, vars, output
<1>4. ASSUME NEW r \in 1 .. MaxRuns, results'[r] # results[r]
      PROVE  LET n == Len(results'[r])
                 new == results'[r][n]
             IN  /\ new.status = "Completed" /\ ~fault => new.sent = TotalPacketCount
                 /\ n > 1 => /\ n = 2 /\ new.status = "Stopped"
                             /\ results[r][1].status # "Stopped"
  <2>1. CASE ReportOutcome
    <3>1. /\ run # 0 /\ results[run] = <<>>
      BY <2>1 DEF ReportOutcome, ReportInv, ResultInv, SenderInv, ControlInv
    <3>2. PICK status \in {"InvalidSchedulingOverrun", "Completed"} :
             EmitResult(status) /\ (status = "Completed" => pc = "reportCompleted")
      BY <2>1 DEF ReportOutcome
    <3>3. /\ results'[run] = Append(results[run], Result(status)) /\ r = run
      BY <1>4, <3>1, <3>2, OneMoreResult
    <3>4. Result(status).status = status /\ Result(status).sent = sent
      BY DEF Result
    <3>5. status = "Completed" /\ ~fault => sent = TotalPacketCount
      BY <3>2 DEF CountInv
    <3> HIDE DEF Result
    <3>6. \A x : Len(Append(<<>>, x)) = 1 /\ Append(<<>>, x)[1] = x
      OBVIOUS
    <3>7. Len(results'[r]) = 1 /\ results'[r][1] = Result(status)
      BY <3>1, <3>3, <3>6
    <3> QED BY <3>4, <3>5, <3>7
  <2>2. CASE ReportStopped
    <3>1. EmitResult("Stopped") /\ ctl.step = "report" /\ StopReports
      BY <2>2 DEF ReportStopped, ResultInv
    <3>2. r = run /\ run # 0
      BY <1>4, <3>1 DEF EmitResult, SenderInv, TypeOK, OutputType
    <3>3. results'[r] = Append(results[r], Result("Stopped")) /\ results[r] \in Seq(ResultType)
      BY <3>1, <3>2, OneMoreResult
    <3>4. results[r] = <<>> \/ (Len(results[r]) = 1 /\ results[r][1].status # "Stopped")
      BY <3>1, <3>2 DEF ResultInv, Open
    <3>5. Result("Stopped").status = "Stopped"
      BY DEF Result
    <3> HIDE DEF Result
    <3>6. /\ Len(results'[r]) = Len(results[r]) + 1
          /\ results'[r][Len(results[r]) + 1] = Result("Stopped")
      BY <3>3
    <3> QED BY <3>4, <3>5, <3>6, <3>3
  <2> QED BY <1>3, <1>4, <2>1, <2>2
<1> QED
  BY <1>1, <1>2, <1>4 DEF TruthfulStep

(* A result Completed without a fault plan counts every packet of the      *)
(* round; a second result of a round can only be the Stopped of a stop     *)
(* that overtook the worker; and nothing is sent after the result (run,    *)
(* stop, emitResult).                                                      *)
THEOREM ResultsAreTrue == Spec => [][TruthfulStep]_vars
<1>1. Init => SenderInv /\ ReportInv /\ CountInv /\ ResultInv
  <2>1. Init => CountInv /\ ResultInv
    BY DEF Init, CountInv, ResultInv, InDatagram, Idle
  <2> QED BY <2>1, SenderInit, ReportInit
<1>2. SenderInv /\ ReportInv /\ CountInv /\ ResultInv /\ [Next]_vars
      => (SenderInv /\ ReportInv /\ CountInv /\ ResultInv)'
  BY TypeStep, WorkerStep, ControlStep, DisclosureStep, ReportStep, CountStep,
     ResultStep DEF SenderInv
<1>3. SenderInv /\ ReportInv /\ CountInv /\ ResultInv /\ [Next]_vars => [TruthfulStep]_vars
  BY TruthfulResults
<1> QED
  BY <1>1, <1>2, <1>3, PTL DEF Spec
-----------------------------------------------------------------------------
(***************************************************************************)
(* AuthenticationSenderRuntime, used with pauses and resumes that          *)
(* alternate, implements SenderSchedule: for every round, every schedule   *)
(* of its threads and every value of the constants its steps are steps of  *)
(* the schedule or change nothing the schedule speaks of.                  *)
(*                                                                         *)
(* The hard step is Transmit: the runtime computes the time of a datagram  *)
(* from the start of its current segment and the intervals since           *)
(* (segStart, segFirst), the schedule from its timeline. FollowInv says    *)
(* which segment of the timeline the worker follows and that it never      *)
(* started it early; TimelineInv says what a pause and its resume leave in *)
(* the members until they are carried out.                                 *)
(***************************************************************************)

(* A segment of the timeline: its first interval and the time it starts.   *)
SegmentType == [first : Nat, ts : Nat]

(* The worker is at work.                                                  *)
Alive == pc \notin {"off", "done"}

(* A resume of a pause that took effect is still to be carried out.        *)
Resuming == resumeInterval # 0 /\ ~missed

(* The segment of the timeline that the worker follows.                    *)
Following == IF Resuming THEN Len(timeline) - 1 ELSE Len(timeline)

(* The pause and its resume as the members hold them: the one or the other *)
(* is outstanding, and the pause came too late exactly when the worker is  *)
(* behind it.                                                              *)
TimelineInv ==
    /\ now <= MaxTime
    /\ timeline \in Seq(SegmentType)
    /\ missed \in BOOLEAN
    /\ ~Alive => segFirst = 1 /\ ~running
    /\ Alive =>
        /\ pauseAfter # 0 => boundary.after = pauseAfter \/ resumeInterval = pauseAfter + 1
        /\ boundary.after # 0 => pauseAfter = boundary.after /\ resumeInterval = 0
        /\ resumeInterval # 0 => pauseAfter # 0
        /\ pauseAfter # 0 => (missed <=> interval > pauseAfter)
        /\ missed => pauseAfter # 0
        /\ pc \in {"waitPause", "paused", "waitResume"} => interval = pauseAfter
        /\ pc = "waitResume" => resumeInterval # 0 /\ waitTs = resumeTs

(* The worker works off the intervals of the segment it follows.           *)
InStep == {"head"} \cup (InInterval \ {"waitResume"})

(* The worker follows the last segment, or the one before it while the     *)
(* resume is still to be carried out; the intervals of later segments lie  *)
(* ahead of it, and it did not start its segment early.                    *)
FollowInv ==
    Alive =>
        /\ Following \in 1 .. Len(timeline)
        /\ \A m \in 1 .. Following : timeline[m].first <= interval
        /\ Resuming => timeline[Len(timeline)] = Segment(resumeInterval, resumeTs)
        /\ pc \in InStep \cup {"waitStart"} => segFirst = timeline[Following].first
        /\ pc = "waitResume" => segFirst = resumeInterval
        /\ pc = "waitStart" => timeline[Following].ts = startTs
        /\ pc \in InStep => timeline[Following].ts <= segStart

(* The inductive invariant.                                                *)
RefinementInv ==
    SenderInv /\ PauseInv /\ ReportInv /\ ResultInv /\ TimelineInv /\ FollowInv

(* A step of the alternating callers is a step of the runtime.             *)
LEMMA RefinedStep == [RefinementNext]_refinementVars => [Next]_vars
BY DEF RefinementNext, refinementVars, Next, ControlCall, AlternatingPause,
   AlternatingResume

(* Steps that touch neither pause nor resume.                              *)
LEMMA TimelineKept ==
    ASSUME TimelineInv, running' => running, Alive' <=> Alive,
           UNCHANGED <<now, timeline, missed, pauseAfter, boundary, resumeInterval,
                       resumeTs, interval, segFirst, waitTs>>,
           pc' \in {"waitPause", "paused", "waitResume"} =>
               pc \in {"waitPause", "paused", "waitResume"},
           pc' = "waitResume" => pc = "waitResume"
    PROVE  TimelineInv'
BY DEF TimelineInv, SegmentType

(* The timeline grows only by a resume or a new round.                     *)
LEMMA SameRound ==
    ASSUME NewRound, run' = run
    PROVE  timeline' = timeline /\ missed' = missed
BY DEF NewRound

(* No step of the runtime breaks TimelineInv.                              *)
LEMMA TimelineStep ==
    ASSUME RefinementInv, [RefinementNext]_refinementVars
    PROVE  TimelineInv'
<1> USE DEF RefinementInv, TimelineInv, Alive, SegmentType
<1>0. /\ interval \in Nat /\ pauseAfter \in Nat /\ resumeInterval \in Nat
      /\ now \in Nat /\ MaxTime \in Nat
      /\ StartLeads \subseteq Nat /\ ResumeLeads \subseteq Nat /\ resumeTs \in Nat
  BY LastIntervalType, SenderAssumption
     DEF SenderInv, TypeOK, WorkerType, MembersType
<1>1. CASE UNCHANGED refinementVars
  BY <1>1 DEF refinementVars, vars, members, worker, history
<1>2. ASSUME NEW k \in 1 .. LastInterval, NEW lead \in PauseLeads,
             AlternatingPause(k, lead)
      PROVE  TimelineInv'
  <2>1. /\ boundary.after = 0 /\ resumeInterval = 0 /\ pauseAfter' = k
        /\ boundary'.after = k
        /\ UNCHANGED <<now, timeline, resumeInterval, resumeTs, pc, interval, waitTs, segFirst>>
        /\ Alive /\ Alive'
    BY <1>2 DEF AlternatingPause, RequestPause, worker
  <2>2. k # 0 /\ interval # 0 /\ k \in Nat
    BY <2>1, LastIntervalType DEF SenderInv, WorkerInv
  <2>3. Alive => pauseAfter = 0 /\ pc \notin {"waitPause", "paused", "waitResume"}
    BY <2>1, <2>2, <1>0
  <2>4. missed' \in BOOLEAN /\ (missed' <=> interval > k)
    <3>1. missed' = (interval > k)
      BY <1>2, Zenon DEF AlternatingPause
    <3>2. (interval > k) \in BOOLEAN
      OBVIOUS
    <3> QED BY <3>1, <3>2, Zenon
  <2> QED
    BY <2>1, <2>2, <2>3, <2>4
<1>3. ASSUME NEW r \in 2 .. LastInterval + 1, NEW lead \in ResumeLeads,
             AlternatingResume(r, lead)
      PROVE  TimelineInv'
  <2>1. timeline' \in Seq(SegmentType)
    <3>1. Segment(r, now + lead) \in SegmentType
      BY <1>0, LastIntervalType DEF Segment
    <3>2. timeline' = timeline \/ timeline' = Append(timeline, Segment(r, now + lead))
      BY <1>3 DEF AlternatingResume, Resume
    <3> HIDE DEF SegmentType
    <3> QED BY <3>1, <3>2
  <2>2. /\ boundary.after # 0 /\ pauseAfter # 0 /\ resumeInterval' = pauseAfter + 1
        /\ boundary'.after = 0
        /\ UNCHANGED <<now, missed, pauseAfter, pc, interval, waitTs, segFirst>>
        /\ Alive /\ Alive'
    BY <1>3 DEF AlternatingResume, Resume, worker, NoBoundary
  <2>3. Alive => pc # "waitResume"
    BY <2>2
  <2>4. resumeInterval' # 0 /\ resumeInterval' = pauseAfter' + 1
    BY <2>2, <1>0
  <2>5. Alive' => /\ pauseAfter' # 0 => (missed' <=> interval' > pauseAfter')
                  /\ missed' => pauseAfter' # 0
                  /\ pc' \in {"waitPause", "paused", "waitResume"} => interval' = pauseAfter'
    BY <2>2
  <2>6. now' <= MaxTime /\ missed' \in BOOLEAN
    BY <2>2
  <2>7. /\ pauseAfter' # 0 /\ boundary'.after = 0 /\ pc' # "waitResume"
        /\ resumeInterval' # 0 /\ resumeInterval' = pauseAfter' + 1
        /\ pc' \notin {"off", "done"}
    BY <2>2, <2>3, <2>4
  <2>8. /\ pauseAfter' # 0 =>
              boundary'.after = pauseAfter' \/ resumeInterval' = pauseAfter' + 1
        /\ boundary'.after # 0 => pauseAfter' = boundary'.after /\ resumeInterval' = 0
        /\ resumeInterval' # 0 => pauseAfter' # 0
        /\ pc' = "waitResume" => resumeInterval' # 0 /\ waitTs' = resumeTs'
    BY <2>7
  <2>9. /\ pauseAfter' # 0 => (missed' <=> interval' > pauseAfter')
        /\ missed' => pauseAfter' # 0
        /\ pc' \in {"waitPause", "paused", "waitResume"} => interval' = pauseAfter'
    BY <2>5, <2>7
  <2> QED BY <2>1, <2>6, <2>7, <2>8, <2>9
<1>4. CASE Tick /\ NewRound
  BY <1>4, <1>0 DEF Tick, NewRound, members, worker, history
<1>5. CASE /\ WaitInterrupted \/ StartReached \/ BeginInterval \/ IntervalReached
              \/ DropDatagram \/ (\E ticks \in FaultDelays : DelayDatagram(ticks))
              \/ Transmit \/ TransmitFails \/ AfterSend \/ IntervalDone
              \/ EnterPause
              \/ LoopEnded \/ ReportOutcome
           /\ NewRound
  <2>1. /\ UNCHANGED <<run, now, pauseAfter, boundary, resumeInterval, resumeTs, interval>>
        /\ pc \notin {"off", "done"} /\ pc' \notin {"off", "done"}
        /\ pc' \in {"waitPause", "paused"} => pc \in {"waitPause", "paused"}
        /\ pc' # "waitResume"
    <3>1. CASE WaitInterrupted \/ StartReached \/ BeginInterval \/ IntervalReached
               \/ DropDatagram \/ (\E ticks \in FaultDelays : DelayDatagram(ticks))
               \/ Transmit
      BY <3>1 DEF WaitInterrupted, StartReached, BeginInterval, IntervalReached,
         DropDatagram, DelayDatagram, Transmit, MayTransmit, NextDatagram,
         members, history, Waiting
    <3>2. CASE TransmitFails \/ AfterSend \/ IntervalDone \/ EnterPause
               \/ LoopEnded \/ ReportOutcome
      BY <3>2 DEF TransmitFails, MayTransmit, AfterSend, IntervalDone, EnterPause,
         LoopEnded, Outcome, NextDatagram, ReportOutcome, members, history
    <3> QED BY <1>5, <3>1, <3>2
  <2>2. timeline' = timeline /\ missed' = missed
    BY <1>5, <2>1, SameRound
  <2> QED BY <2>1, <2>2
<1>6. CASE PauseCheck /\ NewRound
  BY <1>6, <1>0 DEF PauseCheck, PauseDue, NewRound, members, history
<1>7. CASE LeavePause /\ NewRound
  BY <1>7, <1>0 DEF LeavePause, NewRound, history
<1>8. CASE ResumeReached /\ NewRound
  BY <1>8, <1>0 DEF ResumeReached, NewRound, history
<1>9. CASE FinishWithoutDuplicateResult /\ NewRound
  BY <1>9, <1>0 DEF FinishWithoutDuplicateResult, NewRound
<1>10. ASSUME NEW op \in Calls, StopRequest(op), NewRound PROVE TimelineInv'
  <2>1. UNCHANGED <<run, running, now, pauseAfter, boundary, resumeInterval, resumeTs,
                    pc, interval, segFirst, waitTs>>
    BY <1>10 DEF StopRequest, worker
  <2> QED BY <1>10, <2>1, SameRound, TimelineKept
<1>11. CASE (ConfigureFault \/ ClearFault \/ ReportStopped \/ RejectApply) /\ NewRound
  <2>1. UNCHANGED <<run, running, now, pauseAfter, boundary, resumeInterval, resumeTs,
                    pc, interval, segFirst, waitTs>>
    BY <1>11 DEF ConfigureFault, ClearFault, ReportStopped, RejectApply, members,
       worker, history
  <2> QED BY <1>11, <2>1, SameRound, TimelineKept
<1>12. CASE (Join \/ ClearFlags \/ ApplyConfigure \/ ApplyReset) /\ NewRound
  <2>1. /\ UNCHANGED <<run, now, pauseAfter, boundary, resumeInterval, resumeTs,
                       interval, segFirst, waitTs>>
        /\ running' => running
    BY <1>12 DEF Join, ClearFlags, ApplyConfigure, ApplyReset, members, worker,
       history
  <2>2. pc \in {"off", "done"} /\ pc' = "off"
    BY <1>12 DEF Join, Joinable, ClearFlags, ApplyConfigure, ApplyReset, worker,
       SenderInv, ControlInv
  <2> QED BY <1>12, <2>1, <2>2, SameRound, TimelineKept
<1>13. CASE ApplyStart /\ NewRound
  <2>1. timeline' \in Seq(SegmentType)
    <3>1. Segment(1, startTs') \in SegmentType
      BY <1>13, <1>0 DEF Segment, ApplyStart
    <3>2. run' # run
      BY <1>13 DEF ApplyStart, SenderInv, TypeOK, MembersType
    <3> QED BY <1>13, <3>1, <3>2 DEF NewRound
  <2>2. missed' = FALSE
    BY <1>13 DEF NewRound, ApplyStart, SenderInv, TypeOK, MembersType
  <2>3. /\ pc' = "waitStart" /\ pauseAfter' = 0 /\ resumeInterval' = 0
        /\ boundary'.after = 0 /\ now' = now
    BY <1>13 DEF ApplyStart, NoBoundary
  <2> QED BY <2>1, <2>2, <2>3
<1> QED
  BY <1>1, <1>2, <1>3, <1>4, <1>5, <1>6, <1>7, <1>8, <1>9, <1>10, <1>11, <1>12,
     <1>13
     DEF RefinementNext, Worker, ControlProgress

(* Steps that move the worker no further than to a later interval of its   *)
(* segment.                                                                *)
LEMMA FollowKept ==
    ASSUME FollowInv,
           UNCHANGED <<timeline, missed, resumeInterval, resumeTs, segFirst, segStart, startTs>>,
           Alive' => Alive /\ interval <= interval' /\ interval \in Nat /\ interval' \in Nat,
           timeline \in Seq(SegmentType),
           pc' = "waitStart" => pc = "waitStart",
           pc' = "waitResume" => pc = "waitResume",
           pc' \in InStep => pc \in InStep
    PROVE  FollowInv'
<1> SUFFICES ASSUME Alive'
             PROVE  FollowInv'
  BY DEF FollowInv
<1>1. /\ Following' = Following /\ Resuming' = Resuming
      /\ Following \in 1 .. Len(timeline)
  BY DEF FollowInv, Following, Resuming
<1>2. \A m \in 1 .. Following : timeline[m].first \in Nat /\ timeline[m].first <= interval
  <2>1. Len(timeline) \in Nat /\ \A m \in 1 .. Len(timeline) : timeline[m] \in SegmentType
    OBVIOUS
  <2>2. \A m \in 1 .. Following : m \in 1 .. Len(timeline)
    BY <1>1, <2>1
  <2> QED
    BY <1>1, <2>1, <2>2 DEF FollowInv, SegmentType
<1>3. \A m \in 1 .. Following' : timeline'[m].first <= interval'
  BY <1>1, <1>2
<1> QED
  BY <1>1, <1>3 DEF FollowInv

(* No step of the runtime breaks FollowInv; the ones that matter are       *)
(* resume, which adds a segment, and ResumeReached, which begins it.       *)
LEMMA FollowStep ==
    ASSUME RefinementInv, [RefinementNext]_refinementVars
    PROVE  FollowInv'
<1>0. /\ interval \in Nat \ {0} /\ pauseAfter \in Nat /\ resumeInterval \in Nat
      /\ now \in Nat
      /\ timeline \in Seq(SegmentType) /\ missed \in BOOLEAN
  BY LastIntervalType, SenderAssumption
     DEF SenderInv, TypeOK, WorkerType, MembersType, RefinementInv, TimelineInv,
     WorkerInv
<1>1. CASE UNCHANGED refinementVars
  BY <1>1, <1>0, FollowKept DEF RefinementInv, InStep, InInterval, Alive,
     refinementVars, vars, members, worker
<1>2. ASSUME NEW k \in 1 .. LastInterval, NEW lead \in PauseLeads,
             AlternatingPause(k, lead)
      PROVE  FollowInv'
  <2>1. /\ resumeInterval = 0
        /\ UNCHANGED <<timeline, resumeInterval, resumeTs, pc, interval,
                       segFirst, segStart, startTs>>
    BY <1>2 DEF AlternatingPause, RequestPause, worker
  <2>2. ~Resuming /\ ~Resuming' /\ Following' = Following
    BY <2>1 DEF Resuming, Following
  <2> QED
    BY <2>1, <2>2 DEF FollowInv, RefinementInv, Alive
<1>3. ASSUME NEW r \in 2 .. LastInterval + 1, NEW lead \in ResumeLeads,
             AlternatingResume(r, lead)
      PROVE  FollowInv'
  <2> SUFFICES ASSUME Alive
               PROVE  FollowInv'
    BY <1>3 DEF AlternatingResume, Resume, worker, FollowInv, Alive
  <2>1. /\ resumeInterval = 0 /\ pc # "waitResume"
        /\ resumeInterval' = r /\ r # 0
        /\ timeline' = IF missed THEN timeline
                       ELSE Append(timeline, Segment(resumeInterval', resumeTs'))
        /\ UNCHANGED <<missed, pc, interval, segFirst, segStart, startTs>>
    BY <1>3, LastIntervalType DEF AlternatingResume, Resume, worker, RefinementInv,
       TimelineInv
  <2>2. ~Resuming /\ Following = Len(timeline) /\ Len(timeline) \in Nat
    BY <2>1, <1>0 DEF Resuming, Following
  <2>3. /\ Following \in 1 .. Len(timeline)
        /\ \A m \in 1 .. Following : timeline[m].first <= interval
        /\ pc \in InStep \cup {"waitStart"} => segFirst = timeline[Following].first
        /\ pc = "waitStart" => timeline[Following].ts = startTs
        /\ pc \in InStep => timeline[Following].ts <= segStart
    BY <2>1 DEF FollowInv, RefinementInv
  <2>4. CASE missed
    <3>1. ~Resuming' /\ timeline' = timeline
      BY <2>1, <2>4 DEF Resuming
    <3>2. Following' = Following
      BY <2>2, <3>1 DEF Following
    <3> QED
      BY <2>1, <2>2, <2>3, <3>1, <3>2 DEF FollowInv
  <2>5. CASE ~missed
    <3> DEFINE s == Segment(resumeInterval', resumeTs')
    <3>1. Resuming' /\ timeline' = Append(timeline, s)
      BY <2>1, <2>5 DEF Resuming
    <3> HIDE DEF s
    <3>2. /\ Len(timeline') = Len(timeline) + 1
          /\ timeline'[Len(timeline')] = s
          /\ \A m \in 1 .. Len(timeline) : timeline'[m] = timeline[m]
      BY <3>1, <1>0
    <3>3. Following' = Following
      BY <2>2, <3>1, <3>2 DEF Following
    <3>4. timeline'[Following] = timeline[Following]
      BY <2>2, <2>3, <3>2
    <3>5. \A m \in 1 .. Following' : timeline'[m].first <= interval'
      BY <2>1, <2>2, <2>3, <3>2, <3>3
    <3>6. Following' \in 1 .. Len(timeline')
      BY <2>2, <2>3, <3>2, <3>3
    <3> QED
      BY <2>1, <2>3, <3>1, <3>2, <3>3, <3>4, <3>5, <3>6 DEF FollowInv, s
  <2> QED BY <2>4, <2>5
<1>4. CASE Tick /\ NewRound
  BY <1>4, <1>0, FollowKept DEF RefinementInv, InStep, InInterval, Tick, NewRound,
     members, worker, Alive
<1>5. CASE /\ \/ BeginInterval \/ IntervalReached \/ DropDatagram
              \/ (\E ticks \in FaultDelays : DelayDatagram(ticks)) \/ Transmit
              \/ TransmitFails
              \/ AfterSend \/ IntervalDone \/ EnterPause \/ LoopEnded
              \/ ReportOutcome
           /\ NewRound
  <2>1. /\ UNCHANGED <<run, interval, resumeInterval, resumeTs, segFirst, segStart, startTs>>
        /\ pc \notin {"off", "done"}
    BY <1>5 DEF BeginInterval, IntervalReached, DropDatagram,
       DelayDatagram, Transmit, TransmitFails, MayTransmit, AfterSend, IntervalDone,
       EnterPause, LoopEnded,
       ReportOutcome, members
  <2>2. /\ pc' \notin {"waitStart", "waitResume"}
        /\ pc' \in InStep => pc \in InStep
    BY <1>5 DEF InStep, InInterval, BeginInterval, IntervalReached, DropDatagram,
       DelayDatagram, Transmit, TransmitFails, MayTransmit, AfterSend, IntervalDone,
       EnterPause, LoopEnded,
       Outcome, NextDatagram, ReportOutcome
  <2> QED
    BY <1>5, <1>0, <2>1, <2>2, SameRound, FollowKept DEF RefinementInv, Alive
<1>6. CASE WaitInterrupted /\ NewRound
  BY <1>6, <1>0, FollowKept DEF RefinementInv, InStep, InInterval, WaitInterrupted,
     NewRound, members, Alive, Waiting
<1>7. CASE StartReached /\ NewRound
  BY <1>7, <1>0 DEF InStep, InInterval, StartReached, NewRound, RefinementInv,
     FollowInv, Following, Resuming, Alive, members
<1>8. CASE PauseCheck /\ NewRound
  <2>1. interval <= interval'
    BY <1>8, <1>0 DEF PauseCheck
  <2>2. interval' \in Nat
    BY <1>8, <1>0 DEF PauseCheck
  <2> QED
  BY <1>8, <2>1, <2>2, <1>0, FollowKept
     DEF RefinementInv, InStep, InInterval, PauseCheck, NewRound, members, Alive
<1>9. CASE LeavePause /\ NewRound
  BY <1>9, <1>0 DEF InStep, InInterval, LeavePause, SegmentFirst, NewRound,
     RefinementInv, FollowInv, Following, Resuming, Alive
<1>10. CASE ResumeReached /\ NewRound
  <2>1. /\ pc = "waitResume" /\ pc' = "head" /\ now >= waitTs /\ segStart' = now
        /\ resumeInterval' = 0
        /\ interval' = interval + 1 /\ Alive
        /\ UNCHANGED <<timeline, missed, resumeTs, segFirst>>
    BY <1>10 DEF ResumeReached, NewRound, Alive
  <2>2. /\ resumeInterval # 0 /\ waitTs = resumeTs /\ interval = pauseAfter
        /\ resumeInterval = pauseAfter + 1
        /\ ~missed /\ pauseAfter # 0
    BY <2>1, <1>0 DEF RefinementInv, TimelineInv
  <2>3. Resuming /\ ~Resuming' /\ Following = Len(timeline) - 1 /\ Following' = Len(timeline)
    BY <2>1, <2>2 DEF Resuming, Following
  <2>4. /\ Len(timeline) \in Nat \ {0}
        /\ timeline[Len(timeline)].first = resumeInterval
        /\ timeline[Len(timeline)].ts = resumeTs
        /\ segFirst = resumeInterval
        /\ \A m \in 1 .. Len(timeline) - 1 :
              timeline[m].first <= interval /\ timeline[m].first \in Nat
    <3>1. /\ Following \in 1 .. Len(timeline)
          /\ \A m \in 1 .. Following : timeline[m].first <= interval
          /\ timeline[Len(timeline)] = Segment(resumeInterval, resumeTs)
          /\ segFirst = resumeInterval
      BY <2>1, <2>3 DEF RefinementInv, FollowInv
    <3>2. Len(timeline) \in Nat /\ \A m \in 1 .. Len(timeline) : timeline[m] \in SegmentType
      BY <1>0
    <3>3. \A m \in 1 .. Len(timeline) - 1 : m \in 1 .. Following /\ m \in 1 .. Len(timeline)
      BY <2>3, <3>2
    <3> QED BY <2>3, <3>1, <3>2, <3>3 DEF Segment, SegmentType
  <2>5. \A m \in 1 .. Len(timeline) : timeline[m].first <= interval'
    BY <1>0, <2>1, <2>2, <2>4
  <2> QED
    BY <1>0, <2>1, <2>2, <2>3, <2>4, <2>5 DEF FollowInv, InStep, InInterval
<1>11. CASE FinishWithoutDuplicateResult /\ NewRound
  BY <1>11 DEF FinishWithoutDuplicateResult, FollowInv, Alive
<1>12. ASSUME NEW op \in Calls, StopRequest(op), NewRound PROVE FollowInv'
  BY <1>12, <1>0, FollowKept DEF RefinementInv, InStep, InInterval, StopRequest,
     NewRound, worker, Alive
<1>13. CASE (ConfigureFault \/ ClearFault) /\ NewRound
  <2>1. UNCHANGED <<run, interval, resumeInterval, resumeTs, segFirst, segStart, startTs, pc>>
    BY <1>13 DEF ConfigureFault, ClearFault, worker
  <2> QED
    BY <1>13, <1>0, <2>1, SameRound, FollowKept DEF RefinementInv, Alive
<1>14. CASE /\ \/ Join \/ ReportStopped \/ ClearFlags \/ ApplyConfigure
               \/ ApplyReset \/ RejectApply
            /\ NewRound
  <2>1. pc' = "off"
    BY <1>14 DEF Join, Joinable, ReportStopped, ClearFlags, ApplyConfigure,
       ApplyReset, RejectApply, worker,
       RefinementInv, SenderInv, ControlInv
  <2> QED BY <2>1 DEF FollowInv, Alive
<1>15. CASE ApplyStart /\ NewRound
  <2>1. /\ pc' = "waitStart" /\ resumeInterval' = 0
        /\ interval' = 1 /\ segFirst' = 1 /\ run' # run
    BY <1>15 DEF ApplyStart, RefinementInv, SenderInv, TypeOK, MembersType,
       ControlInv, WorkerInv, TimelineInv, Alive
  <2>2. timeline' = <<Segment(1, startTs')>>
    BY <1>15, <2>1 DEF NewRound
  <2> QED BY <2>1, <2>2 DEF FollowInv, Following, Resuming, Segment, InStep,
             InInterval
<1> QED
  BY <1>1, <1>2, <1>3, <1>4, <1>5, <1>6, <1>7, <1>8, <1>9, <1>10, <1>11, <1>12,
     <1>13, <1>14, <1>15
     DEF RefinementNext, Worker, ControlProgress

(* The segment an interval lies in is the last one that does not begin     *)
(* behind it.                                                              *)
LEMMA SegmentFollowed ==
    ASSUME NEW line \in Seq(SegmentType), NEW i \in Nat, NEW c \in 1 .. Len(line),
           \A m \in 1 .. c : line[m].first <= i,
           c < Len(line) => line[c + 1].first > i
    PROVE  Schedule!SegmentOf(line, i) = line[c]
<1> DEFINE P(n) == /\ \A m \in 1 .. n : line[m].first <= i
                   /\ n < Len(line) => line[n + 1].first > i
<1>1. Len(line) \in Nat /\ DOMAIN line = 1 .. Len(line)
  OBVIOUS
<1>2. \A m \in 1 .. Len(line) : line[m].first \in Nat
  <2>1. \A m \in 1 .. Len(line) : line[m] \in SegmentType
    OBVIOUS
  <2> QED BY <2>1 DEF SegmentType
<1>3. c \in DOMAIN line /\ P(c)
  BY <1>1
<1>4. ASSUME NEW n \in DOMAIN line, P(n) PROVE n = c
  <2>1. n \in 1 .. Len(line) /\ n \in Nat /\ c \in Nat
    BY <1>1
  <2>2. ~(n < c)
    <3> SUFFICES ASSUME n < c PROVE FALSE
      OBVIOUS
    <3>1. n + 1 \in 1 .. c /\ n < Len(line) /\ n + 1 \in 1 .. Len(line)
      BY <1>1, <2>1
    <3> QED BY <1>2, <1>3, <1>4, <3>1
  <2>3. ~(c < n)
    <3> SUFFICES ASSUME c < n PROVE FALSE
      OBVIOUS
    <3>1. c + 1 \in 1 .. n /\ c < Len(line) /\ c + 1 \in 1 .. Len(line)
      BY <1>1, <2>1
    <3> QED BY <1>2, <1>3, <1>4, <3>1
  <2> QED BY <2>1, <2>2, <2>3
<1>5. (CHOOSE n \in DOMAIN line : P(n)) = c
  <2> HIDE DEF P
  <2> QED BY <1>3, <1>4
<1> QED
  BY <1>5 DEF Schedule!SegmentOf

(* A datagram the worker may send has its time come by the timeline, and   *)
(* no pause in force holds it back.                                        *)
LEMMA InTime ==
    ASSUME RefinementInv, MayTransmit
    PROVE  /\ now >= Schedule!IntervalStartTimestamp(timeline, current)
           /\ ~Schedule!HeldByPause(timeline, IF missed THEN 0 ELSE boundary.after, current)
<1> DEFINE seg == timeline[Following]
<1>1. /\ pc \in InDatagram /\ Alive /\ pc \in InInterval /\ pc \in InStep
      /\ interval = current
  BY DEF MayTransmit, InDatagram, InInterval, InStep, Alive, RefinementInv, PauseInv
<1>2. /\ interval \in 1 .. LastInterval /\ interval \in Nat /\ index \in Nat
      /\ index \in Nat \ {0}
      /\ segStart \in Nat /\ delay \in Nat /\ now \in Nat /\ segFirst \in Nat
      /\ pauseAfter \in Nat /\ resumeInterval \in Nat
      /\ timeline \in Seq(SegmentType)
      /\ DatagramCount(TotalPacketCount, interval) \in Nat \ {0}
      /\ IntervalLength \in Nat
  <2>1. interval \in 1 .. LastInterval
    BY <1>1, LastIntervalType DEF RefinementInv, SenderInv, TypeOK, WorkerType,
       WorkerInv
  <2>2. DatagramCount(TotalPacketCount, interval) \in Nat \ {0}
    BY <2>1, LastIntervalType, DatagramCounts
  <2> QED
    BY <1>1, <2>1, <2>2, LastIntervalType
       DEF RefinementInv, SenderInv, TypeOK, WorkerType, WorkerInv, MembersType,
       TimelineInv
<1>3. /\ Following \in 1 .. Len(timeline)
      /\ \A m \in 1 .. Following : timeline[m].first <= interval
      /\ segFirst = seg.first
      /\ seg.ts <= segStart
  BY <1>1 DEF RefinementInv, FollowInv
<1>4. Following < Len(timeline) => timeline[Following + 1].first > interval
  <2> SUFFICES ASSUME Following < Len(timeline)
               PROVE  timeline[Following + 1].first > interval
    OBVIOUS
  <2>1. Resuming /\ Following + 1 = Len(timeline)
    BY <1>2 DEF Following
  <2>2. timeline[Len(timeline)].first = resumeInterval
    BY <1>1, <2>1 DEF RefinementInv, FollowInv, Segment
  <2>3. /\ ~missed /\ resumeInterval # 0 /\ boundary.after = 0
        /\ pauseAfter # 0 /\ resumeInterval = pauseAfter + 1
    BY <1>1, <2>1 DEF RefinementInv, TimelineInv, Resuming
  <2>4. ~(interval > pauseAfter)
    BY <1>1, <2>3 DEF RefinementInv, TimelineInv
  <2> QED BY <1>2, <2>1, <2>2, <2>3, <2>4
<1>5. Schedule!SegmentOf(timeline, interval) = seg
  BY <1>2, <1>3, <1>4, SegmentFollowed
<1>6. seg.ts \in Nat /\ seg.first \in Nat /\ seg.first <= interval
  <2>1. seg \in SegmentType
    BY <1>2, <1>3
  <2>2. Following \in 1 .. Following
    BY <1>2, <1>3
  <2> QED BY <1>3, <2>1, <2>2 DEF SegmentType
<1> HIDE DEF seg
<1>7. now >= segStart + IntervalLength * (interval - segFirst)
  <2>1. IntervalStart = segStart + IntervalLength * (interval - segFirst)
    BY <1>2, <1>3, <1>6 DEF IntervalStart, IntervalsSince
  <2>2. PacketGap * (index - 1) \in Nat
    <3>1. PacketGap \in Nat
      BY <1>2 DEF PacketGap
    <3>2. index - 1 \in Nat
      BY <1>2
    <3> QED BY <3>1, <3>2
  <2>3. IntervalLength * (interval - segFirst) \in Nat
    <3>1. interval - segFirst \in Nat
      BY <1>2, <1>3, <1>6
    <3> QED BY <3>1, <1>2
  <2>4. now >= IntervalStart + PacketGap * (index - 1) + delay
    BY DEF MayTransmit, SendTarget
  <2> QED BY <1>2, <2>1, <2>2, <2>3, <2>4
<1>8. now >= Schedule!IntervalStartTimestamp(timeline, current)
  <2> DEFINE passed == IntervalLength * (interval - segFirst)
  <2>1. passed = (interval - seg.first) * IntervalLength
    BY <1>2, <1>3 DEF seg
  <2>2. Schedule!IntervalStartTimestamp(timeline, current) = seg.ts + passed
    BY <1>1, <1>5, <2>1 DEF Schedule!IntervalStartTimestamp
  <2>3. passed \in Nat
    <3>1. interval - segFirst \in Nat
      BY <1>2, <1>3, <1>6 DEF seg
    <3> QED BY <3>1, <1>2
  <2>4. now >= segStart + passed
    BY <1>7
  <2>5. seg.ts <= segStart
    BY <1>3 DEF seg
  <2> HIDE DEF passed
  <2> QED BY <1>2, <1>6, <2>2, <2>3, <2>4, <2>5
<1>9. ~missed /\ boundary.after # 0 => ~(current > boundary.after)
  BY <1>1 DEF RefinementInv, TimelineInv
<1> QED
  BY <1>8, <1>9 DEF Schedule!HeldByPause

(* Every step of the runtime is a step of the schedule or changes nothing  *)
(* of it.                                                                  *)
LEMMA StutterOrStep ==
    ASSUME RefinementInv, [RefinementNext]_refinementVars
    PROVE  [Schedule!Next]_(Schedule!vars)
<1> DEFINE hold == IF missed THEN 0 ELSE boundary.after
<1>0. /\ interval \in Nat \ {0} /\ pauseAfter \in Nat /\ resumeInterval \in Nat
      /\ now \in Nat
      /\ timeline \in Seq(SegmentType) /\ missed \in BOOLEAN /\ now \in 0 .. MaxTime
      /\ StartLead \in Nat
      /\ StartLeads \subseteq Nat /\ ResumeLeads \subseteq Nat /\ run \in Nat
      /\ current \in Nat
  BY LastIntervalType, SenderAssumption
     DEF SenderInv, TypeOK, WorkerType, MembersType, RefinementInv, TimelineInv,
     WorkerInv
<1>a. ASSUME UNCHANGED <<now, running, timeline, missed, boundary, current, disclosed, tx>>
      PROVE  UNCHANGED Schedule!vars
  BY <1>a DEF Schedule!vars
<1>b. ASSUME UNCHANGED <<now, timeline, missed, boundary, current, disclosed, tx>>,
             running' = FALSE
      PROVE  [Schedule!Next]_(Schedule!vars)
  <2>1. CASE running
    BY <1>b, <2>1 DEF Schedule!Next, Schedule!Finish
  <2>2. CASE ~running
    <3>1. running' = running
      BY <1>b, <2>2 DEF RefinementInv, SenderInv, TypeOK, MembersType
    <3> QED BY <1>b, <1>a, <3>1
  <2> QED BY <2>1, <2>2
<1>1. CASE UNCHANGED refinementVars
  BY <1>1, <1>a DEF refinementVars, vars, members, output, history
<1>2. ASSUME NEW k \in 1 .. LastInterval, NEW lead \in PauseLeads,
             AlternatingPause(k, lead)
      PROVE  [Schedule!Next]_(Schedule!vars)
  <2>1. /\ running /\ k # 0 /\ k >= current /\ boundary.after = 0
        /\ boundary'.after = k
        /\ UNCHANGED <<now, running, timeline, current, disclosed, tx>>
    BY <1>2 DEF AlternatingPause, RequestPause, output
  <2>2. CASE missed'
    BY <2>1, <2>2 DEF Schedule!vars
  <2>3. CASE ~missed'
    <3>1. Schedule!Pause(k)
      BY <2>1, <2>3 DEF Schedule!Pause
    <3>2. k \in 1 .. Schedule!LastLogicalInterval(TotalPacketCount)
      BY DEF LastInterval, Schedule!LastLogicalInterval, LastLogicalInterval,
         Schedule!DataIntervalCount, DataIntervalCount
    <3> QED BY <3>1, <3>2 DEF Schedule!Next
  <2> QED BY <2>2, <2>3
<1>3. ASSUME NEW r \in 2 .. LastInterval + 1, NEW lead \in ResumeLeads,
             AlternatingResume(r, lead)
      PROVE  [Schedule!Next]_(Schedule!vars)
  <2>1. /\ running /\ boundary.after # 0 /\ boundary'.after = 0 /\ lead > StartLead
        /\ r = pauseAfter + 1 /\ resumeInterval' = r /\ resumeTs' = now + lead
        /\ UNCHANGED <<now, missed, running, current, disclosed, tx>>
    BY <1>3 DEF AlternatingResume, Resume, output, NoBoundary
  <2>2. timeline' = IF missed THEN timeline ELSE Append(timeline, Segment(r, now + lead))
    BY <1>3, <2>1 DEF AlternatingResume
  <2>3. CASE missed
    BY <2>1, <2>2, <2>3 DEF Schedule!vars
  <2>4. CASE ~missed
    <3>1. Alive
      BY <2>1 DEF RefinementInv, TimelineInv
    <3>2. pauseAfter = boundary.after
      BY <2>1, <3>1 DEF RefinementInv, TimelineInv
    <3>3. now + lead > now
      BY <1>0, <2>1
    <3>4. Schedule!Resume(now + lead)
      BY <2>1, <2>2, <2>4, <3>2, <3>3 DEF Schedule!Resume, Segment, Schedule!Segment
    <3> QED BY <1>0, <3>4 DEF Schedule!Next
  <2> QED BY <2>3, <2>4
<1>4. CASE Tick /\ NewRound
  <2>1. run' = run /\ UNCHANGED <<running, boundary, current, disclosed, tx>> /\ now' = now + 1
    BY <1>4 DEF Tick, members, output, history
  <2> QED BY <1>4, <2>1, SameRound DEF Schedule!Next, Schedule!Tick
<1>5. CASE /\ \/ WaitInterrupted \/ StartReached \/ IntervalReached \/ DropDatagram \/ PauseCheck
              \/ (\E ticks \in FaultDelays : DelayDatagram(ticks)) \/ TransmitFails
              \/ AfterSend \/ IntervalDone \/ EnterPause \/ LeavePause
              \/ ResumeReached \/ LoopEnded \/ ReportOutcome
           /\ NewRound
  <2>1. UNCHANGED <<run, now, running, boundary, current, disclosed, tx>>
    BY <1>5 DEF WaitInterrupted, StartReached, IntervalReached, DropDatagram,
       PauseCheck,
       DelayDatagram, TransmitFails, MayTransmit, AfterSend, IntervalDone,
       EnterPause, LoopEnded,
       LeavePause, ResumeReached, ReportOutcome, members, output, history
  <2> QED BY <1>5, <2>1, <1>a, SameRound
<1>6. CASE BeginInterval /\ NewRound
  <2>1. /\ pc = "head" /\ UNCHANGED <<run, now, running, boundary, disclosed, tx>>
        /\ current' = current \/ (current' = interval /\ interval <= LastInterval)
    BY <1>6, <1>0, LastIntervalType DEF BeginInterval, output, history
  <2>2. UNCHANGED <<timeline, missed>>
    BY <1>6, <2>1, SameRound
  <2>3. CASE current' = current
    BY <2>1, <2>2, <2>3, <1>a
  <2>4. CASE current' = interval /\ interval <= LastInterval
    <3>1. /\ interval = current + 1 /\ running /\ Alive
      BY <2>1 DEF RefinementInv, PauseInv, ReportInv, Alive
    <3>2. hold # 0 => current # hold
      BY <1>0, <3>1 DEF RefinementInv, TimelineInv
    <3>3. current < Schedule!LastLogicalInterval(TotalPacketCount)
      BY <1>0, <2>4, <3>1, LastIntervalType
         DEF LastInterval, Schedule!LastLogicalInterval, LastLogicalInterval,
              Schedule!DataIntervalCount, DataIntervalCount
    <3>4. Schedule!ReachNext
      BY <2>1, <2>2, <2>4, <3>1, <3>2, <3>3 DEF Schedule!ReachNext
    <3> QED BY <3>4 DEF Schedule!Next
  <2> QED BY <2>1, <2>3, <2>4
<1>7. CASE Transmit /\ NewRound
  <2> DEFINE dg == Datagram(TotalPacketCount, interval, index)
  <2>1. /\ MayTransmit /\ tx' = [run |-> run, dg |-> dg]
        /\ disclosed' = IF dg.key # 0 THEN disclosed \cup {dg.key} ELSE disclosed
        /\ UNCHANGED <<run, now, running, boundary, current>>
    BY <1>7 DEF Transmit, KeysOf, members, history
  <2>2. UNCHANGED <<timeline, missed>>
    BY <1>7, <2>1, SameRound
  <2>3. /\ pc \in InDatagram /\ running /\ interval = current
    BY <2>1 DEF MayTransmit, InDatagram, InInterval, RefinementInv, PauseInv,
       ReportInv
  <2>4. dg.interval = current
    BY <2>3, TransmittedDatagram DEF RefinementInv, SenderInv
  <2>5. dg \in Schedule!Datagrams(TotalPacketCount)
    <3>1. /\ interval \in 1 .. LastInterval
          /\ index \in 1 .. DatagramCount(TotalPacketCount, interval)
      BY <2>3, LastIntervalType
         DEF RefinementInv, SenderInv, TypeOK, WorkerType, WorkerInv, InInterval,
         InDatagram
    <3>2. dg = Schedule!Datagram(TotalPacketCount, interval, index)
      BY DEF Schedule!Datagram, Datagram, Schedule!DataIntervalCount,
         DataIntervalCount,
         Schedule!FirstPacketIndex, FirstPacketIndex, Schedule!DisclosedKey,
         DisclosedKey
    <3>3. /\ interval \in 1 .. Schedule!LastLogicalInterval(TotalPacketCount)
          /\ index \in 1 .. Schedule!DatagramCount(TotalPacketCount, interval)
      BY <3>1 DEF LastInterval, Schedule!LastLogicalInterval, LastLogicalInterval,
         Schedule!DataIntervalCount, DataIntervalCount,
         Schedule!DatagramCount, DatagramCount, Schedule!DataPacketCount,
         DataPacketCount,
         Schedule!LastPacketIndex, LastPacketIndex, Schedule!FirstPacketIndex,
         FirstPacketIndex
    <3> HIDE DEF dg
    <3> QED BY <3>2, <3>3 DEF Schedule!Datagrams
  <2>6. /\ now >= Schedule!IntervalStartTimestamp(timeline, current)
        /\ ~Schedule!HeldByPause(timeline, hold, current)
    BY <2>1, InTime
  <2> HIDE DEF dg
  <2>7. Schedule!Send(dg)
    BY <2>1, <2>2, <2>3, <2>4, <2>6 DEF Schedule!Send
  <2> QED BY <2>5, <2>7 DEF Schedule!Next
<1>8. CASE FinishWithoutDuplicateResult /\ NewRound
  <2>1. UNCHANGED <<run, now, boundary, current, disclosed, tx>> /\ running' = FALSE
    BY <1>8 DEF FinishWithoutDuplicateResult, output, history
  <2> QED BY <1>8, <2>1, <1>b, SameRound
<1>9. ASSUME NEW op \in Calls, StopRequest(op), NewRound
      PROVE  [Schedule!Next]_(Schedule!vars)
  <2>1. UNCHANGED <<run, now, running, boundary, current, disclosed, tx>>
    BY <1>9 DEF StopRequest, output
  <2> QED BY <1>9, <2>1, <1>a, SameRound
<1>10. CASE (ConfigureFault \/ ClearFault \/ Join \/ ReportStopped \/ RejectApply) /\ NewRound
  <2>1. UNCHANGED <<run, now, running, boundary, current, disclosed, tx>>
    BY <1>10 DEF ConfigureFault, ClearFault, Join, ReportStopped, RejectApply,
       members, output, history
  <2> QED BY <1>10, <2>1, <1>a, SameRound
<1>11. CASE (ClearFlags \/ ApplyConfigure \/ ApplyReset) /\ NewRound
  <2>1. UNCHANGED <<run, now, boundary, current, disclosed, tx>> /\ running' = FALSE
    BY <1>11 DEF ClearFlags, ApplyConfigure, ApplyReset, output, history
  <2> QED BY <1>11, <2>1, <1>b, SameRound
<1>12. CASE ApplyStart /\ NewRound
  <2>1. /\ ~running /\ running' = TRUE /\ current' = 0 /\ disclosed' = {}
        /\ boundary'.after = 0
        /\ run' = run + 1 /\ UNCHANGED <<now, tx>>
    BY <1>12 DEF ApplyStart, NoBoundary, RefinementInv, ResultInv
  <2>2. PICK lead \in StartLeads : startTs' = now + lead /\ now + lead > now + StartLead
    BY <1>12 DEF ApplyStart
  <2>3. timeline' = <<Segment(1, now + lead)>>
    BY <1>12, <1>0, <2>1, <2>2 DEF NewRound
  <2>4. now + lead > now
    BY <1>0, <2>2
  <2>5. Schedule!Begin(now + lead)
    BY <2>1, <2>3, <2>4 DEF Schedule!Begin, Segment, Schedule!Segment
  <2> QED BY <1>0, <2>5 DEF Schedule!Next
<1> QED
  BY <1>1, <1>2, <1>3, <1>4, <1>5, <1>6, <1>7, <1>8, <1>9, <1>10, <1>11, <1>12
     DEF RefinementNext, Worker, ControlProgress

(* A runtime that is not configured keeps its promise.                     *)
LEMMA RefinementStarts ==
    ASSUME RefinementInit
    PROVE  RefinementInv /\ Schedule!Init
<1> SUFFICES ASSUME Init, timeline = <<>>, missed = FALSE
             PROVE  RefinementInv /\ Schedule!Init
  BY DEF RefinementInit
<1>1. SenderInv /\ PauseInv /\ ReportInv
  BY SenderInit, PauseInit, ReportInit
<1>2. ~Alive /\ segFirst = 1 /\ ~running /\ now <= MaxTime
  BY SenderAssumption DEF Init, Alive
<1>3. TimelineInv /\ FollowInv
  <2>1. timeline \in Seq(SegmentType)
    OBVIOUS
  <2> QED BY <1>2, <2>1 DEF TimelineInv, FollowInv
<1>4. ResultInv
  BY DEF Init, ResultInv, Idle, StopReports
<1>5. Schedule!Init
  BY DEF Init, Schedule!Init, NoBoundary, NoDatagram, Schedule!NoDatagram
<1> QED BY <1>1, <1>3, <1>4, <1>5 DEF RefinementInv

(* Every step keeps it.                                                    *)
LEMMA RefinementKept ==
    ASSUME RefinementInv, [RefinementNext]_refinementVars
    PROVE  RefinementInv'
BY RefinedStep, TypeStep, WorkerStep, ControlStep, DisclosureStep, PauseStep,
   ReportStep, ResultStep,
   TimelineStep, FollowStep DEF RefinementInv, SenderInv

(* The sender works off its intervals in order, never ahead of the         *)
(* timeline that start and resume have set, and never behind a pause that  *)
(* took effect (run, requestPause, resume): the runtime implements         *)
(* SenderSchedule.                                                         *)
THEOREM SenderKeepsSchedule == RefinementSpec => Schedule!Spec
<1>1. RefinementInit => RefinementInv /\ Schedule!Init
  BY RefinementStarts
<1>2. RefinementInv /\ [RefinementNext]_refinementVars => RefinementInv'
  BY RefinementKept
<1>3. RefinementInv /\ [RefinementNext]_refinementVars => [Schedule!Next]_(Schedule!vars)
  BY StutterOrStep
<1> QED
  BY <1>1, <1>2, <1>3, PTL DEF RefinementSpec, Schedule!Spec

(* The planned caller's sender, in the terms of the invariant.             *)
PlannedInv == caller = "planned" => RefinementInv

(* What a step of the planned caller is.                                   *)
LEMMA PlannedStep ==
    ASSUME [MCNext]_allVars, caller = "planned"
    PROVE  caller' = "planned" /\ [RefinementNext]_refinementVars
<1>1. CASE UNCHANGED allVars
  BY <1>1 DEF allVars
<1>2. CASE MCNext
  <2>1. UNCHANGED caller /\ Planned
    BY <1>2 DEF MCNext, PunctualTick, PunctualWorker, PunctualCall
  <2> QED BY <2>1 DEF Planned
<1> QED BY <1>1, <1>2

(* The planned caller starts and configures between the rounds, at any     *)
(* moment and however late the worker is: the schedule it has asked for is *)
(* kept (run, requestPause, resume, start, configure).                     *)
THEOREM PlannedKept == MCSpec => PlannedScheduleKept
<1>1. MCInit => PlannedInv /\ (caller = "planned" => Schedule!Init)
  BY RefinementStarts DEF MCInit, PlannedInv, RefinementInit
<1>2. PlannedInv /\ [MCNext]_allVars => PlannedInv'
  <2> SUFFICES ASSUME PlannedInv, [MCNext]_allVars, caller' = "planned"
               PROVE  RefinementInv'
    BY DEF PlannedInv
  <2>1. caller = "planned"
    BY DEF MCNext, allVars
  <2> QED BY <2>1, PlannedStep, RefinementKept DEF PlannedInv
<1>3. PlannedInv /\ [MCNext]_allVars
        => (caller = "planned" => [Schedule!Next]_(Schedule!vars))
  BY PlannedStep, StutterOrStep DEF PlannedInv
<1>4. PlannedInv /\ [MCNext]_allVars
        => [caller = "planned" => [Schedule!Next]_(Schedule!vars)]_allVars
  BY <1>3
<1> QED
  BY <1>1, <1>2, <1>4, PTL DEF MCSpec, PlannedScheduleKept
=============================================================================
