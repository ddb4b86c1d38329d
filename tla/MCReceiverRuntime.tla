-------------------------- MODULE MCReceiverRuntime --------------------------
(* The receiver in four surroundings, chosen at the start:                  *)
(*   "hostile"  a round of two packets in two intervals that is neither     *)
(*              stopped nor paused, and a network that loses, repeats,      *)
(*              reorders and alters datagrams (the constants of the cfg);   *)
(*   "pair"     two senders whose rounds differ in length, and a pause that *)
(*              one of them may refuse;                                     *)
(*   "calls"    short rounds that are started, replaced, paused, stopped    *)
(*              and reconfigured at any time up to LastCall;                *)
(*   "fair"     one such round with fair threads and a clock that moves.    *)
EXTENDS ReceiverRuntime

VARIABLE surroundings

MCOneTotal == <<2>>

Pair ==
    INSTANCE ReceiverRuntime WITH
        ContextCount <- 2, PacketTotal <- <<2, 1>>, ReceivedCopies <- {"genuine"},
        MaxPauses <- 1, MaxSegments <- 1, MaxTime <- 4

Short ==
    INSTANCE ReceiverRuntime WITH
        PacketTotal <- <<1>>, ReceivedCopies <- {"genuine"}, MaxPauses <- 2, MaxTime <- 7

LastCall == 2  \* no deadline is set later, so all of them lie before MaxTime
-----------------------------------------------------------------------------
(* A round that is configured once and neither stopped nor replaced. *)
SteadyHostile ==
    \/ Tick \/ Network \/ Worker \/ ControlProgress
    \/ ConfigureStops /\ run = 0
    \/ \E lead \in StartLeads : Start(lead) /\ run = 0

SteadyPair ==
    \/ Pair!Tick \/ Pair!Network \/ Pair!Worker \/ Pair!ControlProgress
    \/ Pair!ConfigureStops /\ run = 0
    \/ \E lead \in StartLeads : Pair!Start(lead) /\ run = 0
    \/ \E k \in Pair!Intervals : \/ \E lead \in PauseLeads : Pair!RequestPause(k, lead)
                                 \/ \E lead \in ResumeLeads : Pair!Resume(k, lead)

AnyCalls ==
    \/ Short!Tick \/ Short!Network \/ Short!Worker \/ Short!ControlProgress
    \/ Short!ControlCall /\ now <= LastCall

MCInit ==
    \/ surroundings \in {"hostile"} /\ Init
    \/ surroundings \in {"pair"} /\ Pair!Init
    \/ surroundings \in {"calls", "fair"} /\ Short!Init

allVars == <<vars, surroundings>>

MCNext ==
    /\ UNCHANGED surroundings
    /\ \/ surroundings = "hostile" /\ SteadyHostile
       \/ surroundings = "pair" /\ SteadyPair
       \/ surroundings = "calls" /\ AnyCalls
       \/ surroundings = "fair" /\ AnyCalls /\ run' <= 1

Fair(A) == surroundings = "fair" /\ A /\ UNCHANGED surroundings

MCSpec ==
    /\ MCInit /\ [][MCNext]_allVars
    /\ WF_allVars(Fair(Short!Tick)) /\ WF_allVars(Fair(Short!Worker))
    /\ WF_allVars(Fair(Short!ControlProgress))
-----------------------------------------------------------------------------
(* With fair threads every context of a round gets its result, or waits in  *)
(* a pause nobody resumes (checkPauseAndTimeoutsLocked, workerLoop).        *)
RoundReportedFairly == surroundings = "fair" => RoundReported
=============================================================================
