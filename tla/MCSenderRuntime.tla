-------------------------- MODULE MCSenderRuntime ---------------------------
(* The sender under three callers, one for each behaviour:                  *)
(*   "any"      two rounds with a pause each, any call at any moment     *)
(*              and any delay of the worker;                                *)
(*   "planned"  pauses and resumes alternate, start and configure come      *)
(*              between the rounds, the worker may be late by any amount;   *)
(*   "punctual" any calls, but the clock runs at most Lag ticks ahead of    *)
(*              what the worker waits for, so that the horizon MaxTime is   *)
(*              never what stops it (for the liveness properties).          *)
EXTENDS SenderRefinement

VARIABLE caller

(* A round of two packets in one interval. *)
AnyCaller ==
    INSTANCE SenderRuntime WITH
        PacketsPerInterval <- 2, StartLead <- 0, StartLeads <- {1}, ResumeLeads <- {1},
        FaultDelays <- {1}, Calls <- {"configure", "start", "stop"}, MaxRuns <- 2, MaxPauses <- 1,
        MaxTime <- 3

(* The planned round has two packets in two intervals (in the cfg), so that *)
(* two pauses fit into it.  The punctual round has one packet.              *)
Punctual ==
    INSTANCE SenderRuntime WITH
        TotalPacketCount <- 1, StartLead <- 0,
        StartLeads <- {1}, ResumeLeads <- {1}, FaultDelays <- {},
        Calls <- {"configure", "start", "stop"}, MaxPauses <- 1, MaxTime <- 8

Lag == 1       \* one interval of lag is an overrun already
LastCall == 3  \* no deadline is set later, so all of them lie before MaxTime
-----------------------------------------------------------------------------
OneRoundAtATime ==
    /\ ctl = Idle /\ ctl' # Idle => ~running
    /\ ~fault'

Planned == RefinementNext /\ OneRoundAtATime

Due == CASE pc = "waitStart" -> startTs
         [] pc = "waitInterval" -> Punctual!IntervalStart
         [] pc \in {"waitSend", "waitDelay"} -> Punctual!SendTarget + delay
         [] pc \in {"waitPause", "waitResume"} -> waitTs
         [] OTHER -> now

ClockMayTick ==
    /\ pc \in Waiting \cup {"off", "done"}
    /\ pc = "paused" => resumeInterval = 0 /\ ~stopRequested
    /\ now < Due + Lag

PunctualTick == caller = "punctual" /\ Punctual!Tick /\ ClockMayTick
PunctualWorker == caller = "punctual" /\ Punctual!Worker
PunctualCall ==
    /\ caller = "punctual"
    /\ \/ Punctual!ControlCall /\ now <= LastCall
       \/ Punctual!ControlProgress /\ (run' # run => now <= LastCall)
PunctualProgress == caller = "punctual" /\ Punctual!ControlProgress

allVars == <<refinementVars, caller>>

MCInit ==
    /\ timeline = <<>> /\ missed = FALSE
    /\ \/ caller \in {"planned", "punctual"} /\ Init
       \/ caller \in {"any"} /\ AnyCaller!Init

MCNext ==
    /\ UNCHANGED caller
    /\ \/ caller = "any" /\ AnyCaller!Next /\ UNCHANGED <<timeline, missed>>
       \/ caller = "planned" /\ Planned
       \/ /\ PunctualTick \/ PunctualWorker \/ PunctualCall
          /\ UNCHANGED <<timeline, missed>>

MCSpec ==
    /\ MCInit /\ [][MCNext]_allVars
    /\ WF_vars(PunctualTick) /\ WF_vars(PunctualWorker) /\ WF_vars(PunctualProgress)
-----------------------------------------------------------------------------
(* Under any caller, what a result says is true and final (TruthfulStep).   *)
ResultsStayTrue == [][caller = "any" => AnyCaller!TruthfulStep]_allVars

(* The sender works off its intervals in order, never ahead of the timeline *)
(* the control calls have set and never from behind a pause that took       *)
(* effect: under the planned caller the runtime implements SenderSchedule.  *)
PlannedScheduleKept ==
    /\ caller = "planned" => Schedule!Init
    /\ [][caller = "planned" => [Schedule!Next]_(Schedule!vars)]_allVars

(* Nobody waits for ever: a call of stop, configure or start that joins the *)
(* worker returns, wherever the worker waits, and a round that is not left  *)
(* paused ends by itself, also after a pause and resume (stop, run).        *)
WorkerMovesOn == caller = "punctual" => AlwaysStoppable /\ RoundEnds
=============================================================================
