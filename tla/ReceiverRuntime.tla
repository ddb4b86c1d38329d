--------------------------- MODULE ReceiverRuntime ---------------------------
(***************************************************************************)
(* AuthenticationReceiverRuntime: a bounded queue of received datagrams,   *)
(* one worker thread that processes one of them per locked step, and       *)
(* control calls that configure, start, pause, resume and stop a round for *)
(* several trusted senders (contexts) at once.                             *)
(*                                                                         *)
(* Each critical section of m_mtxState is an action.  Results are handed   *)
(* to the result handler after the lock is released, so the worker and the *)
(* stopping thread each hold a batch of results for a while.               *)
(*                                                                         *)
(* The network is any source of datagrams of the round: lost, repeated,    *)
(* reordered, altered, early or late.                                      *)
(***************************************************************************)
EXTENDS ReceiverContext

CONSTANTS
    ContextCount,   \* trusted senders, numbered in the order of m_mapStates
    PacketTotal,    \* PacketTotal[c]: data packets of sender c
    StartLead,      \* preparation time start and resume demand (100 ms)
    StartLeads, PauseLeads, ResumeLeads,  \* timestamps tried, from now
    ReceivedCopies, \* what may happen to a datagram on its way
    MaxQueued,      \* MAX_QUEUED_DATAGRAMS
    MaxRuns,        \* bound: calls of start that are accepted
    MaxPauses,      \* bound: calls of requestPause accepted in a round
    MaxSegments,    \* bound: segments of a timeline, one more for each resume
    MaxTime         \* bound: last tick

ASSUME ReceiverAssumption ==
    /\ ContextCount \in Nat
    /\ PacketTotal \in [1 .. ContextCount -> Nat \ {0}]
    /\ StartLead \in Nat /\ StartLeads \subseteq Nat
    /\ PauseLeads \subseteq Nat /\ ResumeLeads \subseteq Nat
    /\ ReceivedCopies \subseteq Copies
    /\ MaxQueued \in Nat /\ MaxRuns \in Nat /\ MaxPauses \in Nat
    /\ MaxSegments \in Nat /\ MaxTime \in Nat

VARIABLES
    now,          \* the clock
    configured,   \* m_bConfigured
    running,      \* m_bRunning
    paused,       \* m_bPaused
    run,          \* m_strRoundId as the serial number of the start call
    ctx,          \* m_mapStates
    queue,        \* m_deqDatagrams
    workerBatch,  \* results the worker has not handed out yet
    stopBatch,    \* results a call of stop has not handed out yet
    swapping,     \* configure is between its stop(false) and the swap
    results,      \* results[r][c]: what the result handler got
    pauses,       \* history: pauses accepted in this round (bounds the model)
    pending,      \* history: contexts whose last pause is ahead and not resumed
    silenced      \* history: rounds of contexts ended by a call that reports nothing

vars == <<now, configured, running, paused, run, ctx, queue, workerBatch,
          stopBatch, swapping, results, pauses, pending, silenced>>

Contexts == 1 .. ContextCount

Active == {c \in Contexts : ctx[c].active}

(* Defects: an outcome is collected again at every step, or not at    *)
(* all when it is a timeout.                                               *)
OutcomesAgain(newCtx) ==
    {[run |-> run, context |-> c, result |-> ResultOf(newCtx[c])] :
     c \in {x \in Contexts : newCtx[x].outcome # "none"}}
OutcomesButTimeouts(newCtx) ==
    {[run |-> run, context |-> c, result |-> ResultOf(newCtx[c])] :
     c \in {x \in Contexts : ctx[x].outcome = "none"
                          /\ newCtx[x].outcome \notin {"none", "VerificationTimeout"}}}

(* The results of the contexts that got their outcome in this step. *)
Outcomes(newCtx) ==
    {[run |-> run, context |-> c, result |-> ResultOf(newCtx[c])] :
     c \in {x \in Contexts : ctx[x].outcome = "none" /\ newCtx[x].outcome # "none"}}

Silencing == {<<run, c>> : c \in Active}

Init ==
    /\ now = 0
    /\ configured = FALSE /\ running = FALSE /\ paused = FALSE
    /\ run = 0
    /\ ctx = [c \in Contexts |-> Unstarted(PacketTotal[c])]
    /\ queue = <<>>
    /\ workerBatch = {} /\ stopBatch = {} /\ swapping = FALSE
    /\ results = [r \in 1 .. MaxRuns |-> [c \in Contexts |-> <<>>]]
    /\ pauses = 0 /\ pending = {} /\ silenced = {}
-----------------------------------------------------------------------------
(* Control calls.                                                          *)

(* configure first stops whatever is running without reporting it. *)
ConfigureStops ==
    /\ ~swapping
    /\ swapping' = TRUE
    /\ ctx' = [c \in Contexts |-> Stopped(ctx[c])]
    /\ running' = FALSE /\ paused' = FALSE
    /\ queue' = <<>>
    /\ silenced' = silenced \cup Silencing
    /\ UNCHANGED <<now, configured, run, workerBatch, stopBatch, results, pauses,
                   pending>>

(* The new contexts replace the old ones, even those of a round that was   *)
(* started in between.                                                     *)
ConfigureSwaps ==
    /\ swapping
    /\ swapping' = FALSE
    /\ configured' = TRUE
    /\ ctx' = [c \in Contexts |-> Unstarted(PacketTotal[c])]
    /\ queue' = <<>>
    /\ silenced' = silenced \cup Silencing
    /\ UNCHANGED <<now, running, paused, run, workerBatch, stopBatch, results,
                   pauses, pending>>

(* The validation of the new contexts throws: only the stop has happened. *)
ConfigureRejects ==
    /\ swapping
    /\ swapping' = FALSE
    /\ UNCHANGED <<now, configured, running, paused, run, ctx, queue, workerBatch,
                   stopBatch, results, pauses, pending, silenced>>

(* start neither clears the queue nor reports a round that is running. *)
Start(lead) ==
    /\ run < MaxRuns
    /\ lead > StartLead
    /\ configured
    /\ ctx' = [c \in Contexts |-> Started(PacketTotal[c], now + lead)]
    /\ run' = run + 1
    /\ running' = TRUE /\ paused' = FALSE
    /\ pauses' = 0 /\ pending' = {}
    /\ silenced' = silenced \cup Silencing
    /\ UNCHANGED <<now, configured, queue, workerBatch, stopBatch, swapping, results>>

(* The loop over the contexts throws at the first one that refuses, after  *)
(* it has changed those before.                                            *)
Reached(refusing) == {c \in Contexts : \A x \in refusing : c < x}

RequestPause(k, lead) ==
    /\ running
    /\ pauses < MaxPauses
    /\ k # 0 /\ lead > 0
    /\ LET reached == Reached({c \in Contexts : RefusesPause(ctx[c], k)})
       IN  /\ ctx' = [c \in Contexts |-> IF c \in reached
                                         THEN WithPause(ctx[c], k, now + lead)
                                         ELSE ctx[c]]
           /\ pending' = (pending \ reached)
                            \cup {c \in reached \cap Active :
                                      LastSegment(ctx[c].timeline).first <= k}
    /\ pauses' = pauses + 1
    /\ UNCHANGED <<now, configured, running, paused, run, queue, workerBatch,
                   stopBatch, swapping, results, silenced>>

Resume(r, lead) ==
    /\ running
    /\ lead > StartLead
    /\ \A c \in Contexts : Len(ctx[c].timeline) < MaxSegments
    /\ LET reached == Reached({c \in Contexts :
                                 RefusesResume(ctx[c], r, now + lead)})
       IN  /\ ctx' = [c \in Contexts |-> IF c \in reached
                                         THEN WithResume(ctx[c], r, now + lead)
                                         ELSE ctx[c]]
           /\ pending' = pending \ reached
           /\ paused' = IF reached = Contexts THEN FALSE ELSE paused
    /\ UNCHANGED <<now, configured, running, run, queue, workerBatch, stopBatch,
                   swapping, results, pauses, silenced>>

(* stop(true) decides under the lock which rounds it reports as stopped. *)
Stop ==
    /\ stopBatch = {}
    /\ LET stopped == [c \in Contexts |->
                         IF ctx[c].active /\ ctx[c].outcome = "none"
                         THEN [ctx[c] EXCEPT !.outcome = "Stopped"] ELSE ctx[c]]
       IN  /\ stopBatch' = Outcomes(stopped)
           /\ ctx' = [c \in Contexts |-> Stopped(stopped[c])]
    /\ running' = FALSE /\ paused' = FALSE
    /\ queue' = <<>>
    /\ UNCHANGED <<now, configured, run, workerBatch, swapping, results, pauses,
                   pending, silenced>>

Emitted(batch) ==
    [r \in 1 .. MaxRuns |-> [c \in Contexts |->
        LET own == {b.result : b \in {x \in batch : x.run = r /\ x.context = c}}
        IN  IF own = {} THEN results[r][c]
            ELSE Append(results[r][c], CHOOSE b \in own : TRUE)]]

StopEmits ==
    /\ stopBatch # {}
    /\ results' = Emitted(stopBatch)
    /\ stopBatch' = {}
    /\ UNCHANGED <<now, configured, running, paused, run, ctx, queue, workerBatch,
                   swapping, pauses, pending, silenced>>
-----------------------------------------------------------------------------
(* The network and the worker.                                             *)

(* bEnqueueDatagram: refused outside a round and when the queue is full. *)
EnqueueDatagram(c, dg, copy) ==
    /\ running /\ ctx[c].active
    /\ Len(queue) < MaxQueued
    /\ copy = "badKey" => dg.key # 0
    /\ queue' = Append(queue, [context |-> c, dg |-> dg, copy |-> copy, recv |-> now])
    /\ UNCHANGED <<now, configured, running, paused, run, ctx, workerBatch,
                   stopBatch, swapping, results, pauses, pending, silenced>>

(* The contexts after one datagram was processed. *)
AfterDatagram ==
    IF queue = <<>> THEN ctx
    ELSE [ctx EXCEPT ![Head(queue).context] =
             Processed(@, Head(queue).dg, Head(queue).copy, Head(queue).recv)]

AnyPaused(newCtx) ==
    \E c \in Contexts : /\ newCtx[c].active /\ newCtx[c].outcome = "none"
                        /\ PauseOutstanding(newCtx[c]) /\ now >= newCtx[c].pauseTs

(* The locked part of the worker loop, woken by a datagram or every 25 ms. *)
WorkerStep ==
    /\ workerBatch = {}
    /\ LET processed == AfterDatagram
           checked == [c \in Contexts |-> Ticked(processed[c], now)]
       IN  /\ ctx' = checked
           /\ workerBatch' = Outcomes(checked)
           /\ running' = \E c \in Contexts : checked[c].active
           /\ paused' = AnyPaused(processed)
    /\ queue' = IF queue = <<>> THEN queue ELSE Tail(queue)
    /\ UNCHANGED <<now, configured, run, stopBatch, swapping, results, pauses,
                   pending, silenced>>

WorkerEmits ==
    /\ workerBatch # {}
    /\ results' = Emitted(workerBatch)
    /\ workerBatch' = {}
    /\ UNCHANGED <<now, configured, running, paused, run, ctx, queue, stopBatch,
                   swapping, pauses, pending, silenced>>

Tick ==
    /\ now < MaxTime
    /\ now' = now + 1
    /\ UNCHANGED <<configured, running, paused, run, ctx, queue, workerBatch,
                   stopBatch, swapping, results, pauses, pending, silenced>>

Network ==
    \E c \in Contexts : \E dg \in Datagrams(PacketTotal[c]), copy \in ReceivedCopies :
        EnqueueDatagram(c, dg, copy)

Worker == WorkerStep \/ WorkerEmits

Intervals == UNION {1 .. LastLogicalInterval(PacketTotal[c]) : c \in Contexts}

ControlCall ==
    \/ ConfigureStops
    \/ \E lead \in StartLeads : Start(lead)
    \/ \E k \in Intervals, lead \in PauseLeads : RequestPause(k, lead)
    \/ \E r \in Intervals, lead \in ResumeLeads : Resume(r, lead)
    \/ Stop

ControlProgress == ConfigureSwaps \/ ConfigureRejects \/ StopEmits

Next == Tick \/ Network \/ Worker \/ ControlCall \/ ControlProgress

Spec == Init /\ [][Next]_vars

(* The worker loop never blocks for more than 25 ms and time passes. *)
Fairness == WF_vars(Tick) /\ WF_vars(Worker) /\ WF_vars(ControlProgress)
FairSpec == Spec /\ Fairness
-----------------------------------------------------------------------------
ResultType(c) ==
    [ status : {"Completed", "AuthenticationFailed", "ProtocolIncomplete",
                "VerificationTimeout", "Stopped"},
      received : 0 .. PacketTotal[c], passed : 0 .. PacketTotal[c],
      failed : 0 .. PacketTotal[c] ]

(* Type correctness of the runtime, its contexts, queue and results. *)
TypeOK ==
    /\ now \in Nat /\ run \in 0 .. MaxRuns
    /\ configured \in BOOLEAN /\ running \in BOOLEAN /\ paused \in BOOLEAN
    /\ swapping \in BOOLEAN
    /\ DOMAIN ctx = Contexts
    /\ \A c \in Contexts :
        LET s == ctx[c]
        IN  /\ s.total = PacketTotal[c] /\ DOMAIN s.baseline = 1 .. s.total
            /\ s.active \in BOOLEAN /\ s.incomplete \in BOOLEAN
            /\ s.active => s.outcome = "none" /\ s.timeline # <<>>
            /\ s.keys \subseteq 1 .. DataIntervalCount(s.total)
            /\ s.verified \subseteq 1 .. DataIntervalCount(s.total)
    /\ Len(queue) <= MaxQueued
    /\ pending \subseteq Contexts /\ pauses \in Nat
    /\ \A r \in 1 .. MaxRuns, c \in Contexts : results[r][c] \in Seq(ResultType(c))

(* One verified key yields every earlier one, and a verdict stands only    *)
(* behind a verified key and says what the MAC of the stored copy says,    *)
(* in whatever order keys, packets and alterations of both come in         *)
(* (processDisclosedKeyLocked, verifyIntervalLocked).                      *)
KeysReachBack ==
    \A c \in Contexts :
        LET s == ctx[c]
        IN  /\ \A k \in s.keys : 1 .. k \subseteq s.verified
            /\ \A p \in Slots(s) : s.baseline[p].status # "Pending" =>
                   /\ IntervalOfPacket(p) \in s.keys
                   /\ (s.baseline[p].status = "Passed") = MacValid(s.baseline[p].copy)

(* Each round of each context has at most one result, whichever of the     *)
(* worker and stop decides it first.                                       *)
OneResultPerRound ==
    \A r \in 1 .. MaxRuns, c \in Contexts : Len(results[r][c]) <= 1

(* A context that was started and is no longer active has its result out,  *)
(* or on its way, unless a call that reports nothing ended it.             *)
EveryRoundReported ==
    run # 0 => \A c \in Contexts :
        \/ ctx[c].active
        \/ <<run, c>> \in silenced
        \/ results[run][c] # <<>>
        \/ \E b \in workerBatch \cup stopBatch : b.run = run /\ b.context = c

(* Completed is reported only for a round whose packets were all stored    *)
(* once, unaltered, and passed (finalizeLocked).                           *)
CompletedIsComplete ==
    \A r \in 1 .. MaxRuns, c \in Contexts : \A n \in DOMAIN results[r][c] :
        LET res == results[r][c][n]
        IN  res.status = "Completed" =>
                res.passed = ctx[c].total /\ res.received = ctx[c].total

(* A context does not time out while the last pause it accepted is         *)
(* outstanding. A pause behind the last segment of its timeline, which the *)
(* code accepts too, takes effect nowhere and stops no timeout.            *)
NoTimeoutWhilePaused ==
    [][\A c \in pending : ctx[c].outcome = "none"
                            => ctx'[c].outcome # "VerificationTimeout"]_vars

(* Every context of a round gets its result, or waits in a pause.          *)
RoundReported ==
    \A c \in Contexts :
        ctx[c].active ~> (~ctx[c].active \/ PauseOutstanding(ctx[c]))
=============================================================================
