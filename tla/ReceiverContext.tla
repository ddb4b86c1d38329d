--------------------------- MODULE ReceiverContext ---------------------------
(***************************************************************************)
(* One trusted sender as AuthenticationReceiverRuntime keeps it: the       *)
(* struct ReceiverState and the functions of Impl that read and change it, *)
(* in the native mode (one MAC per packet, verified interval by interval). *)
(* Every operator maps a context to the context the C++ function leaves    *)
(* behind; ReceiverRuntime and TeslaRound call them from their actions.    *)
(*                                                                         *)
(* A received datagram is a record of its planned fields and its copy,     *)
(* which stands for the bytes: two datagrams of one packet are identical   *)
(* when their copies are equal.                                            *)
(***************************************************************************)
EXTENDS Timeline, FiniteSets

CONSTANTS
    ClockTolerance,       \* u32ClockToleranceMilliseconds
    MaxCandidateVersions  \* MAX_CANDIDATE_VERSIONS_PER_PACKET

ASSUME ContextAssumption ==
    /\ ClockTolerance \in Nat
    /\ MaxCandidateVersions \in Nat \ {0}

(* The bytes as sent, with another MAC or payload, with a disclosed key     *)
(* that is not on the chain, or bytes the codec refuses.                    *)
Copies == {"genuine", "badMac", "badKey", "undecodable"}
MacValid(copy) == copy # "badMac"
KeyValid(copy) == copy # "badKey"

NoPacket == [copy |-> "none", status |-> "Pending"]

(* A context that configure created and start has not touched. *)
Unstarted(total) ==
    [ total |-> total, active |-> FALSE, outcome |-> "none",
      incomplete |-> FALSE, timeline |-> <<>>, pauseAfter |-> 0, pauseTs |-> 0,
      baseline |-> [p \in 1 .. total |-> NoPacket],
      candidates |-> {}, keys |-> {}, verified |-> {} ]

(* What start leaves: everything of the previous round is gone. *)
Started(total, startTs) ==
    [ Unstarted(total) EXCEPT !.active = TRUE,
                              !.timeline = <<Segment(1, startTs)>> ]

Stopped(s) == [s EXCEPT !.active = FALSE]
-----------------------------------------------------------------------------
(* The timeline.                                                           *)

(* The code calls every packet safe whose key is held by a pause. *)
SafeWithoutTolerance(s, i, recv) ==   \* defect: clocks are trusted
    \/ HeldByPause(s.timeline, s.pauseAfter, i + DisclosureDelay)
    \/ recv < IntervalStartTimestamp(s.timeline, i + DisclosureDelay)
IsPacketTimeSafe(s, i, recv) ==
    \/ HeldByPause(s.timeline, s.pauseAfter, i + DisclosureDelay)
    \/ recv + ClockTolerance < IntervalStartTimestamp(s.timeline, i + DisclosureDelay)

PauseOutstanding(s) ==
    s.pauseAfter # 0 /\ LastSegment(s.timeline).first <= s.pauseAfter

RefusesPause(s, k) == s.active /\ k >= LastLogicalInterval(s.total)

WithPause(s, k, ts) ==
    IF s.active THEN [s EXCEPT !.pauseAfter = k, !.pauseTs = ts] ELSE s

RefusesResume(s, r, ts) ==
    s.active /\ (s.pauseAfter = 0 \/ r # s.pauseAfter + 1 \/ ts <= s.pauseTs)

(* pauseAfter is kept: the new segment is what ends the pause. *)
WithResumeOneLate(s, r, ts) ==   \* defect: one interval off
    IF s.active
    THEN [s EXCEPT !.timeline = Append(@, Segment(r, ts + IntervalLength))] ELSE s
WithResume(s, r, ts) ==
    IF s.active
    THEN [s EXCEPT !.timeline = Append(@, Segment(r, ts))] ELSE s
-----------------------------------------------------------------------------
(* Verification.                                                           *)

Slots(s) == 1 .. s.total

PassedWith(copy) == IF MacValid(copy) THEN "Passed" ELSE "Failed"

Intact(s) == \A p \in Slots(s) : s.baseline[p].status = "Passed"

Count(s, status) ==
    Cardinality({p \in Slots(s) : s.baseline[p].copy # "none"
                                  /\ s.baseline[p].status = status})
Received(s) == Cardinality({p \in Slots(s) : s.baseline[p].copy # "none"})

Verdict(record) == [record EXCEPT !.status = PassedWith(record.copy)]

(* verifyNativeIntervalLocked for every interval of ks. *)
Judged(s, ks) ==
    [ s EXCEPT
        !.baseline =
            [p \in Slots(s) |->
               IF IntervalOfPacket(p) \in ks /\ s.baseline[p].copy # "none"
               THEN Verdict(s.baseline[p]) ELSE s.baseline[p]],
        !.candidates =
            {IF IntervalOfPacket(c.packet) \in ks THEN Verdict(c) ELSE c :
             c \in s.candidates},
        !.verified = s.verified \cup ks ]

(* Defect: packets that never came are forgotten. *)
FinalStatusIgnoresMissing(s) ==
    IF s.incomplete THEN "ProtocolIncomplete"
    ELSE IF Count(s, "Passed") = Received(s) THEN "Completed"
    ELSE "AuthenticationFailed"
FinalStatus(s) ==
    IF s.incomplete THEN "ProtocolIncomplete"
    ELSE IF Intact(s) THEN "Completed" ELSE "AuthenticationFailed"

Finalized(s) == [s EXCEPT !.active = FALSE, !.outcome = FinalStatus(s)]

(* A key that checks out yields every earlier key of the chain. *)
RecoveredOnlyItself(k) == {k}   \* defect: the chain is not walked back
Recovered(k) == 1 .. k

WithKey(s, k) ==
    LET learned == [Judged(s, Recovered(k) \ s.verified) EXCEPT !.keys = @ \cup Recovered(k)]
    IN  IF k = DataIntervalCount(s.total) THEN Finalized(learned) ELSE learned

(* processDisclosedKeyLocked *)
KeyDisclosed(s, interval, copy) ==
    IF /\ interval > DisclosureDelay
       /\ interval - DisclosureDelay <= DataIntervalCount(s.total)
       /\ KeyValid(copy)
    THEN WithKey(s, interval - DisclosureDelay)
    ELSE [s EXCEPT !.incomplete = TRUE]
-----------------------------------------------------------------------------
(* processDatagramLocked                                                   *)

(* A different copy of a packet that is already there is kept as a         *)
(* candidate, up to a limit, and never replaces the first one.             *)
WithCandidate(s, p, copy) ==
    LET known == {c \in s.candidates : c.packet = p}
    IN  IF \/ \E c \in known : c.copy = copy
           \/ Cardinality(known) + 1 >= MaxCandidateVersions
        THEN s
        ELSE [s EXCEPT !.candidates =
                @ \cup {[packet |-> p, copy |-> copy, status |-> "Pending"]}]

WithBaseline(s, p, copy) ==
    [s EXCEPT !.baseline[p] = [copy |-> copy, status |-> "Pending"]]

(* The key a data packet carries is looked at only when the packet itself  *)
(* is on time and the first of its number.                                 *)
WithDataPacket(s, dg, copy, recv) ==
    IF ~IsPacketTimeSafe(s, dg.interval, recv) THEN [s EXCEPT !.incomplete = TRUE]
    ELSE IF s.baseline[dg.packet].copy = copy THEN s
    ELSE IF s.baseline[dg.packet].copy # "none" THEN WithCandidate(s, dg.packet, copy)
    ELSE LET stored == WithBaseline(s, dg.packet, copy)
         IN  IF dg.key = 0 THEN stored ELSE KeyDisclosed(stored, dg.interval, copy)

Processed(s, dg, copy, recv) ==
    IF ~s.active \/ s.outcome # "none" THEN s
    ELSE IF copy = "undecodable" THEN [s EXCEPT !.incomplete = TRUE]
    ELSE IF dg.packet = 0 THEN KeyDisclosed(s, dg.interval, copy)
    ELSE WithDataPacket(s, dg, copy, recv)

(* checkPauseAndTimeoutsLocked: no deadline exists behind a pause. *)
ExpiredWhenEmpty(s, now) ==   \* defect: only when nothing arrived
    LET last == LastLogicalInterval(s.total)
    IN  /\ s.active /\ s.outcome = "none" /\ Received(s) = 0
        /\ ~HeldByPause(s.timeline, s.pauseAfter, last)
        /\ now > IntervalStartTimestamp(s.timeline, last)
                 + IntervalLength + ClockTolerance
Expired(s, now) ==
    LET last == LastLogicalInterval(s.total)
    IN  /\ s.active /\ s.outcome = "none"
        /\ ~HeldByPause(s.timeline, s.pauseAfter, last)
        /\ now > IntervalStartTimestamp(s.timeline, last)
                 + IntervalLength + ClockTolerance

TimedOut(s) == [s EXCEPT !.active = FALSE, !.outcome = "VerificationTimeout"]

Ticked(s, now) == IF Expired(s, now) THEN TimedOut(s) ELSE s

(* AuthenticationRuntimeResult of a context. *)
ResultOf(s) ==
    [ status |-> s.outcome, received |-> Received(s),
      passed |-> Count(s, "Passed"), failed |-> Count(s, "Failed") ]
=============================================================================
