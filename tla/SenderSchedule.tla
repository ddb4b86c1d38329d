--------------------------- MODULE SenderSchedule ---------------------------
(***************************************************************************)
(* What a sender promises to the receivers of its round, whatever its      *)
(* threads do: intervals are worked off in order, nothing of an interval   *)
(* leaves before the interval begins on the timeline the control calls     *)
(* have set, and nothing leaves from behind a pause that took effect.      *)
(* SenderRefinement shows that AuthenticationSenderRuntime keeps it; the   *)
(* receivers of TeslaRound rely on it.                                     *)
(***************************************************************************)
EXTENDS Timeline

CONSTANTS
    TotalPacketCount,  \* data packets of the round
    Timestamps         \* what control calls may carry

VARIABLES
    now,        \* the clock
    sending,    \* a round is being sent
    timeline,   \* the segments the sender follows
    hold,       \* the pause that took effect, 0 for none
    reached,    \* m_u32CurrentInterval
    disclosed,  \* keys sent in this round
    tx          \* the datagram sent last

vars == <<now, sending, timeline, hold, reached, disclosed, tx>>

NoDatagram == [interval |-> 0, packet |-> 0, key |-> 0]

Init ==
    /\ now = 0 /\ sending = FALSE /\ timeline = <<>> /\ hold = 0
    /\ reached = 0 /\ disclosed = {} /\ tx = NoDatagram

Begin(ts) ==
    /\ ~sending
    /\ ts > now
    /\ sending' = TRUE
    /\ timeline' = <<Segment(1, ts)>>
    /\ hold' = 0 /\ reached' = 0 /\ disclosed' = {}
    /\ UNCHANGED <<now, tx>>

(* A pause takes effect only before the next interval was reached. *)
Pause(k) ==
    /\ sending /\ hold = 0
    /\ k # 0 /\ k >= reached
    /\ hold' = k
    /\ UNCHANGED <<now, sending, timeline, reached, disclosed, tx>>

Resume(ts) ==
    /\ sending /\ hold # 0
    /\ ts > now
    /\ timeline' = Append(timeline, Segment(hold + 1, ts))
    /\ hold' = 0
    /\ UNCHANGED <<now, sending, reached, disclosed, tx>>

ReachNext ==
    /\ sending /\ (hold = 0 \/ reached # hold)
    /\ reached < LastLogicalInterval(TotalPacketCount)
    /\ reached' = reached + 1
    /\ UNCHANGED <<now, sending, timeline, hold, disclosed, tx>>

Send(dg) ==
    /\ sending
    /\ dg.interval = reached
    /\ now >= IntervalStartTimestamp(timeline, reached)
    /\ ~HeldByPause(timeline, hold, reached)
    /\ tx' = dg
    /\ disclosed' = IF dg.key # 0 THEN disclosed \cup {dg.key} ELSE disclosed
    /\ UNCHANGED <<now, sending, timeline, hold, reached>>

Finish ==
    /\ sending
    /\ sending' = FALSE
    /\ UNCHANGED <<now, timeline, hold, reached, disclosed, tx>>

Tick ==
    /\ now' = now + 1
    /\ UNCHANGED <<sending, timeline, hold, reached, disclosed, tx>>

Next ==
    \/ \E ts \in Timestamps : Begin(ts) \/ Resume(ts)
    \/ \E k \in 1 .. LastLogicalInterval(TotalPacketCount) : Pause(k)
    \/ ReachNext \/ Finish \/ Tick
    \/ \E dg \in Datagrams(TotalPacketCount) : Send(dg)

Spec == Init /\ [][Next]_vars
=============================================================================
