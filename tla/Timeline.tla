------------------------------ MODULE Timeline ------------------------------
(***************************************************************************)
(* When the intervals of a round begin.  Start opens a segment whose first *)
(* interval is 1, every resume opens another one; a pause after interval k *)
(* leaves the later intervals without a start until a segment begins after *)
(* k.  The receiver computes with these operators (struct TimelineSegment, *)
(* optIntervalStartTimestamp); the sender is checked against them.         *)
(***************************************************************************)
EXTENDS AuthenticationRound

Segment(first, ts) == [first |-> first, ts |-> ts]

LastSegment(timeline) == timeline[Len(timeline)]

(* The last segment before the first one that begins after interval i. *)
SegmentOf(timeline, i) ==
    timeline[CHOOSE n \in DOMAIN timeline :
               /\ \A m \in 1 .. n : timeline[m].first <= i
               /\ n < Len(timeline) => timeline[n + 1].first > i]

IntervalStartTimestamp(timeline, i) ==
    SegmentOf(timeline, i).ts + (i - SegmentOf(timeline, i).first) * IntervalLength

(* Interval i lies behind the pause after interval k (0 for no pause), and *)
(* no later segment covers it.                                             *)
HeldFromSecond(timeline, k, i) ==   \* defect: not the interval after k
    k # 0 /\ i > k + 1 /\ SegmentOf(timeline, i).first <= k
HeldByPause(timeline, k, i) ==
    k # 0 /\ i > k /\ SegmentOf(timeline, i).first <= k
=============================================================================
