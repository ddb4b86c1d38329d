------------------------- MODULE AuthenticationRound -------------------------
(***************************************************************************)
(* The fixed plan of one TESLA authentication round of total data packets: *)
(* how many logical intervals it has, which packets each interval carries  *)
(* and which chain key it makes public.  Sender and receiver both derive   *)
(* everything they do from these operators                                 *)
(* (AuthenticationRoundParameters.cpp and buildDatagrams in                *)
(* AuthenticationSenderRuntime.cpp).                                       *)
(*                                                                         *)
(* A datagram is the record of the fields the state machines look at: its  *)
(* interval, its packet index (0 for a disclosure packet) and the index of *)
(* the key it discloses (0 for none).                                      *)
(***************************************************************************)
EXTENDS Naturals, Sequences

CONSTANTS
    PacketsPerInterval,  \* data packets of a full interval
    DisclosureDelay,     \* key i is published DisclosureDelay intervals after i
    IntervalLength       \* ticks of an interval

ASSUME RoundAssumption ==
    /\ PacketsPerInterval \in Nat \ {0}
    /\ DisclosureDelay \in Nat \ {0}
    /\ IntervalLength \in Nat \ {0}

(* The key chain has one key per data interval. *)
DataIntervalCount(total) == ((total - 1) \div PacketsPerInterval) + 1

(* Intervals N+1 .. N+d only disclose the last d keys. *)
LastLogicalInterval(total) == DataIntervalCount(total) + DisclosureDelay

FirstPacketIndex(i) == (i - 1) * PacketsPerInterval + 1

LastPacketIndex(total, i) ==
    IF i * PacketsPerInterval < total THEN i * PacketsPerInterval ELSE total

DataPacketCount(total, i) ==
    IF i <= DataIntervalCount(total)
    THEN LastPacketIndex(total, i) - FirstPacketIndex(i) + 1 ELSE 0

DatagramCount(total, i) ==
    IF i <= DataIntervalCount(total) THEN DataPacketCount(total, i) ELSE 1

(* The packet interval p belongs to, as the receiver recomputes it. *)
IntervalOfPacket(p) == ((p - 1) \div PacketsPerInterval) + 1

(* Defect: the key leaves one interval early. *)
DisclosedKeyEarly(i, n) == IF n = 1 THEN i - DisclosureDelay + 1 ELSE 0

(* Only the first datagram of an interval later than d carries a key. *)
DisclosedKey(i, n) == IF n = 1 /\ i > DisclosureDelay THEN i - DisclosureDelay ELSE 0

(* The n-th datagram prepared for logical interval i. *)
Datagram(total, i, n) ==
    [ interval |-> i,
      packet   |-> IF i <= DataIntervalCount(total)
                   THEN FirstPacketIndex(i) + n - 1 ELSE 0,
      key      |-> DisclosedKey(i, n) ]

(* Everything the sender of the round prepares. *)
Datagrams(total) ==
    UNION {{Datagram(total, i, n) : n \in 1 .. DatagramCount(total, i)} :
           i \in 1 .. LastLogicalInterval(total)}
=============================================================================
