----------------------------- MODULE PacketCodec -----------------------------
(***************************************************************************)
(* UdpAuthenticationPacketCodec: the datagram of a packet says neither     *)
(* what kind of packet it holds nor which of the optional fields; both     *)
(* sides work that out from the packet index and the trusted plan of the   *)
(* round, and the length has to agree to the byte.                         *)
(*                                                                         *)
(* A datagram is its header, the 32-byte blocks behind it and whether a    *)
(* part of a block follows.  A block is a value that tells which field it  *)
(* was written from, so a field read from another one's place shows.       *)
(***************************************************************************)
EXTENDS AuthenticationRound, FiniteSets

CONSTANTS
    Contexts,   \* trusted contexts tried: mode, total, group and taus
    MaxDamage   \* bound: changes on the way

(* The fields come from round parameters (bIsValid).  With fewer data       *)
(* intervals than the delay no round starts: buildDatagrams asks for a      *)
(* disclosure packet of an interval no key belongs to, and the encoder      *)
(* throws.                                                                  *)
ContextAssumption ==
    /\ Contexts # {}
    /\ \A c \in Contexts :
          /\ c.mode \in {"native", "improved"}
          /\ c.total \in Nat \ {0} /\ c.taus \in Nat
          /\ c.mode = "improved" => c.group \in Nat \ {0}
          /\ DisclosureDelay <= DataIntervalCount(c.total)

VARIABLES
    context,    \* UdpAuthenticationPacketContext of both sides
    packet,     \* what the sender encodes
    datagram,   \* what is on the way, or Refused by the encoder
    damage,     \* changes made on the way
    answer      \* what the receiver's decoder returns, or None before

vars == <<context, packet, datagram, damage, answer>>

(* A packet of either kind: message, key and details are the blocks it has *)
(* of each; a disclosure packet has the index 0 and a key only.            *)
Packet(chain, interval, index, message, key, mode, details) ==
    [chain |-> chain, interval |-> interval, index |-> index, message |-> message,
     key |-> key, mode |-> mode, details |-> details]

Data(chain, interval, index, key, mode, details) ==
    Packet(chain, interval, index, <<"message">>, key, mode, details)
Disclosure(chain, interval, key) ==
    Packet(chain, interval, 0, <<>>, key, "disclosure", <<>>)

Refused == [refused |-> TRUE]
None == [refused |-> FALSE]

Key == <<"key">>
Mac == <<"mac">>
GroupDetails(taus) == [i \in 1 .. taus |-> "tau"] \o <<"fastTag">>
-----------------------------------------------------------------------------
(* The context.                                                            *)

CarriesDisclosedKey(interval, index) ==
    index > 0 /\ interval > DisclosureDelay /\ (index - 1) % PacketsPerInterval = 0

IsImprovedGroupEnd(ctx, index) ==
    /\ ctx.mode = "improved" /\ index # 0
    /\ index % ctx.group = 0 \/ index = ctx.total

(* The intervals whose disclosure packet the plan has room for. *)
InDisclosure(ctx, interval) ==
    /\ interval > DisclosureDelay
    /\ interval <= IntervalOfPacket(ctx.total) + DisclosureDelay

(* How many blocks of authentication a data packet has. *)
DetailBlocks(ctx, index) ==
    IF ctx.mode = "native" THEN 1
    ELSE IF IsImprovedGroupEnd(ctx, index) THEN ctx.taus + 1 ELSE 0

(* validateDataPacketForEncoding, and what the packet classes refuse. *)
Encodable(ctx, p) ==
    /\ p.chain # 0
    /\ IF p.index = 0 THEN InDisclosure(ctx, p.interval)
       ELSE /\ p.index <= ctx.total
            /\ p.interval = IntervalOfPacket(p.index)
            /\ p.key # <<>> <=> CarriesDisclosedKey(p.interval, p.index)
            /\ p.mode = ctx.mode
            /\ Len(p.details) = DetailBlocks(ctx, p.index)

(* vecEncode *)
Encoded(ctx, p) ==
    IF ~Encodable(ctx, p) THEN Refused
    ELSE [ refused |-> FALSE, header |-> TRUE, chain |-> p.chain,
           interval |-> p.interval, index |-> p.index,
           blocks |-> p.message \o p.key \o p.details, part |-> FALSE ]

(* Defect: what is behind the expected fields is not looked at. *)
LongEnough(d, blocks) == Len(d.blocks) >= blocks
HasLength(d, blocks) == Len(d.blocks) = blocks /\ ~d.part

(* resDecode works out the one legal length before it reads a field. *)
Decoded(ctx, d) ==
    LET keys == IF CarriesDisclosedKey(d.interval, d.index) THEN 1 ELSE 0
        blocks == 1 + keys + DetailBlocks(ctx, d.index)
    IN  IF ~d.header \/ d.chain = 0 \/ d.interval = 0 THEN Refused
        ELSE IF d.index = 0
        THEN IF HasLength(d, 1) /\ InDisclosure(ctx, d.interval)
             THEN Disclosure(d.chain, d.interval, d.blocks) ELSE Refused
        ELSE IF \/ d.index > ctx.total
                \/ d.interval # IntervalOfPacket(d.index)
                \/ ~HasLength(d, blocks)
        THEN Refused
        ELSE Packet(d.chain, d.interval, d.index, SubSeq(d.blocks, 1, 1),
                    SubSeq(d.blocks, 2, 1 + keys), ctx.mode,
                    SubSeq(d.blocks, 2 + keys, blocks))
-----------------------------------------------------------------------------
(* The details a packet object of each mode can have. *)
Details(mode, taus) ==
    IF mode = "native" THEN {Mac} ELSE {<<>>} \cup {GroupDetails(n) : n \in 1 .. taus + 1}

Packets(ctx) ==
    (UNION {{Data(1, interval, index, key, mode, details) :
               interval \in 1 .. IntervalOfPacket(ctx.total) + 1,
               index \in 1 .. ctx.total + 1, key \in {<<>>, Key},
               details \in Details(mode, ctx.taus)} : mode \in {"native", "improved"}})
    \cup {Disclosure(1, interval, Key) :
             interval \in 1 .. IntervalOfPacket(ctx.total) + DisclosureDelay + 1}

Init ==
    /\ context \in Contexts
    /\ packet \in Packets(context)
    /\ datagram = Encoded(context, packet)
    /\ damage = 0
    /\ answer = None

(* Bytes are lost or added at the end, or a number of the header changes. *)
Damage ==
    /\ ~datagram.refused /\ damage < MaxDamage /\ answer = None
    /\ damage' = damage + 1
    /\ datagram' \in
           {[datagram EXCEPT !.blocks = SubSeq(@, 1, n)] : n \in 0 .. Len(datagram.blocks) - 1}
           \cup {[datagram EXCEPT !.blocks = Append(@, "noise")],
                 [datagram EXCEPT !.part = ~@],
                 [datagram EXCEPT !.chain = 0],
                 [datagram EXCEPT !.header = FALSE, !.blocks = <<>>]}
           \cup {[datagram EXCEPT !.index = n] : n \in 0 .. context.total + 1}
           \cup {[datagram EXCEPT !.interval = n] :
                    n \in 0 .. IntervalOfPacket(context.total) + DisclosureDelay + 1}
    /\ UNCHANGED <<context, packet, answer>>

Decode ==
    /\ ~datagram.refused /\ answer = None
    /\ answer' = Decoded(context, datagram)
    /\ UNCHANGED <<context, packet, datagram, damage>>

Next == Damage \/ Decode

Spec == Init /\ [][Next]_vars
-----------------------------------------------------------------------------
(* A packet has one datagram, and a datagram one packet.  What the encoder  *)
(* lets through, the decoder with the same context reads back.  What was   *)
(* read would be encoded to the very bytes it was read from, so bytes lost *)
(* or added, or a number that does not fit the plan, are refused and no    *)
(* field is read from the place of another (resDecode).                    *)
OneDatagramPerPacket ==
    /\ damage = 0 /\ answer # None => answer = packet
    /\ answer \notin {None, Refused} => Encoded(context, answer) = datagram

(* The sender fills its datagrams by its own plan of the round; the codec   *)
(* takes every one of them (optDisclosureForPacket and buildDatagrams      *)
(* against bPacketCarriesDisclosedKey and the disclosure intervals).       *)
PlanIsEncodable ==
    \A d \in Datagrams(context.total) :
        LET key == IF d.key = 0 THEN <<>> ELSE Key
        IN  Encodable(context,
                IF d.packet = 0 THEN Disclosure(1, d.interval, key)
                ELSE Data(1, d.interval, d.packet, key, context.mode,
                          IF context.mode = "native" THEN Mac
                          ELSE IF IsImprovedGroupEnd(context, d.packet)
                          THEN GroupDetails(context.taus) ELSE <<>>))
=============================================================================
