------------------------------ MODULE MCFormats ------------------------------
(***************************************************************************)
(* What is sent and how it is read, one part at a time:                    *)
(*   "stream"    frames cut from a stream of bytes (TcpStream);            *)
(*   "control"   control messages as JSON (ControlCodec);                  *)
(*   "packet"    authentication packets as datagrams (PacketCodec);        *)
(*   "group"     the KS+RS matrix locates bad packets (GroupLocation);     *)
(*   "improved"  a receiver of the improved mode (ImprovedReceiver).       *)
(* The parts share no variable: a behaviour runs one of them, and the      *)
(* variables of the others keep one value.                                 *)
(***************************************************************************)
EXTENDS GroupLocation, Sequences

CONSTANTS
    ByteBase, MaximumFrameLength, MaxFrames, Payloads,                \* Stream
    TextLimit, MonitorTextLimit, BlockSize, BatchLimit, DelayLimit,   \* Control
    Percent, MaxChanges,
    PacketsPerInterval, DisclosureDelay, IntervalLength,   \* Datagram, Improved
    Contexts, MaxDamage,                                              \* Datagram
    PacketTotal, GroupSize, DetectionThreshold,                       \* Improved
    MaxCandidateVersions, MaxRivals

VARIABLES
    part,
    sent, pipe, pending, delivered, open,
    type, message, wire, disturbed, changes,
    context, packet, datagram, damage, answer,
    now, baseline, verdict, rivals, key, judged, excess, incomplete, outcome

Stream == INSTANCE TcpStream
Control == INSTANCE ControlCodec
Datagram == INSTANCE PacketCodec
Improved == INSTANCE ImprovedReceiver

ASSUME FormatsAssumption ==
    /\ Stream!LimitAssumption /\ Stream!PayloadAssumption
    /\ Control!LimitsAssumption /\ Control!MaxChangesAssumption
    /\ PacketsPerInterval \in Nat \ {0}
    /\ DisclosureDelay \in Nat \ {0}
    /\ IntervalLength \in Nat \ {0}
    /\ Datagram!ContextAssumption
    /\ Improved!ImprovedAssumption

(* What the run puts for the constants. *)
Json(s) == [type |-> 1, json |-> s]
Chunk(c, i, d) == [type |-> 2, chain |-> c, index |-> i, data |-> d]
SomePayloads == {Json(<<1>>), Json(<<1, 2, 2>>), Json(<<0, 1>>),
                 Json(<<1, 1, 1, 1, 1, 1, 1>>),
                 Chunk(1, 2, <<0, 1>>), Chunk(1, 1, <<1, 1, 1>>)}

(* Rounds of both modes, with full and shorter last intervals and groups.  *)
Round(mode, total, group, taus) ==
    [mode |-> mode, total |-> total, group |-> group, taus |-> taus]
SomeContexts == {Round("native", 4, 0, 0), Round("native", 5, 0, 0),
                 Round("improved", 5, 3, 2), Round("improved", 6, 3, 1)}

streamVars == <<sent, pipe, pending, delivered, open>>
controlVars == <<type, message, wire, disturbed, changes>>
datagramVars == <<context, packet, datagram, damage, answer>>
improvedVars ==
    <<now, baseline, verdict, rivals, key, judged, excess, incomplete, outcome>>
allVars == <<part, streamVars, controlVars, datagramVars, vars, improvedVars>>

(* Small groups with every pattern of damage, and a group of 100 with      *)
(* neighbours, packets of one residue and packets far apart altered.       *)
GroupSizes == {<<2, 1>>, <<4, 1>>, <<6, 1>>, <<4, 3>>, <<9, 2>>, <<100, 3>>}
AlteredFar == {{0, 1, 2}, {0, 11, 22}, {7, 40, 99}, {97, 98, 99}, {0, 11, 22, 33}}
-----------------------------------------------------------------------------
ControlIdle ==
    /\ type = "PING" /\ message = <<>> /\ wire = Control!NotSent
    /\ disturbed = "no" /\ changes = 0

DatagramIdle ==
    /\ context = CHOOSE c \in Contexts : TRUE
    /\ packet = <<>> /\ datagram = <<>> /\ damage = 0 /\ answer = Datagram!None

GroupIdle ==
    matrix = Matrix(2, 1) /\ macs = <<>> /\ forged = {} /\ result = Nothing

MCInit ==
    /\ part \in {"stream", "control", "packet", "group", "improved"}
    /\ Stream!Init /\ Improved!Init
    /\ IF part = "control" THEN Control!Init ELSE ControlIdle
    /\ IF part = "packet" THEN Datagram!Init ELSE DatagramIdle
    /\ IF part = "group" THEN Init ELSE GroupIdle

MCNext ==
    /\ UNCHANGED part
    /\ \/ /\ part = "stream" /\ Stream!Next
          /\ UNCHANGED <<controlVars, datagramVars, vars, improvedVars>>
       \/ /\ part = "control" /\ Control!Next
          /\ UNCHANGED <<streamVars, datagramVars, vars, improvedVars>>
       \/ /\ part = "packet" /\ Datagram!Next
          /\ UNCHANGED <<streamVars, controlVars, vars, improvedVars>>
       \/ /\ part = "group" /\ Next
          /\ UNCHANGED <<streamVars, controlVars, datagramVars, improvedVars>>
       \/ /\ part = "improved" /\ Improved!Next
          /\ UNCHANGED <<streamVars, controlVars, datagramVars, vars>>

MCSpec == MCInit /\ [][MCNext]_allVars
-----------------------------------------------------------------------------
(* A connection is a channel of frames (TcpFrameStreamDecoder).             *)
FramesInOrder == Stream!FramesInOrder

(* What strEncode writes, resDecode reads; whatever identity a request was *)
(* accepted with, the answers and reports that repeat it can be built.      *)
MessagesMeet == Control!RoundTrip /\ Control!AnswersFit

(* A command, configuration or payload that lost a field is noticed.        *)
LostFieldIsNoticed == Control!LostFieldIsNoticed

(* A packet has one datagram, and the sender's own plan can be encoded; no  *)
(* whole frame stays in a decoder, and a connection breaks at a bad frame.  *)
BytesMeet ==
    /\ Datagram!OneDatagramPerPacket /\ Datagram!PlanIsEncodable
    /\ Stream!NothingHeldBack /\ Stream!BreaksAtBadFrame

(* The verdicts of the improved mode are exact, and none is left open.      *)
VerdictsAreExact == Improved!VerdictsAreExact /\ Improved!NothingLeftOpen
=============================================================================
