------------------------------ MODULE TcpStream ------------------------------
(***************************************************************************)
(* The frames of the management connections: protocol/TcpFrame.cpp.  A     *)
(* frame is a length prefix, a type byte and a payload, either one JSON    *)
(* object or a chunk of a file.  TCP hands the bytes over in pieces of any *)
(* size.  Bytes are digits of base ByteBase and the prefix has PrefixSize  *)
(* of them, so that lengths and their limits stay small.                   *)
(***************************************************************************)
EXTENDS Naturals, Sequences

CONSTANTS
    ByteBase,            \* 256 in the code
    MaximumFrameLength,  \* m_nMaximumFrameLength
    Payloads,            \* frames the two ends write
    MaxFrames            \* bound on the frames of a connection

\* LENGTH_PREFIX_SIZE is 4, FILE_CHUNK_HEADER_SIZE 8 + 4 + 4; here a number
\* of the prefix has two digits and each number of the header one.
PrefixSize == 2
TypeSize == 1
ChunkHeaderSize == 3

(* What is assumed of the constants. *)
LimitAssumption ==
    /\ ByteBase \in Nat \ {0, 1}
    /\ MaximumFrameLength \in TypeSize .. ByteBase * ByteBase - 1

JsonControl == 1
FileBinaryChunk == 2

\* The digit a JSON object starts with.
Brace == 1

(* Numbers of a chunk count from one, and it holds something. *)
PayloadAssumption ==
    Payloads \subseteq
        [type : {JsonControl}, json : Seq(Nat)]
        \cup [type : {FileBinaryChunk}, chain : Nat \ {0}, index : Nat \ {0},
              data : Seq(Nat) \ {<<>>}]

VARIABLES
    sent,       \* frames written by the sender
    pipe,       \* bytes on their way
    pending,    \* m_vecPendingBytes
    delivered,  \* frames the receiver has handled
    open        \* the receiver has not aborted the connection

vars == <<sent, pipe, pending, delivered, open>>

-----------------------------------------------------------------------------
\* appendUint32 and u32Read, most significant byte first.
Digits(n) == <<n \div ByteBase, n % ByteBase>>

Number(s) == s[1] * ByteBase + s[2]

\* The length prefix counts the type byte.
FrameLength(p) == TypeSize + Len(p)

Payload(f) ==
    IF f.type = JsonControl THEN f.json ELSE <<f.chain, f.index, Len(f.data)>> \o f.data

vecEncode(f) == Digits(FrameLength(Payload(f))) \o <<f.type>> \o Payload(f)

Error == [type |-> "error"]

DecodeJson(p) ==
    IF p # <<>> /\ p[1] = Brace THEN [type |-> JsonControl, json |-> p] ELSE Error

\* The constructor of FileBinaryChunk refuses zero numbers and empty data.
DecodeChunk(p) ==
    IF /\ Len(p) > ChunkHeaderSize /\ p[3] = Len(p) - ChunkHeaderSize
       /\ p[1] # 0 /\ p[2] # 0
    THEN [type |-> FileBinaryChunk, chain |-> p[1], index |-> p[2],
          data |-> SubSeq(p, ChunkHeaderSize + 1, Len(p))]
    ELSE Error

\* TcpFrameCodec::resDecode of one whole frame.
resDecode(bytes) ==
    LET p == SubSeq(bytes, PrefixSize + TypeSize + 1, Len(bytes))
        t == bytes[PrefixSize + 1]
    IN IF Len(bytes) < PrefixSize + TypeSize
          \/ Number(bytes) # Len(bytes) - PrefixSize THEN Error
       ELSE IF t = JsonControl THEN DecodeJson(p)
       ELSE IF t = FileBinaryChunk THEN DecodeChunk(p)
       ELSE Error

-----------------------------------------------------------------------------
GivenUp(st) == [rest |-> <<>>, frames |-> st.frames, failed |-> TRUE]

\* One turn of the loop of batConsume: take a frame, wait or give up.
Turn(st) ==
    LET n == Number(st.rest)
        frame == resDecode(SubSeq(st.rest, 1, PrefixSize + n))
    IN IF st.failed \/ Len(st.rest) < PrefixSize THEN st
       ELSE IF n < TypeSize \/ n > MaximumFrameLength
       THEN GivenUp(st)
       ELSE IF Len(st.rest) < PrefixSize + n THEN st
       ELSE IF frame = Error THEN GivenUp(st)
       ELSE [st EXCEPT !.frames = Append(@, frame),
                       !.rest = SubSeq(@, PrefixSize + n + 1, Len(@))]

\* The state of the loop after so many turns.
After(bytes, turns) ==
    LET after[n \in Nat] == IF n = 0
                            THEN [rest |-> bytes, frames |-> <<>>, failed |-> FALSE]
                            ELSE Turn(after[n - 1])
    IN  after[turns]

\* A turn takes a byte at least, so one turn per byte is enough.
Consumed(bytes) == After(bytes, Len(bytes))

-----------------------------------------------------------------------------
Init ==
    /\ sent = <<>> /\ pipe = <<>> /\ pending = <<>>
    /\ delivered = <<>> /\ open = TRUE

\* bWriteControlMessage, bWriteFrame: the whole frame in one write.
Write(f) ==
    /\ open /\ Len(sent) < MaxFrames
    /\ sent' = Append(sent, f) /\ pipe' = pipe \o vecEncode(f)
    /\ UNCHANGED <<pending, delivered, open>>

\* Defect: the rest of a bad frame is read as if a frame began there.
ReadOn(n) ==
    LET got == Consumed(pending \o SubSeq(pipe, 1, n))
    IN /\ open /\ n <= Len(pipe)
       /\ pipe' = SubSeq(pipe, n + 1, Len(pipe))
       /\ pending' = got.rest
       /\ delivered' = delivered \o got.frames
       /\ UNCHANGED <<sent, open>>

\* recv, readAll: every owner of a decoder handles the frames of a batch, or,
\* if the batch ends in an error, drops them all and closes the connection.
Read(n) ==
    LET got == Consumed(pending \o SubSeq(pipe, 1, n))
    IN /\ open /\ n <= Len(pipe)
       /\ pipe' = IF got.failed THEN <<>> ELSE SubSeq(pipe, n + 1, Len(pipe))
       /\ pending' = got.rest
       /\ delivered' = IF got.failed THEN delivered ELSE delivered \o got.frames
       /\ open' = ~got.failed
       /\ UNCHANGED sent

Next ==
    \/ \E f \in Payloads : Write(f)
    \/ \E n \in 1 .. Len(pipe) : Read(n)

Spec == Init /\ [][Next]_vars

-----------------------------------------------------------------------------
\* A frame the receiver takes: within the limit, and its payload is sound.
Acceptable(f) ==
    /\ FrameLength(Payload(f)) <= MaximumFrameLength
    /\ resDecode(vecEncode(f)) = f

\* The decoder never holds a whole frame back, nor more than one frame.
NothingHeldBack ==
    /\ Len(pending) < PrefixSize + MaximumFrameLength
    /\ pipe = <<>> /\ open => delivered = sent /\ pending = <<>>

\* The connection breaks only because of a frame no decoder takes; nothing at
\* or behind that frame was handled, and of the frames before it a prefix.
BreaksAtBadFrame ==
    ~open => \E i \in Len(delivered) + 1 .. Len(sent) :
                /\ ~Acceptable(sent[i])
                /\ \A j \in 1 .. i - 1 : Acceptable(sent[j])

\* The byte stream implements the channel of frames.
Channel == INSTANCE FifoChannel WITH Frames <- Payloads
FramesInOrder == Channel!Spec
=============================================================================
