----------------------------- MODULE FifoChannel -----------------------------
(***************************************************************************)
(* What a framed TCP connection promises: the receiver gets the frames in  *)
(* the order they were sent, none changed, none twice, until the           *)
(* connection is closed; then it gets no more.                             *)
(***************************************************************************)
EXTENDS Naturals, Sequences

CONSTANT Frames

VARIABLES
    sent,       \* frames the sender has written
    delivered,  \* frames the receiver has handled
    open

Init == sent = <<>> /\ delivered = <<>> /\ open = TRUE

Send(f) == open /\ sent' = Append(sent, f) /\ UNCHANGED <<delivered, open>>

\* One read may complete several frames.
Deliver ==
    /\ open /\ open' = open /\ sent' = sent
    /\ \E n \in Len(delivered) .. Len(sent) : delivered' = SubSeq(sent, 1, n)

\* The frame at the break is lost with everything behind it.
Close ==
    /\ open /\ open' = FALSE /\ sent' = sent
    /\ \E n \in Len(delivered) .. Len(sent) : delivered' = SubSeq(sent, 1, n)

Next == (\E f \in Frames : Send(f)) \/ Deliver \/ Close

Spec == Init /\ [][Next]_<<sent, delivered, open>>
=============================================================================
